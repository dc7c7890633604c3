-------------------------- MODULE MCKeyValidation --------------------------
EXTENDS KeyValidation
Key(name, kind, def, min, max, enum) ==
    [name |-> name, kind |-> kind, default |-> def, min |-> min, max |-> max, enum |-> enum]
\* Every kind, with whole and fractional, two-sided, one-sided and no bounds, and
\* defaults in every Go type, one of them so many seconds that the duration wraps.
S == Unit
MCDeclarations ==
    { Key("ttl", "duration", GoInt(2), {0}, {3 * S}, {}),
      Key("ttl", "duration", GoFloat(3 * S), {}, {}, {}),
      Key("ttl", "duration", GoInt(60), {S}, {}, {}),
      Key("ttl", "duration", GoInt(1), {4480}, {9472}, {}),
      Key("ttl", "duration", GoInt(1), {9 * S}, {150 * S}, {}),
      Key("size", "int", GoFloat(2 * S), {S}, {3 * S}, {}),
      Key("size", "int", GoFloat(S + S \div 2), {}, {}, {}),
      Key("size", "int", GoInt(1), {}, {}, {}),
      Key("gain", "float", GoInt(1), {-S}, {4608}, {}),
      Key("gain", "float", GoFloat(5), {}, {}, {}),
      Key("mode", "enum", GoString("a"), {}, {}, {"a"}),
      Key("mode", "string", GoString(""), {}, {}, {}),
      Key("on", "bool", GoBool("true"), {}, {}, {}),
      Key("on", "bool", GoInt(1), {}, {}, {}),
      Key("", "bool", GoBool("true"), {}, {}, {}) }
\* Below, on and above every bound; seconds whose conversion loses a tick (6400, 6912) or
\* gains one; numbers beyond the largest duration (127 ticks) and the largest integer.
MCNumbers ==
    { -150 * S, -9 * S, -S, -1, 0, 272, S - 1, S, 4352, 4480, 4481, 4608, S + S \div 2, 6400, 6912,
      2 * S, 9472, 3 * S, 3 * S + 256, 34816, 9 * S, 127 * S, 128 * S, 150 * S }
=============================================================================
