---------------------------- MODULE ShapeLookup ----------------------------
(***************************************************************************)
(* The lookup map NewShapeProvider builds from the features of the country *)
(* data: one key for the name, one for the name without spaces, one for    *)
(* each ISO code and the aliases, a later entry replacing an earlier one.  *)
(* Names are lower-cased and trimmed; a polygon is named after its         *)
(* country.                                                                *)
(***************************************************************************)
EXTENDS SequencesExt

\* A feature: name, and squashed, the name without its spaces; the two ISO codes
\* with the de-facto (EH) codes that stand in for a missing one; the geometry.
Feature(name, squashed, a2, a2eh, a3, a3eh, geometry) ==
    [name |-> name, squashed |-> squashed, a2 |-> a2, a2eh |-> a2eh,
     a3 |-> a3, a3eh |-> a3eh, geometry |-> geometry]

\* Anything else is "unsupported geometry type", or coordinates that do not parse.
parseGeometry(f) == f.geometry \in {"Polygon", "MultiPolygon"}

\* Mutant: there is no fallback for a missing code.
isoCodeAsGiven(code, eh) == code

isoCode(code, eh) == IF code \in {"", "-99"} THEN eh ELSE code

KeysOf(f) == {f.name, f.squashed, isoCode(f.a2, f.a2eh), isoCode(f.a3, f.a3eh)}

\* The features one after the other; one that does not parse is skipped.
Register(lookup, f) ==
    IF ~parseGeometry(f) THEN lookup
    ELSE LET keys == KeysOf(f) \ {"", "-99"} IN
         [k \in DOMAIN lookup \cup keys |-> IF k \in keys THEN f.name ELSE lookup[k]]

\* An alias whose country is not in the data is left out.
RegisterAlias(lookup, alias) ==
    IF alias.naturalEarthName \notin DOMAIN lookup THEN lookup
    ELSE [k \in DOMAIN lookup \cup {alias.alias} |->
             IF k = alias.alias THEN lookup[alias.naturalEarthName] ELSE lookup[k]]

countryAliases ==
    << [alias |-> "czechrepublic", naturalEarthName |-> "czechia"],
       [alias |-> "czech republic", naturalEarthName |-> "czechia"] >>

NewShapeProvider(features) ==
    FoldLeft(RegisterAlias,
             FoldLeft(Register, [k \in {} |-> ""], features),
             countryAliases)
=============================================================================
