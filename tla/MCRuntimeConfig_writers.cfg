SPECIFICATION Spec
CONSTANTS
  hot1 = hot1
  hot2 = hot2
  restart = restart
  w1 = w1
  w2 = w2
  r1 = r1
  None = None
  Invalid = Invalid
  Unknown = Unknown
  Pending = Pending
  Mask = Mask
  Boot = Boot
  EmptyString = ""
  Keys = {hot1, hot2}
  Mutable = {hot1, hot2}
  RestartRequired = {}
  Secret = {}
  Names = {hot1, hot2}
  Raws = {"json1", "bad"}
  Values = {"int0", "int1"}
  Decode <- MCDecode
  Default <- MCDefault
  Writers = {w1, w2}
  Readers = {}
  Durable = TRUE
  MaxOrphans = 1
SYMMETRY WriterSymmetry
INVARIANTS AckedPersisted EffectiveLive
PROPERTIES ImplementsContract
