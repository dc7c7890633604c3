SPECIFICATION FairSpec
CONSTANTS
  hot1 = hot1
  hot2 = hot2
  restart = restart
  w1 = w1
  w2 = w2
  r1 = r1
  None = None
  Invalid = Invalid
  Unknown = Unknown
  Pending = Pending
  Mask = Mask
  Boot = Boot
  EmptyString = ""
  Keys = {hot1, restart}
  Mutable = {hot1, restart}
  RestartRequired = {restart}
  Secret = {restart}
  Names = {hot1, restart}
  Raws = {"json1", "bad"}
  Values = {"int0", "int1"}
  Decode <- MCDecode
  Default <- MCDefault
  Writers = {w1}
  Readers = {r1}
  Durable = TRUE
  MaxOrphans = 0
INVARIANTS TypeOK ViewIsSnapshot
PROPERTIES HotSwapOnly CallsReturn ImplementsFairContract
