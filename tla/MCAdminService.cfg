SPECIFICATION MCSpec
CONSTANTS
  cache = cache
  pool = pool
  beta = beta
  c1 = c1
  c2 = c2
  None = None
  Invalid = Invalid
  Unknown = Unknown
  Mask = Mask
  EmptyString = ""
  Names = {cache, pool, beta}
  Keys = {cache, pool}
  Mutable = {cache}
  RestartRequired = {}
  Secret = {}
  Raws = {"true", "false"}
  Values = {"on", "off"}
  Decode <- MCDecode
  Default <- MCDefault
  FlagNames = {cache, pool, beta}
  Known = {cache}
  FlagDefault <- MCFlagDefault
  NoRow = NoRow
  Env <- MCEnv
  HasFlags = TRUE
  MaxLate = 1
  Clients = {c1, c2}
SYMMETRY ClientSymmetry
CONSTRAINT OneRefusal
INVARIANTS AnswerMatchesEffect FaultyRequestsAre4xx AnsweredWritesPersist
