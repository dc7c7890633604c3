SPECIFICATION FairSpec
CONSTANTS
  p1 = p1
  s1 = s1
  s2 = s2
  atlas = atlas
  A = A
  None = None
  Zero = Zero
  LocNames = {"fr"}
  Payloads = {A}
  Providers = {atlas}
  Features <- MCFeatures
  Parsers = {p1}
  Setters = {s1, s2}
INVARIANTS AnswerWasRegistered KnownNamesResolve
PROPERTIES RegistryReturns
