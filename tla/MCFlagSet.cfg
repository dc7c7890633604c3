SPECIFICATION MCSpec
CONSTANTS
  f1 = f1
  f2 = f2
  retired = retired
  g1 = g1
  g2 = g2
  None = None
  Boot = Boot
  FlagNames = {f1, f2, retired}
  Known = {f1, f2}
  FlagDefault <- MCDefault
  NoRow = NoRow
  MaxLate = 1
  Togglers = {g1, g2}
INVARIANTS FlagsAsTold
PROPERTIES ImplementsFlagContract
