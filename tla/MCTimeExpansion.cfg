SPECIFICATION Spec
CONSTANTS
  MaxTimestamps = 4
  MaxResolutionHours = 10
  Hour = 6
  Second = 2
  Day = 12
  MaxDuration = 63
  Starts <- MCStarts
  Ends <- MCEnds
  Numbers <- MCNumbers
  IsoSteps <- MCIsoSteps
  Shortcuts <- MCShortcuts
  Nil = Nil
INVARIANTS CappedExpansion HoursMeanGrid ShortcutsResolve
