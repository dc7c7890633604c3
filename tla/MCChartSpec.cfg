SPECIFICATION Spec
CONSTANTS
  Nil = Nil
  NotFinite = NotFinite
  maxSeries = 2
  targetTicks = 6
  timeTickSteps <- MCSteps
  Unit = 100
  Minute = 6
  Milli = 2
  Reach = 12300
  Decades <- MCDecades
  Texts <- MCTexts
  SeriesChoices <- MCSeriesChoices
  PanelChoices <- MCPanelChoices
  RoseChoices <- MCRoseChoices
  XPins <- MCXPins
  Samples <- MCSamples
  Now <- MCNow
  MaxPanels = 2
CONSTRAINT VariedOnce
CHECK_DEADLOCK FALSE
INVARIANTS AxisFitsData ResolvedIsStable MarksShowReadings BandsMatchStatus RoseCountsEveryReading SamplesChart
