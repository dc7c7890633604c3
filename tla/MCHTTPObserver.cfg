SPECIFICATION Spec
CONSTANTS
  q1 = q1
  q2 = q2
  s1 = s1
  s2 = s2
  Requests = {q1, q2}
  Starters = {s1, s2}
  Urls <- MCUrls
SYMMETRY Symmetry
CONSTRAINT OneOutcome
CHECK_DEADLOCK FALSE
INVARIANTS MetricsBalance SpanAgreesWithMetrics CountedAsAnswered CollectorsRegisteredOnce NoSecretInSpan
