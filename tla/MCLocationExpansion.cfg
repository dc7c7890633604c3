SPECIFICATION FairExpansionSpec
CONSTANTS
  MaxRadiusKm = 200
  MaxExpandedRadiusPoints = 7000
  radiusRingStepKm = 3
  MaxPolylinePoints = 2000
  MaxPolygonVertices = 5000
  MaxPointsPerDegree = 100
  MaxBboxGridPoints = 1000000
  maxGridPoints = 60
  MaxLat = 8192
  MaxLon = 8192
  Grains = 8192
  Tolerance = 8
  Significand = 1024
  Quanta <- MCQuanta
  Degree = 20
  NaN = NaN
  Inf = Inf
  LatAxes <- MCLatAxes
  LonAxes <- MCLonAxes
  Outlines <- MCOutlines
  MaxPasses = 16
  MaxDivisor = 131072
  Radii <- MCRadii
  SegmentCounts <- MCSegmentCounts
  Spans <- MCSpans
  Densities <- MCDensities
  VertexCounts <- MCVertexCounts
  InsideCounts <- MCInsideCounts
INVARIANTS ExpansionWithinCap CircleIsComplete GridMatchesEstimate
PROPERTIES ExpansionEnds
