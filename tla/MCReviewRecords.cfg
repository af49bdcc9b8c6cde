SPECIFICATION Spec
CONSTANTS
  MaxCaptureCount = 3
  MaxFindings = 8
  MaxAgentFindings = 3
  MaxImageDimension = 2
  MaxFrameBytes = 12
  RecordBytes = 1
  Image <- Images
  Scale = {s1, s2}
  Response <- Responses
  MaxReviews = 2
SYMMETRY Symmetry
CHECK_DEADLOCK FALSE
INVARIANTS
  TypeOK
  FactsMeasured
  WholeResponse
  RefusedForLimitsOnly
  PairIsMeasured
