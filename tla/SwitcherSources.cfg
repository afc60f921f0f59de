SPECIFICATION Spec
CONSTANTS
  Left = Left
  Right = Right
  Other = Other
  e1 = e1
  e2 = e2
INVARIANTS DecoderInvariant SelectionInvariant LiveTwoViewInvariant
PROPERTIES SourceSteps
CHECK_DEADLOCK FALSE
