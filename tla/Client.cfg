SPECIFICATION Spec
CONSTANTS
  r1 = r1
  r2 = r2
  s1 = s1
  s2 = s2
  endpoint = endpoint
  token = token
  Unresolved = Unresolved
INVARIANTS
  ClientLoopInvariant SweepInvariant ReaderInvariant EncodeLoopInvariant
  FragmentSendInvariant CodecsInvert
PROPERTIES ClientLoopSteps SweepSteps CadenceSteps
\* Every loop here has limits and stops when it reaches one.
CHECK_DEADLOCK FALSE
