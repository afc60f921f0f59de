SPECIFICATION Spec
INVARIANTS DisplayInvariant ControlInvariant
PROPERTIES PreviewSteps
CHECK_DEADLOCK FALSE
