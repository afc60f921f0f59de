SPECIFICATION FairSpec
CONSTANTS
  Persistent = TRUE
  MaxFrames = 4
  MaxTicks = 8
  Interval = 0
  DeadlineMode = FALSE
  FrameWait = 0
  StopOnCaptureFailure = TRUE
  StopOnSendFailure = TRUE
  Faults = FALSE
  Delays = {0}
  Sizes = {2}
  ReadLen = 1
  PipeSize = 2
  Hold = 0
  Ahead = 1
PROPERTY RunEnds
CHECK_DEADLOCK FALSE
