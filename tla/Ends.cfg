SPECIFICATION FairSpec
CONSTANTS
  r1 = r1
  s1 = s1
  Left = Left
  Right = Right
  Other = Other
  e1 = e1
PROPERTIES StopsWhenTold BoundedRunEnds NothingWaitsForEver
\* Every component here may end; the properties say when it must.
CHECK_DEADLOCK FALSE
