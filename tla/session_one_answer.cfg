SPECIFICATION Spec
CONSTANTS
  Viewers = {v1, v2, v3}
  Images = {i1, i2}
  Files = {f1, f2}
  None = None
  NoName = NoName
  MaxQueries = 2
\* The program stops.
CHECK_DEADLOCK FALSE
PROPERTY OwnAnswer
