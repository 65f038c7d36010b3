SPECIFICATION Spec
CONSTANTS
  f1 = f1
  f2 = f2
  Images = {i1, i2, i3}
  Files = {f1, f2}
  Viewers = {v1, v2}
  MaxEntries = 2
  FileSize <- MCFileSize
  EditedSizes = {2}
  Limits = {0, 2}
  Word = 64
  None = None
  NoName = NoName
\* An array overrun, or the use of a freed block, aborts the program.
CHECK_DEADLOCK FALSE
PROPERTY HoldsEveryLoad
