SPECIFICATION Spec
CONSTANTS
  f1 = f1
  f2 = f2
  Images = {i1, i2, i3, i4}
  Files = {f1, f2}
  Viewers = {v1, v2}
  MaxEntries = 3
  FileSize <- MCFileSize
  EditedSizes = {2}
  Limits = {0, 2}
  Word = 64
  None = None
  NoName = NoName
SYMMETRY Symmetry
\* An array overrun, or the use of a freed block, aborts the program.
CHECK_DEADLOCK FALSE
INVARIANTS
  TypeOK
  HoldersAreCounted
  HeldAreCached
  IdleWithinLimit
  WatchedAreViewed
PROPERTIES
  EditsAreNotKept
  EmptiesOnceUnviewed
  ReadThrough
