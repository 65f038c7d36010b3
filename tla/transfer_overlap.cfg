SPECIFICATION Spec
CONSTANTS
  Viewers = {v1, v2}
  Pictures = {p1, p2}
  Programs = {t1}
  Faithful = {t1}
  Self = Self
  None = None
  MaxTransfers = 2
SYMMETRY Symmetry
\* The use of a viewer that has gone ends a behaviour.
CHECK_DEADLOCK FALSE
INVARIANT UnmodifiedIsKept
