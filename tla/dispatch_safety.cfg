SPECIFICATION Spec
CONSTANTS
  e1 = e1
  e2 = e2
  m1 = m1
  m2 = m2
  m3 = m3
  w1 = w1
  w2 = w2
  Handlers <- MCHandlers
  ClassOf <- MCClassOf
  WindowOf <- MCWindowOf
  Windows = {w1, w2}
  AnyWindow = AnyWindow
  Smallest = 2
  MaxDepth = 2
INVARIANT TypeOK
PROPERTY Promise
