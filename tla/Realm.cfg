SPECIFICATION Spec
CONSTANTS
  None = None
  d1 = d1
  d2 = d2
  d3 = d3
  f1 = f1
  f2 = f2
  w1 = w1
  w2 = w2
  s1 = s1
  s2 = s2
  Plain = Plain
  Odd = Odd
  Bad = Bad
SYMMETRY Symmetry
INVARIANTS TabsSafe
PROPERTIES TreeSafe AccountsSafe FormSafe SearchSafe
CHECK_DEADLOCK FALSE
