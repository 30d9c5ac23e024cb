SPECIFICATION Spec
CONSTANTS
  Points = {p1, p2, p3}
  MaxSamples = 2
INVARIANT ProvedHoldsOnSurface
