SPECIFICATION Spec
CONSTANTS
  a = a  b = b  c = c  k1 = k1  k2 = k2
  Names = {a, b, c}
  Keys = {k1, k2}
  MaxCalls = 3
SYMMETRY Symmetric
INVARIANTS HasCycleIsExact CyclesInEveryKnot CycleIsConflict
