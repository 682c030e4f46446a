SPECIFICATION Spec
CONSTANTS
  n1 = n1  n2 = n2  n3 = n3  t0 = t0  t1 = t1  t2 = t2  A = A  B = B  F = F
  Null = Null
  Node = {n1, n2, n3}
  Name = {t0, t1, t2, A, B, F}
  Temp = {t0, t1, t2}
  Path <- MCPath
  Base = {1, 2}
  Layouts <- Both
  MayRehash = FALSE
SYMMETRY NodeSymmetry
INVARIANTS
  Resolvable
  InputsQueuedOnce
  TempsCleaned
PROPERTIES
  BindingsOnlyImprove
CHECK_DEADLOCK FALSE
