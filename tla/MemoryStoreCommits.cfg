CONSTANTS
  c1 = c1
  c2 = c2
  c3 = c3
  r1 = r1
  r2 = r2
  t1 = t1
  t2 = t2
  Callers = {c1, c2, c3}
  Calls <- CommitCalls
SPECIFICATION Spec
SYMMETRY CallerSymmetry
INVARIANTS
  TypeOK
  CommitsAreWhole
  HalfCommitsAreUnseen
PROPERTIES
  StoredStays
