CONSTANTS
  c1 = c1
  c2 = c2
  c3 = c3
  r1 = r1
  r2 = r2
  t1 = t1
  t2 = t2
  Callers = {c1, c2}
  Calls <- AllCalls
SPECIFICATION Spec
PROPERTIES
  Linearizable
