SPECIFICATION Spec
CONSTANTS
  a1 = a1 a2 = a2 c1 = c1 c2 = c2 t1 = t1 t2 = t2 t3 = t3 j1 = j1 j2 = j2
  Agents = {a1}
  Convs = {c1}
  Tasks = {t1, t2}
  Jobs = {j1, j2}
  ConvOf <- FirstTwoTasks
  Limit = 1
  MaxRequests = 2
  NoAgent = NoAgent NoConv = NoConv NoTask = NoTask
SYMMETRY Symmetry
INVARIANTS GivenOnce
CHECK_DEADLOCK FALSE
