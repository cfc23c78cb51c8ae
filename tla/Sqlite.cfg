SPECIFICATION Spec

CONSTANTS
  p1 = p1
  p2 = p2
  p3 = p3
  i1 = i1
  i2 = i2
  t1 = t1
  t2 = t2
  d1 = d1
  Procs <- ThreeProcs
  Instances <- OneInstance
  Home <- AllAtHome
  MaxOpenConns = 2
  RowLocks = FALSE
  NoProc = NoProc
  Titles <- MCTitles
  Dues <- MCDues
  NoDue = NoDue
  Keep = Keep
  NoTask = NoTask
  MaxId = 1
  Requests <- AllRequests

SYMMETRY Interchange

INVARIANTS
  LocksOfOpenTransactions
  BlockersBlock

PROPERTIES
  ImplementsTaskStore
