SPECIFICATION Spec

CONSTANTS
  p1 = p1
  p2 = p2
  ip1 = ip1
  Procs <- OneProc
  IPs <- OneIP
  Max = 2
  AuthMax = 1

INVARIANTS
  RefusedBodies
