SPECIFICATION Spec

CONSTANTS
  i1 = i1
  i2 = i2
  s1 = s1
  s2 = s2
  Instances <- TwoInstances
  Clients = {c1}
  Secrets <- TwoSecrets
  Second = 3
  TTLs = {1, 3, 5, 6}
  MaxSkew = 2
  MaxTime = 13
  NoToken = NoToken

INVARIANTS
  TypeOK

PROPERTIES
  AcceptedInTime
  RefusedWhenDue
