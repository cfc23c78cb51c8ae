SPECIFICATION Spec

CONSTANTS
  r1 = r1
  r2 = r2
  r3 = r3
  Reqs = {r1, r2, r3}
  Configs <- AllConfigs

INVARIANTS
  TypeOK
  ServesOnlyChecked
  CutOffAtTheEndOnly
  WaitsForNothingElse

PROPERTIES
  UnavailableIsReal
  SignalEnds
  ProbeEnds
