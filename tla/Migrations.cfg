SPECIFICATION Spec

CONSTANTS
  old = old
  new = new
  Clis <- OldAndNew
  NoCli = NoCli
  Latest = 2
  Known <- OldKnowsOne
  Deployments <- Everywhere

INVARIANTS
  TypeOK
  LockOfTheWorker
  VersionTellsSchema

PROPERTIES
  UpDone
  ImplementsHistory
