SPECIFICATION Spec

CONSTANTS
  old = old
  new = new
  Clis = {new}
  NoCli = NoCli
  Latest = 1
  Known <- NewKnowsOne
  Deployments <- ProdPostgres

PROPERTIES
  VersionShowsDirty
