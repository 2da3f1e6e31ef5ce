SPECIFICATION FairSpec
CONSTANT Client = cr52
INVARIANT HandOver
PROPERTY BellSpec
