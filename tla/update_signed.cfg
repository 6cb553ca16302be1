SPECIFICATION FairSpec
CONSTANTS
  Indexes = {"Packages", "Sources"}
  Optional = {"Sources"}
  MaxVersion = 3
  Content <- MCContent
  Layouts <- SignedLayouts
  Lag = FALSE
  AllowInsecure = FALSE
  AllowDowngrade = FALSE
  MayCrash = FALSE
  MayDie = FALSE
  MayCancel = FALSE
  MayFail = FALSE
INVARIANT
  TypeOK
  ListsConsistent
PROPERTY
  UpdateEnds
