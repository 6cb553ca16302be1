SPECIFICATION Spec
CONSTANTS
  Indexes = {"Packages", "Sources"}
  Optional = {"Sources"}
  MaxVersion = 3
  Content <- MCContent
  Layouts <- AllLayouts
  Lag = FALSE
  AllowInsecure = TRUE
  AllowDowngrade = TRUE
  MayCrash = FALSE
  MayDie = TRUE
  MayCancel = FALSE
  MayFail = FALSE
PROPERTY
  FailureKeepsLists
