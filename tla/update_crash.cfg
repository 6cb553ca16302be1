SPECIFICATION Spec
CONSTANTS
  Indexes = {"Packages", "Sources"}
  Optional = {"Sources"}
  MaxVersion = 3
  Content <- MCContent
  Layouts <- ClearsignedLayouts
  Lag = TRUE
  AllowInsecure = FALSE
  AllowDowngrade = FALSE
  MayCrash = TRUE
  MayDie = FALSE
  MayCancel = TRUE
  MayFail = TRUE
INVARIANT
  NoStaleIndex
PROPERTY
  NoDowngrade
