SPECIFICATION FairSpec
CONSTANTS
  PkgList <- MCPkgs
  VersionList <- MCVers
  Owner <- MCOwner
  ProvidesOf <- MCProvides
  DependsList <- MCDeps
  CurrentVer <- MCCurrent
  Candidate <- MCCandidate
  Downloadable = {"a2", "b1", "c1", "d2", "e1", "f1", "f2", "all1", "x1"}
  Source <- MCSource
  Essential = {"d"}
  OldLibs = {"a2"}
  InstallRecommends = TRUE
  Size <- MCSize
  NeverMarkAuto = {"all1"}
  Systems <- MCSystems
  Commands <- MCCommands
  MaxCommands = 2
  MaxCounter = 5
INVARIANT
  PlanSound
  AutomaticSafe
PROPERTY
  CommandEnds
