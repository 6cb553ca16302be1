SPECIFICATION FairSpec
CONSTANTS
  PkgList <- LoopPkgs
  VersionList <- LoopVers
  Owner <- LoopOwner
  DependsList <- LoopDeps
  CurrentVer <- LoopCurrent
  Candidate <- LoopCandidate
  Pin <- LoopPin
  Downloadable = {"a2", "b1", "c1", "d2", "x1"}
  Source <- LoopSource
  Essential = {"d"}
  Provides = {"v"}
  OldLibs = {"a2"}
  InstallRecommends = TRUE
  MarkChoices <- LoopMarks
  Requests <- LoopRequests
  MayTimeOut = TRUE
INVARIANT
  SolutionSound
  FailsOnlyIfUnsolvable
  SearchExact
PROPERTY
  SolveEnds
