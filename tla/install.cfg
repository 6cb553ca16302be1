SPECIFICATION Spec
CONSTANTS
  PkgList <- MCPkgList
  Owner <- MCOwner
  DependsOf <- MCDependsOf
  RevDependsOf <- MCRevDependsOf
  ProvidesOf <- MCProvidesOf
  Essential = {"base"}
  ForceLoopBreak = FALSE
  ImmediateConfigure = TRUE
  MaxLoopCount = 6
  Conffiles = {"exim"}
  Systems <- MCSystems
  MaxFaults = 1
INVARIANT
  NeverRefused
  EndsClean
PROPERTY
  FollowsTheRules
