SPECIFICATION Spec
CONSTANTS
  Packages <- FourPackages
  Available <- FourAvailable
  Files = {"f"}
  MayRace = FALSE
INVARIANT
  DeltaExact
  LoadRestores
