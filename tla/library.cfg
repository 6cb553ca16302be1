SPECIFICATION Spec
CHECK_DEADLOCK FALSE
INVARIANT
  SitesTried
  CacheExact
  CacheFresh
  PatchesRight
  ItemsServed
  FilesExact
  SourcesAsWritten
  AcceptedIsSigned
  PinsAsWritten
  RecordsExact
  DialogueFaithful
  LocksProtect
  DiscAdded
  TreeExact
  VersionsOrdered
  ErrorsExact
