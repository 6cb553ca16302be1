SPECIFICATION FairSpec
CONSTANTS
  Items <- MergeItems
  Uris <- MergeUris
  StoreUris = {"s3"}
  NoMethod = {"n3"}
  NoURI = "nouri"
  HostQueue <- MergeHost
  GenericQueue = "http"
  HostLimit = 1
  StoreQueue <- MergeStore
  MaxPipeDepth <- MergePipe
  Flaky = {}
  FirstURI <- MergeFirst
  Alternates <- MergeAlts
  Stages <- MergeStages
  Spawns <- MergeSpawns
  Priority <- MergePrio
  MetaKey <- MergeKey
  Hashed = {"a", "c"}
  Weak = {}
  InitialItems <- MergeOrder
  Txn = {}
  Redirects <- MergeRedir
  MirrorAlts <- MergeMirror
  FailKinds <- MergeKinds
  MaxRetries = 1
  MaxDelay = 2
  MaxReschedule = 1
  MayDie = {}
  MayCancel = FALSE
INVARIANT
  QueuesExact
PROPERTY
  RunReturns
