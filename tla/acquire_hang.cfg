SPECIFICATION FairSpec
CHECK_DEADLOCK FALSE
CONSTANTS
  Items <- AbortItems
  Uris <- AbortUris
  StoreUris = {"s"}
  NoMethod = {}
  NoURI = "nouri"
  HostQueue <- AbortHost
  GenericQueue = "http"
  HostLimit = 2
  StoreQueue <- MergeStore
  MaxPipeDepth <- AbortPipe
  Flaky = {}
  FirstURI <- AbortFirst
  Alternates <- AbortNone
  Stages <- AbortNone
  Spawns <- HangSpawns
  Priority <- AbortPrio
  MetaKey <- AbortKey
  Hashed = {"t1", "t2", "x"}
  Weak = {}
  InitialItems <- AbortOrder
  Txn = {"t1", "t2"}
  Redirects <- AbortRedir
  MirrorAlts <- AbortMirror
  FailKinds <- HangKinds
  MaxRetries = 2
  MaxDelay = 2
  MaxReschedule = 0
  MayDie = {}
  MayCancel = FALSE
PROPERTY
  RunReturns
