SPECIFICATION Spec
CONSTANTS
  Items <- AbortItems
  Uris <- AbortUris
  StoreUris = {"s"}
  NoMethod = {}
  NoURI = "nouri"
  HostQueue <- AbortHost
  GenericQueue = "http"
  HostLimit = 2
  StoreQueue <- MergeStore
  MaxPipeDepth <- AbortPipe
  Flaky = {"h1", "h2"}
  FirstURI <- AbortFirst
  Alternates <- AbortAlts
  Stages <- AbortNone
  Spawns <- AbortSpawns
  Priority <- AbortPrio
  MetaKey <- AbortKey
  Hashed = {"t1", "t2", "x"}
  Weak = {"w"}
  InitialItems <- AbortOrder
  Txn = {"t1", "t2", "w", "x"}
  Redirects <- AbortRedir
  MirrorAlts <- AbortMirror
  FailKinds <- AbortKinds
  MaxRetries = 1
  MaxDelay = 2
  MaxReschedule = 0
  MayDie = {"h1"}
  MayCancel = TRUE
INVARIANT
  LateAnswersSafe
PROPERTY
  AbortIsFinal
