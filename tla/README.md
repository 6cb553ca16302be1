# A verification project for APTUM

APTUM is a fork of Debian's package manager APT. This directory holds TLA+
models of the parts of it that are hard to test, the TLC configurations that
check them on small instances, and proofs, checked by TLAPS, of what matters
most. All paths below are relative to the repository; line numbers are in the
`map` of `PROJECT.json`.

## 1. The system

### Parts, state, operations

| Part | State | Operations | Correct when |
|---|---|---|---|
| Acquire engine: `apt-pkg/acquire.cc`, `acquire-worker.cc` | queues of queue items with their owners, `PipeDepth` per queue, `ToFetch`, one worker (a method process) per queue, per item: status, retries, `FetchAfter`, past redirections, alternatives | `Enqueue`, `Dequeue`, `Queue::Cycle`, `Startup`, `Shutdown`, the messages a worker reads (start, done, failure, redirect), `Run` | every item gets a final status, the counters agree with the queues, no answer goes to the wrong item, `Run` returns |
| Repository update: `acquire-item.cc` (`pkgAcqMeta*`, `pkgAcqIndex`), `update.cc` | the transaction and its state, the loaded and the previous Release file, what is staged, the files in `lists/` | fetch and verify InRelease, or Release and Release.gpg; `QueueIndexes`; `AbortTransaction`, `CommitTransaction`; the clean up in `AcquireUpdate` | `lists/` is changed all or nothing, is never older than its Release file says, never goes backwards |
| Other items: `acquire-item.cc` (pdiffs, archives, auxiliary files), `methods/rred.cc` | alternatives, bad sites, partial files, chains of patches | choose, fetch, verify, apply, fall back | the right content, or none |
| Dependency cache, resolver, upgrade, install: `depcache.cc`, `algorithms.cc`, `upgrade.cc`, `private-install.cc` | marks, automatic flags, counters, `extended_states` | `MarkInstall`, `MarkDelete`, `MarkKeep`, `MarkAndSweep`, `Resolve`, `ResolveByKeep` | the plan is sound and what was asked for; automatic removals are harmless |
| Solver 3.0: `solver3.cc` | assignment, trail, work heap, decision levels | `FromDepCache`, `Assume`, `Propagate`, `Pop`, `Solve`, `ToDepCache` | the answer satisfies every clause; it fails only if there is none; backtracking restores the earlier state |
| External solvers: `edsp.cc`, `cmdline/apt-internal-*.cc` | the lines of a request, a scenario and an answer | write, read, apply | both sides mean the same |
| Order of installation, dpkg driver: `orderlist.cc`, `packagemanager.cc`, `deb/dpkgpm.cc` | list, flags per package, planned operations, position per package | `OrderUnpack`, `SmartUnPack`, `SmartConfigure`, `SmartRemove`, `Go`, `ProcessDpkgStatusLine` | dpkg never has to refuse; what `Go` prepared is taken back |
| Package cache: `pkgcachegen.cc`, `deb/deblistparser.cc`, `cachefile.cc`, `indexfile.cc` | groups, packages, versions, provides; stored images with sizes and times | merge a stanza; check, build and store caches | the cache says what the stanzas say, in any order; an open cache is not stale |
| Sources, trust, policy: `sourcelist.cc`, `deb/debmetaindex.cc`, `contrib/gpgv.cc`, `methods/gpgv.cc`, `policy.cc`, `deb/debversion.cc` | releases and their options, signatures, pins | read, agree, verify, compare | as written; only signed content is accepted; versions are ordered |
| Methods: `methods/http.cc`, `basehttp.cc`, `connect.cc`, `mirror.cc` | requests, pipeline, connection, cached addresses, mirror lists | answer the requests of a worker | every request is answered once and with its own file; every site gets its turn |
| Saved states: `apt-private/private-save.cc` | one file per saved state | `Save`, `Load`, `List`, `Delete` | a load restores what was saved |
| Locks and files: `contrib/fileutl.cc`, `deb/debsystem.cc` | descriptors, the locks they hold, buffers | `GetLock`, `Lock`, `UnLockInner`, `FileFd` | one writer at a time; a replaced file is old or new |
| Small parsers and books: `tagfile.cc`, `contrib/configuration.cc`, `contrib/error.cc`, `cdrom.cc`, `indexcopy.cc` | buffer, tree, stack, database of discs | see the modules | nothing is lost, doubled or reordered |
| The rest | | tools, formatting, hashes, `apt-ftparchive` | see `components` in `PROJECT.json` |

### How they interact

`apt update` creates one `pkgAcqMetaClearSig` per repository. Its constructor
queues the URI of InRelease in the engine. The engine is single threaded: `Run`
selects on the pipes to the method processes and calls a worker's handler for
each message; the handler takes the item out of its queue, cycles the queue and
calls `Done` or `Failed` of every owner. These create further items (Release,
Release.gpg, index files) which queue themselves, inside the handler. An item
that fails may abort its transaction, which dequeues items of other queues, still
inside the handler. When `Run` ends, the items are told `Finished`, and the
manager of a transaction without errors commits it: files are moved from
`lists/partial/` to `lists/`, one after the other.

`apt install` builds or maps the package cache, under the frontend lock and
dpkg's lock, marks what was asked for in the dependency cache, repairs it with
the resolver or asks a solver, fetches the archives with the same engine, gives
dpkg's lock up and hands the archives to dpkg in the order the package manager
finds. The methods are processes of their own, and so is dpkg: what they say comes
through pipes, when they like.

### What is hard

* Methods answer in any order, and late: an answer may be for an item whose
  transaction was aborted, or whose queue item has several owners.
* Retries with a delay, redirects, mirror lists and alternatives all put an item
  back in a queue; each of them must come to an end.
* `ToFetch` and `PipeDepth` are counted in different functions from where items
  come and go.
* The commit is not atomic: a kill, or a rename that fails, leaves some files new
  and others old, and the next update believes what it finds on disk.
* Mirrors lag, lose their signature, or change the way they sign.
* The dependency cache, the resolver and the solver change their minds: what was
  decided and undone must leave no trace.
* dpkg, scripts, the user and the power supply stop an installation anywhere.
* A pipeline of requests over a connection that breaks, with servers that mix up
  their answers.
* Locks of fcntl belong to processes and vanish with any descriptor of the file,
  and the numbers of descriptors are used again.

`hazards` in `PROJECT.json` lists these at their lines, with the properties that
would catch them.

## 2. The modules

A module states at its top what it models. Variables and operators are named
after the members and functions they stand for; `map` in `PROJECT.json` gives the
lines, operation by operation (small helpers whose lines lie within those of an
operation are not listed again). A definition that is marked "mutant" is a faulty variant of the one after it,
used to show that a property can fail.

| Module | Models |
|---|---|
| `AcquireQueue` | the engine: queues, workers, retries, redirects, aborts, `Run` |
| `AcqTransaction` | one repository's update, from InRelease to the clean up |
| `PdiffItems`, `Rred` | updates by patches, and the merging of ed patches |
| `FetchItems` | archives, files and auxiliary files with their alternatives |
| `PackageCache` | the package cache as resolver and solver see it |
| `DepCache`, `ProblemResolver` | marks and automatic flags; commands, one after the other, on one system |
| `Solver3` | dependencies as clauses; the search |
| `Edsp` | both protocols of external solvers and planners, both sides |
| `OrderList`, `PackageManager`, `DpkgPM` | order, operations, and calls of dpkg; each extends the one before |
| `DpkgRules` | abstract: what dpkg's database may do; `DpkgPM` refines it |
| `CacheGenerator`, `CacheFiles` | building the package cache from stanzas; stored caches and who may use them |
| `SourcesList`, `Gpgv`, `Policy`, `DebVersion` | sources, signatures, pins, versions |
| `HttpMethod`, `Connect`, `Mirror` | three method processes, or parts of them |
| `SavedState` | `apt save`, `apt load` |
| `Locks` | frontend lock, dpkg's lock, directory locks, descriptors |
| `FileFd`, `FileReplace` | reading with a position; writing with replacement |
| `TagFile`, `Configuration`, `ErrorStack`, `Cdrom` | record files, `apt.conf`, messages, discs |
| `MC...` | constants of the instances (those of `SavedState` stand at its end); `MCLibrary` holds the nineteen parts that do not meet each other |
| `...Proofs` | theorems (section 4) |

For the three components with the most theorems, in detail:

### AcquireQueue

A handler is atomic in the code with respect to everything but the method
processes; where it loops over owners the model makes one step per owner, with
the calls still to make in `work`. Nothing else is enabled until `work` is empty, so
no interleaving is added.

| Definition | Code |
|---|---|
| `QueueURI`, `Enqueue`, `QueueName`, `SharedWith`, `InsertAfter`, `Insert` | `pkgAcquire::Enqueue`, `QueueName`, `Queue::Enqueue` |
| `CycleSent`, `Cycle` | `Queue::Cycle`, `Worker::QueueItem` |
| `Run`, `Startup`, `CheckOwner`, `StartWorker`, `EnterLoop`, `Unstick`, `Tick`, `Cancel`, `Stop` | `pkgAcquire::Run`, `Queue::Startup`, `CheckForBadItemAndFailIt`, `Shutdown` |
| `URIStart`, `Redirect`, `URIDone`, `URIFailure`, `Answer`, `ItemDone` | `Worker::RunMessages`, `Queue::ItemDone` |
| `RedirectOwner`, `DoneOwner`, `RetryOwner`, `FailOwner` | the owner loops of `RunMessages`, `Worker::HandleFailure` |
| `Failed`, `AbortDequeues`, `Without` | `Item::Failed`, `AbortTransaction`, `pkgAcquire::Dequeue` |
| `MethodFailure` | `Worker::MethodFailure` |

URIs, hosts and items are names; which URI redirects where, how it may fail and
what an item does next are constants. Time is a counter that only moves while
something is delayed.

### AcqTransaction

The engine is abstracted to "a queued item is sent, then answered once, in any
order". The repository publishes numbered versions in one of several layouts
(clearsigned, detached signature, both, unsigned, nothing), at any time, also
during an update. A Release file is its version; an index file is the version in
which its content last changed, so "the hash matches" is equality. `lists` is the
directory and survives; all the other variables are the memory of the process,
which `Exit` resets.

| Definition | Code |
|---|---|
| `InReleaseFetched`, `InReleaseVerified`, `InReleaseWeak`, `InReleaseRejected`, `InReleaseBadSignature`, `InReleaseFailed` | `pkgAcqMetaClearSig::Done`, `Failed`, `pkgAcqMetaBase::CheckDownloadDone`, `CheckAuthDone`, `CheckStopAuthentication` |
| `ReleaseFetched`, `ReleaseFailed` | `pkgAcqMetaIndex::Done`, `Failed` |
| `SigFetched`, `SigVerified`, `SigWeak`, `SigRejected`, `SigFailed` | `pkgAcqMetaSig::Done`, `Failed` |
| `LoadAndQueue`, `OlderThanLast`, `QueueIndexes`, `Current`, `CleanupItems`, `Wanted` | `VerifyVendor`, `QueueIndexes` |
| `IndexDone`, `IndexFailed` | `pkgAcqIndex::Done`, `Failed` |
| `Abort`, `TransactionHasError`, `Finished`, `MayCommit`, `CommitItem` | `AbortTransaction`, `CommitTransaction`, `TransactionState` |
| `AcquireUpdate`, `MayClean`, `Claimed` | `AcquireUpdate`, `pkgAcquire::Clean` |
| `Crash`, `MethodDies`, `Cancel` | a kill (with the old file already removed, or not), `Worker::MethodFailure`, `Pulse` |

`CommitItem` is one step per item, and a kill may come between the removal of
the old file and the rename of the new one.

### SavedState

A package is a name and an architecture; names are numbers in the order of the
strings, architectures numbers in the order of preference. `installed` is what
dpkg has, `states` and `content` are the directory and what can be decoded from
each file (nothing, for a file that was truncated); `snapshot` is a history
variable: what was installed when a file was written. Packages have no
dependencies in the model, so what is marked is what InstallPackages does, or a
part of it when it fails.

| Definition | Code |
|---|---|
| `GetState`, `FindPreferredPkg`, `Sorted` | `GetState`, `GrpIterator::FindPreferredPkg`, `PackageCompare` |
| `SaveOpen`, `SaveWrite`, `SaveFails` | `Save` |
| `Delete`, `DeleteAll` | `Delete` |
| `LoadState`, `LoadLock`, `Install`, `InstallFails`, `LoadEnds` | `LoadState`, `Load`, `InstallPackages` |
| `Walk`, `Compare`, `WalkEnd` | `PackageForEachDelta` |
| `Change` | other runs of apt or dpkg, which the lock keeps out from `Cache.Open` on |

## 3. The runs

| Run | Instance | Shows |
|---|---|---|
| `acquire_merge` | three items, two for the same URI; two hosts, host limit 1 so that the second host shares a queue; redirects in a circle, a mirror list, an alternative without method, a second stage | `QueuesExact`: `ToFetch` and `PipeDepth` are exact, each item is in one place, none is lost; `RunReturns` |
| `acquire_abort` | five items, four in one transaction; a pipeline of two; transient failures, 429, a weak item, a redirect to a second host; a method that dies, methods that do not start, cancellation | `LateAnswersSafe`: counters, answers and `CurrentItem` stay right through an abort and `Run` ends with final statuses; `AbortIsFinal`: nothing of an aborted transaction is sent |
| `acquire_hang` | as before, without faults of methods | **violation** of `RunReturns`, see findings |
| `update_signed` | two index files, three versions, every signed layout | `ListsConsistent`: after every update `lists/` holds exactly what its Release file lists, and no signature of another one; `TypeOK`, `UpdateEnds` |
| `update_crash` | clearsigned or gone, lagging mirror; kill at any step, cancellation, renames that fail | `NoStaleIndex`: no index file is older than InRelease says; `NoDowngrade` |
| `update_insecure` | every layout, everything insecure allowed, methods die | `FailureKeepsLists`: only a commit changes `lists/` |
| `save_load` | four packages of one architecture each, one of them in no repository, every change of the installed ones between a save and a load; failing saves and installations | `DeltaExact`: the walk over the two lists finds exactly what differs; `LoadRestores`: a load that succeeds leaves what was installed at the save |
| `solve` | seven packages, eight versions, alternatives, a virtual package, conflicts, recommendations; all combinations of marks, four kinds of request, a timeout | `SolutionSound`, `FailsOnlyIfUnsolvable` (against all selections), `SearchExact` (trail, levels and work agree with the assignment), `SolveEnds` |
| `resolve` | nine packages, six systems, twenty commands, two in a row | `PlanSound`: the plan of a command breaks nothing and is what was asked for; `AutomaticSafe`: automatic removals, and what is listed for one, are harmless, and what the user named stays manual, but for the cases below; `CommandEnds` |
| `install` | every consistent system of six packages and every consistent one it may be changed into; a conflict that only one of two mail servers declares, through the name both provide; one fault: a failing script, ^C, a kill; media in rounds; the command given again | `NeverRefused`, `EndsClean`, and `FollowsTheRules`: every step is one of `DpkgRules` |
| `http` | three files, one pipelined request, redirects, partial files, a server that mixes answers up, closes, times out | `AnswersMatch`, `AllAnswered` |
| `library` | nineteen parts, one per behaviour, each on its instance in `MCLibrary` | see below |

The properties of `library`:

| Property | Part | Says |
|---|---|---|
| `SitesTried` | `Connect`, `Mirror` | a host or a mirror list is given up only after each address or mirror had its turn |
| `CacheExact` | `CacheGenerator` | the cache has what the stanzas mean, in whatever order they come |
| `CacheFresh` | `CacheFiles` | an open cache holds each file as it was at some moment of the opening |
| `PatchesRight` | `Rred`, `PdiffItems` | merged patches give what one after the other gives; a run ends with the right file or asks for the whole one |
| `ItemsServed` | `FetchItems` | an archive is complete and verified or not there; each source is asked; an auxiliary file is answered once |
| `FilesExact` | `FileFd`, `FileReplace` | a file stands where the calls put it; a replaced file is old or new |
| `SourcesAsWritten` | `SourcesList` | each wanted index once, with the options its entries agree on, if the lists were read without an error and without the assertion of `debmetaindex.cc:1377` |
| `AcceptedIsSigned` | `Gpgv` | accepted content is signed by an allowed key with a strong algorithm |
| `PinsAsWritten` | `Policy` | the order in which pins apply and the choice of the candidate, against a reference definition that shares the matching of files and versions with the translation |
| `RecordsExact` | `TagFile` | the sections with fields that Step returns are the records of the file, once each, wherever the buffer ends; a Jump to the offset of one finds it again |
| `DialogueFaithful` | `Edsp` | a request and its answer arrive as they were sent, the ID of the machine excepted; of a planner that fails, what it said before |
| `LocksProtect` | `Locks` | one writer, one user of the archives, a plan that still fits; own descriptors only. With the timeout of 1 here two waits cannot add up; `LocksAreKept` is about every timeout |
| `DiscAdded` | `Cdrom` | a disc can be used, the sources of a first disc without binaries excepted (`FirstEntriesAreSources`); nothing else is lost |
| `TreeExact` | `Configuration` | read as written, dumped and restored, moved as a whole |
| `VersionsOrdered` | `DebVersion` | the order of deb-version(7), antisymmetric, and the relations follow it |
| `ErrorsExact` | `ErrorStack` | no message lost or overtaken, the pending flag right |

**Bounds.** `MaxRetries`, `MaxDelay`, `MaxReschedule` bound the retries, the
delays and the redirects of a URI to itself (the code has no limit for the
last: the method decides). One retry, with delays of one and two, is enough for a
delayed item to be first, in the middle and due. `MaxVersion` is 3: an update
from nothing, one that changes one index and keeps the other, and one that
changes the other and drops one; each may be skipped or served late. Two index
files let one be new while the other is old. The items of the
engine's instances were chosen for the interactions, one kind of each; no symmetry is
used since the items differ. For the saved states four names let both lists
begin, interleave and end in every way, with one or two entries left over. The
universes of `solve`, `resolve` and `install` contain each construct that the code
treats in its own way (or groups, provides, conflicts, breaks, recommendations,
essential and automatic packages, cycles) and let them meet; in `install` only
`smail1` conflicts with `mta`, which `exim1` provides, so the other order has to
be found without help from `exim1`, and `smail2` depends on `exim1`; `MaxCommands` is 2,
since what a command leaves behind matters to the next one only. The bounds of
`library` are in `MCLibrary`, next to the instances: two processes, two apts with a dpkg,
a file of six bytes with a buffer of three, texts of three or four lines, three
records, two discs.

**Fairness.** `RunReturns` assumes that the select loop goes on, that time
passes and that a method answers each request some time (methods have timeouts
of their own, and a method that dies is a separate action without fairness).
`UpdateEnds` assumes that a queued item is sent and answered, which is
`RunReturns` of the engine below. `SolveEnds` and `CommandEnds` assume that a
loop which can go on does. `AllAnswered` assumes that the method goes on; every
fault of the server or the network is an answer it sees. Nothing is assumed of the
user, the repository, kills or failing methods.

**Deadlock** is checked in all runs but `acquire_hang`, whose subject is that
nothing more happens, and `library`, whose parts end.

**Mutants.** For each property of a passing run `PROJECT.json` names a mutant of
a mapped definition which breaks it: a guard dropped, an order swapped, an owner
forgotten. They are next to the definitions they replace.

### Finding

*`Run` may not return* (`acquire_hang`, `acquire.cc:741`). Delayed items are
sorted first. A new item behind a delayed head is not sent, since `Cycle`
stops at the head. If the head's transaction is now aborted, it is dequeued
without a `Cycle`; the new head has no `FetchAfter`, so the loop in `Run`
passes over it, and no answer will cycle the queue.

### Met while modelling

Behaviour that no document promises otherwise, so that no run states the opposite;
each is under `hazards`, or is the reason for a hypothesis of a theorem.

* With detached signatures Release and Release.gpg are renamed before the index
  files: a kill in the middle leaves a new Release file with old index files.
* A method that dies lets half an update be committed: `TransactionHasError`
  accepts items that are idle or being fetched.
* The removal `pkgAcqMetaSig::Failed` stages names the file in `partial/`, so the
  signature of an earlier Release file stays until the next clean up.
* A cancelled update whose only item waits for a retry deletes the index files.
* A repository that changes layouts behind a lagging mirror: a Release file left by a
  skipped clean up next to a newer InRelease; InRelease vanishes, the mirror serves
  the old Release file again, which is a hit, and index files are dropped that
  the InRelease file, which stays, lists.
* A load reads the current state before it has the lock; a name with two
  architectures is saved once; a save truncates the previous one first and does
  not notice a full disk; the test for the existence of a state that `Delete` makes is
  the wrong way round.
* `install`, `remove`, `reinstall` and `autoremove` keep one action group open
  (`private-install.cc:1273`, `cachefile.cc:203`), so nothing is swept after a mark, but only at
  `private-install.cc:637`, `791` and `864`; the loop of autoremove walks the garbage flags of the
  last of these. The upgrades do sweep after each mark. `ProblemResolver` follows both.
* A package that the user names does not always become manual, which is what
  `apt-mark.8.xml:45` says of explicit requests: `reinstall` leaves it automatic, and so does
  an install that changes its version while something needs it (`depcache.cc:1228` leaves the
  flag of such a package alone, and `private-install.cc:1372` looks only at packages that are
  not to be installed). `StaysAutomatic` names these cases; `AutomaticSafe` covers all others.
* The package manager's look at conflicts and breaks of others through provides is dead code:
  `packagemanager.cc:590` and `967` compare a package's group with that of `OwnerPkg()`, which is
  the package itself (`cacheiterators.h:444`). So a conflict that only the installed package
  declares, against a name the new one provides, is not looked for. The archive of `install`
  has such a conflict, and `NeverRefused` holds on it. It does not if `smail2` pre-depends on
  `exim` where it now depends on it: `exim1` is then unpacked while `smail1` is still there.
* A record file opened STRICT that begins with blank lines, or whose blank lines run over the end of the
  buffer, yields sections without fields (`tagfile.cc:254`); building the cache fails
  on one, since it has no Package. With comments a Jump may land on one too. A Jump within a full buffer at the end of
  a file that does not end in an empty line fails without an error. A Jump in the buffer
  before the end of the file was seen is a whole Step (`tagfile.cc:448`), so the Step after
  `debSrcRecordParser::Restart` (`debsrcrecords.h:38`, used by `private-source.cc:259`) misses the first record.
* Where `sources.list` has no line but comments, the entries of a disc without binaries are written
  as `deb` (`cdrom.cc:536-546`), while `apt-cdrom` prints `deb-src`: its indexes are copied,
  and no source list names them.
* The ID of the machine reaches an external solver with a colon in front (`edsp.cc:628`), and decides
  about phased updates there (`depcache.cc:2586`, `policy.cc:309`).
* The assertion in `solver3.cc:590` can fail, on a larger universe than that of the run.
* `Fail()` of the mirror method fails the head of the queue and not the request at
  hand, and `msgCache.clear()` drops messages that wait for another list.
* A compressor's error at its very end comes after the rename of an atomic file.
* `rred` loses an insertion before the first line when it writes a merged patch.
* `dpkgpm.cc:989` keeps as many bytes of dpkg's last line as were read before it, not
  as many as the line has.
* `edsp.cc:949` tells a planner that essential packages may be removed for a moment
  only if neither value of Immediate-Configuration is written.

## 4. The proofs

Eight modules hold the theorems listed under `theorems`. All are about every
value of the constants that satisfies the hypotheses named.

### AcqTransactionProofs

* `TypeCorrect`: `Spec => []TypeOK`;
* `IndexesNotStale`: if `Careful` then `Spec => []NoStaleIndex`;
* `FailureChangesNothing`, `NeverDowngraded`, `ListsAreConsistent`: below.

`TransactionAssumption` is stated in `AcqTransaction` and evaluated by TLC in every
run: besides types it says that the content of an index only moves forward while
it is published. `Careful` is a hypothesis of the theorem: no method dies,
nothing insecure is allowed, and the repository publishes no file named Release, so
that InRelease is the only Release file (see above for what happens otherwise).

`NoStaleIndex` speaks of the state between updates and is not inductive. The
strengthening `IInv` is the conjunction of `TypeOK` and

* `Fresh`: at every moment, also in the middle of a commit, each index file in `lists/`
  is at least as new as the InRelease file next to it says;
* `OnlyInRelease`: neither Release nor Release.gpg is ever in `lists/`;
* `NothingQueued`: an item that was not created is not part of anything;
* `Planned`: what is staged for an index file is what the loaded Release file
  lists, and what is kept is current;
* `Phases`: which statuses and plans go with `setup`, `running`, `over` and with
  the states of the transaction; at rest the memory is empty.

The argument: InRelease is copied last, so when it changes, every index file
was moved, removed, or kept because its content is the same in both versions;
until then moving an index file forward keeps `Fresh` for the old InRelease,
because contents only move forward. A rename that fails, or a kill, removes a
file, and a missing file is not stale.

What an update may do to `lists/`:

* `FailureChangesNothing`: `Spec => FailureKeepsLists` unless the user may cancel, for
  all layouts, insecure repositories, kills, failing renames and dying methods. Its
  invariant `AbortFails` says that an aborted transaction has reported an error,
  so that the clean up, the only other writer, stays away.
* `NeverDowngraded`: if `Careful` then `Spec => NoDowngrade`, from `IInv`.
* `ListsAreConsistent`: if `Undisturbed` (`Careful`, and no kill, cancellation or failing
  rename) then `Spec => []ListsConsistent`, lagging mirrors included. The invariant
  `CInv` adds to `IInv` and `AbortFails` that between updates and until the commit
  `lists/` holds exactly what InRelease lists (`InStep`), that the manager is
  queued first and commits only when it was verified (`Manager`, `NoEmptyCommit`),
  and that in a commit each index file is what the old InRelease lists if it is
  still to come, and what the new one lists if its turn is over (`Complete`).

### SavedStateProofs

For every finite set of packages:

* `TypeCorrect`: `Spec => []TypeOK`;
* `DeltaIsExact`: `Spec => []DeltaExact`, whatever the architectures and whoever interferes;
* `LoadIsFaithful`: `Spec => []LoadRestores` if no name has two architectures
  and no other apt works between the reading of the current state and the lock.

`DeltaExact` speaks of the end of the walk. Its invariant `DeltaInv` says that the
lists are strictly increasing in names (`AllIncreasing`), and that in the walk
(`Walked`) what was called back for is right for the part passed so far and that
a name in both lists was passed in both or in neither. The last is why two
different entries whose names are both in the other list must have the same
name, so that the code may pass both, and why the rest of a list, once the other
is at its end, needs no look up. `LoadIsFaithful` adds `Faithful`: a file that can
be decoded has what was installed when it was written, and what a load read is
still what is installed.

### CacheFilesProofs

`CachesAreFresh`: `Spec => []CacheFresh`, for every set of index files and of
processes, whichever may write the stored caches, without bounds on the changes.
The hypothesis `NamesDistinct` says that no index file is called like the status
file or the sources. The invariant follows a cache from the first look at a stored
image to the last file read: the size and time in any image are those of the
content it holds (`Images`), contents that were on disk were so at the time they
carry (`Witnessed`), so an image that passes `CheckValidity` is as good as one
that was read (`Checked`), and what is read adds to it (`Built`); `Quiet` says which
process is where.

### FileReplaceProofs

`ReplacedSafely`: `Spec => []ReplaceSafe`, for every number of blocks, every size of the
buffer, every amount of space and every mode. `NothingLost`: until something fails,
what is on the disk, what the compressor holds, what is in the buffer and what is
left of the call add up to what the caller handed over; `OnDisk` and `NotYet` say
which of the two files holds it, and that the name stands for the old one until
the rename.

### FileFdProofs

`PositionIsExact`: `Spec => []PositionExact`, for every length of the file, every place of
its newlines and every size of the line buffer. The invariant `Good` relates the
offset of the descriptor, what is buffered, `seekpos` and the caller's view. That
`ReadLine` stops at the first newline uses the least element of a set of naturals,
which is proved from the well-foundedness of `<`.

### LocksProofs

`PlansAreFresh`: `Spec => []PlanFresh`, for any number of processes, any commands and
timeouts (`Setup`: dpkg and the tool are none of the apts, timeouts are integers).
`PlanFresh` is the first part of `LocksProtect`. The invariant is about
descriptors: in each process no file is open twice and a lock file that is open is
locked by it (`Once`, `Held`); at each point of a command the locks it needs are
open under the numbers it remembers, and what may be open besides is limited
(`Stage`), so a number that was closed and given to a pipe or a log is not closed as
a lock. Each of the seven kinds of things is in the table of seven numbers at most
once, so a process that lacks one of them has a number free (`FreeSlot`, by the pigeonhole principle). `Children` and
`Strangers`: who writes holds dpkg's lock. `Fresh`: from the plan to the end of its
dpkg an apt holds the frontend lock, so its plan is as new as the status file
unless it is in `intruded`.

`LocksAreKept`: `Spec => []LocksProtect`, with the same range. Besides `PlanFresh` it
needs `OwnDescriptors`, which also holds where the file system has no locks, so that
"open" no longer means "locked" and the invariant above is of no use. `OwnInv` is
about each apt alone (`Mine`): every open number is a pipe, a log, or one the process
remembers and will close (`Owners`), every number it remembers leads where it should
(`Remembered`: to its lock, or to stdin where GetLock opened nothing), no number is
remembered for two things (`Distinct`), and the counter of the nested locks goes with
the point of the command (`Control`). A number that is closed and given out again
would be caught by `Distinct` and `OnePlain`. `Waited` bounds what the two waits may
sleep together by what is left of the timeout.

### AcquireQueueProofs

* `AbortStaysFinal`: `Spec => AbortIsFinal`, the action property of `acquire_abort`;
* `NoItemTwice`: `Spec => []OwnedOnce`, a part of `QueuesExact`;
* `CountsHold` and `CountsMean`, the lemmas on counters that `AcquireLossProofs` uses.

`ConstantsAssumption`, which TLC evaluates in every run of the engine, gives types and
says that an item is constructed once, before `Run()` or by the `Done()` of one other
item: the items a `Done()` creates are new objects. Everything else is open: which
URIs redirect where, how methods fail, who shares a request with whom, which
queues have pipelines, when a method dies.

Neither property is inductive. `AbortIsFinal` needs to know that whatever the
aborted transaction still has in a queue was sent before (`Leftovers`). An abort
leaves exactly the items alone whose status is Fetching, so the status of the first
owner has to tell whether a QItem was sent (`Matches`). That again depends on nobody
else changing that status, hence on no item being owner twice (`Apart`). A
message takes the QItem out and tells its owners one after the other,
and each of them may enqueue itself again: `Apart` survives because the
calls in `work` are about different items that are in no queue (`CallsOK`), and the
items a finished one constructs exist nowhere yet (`Unborn`). `IInv` is the conjunction of these.

The proof has three layers. Lemmas on sequences: `Filtered` (what `AtPositions`
keeps, by a bijection of ranks), `Joined`, `LeastPosition`. Lemmas on the operations,
each for arbitrary queues and statuses: `Sending`, `Removing`, `Inserting` and `Sharing` keep
`Sound`, `Cycling`, `Failing` and `EnqueueEffect` combine them into what a `Cycle`, a failure with its
abort, and an `Enqueue` do. Then one lemma per action; `OneTold` serves the handlers
that tell an owner something, `CalmStep` all other steps.

The counters are proved exact on top of `IInv`. `ToFetch`, `PipeDepth` and `inflight`
are cardinalities of sets of positions, which every insertion and deletion shifts.
The invariant `CountInv` counts first owners instead: since no item is owner twice,
the QItems of all queues and their first owners correspond one to one, and the set
of first owners does not change when a list is reordered (`Exact`). Deleting a QItem takes one
element away (`ExactDone`, `FailedCounts`), inserting adds one (`InsertCounts`), sharing none,
and `Cycle` moves elements to the sent ones as far as the pipeline has room
(`PipelineBound`, `CycleCounts`). `Unsent`, `Checks` and `Pointed` say that nothing is
sent without a worker, that Startup fails nothing that was sent, and that
`CurrentItem` is a request that still waits for its answer. `AllCounted` and `SentCounted`
turn first owners back into positions.

### AcquireLossProofs

* `QueuesStayExact`: if `Separate(T)` then `Spec => []QueuesExact`;
* `LateAnswersStaySafe`: if `Separate(T)` then `Spec => []LateAnswersSafe`.

With `AbortStaysFinal` these are all the safety properties of the engine's runs. What the
two add to the counters is that no item is lost (`NoOrphan`, `CompleteRun`). This
does depend on the input: a QItem that two items share goes with its first owner
when that one is failed, so the other owner is lost if it is not failed for the same
reason. `Separate(T)`, in `AcquireQueue`, is what the engine relies on: T, the URIs of
the transaction, is closed under redirects, alternatives and later stages, nothing else is fetched
from T, the names of local queues are not those of hosts, and items created for the same URI
either all need a hash they do not have or none does. TLC evaluates that such a T exists for
each instance (`KeptApart` in `MCAcquireQueue`).

`NoneLost` is the heart of the invariant `LossInv(T)`: between any two calls of a
handler, an item that is idle or being fetched and not doomed is in a queue, local, about to
be told (`Pending`), or weak and about to be checked by Startup. To be
inductive it needs that a QItem is for the URI each owner wants (`Wanted`), that URIs stay on
the side of the transaction or off it (`Sides`), also in a redirect under way
whose new URI one owner hands to the next (`Redirections`), that before the loop every
item still has its first URI, so that Startup finds no redirection loop (`Beginnings`), that
Startup checks all owners of what is still queued (`Whole`), and what is told of a local fetch
concerns a local URI (`LocalCalls`). `Emptied`, by `CountInv`, says that `Run` ends by itself
with empty queues only. `OtherTypes` are the remaining types; `FetchAfter` is an
integer there, since a power is not known to the provers as a natural number.
Each operation is described once by what it does to owners (`Takes`, `Drops`, `Sends`,
`Ends`); `Handled` sums up what may become of an item that is told something, and
`TellKeeps` is the one place where the handlers' cases meet.

### How they were checked first

Each inductive invariant was an invariant of a TLC run before its proof was begun: `IInv`
on the instance of `update_crash`, `CInv` on that of `update_signed` with a lagging
mirror and clearsigned layouts, those of `CacheFiles`, `FileReplace` (64554 states), `FileFd` (5123)
and `Locks` (746395, two apts) on the instances of `library`, those of `AcquireQueue` on
the instances of `acquire_abort` (4993) and `acquire_merge` (5533); `OwnInv` on the instance
of `Locks` with and without locks in the file system.

### Only model-checked

* Liveness: `RunReturns`, `UpdateEnds`, `SolveEnds`, `CommandEnds`, `AllAnswered`.
  Fairness and `ENABLED` are out of the prover's reach.
* `DebVersion`, `TagFile`, `Rred`, `Solver3`, `DepCache`, `ProblemResolver`, `OrderList`,
  `PackageManager`, `DpkgPM`, `Configuration`, `SourcesList`: their recursive operators
  follow the recursion of the code; what a recursion computes for every input
  needs induction over data, which the provers do not do here. With them the
  refinement `FollowsTheRules`.
* `FetchItems`, `PdiffItems`, `Gpgv`, `Policy`, `Edsp`, `HttpMethod`, `Connect`,
  `Mirror`, `CacheGenerator`, `Cdrom`, `ErrorStack`: built on `SelectSeq` and folds,
  of which the provers know nothing, or not yet tried.
* `FilesExact` of `library` is the conjunction of what `PositionIsExact` and
  `ReplacedSafely` state of its two parts.

## 5. What is not modelled, and the plan

Not modelled: what `components` in `PROJECT.json` lists as `not_modelled`, with the
reason for each. In the modelled parts: media changes of the engine; by-hash and
several repositories in one transaction run; triggers and disappearing packages in dpkg's lines; expiry of Release files beyond
"rejected"; several architectures in resolver, solver and package manager; the
text of messages; memory safety.

Next, in this order:

1. `HttpMethod`: that an answer is written to the file of its request (`AnswersMatch`).
   `Fetch` is a fold over the queue, of which nothing can be proved by induction here;
   its effect on the pipeline has to be stated without the fold first.
2. `FetchItems`: an archive is verified or absent, an auxiliary request is answered once.
3. `ErrorStack`: the pending flag.
