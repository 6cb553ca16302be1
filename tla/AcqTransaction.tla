--------------------------- MODULE AcqTransaction ---------------------------
(***************************************************************************)
(* How "apt update" replaces the index files of one repository: the        *)
(* transaction a pkgAcqMetaClearSig manages (apt-pkg/acquire-item.cc),     *)
(* from the queueing of InRelease to the commit in lists/, and the clean   *)
(* up of AcquireUpdate (apt-pkg/update.cc).  The download engine below it  *)
(* (module AcquireQueue) is abstracted to: a queued item is sent, and then *)
(* answered once, in any order.                                            *)
(*                                                                         *)
(* Versions number what the repository publishes; 0 means "no such file".  *)
(* A Release file is known by its version, an index file by the version in *)
(* which its content last changed.                                         *)
(***************************************************************************)
EXTENDS Integers, FiniteSets

CONSTANTS
  Indexes,        \* the index files configured (Packages, Sources, ...)
  Optional,       \* those that may be missing (IndexTarget::IsOptional)
  MaxVersion,     \* bound: versions the repository publishes
  Content,        \* Content[v][i]: what the Release file of version v lists for i
  Layouts,        \* the sets of meta files the repository may publish
  Lag,            \* whether a mirror may serve an older version
  AllowInsecure,  \* Acquire::AllowInsecureRepositories and AllowWeakRepositories
  AllowDowngrade, \* Acquire::AllowDowngradeToInsecureRepositories
  MayCrash,       \* whether apt may be killed
  MayDie,         \* whether a method may die unexpectedly
  MayCancel,      \* whether the user may cancel the download
  MayFail         \* whether a rename in the commit may fail

Versions == 1..MaxVersion
Meta     == {"InRelease", "Release", "Release.gpg"}

ASSUME TransactionAssumption ==
  /\ MaxVersion \in Nat \ {0}
  /\ Optional \subseteq Indexes
  /\ Indexes \cap Meta = {}
  /\ Content \in [Versions -> [Indexes -> 0..MaxVersion]]
  \* what an index contains only moves forward, while it is published
  /\ \A v, w \in Versions, i \in Indexes :
       v <= w /\ Content[w][i] # 0 => Content[v][i] <= Content[w][i]
  /\ Layouts \subseteq SUBSET Meta
  /\ {Lag, AllowInsecure, AllowDowngrade, MayCrash, MayDie, MayCancel, MayFail} \subseteq BOOLEAN

Files == Meta \cup Indexes

Statuses == {"New", "Idle", "Fetching", "Done", "Error", "AuthError", "TransientNetworkError"}
Errors   == {"Error", "AuthError", "TransientNetworkError"}

\* TransactionStageCopy and TransactionStageRemoval: what the commit does
\* with an item; "none" leaves lists/ alone
Staging    == [op : {"none", "copy", "remove"}, dest : Files, ver : 0..MaxVersion]
Nothing(f) == [op |-> "none", dest |-> f, ver |-> 0]
Copy(f, v) == [op |-> "copy", dest |-> f, ver |-> v]
\* mutant: the removal of an item that has no final file
RemovalOfNothing(f) == [op |-> "remove", dest |-> "", ver |-> 0]
Removal(f) == [op |-> "remove", dest |-> f, ver |-> 0]

VARIABLES
  server,     \* [version, files] the repository publishes
  lists,      \* lists[f]: the file f in /var/lib/apt/lists
  State,      \* "none": no update; "Started", "Abort", "Commit"
  IMSHit,     \* TransactionManager->IMSHit
  Status,     \* Status[i] of the item for file i; "New": no such item
  got,        \* got[m]: version of the meta file downloaded to partial/
  AuthPass,   \* AuthPass of InRelease or Release: verifying the signature
  parser,     \* MetaIndexParser: the version loaded
  last,       \* LastMetaIndexParser
  Transaction,\* the items of the transaction
  staged,     \* staged[i]: see Staging
  keep,       \* the files NoActionItems stand for
  committed,  \* items CommitTransaction is done with
  failed,     \* an error was reported, so Run() returns Failed
  run         \* "setup", "running", "over"

memory == <<State, IMSHit, Status, got, AuthPass, parser, last, Transaction, staged, keep, committed, failed, run>>
vars   == <<server, lists, memory>>

-----------------------------------------------------------------------------
(* Parts of the handlers *)

\* the Release file the rest of APT reads: debReleaseIndex prefers InRelease
OnDisk == IF lists["InRelease"] # 0 THEN lists["InRelease"] ELSE lists["Release"]

\* debReleaseIndex::IsTrusted, without per-source overrides
IsTrusted == lists["Release.gpg"] # 0 \/ lists["InRelease"] # 0

\* AllowInsecureRepositories for anything but weak hashes
InsecureAllowed == AllowInsecure /\ (IsTrusted => AllowDowngrade)

\* AbortTransaction; i is the item whose handler calls it and st its status
\* then.  The callers report an error, or leave i in an error state, which the
\* end of AcquireUpdate treats alike.
Abort(i, st) ==
  /\ State' = "Abort"
  /\ Status' = [j \in Files |-> IF j = i THEN st
                                ELSE IF j \in Transaction /\ Status[j] = "Idle" THEN "Done" ELSE Status[j]]
  /\ Transaction' = {}
  /\ failed' = TRUE
  /\ UNCHANGED <<server, lists, IMSHit, got, AuthPass, parser, last, staged, keep, committed, run>>

\* mutant: the dates are not compared
NeverOlder(v, l) == FALSE

\* VerifyVendor: a Release file older than the one in lists/ is treated as
\* if the server had answered that nothing changed
OlderThanLast(v, l) == l > v

\* QueueIndexes for Release version v (0: none), previous version l, hit: IMSHit.
\* Of the reasons to skip a file the Release file not listing it is modelled,
\* of the items that fetch it pkgAcqIndex (not pkgAcqDiffIndex).
Listed(v, i) == v = 0 \/ Content[v][i] # 0
\* mutant: the hashes of the old and the new Release file are not compared
KeepWithoutComparing(v, l, hit) ==
  {i \in Indexes : v # 0 /\ Listed(v, i) /\ lists[i] # 0 /\ (hit \/ l # 0)}
Current(v, l, hit) ==
  {i \in Indexes : /\ v # 0 /\ Listed(v, i) /\ lists[i] # 0
                   /\ hit \/ (l # 0 /\ Content[v][i] = Content[l][i])}
CleanupItems(v)      == {i \in Indexes : ~Listed(v, i)}
Wanted(v, l, hit)    == Indexes \ (Current(v, l, hit) \cup CleanupItems(v))

\* item m gets status st, and what is staged for meta files is plan
QueueIndexes(m, st, v, l, hit, plan, kept) ==
  /\ IMSHit' = hit
  /\ parser' = v
  /\ last' = l
  /\ Transaction' = Transaction \cup Wanted(v, l, hit) \cup CleanupItems(v)
  /\ Status' = [j \in Files |-> IF j \in Wanted(v, l, hit) THEN "Idle"
                                ELSE IF j \in Indexes THEN "Done"
                                ELSE IF j = m THEN st ELSE Status[j]]
  /\ staged' = [j \in Files |-> IF j \in CleanupItems(v) THEN Removal(j) ELSE plan[j]]
  /\ keep' = keep \cup Current(v, l, hit) \cup kept
  /\ UNCHANGED <<server, lists, State, got, AuthPass, committed, failed, run>>

\* LoadLastMetaIndexParser, Load and VerifyVendor before QueueIndexes: version
\* v was downloaded; onHit or onNew is staged, and a hit keeps the files in kept
LoadAndQueue(m, st, v, onHit, onNew, kept) ==
  LET l     == IF IMSHit THEN 0 ELSE OnDisk
      older == OlderThanLast(v, l)
      hit   == IMSHit \/ older
  IN  QueueIndexes(m, st, IF older THEN l ELSE v, IF older THEN 0 ELSE l, hit,
                   IF hit THEN onHit ELSE onNew, IF hit THEN kept ELSE {})

\* the handlers of a transaction that is over are not called (isDoomedItem)
Reply(i) == run = "running" /\ State = "Started" /\ Status[i] = "Fetching"

SetStatus(i, st, error) ==
  /\ Status' = [Status EXCEPT ![i] = st]
  /\ failed' = (failed \/ error)
  /\ UNCHANGED <<server, lists, State, IMSHit, got, AuthPass, parser, last, Transaction, staged, keep, committed, run>>

\* versions of meta file m a client may be served
Served(m) ==
  {v \in Versions : m \in server.files /\ v <= server.version /\ (Lag \/ v = server.version)}

-----------------------------------------------------------------------------
(* The repository *)

Publish ==
  /\ server.version < MaxVersion
  /\ \E m \in Layouts : server' = [version |-> server.version + 1, files |-> m]
  /\ UNCHANGED <<lists, memory>>

-----------------------------------------------------------------------------
(* The update: GetIndexes creates the pkgAcqMetaClearSig, Run() follows *)

\* the process, and what it kept in memory, is gone
Exit ==
  /\ State' = "none" /\ IMSHit' = FALSE /\ run' = "setup"
  /\ Status' = [i \in Files |-> "New"]
  /\ got' = [m \in Meta |-> 0] /\ AuthPass' = FALSE
  /\ parser' = 0 /\ last' = 0
  /\ Transaction' = {} /\ staged' = [f \in Files |-> Nothing(f)]
  /\ keep' = {} /\ committed' = {} /\ failed' = FALSE

Start ==
  /\ run = "setup"
  /\ run' = "running" /\ State' = "Started"
  /\ Status' = [Status EXCEPT !["InRelease"] = "Idle"]
  /\ Transaction' = {"InRelease"}
  /\ UNCHANGED <<server, lists, IMSHit, got, AuthPass, parser, last, staged, keep, committed, failed>>

\* the engine hands a queued item to a method
Send(i) ==
  /\ run = "running" /\ State = "Started" /\ Status[i] = "Idle"
  /\ SetStatus(i, "Fetching", FALSE)

\* an answer for an item of an aborted transaction only settles the item
DoomedReply(i) ==
  /\ run = "running" /\ State = "Abort" /\ Status[i] = "Fetching"
  /\ \E st \in {"Done", "AuthError", "TransientNetworkError"} : SetStatus(i, st, FALSE)

-----------------------------------------------------------------------------
(* pkgAcqMetaClearSig *)

\* the version v of meta file m is in partial/ (or is the one in lists/):
\* CheckDownloadDone, and QueueForSignatureVerify for i
Downloaded(m, v) ==
  /\ got' = [got EXCEPT ![m] = v]
  /\ IMSHit' = (IMSHit \/ v = lists[m])

InReleaseFetched ==
  /\ Reply("InRelease") /\ ~AuthPass
  /\ \E v \in Served("InRelease") : Downloaded("InRelease", v)
  /\ AuthPass' = TRUE
  /\ Status' = [Status EXCEPT !["InRelease"] = "Idle"]
  /\ UNCHANGED <<server, lists, State, parser, last, Transaction, staged, keep, committed, failed, run>>

\* the signature is good: CheckAuthDone
InReleaseVerified ==
  /\ Reply("InRelease") /\ AuthPass
  /\ LoadAndQueue("InRelease", "Done", got["InRelease"],
                  staged,
                  [staged EXCEPT !["InRelease"] = Copy("InRelease", got["InRelease"])],
                  IF lists["InRelease"] = 0 THEN {"Release", "Release.gpg"} ELSE {})

\* its hashes are weak: if the user allows that it becomes a Release file
InReleaseWeak ==
  LET old == lists["InRelease"]
  IN  /\ Reply("InRelease") /\ AuthPass
      /\ IF AllowInsecure
         THEN LoadAndQueue("InRelease", "Done", got["InRelease"],
                IF old = 0 THEN staged ELSE [staged EXCEPT !["InRelease"] = Copy("Release", old)],
                [staged EXCEPT !["InRelease"] = Copy("Release", got["InRelease"])],
                IF old = 0 THEN {"Release"} ELSE {})
         ELSE Abort("InRelease", "AuthError")

\* Signed-By is missing, the file is expired or not valid yet, or the
\* repository changed its origin: nothing is applied
InReleaseRejected ==
  Reply("InRelease") /\ AuthPass /\ SetStatus("InRelease", "AuthError", TRUE)

\* the signature is bad: CheckStopAuthentication, then what the user allows
InReleaseBadSignature ==
  LET plan == [staged EXCEPT !["InRelease"] = Copy("Release", got["InRelease"])]
  IN  /\ Reply("InRelease") /\ AuthPass
      /\ IF lists["InRelease"] # 0 THEN SetStatus("InRelease", "TransientNetworkError", FALSE)
         ELSE \/ SetStatus("InRelease", "AuthError", TRUE)   \* NODATA
              \/ ~InsecureAllowed /\ Abort("InRelease", "Error")
              \/ InsecureAllowed /\ \E error \in BOOLEAN : SetStatus("InRelease", "Done", error)   \* unloadable, expired
              \/ InsecureAllowed /\ LoadAndQueue("InRelease", "Done", got["InRelease"], plan, plan, {})

\* the download failed
InReleaseFailed ==
  /\ Reply("InRelease") /\ ~AuthPass
  /\ \/ Abort("InRelease", "TransientNetworkError")
     \/ ~InsecureAllowed /\ Abort("InRelease", "Error")   \* not clearsigned, HTTP error
     \/ SetStatus("InRelease", "Error", TRUE)   \* the source names its InRelease file
     \* after any other failure Release and Release.gpg are tried
     \/ /\ Status' = [Status EXCEPT !["InRelease"] = "Done", !["Release"] = "Idle"]
        /\ staged' = [staged EXCEPT !["InRelease"] = Removal("InRelease")]
        /\ Transaction' = Transaction \cup {"Release"}
        /\ UNCHANGED <<server, lists, State, IMSHit, got, AuthPass, parser, last, keep, committed, failed, run>>

-----------------------------------------------------------------------------
(* pkgAcqMetaIndex: Release *)

\* CheckDownloadDone, and the pkgAcqMetaSig is created; on a hit it goes
\* straight to the verification of the Release.gpg in lists/
ReleaseFetched ==
  /\ Reply("Release")
  /\ \E v \in Served("Release") :
       LET hit == v = lists["Release"] /\ lists["Release.gpg"] # 0
       IN  /\ IMSHit' = (v = lists["Release"])
           /\ got' = [got EXCEPT !["Release"] = v,
                                 !["Release.gpg"] = IF hit THEN lists["Release.gpg"] ELSE 0]
           /\ AuthPass' = hit
  /\ Status' = [Status EXCEPT !["Release"] = "Done", !["Release.gpg"] = "Idle"]
  /\ Transaction' = Transaction \cup {"Release.gpg"}
  /\ UNCHANGED <<server, lists, State, parser, last, staged, keep, committed, failed, run>>

\* no Release file: only a user who allows that gets the indexes, unchecked
ReleaseFailed ==
  /\ Reply("Release")
  /\ IF InsecureAllowed
     THEN QueueIndexes("Release", "Done", 0, 0, FALSE, [staged EXCEPT !["Release"] = Removal("Release")], {})
     ELSE Abort("Release", "Error")

-----------------------------------------------------------------------------
(* pkgAcqMetaSig: Release.gpg *)

SigFetched ==
  /\ Reply("Release.gpg") /\ ~AuthPass
  /\ \E v \in Served("Release.gpg") : Downloaded("Release.gpg", v)
  /\ AuthPass' = TRUE
  /\ Status' = [Status EXCEPT !["Release.gpg"] = "Idle"]
  /\ UNCHANGED <<server, lists, State, parser, last, Transaction, staged, keep, committed, failed, run>>

\* the signature is that of the Release file: CheckAuthDone of Release
SigVerified ==
  LET plan == [staged EXCEPT !["Release.gpg"] = Copy("Release.gpg", got["Release.gpg"]),
                             !["Release"] = Copy("Release", got["Release"])]
  IN  /\ Reply("Release.gpg") /\ AuthPass /\ got["Release.gpg"] = got["Release"]
      /\ LoadAndQueue("Release.gpg", "Done", got["Release"],
                      IF lists["Release.gpg"] = 0 /\ lists["Release"] # 0 THEN plan ELSE staged, plan, {})

SigWeak ==
  /\ Reply("Release.gpg") /\ AuthPass /\ got["Release.gpg"] = got["Release"]
  /\ IF AllowInsecure
     THEN LoadAndQueue("Release.gpg", "Done", got["Release"],
                       [staged EXCEPT !["Release"] = Copy("Release", lists["Release"])],
                       [staged EXCEPT !["Release"] = Copy("Release", got["Release"])], {})
     ELSE /\ State' = "Abort" /\ Transaction' = {}
          /\ Status' = [Status EXCEPT !["Release"] = "AuthError", !["Release.gpg"] = "Done"]
          /\ failed' = TRUE
          /\ UNCHANGED <<server, lists, IMSHit, got, AuthPass, parser, last, staged, keep, committed, run>>

\* see InReleaseRejected; it is the Release item that gets the error
SigRejected ==
  /\ Reply("Release.gpg") /\ AuthPass /\ got["Release.gpg"] = got["Release"]
  /\ Status' = [Status EXCEPT !["Release"] = "AuthError", !["Release.gpg"] = "Done"]
  /\ failed' = TRUE
  /\ UNCHANGED <<server, lists, State, IMSHit, got, AuthPass, parser, last, Transaction, staged, keep, committed, run>>

\* Release.gpg cannot be had, or is not a good signature.  The removal staged
\* is that of DestFile, a file in partial/: lists/ keeps its Release.gpg.
SigFailed ==
  LET plan == [staged EXCEPT !["Release"] = Copy("Release", got["Release"])]
  IN  /\ Reply("Release.gpg")
      /\ \/ AuthPass /\ lists["Release.gpg"] # 0 /\ SetStatus("Release.gpg", "TransientNetworkError", FALSE)
         \/ AuthPass /\ lists["Release.gpg"] = 0 /\ SetStatus("Release.gpg", "AuthError", TRUE)   \* NODATA
         \/ /\ AuthPass => lists["Release.gpg"] = 0
            /\ IF InsecureAllowed
               THEN \E st \in {"Done", "TransientNetworkError"} :
                      \/ SetStatus("Release.gpg", st, TRUE)   \* expired
                      \/ LoadAndQueue("Release.gpg", st, got["Release"], plan, plan, {})
               ELSE \E st \in {"Done", "Error"} : Abort("Release.gpg", st)

-----------------------------------------------------------------------------
(* pkgAcqIndex; its two stages, download and decompress, are one *)

\* without a Release file to compare with, any version is accepted
IndexDone(i) ==
  /\ Reply(i)
  /\ \E v \in IF parser # 0 THEN {parser} ELSE {w \in Versions : w <= server.version /\ (Lag \/ w = server.version)} :
       /\ Content[v][i] # 0
       /\ staged' = [staged EXCEPT ![i] = Copy(i, Content[v][i])]
  /\ Status' = [Status EXCEPT ![i] = "Done"]
  /\ UNCHANGED <<server, lists, State, IMSHit, got, AuthPass, parser, last, Transaction, keep, committed, failed, run>>

\* mutant: a failed index is queued again, however often it fails
IndexRetried(i) == Reply(i) /\ SetStatus(i, "Idle", FALSE)

\* an optional index without hashes may fail to download, not to decompress
IndexFailed(i) ==
  /\ Reply(i)
  /\ \/ i \in Optional /\ parser = 0 /\ SetStatus(i, "Done", FALSE)
     \/ \E st \in Errors : Abort(i, st)

-----------------------------------------------------------------------------
(* The end of pkgAcquire::Run: the loop ends, the items are finished *)

RunEnds ==
  /\ run = "running"
  /\ \A i \in Files : Status[i] \notin {"Idle", "Fetching"}
  /\ run' = "over"
  /\ UNCHANGED <<server, lists, State, IMSHit, Status, got, AuthPass, parser, last, Transaction, staged, keep, committed, failed>>

\* Worker::MethodFailure, which makes the loop end early
MethodDies ==
  /\ MayDie /\ run = "running"
  /\ run' = "over" /\ failed' = TRUE
  /\ UNCHANGED <<server, lists, State, IMSHit, Status, got, AuthPass, parser, last, Transaction, staged, keep, committed>>

\* Pulse() returned false: Cancelled() of every item
Cancel ==
  /\ MayCancel /\ run = "running"
  /\ run' = "over"
  /\ IF State = "Started"
     THEN /\ State' = "Abort" /\ Transaction' = {}
          /\ Status' = [j \in Files |-> IF j \in Transaction /\ Status[j] = "Idle" THEN "Done" ELSE Status[j]]
     ELSE UNCHANGED <<State, Transaction, Status>>
  /\ UNCHANGED <<server, lists, IMSHit, got, AuthPass, parser, last, staged, keep, committed, failed>>

TransactionHasError == \E i \in Transaction : Status[i] \in Errors

\* pkgAcqMetaClearSig::Finished
Finished ==
  /\ run = "over" /\ State = "Started" /\ ~TransactionHasError
  /\ State' = "Commit"
  /\ UNCHANGED <<server, lists, IMSHit, Status, got, AuthPass, parser, last, Transaction, staged, keep, committed, failed, run>>

-----------------------------------------------------------------------------
(* CommitTransaction: every item but the manager in the order they were    *)
(* added (the order of index files is random), and the manager last        *)

\* mutant: the manager is not the last one to be committed
CommitInAnyOrder(i) == State = "Commit" /\ i \in Transaction \ committed

MayCommit(i) ==
  /\ State = "Commit" /\ i \in Transaction \ committed
  /\ CASE i = "Release"     -> TRUE
       [] i = "Release.gpg" -> "Release" \in committed
       [] i = "InRelease"   -> Transaction \ committed = {"InRelease"}
       [] OTHER             -> Transaction \cap {"Release", "Release.gpg"} \subseteq committed

\* pkgAcqMetaBase::TransactionState does nothing on a hit
Staged(i) == IF IMSHit /\ i \in {"InRelease", "Release"} THEN Nothing(i) ELSE staged[i]

\* the first half of TransactionState: the old file is removed
Removed(i) == IF Staged(i).op = "none" THEN lists ELSE [lists EXCEPT ![i] = 0]

\* both halves
Moved(i) == IF Staged(i).op = "copy" THEN [Removed(i) EXCEPT ![Staged(i).dest] = Staged(i).ver] ELSE Removed(i)

CommitItem(i) ==
  /\ MayCommit(i)
  /\ committed' = committed \cup {i}
  /\ \/ lists' = Moved(i) /\ UNCHANGED Status
     \* Rename failed, which CommitTransaction ignores
     \/ /\ MayFail /\ Staged(i).op = "copy"
        /\ lists' = Removed(i) /\ Status' = [Status EXCEPT ![i] = "Error"]
  /\ UNCHANGED <<server, State, IMSHit, got, AuthPass, parser, last, Transaction, staged, keep, failed, run>>

-----------------------------------------------------------------------------
(* The end of AcquireUpdate *)

\* pkgAcquire::Clean keeps the files which have the name of some item's DestFile
Claimed ==
  keep \cup {staged[g].dest : g \in {h \in Files : Status[h] # "New" /\ (h \in Meta \/ staged[h].op # "none")}}

\* DestFile of an index item which did not get its file may or may not have
\* the extension of the compression
Unsure == {i \in Indexes : Status[i] = "Done" /\ staged[i].op = "none" /\ i \notin keep}

Over == \/ run = "over" /\ State = "Started" /\ TransactionHasError
        \/ run = "over" /\ State = "Abort"
        \/ State = "Commit" /\ Transaction \subseteq committed

\* mutant: the clean up does not ask for failures
MayAlwaysClean == TRUE

\* the clean up happens if all went well
MayClean == ~failed /\ \A i \in Files : Status[i] \in {"New", "Done"}

\* other repositories may have failed, so it may still not happen
AcquireUpdate ==
  /\ Over
  /\ \/ UNCHANGED lists
     \/ /\ MayClean
        /\ \E S \in SUBSET Unsure :
             lists' = [f \in Files |-> IF f \in Claimed \cup S THEN lists[f] ELSE 0]
  /\ Exit
  /\ UNCHANGED server

\* apt is killed, perhaps after the removal of an old file
Crash ==
  /\ MayCrash /\ run # "setup"
  /\ \/ UNCHANGED lists
     \/ \E i \in Files : MayCommit(i) /\ lists' = Removed(i)
  /\ Exit
  /\ UNCHANGED server

-----------------------------------------------------------------------------
Init ==
  /\ \E m \in Layouts : server = [version |-> 1, files |-> m]
  /\ lists = [f \in Files |-> 0]
  /\ State = "none" /\ IMSHit = FALSE /\ run = "setup"
  /\ Status = [i \in Files |-> "New"]
  /\ got = [m \in Meta |-> 0] /\ AuthPass = FALSE
  /\ parser = 0 /\ last = 0
  /\ Transaction = {} /\ staged = [f \in Files |-> Nothing(f)]
  /\ keep = {} /\ committed = {} /\ failed = FALSE

AcquireMeta ==
  \/ InReleaseFetched \/ InReleaseVerified \/ InReleaseWeak \/ InReleaseRejected
  \/ InReleaseBadSignature \/ InReleaseFailed
  \/ ReleaseFetched \/ ReleaseFailed
  \/ SigFetched \/ SigVerified \/ SigWeak \/ SigRejected \/ SigFailed

Next ==
  \/ Publish \/ Start
  \/ \E i \in Files : Send(i) \/ DoomedReply(i)
  \/ AcquireMeta
  \/ \E i \in Indexes : IndexDone(i) \/ IndexFailed(i)
  \/ RunEnds \/ MethodDies \/ Cancel \/ Finished
  \/ \E i \in Files : CommitItem(i)
  \/ AcquireUpdate \/ Crash

Spec == Init /\ [][Next]_vars

\* a queued item is sent and answered: methods have timeouts, and Run() loops
\* until nothing is queued; the rest is straight code
Progress ==
  \/ \E i \in Files : Send(i) \/ DoomedReply(i) \/ CommitItem(i)
  \/ AcquireMeta
  \/ \E i \in Indexes : IndexDone(i) \/ IndexFailed(i)
  \/ RunEnds \/ Finished \/ AcquireUpdate

FairSpec == Spec /\ WF_vars(Progress)

-----------------------------------------------------------------------------
(* Properties *)

\* The variables hold values of the types the code gives them.
TypeOK ==
  /\ server \in [version : Versions, files : SUBSET Meta]
  /\ lists \in [Files -> 0..MaxVersion]
  /\ State \in {"none", "Started", "Abort", "Commit"}
  /\ IMSHit \in BOOLEAN
  /\ Status \in [Files -> Statuses]
  /\ got \in [Meta -> 0..MaxVersion]
  /\ AuthPass \in BOOLEAN
  /\ parser \in 0..MaxVersion
  /\ last \in 0..MaxVersion
  /\ Transaction \subseteq Files
  /\ staged \in [Files -> Staging]
  /\ keep \subseteq Files
  /\ committed \subseteq Files
  /\ failed \in BOOLEAN
  /\ run \in {"setup", "running", "over"}

\* Between updates no index file in lists/ is older than the Release file next
\* to it says, even if an update was killed, cancelled or failed half way: this
\* is why CommitTransaction commits InRelease last.
NoStaleIndex ==
  run = "setup" /\ OnDisk # 0 => \A i \in Indexes : lists[i] # 0 => lists[i] >= Content[OnDisk][i]

\* Between updates lists/ holds exactly what the Release file in it lists, each
\* file in the version it names: the transaction is all or nothing.
Consistent ==
  run = "setup" /\ OnDisk # 0 => \A i \in Indexes : lists[i] = Content[OnDisk][i]

\* The comment in VerifyVendor: apt is never downgraded "to older (still
\* valid) files", whatever the mirror serves.
NoDowngrade == [][OnDisk # 0 /\ OnDisk' # 0 => OnDisk' >= OnDisk]_vars

\* Only a transaction that is being committed changes lists/: one that is
\* still going on, or was aborted, does not, nor does the clean up after it.
FailureKeepsLists == [][lists' # lists => State = "Commit"]_vars

\* Every update comes to an end: no item of an aborted transaction is waited
\* for that nobody will send, and no fallback leads back to itself.
UpdateEnds == run = "running" ~> run = "setup"

\* The comment in pkgAcqMetaSig::Failed: the failure "ensures that a
\* Release.gpg file in the lists/ is removed by the transaction"; so a
\* Release.gpg in lists/, which makes IsTrusted true, is that of the Release file.
SignatureMatches ==
  run = "setup" /\ lists["Release"] # 0 /\ lists["Release.gpg"] # 0 => lists["Release.gpg"] = lists["Release"]

\* Between updates lists/ is what one signed version of the repository says,
\* signature included.
ListsConsistent == Consistent /\ SignatureMatches
====
