------------------------- MODULE AcqTransactionProofs -------------------------
(***************************************************************************)
(* Theorems about AcqTransaction, for every set of index files, every      *)
(* history of published contents and every bound: types, no stale index,   *)
(* and what an update, by its commit and its clean up, may do to lists/.   *)
(***************************************************************************)
EXTENDS AcqTransaction, TLAPS

-----------------------------------------------------------------------------
(* Type correctness *)

\* What a Release file lists for an index is a version or 0.
LEMMA ContentType ==
  \A v \in Versions, i \in Indexes : Content[v][i] \in 0..MaxVersion
  BY TransactionAssumption

\* The values staged are of the type Staging.
LEMMA StagingTypes ==
  \A f \in Files, v \in 0..MaxVersion :
    Nothing(f) \in Staging /\ Copy(f, v) \in Staging /\ Removal(f) \in Staging
  BY TransactionAssumption DEF Nothing, Copy, Removal, Staging

\* AbortTransaction keeps the types.
LEMMA AbortType ==
  ASSUME TypeOK, NEW i \in Files, NEW st \in Statuses, Abort(i, st)
  PROVE  TypeOK'
  BY DEF TypeOK, Abort, Statuses

\* A change of one item's status keeps the types.
LEMMA SetStatusType ==
  ASSUME TypeOK, NEW i \in Files, NEW st \in Statuses, NEW e \in BOOLEAN, SetStatus(i, st, e)
  PROVE  TypeOK'
  BY DEF TypeOK, SetStatus, Statuses

\* QueueIndexes keeps the types.
LEMMA QueueIndexesType ==
  ASSUME TypeOK, NEW m \in Files, NEW st \in Statuses, NEW v \in 0..MaxVersion,
         NEW l \in 0..MaxVersion, NEW hit \in BOOLEAN, NEW plan \in [Files -> Staging],
         NEW kept \in SUBSET Files, QueueIndexes(m, st, v, l, hit, plan, kept)
  PROVE  TypeOK'
  <1>1. staged' \in [Files -> Staging]
    BY StagingTypes DEF QueueIndexes, CleanupItems, Files, TypeOK
  <1>2. Status' \in [Files -> Statuses]
    BY DEF QueueIndexes, Statuses, TypeOK
  <1>3. Transaction' \subseteq Files /\ keep' \subseteq Files
    BY DEF QueueIndexes, TypeOK, Wanted, CleanupItems, Current, Files
  <1> QED BY <1>1, <1>2, <1>3 DEF QueueIndexes, TypeOK

\* The versions in lists/ are versions or 0.
LEMMA OnDiskType ==
  ASSUME TypeOK
  PROVE  /\ OnDisk \in 0..MaxVersion
         /\ \A m \in Meta : lists[m] \in 0..MaxVersion /\ got[m] \in 0..MaxVersion
  BY DEF TypeOK, OnDisk, Files, Meta

\* LoadAndQueue keeps the types.
LEMMA LoadAndQueueType ==
  ASSUME TypeOK, NEW m \in Files, NEW st \in Statuses, NEW v \in 0..MaxVersion,
         NEW onHit \in [Files -> Staging], NEW onNew \in [Files -> Staging],
         NEW kept \in SUBSET Files, LoadAndQueue(m, st, v, onHit, onNew, kept)
  PROVE  TypeOK'
  <1> DEFINE l     == IF IMSHit THEN 0 ELSE OnDisk
             older == OlderThanLast(v, l)
             hit   == IMSHit \/ older
             w     == IF older THEN l ELSE v
             p     == IF older THEN 0 ELSE l
             plan  == IF hit THEN onHit ELSE onNew
             ks    == IF hit THEN kept ELSE {}
  <1>1. l \in 0..MaxVersion /\ w \in 0..MaxVersion /\ p \in 0..MaxVersion
    BY OnDiskType, TransactionAssumption
  <1>2. hit \in BOOLEAN /\ plan \in [Files -> Staging] /\ ks \in SUBSET Files
    BY DEF TypeOK, OlderThanLast
  <1>3. QueueIndexes(m, st, w, p, hit, plan, ks)
    BY DEF LoadAndQueue
  <1> HIDE DEF w, p, hit, plan, ks
  <1> QED BY <1>1, <1>2, <1>3, QueueIndexesType

\* The initial state has the types.
LEMMA InitType == Init => TypeOK
  <1> SUFFICES ASSUME Init PROVE TypeOK
    OBVIOUS
  <1>1. server \in [version : Versions, files : SUBSET Meta]
    BY TransactionAssumption DEF Init, Versions
  <1>2. staged \in [Files -> Staging]
    BY StagingTypes, TransactionAssumption DEF Init
  <1>3. Status \in [Files -> Statuses]
    BY DEF Init, Statuses
  <1>4. lists \in [Files -> 0..MaxVersion] /\ got \in [Meta -> 0..MaxVersion] /\ parser \in 0..MaxVersion /\ last \in 0..MaxVersion
    BY TransactionAssumption DEF Init
  <1>5. IMSHit \in BOOLEAN /\ AuthPass \in BOOLEAN /\ failed \in BOOLEAN
    BY Zenon DEF Init
  <1>6. State \in {"none", "Started", "Abort", "Commit"} /\ run \in {"setup", "running", "over"}
    BY DEF Init
  <1>7. Transaction \subseteq Files /\ keep \subseteq Files /\ committed \subseteq Files
    BY DEF Init
  <1> QED BY <1>1, <1>2, <1>3, <1>4, <1>5, <1>6, <1>7 DEF TypeOK

\* Facts about the names of the meta files that every handler needs.
LEMMA MetaFacts ==
  ASSUME TypeOK
  PROVE  /\ "InRelease" \in Files /\ "Release" \in Files /\ "Release.gpg" \in Files
         /\ "Done" \in Statuses /\ "Idle" \in Statuses /\ "Error" \in Statuses
         /\ "AuthError" \in Statuses /\ "TransientNetworkError" \in Statuses
         /\ \A m \in {"InRelease", "Release", "Release.gpg"} :
              lists[m] \in 0..MaxVersion /\ got[m] \in 0..MaxVersion
         /\ \A f, g \in {"InRelease", "Release", "Release.gpg"}, v \in 0..MaxVersion :
              [staged EXCEPT ![f] = Copy(g, v)] \in [Files -> Staging]
         /\ staged \in [Files -> Staging]
         /\ {"Release", "Release.gpg"} \in SUBSET Files /\ {"Release"} \in SUBSET Files /\ {} \in SUBSET Files
  <1>1. Meta = {"InRelease", "Release", "Release.gpg"} /\ Meta \subseteq Files
    BY DEF Meta, Files
  <1>2. \A m \in Meta : lists[m] \in 0..MaxVersion /\ got[m] \in 0..MaxVersion
    BY OnDiskType
  <1>3. \A f, g \in Meta, v \in 0..MaxVersion : [staged EXCEPT ![f] = Copy(g, v)] \in [Files -> Staging]
    BY <1>1, StagingTypes DEF TypeOK
  <1> QED BY <1>1, <1>2, <1>3 DEF Statuses, TypeOK

\* The handlers of pkgAcqMetaClearSig keep the types.
LEMMA ClearSigType ==
  ASSUME TypeOK,
         \/ InReleaseFetched \/ InReleaseVerified \/ InReleaseWeak \/ InReleaseRejected
         \/ InReleaseBadSignature \/ InReleaseFailed
  PROVE  TypeOK'
  <1> USE TransactionAssumption
  <1> DEFINE asIs   == [staged EXCEPT !["InRelease"] = Copy("InRelease", got["InRelease"])]
             asRel  == [staged EXCEPT !["InRelease"] = Copy("Release", got["InRelease"])]
             oldRel == IF lists["InRelease"] = 0 THEN staged
                       ELSE [staged EXCEPT !["InRelease"] = Copy("Release", lists["InRelease"])]
             both   == IF lists["InRelease"] = 0 THEN {"Release", "Release.gpg"} ELSE {}
             one    == IF lists["InRelease"] = 0 THEN {"Release"} ELSE {}
  <1>0. /\ asIs \in [Files -> Staging] /\ asRel \in [Files -> Staging] /\ oldRel \in [Files -> Staging]
        /\ both \in SUBSET Files /\ one \in SUBSET Files /\ got["InRelease"] \in 0..MaxVersion
    BY MetaFacts
  <1>1. CASE InReleaseFetched
    <2>1. PICK v \in Versions : got' = [got EXCEPT !["InRelease"] = v] /\ IMSHit' = (IMSHit \/ v = lists["InRelease"])
      BY <1>1 DEF InReleaseFetched, Downloaded, Served
    <2>2. got' \in [Meta -> 0..MaxVersion] /\ Status' \in [Files -> Statuses]
      BY <1>1, <2>1, MetaFacts DEF InReleaseFetched, TypeOK, Versions, Meta
    <2>3. IMSHit' \in BOOLEAN /\ AuthPass' \in BOOLEAN
      BY <1>1, <2>1, Zenon DEF InReleaseFetched, TypeOK
    <2> QED BY <1>1, <2>2, <2>3 DEF InReleaseFetched, TypeOK
  <1>2. CASE InReleaseVerified
    <2>1. LoadAndQueue("InRelease", "Done", got["InRelease"], staged, asIs, both)
      BY <1>2 DEF InReleaseVerified
    <2> HIDE DEF asIs, both
    <2> QED BY <2>1, <1>0, MetaFacts, LoadAndQueueType
  <1>3. CASE InReleaseWeak
    <2>1. \/ LoadAndQueue("InRelease", "Done", got["InRelease"], oldRel, asRel, one)
          \/ Abort("InRelease", "AuthError")
      BY <1>3 DEF InReleaseWeak
    <2> HIDE DEF oldRel, asRel, one
    <2> QED BY <2>1, <1>0, MetaFacts, LoadAndQueueType, AbortType
  <1>4. CASE InReleaseRejected
    BY <1>4, MetaFacts, SetStatusType DEF InReleaseRejected
  <1>5. CASE InReleaseBadSignature
    <2>1. \/ \E st \in {"TransientNetworkError", "AuthError", "Done"}, e \in BOOLEAN : SetStatus("InRelease", st, e)
          \/ Abort("InRelease", "Error")
          \/ LoadAndQueue("InRelease", "Done", got["InRelease"], asRel, asRel, {})
      BY <1>5, Zenon DEF InReleaseBadSignature
    <2>2. CASE \E st \in {"TransientNetworkError", "AuthError", "Done"}, e \in BOOLEAN : SetStatus("InRelease", st, e)
      BY <2>2, MetaFacts, SetStatusType
    <2>3. CASE Abort("InRelease", "Error")
      BY <2>3, MetaFacts, AbortType
    <2> HIDE DEF asRel
    <2>4. CASE LoadAndQueue("InRelease", "Done", got["InRelease"], asRel, asRel, {})
      BY <2>4, <1>0, MetaFacts, LoadAndQueueType
    <2> QED BY <2>1, <2>2, <2>3, <2>4
  <1>6. CASE InReleaseFailed
    <2> DEFINE fallback ==
               /\ Status' = [Status EXCEPT !["InRelease"] = "Done", !["Release"] = "Idle"]
               /\ staged' = [staged EXCEPT !["InRelease"] = Removal("InRelease")]
               /\ Transaction' = Transaction \cup {"Release"}
               /\ UNCHANGED <<server, lists, State, IMSHit, got, AuthPass, parser, last, keep, committed, failed, run>>
    <2>1. CASE Abort("InRelease", "TransientNetworkError") \/ Abort("InRelease", "Error")
      BY <2>1, MetaFacts, AbortType
    <2>2. CASE SetStatus("InRelease", "Error", TRUE)
      BY <2>2, MetaFacts, SetStatusType
    <2>3. CASE fallback
      BY <2>3, MetaFacts, StagingTypes DEF TypeOK, Statuses
    <2> QED BY <1>6, <2>1, <2>2, <2>3 DEF InReleaseFailed
  <1> QED BY <1>1, <1>2, <1>3, <1>4, <1>5, <1>6

\* The handlers of pkgAcqMetaIndex and pkgAcqMetaSig keep the types.
LEMMA DetachedType ==
  ASSUME TypeOK,
         \/ ReleaseFetched \/ ReleaseFailed
         \/ SigFetched \/ SigVerified \/ SigWeak \/ SigRejected \/ SigFailed
  PROVE  TypeOK'
  <1> USE TransactionAssumption
  <1> DEFINE none == [staged EXCEPT !["Release"] = Removal("Release")]
             rel  == [staged EXCEPT !["Release"] = Copy("Release", got["Release"])]
             old  == [staged EXCEPT !["Release"] = Copy("Release", lists["Release"])]
             both == [staged EXCEPT !["Release.gpg"] = Copy("Release.gpg", got["Release.gpg"]),
                                    !["Release"] = Copy("Release", got["Release"])]
             hit  == IF lists["Release.gpg"] = 0 /\ lists["Release"] # 0 THEN both ELSE staged
  <1>0. /\ none \in [Files -> Staging] /\ rel \in [Files -> Staging] /\ old \in [Files -> Staging]
        /\ both \in [Files -> Staging] /\ hit \in [Files -> Staging] /\ got["Release"] \in 0..MaxVersion
    <2>1. none \in [Files -> Staging] /\ both \in [Files -> Staging]
      BY MetaFacts, StagingTypes
    <2>2. rel \in [Files -> Staging] /\ old \in [Files -> Staging] /\ got["Release"] \in 0..MaxVersion
      BY MetaFacts
    <2> QED BY <2>1, <2>2, MetaFacts
  <1>1. CASE ReleaseFetched
    <2>1. PICK v \in Versions :
            /\ IMSHit' \in BOOLEAN /\ AuthPass' \in BOOLEAN
            /\ got' = [got EXCEPT !["Release"] = v,
                                  !["Release.gpg"] = IF v = lists["Release"] /\ lists["Release.gpg"] # 0
                                                     THEN lists["Release.gpg"] ELSE 0]
      BY <1>1 DEF ReleaseFetched, Served
    <2>4. 0 \in 0..MaxVersion
      OBVIOUS
    <2>5. PICK w \in 0..MaxVersion : got' = [got EXCEPT !["Release"] = v, !["Release.gpg"] = w]
      BY <2>1, MetaFacts, <2>4
    <2>6. v \in 0..MaxVersion
      BY DEF Versions
    <2>2. got' \in [Meta -> 0..MaxVersion]
      BY <2>5, <2>6 DEF TypeOK, Meta
    <2>3. Status' \in [Files -> Statuses] /\ Transaction' \subseteq Files
      BY <1>1, MetaFacts DEF ReleaseFetched, TypeOK
    <2> QED BY <1>1, <2>1, <2>2, <2>3 DEF ReleaseFetched, TypeOK
  <1>2. CASE ReleaseFailed
    <2>1. QueueIndexes("Release", "Done", 0, 0, FALSE, none, {}) \/ Abort("Release", "Error")
      BY <1>2 DEF ReleaseFailed
    <2> HIDE DEF none
    <2>2. 0 \in 0..MaxVersion /\ FALSE \in BOOLEAN
      OBVIOUS
    <2>3. CASE QueueIndexes("Release", "Done", 0, 0, FALSE, none, {})
      BY <2>2, <2>3, <1>0, MetaFacts, QueueIndexesType
    <2>4. CASE Abort("Release", "Error")
      BY <2>4, MetaFacts, AbortType
    <2> QED BY <2>1, <2>3, <2>4
  <1>3. CASE SigFetched
    <2>1. PICK v \in Versions : got' = [got EXCEPT !["Release.gpg"] = v] /\ IMSHit' = (IMSHit \/ v = lists["Release.gpg"])
      BY <1>3 DEF SigFetched, Downloaded, Served
    <2>2. got' \in [Meta -> 0..MaxVersion] /\ Status' \in [Files -> Statuses]
      BY <1>3, <2>1, MetaFacts DEF SigFetched, TypeOK, Versions, Meta
    <2>3. IMSHit' \in BOOLEAN /\ AuthPass' \in BOOLEAN
      BY <1>3, <2>1, Zenon DEF SigFetched, TypeOK
    <2> QED BY <1>3, <2>2, <2>3 DEF SigFetched, TypeOK
  <1>4. CASE SigVerified
    <2>1. LoadAndQueue("Release.gpg", "Done", got["Release"], hit, both, {})
      BY <1>4, Zenon DEF SigVerified
    <2> HIDE DEF hit, both
    <2> QED BY <2>1, <1>0, MetaFacts, LoadAndQueueType
  <1>5. CASE SigWeak
    <2>1. CASE AllowInsecure
      <3>1. LoadAndQueue("Release.gpg", "Done", got["Release"], old, rel, {})
        BY <1>5, <2>1 DEF SigWeak
      <3> HIDE DEF old, rel
      <3> QED BY <3>1, <1>0, MetaFacts, LoadAndQueueType
    <2>2. CASE ~AllowInsecure
      BY <1>5, <2>2, MetaFacts DEF SigWeak, TypeOK
    <2> QED BY <2>1, <2>2
  <1>6. CASE SigRejected
    BY <1>6 DEF SigRejected, TypeOK, Statuses
  <1>7. CASE SigFailed
    <2>1. \/ \E st \in {"TransientNetworkError", "AuthError", "Done"}, e \in BOOLEAN : SetStatus("Release.gpg", st, e)
          \/ \E st \in {"Done", "Error"} : Abort("Release.gpg", st)
          \/ \E st \in {"Done", "TransientNetworkError"} :
               LoadAndQueue("Release.gpg", st, got["Release"], rel, rel, {})
      BY <1>7, Zenon DEF SigFailed
    <2>2. CASE \E st \in {"TransientNetworkError", "AuthError", "Done"}, e \in BOOLEAN : SetStatus("Release.gpg", st, e)
      BY <2>2, MetaFacts, SetStatusType
    <2>3. CASE \E st \in {"Done", "Error"} : Abort("Release.gpg", st)
      BY <2>3, MetaFacts, AbortType
    <2> HIDE DEF rel
    <2>4. CASE \E st \in {"Done", "TransientNetworkError"} :
                 LoadAndQueue("Release.gpg", st, got["Release"], rel, rel, {})
      BY <2>4, <1>0, MetaFacts, LoadAndQueueType
    <2> QED BY <2>1, <2>2, <2>3, <2>4
  <1> QED BY <1>1, <1>2, <1>3, <1>4, <1>5, <1>6, <1>7

\* Exit leaves memory with the types.
LEMMA ExitType ==
  ASSUME TypeOK, Exit, server' = server, lists' \in [Files -> 0..MaxVersion]
  PROVE  TypeOK'
  <1>1. staged' \in [Files -> Staging] /\ Status' \in [Files -> Statuses]
    BY StagingTypes, TransactionAssumption DEF Exit, Statuses
  <1>2. got' \in [Meta -> 0..MaxVersion] /\ parser' \in 0..MaxVersion /\ last' \in 0..MaxVersion
    BY TransactionAssumption DEF Exit
  <1>3. IMSHit' \in BOOLEAN /\ AuthPass' \in BOOLEAN /\ failed' \in BOOLEAN
    BY Zenon DEF Exit
  <1>4. /\ State' \in {"none", "Started", "Abort", "Commit"} /\ run' \in {"setup", "running", "over"}
        /\ Transaction' \subseteq Files /\ keep' \subseteq Files /\ committed' \subseteq Files
    BY DEF Exit
  <1>5. server' \in [version : Versions, files : SUBSET Meta]
    BY DEF TypeOK
  <1> QED BY <1>1, <1>2, <1>3, <1>4, <1>5 DEF TypeOK

\* What a commit leaves in lists/ has its type.
LEMMA MovedType ==
  ASSUME TypeOK, NEW i \in Files
  PROVE  /\ Removed(i) \in [Files -> 0..MaxVersion]
         /\ Moved(i) \in [Files -> 0..MaxVersion]
  <1>1. Staged(i) \in Staging
    BY StagingTypes, TransactionAssumption DEF Staged, TypeOK
  <1>2. Removed(i) \in [Files -> 0..MaxVersion]
    BY TransactionAssumption DEF Removed, TypeOK
  <1> QED BY <1>1, <1>2 DEF Moved, Staging

\* Every step keeps the types.
LEMMA StepType ==
  ASSUME TypeOK, [Next]_vars
  PROVE  TypeOK'
  <1> USE TransactionAssumption
  <1>1. CASE Publish
    BY <1>1 DEF Publish, TypeOK, memory, Versions
  <1>2. CASE Start
    BY <1>2 DEF Start, TypeOK, Statuses, Files, Meta
  <1>3. ASSUME NEW i \in Files, Send(i) \/ DoomedReply(i)
        PROVE  TypeOK'
    <2>1. \E st \in Statuses, e \in BOOLEAN : SetStatus(i, st, e)
      BY <1>3, Zenon DEF Send, DoomedReply, Statuses
    <2> QED BY <2>1, SetStatusType
  <1>4. CASE AcquireMeta
    BY <1>4, ClearSigType, DetachedType DEF AcquireMeta
  <1>5. ASSUME NEW i \in Indexes, IndexDone(i)
        PROVE  TypeOK'
    BY <1>5, StagingTypes, ContentType DEF IndexDone, TypeOK, Statuses, Files, Versions
  <1>6. ASSUME NEW i \in Indexes, IndexFailed(i)
        PROVE  TypeOK'
    <2>1. (\E st \in Statuses, e \in BOOLEAN : SetStatus(i, st, e)) \/ (\E st \in Statuses : Abort(i, st))
      BY <1>6, Zenon DEF IndexFailed, Statuses, Errors
    <2>2. i \in Files
      BY DEF Files
    <2> QED BY <2>1, <2>2, SetStatusType, AbortType
  <1>7. CASE RunEnds \/ MethodDies \/ Cancel \/ Finished
    <2>1. CASE RunEnds
      BY <2>1 DEF RunEnds, TypeOK
    <2>2. CASE MethodDies
      BY <2>2 DEF MethodDies, TypeOK, Statuses
    <2>3. CASE Cancel
      BY <2>3 DEF Cancel, TypeOK, Statuses
    <2>4. CASE Finished
      BY <2>4 DEF Finished, TypeOK, Statuses
    <2> QED BY <1>7, <2>1, <2>2, <2>3, <2>4
  <1>8. ASSUME NEW i \in Files, CommitItem(i)
        PROVE  TypeOK'
    BY <1>8, MovedType DEF CommitItem, TypeOK, Statuses
  <1>9. CASE AcquireUpdate
    <2>1. lists' \in [Files -> 0..MaxVersion]
      BY <1>9 DEF AcquireUpdate, TypeOK
    <2> QED BY <1>9, <2>1, ExitType DEF AcquireUpdate
  <1>10. CASE Crash
    <2>1. lists' \in [Files -> 0..MaxVersion]
      BY <1>10, MovedType DEF Crash, TypeOK
    <2> QED BY <1>10, <2>1, ExitType DEF Crash
  <1>11. CASE UNCHANGED vars
    BY <1>11 DEF vars, memory, TypeOK
  <1> QED BY <1>1, <1>2, <1>3, <1>4, <1>5, <1>6, <1>7, <1>8, <1>9, <1>10, <1>11 DEF Next

\* Whatever the repository publishes and whatever fails, the variables of the
\* transaction keep their types.
THEOREM TypeCorrect == Spec => []TypeOK
  <1>1. TypeOK /\ [Next]_vars => TypeOK'
    BY StepType
  <1> QED BY InitType, <1>1, PTL DEF Spec

-----------------------------------------------------------------------------
(***************************************************************************)
(* NoStaleIndex.  It needs three assumptions: no method dies (a run that   *)
(* ends early is committed half done), the repository signs InRelease (a   *)
(* Release file is committed before the index files), and nothing insecure *)
(* is allowed.  Crashes, cancellation, failing renames, mirrors that lag   *)
(* behind and failing downloads are all allowed.                           *)
(***************************************************************************)
Careful == ~MayDie /\ ~AllowInsecure /\ \A m \in Layouts : "Release" \notin m

\* at every moment, not only between updates
Fresh == \A i \in Indexes : lists["InRelease"] # 0 /\ lists[i] # 0 => lists[i] >= Content[lists["InRelease"]][i]

\* Release and Release.gpg never get anywhere
OnlyInRelease ==
  /\ "Release" \notin server.files
  /\ lists["Release"] = 0
  /\ Status["Release.gpg"] = "New"
  /\ staged["Release"].op = "none" /\ staged["Release.gpg"].op = "none"

Active == State \in {"Started", "Commit"}

\* before QueueIndexes
NothingQueued ==
  Active /\ parser = 0 =>
    /\ Transaction \cap Indexes = {}
    /\ \A i \in Indexes : Status[i] = "New" /\ staged[i].op = "none"
    /\ staged["InRelease"].op # "copy"
    /\ AuthPass => got["InRelease"] # 0
    /\ IMSHit => AuthPass /\ got["InRelease"] = lists["InRelease"]

\* after QueueIndexes
Planned ==
  Active /\ parser # 0 =>
    /\ Status["InRelease"] \notin {"Idle", "Fetching"}
    /\ lists["InRelease"] <= parser
    /\ IMSHit => lists["InRelease"] = parser
    /\ staged["InRelease"].op = "copy" => staged["InRelease"].dest = "InRelease" /\ staged["InRelease"].ver = parser
    /\ \A i \in Indexes :
         /\ staged[i].op = "copy" => staged[i].dest = i /\ staged[i].ver = Content[parser][i]
         /\ i \notin Transaction \/ i \in committed => lists[i] = 0 \/ lists[i] >= Content[parser][i]
         /\ i \in Transaction => Status[i] # "New"
         /\ i \in Transaction /\ Status[i] = "Done" => staged[i].op # "none"
         /\ i \in Transaction /\ State = "Commit" => staged[i].op # "none"

\* a new process has done nothing yet
AtRest ==
  /\ State = "none" /\ parser = 0 /\ AuthPass = FALSE /\ IMSHit = FALSE
  /\ \A f \in Files : Status[f] = "New" /\ staged[f].op = "none"

\* the phases of an update
Phases ==
  /\ run = "setup" => AtRest
  /\ State # "Commit" => committed = {}
  /\ State = "Commit" => run = "over"
  /\ run = "over" /\ State = "Started" => \A f \in Files : Status[f] \notin {"Idle", "Fetching"}

IInv == TypeOK /\ Fresh /\ OnlyInRelease /\ NothingQueued /\ Planned /\ Phases

\* Facts used in most steps.
LEMMA IInvFacts ==
  ASSUME IInv
  PROVE  /\ OnDisk = lists["InRelease"]
         /\ lists["InRelease"] \in 0..MaxVersion /\ parser \in 0..MaxVersion
         /\ \A i \in Indexes : /\ i \in Files /\ i \notin Meta
                               /\ lists[i] \in 0..MaxVersion
         /\ "InRelease" \in Files /\ "Release" \in Files /\ "Release.gpg" \in Files
  BY TransactionAssumption DEF IInv, TypeOK, OnlyInRelease, OnDisk, Files, Meta

\* The initial state: nothing is in lists/.
LEMMA InitIInv == Careful /\ Init => IInv
  <1> SUFFICES ASSUME Careful, Init PROVE IInv
    OBVIOUS
  <1>1. TypeOK
    BY InitType
  <1>2. Indexes \subseteq Files /\ {"InRelease", "Release", "Release.gpg"} \subseteq Files
    BY DEF Files, Meta
  <1>3. Fresh /\ OnlyInRelease /\ Phases
    BY <1>2 DEF Fresh, OnlyInRelease, Phases, AtRest, Init, Careful, Nothing
  <1>4. NothingQueued /\ Planned
    BY DEF NothingQueued, Planned, Active, Init
  <1> QED BY <1>1, <1>3, <1>4 DEF IInv

\* Where the transaction is over, only lists/ and the phases matter.
LEMMA InactiveIInv ==
  ASSUME TypeOK', Fresh', OnlyInRelease', State' \in {"none", "Abort"}, committed' = {},
         run' = "setup" => AtRest'
  PROVE  IInv'
  BY DEF IInv, NothingQueued, Planned, Active, Phases

\* AbortTransaction.
LEMMA AbortIInv ==
  ASSUME IInv, TypeOK', NEW i \in Files, NEW st \in Statuses, Abort(i, st), i # "Release.gpg",
         State = "Started", run = "running"
  PROVE  IInv'
  <1>1. Fresh' /\ OnlyInRelease'
    BY IInvFacts DEF IInv, Fresh, OnlyInRelease, Abort
  <1> QED BY <1>1, InactiveIInv DEF Abort, IInv, Phases

\* A change of the status of an item which is being fetched or waits for it.
LEMMA SetStatusIInv ==
  ASSUME IInv, TypeOK', NEW i \in Files, NEW st \in Statuses, NEW e \in BOOLEAN, SetStatus(i, st, e),
         run = "running", Status[i] \in {"Idle", "Fetching"}, st # "New",
         State = "Started" => i \notin Indexes \/ st # "Done"
  PROVE  IInv'
  <1>1. Fresh' /\ OnlyInRelease'
    BY IInvFacts DEF IInv, Fresh, OnlyInRelease, SetStatus, TypeOK
  <1>2. NothingQueued'
    BY IInvFacts DEF IInv, NothingQueued, Active, SetStatus, TypeOK
  <1>3. Planned'
    BY IInvFacts DEF IInv, Planned, Active, SetStatus, TypeOK, Phases
  <1>4. Phases'
    BY DEF IInv, Phases, SetStatus
  <1> QED BY <1>1, <1>2, <1>3, <1>4 DEF IInv

\* QueueIndexes of a verified InRelease: whatever is kept is fresh enough for
\* the Release file that is about to replace the old one.
LEMMA VerifiedIInv ==
  ASSUME Careful, IInv, TypeOK', InReleaseVerified
  PROVE  IInv'
  <1> DEFINE v     == got["InRelease"]
             l     == IF IMSHit THEN 0 ELSE OnDisk
             older == OlderThanLast(v, l)
             hit   == IMSHit \/ older
             w     == IF older THEN l ELSE v
             p     == IF older THEN 0 ELSE l
             plan  == IF hit THEN staged ELSE [staged EXCEPT !["InRelease"] = Copy("InRelease", v)]
             ks    == IF hit THEN (IF lists["InRelease"] = 0 THEN {"Release", "Release.gpg"} ELSE {}) ELSE {}
  <1>1. QueueIndexes("InRelease", "Done", w, p, hit, plan, ks)
    BY DEF InReleaseVerified, LoadAndQueue
  <1>2. State = "Started" /\ run = "running" /\ AuthPass /\ Status["InRelease"] = "Fetching"
    BY DEF InReleaseVerified, Reply
  <1>3. parser = 0
    BY <1>2 DEF IInv, Planned, Active
  <1>4. /\ v \in Versions
        /\ IMSHit => v = lists["InRelease"]
        /\ Transaction \cap Indexes = {}
        /\ \A i \in Indexes : staged[i].op = "none"
        /\ staged["InRelease"].op # "copy"
    BY <1>2, <1>3, MetaFacts DEF IInv, NothingQueued, Active, Versions
  <1>5. /\ w \in Versions /\ w # 0
        /\ lists["InRelease"] <= w
        /\ hit => w = lists["InRelease"]
        /\ p # 0 => p = lists["InRelease"]
    BY <1>4, IInvFacts DEF OlderThanLast, Versions
  <1>6. /\ IMSHit' = hit /\ parser' = w /\ State' = State /\ run' = run /\ committed' = committed
        /\ lists' = lists /\ server' = server
        /\ Transaction' = Transaction \cup Wanted(w, p, hit) \cup CleanupItems(w)
        /\ Status' = [j \in Files |-> IF j \in Wanted(w, p, hit) THEN "Idle"
                                      ELSE IF j \in Indexes THEN "Done"
                                      ELSE IF j = "InRelease" THEN "Done" ELSE Status[j]]
        /\ staged' = [j \in Files |-> IF j \in CleanupItems(w) THEN Removal(j) ELSE plan[j]]
    BY <1>1 DEF QueueIndexes
  <1>7. /\ plan \in [Files -> Staging]
        /\ \A f \in Files : f # "InRelease" => plan[f] = staged[f]
        /\ plan["InRelease"].op = "copy" => plan["InRelease"] = Copy("InRelease", w)
    <2>1. staged \in [Files -> Staging]
      BY DEF IInv, TypeOK
    <2>2. [staged EXCEPT !["InRelease"] = Copy("InRelease", v)] \in [Files -> Staging]
      BY <2>1, <1>4, StagingTypes, IInvFacts DEF Versions
    <2>3. CASE hit
      BY <2>1, <2>3, <1>4
    <2>4. CASE ~hit
      BY <2>1, <2>2, <2>4, IInvFacts
    <2> QED BY <2>3, <2>4
  <1> HIDE DEF w, p, hit, plan, ks
  <1>8. Fresh'
    BY <1>6 DEF IInv, Fresh
  <1>9. OnlyInRelease'
    <2>1. "Release" \notin CleanupItems(w) /\ "Release.gpg" \notin CleanupItems(w)
          /\ "Release.gpg" \notin Wanted(w, p, hit) /\ "Release.gpg" \notin Indexes
      BY TransactionAssumption DEF CleanupItems, Wanted, Meta
    <2> QED BY <1>6, <1>7, <2>1, IInvFacts DEF IInv, OnlyInRelease
  <1>10. NothingQueued'
    BY <1>5, <1>6 DEF NothingQueued
  <1>11. Phases'
    BY <1>2, <1>6 DEF Phases, IInv
  <1>12. Planned'
    <2>1. /\ "InRelease" \notin Indexes /\ "InRelease" \notin Wanted(w, p, hit)
          /\ "InRelease" \notin CleanupItems(w)
      BY TransactionAssumption DEF Wanted, CleanupItems, Meta
    <2>2. /\ Status'["InRelease"] = "Done"
          /\ staged'["InRelease"] = plan["InRelease"]
      BY <1>6, <2>1, IInvFacts
    <2>3. staged'["InRelease"].op = "copy" => staged'["InRelease"].dest = "InRelease" /\ staged'["InRelease"].ver = w
      BY <2>2, <1>7 DEF Copy
    <2>4. ASSUME NEW i \in Indexes
          PROVE  /\ staged'[i].op # "copy"
                 /\ i \notin Transaction' => lists[i] = 0 \/ lists[i] >= Content[w][i]
                 /\ i \in Transaction' => Status'[i] # "New" /\ (Status'[i] = "Done" => staged'[i].op # "none")
      <3>1. i \in Files /\ i # "InRelease" /\ lists[i] \in 0..MaxVersion
        BY IInvFacts DEF Meta
      <3>2. staged'[i] = IF i \in CleanupItems(w) THEN Removal(i) ELSE staged[i]
        BY <1>6, <1>7, <3>1
      <3>3. staged'[i].op # "copy" /\ (i \in CleanupItems(w) => staged'[i].op # "none")
        BY <3>2, <1>4 DEF Removal
      <3>4. i \in Transaction' => i \in Wanted(w, p, hit) \/ i \in CleanupItems(w)
        BY <1>4, <1>6
      <3>5. Status'[i] = IF i \in Wanted(w, p, hit) THEN "Idle" ELSE "Done"
        BY <1>6, <3>1
      <3>6. ASSUME i \notin Transaction'
            PROVE  lists[i] = 0 \/ lists[i] >= Content[w][i]
        <4>1. i \in Current(w, p, hit)
          BY <3>6, <1>6 DEF Wanted
        <4>2. lists[i] # 0 /\ (hit \/ (p # 0 /\ Content[w][i] = Content[p][i]))
          BY <4>1 DEF Current
        <4>3. CASE hit
          BY <4>2, <4>3, <1>5 DEF IInv, Fresh
        <4>4. CASE p # 0 /\ Content[w][i] = Content[p][i]
          BY <4>2, <4>4, <1>5 DEF IInv, Fresh
        <4> QED BY <4>2, <4>3, <4>4
      <3> QED BY <3>3, <3>4, <3>5, <3>6
    <2>5. committed' = {} /\ State' = "Started"
      BY <1>2, <1>6 DEF IInv, Phases
    <2> QED BY <1>5, <1>6, <2>2, <2>3, <2>4, <2>5 DEF Planned
  <1> QED BY <1>8, <1>9, <1>10, <1>11, <1>12 DEF IInv

\* The handlers of the meta files.
LEMMA AcquireMetaIInv ==
  ASSUME Careful, IInv, TypeOK', AcquireMeta
  PROVE  IInv'
  <1>0. ~InsecureAllowed /\ ~AllowInsecure
    BY DEF Careful, InsecureAllowed
  <1>1. /\ "InRelease" \in Files /\ "Release" \in Files
        /\ "Error" \in Statuses /\ "AuthError" \in Statuses /\ "TransientNetworkError" \in Statuses
        /\ "InRelease" \notin Indexes /\ "Release" \notin Indexes
    BY IInvFacts, TransactionAssumption DEF Statuses, Meta
  <1>2. CASE InReleaseFetched
    <2>1. State = "Started" /\ run = "running" /\ Status["InRelease"] = "Fetching" /\ parser = 0 /\ ~AuthPass
      BY <1>2 DEF InReleaseFetched, Reply, IInv, Planned, Active
    <2>2. ~IMSHit
      BY <2>1 DEF IInv, NothingQueued, Active
    <2>3. PICK v \in Versions : got' = [got EXCEPT !["InRelease"] = v] /\ IMSHit' = (IMSHit \/ v = lists["InRelease"])
      BY <1>2 DEF InReleaseFetched, Downloaded, Served
    <2>4. got'["InRelease"] = v /\ v # 0
      BY <2>3 DEF IInv, TypeOK, Meta, Versions
    <2>5. /\ Status' = [Status EXCEPT !["InRelease"] = "Idle"]
          /\ UNCHANGED <<server, lists, State, parser, Transaction, staged, committed, run>>
      BY <1>2 DEF InReleaseFetched
    <2>6. Fresh' /\ OnlyInRelease' /\ Phases'
      BY <2>1, <2>5 DEF IInv, Fresh, OnlyInRelease, Phases, TypeOK
    <2>7. NothingQueued'
      <3>1. AuthPass'
        BY <1>2 DEF InReleaseFetched
      <3>2. IMSHit' => v = lists["InRelease"]
        BY <2>2, <2>3
      <3>3. \A i \in Indexes : Status'[i] = "New"
        BY <1>1, <2>1, <2>5 DEF IInv, NothingQueued, Active, TypeOK, Files
      <3> QED BY <2>1, <2>4, <2>5, <3>1, <3>2, <3>3 DEF IInv, NothingQueued, Active
    <2>8. Planned'
      BY <2>1, <2>5 DEF Planned
    <2> QED BY <2>6, <2>7, <2>8 DEF IInv
  <1>3. CASE InReleaseVerified
    BY <1>3, VerifiedIInv
  <1>4. CASE InReleaseWeak
    BY <1>0, <1>1, <1>4, AbortIInv DEF InReleaseWeak, Reply
  <1>5. CASE InReleaseRejected
    BY <1>1, <1>5, SetStatusIInv DEF InReleaseRejected, Reply
  <1>6. CASE InReleaseBadSignature
    <2>1. \/ SetStatus("InRelease", "TransientNetworkError", FALSE)
          \/ SetStatus("InRelease", "AuthError", TRUE)
          \/ Abort("InRelease", "Error")
      BY <1>0, <1>6 DEF InReleaseBadSignature
    <2> QED BY <1>1, <1>6, <2>1, AbortIInv, SetStatusIInv DEF InReleaseBadSignature, Reply
  <1>7. CASE InReleaseFailed
    <2>1. State = "Started" /\ run = "running" /\ Status["InRelease"] = "Fetching" /\ parser = 0 /\ ~AuthPass
      BY <1>7 DEF InReleaseFailed, Reply, IInv, Planned, Active
    <2>2. CASE Abort("InRelease", "TransientNetworkError") \/ Abort("InRelease", "Error")
      BY <1>1, <2>1, <2>2, AbortIInv
    <2>3. CASE SetStatus("InRelease", "Error", TRUE)
      BY <1>1, <2>1, <2>3, SetStatusIInv
    <2>4. CASE /\ Status' = [Status EXCEPT !["InRelease"] = "Done", !["Release"] = "Idle"]
               /\ staged' = [staged EXCEPT !["InRelease"] = Removal("InRelease")]
               /\ Transaction' = Transaction \cup {"Release"}
               /\ UNCHANGED <<server, lists, State, IMSHit, got, AuthPass, parser, last, keep, committed, failed, run>>
      <3>1. Fresh' /\ OnlyInRelease' /\ Phases'
        BY <2>1, <2>4, IInvFacts DEF IInv, Fresh, OnlyInRelease, Phases, TypeOK
      <3>2. \A i \in Indexes : Status'[i] = "New" /\ staged'[i].op = "none"
        BY <1>1, <2>1, <2>4 DEF IInv, NothingQueued, Active, TypeOK, Files
      <3>3. staged'["InRelease"].op # "copy"
        BY <1>1, <2>4 DEF IInv, TypeOK, Removal
      <3>4. NothingQueued'
        BY <1>1, <2>1, <2>4, <3>2, <3>3 DEF IInv, NothingQueued, Active
      <3>5. Planned'
        BY <2>1, <2>4 DEF Planned
      <3> QED BY <3>1, <3>4, <3>5 DEF IInv
    <2> QED BY <1>7, <2>2, <2>3, <2>4 DEF InReleaseFailed
  <1>8. CASE ReleaseFetched
    BY <1>8 DEF ReleaseFetched, Served, IInv, OnlyInRelease
  <1>9. CASE ReleaseFailed
    BY <1>0, <1>1, <1>9, AbortIInv DEF ReleaseFailed, Reply
  <1>10. CASE SigFetched \/ SigVerified \/ SigWeak \/ SigRejected \/ SigFailed
    BY <1>10 DEF SigFetched, SigVerified, SigWeak, SigRejected, SigFailed, Reply, IInv, OnlyInRelease
  <1> QED BY <1>2, <1>3, <1>4, <1>5, <1>6, <1>7, <1>8, <1>9, <1>10 DEF AcquireMeta

\* One item is committed.
LEMMA CommitIInv ==
  ASSUME Careful, IInv, TypeOK', NEW i \in Files, CommitItem(i)
  PROVE  IInv'
  <1>1. /\ State = "Commit" /\ run = "over" /\ i \in Transaction \ committed
        /\ lists' \in {Moved(i), Removed(i)}
        /\ committed' = committed \cup {i}
        /\ UNCHANGED <<server, State, IMSHit, got, AuthPass, parser, Transaction, staged, run>>
    BY DEF CommitItem, MayCommit, IInv, Phases
  <1>2. \A f \in Files : f # i => Status'[f] = Status[f]
    BY DEF CommitItem, IInv, TypeOK
  <1>3. Status'[i] \in {Status[i], "Error"} /\ (staged[i].op = "none" => Status'[i] = Status[i])
    BY DEF CommitItem, IInv, TypeOK, Staged, Nothing
  <1>4. lists \in [Files -> 0..MaxVersion]
    BY DEF IInv, TypeOK
  <1>5. OnlyInRelease' /\ Phases'
    <2>1. lists'["Release"] = 0
      <3>1. CASE Staged(i).op # "copy"
        BY <1>1, <1>4, <3>1, IInvFacts DEF Moved, Removed, IInv, OnlyInRelease
      <3>2. CASE Staged(i).op = "copy"
        <4>1. Staged(i) = staged[i] /\ i # "Release" /\ i # "Release.gpg"
          BY <3>2 DEF Staged, Nothing, IInv, OnlyInRelease
        <4>2. staged[i].dest = i
          BY <1>1, <3>2, <4>1 DEF IInv, NothingQueued, Planned, Active, Files, Meta
        <4> QED BY <1>1, <1>4, <4>1, <4>2, IInvFacts DEF Moved, Removed, IInv, OnlyInRelease
      <3> QED BY <3>1, <3>2
    <2>2. Status'["Release.gpg"] = "New"
      BY <1>2, <1>3, IInvFacts DEF IInv, OnlyInRelease
    <2> QED BY <1>1, <2>1, <2>2 DEF IInv, OnlyInRelease, Phases
  <1>6. CASE parser = 0
    <2>1. i \notin Indexes /\ staged[i].op # "copy"
      BY <1>1, <1>6 DEF IInv, NothingQueued, Active, OnlyInRelease, Files, Meta
    <2>2. /\ \A f \in Indexes : lists'[f] = lists[f]
          /\ lists'["InRelease"] \in {0, lists["InRelease"]}
      <3>1. Staged(i).op # "copy"
        BY <2>1 DEF Staged, Nothing
      <3> QED BY <1>1, <1>4, <2>1, <3>1, IInvFacts DEF Moved, Removed
    <2>3. Fresh'
      BY <2>2 DEF IInv, Fresh
    <2>4. NothingQueued'
      <3>1. \A f \in Indexes : Status'[f] = "New"
        BY <1>1, <1>2, <1>6, <2>1, IInvFacts DEF IInv, NothingQueued, Active
      <3>2. IMSHit => lists' = lists \/ i = "Release.gpg"
        BY <1>1, <2>1 DEF Moved, Removed, Staged, Nothing, Files, Meta
      <3>3. IMSHit => lists'["InRelease"] = lists["InRelease"]
        BY <1>1, <3>2, <1>4, <2>1, IInvFacts DEF Moved, Removed, Staged, Nothing
      <3> QED BY <1>1, <1>6, <3>1, <3>3 DEF IInv, NothingQueued, Active
    <2>5. Planned'
      BY <1>1, <1>6 DEF Planned
    <2> QED BY <1>5, <2>3, <2>4, <2>5 DEF IInv
  <1>7. CASE parser # 0
    <2>1. /\ lists["InRelease"] <= parser
          /\ IMSHit => lists["InRelease"] = parser
          /\ staged["InRelease"].op = "copy" => staged["InRelease"].dest = "InRelease" /\ staged["InRelease"].ver = parser
          /\ \A j \in Indexes :
               /\ staged[j].op = "copy" => staged[j].dest = j /\ staged[j].ver = Content[parser][j]
               /\ j \notin Transaction \/ j \in committed => lists[j] = 0 \/ lists[j] >= Content[parser][j]
               /\ j \in Transaction => Status[j] # "New" /\ staged[j].op # "none"
      BY <1>1, <1>7 DEF IInv, Planned, Active
    <2>2. parser \in Versions
      BY <1>7, IInvFacts DEF Versions
    <2>3. CASE i \in Indexes
      <3>1. Staged(i) = staged[i] /\ i # "InRelease" /\ staged[i].op # "none"
        BY <1>1, <2>1, <2>3, IInvFacts DEF Staged, Meta
      <3>2. /\ lists'[i] \in {0, Content[parser][i]}
            /\ \A f \in Files : f # i => lists'[f] = lists[f]
        BY <1>1, <1>4, <2>1, <2>3, <3>1 DEF Moved, Removed
      <3>3. lists'["InRelease"] = lists["InRelease"]
        BY <3>1, <3>2, IInvFacts
      <3>4. Fresh'
        <4>1. SUFFICES ASSUME NEW j \in Indexes, lists["InRelease"] # 0, lists'[j] # 0
                       PROVE  lists'[j] >= Content[lists["InRelease"]][j]
          BY <3>3 DEF Fresh
        <4>2. CASE j # i
          BY <3>2, <4>1, <4>2, IInvFacts DEF IInv, Fresh
        <4>3. CASE j = i
          <5>1. lists'[j] = Content[parser][j] /\ Content[parser][j] # 0
            BY <3>2, <4>1, <4>3
          <5>2. lists["InRelease"] \in Versions /\ lists["InRelease"] <= parser
            BY <4>1, <2>1, IInvFacts DEF Versions
          <5>3. Content[lists["InRelease"]][j] <= Content[parser][j]
            BY <2>2, <5>1, <5>2, TransactionAssumption
          <5>4. Content[lists["InRelease"]][j] \in Int /\ Content[parser][j] \in Int
            BY <2>2, <5>2, ContentType
          <5> QED BY <5>1, <5>3, <5>4
        <4> QED BY <4>2, <4>3
      <3>5. Planned'
        <4>1. Status'["InRelease"] = Status["InRelease"]
          BY <1>2, <3>1, IInvFacts
        <4>2. ASSUME NEW j \in Indexes
              PROVE  /\ j \notin Transaction \/ j \in committed' => lists'[j] = 0 \/ lists'[j] >= Content[parser][j]
                     /\ j \in Transaction => Status'[j] # "New" /\ staged[j].op # "none"
          <5>1. CASE j # i
            BY <1>1, <1>2, <2>1, <3>2, <5>1, IInvFacts
          <5>2. CASE j = i
            <6>1. Content[parser][i] \in Int
              BY <2>2, <2>3, ContentType
            <6>2. lists'[i] = 0 \/ lists'[i] >= Content[parser][i]
              BY <3>2, <6>1
            <6> QED BY <1>1, <1>3, <2>1, <5>2, <6>2
          <5> QED BY <5>1, <5>2
        <4> QED BY <1>1, <2>1, <3>3, <4>1, <4>2 DEF IInv, Planned, Active
      <3>6. NothingQueued'
        BY <1>1, <1>7 DEF NothingQueued
      <3> QED BY <1>5, <3>4, <3>5, <3>6 DEF IInv
    <2>4. CASE i \notin Indexes
      <3>1. i \in {"InRelease", "Release", "Release.gpg"}
        BY <2>4 DEF Files, Meta
      <3>2. \A j \in Indexes : j \in Files /\ j # i
        BY <2>4, IInvFacts
      <3>3. /\ \A j \in Indexes : lists'[j] = lists[j]
            /\ lists'["InRelease"] \in {0, parser, lists["InRelease"]}
            /\ IMSHit => lists'["InRelease"] = lists["InRelease"]
            /\ lists'["InRelease"] # lists["InRelease"] => i = "InRelease"
        <4>1. CASE Staged(i).op = "none"
          BY <1>1, <4>1 DEF Moved, Removed
        <4>2. CASE Staged(i).op # "none"
          <5>1. i = "InRelease" /\ ~IMSHit /\ Staged(i) = staged["InRelease"]
            BY <3>1, <4>2 DEF Staged, Nothing, IInv, OnlyInRelease
          <5>2. Removed(i) = [lists EXCEPT !["InRelease"] = 0]
            BY <4>2, <5>1 DEF Removed
          <5>3. \/ Moved(i) = Removed(i)
                \/ Moved(i) = [Removed(i) EXCEPT !["InRelease"] = parser]
            BY <2>1, <5>1 DEF Moved
          <5>4. PICK n \in {0, parser} : lists' = [lists EXCEPT !["InRelease"] = n]
            BY <1>1, <1>4, <5>2, <5>3, IInvFacts
          <5> QED BY <1>4, <3>2, <5>1, <5>4, IInvFacts
        <4> QED BY <4>1, <4>2
      <3>4. Fresh'
        <4>1. SUFFICES ASSUME NEW j \in Indexes, lists'["InRelease"] # 0, lists[j] # 0
                       PROVE  lists[j] >= Content[lists'["InRelease"]][j]
          BY <3>3 DEF Fresh
        <4>2. CASE lists'["InRelease"] = lists["InRelease"]
          BY <4>1, <4>2 DEF IInv, Fresh
        <4>3. CASE lists'["InRelease"] # lists["InRelease"]
          <5>1. lists'["InRelease"] = parser /\ i = "InRelease"
            BY <3>3, <4>1, <4>3
          <5>2. Transaction \ committed = {"InRelease"}
            BY <5>1 DEF CommitItem, MayCommit
          <5>3. j \notin Transaction \/ j \in committed
            BY <5>1, <5>2, <3>2
          <5> QED BY <2>1, <4>1, <5>1, <5>3
        <4> QED BY <4>2, <4>3
      <3>5. Planned'
        <4>1. \A j \in Indexes : Status'[j] = Status[j] /\ (j \in committed' => j \in committed)
          BY <1>1, <1>2, <3>2
        <4>2. Status'["InRelease"] \notin {"Idle", "Fetching"}
          BY <1>1, <1>2, <1>3, <1>7, IInvFacts DEF IInv, Planned, Active
        <4>3. lists'["InRelease"] <= parser
          BY <2>1, <2>2, <3>3, IInvFacts
        <4> QED BY <1>1, <2>1, <3>3, <4>1, <4>2, <4>3 DEF Planned, Active
      <3>6. NothingQueued'
        BY <1>1, <1>7 DEF NothingQueued
      <3> QED BY <1>5, <3>4, <3>5, <3>6 DEF IInv
    <2> QED BY <2>3, <2>4
  <1> QED BY <1>6, <1>7

\* The end of the process: what is in lists/ was there before, or is gone.
LEMMA ExitIInv ==
  ASSUME IInv, TypeOK', Exit, server' = server,
         \A f \in Files : lists'[f] \in {0, lists[f]}
  PROVE  IInv'
  <1>1. Fresh'
    BY IInvFacts DEF IInv, Fresh
  <1>2. OnlyInRelease'
    BY IInvFacts DEF IInv, OnlyInRelease, Exit, Nothing
  <1>3. State' \in {"none", "Abort"} /\ committed' = {} /\ AtRest'
    BY DEF Exit, AtRest, Nothing
  <1> QED BY <1>1, <1>2, <1>3, InactiveIInv

\* The invariant is inductive.
LEMMA StepIInv ==
  ASSUME Careful, IInv, [Next]_vars
  PROVE  IInv'
  <1> USE TransactionAssumption
  <1>0. TypeOK /\ TypeOK' /\ lists \in [Files -> 0..MaxVersion]
    BY StepType DEF IInv, TypeOK
  <1>1. CASE Publish
    <2>1. "Release" \notin server'.files
      BY <1>1 DEF Publish, Careful
    <2>2. UNCHANGED <<lists, memory>>
      BY <1>1 DEF Publish
    <2> QED BY <1>0, <2>1, <2>2 DEF IInv, Fresh, OnlyInRelease, NothingQueued, Planned, Active, Phases, AtRest, memory
  <1>2. CASE Start
    <2>1. /\ run' = "running" /\ State' = "Started" /\ Transaction' = {"InRelease"}
          /\ Status' = [Status EXCEPT !["InRelease"] = "Idle"]
          /\ UNCHANGED <<server, lists, IMSHit, got, AuthPass, parser, staged, committed>>
      BY <1>2 DEF Start
    <2>2. /\ AtRest /\ committed = {}
      BY <1>2 DEF Start, IInv, Phases, AtRest
    <2>3. /\ "InRelease" \in Files /\ "Release.gpg" \in Files /\ "InRelease" \notin Indexes
          /\ \A i \in Indexes : i \in Files
      BY DEF Files, Meta
    <2>4. Fresh' /\ OnlyInRelease' /\ Phases'
      BY <1>0, <2>1, <2>2, <2>3 DEF IInv, Fresh, OnlyInRelease, Phases, TypeOK
    <2>5. \A i \in Indexes : Status'[i] = "New" /\ staged'[i].op = "none"
      BY <1>0, <2>1, <2>2, <2>3 DEF AtRest, TypeOK
    <2>6. parser' = 0 /\ AuthPass' = FALSE /\ IMSHit' = FALSE /\ staged'["InRelease"].op = "none"
      BY <2>1, <2>2, <2>3, Zenon DEF AtRest
    <2>7. NothingQueued' /\ Planned'
      BY <2>1, <2>3, <2>5, <2>6 DEF NothingQueued, Planned
    <2> QED BY <1>0, <2>4, <2>7 DEF IInv
  <1>3. ASSUME NEW i \in Files, Send(i)
        PROVE  IInv'
    <2>1. SetStatus(i, "Fetching", FALSE) /\ "Fetching" \in Statuses /\ FALSE \in BOOLEAN
      BY <1>3, Zenon DEF Send, Statuses
    <2> QED BY <1>0, <1>3, <2>1, SetStatusIInv DEF Send
  <1>4. ASSUME NEW i \in Files, DoomedReply(i)
        PROVE  IInv'
    <2>1. PICK st \in Statuses : st # "New" /\ SetStatus(i, st, FALSE)
      BY <1>4 DEF DoomedReply, Statuses
    <2>2. FALSE \in BOOLEAN
      OBVIOUS
    <2> QED BY <1>0, <1>4, <2>1, <2>2, SetStatusIInv DEF DoomedReply
  <1>5. CASE AcquireMeta
    BY <1>0, <1>5, AcquireMetaIInv
  <1>6. ASSUME NEW i \in Indexes, IndexDone(i)
        PROVE  IInv'
    <2>1. /\ State = "Started" /\ run = "running" /\ Status[i] = "Fetching"
          /\ i \in Files /\ i # "InRelease" /\ i # "Release" /\ i # "Release.gpg"
      BY <1>6 DEF IndexDone, Reply, Files, Meta
    <2>2. parser # 0
      BY <2>1 DEF IInv, NothingQueued, Active
    <2>3. /\ Status' = [Status EXCEPT ![i] = "Done"]
          /\ staged' = [staged EXCEPT ![i] = Copy(i, Content[parser][i])]
          /\ UNCHANGED <<server, lists, State, IMSHit, got, AuthPass, parser, Transaction, committed, run>>
      BY <1>6, <2>2 DEF IndexDone
    <2>4. /\ \A f \in Files : f # i => Status'[f] = Status[f] /\ staged'[f] = staged[f]
          /\ Status'[i] = "Done" /\ staged'[i] = Copy(i, Content[parser][i])
      BY <1>0, <2>1, <2>3 DEF TypeOK
    <2>5. Fresh' /\ OnlyInRelease' /\ Phases'
      BY <2>1, <2>3, <2>4, IInvFacts DEF IInv, Fresh, OnlyInRelease, Phases
    <2>6. NothingQueued'
      BY <2>2, <2>3 DEF NothingQueued
    <2>7. Planned'
      BY <2>1, <2>3, <2>4, IInvFacts DEF IInv, Planned, Active, Copy
    <2> QED BY <1>0, <2>5, <2>6, <2>7 DEF IInv
  <1>7. ASSUME NEW i \in Indexes, IndexFailed(i)
        PROVE  IInv'
    <2>1. /\ State = "Started" /\ run = "running" /\ Status[i] = "Fetching"
          /\ i \in Files /\ i # "Release.gpg"
      BY <1>7 DEF IndexFailed, Reply, Files, Meta
    <2>2. parser # 0
      BY <2>1 DEF IInv, NothingQueued, Active
    <2>3. PICK st \in Statuses : Abort(i, st)
      BY <1>7, <2>2 DEF IndexFailed, Errors, Statuses
    <2> QED BY <1>0, <2>1, <2>3, AbortIInv
  <1>8. CASE RunEnds
    <2>1. /\ run' = "over" /\ State # "Commit"
          /\ \A f \in Files : Status[f] \notin {"Idle", "Fetching"}
          /\ UNCHANGED <<server, lists, State, IMSHit, Status, got, AuthPass, parser, Transaction, staged, committed>>
      BY <1>8 DEF RunEnds, IInv, Phases
    <2> QED BY <1>0, <2>1 DEF IInv, Fresh, OnlyInRelease, NothingQueued, Planned, Active, Phases
  <1>9. CASE Cancel
    <2>1. /\ run = "running" /\ run' = "over" /\ State # "Commit" /\ committed = {}
          /\ UNCHANGED <<server, lists, staged, committed>>
          /\ State' \in {"Abort", "none"}
          /\ Status'["Release.gpg"] = "New"
      <3>1. run = "running" /\ run' = "over" /\ State # "Commit" /\ committed = {}
        BY <1>9 DEF Cancel, IInv, Phases
      <3>2. UNCHANGED <<server, lists, staged, committed>>
        BY <1>9 DEF Cancel
      <3>3. State' \in {"Abort", "none"}
        BY <1>0, <1>9, <3>1 DEF Cancel, TypeOK
      <3>4. Status'["Release.gpg"] = "New"
        BY <1>9, IInvFacts DEF Cancel, IInv, OnlyInRelease
      <3> QED BY <3>1, <3>2, <3>3, <3>4
    <2>2. Fresh' /\ OnlyInRelease'
      BY <2>1 DEF IInv, Fresh, OnlyInRelease
    <2> QED BY <1>0, <2>1, <2>2, InactiveIInv
  <1>10. CASE Finished
    <2>1. /\ run = "over" /\ State = "Started" /\ State' = "Commit"
          /\ \A f \in Transaction : Status[f] \notin Errors
          /\ UNCHANGED <<server, lists, IMSHit, Status, got, AuthPass, parser, Transaction, staged, committed, run>>
      BY <1>10 DEF Finished, TransactionHasError
    <2>2. \A f \in Transaction : Status[f] \in {"New", "Done"}
      BY <1>0, <2>1 DEF IInv, Phases, TypeOK, Statuses, Errors
    <2>3. Fresh' /\ OnlyInRelease' /\ NothingQueued' /\ Phases'
      BY <2>1 DEF IInv, Fresh, OnlyInRelease, NothingQueued, Active, Phases
    <2>4. Planned'
      BY <2>1, <2>2 DEF IInv, Planned, Active
    <2> QED BY <1>0, <2>3, <2>4 DEF IInv
  <1>11. ASSUME NEW i \in Files, CommitItem(i)
         PROVE  IInv'
    BY <1>0, <1>11, CommitIInv
  <1>12. CASE AcquireUpdate
    <2>1. \A f \in Files : lists'[f] \in {0, lists[f]}
      BY <1>12 DEF AcquireUpdate
    <2> QED BY <1>0, <1>12, <2>1, ExitIInv DEF AcquireUpdate
  <1>13. CASE Crash
    <2>1. \A f \in Files : lists'[f] \in {0, lists[f]}
      BY <1>0, <1>13 DEF Crash, Removed
    <2> QED BY <1>0, <1>13, <2>1, ExitIInv DEF Crash
  <1>14. CASE UNCHANGED vars
    BY <1>0, <1>14 DEF vars, memory, IInv, Fresh, OnlyInRelease, NothingQueued, Planned, Active, Phases, AtRest
  <1>15. ~MethodDies
    BY DEF MethodDies, Careful
  <1> QED BY <1>1, <1>2, <1>3, <1>4, <1>5, <1>6, <1>7, <1>8, <1>9, <1>10, <1>11, <1>12, <1>13, <1>14, <1>15 DEF Next

\* An index file in lists/ is never older than the Release file next to it
\* says, however many updates failed, were cancelled or were killed.
THEOREM IndexesNotStale == ASSUME Careful PROVE Spec => []NoStaleIndex
  <1>1. Init => IInv
    BY InitIInv
  <1>2. IInv /\ [Next]_vars => IInv'
    BY StepIInv
  <1>3. IInv => NoStaleIndex
    BY IInvFacts DEF IInv, Fresh, NoStaleIndex
  <1> QED BY <1>1, <1>2, <1>3, PTL DEF Spec

-----------------------------------------------------------------------------
(***************************************************************************)
(* FailureKeepsLists, for every repository and every option.  Only the     *)
(* commit and the clean up write to lists/, and the clean up stays away    *)
(* from a transaction that did not commit because every abort reports an   *)
(* error.  A cancelled update aborts without one, hence the assumption.    *)
(***************************************************************************)
AbortFails == State = "Abort" => failed

\* AbortTransaction comes with an error, and no step forgets one.
LEMMA AbortFailsStep ==
  ASSUME ~MayCancel, AbortFails, [Next]_vars
  PROVE  AbortFails'
  <1>1. ASSUME NEW i, NEW st, Abort(i, st)
        PROVE  AbortFails'
    BY <1>1 DEF Abort, AbortFails
  <1>2. ASSUME NEW i, NEW st, NEW e \in BOOLEAN, SetStatus(i, st, e)
        PROVE  AbortFails'
    BY <1>2, Zenon DEF SetStatus, AbortFails
  <1>3. ASSUME State' = State, failed' = failed
        PROVE  AbortFails'
    BY <1>3 DEF AbortFails
  <1>4. ASSUME NEW m, NEW st, NEW v, NEW l, NEW h, NEW plan, NEW kept, QueueIndexes(m, st, v, l, h, plan, kept)
        PROVE  AbortFails'
    BY <1>3, <1>4 DEF QueueIndexes
  <1>5. ASSUME NEW m, NEW st, NEW v, NEW onHit, NEW onNew, NEW kept, LoadAndQueue(m, st, v, onHit, onNew, kept)
        PROVE  AbortFails'
    BY <1>4, <1>5, Zenon DEF LoadAndQueue
  <1>6. ASSUME Exit
        PROVE  AbortFails'
    BY <1>6 DEF Exit, AbortFails
  <1>7. CASE AcquireMeta
    <2>1. CASE InReleaseFetched \/ ReleaseFetched \/ SigFetched
      BY <1>3, <2>1 DEF InReleaseFetched, ReleaseFetched, SigFetched
    <2>2. CASE InReleaseVerified \/ InReleaseWeak \/ InReleaseRejected \/ InReleaseBadSignature
      BY <1>1, <1>2, <1>5, <2>2, Zenon DEF InReleaseVerified, InReleaseWeak, InReleaseRejected, InReleaseBadSignature
    <2>3. CASE InReleaseFailed
      BY <1>1, <1>2, <1>3, <2>3, Zenon DEF InReleaseFailed
    <2>4. CASE ReleaseFailed
      BY <1>1, <1>4, <2>4, Zenon DEF ReleaseFailed
    <2>5. CASE SigVerified \/ SigFailed
      BY <1>1, <1>2, <1>5, <2>5, Zenon DEF SigVerified, SigFailed
    <2>6. CASE SigWeak \/ SigRejected
      BY <1>5, <2>6, Zenon DEF SigWeak, SigRejected, AbortFails
    <2> QED BY <1>7, <2>1, <2>2, <2>3, <2>4, <2>5, <2>6 DEF AcquireMeta
  <1>8. CASE Publish \/ RunEnds \/ UNCHANGED vars
    BY <1>3, <1>8 DEF Publish, RunEnds, vars, memory
  <1>9. CASE Start \/ Finished
    BY <1>9 DEF Start, Finished, AbortFails
  <1>10. CASE MethodDies
    BY <1>10, Zenon DEF MethodDies, AbortFails
  <1>11. ASSUME NEW i \in Files, Send(i) \/ DoomedReply(i) \/ CommitItem(i)
         PROVE  AbortFails'
    BY <1>2, <1>3, <1>11, Zenon DEF Send, DoomedReply, CommitItem
  <1>12. ASSUME NEW i \in Indexes, IndexDone(i) \/ IndexFailed(i)
         PROVE  AbortFails'
    BY <1>1, <1>2, <1>3, <1>12, Zenon DEF IndexDone, IndexFailed
  <1>13. CASE AcquireUpdate \/ Crash
    BY <1>6, <1>13 DEF AcquireUpdate, Crash
  <1>14. ~Cancel
    BY DEF Cancel
  <1> QED BY <1>7, <1>8, <1>9, <1>10, <1>11, <1>12, <1>13, <1>14 DEF Next

\* The clean up of an update that did not commit leaves lists/ alone.
LEMMA NoCleanAfterFailure ==
  ASSUME TypeOK, AbortFails, AcquireUpdate, State # "Commit"
  PROVE  lists' = lists
  <1>1. CASE State = "Abort"
    BY <1>1, Zenon DEF AcquireUpdate, MayClean, AbortFails
  <1>2. CASE State = "Started"
    <2>1. PICK i \in Transaction : Status[i] \in Errors
      BY <1>2 DEF AcquireUpdate, Over, TransactionHasError
    <2>2. i \in Files /\ Status[i] \notin {"New", "Done"}
      BY <2>1 DEF TypeOK, Errors
    <2> QED BY <2>2 DEF AcquireUpdate, MayClean
  <1> QED BY <1>1, <1>2 DEF AcquireUpdate, Over

\* Only the commit, the clean up and a crash write to lists/.
LEMMA Writers ==
  ASSUME [Next]_vars
  PROVE  lists' = lists \/ (\E i \in Files : CommitItem(i)) \/ AcquireUpdate \/ Crash
  <1>1. ASSUME NEW m, NEW st, NEW v, NEW onHit, NEW onNew, NEW kept, LoadAndQueue(m, st, v, onHit, onNew, kept)
        PROVE  lists' = lists
    BY <1>1, Zenon DEF LoadAndQueue, QueueIndexes
  <1>2. CASE AcquireMeta
    BY <1>1, <1>2, Zenon DEF AcquireMeta, InReleaseFetched, InReleaseVerified, InReleaseWeak, InReleaseRejected,
         InReleaseBadSignature, InReleaseFailed, ReleaseFetched, ReleaseFailed, SigFetched, SigVerified, SigWeak,
         SigRejected, SigFailed, Abort, SetStatus, QueueIndexes
  <1>3. CASE Publish \/ Start \/ RunEnds \/ MethodDies \/ Cancel \/ Finished \/ UNCHANGED vars
    BY <1>3 DEF Publish, Start, RunEnds, MethodDies, Cancel, Finished, vars
  <1>4. ASSUME NEW i \in Files, Send(i) \/ DoomedReply(i)
        PROVE  lists' = lists
    BY <1>4 DEF Send, DoomedReply, SetStatus
  <1>5. ASSUME NEW i \in Indexes, IndexDone(i) \/ IndexFailed(i)
        PROVE  lists' = lists
    BY <1>5 DEF IndexDone, IndexFailed, Abort, SetStatus
  <1> QED BY <1>2, <1>3, <1>4, <1>5 DEF Next

\* Outside of the commit no step writes to lists/.
LEMMA ListsKept ==
  ASSUME TypeOK, AbortFails, [Next]_vars, State # "Commit"
  PROVE  lists' = lists
  <1>1. ~ \E i \in Files : CommitItem(i)
    BY DEF CommitItem, MayCommit
  <1>2. CASE Crash
    BY <1>2 DEF Crash, MayCommit
  <1> QED BY <1>1, <1>2, NoCleanAfterFailure, Writers

\* An update that fails, in whatever way and wherever it is, leaves lists/ as
\* it was, unless the user cancels it.
THEOREM FailureChangesNothing == ASSUME ~MayCancel PROVE Spec => FailureKeepsLists
  <1>1. Init => TypeOK /\ AbortFails
    BY InitType DEF Init, AbortFails
  <1>2. TypeOK /\ AbortFails /\ [Next]_vars => (TypeOK /\ AbortFails)'
    BY StepType, AbortFailsStep
  <1>3. TypeOK /\ AbortFails /\ [Next]_vars => [lists' # lists => State = "Commit"]_vars
    BY ListsKept
  <1> QED BY <1>1, <1>2, <1>3, PTL DEF Spec, FailureKeepsLists

-----------------------------------------------------------------------------
(***************************************************************************)
(* NoDowngrade, under the assumptions of IndexesNotStale: any mirror may   *)
(* serve any older version, and apt may be killed, cancelled or fail at    *)
(* any moment.  The invariant IInv knows that the InRelease file which is  *)
(* about to be committed is not older than the one it replaces.            *)
(***************************************************************************)

\* The commit of one item replaces InRelease by the version loaded, if at all.
LEMMA CommittedRelease ==
  ASSUME IInv, NEW i \in Files, CommitItem(i)
  PROVE  \/ lists'["InRelease"] \in {0, lists["InRelease"]}
         \/ lists'["InRelease"] = parser /\ lists["InRelease"] <= parser
  <1>1. /\ State = "Commit" /\ i \in Transaction \ committed
        /\ lists' \in {Moved(i), Removed(i)}
    BY DEF CommitItem, MayCommit
  <1>2. lists \in [Files -> 0..MaxVersion]
    BY DEF IInv, TypeOK
  <1>3. Removed(i) \in [Files -> 0..MaxVersion] /\ Removed(i)["InRelease"] \in {0, lists["InRelease"]}
    BY <1>2, MovedType, IInvFacts DEF Removed, IInv
  <1>4. CASE Staged(i).op # "copy"
    BY <1>1, <1>3, <1>4 DEF Moved
  <1>5. CASE Staged(i).op = "copy"
    <2>1. Staged(i) = staged[i] /\ staged[i].op = "copy" /\ i # "Release" /\ i # "Release.gpg"
      BY <1>5 DEF Staged, Nothing, IInv, OnlyInRelease
    <2>2. parser # 0
      BY <1>1, <2>1 DEF IInv, NothingQueued, Active, Files, Meta
    <2>3. CASE i = "InRelease"
      <3>1. staged[i].dest = "InRelease" /\ staged[i].ver = parser /\ lists["InRelease"] <= parser
        BY <1>1, <2>1, <2>2, <2>3 DEF IInv, Planned, Active
      <3> QED BY <1>1, <1>3, <1>5, <2>1, <3>1, IInvFacts DEF Moved
    <2>4. CASE i \in Indexes
      <3>1. staged[i].dest = i /\ i # "InRelease"
        BY <1>1, <2>1, <2>2, <2>4, IInvFacts DEF IInv, Planned, Active, Meta
      <3> QED BY <1>1, <1>3, <1>5, <2>1, <3>1, IInvFacts DEF Moved
    <2> QED BY <2>1, <2>3, <2>4 DEF Files, Meta
  <1> QED BY <1>4, <1>5

\* Whatever version a mirror serves, and whenever an update is killed: once
\* lists/ has a Release file it never gets an older one in its place.
THEOREM NeverDowngraded == ASSUME Careful PROVE Spec => NoDowngrade
  <1>1. Init => IInv
    BY InitIInv
  <1>2. IInv /\ [Next]_vars => IInv'
    BY StepIInv
  <1>3. IInv /\ IInv' /\ [Next]_vars => [OnDisk # 0 /\ OnDisk' # 0 => OnDisk' >= OnDisk]_vars
    <2> SUFFICES ASSUME IInv, IInv', [Next]_vars, OnDisk # 0, OnDisk' # 0
                 PROVE  OnDisk' >= OnDisk
      OBVIOUS
    <2>1. /\ OnDisk = lists["InRelease"] /\ lists["InRelease"] \in 0..MaxVersion
          /\ "InRelease" \in Files /\ parser \in 0..MaxVersion
          /\ lists \in [Files -> 0..MaxVersion]
      BY IInvFacts DEF IInv, TypeOK
    <2>2. OnDisk' = lists'["InRelease"]
      BY DEF IInv, OnlyInRelease, OnDisk
    <2>3. CASE lists' = lists
      BY <2>1, <2>2, <2>3
    <2>4. CASE \E i \in Files : CommitItem(i)
      BY <2>1, <2>2, <2>4, CommittedRelease
    <2>5. CASE AcquireUpdate \/ Crash
      <3>1. lists'["InRelease"] \in {0, lists["InRelease"]}
        BY <2>1, <2>5 DEF AcquireUpdate, Crash, Removed
      <3> QED BY <2>1, <2>2, <3>1
    <2> QED BY <2>3, <2>4, <2>5, Writers
  <1> QED BY <1>1, <1>2, <1>3, PTL DEF Spec, NoDowngrade

-----------------------------------------------------------------------------
(***************************************************************************)
(* ListsConsistent: the transaction is all or nothing.  On top of the      *)
(* assumptions so far nothing breaks into the commit: apt is not killed,   *)
(* no rename fails and the user does not cancel.  Mirrors may lag behind,  *)
(* downloads and signatures may fail, and the clean up may be skipped.     *)
(***************************************************************************)
Undisturbed == Careful /\ ~MayCrash /\ ~MayCancel /\ ~MayFail

\* outside of the commit lists/ is what its InRelease file lists
InStep ==
  State # "Commit" /\ lists["InRelease"] # 0 =>
    \A i \in Indexes : lists[i] = Content[lists["InRelease"]][i]

\* the manager is an item of its transaction, and claims its file
Manager ==
  /\ staged["InRelease"].dest = "InRelease"
  /\ Active => "InRelease" \in Transaction /\ Status["InRelease"] # "New"

\* without an InRelease file an update never gets to the commit
NoEmptyCommit ==
  Active /\ parser = 0 =>
    /\ State = "Started"
    /\ Status["InRelease"] \in {"Idle", "Fetching"} \cup Errors \/ Status["Release"] \in {"Idle", "Fetching"}

\* what the commit will do, has done and leaves alone adds up to the new version
Complete ==
  Active /\ parser # 0 =>
    /\ IMSHit \/ staged["InRelease"] = Copy("InRelease", parser)
    /\ "InRelease" \in committed => lists["InRelease"] = parser
    /\ \A i \in Indexes :
         /\ i \notin Transaction => i \in keep /\ lists[i] = Content[parser][i]
         /\ i \in committed => lists[i] = Content[parser][i]
         /\ i \in Transaction /\ staged[i].op # "none" =>
              \/ staged[i] = Copy(i, Content[parser][i])
              \/ staged[i] = Removal(i) /\ Content[parser][i] = 0

CInv == IInv /\ AbortFails /\ InStep /\ Manager /\ NoEmptyCommit /\ Complete

\* The initial state.
LEMMA InitCInv == Undisturbed /\ Init => CInv
  <1> SUFFICES ASSUME Undisturbed, Init PROVE CInv
    OBVIOUS
  <1>1. IInv
    BY InitIInv DEF Undisturbed
  <1>2. staged["InRelease"].dest = "InRelease" /\ lists["InRelease"] = 0 /\ State = "none"
    BY <1>1, IInvFacts DEF Init, Nothing
  <1> QED BY <1>1, <1>2 DEF CInv, AbortFails, InStep, Manager, NoEmptyCommit, Complete, Active

\* Where the transaction is over, only lists/ matters.
LEMMA InactiveCInv ==
  ASSUME CInv, IInv', AbortFails', State # "Commit", State' \in {"none", "Abort"}, lists' = lists,
         staged' = staged \/ staged'["InRelease"] = Nothing("InRelease")
  PROVE  CInv'
  BY DEF CInv, InStep, Manager, NoEmptyCommit, Complete, Active, Nothing

\* A change of the status of an item which is being fetched or waits for it.
LEMMA SetStatusCInv ==
  ASSUME CInv, IInv', AbortFails', NEW i \in Files, NEW st \in {"Idle", "Fetching"} \cup Errors, NEW e,
         SetStatus(i, st, e), State = "Started", i = "Release" => st = "Fetching"
  PROVE  CInv'
  <1>1. /\ UNCHANGED <<lists, State, IMSHit, parser, Transaction, staged, keep, committed>>
        /\ \A f \in Files : Status'[f] = IF f = i THEN st ELSE Status[f]
    BY DEF SetStatus, CInv, IInv, TypeOK
  <1>2. st # "New" /\ "InRelease" \in Files /\ "Release" \in Files
    BY IInvFacts DEF Errors, CInv
  <1>3. InStep' /\ Complete'
    BY <1>1 DEF CInv, InStep, Complete, Active
  <1>4. Manager'
    BY <1>1, <1>2 DEF CInv, Manager, Active
  <1>5. NoEmptyCommit'
    BY <1>1, <1>2 DEF CInv, NoEmptyCommit, Active
  <1> QED BY <1>3, <1>4, <1>5 DEF CInv

\* QueueIndexes of a verified InRelease: each index file is kept because it is
\* what the new version lists, or it is in the transaction.
LEMMA VerifiedCInv ==
  ASSUME CInv, IInv', AbortFails', InReleaseVerified
  PROVE  CInv'
  <1> DEFINE v     == got["InRelease"]
             l     == IF IMSHit THEN 0 ELSE OnDisk
             older == OlderThanLast(v, l)
             hit   == IMSHit \/ older
             w     == IF older THEN l ELSE v
             p     == IF older THEN 0 ELSE l
             plan  == IF hit THEN staged ELSE [staged EXCEPT !["InRelease"] = Copy("InRelease", v)]
             ks    == IF hit THEN (IF lists["InRelease"] = 0 THEN {"Release", "Release.gpg"} ELSE {}) ELSE {}
  <1>1. QueueIndexes("InRelease", "Done", w, p, hit, plan, ks)
    BY DEF InReleaseVerified, LoadAndQueue
  <1>2. State = "Started" /\ AuthPass /\ Status["InRelease"] = "Fetching"
    BY DEF InReleaseVerified, Reply
  <1>3. parser = 0 /\ committed = {}
    BY <1>2 DEF CInv, IInv, Planned, Active, Phases
  <1>4. /\ v \in Versions /\ (IMSHit => v = lists["InRelease"])
        /\ \A i \in Indexes : staged[i].op = "none"
    BY <1>2, <1>3, MetaFacts DEF CInv, IInv, NothingQueued, Active, Versions
  <1>5. /\ w # 0 /\ (hit => w = lists["InRelease"]) /\ (p # 0 => p = lists["InRelease"])
        /\ ~hit => w = v
    BY <1>4, IInvFacts DEF OlderThanLast, Versions, CInv
  <1>6. /\ IMSHit' = hit /\ parser' = w /\ State' = State /\ committed' = committed /\ lists' = lists
        /\ Transaction' = Transaction \cup Wanted(w, p, hit) \cup CleanupItems(w)
        /\ Status' = [j \in Files |-> IF j \in Wanted(w, p, hit) THEN "Idle"
                                      ELSE IF j \in Indexes THEN "Done"
                                      ELSE IF j = "InRelease" THEN "Done" ELSE Status[j]]
        /\ staged' = [j \in Files |-> IF j \in CleanupItems(w) THEN Removal(j) ELSE plan[j]]
        /\ keep' = keep \cup Current(w, p, hit) \cup ks
    BY <1>1 DEF QueueIndexes
  <1>7. /\ "InRelease" \in Files /\ "InRelease" \notin Indexes /\ "InRelease" \notin Wanted(w, p, hit)
        /\ "InRelease" \notin CleanupItems(w) /\ \A i \in Indexes : i \in Files /\ i # "InRelease"
    BY TransactionAssumption DEF Wanted, CleanupItems, Files, Meta
  <1>8. /\ \A f \in Files : f # "InRelease" => plan[f] = staged[f]
        /\ ~hit => plan["InRelease"] = Copy("InRelease", w)
        /\ plan["InRelease"].dest = "InRelease"
    <2>1. staged \in [Files -> Staging] /\ staged["InRelease"].dest = "InRelease"
      BY <1>2 DEF CInv, Manager, Active, IInv, TypeOK
    <2> QED BY <1>5, <1>7, <2>1 DEF Copy
  <1> HIDE DEF w, p, hit, plan, ks
  <1>9. InStep'
    BY <1>6 DEF CInv, InStep
  <1>10. Manager'
    BY <1>2, <1>6, <1>7, <1>8 DEF CInv, Manager, Active
  <1>11. NoEmptyCommit'
    BY <1>5, <1>6 DEF NoEmptyCommit
  <1>12. Complete'
    <2>1. IMSHit' \/ staged'["InRelease"] = Copy("InRelease", parser')
      BY <1>6, <1>7, <1>8
    <2>2. ASSUME NEW i \in Indexes, i \notin Transaction'
          PROVE  i \in keep' /\ lists'[i] = Content[parser'][i]
      <3>1. i \in Current(w, p, hit)
        BY <1>6, <2>2 DEF Wanted
      <3>2. hit \/ (p # 0 /\ Content[w][i] = Content[p][i])
        BY <3>1 DEF Current
      <3>3. lists["InRelease"] # 0 => lists[i] = Content[lists["InRelease"]][i]
        BY <1>2 DEF CInv, InStep
      <3> QED BY <1>5, <1>6, <3>1, <3>2, <3>3
    <2>3. ASSUME NEW i \in Indexes, staged'[i].op # "none"
          PROVE  staged'[i] = Removal(i) /\ Content[parser'][i] = 0
      <3>1. staged'[i] = IF i \in CleanupItems(w) THEN Removal(i) ELSE staged[i]
        BY <1>6, <1>7, <1>8
      <3>2. i \in CleanupItems(w)
        BY <1>4, <2>3, <3>1
      <3> QED BY <1>6, <3>1, <3>2 DEF CleanupItems, Listed
    <2>4. committed' = {}
      BY <1>3, <1>6
    <2> QED BY <2>1, <2>2, <2>3, <2>4 DEF Complete
  <1> QED BY <1>9, <1>10, <1>11, <1>12 DEF CInv

\* The handlers of the meta files.
LEMMA AcquireMetaCInv ==
  ASSUME Careful, CInv, IInv', AbortFails', AcquireMeta
  PROVE  CInv'
  <1>0. ~InsecureAllowed /\ ~AllowInsecure
    BY DEF Careful, InsecureAllowed
  <1>1. ASSUME NEW i, NEW st, Abort(i, st), State = "Started"
        PROVE  CInv'
    BY <1>1, InactiveCInv DEF Abort
  <1>2. ASSUME NEW st \in Errors, NEW e, SetStatus("InRelease", st, e), State = "Started"
        PROVE  CInv'
    <2>1. "InRelease" \in Files
      BY DEF Files, Meta
    <2> QED BY <1>2, <2>1, SetStatusCInv
  <1>3. CASE InReleaseFetched
    <2>1. /\ State = "Started" /\ Status' = [Status EXCEPT !["InRelease"] = "Idle"] /\ parser = 0
          /\ UNCHANGED <<lists, State, parser, Transaction, staged>>
      BY <1>3 DEF InReleaseFetched, Reply, CInv, IInv, Planned, Active
    <2>2. Status'["InRelease"] = "Idle"
      BY <2>1, IInvFacts DEF CInv, IInv, TypeOK
    <2> QED BY <2>1, <2>2 DEF CInv, InStep, Manager, NoEmptyCommit, Complete, Active
  <1>4. CASE InReleaseVerified
    BY <1>4, VerifiedCInv
  <1>5. CASE InReleaseWeak
    BY <1>0, <1>1, <1>5 DEF InReleaseWeak, Reply
  <1>6. CASE InReleaseRejected
    BY <1>2, <1>6 DEF InReleaseRejected, Reply, Errors
  <1>7. CASE InReleaseBadSignature
    BY <1>0, <1>1, <1>2, <1>7 DEF InReleaseBadSignature, Reply, Errors
  <1>8. CASE InReleaseFailed
    <2>1. State = "Started" /\ parser = 0
      BY <1>8 DEF InReleaseFailed, Reply, CInv, IInv, Planned, Active
    <2>2. CASE /\ Status' = [Status EXCEPT !["InRelease"] = "Done", !["Release"] = "Idle"]
               /\ staged' = [staged EXCEPT !["InRelease"] = Removal("InRelease")]
               /\ Transaction' = Transaction \cup {"Release"}
               /\ UNCHANGED <<server, lists, State, IMSHit, got, AuthPass, parser, last, keep, committed, failed, run>>
      <3>1. /\ Status'["InRelease"] = "Done" /\ Status'["Release"] = "Idle"
            /\ staged'["InRelease"].dest = "InRelease"
        BY <2>2, IInvFacts DEF CInv, IInv, TypeOK, Removal
      <3> QED BY <2>1, <2>2, <3>1 DEF CInv, InStep, Manager, NoEmptyCommit, Complete, Active
    <2> QED BY <1>1, <1>2, <1>8, <2>1, <2>2 DEF InReleaseFailed, Errors
  <1>9. CASE ReleaseFetched
    BY <1>9 DEF ReleaseFetched, Served, CInv, IInv, OnlyInRelease
  <1>10. CASE ReleaseFailed
    BY <1>0, <1>1, <1>10 DEF ReleaseFailed, Reply
  <1>11. CASE SigFetched \/ SigVerified \/ SigWeak \/ SigRejected \/ SigFailed
    BY <1>11 DEF SigFetched, SigVerified, SigWeak, SigRejected, SigFailed, Reply, CInv, IInv, OnlyInRelease
  <1> QED BY <1>3, <1>4, <1>5, <1>6, <1>7, <1>8, <1>9, <1>10, <1>11 DEF AcquireMeta

\* The commit of an item which has a copy of version v of its file, or the
\* removal of it (version 0).
LEMMA MovedTo ==
  ASSUME TypeOK, NEW i \in Files, NEW v,
         Staged(i) = Copy(i, v) \/ (Staged(i) = Removal(i) /\ v = 0)
  PROVE  Moved(i)[i] = v /\ \A f \in Files : f # i => Moved(i)[f] = lists[f]
  <1>1. DOMAIN lists = Files /\ lists = [f \in Files |-> lists[f]]
    BY DEF TypeOK
  <1>2. Staged(i).op # "none"
    BY DEF Copy, Removal
  <1>3. Removed(i) = [lists EXCEPT ![i] = 0]
    BY <1>2 DEF Removed
  <1>4. CASE Staged(i) = Copy(i, v)
    <2>1. Staged(i).op = "copy" /\ Staged(i).dest = i /\ Staged(i).ver = v
      BY <1>4 DEF Copy
    <2>2. Moved(i) = [Removed(i) EXCEPT ![i] = v]
      BY <2>1 DEF Moved
    <2> QED BY <1>1, <1>3, <2>2
  <1>5. CASE Staged(i) = Removal(i) /\ v = 0
    <2>1. Moved(i) = Removed(i)
      BY <1>5 DEF Moved, Removal
    <2> QED BY <1>1, <1>3, <1>5, <2>1
  <1> QED BY <1>4, <1>5

\* One item is committed: its file is then what the new version lists.
LEMMA CommitCInv ==
  ASSUME Undisturbed, CInv, IInv', AbortFails', NEW i \in Files, CommitItem(i)
  PROVE  CInv'
  <1>1. /\ State = "Commit" /\ i \in Transaction \ committed /\ parser # 0
        /\ lists' = Moved(i) /\ committed' = committed \cup {i}
        /\ UNCHANGED <<State, IMSHit, Status, parser, Transaction, staged, keep>>
    BY DEF CommitItem, MayCommit, Undisturbed, CInv, NoEmptyCommit, Active
  <1>3. InStep' /\ Manager' /\ NoEmptyCommit'
    BY <1>1 DEF CInv, InStep, Manager, NoEmptyCommit, Active
  <1>4. CASE i \in Indexes
    <2>1. Staged(i) = staged[i] /\ i # "InRelease" /\ staged[i].op # "none"
      BY <1>1, <1>4, IInvFacts DEF CInv, IInv, Planned, Active, Staged, Meta
    <2>2. \/ staged[i] = Copy(i, Content[parser][i])
          \/ staged[i] = Removal(i) /\ Content[parser][i] = 0
      BY <1>1, <1>4, <2>1 DEF CInv, Complete, Active
    <2>4. lists'[i] = Content[parser][i] /\ \A f \in Files : f # i => lists'[f] = lists[f]
      BY <1>1, <2>1, <2>2, MovedTo DEF CInv, IInv
    <2>5. lists'["InRelease"] = lists["InRelease"] /\ \A j \in Indexes : j \in Files
      BY <2>1, <2>4, IInvFacts DEF CInv
    <2>6. Complete'
      BY <1>1, <2>1, <2>4, <2>5 DEF CInv, Complete, Active
    <2> QED BY <1>3, <2>6 DEF CInv
  <1>5. CASE i = "InRelease"
    <2>1. lists'["InRelease"] = parser /\ \A f \in Files : f # "InRelease" => lists'[f] = lists[f]
      <3>1. CASE IMSHit
        <4>1. lists' = lists
          BY <1>1, <1>5, <3>1 DEF Moved, Removed, Staged, Nothing
        <4> QED BY <1>1, <3>1, <4>1 DEF CInv, IInv, Planned, Active
      <3>2. CASE ~IMSHit
        <4>1. Staged(i) = Copy("InRelease", parser)
          BY <1>1, <1>5, <3>2 DEF CInv, Complete, Active, Staged
        <4> QED BY <1>1, <1>5, <4>1, MovedTo DEF CInv, IInv
      <3> QED BY <3>1, <3>2
    <2>2. \A j \in Indexes : j \in Files /\ j # "InRelease"
      BY IInvFacts DEF CInv, Meta
    <2>3. \A j \in Indexes : lists'[j] = lists[j] /\ (j \in committed' => j \in committed)
      BY <1>1, <1>5, <2>1, <2>2
    <2>4. Complete'
      BY <1>1, <2>1, <2>3 DEF CInv, Complete, Active
    <2> QED BY <1>3, <2>4 DEF CInv
  <1>6. CASE i \in {"Release", "Release.gpg"}
    <2>1. lists' = lists
      BY <1>1, <1>6 DEF Moved, Removed, Staged, Nothing, CInv, IInv, OnlyInRelease
    <2>2. \A j \in Indexes \cup {"InRelease"} : j \in committed' => j \in committed
      BY <1>1, <1>6, IInvFacts DEF CInv, Meta
    <2>3. Complete'
      BY <1>1, <2>1, <2>2 DEF CInv, Complete, Active
    <2> QED BY <1>3, <2>3 DEF CInv
  <1> QED BY <1>4, <1>5, <1>6 DEF Files, Meta

\* The end of AcquireUpdate: every file the new version lists is claimed by an
\* item, so the clean up deletes none of them.
LEMMA UpdateCInv ==
  ASSUME CInv, IInv', AbortFails', AcquireUpdate
  PROVE  CInv'
  <1>1. State' = "none" /\ staged'["InRelease"] = Nothing("InRelease")
    BY IInvFacts DEF AcquireUpdate, Exit, CInv
  <1>2. CASE State # "Commit"
    <2>1. lists' = lists
      BY <1>2, NoCleanAfterFailure DEF CInv, IInv
    <2> QED BY <1>1, <1>2, <2>1, InactiveCInv
  <1>3. CASE State = "Commit"
    <2>1. Transaction \subseteq committed /\ parser # 0
      BY <1>3 DEF AcquireUpdate, Over, CInv, NoEmptyCommit, Active
    <2>2. /\ "InRelease" \in committed /\ lists["InRelease"] = parser
          /\ \A i \in Indexes : lists[i] = Content[parser][i]
      BY <1>3, <2>1 DEF CInv, Manager, Complete, Active
    <2>3. \A f \in Indexes \cup {"InRelease"} : f \in Claimed
      <3>1. "InRelease" \in Claimed
        <4>1. "InRelease" \in Files /\ Status["InRelease"] # "New" /\ "InRelease" \in Meta
          BY <1>3 DEF CInv, Manager, Active, Files, Meta
        <4> QED BY <1>3, <4>1 DEF Claimed, CInv, Manager, Active
      <3>2. ASSUME NEW i \in Indexes
            PROVE  i \in Claimed
        <4>1. CASE i \notin Transaction
          BY <1>3, <2>1, <4>1 DEF Claimed, CInv, Complete, Active
        <4>2. CASE i \in Transaction
          <5>1. i \in Files /\ Status[i] # "New" /\ staged[i].op # "none"
            BY <1>3, <2>1, <4>2, IInvFacts DEF CInv, IInv, Planned, Active
          <5>2. staged[i] = Copy(i, Content[parser][i]) \/ staged[i] = Removal(i)
            BY <1>3, <2>1, <4>2, <5>1 DEF CInv, Complete, Active
          <5>3. staged[i].dest = i
            BY <5>2 DEF Copy, Removal
          <5> QED BY <5>1, <5>3 DEF Claimed
        <4> QED BY <4>1, <4>2
      <3> QED BY <3>1, <3>2
    <2>4. /\ lists'["InRelease"] = lists["InRelease"]
          /\ \A i \in Indexes : lists'[i] = lists[i]
      BY <2>3, IInvFacts DEF AcquireUpdate, CInv
    <2>5. InStep'
      BY <2>2, <2>4 DEF InStep
    <2> QED BY <1>1, <2>5 DEF CInv, Manager, NoEmptyCommit, Complete, Active, Nothing
  <1> QED BY <1>2, <1>3

\* The invariant is inductive.
LEMMA StepCInv ==
  ASSUME Undisturbed, CInv, [Next]_vars
  PROVE  CInv'
  <1>0. /\ Careful /\ IInv' /\ AbortFails' /\ IInv /\ "InRelease" \in Files /\ "Release" \in Files
        /\ \A f \in Files : f \in Transaction => Status[f] \in Statuses
    BY StepIInv, AbortFailsStep, IInvFacts DEF Undisturbed, CInv, IInv, TypeOK
  <1>1. CASE Publish \/ UNCHANGED vars
    BY <1>0, <1>1 DEF Publish, vars, memory, CInv, InStep, Manager, NoEmptyCommit, Complete, Active
  <1>2. CASE Start
    <2>1. /\ State' = "Started" /\ Transaction' = {"InRelease"} /\ Status' = [Status EXCEPT !["InRelease"] = "Idle"]
          /\ UNCHANGED <<lists, parser, staged>> /\ State = "none" /\ parser = 0
      BY <1>2 DEF Start, CInv, IInv, Phases, AtRest
    <2>2. Status'["InRelease"] = "Idle"
      BY <1>0, <2>1 DEF IInv, TypeOK
    <2>3. staged["InRelease"].dest = "InRelease"
      BY <1>0, <1>2 DEF Start, CInv, Manager
    <2> QED BY <1>0, <2>1, <2>2, <2>3 DEF CInv, InStep, Manager, NoEmptyCommit, Complete, Active
  <1>3. ASSUME NEW i \in Files, Send(i)
        PROVE  CInv'
    BY <1>0, <1>3, SetStatusCInv DEF Send
  <1>4. ASSUME NEW i \in Files, DoomedReply(i)
        PROVE  CInv'
    BY <1>0, <1>4, InactiveCInv DEF DoomedReply, SetStatus
  <1>5. CASE AcquireMeta
    BY <1>0, <1>5, AcquireMetaCInv
  <1>6. ASSUME NEW i \in Indexes, IndexDone(i)
        PROVE  CInv'
    <2>1. /\ State = "Started" /\ Status[i] = "Fetching"
          /\ i \in Files /\ i # "InRelease" /\ i # "Release"
      BY <1>0, <1>6, IInvFacts DEF IndexDone, Reply, Meta
    <2>2. parser # 0
      BY <1>0, <2>1 DEF IInv, NothingQueued, Active
    <2>3. /\ Status' = [Status EXCEPT ![i] = "Done"]
          /\ staged' = [staged EXCEPT ![i] = Copy(i, Content[parser][i])]
          /\ UNCHANGED <<lists, State, IMSHit, parser, Transaction, keep, committed>>
      BY <1>6, <2>2 DEF IndexDone
    <2>4. /\ \A f \in Files : f # i => Status'[f] = Status[f] /\ staged'[f] = staged[f]
          /\ staged'[i] = Copy(i, Content[parser][i])
      BY <1>0, <2>1, <2>3 DEF IInv, TypeOK
    <2>5. InStep' /\ Manager' /\ NoEmptyCommit'
      BY <1>0, <2>1, <2>2, <2>3, <2>4 DEF CInv, InStep, Manager, NoEmptyCommit, Active
    <2>6. \A j \in Indexes : j \in Files
      BY DEF Files
    <2>7. Complete'
      BY <1>0, <2>1, <2>3, <2>4, <2>6 DEF CInv, Complete, Active
    <2> QED BY <1>0, <2>5, <2>7 DEF CInv
  <1>7. ASSUME NEW i \in Indexes, IndexFailed(i)
        PROVE  CInv'
    <2>1. State = "Started" /\ Status[i] = "Fetching"
      BY <1>7 DEF IndexFailed, Reply
    <2>2. parser # 0
      BY <1>0, <2>1 DEF IInv, NothingQueued, Active
    <2> QED BY <1>0, <1>7, <2>1, <2>2, InactiveCInv DEF IndexFailed, Abort
  <1>8. CASE RunEnds
    <2>1. UNCHANGED <<lists, State, IMSHit, Status, parser, Transaction, staged, keep, committed>>
      BY <1>8 DEF RunEnds
    <2> QED BY <1>0, <2>1 DEF CInv, InStep, Manager, NoEmptyCommit, Complete, Active
  <1>9. CASE Finished
    <2>1. /\ run = "over" /\ State = "Started" /\ State' = "Commit"
          /\ \A f \in Transaction : Status[f] \notin Errors
          /\ UNCHANGED <<lists, IMSHit, Status, parser, Transaction, staged, keep, committed>>
      BY <1>9 DEF Finished, TransactionHasError
    <2>2. \A f \in Files : Status[f] \notin {"Idle", "Fetching"}
      BY <1>0, <2>1 DEF IInv, Phases
    <2>3. parser # 0
      BY <1>0, <2>1, <2>2 DEF CInv, NoEmptyCommit, Manager, Active
    <2>4. InStep' /\ Manager' /\ NoEmptyCommit' /\ Complete'
      BY <2>1, <2>3 DEF CInv, InStep, Manager, NoEmptyCommit, Complete, Active
    <2> QED BY <1>0, <2>4 DEF CInv
  <1>10. ASSUME NEW i \in Files, CommitItem(i)
         PROVE  CInv'
    BY <1>0, <1>10, CommitCInv
  <1>11. CASE AcquireUpdate
    BY <1>0, <1>11, UpdateCInv
  <1>12. ~MethodDies /\ ~Cancel /\ ~Crash
    BY DEF MethodDies, Cancel, Crash, Undisturbed, Careful
  <1> QED BY <1>1, <1>2, <1>3, <1>4, <1>5, <1>6, <1>7, <1>8, <1>9, <1>10, <1>11, <1>12 DEF Next

\* Between updates lists/ is exactly what the InRelease file in it lists, for
\* every history of the repository, however far the mirrors lag behind.
THEOREM ListsAreConsistent == ASSUME Undisturbed PROVE Spec => []ListsConsistent
  <1>1. Init => CInv
    BY InitCInv
  <1>2. CInv /\ [Next]_vars => CInv'
    BY StepCInv
  <1>3. CInv => ListsConsistent
    <2> SUFFICES ASSUME CInv PROVE ListsConsistent
      OBVIOUS
    <2>1. OnDisk = lists["InRelease"] /\ lists["Release"] = 0 /\ (run = "setup" => State = "none")
      BY IInvFacts DEF CInv, IInv, OnlyInRelease, Phases, AtRest
    <2> QED BY <2>1 DEF CInv, InStep, ListsConsistent, Consistent, SignatureMatches
  <1> QED BY <1>1, <1>2, <1>3, PTL DEF Spec
====
