----------------------------- MODULE PdiffItems -----------------------------
(***************************************************************************)
(* An index file updated by patches (acquire-item.cc: pkgAcqDiffIndex,     *)
(* pkgAcqIndexDiffs, pkgAcqIndexMergeDiffs) and the rred method's checks.  *)
(* The content of the index file is its number, 0 something else; the      *)
(* server offers a patch from each of its last versions, to the next       *)
(* version or, if it merges them, to the newest. Every download may fail,  *)
(* and apt may die at any time: lists/partial is then as it was left.      *)
(***************************************************************************)
EXTENDS Integers, Sequences, FiniteSets, SequencesExt

CONSTANTS
  MaxVersion,  \* bound: versions the server publishes
  History,     \* patches the server keeps
  FileLimit,   \* Acquire::PDiffs::FileLimit, 0: none
  SizeLimit,   \* size of the index file times Acquire::PDiffs::SizeLimit
  MaxRuns      \* bound: calls of apt update

VARIABLES
  server,   \* [version, merged]: what is published
  pdiff_merge, \* Acquire::PDiffs::Merge
  final,    \* content of the file in lists/
  claimed,  \* what the last Release file says about it, 0 if there is none
  partial,  \* None, Link (to the file in lists/) or a content
  ed,       \* the set of patches renamed to $file.ed
  eds,      \* the patches renamed to $file.ed.$name.gz
  index,    \* state of the pkgAcqDiffIndex
  chain,    \* pkgAcqIndexDiffs: [State, available_patches]
  merge,    \* name of the patch -> State of its pkgAcqIndexMergeDiffs
  staged,   \* what the transaction would copy to lists/: {} or {content}
  full,     \* number of pkgAcqIndex created
  runs

pvars == <<server, pdiff_merge, final, claimed, partial, ed, eds, index, chain, merge, staged, full, runs>>

None == -1
Link == -2
Target == server.version
NoChain == [State |-> "none", available_patches |-> <<>>]
NoMerge == [i \in {} |-> "none"]

(* A patch is the version it starts with, which is also its name, and the one it leads to. *)
Patch(i) == [start |-> i, result |-> IF server.merged THEN Target ELSE i + 1]
Oldest == IF Target > History THEN Target - History ELSE 1
Series == [k \in 1..(Target - Oldest) |-> Oldest + k - 1]

Init ==
  /\ server \in [version : {MaxVersion - 2}, merged : BOOLEAN] /\ pdiff_merge \in BOOLEAN
  /\ claimed \in 0..(MaxVersion - 3) /\ final \in 0..(MaxVersion - 2)
  /\ claimed # 0 => final \in {0, claimed}
  /\ partial = None /\ ed = {} /\ eds = {} /\ index = "queued" /\ chain = NoChain /\ merge = NoMerge
  /\ staged = {} /\ full = 0 /\ runs = 1

Content(file) == IF file = Link THEN final ELSE file

\* the patches from the local version on; there are none if the server does not know it
StartOfSeries(local) == SelectSeq(Series, LAMBDA i : \E k \in DOMAIN Series : Series[k] = local /\ i >= local)

LocalHashes == IF claimed # 0 THEN claimed ELSE final

(* ParseDiffIndex refuses an index without the start of the series, one that needs too many
   patches and one whose patches are larger than the file; each patch has the size 1. *)
ClientMerge == pdiff_merge /\ ~server.merged
Accepted(patches) ==
  /\ patches # <<>>
  /\ FileLimit # 0 => Len(patches) <= FileLimit
  /\ (IF ClientMerge THEN Len(patches) ELSE 1) <= SizeLimit

NewIndex == full' = full + 1

\* of a pkgAcqIndexDiffs whose Failed was called: the unpatched file is moved out of the way
ChainFails ==
  chain' = [State |-> "failed", available_patches |-> <<>>] /\ partial' = None /\ NewIndex /\ UNCHANGED staged

(* QueueNextDiff of a new item, for the file in partial *)
QueueNextDiff(patches, file) ==
  LET reached == Content(file)
      left == SelectSeq(patches, LAMBDA i : reached \in ToSet(patches) /\ i >= reached)
  IN \/ /\ reached = Target /\ partial' = file /\ UNCHANGED full
        /\ chain' = [State |-> "done", available_patches |-> patches] /\ staged' = {reached}
     \/ reached # Target /\ left = <<>> /\ ChainFails
     \/ /\ reached # Target /\ left # <<>> /\ partial' = file /\ UNCHANGED <<staged, full>>
        /\ chain' = [State |-> "fetch", available_patches |-> left]

\* Failed moves $file.ed away as well
PatchFile(rest) == ed' = IF chain'.State = "failed" THEN {} ELSE rest

DiffIndexFailed ==
  /\ index = "queued" /\ index' = "failed" /\ NewIndex /\ UNCHANGED <<partial, ed, chain, merge, staged>>

(* VerifyDone and Done of the Diff/Index of this Release file *)
DiffIndexDone ==
  /\ index = "queued" /\ index' = "done"
  /\ IF LocalHashes = Target
     THEN /\ chain' = [State |-> "done", available_patches |-> <<>>] /\ staged' = {final}
          /\ UNCHANGED <<partial, ed, merge, full>>
     ELSE LET patches == StartOfSeries(LocalHashes)
          IN IF ~Accepted(patches) THEN NewIndex /\ UNCHANGED <<partial, ed, chain, merge, staged>>
             ELSE IF ClientMerge
             THEN /\ merge' = [i \in ToSet(patches) |-> "fetch"] /\ partial' = Link
                  /\ UNCHANGED <<ed, chain, staged, full>>
             ELSE QueueNextDiff(patches, Link) /\ PatchFile(ed) /\ UNCHANGED merge

ChainFailed ==
  /\ chain.State \in {"fetch", "apply"} /\ ChainFails /\ PatchFile(ed) /\ UNCHANGED <<index, merge>>

ChainFetched ==
  /\ chain.State = "fetch"
  /\ ed' = {Patch(Head(chain.available_patches))} /\ chain' = [chain EXCEPT !.State = "apply"]
  /\ UNCHANGED <<partial, index, merge, staged, full>>

(* The rred method: one .ed file, or all .ed.$name.gz files in the order of their names; the k-th
   has to be the k-th patch of the request, and the file the one the first patch starts with. *)
Found == IF ed # {} THEN ed ELSE eds
Rred(wanted) ==
  LET names == SetToSortSeq({p.start : p \in Found}, <)
      found == [k \in DOMAIN names |-> CHOOSE p \in Found : p.start = names[k]]
  IN IF /\ found # <<>> /\ Len(found) <= Len(wanted)
        /\ \A k \in DOMAIN found : found[k] = Patch(wanted[k])
        /\ Content(partial) = wanted[1]
     THEN {Last(found).result} ELSE {}

ChainApplied ==
  /\ chain.State = "apply"
  /\ \E result \in Rred(<<Head(chain.available_patches)>>), rest \in {Tail(chain.available_patches)} :
       \/ rest # <<>> /\ QueueNextDiff(rest, result)
       \/ /\ rest = <<>> /\ partial' = result /\ UNCHANGED full
          /\ chain' = [State |-> "done", available_patches |-> rest] /\ staged' = {result}
  /\ PatchFile({}) /\ UNCHANGED <<index, merge>>

ChainNotApplied ==
  /\ chain.State = "apply" /\ Rred(<<Head(chain.available_patches)>>) = {} /\ ChainFails /\ PatchFile(ed) /\ UNCHANGED <<index, merge>>

\* mutant: every item that fails falls back
MergeEachFails(i) ==
  /\ merge' = [merge EXCEPT ![i] = "error"] /\ partial' = None /\ NewIndex

(* Failed of one of the items: the first one falls back to the whole file *)
MergeFails(i) ==
  /\ merge' = [merge EXCEPT ![i] = "error"]
  /\ IF \E j \in DOMAIN merge : merge[j] = "error" THEN UNCHANGED <<partial, full>>
     ELSE partial' = None /\ NewIndex

MergeFailed(i) ==
  /\ merge[i] \in {"fetch", "apply"} /\ MergeFails(i) /\ UNCHANGED <<ed, eds, index, chain, staged>>

MergeFetched(i) ==
  /\ merge[i] = "fetch"
  /\ IF \E j \in DOMAIN merge : merge[j] = "error"
     THEN merge' = [merge EXCEPT ![i] = "error"] /\ UNCHANGED eds
     ELSE IF \E j \in DOMAIN merge \ {i} : merge[j] # "done"
     THEN merge' = [merge EXCEPT ![i] = "done"] /\ UNCHANGED eds
     ELSE /\ merge' = [merge EXCEPT ![i] = "apply"]
          /\ eds' = {p \in eds : p.start \notin DOMAIN merge} \cup {Patch(j) : j \in DOMAIN merge}
  /\ UNCHANGED <<partial, ed, index, chain, staged, full>>

(* Each item's hashes are those of the target: a result that is not the target is a failure *)
MergeResult == Rred(SetToSortSeq(DOMAIN merge, <)) \cap {Target}

MergeApplied(i) ==
  /\ merge[i] = "apply"
  /\ IF MergeResult # {}
     THEN /\ staged' = MergeResult /\ merge' = [merge EXCEPT ![i] = "applied"] /\ partial' = None
          /\ eds' = {p \in eds : p.start \notin DOMAIN merge} /\ UNCHANGED full
     ELSE MergeFails(i) /\ UNCHANGED <<eds, staged>>
  /\ UNCHANGED <<ed, index, chain>>

Idle == index # "queued" /\ chain.State \notin {"fetch", "apply"} /\ \A i \in DOMAIN merge : merge[i] \notin {"fetch", "apply"}

(* The end of the run: the transaction commits and partial is cleaned, or the full file failed too *)
NextRun ==
  /\ runs < MaxRuns /\ runs' = runs + 1
  /\ index' = "queued" /\ chain' = NoChain /\ merge' = NoMerge /\ staged' = {} /\ full' = 0
  /\ \E v \in Target..MaxVersion : v # claimed' /\ server' = [server EXCEPT !.version = v]
  /\ UNCHANGED pdiff_merge

Commit ==
  /\ Idle /\ final' = (IF staged # {} THEN CHOOSE c \in staged : TRUE ELSE Target) /\ claimed' = Target
  /\ NextRun
  /\ partial' = None /\ ed' = {} /\ eds' = {}

(* The pkgAcqIndex fails, or apt is killed, before anything was committed. *)
Crash == UNCHANGED <<final, claimed, partial, ed, eds>> /\ NextRun

(* ParseDiffIndex removes leftovers before it links the file; a leftover link is removed as well *)
Next ==
  \/ /\ \/ DiffIndexFailed \/ DiffIndexDone \/ ChainFailed \/ ChainFetched \/ ChainApplied \/ ChainNotApplied
     /\ UNCHANGED <<server, pdiff_merge, final, claimed, eds, runs>>
  \/ /\ \E i \in DOMAIN merge : MergeFailed(i) \/ MergeFetched(i) \/ MergeApplied(i)
     /\ UNCHANGED <<server, pdiff_merge, final, claimed, runs>>
  \/ Commit \/ Crash

Spec == Init /\ [][Next]_pvars

(* Whatever is downloaded, fails or was left behind by an earlier run: at the end of the run there
   is either one file to be copied, and it is the one the Release file lists, or the whole index
   file is fetched, once; never both and never neither. *)
PatchOrWhole ==
  /\ staged \subseteq {Target} /\ Cardinality(staged) + full <= 1
  /\ Idle => Cardinality(staged) + full = 1
=============================================================================
