----------------------------- MODULE SavedState -----------------------------
(***************************************************************************)
(* "apt save" and "apt load" (apt-private/private-save.cc): the list of    *)
(* installed packages is kept in a file of Dir::State::save and restored   *)
(* later by removing what came since and installing what is gone.          *)
(*                                                                         *)
(* A package is a name and an architecture.  Names are numbers, in the     *)
(* order of operator< on strings; architectures are numbers in the order   *)
(* of preference, the native one first.  Packages have no dependencies     *)
(* here: what InstallPackages makes of the marks is what was marked.       *)
(***************************************************************************)
EXTENDS Integers, Sequences, FiniteSets

CONSTANTS
  Packages,   \* the packages there are
  Available,  \* those some repository has
  Files,      \* names of saved states
  MayRace     \* whether another apt may work while a load has no lock yet

ASSUME SavedStateAssumption ==
  /\ Packages \subseteq [name : Nat, arch : Nat] /\ IsFiniteSet(Packages)
  /\ Available \subseteq Packages
  /\ MayRace \in BOOLEAN

VARIABLES
  installed,  \* the packages with a CurrentVer
  states,     \* the files in Dir::State::save
  content,    \* content[f]: what LoadState decodes; <<>> if it cannot
  snapshot,   \* snapshot[f]: the packages installed when f was written
  pc,         \* where the command in progress is; "idle": there is none
  file,       \* the file it was given
  Saved, Current,         \* the lists a load compares
  SavedIt, CurrentIt,     \* the positions of PackageForEachDelta
  Added, Removed          \* the packages it called back for

delta == <<Saved, Current, SavedIt, CurrentIt, Added, Removed>>
vars  == <<installed, states, content, snapshot, pc, file, delta>>

-----------------------------------------------------------------------------
(* The state of the packages *)

\* packages the cache has a version of
Versioned(I) == Available \cup I

\* GrpIterator::FindPreferredPkg: p is the best of the packages of its name
FindPreferredPkg(p, I) == \A o \in Versioned(I) : o.name = p.name => p.arch <= o.arch

\* one package of each name, if it is installed
GetState(I) == {p \in I : FindPreferredPkg(p, I)}

\* the list of the packages in S, sorted by name
Sorted(S) ==
  {q \in [1..Cardinality(S) -> S] : /\ \A i, j \in 1..Cardinality(S) : i < j => q[i].name < q[j].name
                                    /\ \A p \in S : \E i \in 1..Cardinality(S) : q[i] = p}

Elements(q)  == {q[i] : i \in DOMAIN q}

\* binary_search with PackageCompare
HasName(q, p) == \E i \in DOMAIN q : q[i].name = p.name

-----------------------------------------------------------------------------
(* Other runs of apt and dpkg; a load holds the lock from Cache.Open on *)

Locked == pc \in {"walk", "marked", "restored"}

Change ==
  /\ ~Locked /\ (pc = "compare" => MayRace)
  /\ \E p \in Packages : installed' = IF p \in installed THEN installed \ {p} ELSE installed \cup {p}
  /\ UNCHANGED <<states, content, snapshot, pc, file, delta>>

-----------------------------------------------------------------------------
(* Save *)

\* the user agreed to override; opening the file truncates it
SaveOpen(f) ==
  /\ pc = "idle"
  /\ pc' = "save" /\ file' = f
  /\ states' = states \cup {f}
  /\ content' = [content EXCEPT ![f] = <<>>]
  /\ UNCHANGED <<installed, snapshot, delta>>

\* the state is read, sorted, compressed and written
SaveWrite ==
  /\ pc = "save" /\ GetState(installed) # {}
  /\ \E q \in Sorted(GetState(installed)) : content' = [content EXCEPT ![file] = q]
  /\ snapshot' = [snapshot EXCEPT ![file] = installed]
  /\ pc' = "idle"
  /\ UNCHANGED <<installed, states, file, delta>>

\* nothing is installed, the cache or the compression fails, the disk is full
\* (which is not noticed), or apt is killed
SaveFails ==
  /\ pc = "save"
  /\ pc' = "idle"
  /\ UNCHANGED <<installed, states, content, snapshot, file, delta>>

-----------------------------------------------------------------------------
(* Delete *)

\* with a name: the file is deleted if access() does not find it
Delete(f) ==
  /\ pc = "idle" /\ f \notin states
  /\ states' = states \ {f}
  /\ UNCHANGED <<installed, content, snapshot, pc, file, delta>>

\* without: all of them
DeleteAll ==
  /\ pc = "idle"
  /\ states' = {}
  /\ content' = [f \in Files |-> <<>>]
  /\ UNCHANGED <<installed, snapshot, pc, file, delta>>

-----------------------------------------------------------------------------
(* Load *)

\* the process ends, and what was local to it is gone
Return ==
  /\ pc' = "idle" /\ UNCHANGED file
  /\ Saved' = <<>> /\ Current' = <<>> /\ SavedIt' = 1 /\ CurrentIt' = 1
  /\ Added' = {} /\ Removed' = {}

\* both lists are read; neither may be empty
LoadState(f) ==
  /\ pc = "idle" /\ f \in states /\ content[f] # <<>>
  /\ GetState(installed) # {}
  /\ Current' \in Sorted(GetState(installed))
  /\ Saved' = content[f]
  /\ pc' = "compare" /\ file' = f
  /\ UNCHANGED <<installed, states, content, snapshot, SavedIt, CurrentIt, Added, Removed>>

\* Cache.Open takes the lock, PackageForEachDelta begins
LoadLock ==
  /\ pc = "compare"
  /\ pc' = "walk"
  /\ SavedIt' = 1 /\ CurrentIt' = 1 /\ Added' = {} /\ Removed' = {}
  /\ UNCHANGED <<installed, states, content, snapshot, file, Saved, Current>>

\* mutant: whatever the two entries are, both are passed
AdvanceBoth ==
  /\ SavedIt' = SavedIt + 1 /\ CurrentIt' = CurrentIt + 1
  /\ Added' = IF HasName(Saved, Current[CurrentIt]) THEN Added ELSE Added \cup {Current[CurrentIt]}
  /\ UNCHANGED Removed

\* one turn of the loop, with both positions before the end
Compare ==
  LET s == Saved[SavedIt]
      c == Current[CurrentIt]
  IN  \/ /\ s # c /\ ~HasName(Saved, c)
         /\ Added' = Added \cup {c} /\ CurrentIt' = CurrentIt + 1
         /\ UNCHANGED <<Removed, SavedIt>>
      \/ /\ s # c /\ HasName(Saved, c) /\ ~HasName(Current, s)
         /\ Removed' = Removed \cup {s} /\ SavedIt' = SavedIt + 1
         /\ UNCHANGED <<Added, CurrentIt>>
      \/ /\ s = c \/ (HasName(Saved, c) /\ HasName(Current, s))
         /\ SavedIt' = SavedIt + 1 /\ CurrentIt' = CurrentIt + 1
         /\ UNCHANGED <<Added, Removed>>

Walk ==
  /\ pc = "walk" /\ SavedIt <= Len(Saved) /\ CurrentIt <= Len(Current)
  /\ Compare
  /\ UNCHANGED <<installed, states, content, snapshot, pc, file, Saved, Current>>

\* mutant: the rest of the saved list is forgotten
WalkEndForgets ==
  /\ pc = "walk" /\ (SavedIt > Len(Saved) \/ CurrentIt > Len(Current))
  /\ Added' = Added \cup {Current[i] : i \in CurrentIt..Len(Current)}
  /\ pc' = "marked"
  /\ UNCHANGED <<installed, states, content, snapshot, file, Saved, Current, SavedIt, CurrentIt, Removed>>

\* one list came to its end: what is left of the other
WalkEnd ==
  /\ pc = "walk" /\ (SavedIt > Len(Saved) \/ CurrentIt > Len(Current))
  /\ Added' = Added \cup {Current[i] : i \in CurrentIt..Len(Current)}
  /\ Removed' = Removed \cup {Saved[i] : i \in SavedIt..Len(Saved)}
  /\ pc' = "marked"
  /\ UNCHANGED <<installed, states, content, snapshot, file, Saved, Current, SavedIt, CurrentIt>>

\* InstallPackages did all that was marked
Install ==
  /\ pc = "marked" /\ Removed \subseteq Versioned(installed)
  /\ installed' = (installed \ Added) \cup Removed
  /\ pc' = "restored"
  /\ UNCHANGED <<states, content, snapshot, file, delta>>

\* it was interrupted, or dpkg failed
InstallFails ==
  /\ pc = "marked" /\ Removed \subseteq Versioned(installed)
  /\ \E D \in SUBSET Added, N \in SUBSET Removed : installed' = (installed \ D) \cup N
  /\ Return
  /\ UNCHANGED <<states, content, snapshot>>

\* the lock is not free, the user declines, a package to install is not
\* known anymore, or all is done (or shown, with --diff)
LoadEnds ==
  /\ pc \in {"compare", "marked", "restored"}
  /\ Return
  /\ UNCHANGED <<installed, states, content, snapshot>>

-----------------------------------------------------------------------------
Init ==
  /\ installed \in SUBSET Packages
  /\ states = {} /\ content = [f \in Files |-> <<>>] /\ snapshot = [f \in Files |-> {}]
  /\ pc = "idle" /\ file \in Files
  /\ Saved = <<>> /\ Current = <<>> /\ SavedIt = 1 /\ CurrentIt = 1
  /\ Added = {} /\ Removed = {}

Next ==
  \/ Change
  \/ \E f \in Files : SaveOpen(f) \/ Delete(f) \/ LoadState(f)
  \/ SaveWrite \/ SaveFails \/ DeleteAll
  \/ LoadLock \/ Walk \/ WalkEnd \/ Install \/ InstallFails \/ LoadEnds

Spec == Init /\ [][Next]_vars

-----------------------------------------------------------------------------
(* Properties *)

\* The variables hold values of the types the code gives them; the positions
\* are never further than one behind the last entry.
TypeOK ==
  /\ installed \subseteq Packages /\ states \subseteq Files
  /\ content \in [Files -> Seq(Packages)] /\ snapshot \in [Files -> SUBSET Packages] /\ file \in Files
  /\ pc \in {"idle", "save", "compare", "walk", "marked", "restored"}
  /\ Saved \in Seq(Packages) /\ Current \in Seq(Packages)
  /\ SavedIt \in 1..(Len(Saved) + 1) /\ CurrentIt \in 1..(Len(Current) + 1)
  /\ Added \subseteq Packages /\ Removed \subseteq Packages

\* PackageForEachDelta calls back for exactly the packages whose name is in
\* one list only, although it compares entries, looks names up and takes the
\* rest of a list without looking.
DeltaExact ==
  pc = "marked" => /\ Added   = {p \in Elements(Current) : ~HasName(Saved, p)}
                   /\ Removed = {p \in Elements(Saved) : ~HasName(Current, p)}

\* A load that succeeds leaves the packages installed that were saved: the help
\* text "restore the installed packages to a saved state".
LoadRestores == pc = "restored" => installed = snapshot[file]

-----------------------------------------------------------------------------
(* The instance TLC checks: four packages, each of one architecture, of which *)
(* one is in no repository any more.                                          *)

Pkg(n, a) == [name |-> n, arch |-> a]

FourPackages  == {Pkg(1, 1), Pkg(2, 2), Pkg(3, 1), Pkg(4, 1)}
FourAvailable == FourPackages \ {Pkg(3, 1)}
=============================================================================
