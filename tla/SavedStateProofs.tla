-------------------------- MODULE SavedStateProofs --------------------------
(***************************************************************************)
(* Proofs about SavedState, for every finite set of packages: the walk of  *)
(* PackageForEachDelta finds the names that differ, and a load restores    *)
(* what was saved if no name has two architectures and no other apt works  *)
(* between the reading of the current state and the lock.                  *)
(***************************************************************************)
EXTENDS SavedState, FiniteSetTheorems, TLAPS

Increasing(q) == \A i, j \in DOMAIN q : i < j => q[i].name < q[j].name

\* every list that is kept or compared is sorted, without a name twice
AllIncreasing ==
  /\ \A f \in Files : Increasing(content[f])
  /\ Increasing(Saved) /\ Increasing(Current)

\* until the walk begins its positions are at the beginning
AtBegin == pc \in {"idle", "save", "compare"} => SavedIt = 1 /\ CurrentIt = 1

Lists == TypeOK /\ AllIncreasing /\ AtBegin

\* what the walk called back for so far, and a name in both lists was passed
\* in both or in neither
Walked ==
  /\ Added   = {p \in Packages : \E i \in DOMAIN Current : i < CurrentIt /\ p = Current[i] /\ ~HasName(Saved, p)}
  /\ Removed = {p \in Packages : \E i \in DOMAIN Saved : i < SavedIt /\ p = Saved[i] /\ ~HasName(Current, p)}
  /\ \A i \in DOMAIN Saved, j \in DOMAIN Current : Saved[i].name = Current[j].name => (i < SavedIt <=> j < CurrentIt)

DeltaInv == Lists /\ (pc = "walk" => Walked) /\ DeltaExact

-----------------------------------------------------------------------------

\* A sorted list of a set of packages is a sequence of them, increasing, and has
\* all of them.
LEMMA SortedLists ==
  ASSUME NEW S \in SUBSET Packages, NEW q \in Sorted(S)
  PROVE  q \in Seq(Packages) /\ Increasing(q) /\ Elements(q) = S
<1>1. Cardinality(S) \in Nat
  BY FS_Subset, FS_CardinalityType, SavedStateAssumption
<1>2. q \in [1..Cardinality(S) -> S]
  BY DEF Sorted
<1>3. q \in Seq(Packages)
  BY <1>1, <1>2
<1>4. Increasing(q)
  BY <1>2 DEF Sorted, Increasing
<1>5. Elements(q) = S
  BY <1>2 DEF Sorted, Elements
<1> QED BY <1>3, <1>4, <1>5

\* In the beginning nothing is loaded, and nothing was saved.
LEMMA DeltaInit == Init => DeltaInv
  BY DEF Init, DeltaInv, Lists, AtBegin, TypeOK, AllIncreasing, Increasing, DeltaExact

\* The empty list is increasing.
LEMMA EmptyIncreasing == Increasing(<<>>)
  BY DEF Increasing

\* The types and the order of the lists are kept by every step.
LEMMA ListsStep == Lists /\ [Next]_vars => Lists'
<1> SUFFICES ASSUME Lists, [Next]_vars PROVE Lists'
  OBVIOUS
<1> USE DEF Lists, TypeOK, AllIncreasing, AtBegin
<1>1. CASE Change
  BY <1>1 DEF Change, delta
<1>2. ASSUME NEW f \in Files, SaveOpen(f) PROVE Lists'
  <2>1. content' \in [Files -> Seq(Packages)] /\ \A g \in Files : content'[g] = content[g] \/ content'[g] = <<>>
    BY <1>2 DEF SaveOpen
  <2> QED BY <1>2, <2>1, EmptyIncreasing DEF SaveOpen, delta
<1>3. ASSUME NEW f \in Files, Delete(f) PROVE Lists'
  BY <1>3 DEF Delete, delta
<1>4. CASE DeleteAll
  BY <1>4, EmptyIncreasing DEF DeleteAll, delta
<1>5. CASE SaveFails
  BY <1>5 DEF SaveFails, delta
<1>6. CASE SaveWrite
  <2>1. PICK q \in Sorted(GetState(installed)) : content' = [content EXCEPT ![file] = q]
    BY <1>6 DEF SaveWrite
  <2>2. q \in Seq(Packages) /\ Increasing(q)
    BY <2>1, SortedLists DEF GetState
  <2>3. content' \in [Files -> Seq(Packages)] /\ \A g \in Files : content'[g] = content[g] \/ content'[g] = q
    BY <2>1, <2>2
  <2> QED BY <1>6, <2>2, <2>3 DEF SaveWrite, delta
<1>7. ASSUME NEW f \in Files, LoadState(f) PROVE Lists'
  <2>1. Current' \in Seq(Packages) /\ Increasing(Current')
    BY <1>7, SortedLists DEF LoadState, GetState
  <2>2. Saved' \in Seq(Packages) /\ Increasing(Saved')
    BY <1>7 DEF LoadState
  <2> QED BY <1>7, <2>1, <2>2 DEF LoadState
<1>8. CASE LoadLock
  BY <1>8 DEF LoadLock
<1>9. CASE Walk
  <2>1. Saved[SavedIt] \in Packages /\ Current[CurrentIt] \in Packages
    BY <1>9 DEF Walk
  <2> QED BY <1>9, <2>1 DEF Walk, Compare
<1>10. CASE WalkEnd
  BY <1>10 DEF WalkEnd
<1>11. CASE Install
  BY <1>11 DEF Install, delta
<1>12. CASE InstallFails
  BY <1>12, EmptyIncreasing DEF InstallFails, Return
<1>13. CASE LoadEnds
  BY <1>13, EmptyIncreasing DEF LoadEnds, Return
<1>14. CASE UNCHANGED vars
  BY <1>14 DEF vars, delta
<1> QED BY <1>1, <1>2, <1>3, <1>4, <1>5, <1>6, <1>7, <1>8, <1>9, <1>10, <1>11, <1>12, <1>13, <1>14 DEF Next

\* The variables keep their types (see TypeOK).
THEOREM TypeCorrect == Spec => []TypeOK
<1>1. Init => Lists
  BY DeltaInit DEF DeltaInv
<1>2. Lists => TypeOK
  BY DEF Lists
<1> QED BY <1>1, <1>2, ListsStep, PTL DEF Spec

-----------------------------------------------------------------------------

\* Names are numbers.
LEMMA PackageNames == \A p \in Packages : p.name \in Nat /\ p.arch \in Nat
  BY SavedStateAssumption

\* One turn of the loop keeps what is known of the walk.
LEMMA WalkStep == ASSUME Lists, Walked, Walk PROVE Walked'
<1> DEFINE s == Saved[SavedIt]
           c == Current[CurrentIt]
           AddedBefore(k)   == {p \in Packages : \E i \in DOMAIN Current : i < k /\ p = Current[i] /\ ~HasName(Saved, p)}
           RemovedBefore(k) == {p \in Packages : \E i \in DOMAIN Saved : i < k /\ p = Saved[i] /\ ~HasName(Current, p)}
           Both(k, l)       == \A i \in DOMAIN Saved, j \in DOMAIN Current :
                                 Saved[i].name = Current[j].name => (i < k <=> j < l)
<1>1. /\ SavedIt \in DOMAIN Saved /\ CurrentIt \in DOMAIN Current
      /\ s \in Packages /\ c \in Packages
      /\ Saved' = Saved /\ Current' = Current
  BY DEF Lists, TypeOK, Walk
<1>2. /\ DOMAIN Saved \subseteq Nat /\ DOMAIN Current \subseteq Nat
      /\ \A i \in DOMAIN Saved : Saved[i].name \in Nat
      /\ \A j \in DOMAIN Current : Current[j].name \in Nat
  BY PackageNames DEF Lists, TypeOK
<1>3. Increasing(Saved) /\ Increasing(Current)
  BY DEF Lists, AllIncreasing
<1>4. /\ Added = AddedBefore(CurrentIt) /\ Removed = RemovedBefore(SavedIt)
      /\ Both(SavedIt, CurrentIt)
  BY DEF Walked
<1>5. SUFFICES /\ Added' = AddedBefore(CurrentIt') /\ Removed' = RemovedBefore(SavedIt')
               /\ Both(SavedIt', CurrentIt')
  BY <1>1 DEF Walked, HasName
<1>6. CASE s # c /\ ~HasName(Saved, c) /\ Added' = Added \cup {c} /\ CurrentIt' = CurrentIt + 1 /\ UNCHANGED <<Removed, SavedIt>>
  <2>1. Added' = AddedBefore(CurrentIt')
    BY <1>1, <1>2, <1>4, <1>6
  <2>2. Both(SavedIt', CurrentIt')
    BY <1>1, <1>2, <1>4, <1>6 DEF HasName
  <2> QED BY <1>4, <1>6, <2>1, <2>2
<1>7. CASE s # c /\ HasName(Saved, c) /\ ~HasName(Current, s) /\ Removed' = Removed \cup {s} /\ SavedIt' = SavedIt + 1 /\ UNCHANGED <<Added, CurrentIt>>
  <2>1. Removed' = RemovedBefore(SavedIt')
    BY <1>1, <1>2, <1>4, <1>7
  <2>2. Both(SavedIt', CurrentIt')
    BY <1>1, <1>2, <1>4, <1>7 DEF HasName
  <2> QED BY <1>4, <1>7, <2>1, <2>2
<1>8. CASE /\ s = c \/ (HasName(Saved, c) /\ HasName(Current, s))
           /\ SavedIt' = SavedIt + 1 /\ CurrentIt' = CurrentIt + 1 /\ UNCHANGED <<Added, Removed>>
  <2>1. HasName(Saved, c) /\ HasName(Current, s)
    BY <1>1, <1>8 DEF HasName
  <2>2. s.name = c.name
    <3>1. PICK j \in DOMAIN Current : Current[j].name = s.name
      BY <2>1 DEF HasName
    <3>2. PICK i \in DOMAIN Saved : Saved[i].name = c.name
      BY <2>1 DEF HasName
    <3>3. ~(j < CurrentIt) /\ ~(i < SavedIt)
      BY <1>1, <1>2, <1>4, <3>1, <3>2
    <3>4. c.name <= s.name
      BY <1>1, <1>2, <1>3, <3>1, <3>3 DEF Increasing
    <3>5. s.name <= c.name
      BY <1>1, <1>2, <1>3, <3>2, <3>3 DEF Increasing
    <3> QED BY <1>1, <1>2, <3>4, <3>5
  <2>3. Added' = AddedBefore(CurrentIt')
    BY <1>1, <1>2, <1>4, <1>8, <2>1
  <2>4. Removed' = RemovedBefore(SavedIt')
    BY <1>1, <1>2, <1>4, <1>8, <2>1
  <2>5. \A i \in DOMAIN Saved : Saved[i].name = s.name => i = SavedIt
    BY <1>1, <1>2, <1>3 DEF Increasing
  <2>6. \A j \in DOMAIN Current : Current[j].name = c.name => j = CurrentIt
    BY <1>1, <1>2, <1>3 DEF Increasing
  <2>7. Both(SavedIt', CurrentIt')
    BY <1>1, <1>2, <1>4, <1>8, <2>2, <2>5, <2>6
  <2> QED BY <2>3, <2>4, <2>7
<1> QED BY <1>6, <1>7, <1>8 DEF Walk, Compare

\* At the end of one list the rest of the other has none of its names.
LEMMA WalkEndStep == ASSUME Lists, Walked, WalkEnd PROVE DeltaExact'
<1> USE DEF Lists, TypeOK, AllIncreasing
<1>1. Saved' = Saved /\ Current' = Current
  BY DEF WalkEnd
<1>2. \A j \in DOMAIN Current : j >= CurrentIt => ~HasName(Saved, Current[j])
  BY DEF WalkEnd, Walked, HasName
<1>3. \A i \in DOMAIN Saved : i >= SavedIt => ~HasName(Current, Saved[i])
  BY DEF WalkEnd, Walked, HasName
<1>4. Added' = {p \in Elements(Current) : ~HasName(Saved, p)}
  BY <1>2 DEF WalkEnd, Walked, Elements
<1>5. Removed' = {p \in Elements(Saved) : ~HasName(Current, p)}
  BY <1>3 DEF WalkEnd, Walked, Elements
<1> QED BY <1>1, <1>4, <1>5 DEF DeltaExact, Elements, HasName

\* Every step keeps the invariant of the walk.
LEMMA DeltaStep == DeltaInv /\ [Next]_vars => DeltaInv'
<1> SUFFICES ASSUME DeltaInv, [Next]_vars PROVE (pc' = "walk" => Walked') /\ DeltaExact'
  BY ListsStep DEF DeltaInv
<1>1. CASE LoadLock
  <2>1. Walked'
    BY <1>1 DEF LoadLock, Walked, DeltaInv, Lists, TypeOK
  <2> QED BY <1>1, <2>1 DEF LoadLock, DeltaExact
<1>2. CASE Walk
  BY <1>2, WalkStep DEF DeltaInv, Walk, DeltaExact
<1>3. CASE WalkEnd
  BY <1>3, WalkEndStep DEF DeltaInv, WalkEnd
<1>4. CASE pc' # "walk" /\ pc' # "marked"
  BY <1>4 DEF DeltaExact
<1>5. CASE UNCHANGED <<pc, delta>>
  BY <1>5 DEF delta, DeltaInv, Walked, DeltaExact, HasName, Elements
<1> QED BY <1>1, <1>2, <1>3, <1>4, <1>5 DEF Next, vars, Change, SaveOpen, SaveWrite, SaveFails, Delete, DeleteAll, LoadState, Install, InstallFails, LoadEnds, Return

\* PackageForEachDelta calls back for exactly the packages whose name is in one
\* list only (see DeltaExact), for all lists the two commands can produce.
THEOREM DeltaIsExact == Spec => []DeltaExact
<1>1. DeltaInv => DeltaExact
  BY DEF DeltaInv
<1> QED BY <1>1, DeltaInit, DeltaStep, PTL DEF Spec

-----------------------------------------------------------------------------

\* No name has two architectures.
OneArch == \A p, o \in Packages : p.name = o.name => p = o

Loading == {"compare", "walk", "marked", "restored"}

\* A file that can be decoded has what was installed when it was written; a
\* load has that list and, until it installs, that of the installed packages.
Faithful ==
  /\ \A f \in Files : content[f] # <<>> => Elements(content[f]) = snapshot[f]
  /\ pc \in Loading => Saved = content[file] /\ Saved # <<>>
  /\ pc \in Loading \ {"restored"} => Elements(Current) = installed

RestoreInv == DeltaInv /\ Faithful /\ LoadRestores

\* With one architecture per name FindPreferredPkg leaves nothing out.
LEMMA AllPreferred == ASSUME OneArch, NEW I \in SUBSET Packages PROVE GetState(I) = I
  BY PackageNames, SavedStateAssumption DEF OneArch, GetState, FindPreferredPkg, Versioned

\* Removing what was added and installing what was removed gives the saved list.
LEMMA DeltaRestores ==
  ASSUME OneArch, DeltaInv, pc = "marked", Elements(Current) = installed
  PROVE  (installed \ Added) \cup Removed = Elements(Saved)
<1>1. Elements(Saved) \subseteq Packages /\ Elements(Current) \subseteq Packages
  BY DEF DeltaInv, Lists, TypeOK, Elements
<1>2. \A p \in Packages : HasName(Saved, p) <=> p \in Elements(Saved)
  BY <1>1 DEF OneArch, HasName, Elements
<1>3. \A p \in Packages : HasName(Current, p) <=> p \in Elements(Current)
  BY <1>1 DEF OneArch, HasName, Elements
<1>4. /\ Added   = {p \in Elements(Current) : ~HasName(Saved, p)}
      /\ Removed = {p \in Elements(Saved) : ~HasName(Current, p)}
  BY DEF DeltaInv, DeltaExact
<1> QED BY <1>1, <1>2, <1>3, <1>4

\* Every step keeps what is saved and loaded faithful.
LEMMA RestoreStep ==
  ASSUME OneArch, ~MayRace
  PROVE  RestoreInv /\ [Next]_vars => RestoreInv'
<1> SUFFICES ASSUME RestoreInv, [Next]_vars PROVE Faithful' /\ LoadRestores'
  BY DeltaStep DEF RestoreInv
<1> USE DEF Faithful, LoadRestores, Loading
<1>0. TypeOK /\ Faithful /\ LoadRestores
  BY DEF RestoreInv, DeltaInv, Lists
<1>1. CASE Change
  BY <1>0, <1>1 DEF Change, Locked, delta
<1>2. ASSUME NEW f \in Files, SaveOpen(f) PROVE Faithful' /\ LoadRestores'
  BY <1>0, <1>2 DEF SaveOpen, TypeOK
<1>3. ASSUME NEW f \in Files, Delete(f) PROVE Faithful' /\ LoadRestores'
  BY <1>0, <1>3 DEF Delete
<1>4. CASE DeleteAll
  BY <1>0, <1>4 DEF DeleteAll
<1>5. CASE SaveFails
  BY <1>0, <1>5 DEF SaveFails
<1>6. CASE SaveWrite
  <2>1. PICK q \in Sorted(GetState(installed)) : content' = [content EXCEPT ![file] = q]
    BY <1>6 DEF SaveWrite
  <2>2. GetState(installed) = installed
    BY <1>0, AllPreferred DEF TypeOK
  <2>3. Elements(q) = installed
    BY <1>0, <2>1, <2>2, SortedLists DEF TypeOK
  <2>4. \A f \in Files : content'[f] # <<>> => Elements(content'[f]) = snapshot'[f]
    BY <1>0, <1>6, <2>1, <2>3 DEF SaveWrite, TypeOK
  <2> QED BY <1>6, <2>4 DEF SaveWrite
<1>7. ASSUME NEW f \in Files, LoadState(f) PROVE Faithful' /\ LoadRestores'
  <2>1. GetState(installed) = installed
    BY <1>0, AllPreferred DEF TypeOK
  <2>2. Elements(Current') = installed
    BY <1>0, <1>7, <2>1, SortedLists DEF LoadState, TypeOK
  <2> QED BY <1>0, <1>7, <2>2 DEF LoadState, Elements
<1>8. CASE LoadLock
  BY <1>0, <1>8 DEF LoadLock, Elements
<1>9. CASE Walk
  BY <1>0, <1>9 DEF Walk, Elements
<1>10. CASE WalkEnd
  BY <1>0, <1>10 DEF WalkEnd, Elements
<1>11. CASE Install
  <2>1. installed' = Elements(Saved)
    BY <1>0, <1>11, DeltaRestores DEF Install, RestoreInv
  <2>2. Elements(Saved) = snapshot[file]
    BY <1>0, <1>11 DEF Install, TypeOK
  <2> QED BY <1>0, <1>11, <2>1, <2>2 DEF Install, delta
<1>12. CASE InstallFails
  BY <1>0, <1>12 DEF InstallFails, Return
<1>13. CASE LoadEnds
  BY <1>0, <1>13 DEF LoadEnds, Return
<1>14. CASE UNCHANGED vars
  BY <1>0, <1>14 DEF vars, delta, Elements
<1> QED BY <1>1, <1>2, <1>3, <1>4, <1>5, <1>6, <1>7, <1>8, <1>9, <1>10, <1>11, <1>12, <1>13, <1>14 DEF Next

\* A load that succeeds leaves exactly the packages installed that were when the
\* state was saved (see LoadRestores), if no name has two architectures and
\* nobody installs or removes a package before the load has its lock.
THEOREM LoadIsFaithful == ASSUME OneArch, ~MayRace PROVE Spec => []LoadRestores
<1>1. Init => RestoreInv
  BY DeltaInit DEF Init, RestoreInv, Faithful, LoadRestores, Loading
<1>2. RestoreInv /\ [Next]_vars => RestoreInv'
  BY RestoreStep
<1>3. RestoreInv => LoadRestores
  BY DEF RestoreInv
<1> QED BY <1>1, <1>2, <1>3, PTL DEF Spec
=============================================================================
