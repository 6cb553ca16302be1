----------------------------- MODULE DpkgRules -----------------------------
(***************************************************************************)
(* What an installation promises, whatever the order apt chooses: dpkg's   *)
(* database goes from one state to the next in single steps, each of which *)
(* the rules of the archive allow. A package is unpacked over a system     *)
(* where its pre-dependencies are configured and nothing conflicts; it is  *)
(* configured where its dependencies are; an essential package is never    *)
(* taken away. It ends at the goal, or in an error that something outside  *)
(* apt caused, or untouched because no order was found. The database maps  *)
(* a package to [ver, st].                                                 *)
(***************************************************************************)
EXTENDS Naturals, Sequences, FiniteSets

CONSTANTS RPkgs, ROwner, RDepends, REssential

VARIABLES
  db,    \* dpkg's database
  db0,   \* the database when the run began
  goal,  \* package -> version to be installed in the end
  cause, \* what outside apt has gone wrong: "none", "script", "interrupt", "crash"
  over   \* "no", "success" or "error"

vars == <<db, db0, goal, cause, over>>

Gone == {"not-installed", "config-files"}
Present(d, v)    == d[ROwner[v]].ver = v /\ d[ROwner[v]].st \notin Gone
Configured(d, v) == d[ROwner[v]] = [ver |-> v, st |-> "installed"]

Elements(v) == {RDepends[v][i] : i \in DOMAIN RDepends[v]}
Targets(e)  == {e.vers[i] : i \in DOMAIN e.vers}

\* the or group an alternative belongs to is satisfied by one of its members
GroupMembers(e) ==
  {x \in Elements(e.ver) :
     LET lo == IF x.idx < e.idx THEN x.idx ELSE e.idx
         hi == IF x.idx < e.idx THEN e.idx ELSE x.idx
     IN \A i \in lo..(hi - 1) : RDepends[e.ver][i].or}

SatisfiedBy(e, good) == \E x \in GroupMembers(e) : Targets(x) \cap good # {}

\* no version present conflicts with v, in either direction
NoConflict(d, v, type) ==
  /\ \A e \in Elements(v) : e.type = type => \A w \in Targets(e) : ~Present(d, w)
  /\ \A q \in RPkgs : d[q].st \notin Gone /\ q # ROwner[v] =>
       \A e \in Elements(d[q].ver) : e.type = type => v \notin Targets(e)

MayUnpack(d, v) ==
  /\ \A e \in Elements(v) : e.type = "PreDepends" => SatisfiedBy(e, {w \in DOMAIN ROwner : Configured(d, w)})
  /\ NoConflict(d, v, "Conflicts")

\* a loop of dependencies is configured together: unpacked members of it do
MayConfigure(d, v, with) ==
  /\ \A e \in Elements(v) : e.type \in {"PreDepends", "Depends"} =>
       SatisfiedBy(e, {w \in DOMAIN ROwner : Configured(d, w) \/ (Present(d, w) /\ ROwner[w] \in with)})
  /\ NoConflict(d, v, "Breaks")

-----------------------------------------------------------------------------
(* The steps of the database *)

SetTo(p, v, s) == db' = [db EXCEPT ![p] = [ver |-> v, st |-> s]]

\* what the new version breaks is deconfigured with it
Unpack(v) ==
  /\ MayUnpack(db, v) /\ v = goal[ROwner[v]]
  /\ \E dec \in SUBSET {p \in RPkgs \ {ROwner[v]} : db[p].st = "installed"} :
       db' = [p \in RPkgs |-> IF p = ROwner[v] THEN [ver |-> v, st |-> "unpacked"]
                              ELSE IF p \in dec THEN [db[p] EXCEPT !.st = "unpacked"] ELSE db[p]]
  /\ UNCHANGED cause

\* unpacking or removing is interrupted: the old version is left half installed
HalfWay(p) == db[p].st \notin Gone /\ SetTo(p, db[p].ver, "half-installed") /\ cause' # "none"

Configure(p) ==
  /\ db[p].st \in {"unpacked", "half-configured"}
  /\ MayConfigure(db, db[p].ver, {q \in RPkgs : db[q].st \in {"unpacked", "half-configured"}})
  /\ \/ SetTo(p, db[p].ver, "installed") /\ UNCHANGED cause
     \/ SetTo(p, db[p].ver, "half-configured") /\ cause' # "none"

Remove(p) == p \notin REssential /\ (\E s \in Gone : SetTo(p, "none", s)) /\ UNCHANGED cause

Change == /\ over = "no"
          /\ \/ \E v \in DOMAIN ROwner : Unpack(v)
             \/ \E p \in RPkgs : HalfWay(p) \/ Configure(p) \/ Remove(p)
          /\ UNCHANGED <<db0, goal, over>>

Trouble == over = "no" /\ cause' # "none" /\ UNCHANGED <<db, db0, goal, over>>

Reached == \A p \in RPkgs : IF goal[p] = "none" THEN db[p].st \in Gone ELSE Configured(db, goal[p])

\* an error without a cause leaves everything as it was
End == /\ over = "no" /\ UNCHANGED <<db, db0, goal>>
       /\ \/ over' = "success" /\ (cause # "interrupt" => Reached) /\ UNCHANGED cause
          \/ over' = "error" /\ (cause' # "none" \/ db = db0)

\* the same goal once more
Again == over # "no" /\ over' = "no" /\ cause' = "none" /\ db0' = db /\ UNCHANGED <<db, goal>>

Step == Change \/ Trouble \/ End \/ Again

Rules == [][Step]_vars
=============================================================================
