------------------------------- MODULE DpkgPM -------------------------------
(***************************************************************************)
(* pkgDPkgPM (apt-pkg/deb/dpkgpm.cc): the operations of the package        *)
(* manager as calls of dpkg, with InstallPackages (private-install.cc)     *)
(* around it. dpkg is external: it does what a call asks for package by    *)
(* package, reports every state it passes on the status fd, and refuses    *)
(* what DpkgRules forbids. A maintainer script may fail, the user may      *)
(* press ^C, apt and dpkg may be killed; then the same command is given    *)
(* once more.                                                              *)
(***************************************************************************)
EXTENDS PackageManager

CONSTANTS
  Conffiles,  \* the packages whose removal leaves configuration files
  Systems,    \* the databases to start from: [db, goal]
  MaxFaults   \* bound: faults in a behaviour

VARIABLES
  db,       \* dpkg's database: package -> [ver, st]
  sel,      \* dpkg's selections: package -> "install", "deinstall", "purge"
  goal,     \* package -> the version the command wants
  purge,    \* APT::Get::Purge
  late,     \* packages whose archive is on the second medium
  order,    \* what the order list keeps: [st, imm, after]
  files,    \* packages with a file name
  List,     \* the operations left, [op, pkg]
  res,      \* pkgPackageManager::Res
  approved, \* approvedStates: [Remove, Purge] sets of packages
  current,  \* currentStates, the same
  ops,      \* PackageOps and PackageOpsDone: package -> [want, done]
  call,     \* the running dpkg: [op, todo, failed]
  error,    \* dpkg_error is set
  SigINTStop,
  phase,    \* "fetch", "plan", "go", "loop", "dpkg", "over"
  cause,    \* what outside apt has gone wrong
  faults,   \* faults so far
  refused   \* dpkg has refused an operation

pmvars == <<order, files, List, res, approved, current, ops, call, error>>
vars   == <<cache, db, sel, goal, purge, late, SigINTStop, phase, cause, faults, refused, pmvars>>

Rule == INSTANCE DpkgRules WITH RPkgs <- Pkgs, ROwner <- Owner, RDepends <- DependsOf, REssential <- Essential,
                                db0 <- cache.db, over <- CASE phase # "over" -> "no"
                                                           [] phase = "over" /\ (error \/ res = "Failed" \/ cause = "crash") -> "error"
                                                           [] OTHER -> "success"

Gone == {"not-installed", "config-files"}
Half == {"unpacked", "half-configured"}

\* PkgIterator::State()
StateOf(e) == CASE e.st \in Half -> "NeedsConfigure" [] e.st = "half-installed" -> "NeedsUnpack" [] OTHER -> "NeedsNothing"

\* the cache as it is built from the database when apt starts
ReadCache(d, g) ==
  [cur |-> [p \in Pkgs |-> d[p].ver], state |-> [p \in Pkgs |-> StateOf(d[p])], inst |-> g, reinst |-> {}, db |-> d]

NoStates == [Remove |-> {}, Purge |-> {}]
NoCall   == [op |-> "none", todo |-> <<>>, failed |-> FALSE]
Removal  == {"Remove", "Purge"}

Init ==
  /\ \E s \in Systems :
       /\ db = s.db /\ goal = s.goal /\ cache = ReadCache(s.db, s.goal)
       /\ late \in {{}} \cup {{p} : p \in {q \in Pkgs : s.goal[q] \notin {NoVer, s.db[q].ver}}}
       /\ purge \in {b \in BOOLEAN : b => \E p \in Pkgs : s.goal[p] = NoVer /\ s.db[p].ver # NoVer}
  /\ sel = [p \in Pkgs |-> "install"]
  /\ order = [st |-> [p \in Pkgs |-> "none"], imm |-> {}, after |-> {}]
  /\ files = {} /\ List = <<>> /\ res = "Incomplete" /\ approved = NoStates /\ current = NoStates
  /\ ops = [p \in Pkgs |-> [want |-> <<>>, done |-> 0]] /\ call = NoCall /\ error = FALSE
  /\ SigINTStop = FALSE /\ phase = "fetch" /\ cause = "none" /\ faults = 0 /\ refused = FALSE

-----------------------------------------------------------------------------
(* InstallPackages: fetch, order, run dpkg, and again after a media swap *)

Start(o) == [NewOrder(o.st, o.imm) EXCEPT !.after = o.after]

\* the archives of the second medium only come once the first round is over
FirstRound == \A p \in Pkgs : order.st[p] = "none"

Fetch ==
  /\ phase = "fetch"
  /\ \E got \in {GetArchives(Start([order EXCEPT !.imm = IF FirstRound THEN Immediates ELSE @]))} :
        /\ order' = [order EXCEPT !.imm = got.o.imm, !.after = got.o.after]
        /\ files' = IF FirstRound THEN got.fetch \ late ELSE got.fetch
  /\ phase' = "plan"
  /\ UNCHANGED <<cache, db, sel, goal, purge, late, SigINTStop, cause, faults, refused, List, res, approved, current, ops, call, error>>

\* DoInstallPreFork: nothing is done when no order is found
Plan ==
  /\ phase = "plan"
  /\ \E r \in {OrderInstall(Start(order), files)} :
       /\ res' = r.res
       /\ List' = IF purge THEN [i \in DOMAIN r.m.ops |->
                                   IF r.m.ops[i].op = "Remove" /\ Delete(r.m.ops[i].pkg) THEN [r.m.ops[i] EXCEPT !.op = "Purge"]
                                   ELSE r.m.ops[i]]
                  ELSE r.m.ops
       /\ order' = [st |-> r.m.st, imm |-> r.o.imm, after |-> r.o.after]
       /\ phase' = IF r.res = "Failed" THEN "over" ELSE "go"
  /\ UNCHANGED <<cache, db, sel, goal, purge, late, SigINTStop, cause, faults, refused, files, approved, current, ops, call, error>>

-----------------------------------------------------------------------------
(* Go *)

Item(op, p) == [op |-> op, pkg |-> p]
PkgsOf(list, oplist) == {list[i].pkg : i \in {j \in DOMAIN list : list[j].op \in oplist}}
Items(ps, op) == LET s == SelectSeq(PkgList, LAMBDA p : p \in ps) IN [i \in DOMAIN s |-> Item(op, s[i])]

\* every removal and configuration by name, for the hooks and the progress
ExpandPendingCalls(list) ==
  LET removes == Items({p \in Pkgs : Delete(p)} \ PkgsOf(list, Removal), IF purge THEN "Purge" ELSE "Remove")
      installs == SelectSeq(list, LAMBDA i : i.op = "Install" /\ i.pkg \notin PkgsOf(list, {"Configure"}))
      again   == Items({p \in Pkgs : cache.state[p] = "NeedsConfigure" /\ ~Delete(p)}
                       \ (PkgsOf(list, {"Configure"}) \cup PkgsOf(installs, {"Install"})), "Configure")
  IN list \o removes \o [i \in DOMAIN installs |-> Item("Configure", installs[i].pkg)] \o again

\* the states dpkg reports for an operation
DpkgStates(i) ==
  CASE i.op = "Install"   -> <<"half-installed", "unpacked">>
    [] i.op = "Configure" -> <<"half-configured", "installed">>
    [] i.op = "Remove"    -> <<"half-configured", "half-installed">>
    [] i.op = "Purge"     -> (IF cache.cur[i.pkg] # NoVer THEN <<"half-configured", "half-installed">> ELSE <<>>)
                             \o <<"config-files", "not-installed">>

\* a package that is only unpacked skips the first state of its removal
Skips(i) ==
  IF i.op \in Removal /\ cache.cur[i.pkg] # NoVer /\ cache.db[i.pkg].st \in {"unpacked", "half-installed"} THEN 1 ELSE 0

BuildPackagesProgressMap(o, list) ==
  FoldLeft(LAMBDA acc, i : [acc EXCEPT ![i.pkg] = [want |-> @.want \o DpkgStates(i), done |-> Skips(i)]], o, list)

\* dpkg has already done everything that was wanted of the package
AlreadyDone(p) == ops[p].want # <<>> /\ Len(ops[p].want) <= ops[p].done
StripAlreadyDone(s) == [Remove |-> {p \in s.Remove : ~AlreadyDone(p)}, Purge |-> {p \in s.Purge : ~AlreadyDone(p)}]

\* StateChanges::Save
Save(s, states, install) ==
  [p \in Pkgs |-> CASE p \in states.Remove -> "deinstall" [] p \in states.Purge -> "purge" [] p \in install -> "install" [] OTHER -> s[p]]

Pending(list, ap) ==
  LET removePending == (ap.Remove \cup ap.Purge) \ PkgsOf(list, Removal) # {}
      purgePending  == ap.Purge # {}
  IN (IF removePending \/ purgePending THEN <<Item("ConfigurePending", NoVer)>> ELSE <<>>)
     \o (IF removePending THEN <<Item("RemovePending", NoVer)>> ELSE <<>>)
     \o (IF purgePending THEN <<Item("PurgePending", NoVer)>> ELSE <<>>)
     \o <<Item("ConfigurePending", NoVer)>>

Go ==
  /\ phase = "go"
  /\ \E all \in {ExpandPendingCalls(List)} :
       /\ approved' = [Remove |-> PkgsOf(all, {"Remove"}) \ PkgsOf(all, {"Purge"}), Purge |-> PkgsOf(all, {"Purge"})]
       /\ ops' = BuildPackagesProgressMap(ops, all)
  /\ current' = [Remove |-> {p \in Pkgs : cache.cur[p] # NoVer /\ sel[p] = "deinstall"},
                 Purge  |-> {p \in Pkgs : cache.cur[p] # NoVer /\ sel[p] = "purge"}]
  /\ sel' = Save(sel, approved', current'.Remove \cup current'.Purge)
  /\ List' = List \o Pending(List, approved')
  /\ SigINTStop' = FALSE /\ error' = FALSE /\ phase' = "loop"
  /\ UNCHANGED <<cache, db, goal, purge, late, cause, faults, refused, order, files, res, call>>

\* the operations that go into one call
SameCall(a, b) == a.op = b.op \/ (a.op \in Removal /\ b.op \in Removal)
BatchLen ==
  CHOOSE n \in 1..Len(List) :
    /\ \A i \in 1..n : SameCall(List[1], List[i])
    /\ n = Len(List) \/ ~SameCall(List[1], List[n + 1])

\* packages that are not there are purged later
Named(batch) == SelectSeq(batch, LAMBDA i : ~(i.op = "Purge" /\ cache.cur[i.pkg] = NoVer))

Skippable ==
  \/ List[1].op = "RemovePending" /\ StripAlreadyDone(approved).Remove = {}
  \/ List[1].op = "PurgePending" /\ StripAlreadyDone(approved).Purge = {}
  \/ List[1].op \in Removal /\ Named(SubSeq(List, 1, BatchLen)) = <<>>

Loop == phase = "loop" /\ UNCHANGED <<cache, db, goal, purge, late, SigINTStop, cause, faults, refused, order, files, res, current, ops, error>>

Strip == approved' = [Remove |-> IF List[1].op = "RemovePending" THEN StripAlreadyDone(approved).Remove ELSE approved.Remove,
                      Purge  |-> IF List[1].op = "PurgePending" THEN StripAlreadyDone(approved).Purge ELSE approved.Purge]

SkipCall ==
  /\ Loop /\ List # <<>> /\ Skippable /\ Strip
  /\ List' = SubSeq(List, BatchLen + 1, Len(List))
  /\ UNCHANGED <<sel, call, phase>>

\* a removal by name has cleared the selection to purge: it is made again
StartCall ==
  /\ Loop /\ List # <<>> /\ ~Skippable /\ Strip
  /\ ~(SigINTStop /\ List[1].op \in Removal \cup {"Install"})
  /\ List' = SubSeq(List, BatchLen + 1, Len(List))
  /\ call' = [op |-> List[1].op, failed |-> FALSE,
              todo |-> LET n == Named(SubSeq(List, 1, BatchLen))
                       IN IF List[1].pkg = NoVer THEN <<>> ELSE [i \in DOMAIN n |-> n[i].pkg]]
  /\ sel' = IF List[1].op = "PurgePending" THEN Save(sel, [NoStates EXCEPT !.Purge = approved'.Purge], {}) ELSE sel
  /\ phase' = "dpkg"

\* ^C is looked at before dpkg is started, and only before unpacking and removing
Interrupted == SigINTStop /\ List # <<>> /\ List[1].op \in Removal \cup {"Install"} /\ ~Skippable

\* mutant: the approved removals stay selected
GoEndsSelected ==
  /\ phase = "loop" /\ (List = <<>> \/ Interrupted)
  /\ sel' = Save(sel, StripAlreadyDone(current), {})
  /\ phase' = IF error \/ res = "Completed" THEN "over" ELSE "fetch"
  /\ UNCHANGED <<cache, db, goal, purge, late, SigINTStop, cause, faults, refused, pmvars>>

\* after an error the approved removals that were not made are taken back, then the selections of before are restored
GoEnds ==
  /\ phase = "loop" /\ (List = <<>> \/ Interrupted)
  /\ LET left == StripAlreadyDone(approved)
         undone == IF error THEN Save(sel, NoStates, left.Remove \cup left.Purge) ELSE sel
     IN sel' = Save(undone, StripAlreadyDone(current), {})
  /\ phase' = IF error \/ res = "Completed" THEN "over" ELSE "fetch"
  /\ UNCHANGED <<cache, db, goal, purge, late, SigINTStop, cause, faults, refused, pmvars>>

-----------------------------------------------------------------------------
(* The status fd *)

\* a state that is the next one expected of the package counts as progress
ProcessDpkgStatusLine(e, state) ==
  IF e.done < Len(e.want) /\ e.want[e.done + 1] = state THEN [e EXCEPT !.done = @ + 1] ELSE e

Report(p, states) == ops' = [ops EXCEPT ![p] = FoldLeft(ProcessDpkgStatusLine, @, states)]

-----------------------------------------------------------------------------
(* dpkg (external) *)

Dpkg == /\ phase = "dpkg" /\ UNCHANGED <<cache, goal, purge, late, SigINTStop, phase, order, files, List, res, approved, current, error>>

Head1 == call.todo[1]
Next1 == call' = [call EXCEPT !.todo = Tail(@)]
SetDb(p, v, s) == db' = [db EXCEPT ![p] = [ver |-> v, st |-> s]]
Unfaulty == UNCHANGED <<cause, faults>>

\* whom the new version may push aside: removal is approved
InTheWay(v) ==
  {q \in Pkgs \ {Owner[v]} : /\ db[q].st \notin Gone /\ sel[q] # "install" /\ q \notin Essential
                             /\ \/ \E e \in ToSet(DependsOf[v]) : e.type = "Conflicts" /\ db[q].ver \in ToSet(e.vers)
                                \/ \E e \in ToSet(DependsOf[db[q].ver]) : e.type = "Conflicts" /\ v \in ToSet(e.vers)}

Broken(v) ==
  {q \in Pkgs \ {Owner[v]} : /\ db[q].st = "installed"
                             /\ \E e \in ToSet(DependsOf[v]) : e.type = "Breaks" /\ db[q].ver \in ToSet(e.vers)}

\* half of the packages are still on the other medium, or an earlier fault is to blame
Refused ==
  /\ cause' = IF cause = "none" /\ late # {} THEN "media" ELSE cause
  /\ refused' = (refused \/ cause' = "none")
  /\ UNCHANGED faults

Installing == Dpkg /\ call.op = "Install" /\ call.todo # <<>> /\ InTheWay(goal[Head1]) = {}

RemovalStates(p) ==
  (IF db[p].st \in {"installed", "half-configured"} THEN <<"half-configured">> ELSE <<>>)
  \o <<"half-installed", "config-files">> \o (IF p \in Conffiles THEN <<>> ELSE <<"not-installed">>)

Erase(p) == SetDb(p, NoVer, IF p \in Conffiles THEN "config-files" ELSE "not-installed") /\ Report(p, RemovalStates(p))

DpkgPushAside ==
  /\ Dpkg /\ call.op = "Install" /\ call.todo # <<>>
  /\ \E q \in InTheWay(goal[Head1]) : Erase(q)
  /\ UNCHANGED <<sel, call, refused>> /\ Unfaulty

DpkgUnpack ==
  /\ Installing /\ Rule!MayUnpack(db, goal[Head1]) /\ Next1
  /\ db' = [p \in Pkgs |-> IF p = Head1 THEN [ver |-> goal[p], st |-> "unpacked"]
                          ELSE IF p \in Broken(goal[Head1]) THEN [db[p] EXCEPT !.st = "unpacked"] ELSE db[p]]
  /\ Report(Head1, IF db[Head1].st \in {"installed", "half-configured"}
                   THEN <<"half-configured", "unpacked", "half-installed", "unpacked">> ELSE <<"half-installed", "unpacked">>)
  /\ sel' = [sel EXCEPT ![Head1] = "install"]
  /\ UNCHANGED refused /\ Unfaulty

DpkgRefusesUnpack ==
  /\ Installing /\ ~Rule!MayUnpack(db, goal[Head1])
  /\ call' = [call EXCEPT !.todo = Tail(@), !.failed = TRUE] /\ Refused
  /\ UNCHANGED <<db, sel, ops>>

\* named packages wait for each other; a loop is broken when nothing else is left
Queue == IF call.op = "ConfigurePending" THEN {p \in Pkgs : db[p].st \in Half} ELSE ToSet(call.todo)
Ready(p, with) == db[p].st \in Half /\ Rule!MayConfigure(db, db[p].ver, with)
Configuring == Dpkg /\ call.op \in {"Configure", "ConfigurePending"}
ReadyOnes == LET strict == {p \in Queue : Ready(p, {})}
             IN IF strict # {} THEN strict ELSE {p \in Queue : Ready(p, Queue)}

Drop(p) == SelectSeq(call.todo, LAMBDA q : q # p)

DpkgConfigure ==
  /\ Configuring
  /\ \E p \in ReadyOnes : SetDb(p, db[p].ver, "installed") /\ Report(p, <<"half-configured", "installed">>)
                          /\ call' = [call EXCEPT !.todo = Drop(p)]
  /\ UNCHANGED <<sel, refused>> /\ Unfaulty

\* nothing of what was named can be configured; a package that is configured already is complained about as well
DpkgRefusesConfigure ==
  /\ Configuring /\ call.op = "Configure" /\ call.todo # <<>> /\ ReadyOnes = {}
  /\ call' = [call EXCEPT !.todo = <<>>, !.failed = TRUE] /\ Refused
  /\ UNCHANGED <<db, sel, ops>>

DpkgRemove ==
  /\ Dpkg /\ call.op \in Removal /\ call.todo # <<>> /\ Next1
  /\ IF db[Head1].st \in Gone THEN UNCHANGED <<db, ops, sel>>
     ELSE Erase(Head1) /\ sel' = [sel EXCEPT ![Head1] = "deinstall"]
  /\ UNCHANGED refused /\ Unfaulty

Selected(q) == call.op = "RemovePending" /\ sel[q] # "install" /\ db[q].st \notin Gone
Purgeable(q) == call.op = "PurgePending" /\ sel[q] = "purge" /\ db[q].st # "not-installed"

DpkgPending ==
  /\ Dpkg
  /\ \E q \in Pkgs :
       \/ (Selected(q) \/ (Purgeable(q) /\ db[q].st # "config-files")) /\ Erase(q)
       \/ Purgeable(q) /\ db[q].st = "config-files" /\ SetDb(q, NoVer, "not-installed")
          /\ Report(q, <<"config-files", "not-installed">>)
  /\ UNCHANGED <<sel, call, refused>> /\ Unfaulty

\* a maintainer script fails: preinst, postinst, or postrm and prerm in a removal; dpkg goes on with the other archives
DpkgScriptFails ==
  /\ Dpkg /\ faults < MaxFaults /\ faults' = faults + 1 /\ cause' = "script"
  /\ \/ /\ Installing /\ Rule!MayUnpack(db, goal[Head1])
        /\ IF db[Head1].st \in Gone THEN UNCHANGED db ELSE SetDb(Head1, db[Head1].ver, "half-installed")
        /\ Report(Head1, <<"half-installed">>) /\ call' = [call EXCEPT !.todo = Tail(@), !.failed = TRUE]
     \/ /\ Configuring
        /\ \E p \in ReadyOnes : SetDb(p, db[p].ver, "half-configured") /\ Report(p, <<"half-configured">>)
        /\ call' = [call EXCEPT !.todo = <<>>, !.failed = TRUE, !.op = "none"]
     \/ /\ call.op \in Removal /\ call.todo # <<>> /\ db[Head1].st \notin Gone
        /\ \/ SetDb(Head1, db[Head1].ver, "half-installed") /\ Report(Head1, <<"half-configured", "half-installed">>)
           \/ UNCHANGED db /\ Report(Head1, <<"half-configured", db[Head1].st>>)
        /\ call' = [call EXCEPT !.todo = <<>>, !.failed = TRUE]
  /\ UNCHANGED <<sel, refused>>

\* nothing is left to do for this call
Exhausted ==
  /\ call.todo = <<>>
  /\ call.op = "ConfigurePending" => ReadyOnes = {}
  /\ ~\E q \in Pkgs : Selected(q) \/ Purgeable(q)

\* mutant: the exit code of dpkg is not looked at
DpkgExitsIgnored ==
  /\ phase = "dpkg" /\ Exhausted
  /\ call' = NoCall /\ phase' = "loop" /\ error' = FALSE
  /\ UNCHANGED <<cache, db, sel, goal, purge, late, SigINTStop, cause, faults, refused, order, files, List, res, approved, current, ops>>

\* waitpid; Dpkg::StopOnError. Packages that stay unconfigured after --configure --pending are an error as well
DpkgExits ==
  /\ phase = "dpkg" /\ Exhausted
  /\ LET bad == call.failed \/ (call.op = "ConfigurePending" /\ Queue # {})
     IN /\ error' = bad
        /\ List' = IF bad THEN <<>> ELSE List
        /\ IF bad /\ ~call.failed THEN Refused ELSE UNCHANGED <<cause, faults, refused>>
  /\ call' = NoCall /\ phase' = "loop"
  /\ UNCHANGED <<cache, db, sel, goal, purge, late, SigINTStop, order, files, res, approved, current, ops>>

-----------------------------------------------------------------------------
(* The user and the machine *)

SigINT ==
  /\ phase \in {"loop", "dpkg"} /\ ~SigINTStop /\ faults < MaxFaults
  /\ SigINTStop' = TRUE /\ cause' = "interrupt" /\ faults' = faults + 1
  /\ UNCHANGED <<cache, db, sel, goal, purge, late, phase, refused, pmvars>>

Crash ==
  /\ phase \in {"loop", "dpkg"} /\ faults < MaxFaults
  /\ cause' = "crash" /\ faults' = faults + 1 /\ phase' = "over"
  /\ UNCHANGED <<cache, db, sel, goal, purge, late, SigINTStop, refused, pmvars>>

\* the same command again, after anything but a success
Again ==
  /\ phase = "over" /\ cause # "none"
  /\ cache' = ReadCache(db, goal) /\ late' = {}
  /\ order' = [st |-> [p \in Pkgs |-> "none"], imm |-> {}, after |-> {}]
  /\ files' = {} /\ List' = <<>> /\ res' = "Incomplete" /\ approved' = NoStates /\ current' = NoStates
  /\ ops' = [p \in Pkgs |-> [want |-> <<>>, done |-> 0]] /\ call' = NoCall /\ error' = FALSE
  /\ SigINTStop' = FALSE /\ phase' = "fetch" /\ cause' = "none"
  /\ UNCHANGED <<db, sel, goal, purge, faults, refused>>

\* the command is over
Done == phase = "over" /\ cause = "none" /\ UNCHANGED vars

Next ==
  \/ Fetch \/ Plan \/ Go \/ SkipCall \/ StartCall \/ GoEnds
  \/ DpkgPushAside \/ DpkgUnpack \/ DpkgRefusesUnpack \/ DpkgConfigure \/ DpkgRefusesConfigure \/ DpkgRemove \/ DpkgPending
  \/ DpkgScriptFails \/ DpkgExits
  \/ SigINT \/ Crash \/ Again \/ Done

Spec == Init /\ [][Next]_vars

-----------------------------------------------------------------------------
(* Properties *)

\* The order OrderInstall and the Smart methods choose is one that dpkg accepts to the end: whatever consistent system
\* is changed into whatever other, no unpacking meets a conflict or an unconfigured pre-dependency and no configuration
\* an unmet dependency, unless a fault or a medium that is still missing got in between.
NeverRefused == ~refused

\* Refinement: every step of the run, with failing scripts, ^C, a crash at any point and the command given again, is a
\* step of DpkgRules: dpkg's database only changes as the archive's rules allow, essential packages are never removed,
\* and the run ends at the goal or in an error that has a cause outside apt.
FollowsTheRules == Rule!Rules

\* The selections to remove that Go() makes in dpkg's database in advance are all taken back for packages that are
\* still whole when it ends, in an error too: a later dpkg --pending does not remove them. Not so after ^C, where the
\* loop is left without an error (dpkgpm.cc:1880).
SelectionsRestored ==
  phase = "over" /\ cause \notin {"crash", "interrupt"} =>
    \A p \in Pkgs : db[p].st \notin Gone \cup {"half-installed"} => sel[p] = "install"

\* A command with --purge that succeeds leaves no configuration files of what it removed, although dpkg clears the
\* selection to purge when a package is removed by name.
Purged == phase = "over" /\ res = "Completed" /\ ~error /\ cause = "none" /\ purge =>
            \A p \in Pkgs : cache.cur[p] # NoVer /\ goal[p] = NoVer => db[p].st = "not-installed"

\* When a run without a change of media succeeds, dpkg has reported every state that the progress map of Go() expects.
AllReported ==
  phase = "over" /\ res = "Completed" /\ ~error /\ cause = "none" /\ late = {} =>
    \A p \in Pkgs : ops[p].done = Len(ops[p].want)

\* A run of Go() leaves nothing behind: no selection, no configuration file that
\* was to be purged, no state the user was not told of.
EndsClean == SelectionsRestored /\ Purged /\ AllReported
=============================================================================
