------------------------------ MODULE Solver3 ------------------------------
(***************************************************************************)
(* The solver of APT 3.0 (apt-pkg/solver3.cc): assignments, a trail with   *)
(* decision levels, a propagation queue and a heap of clauses still to be  *)
(* solved.  solver is the Solver object, its fields are its members.  The  *)
(* handlers are cut where the code looks at the next variable, clause or   *)
(* work item, so that the order of events is the order of the code.        *)
(***************************************************************************)
EXTENDS PackageCache

CONSTANTS
  Pin,           \* version -> pin priority
  Provides,      \* the package names some version provides
  MarkChoices,   \* package -> the marks the dependency cache may give it
  Requests,      \* the options: [IsUpgrade, AllowRemove, AllowInstall]
  MayTimeOut

-----------------------------------------------------------------------------
(* DependencySolver turns the package cache into clauses                   *)
(* reason -> solution | ... | solution; a variable is a package or a       *)
(* version.                                                                *)

Root   == "root"
NoDep  == [type |-> "none", alts |-> <<>>]
Vars   == Pkgs \cup Versions

CastPkg(x)   == IF x \in Pkgs THEN x ELSE ParentPkg(x)
Installed(x) == CurrentVer[CastPkg(x)] # NoVer

-----------------------------------------------------------------------------
(* The order of choices *)

\* a newer binary of the same source package is available elsewhere
ObsoletedByNewerSourceVersion(cand) ==
  \E v \in Versions : /\ ParentPkg(v) # ParentPkg(cand)
                      /\ Source[v].name = Source[cand].name /\ Source[v].ver > Source[cand].ver
                      /\ Pin[v] # 0 /\ Pin[v] >= Pin[cand]

\* c is the context of a translation: the options and the manual flags
Obsolete(c, p, AllowManual) ==
  /\ p \notin c.manual \/ AllowManual
  /\ \/ Candidate[p] = NoVer
     \/ ObsoletedByNewerSourceVersion(Candidate[p])
     \/ ToSet(VersionList[p]) \cap Downloadable = {}

\* versions of one package: the candidate in an upgrade, what is installed, the pin, the version
SamePkgRank(c, v) ==
  LET p == ParentPkg(v) IN
  <<First(c.IsUpgrade /\ v = Candidate[p]), First(v = CurrentVer[p]), 1000 - Pin[v],
    CHOOSE i \in DOMAIN VersionList[p] : VersionList[p][i] = v>>

\* different packages: obsolete ones last, installed ones first, the one asked for, essential ones, the name
PkgRank(c, target, p) ==
  <<First(~(c.IsUpgrade /\ Obsolete(c, p, FALSE))), First(Installed(p)), First(p = target), First(p \in Essential),
    CHOOSE i \in DOMAIN PkgList : PkgList[i] = p>>

CompareProviders(c, target, a, b) ==
  IF CastPkg(a) = CastPkg(b)
  THEN LexLess(SamePkgRank(c, a), SamePkgRank(c, b))
  ELSE LexLess(PkgRank(c, target, CastPkg(a)), PkgRank(c, target, CastPkg(b)))

Sorted(c, target, s) == StableSort(s, LAMBDA a, b : CompareProviders(c, target, a, b))

-----------------------------------------------------------------------------
(* Clauses *)

Group == [SatisfyNew |-> 1, Satisfy |-> 2, SatisfyObsolete |-> 3, SelectVersion |-> 4, UpgradeManual |-> 5,
          InstallManual |-> 6, SatisfySuggests |-> 8, UpgradeAuto |-> 9, KeepAuto |-> 10]

Clause(reason, group, solutions, optional, negative) ==
  [dep |-> NoDep, reason |-> reason, group |-> group, solutions |-> solutions, optional |-> optional,
   negative |-> negative, eager |-> ~optional]

ImportantToKeep(d) == IsImportantDep(d) \/ d.type \in {"Recommends", "Suggests"}

\* the package itself, if any version of it will do, or the versions that satisfy one alternative
AllTargets(c, d, alt) ==
  IF ~IsNegative(d) /\ alt.pkg \notin Provides /\ VersionList[alt.pkg] # <<>> /\ ToSet(VersionList[alt.pkg]) \subseteq alt.vers
  THEN <<alt.pkg>>
  ELSE Sorted(c, alt.pkg, SetToSeq(alt.vers))

Ignored(reason) == Clause(reason, Group.Satisfy, <<>>, TRUE, FALSE)

OnlyInstalled(cl) == [cl EXCEPT !.solutions = SelectSeq(@, Installed)]

\* what becomes of a Recommends or Suggests of an installed package
KeepSatisfied(c, d, pkg, cl) ==
  LET target    == Last(d.alts).pkg
      existing  == SelectSeq(DependsList[CurrentVer[pkg]], LAMBDA e : /\ ~IsCritical(e) /\ ImportantToKeep(e)
                                                                     /\ \E i \in DOMAIN e.alts : e.alts[i].pkg = target)
      important == IsImportantDep(d)
      satisfied == \E i \in DOMAIN cl.solutions : LET x == cl.solutions[i] IN Installed(x) /\ (x \in Pkgs \/ x = CurrentVer[CastPkg(x)])
      had       == existing # <<>>
      hadImportant == had /\ IsImportantDep(existing[1])
      hard      == [cl EXCEPT !.optional = FALSE, !.eager = TRUE]
  IN IF had /\ ~important /\ ImportantToKeep(d) /\ satisfied THEN [OnlyInstalled(cl) EXCEPT !.group = Group.SatisfySuggests]
     ELSE IF ~important \/ (hadImportant /\ ~satisfied) THEN Ignored(cl.reason)
     ELSE IF c.IsUpgrade /\ had /\ satisfied THEN hard
     ELSE IF /\ c.IsUpgrade /\ ~(c.AllowRemove /\ c.AllowInstall) /\ ~hadImportant
             /\ cl.reason \in Versions /\ cl.reason # CurrentVer[pkg] THEN hard
     ELSE IF had /\ satisfied THEN [OnlyInstalled(cl) EXCEPT !.eager = TRUE]
     ELSE cl

\* all alternatives together: obsolete solutions last, installed ones first
Solutions(c, d) ==
  LET rank(x) == <<First(~(c.IsUpgrade /\ Obsolete(c, CastPkg(x), FALSE))), First(Installed(x))>> IN
  StableSort(FlattenSeq([i \in DOMAIN d.alts |-> AllTargets(c, d, d.alts[i])]), LAMBDA a, b : LexLess(rank(a), rank(b)))

GroupOf(c, sols) ==
  IF \E x \in ToSet(sols) : Obsolete(c, CastPkg(x), TRUE) THEN Group.SatisfyObsolete
  ELSE IF \A x \in ToSet(sols) : ~Installed(x) THEN Group.SatisfyNew ELSE Group.Satisfy

OrClause(c, d, reason, sols) ==
  [Clause(reason, GroupOf(c, sols), sols, ~IsCritical(d), IsNegative(d)) EXCEPT !.dep = d]

Considered(c, d, pkg, cl) == IF cl.optional /\ Installed(pkg) THEN KeepSatisfied(c, d, pkg, cl) ELSE cl

TranslateOrGroup(c, d, reason) ==
  IF (~Installed(reason) /\ ~IsImportantDep(d)) \/ d.type = "Enhances" THEN Ignored(reason)
  ELSE Considered(c, d, CastPkg(reason), OrClause(c, d, reason, Solutions(c, d)))

\* dependencies on the same name become one clause
RegisterClause(cls, clause) ==
  LET plain(cl) == ~cl.negative /\ cl.dep # NoDep /\ Len(cl.dep.alts) = 1
      similar(e, cl) == plain(e) /\ e.dep.alts[1].pkg = cl.dep.alts[1].pkg /\ ToSet(e.solutions) \cap ToSet(cl.solutions) # {}
      restrict(e, cl) == [e EXCEPT !.solutions = SelectSeq(@, LAMBDA x : x \in ToSet(cl.solutions))]
      step(acc, e) ==
        IF ~similar(e, acc.clause) THEN [acc EXCEPT !.out = Append(@, e)]
        ELSE IF e.optional = acc.clause.optional THEN [acc EXCEPT !.out = Append(@, restrict(e, acc.clause)), !.merged = TRUE]
        ELSE IF acc.clause.optional THEN [acc EXCEPT !.out = Append(@, e), !.clause = restrict(acc.clause, e)]
        ELSE [acc EXCEPT !.out = Append(@, e)]
      all == FoldLeft(step, [out |-> <<>>, clause |-> clause, merged |-> FALSE], cls)
  IN IF ~plain(clause) THEN Append(cls, clause)
     ELSE IF all.merged THEN all.out ELSE Append(all.out, all.clause)

\* the dependencies all versions of a package have
CommonDependencies(p) ==
  IF VersionList[p] = <<>> THEN <<>>
  ELSE SelectSeq(DependsList[VersionList[p][1]], LAMBDA d : \A v \in ToSet(VersionList[p]) : d \in ToSet(DependsList[v]))

PkgClauses(c, p) ==
  LET select == Clause(p, Group.SelectVersion, Sorted(c, p, VersionList[p]), FALSE, FALSE)
      common == CommonDependencies(p)
  IN FoldLeft(RegisterClause, <<select>>, [i \in DOMAIN common |-> TranslateOrGroup(c, common[i], p)])

\* binaries of the same source version whose package is installed in another version
Siblings(v) ==
  IF v = CurrentVer[ParentPkg(v)] THEN {}
  ELSE {w \in Versions : /\ ParentPkg(w) # ParentPkg(v) /\ Installed(w) /\ CurrentVer[ParentPkg(w)] # w
                         /\ Source[w] = Source[v]}

VerClauses(c, v) ==
  LET p      == ParentPkg(v)
      own    == Clause(v, Group.SelectVersion, <<p>>, FALSE, FALSE)
      others == SelectSeq(VersionList[p], LAMBDA w : w # v)
      other  == [i \in DOMAIN others |-> Clause(v, Group.SelectVersion, <<others[i]>>, FALSE, TRUE)]
      sib    == SetToSeq(Siblings(v))
      up     == [i \in DOMAIN sib |-> [Clause(v, Group.SelectVersion, <<sib[i]>>, TRUE, FALSE) EXCEPT !.eager = TRUE]]
      shared == {cl.dep : cl \in ToSet(PkgClauses(c, p))}
      deps   == SelectSeq(DependsList[v], LAMBDA d : d \notin shared)
  IN FoldLeft(RegisterClause, <<own>> \o other \o up, [i \in DOMAIN deps |-> TranslateOrGroup(c, deps[i], v)])

Clauses(c, x) == IF x \in Pkgs THEN PkgClauses(c, x) ELSE VerClauses(c, x)

-----------------------------------------------------------------------------
(* The state of the search *)

VARIABLES
  mark,      \* the dependency cache: package -> [mode, auto, protect, hold]
  request,   \* the options
  phase,     \* where FromDepCache, Solve and ToDepCache are
  solver,    \* the Solver object
  manual,    \* the manual packages still to be assumed
  visiting,  \* the rest of watches(lit) in Propagate()
  plan       \* what ToDepCache marks: package -> version or NoVer

vars == <<mark, request, phase, solver, manual, visiting, plan>>

Lit(v, val)  == [var |-> v, val |-> val]
NoLit        == Lit(Root, "Undefined")
NoWork       == [clause |-> NoDep, level |-> 0, size |-> 0]
NoClause     == NoDep

ctx == [IsUpgrade |-> request.IsUpgrade, AllowRemove |-> request.AllowRemove, AllowInstall |-> request.AllowInstall,
        manual |-> {p \in Pkgs : Installed(p) /\ ~mark[p].auto /\ mark[p].mode # "delete"}]

-----------------------------------------------------------------------------
(* The members of Solver, on a state s of the object *)

decisionLevel(s) == Len(s.trailLim)

value(s, x) == IF x = Root THEN "True" ELSE s.assignment[x]

\* mutant: an assignment that contradicts the clause is overlooked
EnqueueOverlooks(s, v, val, why) ==
  IF s.assignment[v] # "Undefined" THEN s
  ELSE [s EXCEPT !.assignment[v] = val, !.level[v] = decisionLevel(s), !.reason[v] = why,
                 !.trail = Append(@, [assigned |-> v, work |-> NoWork]), !.propQ = Append(@, v)]

Enqueue(s, v, val, why) ==
  IF s.assignment[v] = val THEN s
  ELSE IF s.assignment[v] # "Undefined" THEN [s EXCEPT !.error = TRUE]
  ELSE [s EXCEPT !.assignment[v] = val, !.level[v] = decisionLevel(s), !.reason[v] = why,
                 !.trail = Append(@, [assigned |-> v, work |-> NoWork]), !.propQ = Append(@, v)]

\* one after the other, until one fails
EnqueueAll(s, xs, val, why) == FoldLeft(LAMBDA t, x : IF t.error THEN t ELSE Enqueue(t, x, val, why), s, xs)

Assume(s, v, why) == Enqueue([s EXCEPT !.trailLim = Append(@, Len(s.trail))], v, "True", why)

NotFalse(s, clause) == SelectSeq(clause.solutions, LAMBDA x : value(s, x) # "False")

AddWork(s, clause, level) ==
  IF clause.negative THEN EnqueueAll(s, clause.solutions, "False", clause)
  ELSE IF Len(clause.solutions) = 1 /\ ~clause.optional THEN Enqueue(s, clause.solutions[1], "True", clause)
  ELSE [s EXCEPT !.work = @ \cup {[clause |-> clause, level |-> level, size |-> Len(NotFalse(s, clause))]}]

\* Work::operator<: the first difference decides
Rank(w) ==
  LET unit == w.size < 2 IN
  <<First(~w.clause.optional /\ unit), First(w.clause.eager), w.clause.group, First(unit),
    IF w.size = 1 THEN 100 - Len(w.clause.solutions) ELSE 0>>

HeapFront(s) == {w \in s.work : \A b \in s.work : ~LexLess(Rank(b), Rank(w))}

\* the watches of a literal: clauses it activates, and clauses one solution of which it takes away
Watches(s, p) ==
  SelectSeq(s.clauses, LAMBDA cl : \/ p.val = "True" /\ (cl.reason = p.var \/ (cl.negative /\ p.var \in ToSet(cl.solutions)))
                                   \/ p.val = "False" /\ ~cl.negative /\ p.var \in ToSet(cl.solutions))

\* mutant: an optional clause without any open solution is a conflict
PropagateClauseStrict(s, clause, p) ==
  LET open    == NotFalse(s, clause)
      isReason == p = Lit(clause.reason, "True")
  IN IF clause.negative
     THEN IF isReason THEN EnqueueAll(s, clause.solutions, "False", clause) ELSE Enqueue(s, clause.reason, "False", clause)
     ELSE IF open = <<>> THEN Enqueue(s, clause.reason, "False", clause)
     ELSE IF value(s, clause.reason) # "True" THEN s
     ELSE IF ~clause.optional /\ Len(open) = 1 THEN Enqueue(s, open[1], "True", clause)
     ELSE IF isReason THEN AddWork(s, clause, decisionLevel(s)) ELSE s

\* Propagate(clause, p)
PropagateClause(s, clause, p) ==
  LET open    == NotFalse(s, clause)
      isReason == p = Lit(clause.reason, "True")
  IN IF clause.negative
     THEN IF isReason THEN EnqueueAll(s, clause.solutions, "False", clause) ELSE Enqueue(s, clause.reason, "False", clause)
     ELSE IF open = <<>> THEN IF clause.optional THEN s ELSE Enqueue(s, clause.reason, "False", clause)
     ELSE IF value(s, clause.reason) # "True" THEN s
     ELSE IF ~clause.optional /\ Len(open) = 1 THEN Enqueue(s, open[1], "True", clause)
     ELSE IF isReason THEN AddWork(s, clause, decisionLevel(s)) ELSE s

UndoOne(s) ==
  LET item == Last(s.trail)
      t    == IF item.assigned = Root THEN s
              ELSE [s EXCEPT !.assignment[item.assigned] = "Undefined", !.level[item.assigned] = 0,
                             !.reason[item.assigned] = NoClause]
      u    == IF item.work = NoWork THEN t ELSE AddWork(t, item.work.clause, item.work.level)
  IN [u EXCEPT !.trail = SubSeq(@, 1, Len(@) - 1)]

\* mutant: nothing is learnt from the conflict
PopForgets(s) ==
  LET start  == Last(s.trailLim)
      undone == FoldLeft(LAMBDA t, i : UndoOne(t), [s EXCEPT !.error = FALSE], [i \in 1..(Len(s.trail) - start) |-> i])
  IN [undone EXCEPT !.trailLim = SubSeq(@, 1, Len(@) - 1), !.work = {w \in @ : w.level < decisionLevel(s)}]

\* mutant: the work of the level below is dropped too
PopDropsBelow(s) ==
  LET start  == Last(s.trailLim)
      choice == s.trail[start + 1].assigned
      undone == FoldLeft(LAMBDA t, i : UndoOne(t), [s EXCEPT !.error = FALSE], [i \in 1..(Len(s.trail) - start) |-> i])
      back   == [undone EXCEPT !.trailLim = SubSeq(@, 1, Len(@) - 1), !.work = {w \in @ : w.level + 1 < decisionLevel(s)}]
  IN IF start = Len(s.trail) THEN [s EXCEPT !.trailLim = SubSeq(@, 1, Len(@) - 1), !.error = FALSE]
     ELSE IF choice = Root THEN back ELSE Enqueue(back, choice, "False", NoClause)

\* Pop at a level above 0: undo the level, drop the work it added, and reject its choice
Pop(s) ==
  LET start  == Last(s.trailLim)
      choice == s.trail[start + 1].assigned
      undone == FoldLeft(LAMBDA t, i : UndoOne(t), [s EXCEPT !.error = FALSE], [i \in 1..(Len(s.trail) - start) |-> i])
      back   == [undone EXCEPT !.trailLim = SubSeq(@, 1, Len(@) - 1),
                               !.work = {w \in @ : w.level < decisionLevel(s)}]
  IN IF start = Len(s.trail) THEN [s EXCEPT !.trailLim = SubSeq(@, 1, Len(@) - 1), !.error = FALSE]
     ELSE IF choice = Root THEN back ELSE Enqueue(back, choice, "False", NoClause)

\* what the solutions of new clauses lead to; what is False for good is left out
Reachable(s, new) ==
  FlattenSeq([i \in DOMAIN new |-> SelectSeq(new[i].solutions, LAMBDA x : value(s, x) # "False" \/ s.level[x] > 0)])

DiscoverNew(s, var, rest, new) ==
  [solver |-> [s EXCEPT !.discovered = @ \cup {var}, !.clauses = @ \o new], queue |-> rest \o Reachable(s, new)]

DiscoverOne(s, var, rest) ==
  IF var \in s.discovered THEN [solver |-> s, queue |-> rest] ELSE DiscoverNew(s, var, rest, Clauses(ctx, var))

\* the clauses of var and of all it may need, breadth first, a package before its versions
RECURSIVE DiscoverQ(_)
DiscoverQ(d) ==
  IF d.queue = <<>> THEN d.solver
  ELSE LET head == Head(d.queue) IN
       DiscoverQ(DiscoverOne(d.solver, IF head \in Versions /\ ParentPkg(head) \notin d.solver.discovered
                                       THEN ParentPkg(head) ELSE head, Tail(d.queue)))

Discover(s, var) == DiscoverQ([solver |-> s, queue |-> <<var>>])

-----------------------------------------------------------------------------
(* FromDepCache *)

EmptySolver ==
  [assignment |-> [x \in Vars |-> "Undefined"], level |-> [x \in Vars |-> 0], reason |-> [x \in Vars |-> NoClause],
   discovered |-> {}, clauses |-> <<>>, work |-> {}, trail |-> <<>>, trailLim |-> <<>>, propQ |-> <<>>, error |-> FALSE]

\* strict pinning: only what is installed and the candidate
Forbidden == SelectSeq(FlattenSeq([i \in DOMAIN PkgList |-> VersionList[PkgList[i]]]),
                       LAMBDA v : v \notin {CurrentVer[ParentPkg(v)], Candidate[ParentPkg(v)]})

Wanted(p)    == mark[p].mode = "install" \/ (mark[p].mode = "keep" /\ Installed(p))
IsOptional(p) == request.AllowRemove /\ p \notin Essential /\ ~mark[p].protect

\* the requests for one package (AllowRemoveManual follows AllowRemove, KeepAuto is set: solver 3.0)
ApplyRequest(s, p) ==
  LET m       == mark[p]
      upgrade == Candidate[p] # CurrentVer[p]
      group   == IF m.auto THEN IF upgrade THEN Group.UpgradeAuto ELSE Group.KeepAuto
                 ELSE IF upgrade THEN Group.UpgradeManual ELSE Group.InstallManual
      one     == Clause(Root, group, <<p>>, TRUE, FALSE)
      short   == Clause(Root, group, Sorted(ctx, p, VersionList[p]), TRUE, FALSE)
      worked  == AddWork(AddWork([s EXCEPT !.clauses = @ \o <<one, short>>], one, 0), short, 0)
      essential == Clause(Root, Group.InstallManual, <<p>>, FALSE, FALSE)
  IN IF s.error \/ VersionList[p] = <<>> THEN s
     ELSE IF m.hold /\ ~m.protect
          THEN IF Installed(p) THEN Enqueue(s, CurrentVer[p], "True", NoClause) ELSE Enqueue(s, p, "False", NoClause)
     ELSE IF m.mode = "delete" \/ (~Installed(p) /\ m.mode = "keep" /\ (m.protect \/ ~request.AllowInstall))
          THEN Enqueue(s, p, "False", NoClause)
     ELSE IF Wanted(p)
          THEN IF ~IsOptional(p) THEN Enqueue(s, IF m.mode = "keep" THEN p ELSE Candidate[p], "True", NoClause)
               ELSE IF Len(VersionList[p]) > 1 THEN Discover(worked, p) ELSE worked
     ELSE IF request.IsUpgrade /\ request.AllowRemove /\ request.AllowInstall /\ p \in Essential
          THEN AddWork([s EXCEPT !.clauses = Append(@, essential)], essential, 0)
     ELSE s

ManualPackages ==
  Sorted(ctx, NoVer, SelectSeq(PkgList, LAMBDA p : /\ Wanted(p) /\ IsOptional(p) /\ ~mark[p].auto /\ VersionList[p] # <<>>
                                                   /\ ~mark[p].hold))

FromDepCache ==
  /\ phase = "from"
  /\ solver' = FoldLeft(ApplyRequest, EnqueueAll(solver, Forbidden, "False", NoClause), PkgList)
  /\ phase' = IF solver'.error THEN "false" ELSE "facts"
  /\ manual' = ManualPackages
  /\ UNCHANGED <<mark, request, visiting, plan>>

\* the facts lead to a conflict
FactsFail ==
  /\ phase = "facts" /\ solver.error
  /\ phase' = "false"
  /\ UNCHANGED <<mark, request, solver, manual, visiting, plan>>

Propagated == ~solver.error /\ solver.propQ = <<>> /\ visiting.todo = <<>>

FactsDone ==
  /\ phase = "facts" /\ Propagated
  /\ phase' = "assume"
  /\ UNCHANGED <<mark, request, solver, manual, visiting, plan>>

\* Assume the next manual package; what Pop enqueued before is not propagated yet
AssumeManual ==
  /\ phase = "assume" /\ manual # <<>>
  /\ solver' = Assume(solver, Head(manual), NoClause)
  /\ manual' = Tail(manual) /\ phase' = "manual"
  /\ UNCHANGED <<mark, request, visiting, plan>>

ManualHolds ==
  /\ phase = "manual" /\ Propagated
  /\ phase' = "assume"
  /\ UNCHANGED <<mark, request, solver, manual, visiting, plan>>

NoVisit == [lit |-> NoLit, todo |-> <<>>]

ManualFails ==
  /\ phase = "manual" /\ solver.error
  /\ solver' = Pop(solver) /\ visiting' = NoVisit
  /\ phase' = "assume"
  /\ UNCHANGED <<mark, request, manual, plan>>

ManualDone ==
  /\ phase = "assume" /\ manual = <<>>
  /\ phase' = "solve"
  /\ UNCHANGED <<mark, request, solver, manual, visiting, plan>>

-----------------------------------------------------------------------------
(* Propagate() *)

Propagating == phase \in {"facts", "manual", "solve"} /\ ~solver.error

Dequeue ==
  /\ Propagating /\ visiting.todo = <<>> /\ solver.propQ # <<>>
  /\ LET v == Head(solver.propQ)
         p == Lit(v, value(solver, v))
         s == [solver EXCEPT !.propQ = Tail(@)]
         t == IF p.val = "True" THEN Discover(s, v) ELSE s
     IN IF p.val = "Undefined"
        THEN solver' = s /\ visiting' = NoVisit
        ELSE solver' = t /\ visiting' = [lit |-> p, todo |-> Watches(t, p)]
  /\ UNCHANGED <<mark, request, phase, manual, plan>>

Visit ==
  /\ Propagating /\ visiting.todo # <<>>
  /\ solver' = PropagateClause(solver, Head(visiting.todo), visiting.lit)
  /\ visiting' = [visiting EXCEPT !.todo = Tail(@)]
  /\ UNCHANGED <<mark, request, phase, manual, plan>>

-----------------------------------------------------------------------------
(* Solve *)

Backtrack ==
  /\ phase = "solve" /\ solver.error /\ decisionLevel(solver) > 0
  /\ solver' = Pop(solver) /\ visiting' = NoVisit
  /\ UNCHANGED <<mark, request, phase, manual, plan>>

GiveUp ==
  /\ phase = "solve" /\ solver.error
  /\ \/ decisionLevel(solver) = 0 /\ phase' = "false"
     \/ decisionLevel(solver) > 0 /\ MayTimeOut /\ phase' = "timeout"
  /\ UNCHANGED <<mark, request, solver, manual, visiting, plan>>

\* the next work item: already solved, or its first open choice is tried, or nothing is left to try
Pick ==
  /\ phase = "solve" /\ Propagated
  /\ \E w \in HeapFront(solver) :
       LET s     == [solver EXCEPT !.work = @ \ {w}]
           sols  == w.clause.solutions
           undecided == SelectSeq(sols, LAMBDA x : value(s, x) = "Undefined")
           t     == IF (\E x \in ToSet(sols) : value(s, x) = "True") \/ undecided = <<>> THEN s
                    ELSE Assume(s, undecided[1], w.clause)
       IN solver' = [t EXCEPT !.trail = Append(@, [assigned |-> Root, work |-> w])]
  /\ UNCHANGED <<mark, request, phase, manual, visiting, plan>>

Solved ==
  /\ phase = "solve" /\ Propagated /\ solver.work = {}
  /\ phase' = "true"
  /\ UNCHANGED <<mark, request, solver, manual, visiting, plan>>

-----------------------------------------------------------------------------
(* ToDepCache *)

Selected(p) ==
  LET chosen == SelectSeq(VersionList[p], LAMBDA v : value(solver, v) = "True")
  IN IF value(solver, p) = "True" /\ chosen # <<>> THEN chosen[1] ELSE NoVer

\* the automatic flags: a new package someone needs is automatic, oldlibs hand their manual bit on
MoveAuto(acc, p) ==
  LET v      == Selected(p)
      why    == IF solver.reason[v] # NoClause /\ solver.reason[v].reason = p THEN solver.reason[p] ELSE solver.reason[v]
      caused == why # NoClause /\ why.reason # Root
      new    == {q \in Pkgs : /\ q # p /\ ~Installed(q)
                              /\ \E cl \in ToSet(Clauses(ctx, v)) : \E x \in ToSet(cl.solutions) : CastPkg(x) = q}
  IN IF v \in {NoVer, CurrentVer[p]} THEN acc
     ELSE IF ~Installed(p) THEN [acc EXCEPT !.auto[p] = (caused \/ @) /\ p \notin acc.moved]
     ELSE IF ~acc.auto[p] /\ CurrentVer[p] \notin OldLibs /\ v \in OldLibs /\ new # {}
          THEN [acc EXCEPT !.auto = [q \in Pkgs |-> IF q = p THEN TRUE ELSE IF q \in new THEN FALSE ELSE @[q]],
                           !.moved = @ \cup new]
     ELSE acc

ToDepCache ==
  /\ phase = "true"
  /\ LET acc == FoldLeft(MoveAuto, [auto |-> [p \in Pkgs |-> mark[p].auto], moved |-> {}], PkgList) IN
     mark' = [p \in Pkgs |-> [mark[p] EXCEPT !.auto = acc.auto[p]]]
  /\ plan' = [p \in Pkgs |-> Selected(p)]
  /\ phase' = "written"
  /\ UNCHANGED <<request, solver, manual, visiting>>

Over ==
  /\ phase \in {"written", "false", "timeout"}
  /\ UNCHANGED vars

-----------------------------------------------------------------------------
Init ==
  /\ mark \in {m \in [Pkgs -> UNION {MarkChoices[p] : p \in Pkgs}] : \A p \in Pkgs : m[p] \in MarkChoices[p]}
  /\ request \in Requests
  /\ phase = "from" /\ solver = EmptySolver /\ manual = <<>> /\ visiting = NoVisit
  /\ plan = [p \in Pkgs |-> CurrentVer[p]]

Next ==
  \/ FromDepCache \/ FactsFail \/ FactsDone \/ AssumeManual \/ ManualHolds \/ ManualFails \/ ManualDone
  \/ Dequeue \/ Visit \/ Backtrack \/ GiveUp \/ Pick \/ Solved \/ ToDepCache \/ Over

Spec == Init /\ [][Next]_vars

\* the solver is not interrupted: weak fairness of Next, with what enables it written out
Final    == phase \in {"written", "false", "timeout"}
FairSpec == Spec /\ ([]<>Final \/ []<><<Next>>_vars)

-----------------------------------------------------------------------------
(* Properties *)

\* A selection of versions, and what every answer must satisfy: critical
\* dependencies and conflicts of all that is installed, and the hard requests.
Satisfies(sel, v) ==
  \A d \in ToSet(DependsList[v]) :
    LET met == \E alt \in ToSet(d.alts) : \E p \in Pkgs : sel[p] \in alt.vers
    IN CASE d.type = "Depends" -> met [] d.type = "Conflicts" -> ~met [] OTHER -> TRUE

Allowed(sel, p) ==
  LET m == mark[p] IN
  /\ sel[p] \in {NoVer, CurrentVer[p], Candidate[p]}
  /\ m.hold /\ ~m.protect => sel[p] = CurrentVer[p]
  /\ m.mode = "delete" /\ (m.protect \/ ~m.hold) => sel[p] = NoVer
  /\ m.mode = "install" /\ ~IsOptional(p) /\ (m.protect \/ ~m.hold) => sel[p] = Candidate[p]
  /\ Wanted(p) /\ ~IsOptional(p) => sel[p] # NoVer
  /\ ~Installed(p) /\ m.mode = "keep" /\ (m.protect \/ ~request.AllowInstall) => sel[p] = NoVer
  /\ p \in Essential /\ VersionList[p] # <<>> /\ request = [IsUpgrade |-> TRUE, AllowRemove |-> TRUE, AllowInstall |-> TRUE]
       => sel[p] # NoVer \/ m.mode = "delete" \/ m.protect \/ m.hold

Consistent(sel) == \A p \in Pkgs : Allowed(sel, p) /\ (sel[p] # NoVer => Satisfies(sel, sel[p]))

\* When Solve() succeeds and ToDepCache wrote its answer, every selected version
\* has its dependencies, conflicts with nothing, and no hard request is ignored.
SolutionSound == phase = "written" => Consistent(plan)

\* an upgrade must also keep a Recommends that was satisfied
KeepsPromoted(sel) ==
  \A p \in Pkgs : sel[p] # NoVer =>
    \A cl \in ToSet(PkgClauses(ctx, p)) \cup ToSet(VerClauses(ctx, sel[p])) :
      cl.dep.type = "Recommends" /\ ~cl.optional => \E x \in ToSet(cl.solutions) : sel[CastPkg(x)] \in {x} \cup (IF x \in Pkgs THEN Versions ELSE {})

\* FromDepCache and Solve() fail only if no selection at all is possible.
FailsOnlyIfUnsolvable ==
  phase = "false" =>
    ~\E chosen \in SUBSET Versions :
       /\ \A v, w \in chosen : ParentPkg(v) = ParentPkg(w) => v = w
       /\ LET sel == [p \in Pkgs |-> IF chosen \cap ToSet(VersionList[p]) = {} THEN NoVer ELSE CHOOSE v \in chosen : ParentPkg(v) = p]
          IN Consistent(sel) /\ KeepsPromoted(sel)

\* The trail is exactly the assignment: each assigned variable is on it once, at
\* the level at which it was assigned, so that Pop() restores what was before.
TrailExact ==
  LET tr == solver.trail IN
  /\ \A x \in Vars : Cardinality({i \in DOMAIN tr : tr[i].assigned = x}) = IF solver.assignment[x] = "Undefined" THEN 0 ELSE 1
  /\ \A i \in DOMAIN tr : tr[i].assigned # Root =>
       solver.level[tr[i].assigned] = Cardinality({k \in DOMAIN solver.trailLim : solver.trailLim[k] < i})

\* No clause is forgotten: one that is active and has no solution yet is on the
\* heap ("the work can always be recalculated from the state").
WorkComplete ==
  phase = "solve" /\ Propagated =>
    \A cl \in ToSet(solver.clauses) :
      (~cl.negative /\ value(solver, cl.reason) = "True"
         /\ (cl.optional => NotFalse(solver, cl) # <<>>)
         /\ \A x \in ToSet(cl.solutions) : value(solver, x) # "True")
      => \E w \in solver.work : w.clause = cl

\* The search keeps its books: Pop() can undo exactly what was assigned, and no
\* clause is forgotten.
SearchExact == TrailExact /\ WorkComplete

\* Solve() comes to an end.
SolveEnds == <>Final
=============================================================================
