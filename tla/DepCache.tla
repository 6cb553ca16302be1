------------------------------ MODULE DepCache ------------------------------
(***************************************************************************)
(* The dependency cache (apt-pkg/depcache.cc, pkgDepCache): for every      *)
(* package what is planned for it, for every dependency whether it is      *)
(* satisfied now, after the plan and by the candidates, and counters over  *)
(* all packages.  All of it is updated step by step as packages are        *)
(* marked.  s is the state of the cache; an operation maps a state to the  *)
(* next one and leaves its return value in s.ok.                           *)
(***************************************************************************)
EXTENDS PackageCache

CONSTANTS
  ProvidesOf,      \* version or NoVer -> the names it provides (ProvidesList)
  Size,            \* version -> its size
  NeverMarkAuto    \* the versions in APT::Never-MarkAuto-Sections

\* an alternative of a dependency is named by version, dependency and position
Keys     == UNION {UNION {{<<v, i, j>> : j \in DOMAIN DependsList[v][i].alts} : i \in DOMAIN DependsList[v]} : v \in Versions}
DepOf(k) == DependsList[k[1]][k[2]]
AltOf(k) == DepOf(k).alts[k[3]]

RevDepends    == [n \in Pkgs |-> {k \in Keys : AltOf(k).pkg = n}]
InOrder(ps)   == SelectSeq(PkgList, LAMBDA p : p \in ps)
Id(p)         == CHOOSE i \in DOMAIN PkgList : PkgList[i] = p
CompareVer(v, w) ==
  LET at(x) == CHOOSE i \in DOMAIN VersionList[Owner[v]] : VersionList[Owner[v]][i] = x
  IN IF v = w THEN 0 ELSE IF at(v) < at(w) THEN 1 ELSE -1

ASSUME ProvidesAssumption ==
  /\ ProvidesOf[NoVer] = {}
  /\ \A k \in Keys : \A v \in AltOf(k).vers : Owner[v] = AltOf(k).pkg \/ AltOf(k).pkg \in ProvidesOf[v]

Yes(s) == [s EXCEPT !.ok = TRUE]
No(s)  == [s EXCEPT !.ok = FALSE]
Put(s, p, new) == [s EXCEPT !.st[p] = new]

-----------------------------------------------------------------------------
(* StateCache *)

\* 1 newer, 0 the same, -1 older, 2 not installed or no candidate
StatusOf(cur, cand) == IF NoVer \in {cur, cand} THEN 2 ELSE CompareVer(cand, cur)

Install(s, p)    == s.st[p].mode = "install"
NewInstall(s, p) == s.st[p].mode = "install" /\ s.st[p].status = 2
Upgrade(s, p)    == s.st[p].mode = "install" /\ s.st[p].status > 0
Upgradable(s, p) == s.st[p].status >= 1 /\ s.st[p].cand # NoVer
InstBroken(s, p) == "Min" \notin s.st[p].instOk
InstPolicyBroken(s, p) == "Policy" \notin s.st[p].instOk
NowBroken(s, p)  == "Min" \notin s.st[p].nowOk
NowPolicyBroken(s, p) == "Policy" \notin s.st[p].nowOk

\* the counters a package is in (AddStates) and what it adds to the sizes (AddSizes)
Counters == {"inst", "upg", "del", "keep", "broken", "policy"}

StatesOf(st, installed) ==
  {c \in Counters :
     CASE c = "inst"   -> (st.mode = "install" /\ (installed => st.status # 0)) \/ (installed /\ st.status = 0 /\ st.mode # "delete" /\ st.reinst)
       [] c = "upg"    -> installed /\ st.status > 0 /\ st.mode = "install"
       [] c = "del"    -> installed /\ st.mode = "delete"
       [] c = "keep"   -> installed /\ st.status # 0 /\ st.mode = "keep"
       [] c = "broken" -> "Min" \notin st.instOk
       [] c = "policy" -> "Policy" \notin st.instOk}

SizesOf(st, cur) ==
  IF st.mode = "install" /\ st.status = 2 THEN [usr |-> Size[st.inst], dl |-> Size[st.inst]]
  ELSE IF cur # NoVer /\ (st.inst # cur \/ st.reinst) /\ st.inst # NoVer THEN [usr |-> Size[st.inst] - Size[cur], dl |-> Size[st.inst]]
  ELSE IF cur # NoVer /\ st.inst = NoVer THEN [usr |-> -Size[cur], dl |-> 0]
  ELSE [usr |-> 0, dl |-> 0]

Swap(n, old, new) == [c \in DOMAIN n |-> n[c] - old[c] + new[c]]
SwapIn(n, old, new) == [c \in Counters |-> n[c] - (IF c \in old THEN 1 ELSE 0) + (IF c \in new THEN 1 ELSE 0)]

-----------------------------------------------------------------------------
(* The state of dependencies *)

VersionFor(s, p, use) == CASE use = "Now" -> s.cur[p] [] use = "Install" -> s.st[p].inst [] use = "CVer" -> s.st[p].cand

CheckDep(s, alt, use) == \E v \in alt.vers : VersionFor(s, Owner[v], use) = v

DependencyState(s, alt) == [use \in {"Now", "Install", "CVer"} |-> CheckDep(s, alt, use)]

\* the whole or group, inverted for Conflicts and Breaks
GroupState(s, v, i, use) ==
  LET some == \E j \in DOMAIN DependsList[v][i].alts : s.ds[<<v, i, j>>][use]
  IN some # IsNegative(DependsList[v][i])

StateWithout(v, broken) ==
  IF \E i \in broken : IsCritical(DependsList[v][i]) THEN {}
  ELSE IF \E i \in broken : IsImportantDep(DependsList[v][i]) THEN {"Min"} ELSE {"Min", "Policy"}

VersionState(s, v, use) ==
  IF v = NoVer THEN {"Min", "Policy"} ELSE StateWithout(v, {i \in DOMAIN DependsList[v] : ~GroupState(s, v, i, use)})

UpdateVerState(s, p) ==
  Put(s, p, [s.st[p] EXCEPT !.nowOk = VersionState(s, s.cur[p], "Now"), !.instOk = VersionState(s, s.st[p].inst, "Install")])

\* RemoveStates of p before the change from s to t, AddStates after it; the same for the sizes
Recount(s, t, p) == [t EXCEPT !.count = SwapIn(@, StatesOf(s.st[p], s.cur[p] # NoVer), StatesOf(t.st[p], s.cur[p] # NoVer))]
Resize(s, t, p)  == [t EXCEPT !.size = Swap(@, SizesOf(s.st[p], s.cur[p]), SizesOf(t.st[p], s.cur[p]))]

Refresh(s, p) == Recount(s, UpdateVerState(s, p), p)

\* Update(OrigDep) for the dependencies ks, and the packages concerned
UpdateDeps(s, ks, p) ==
  FoldLeft(Refresh, [s EXCEPT !.ds = [k \in Keys |-> IF k \in ks THEN DependencyState(s, AltOf(k)) ELSE @[k]]],
           InOrder({p} \cup {Owner[k[1]] : k \in ks}))

\* mutant: the provides of the package are not looked at
UpdateOnlyNamed(s, p) == UpdateDeps(s, RevDepends[p], p)

\* Update(Pkg): the package, what depends on it and on what its current and candidate versions provide
Update(s, p) == UpdateDeps(s, {k \in Keys : AltOf(k).pkg = p \/ \E v \in {s.cur[p], s.st[p].cand} : AltOf(k).pkg \in ProvidesOf[v]}, p)

\* RemoveSizes, RemoveStates, the change, AddStates, Update, AddSizes
Restate(s, p, new) == Resize(s, Update(Recount(s, Put(s, p, new), p), p), p)

Recounted(s) ==
  [s EXCEPT !.count = [c \in Counters |-> Cardinality({p \in Pkgs : c \in StatesOf(s.st[p], s.cur[p] # NoVer)})],
            !.size  = FoldLeft(LAMBDA n, p : Swap(n, [usr |-> 0, dl |-> 0], SizesOf(s.st[p], s.cur[p])), [usr |-> 0, dl |-> 0], PkgList)]

PerformDependencyPass(s) ==
  Recounted(FoldLeft(UpdateVerState, [s EXCEPT !.ds = [k \in Keys |-> DependencyState(s, AltOf(k))]], PkgList))

InitCache(cur, hold, auto) ==
  LET new(p) == [cand |-> Candidate[p], inst |-> cur[p], mode |-> "keep", status |-> StatusOf(cur[p], Candidate[p]),
                 auto |-> p \in auto, protect |-> FALSE, reinst |-> FALSE, marked |-> FALSE, garbage |-> FALSE, nowOk |-> {}, instOk |-> {}]
  IN PerformDependencyPass([cur |-> cur, hold |-> hold, ok |-> TRUE, ds |-> <<>>, count |-> <<>>, size |-> <<>>,
                            st |-> FoldLeft(LAMBDA st, p : p :> new(p) @@ st, <<>>, PkgList)])

-----------------------------------------------------------------------------
(* Keep and delete *)

IsModeChangeOk(s, mode, p, FromUser) ==
  /\ VersionList[p] # <<>>
  /\ \/ FromUser
     \/ s.st[p].mode = mode
     \/ ~s.st[p].protect /\ (mode # "keep" => p \notin s.hold) /\ (mode = "delete" => p \notin Essential)

MarkKeep(s, p, FromUser) ==
  IF ~IsModeChangeOk(s, "keep", p, FromUser) THEN No(s)
  ELSE IF s.st[p].mode = "keep" THEN Yes(s)
  ELSE Yes(Restate(s, p, [s.st[p] EXCEPT !.mode = "keep", !.inst = s.cur[p]]))

MarkAuto(s, p, auto) == Put(s, p, [s.st[p] EXCEPT !.auto = auto])

\* a new package the user asked for is not dropped
IsDeleteOk(s, p, FromUser) ==
  FromUser \/ s.cur[p] # NoVer \/ s.st[p].inst = NoVer \/ s.st[p].status # 2 \/ s.st[p].auto

\* what a removed metapackage needs becomes manual
NeededByMeta(s, v) ==
  IF v \notin NeverMarkAuto THEN {}
  ELSE {p \in Pkgs : \E k \in Keys : k[1] = v /\ ~IsNegative(DepOf(k)) /\ IsImportantDep(DepOf(k)) /\ s.cur[p] \in AltOf(k).vers}

MarkAutoAll(s, ps, auto) == FoldLeft(LAMBDA t, p : MarkAuto(t, p, auto), s, InOrder(ps))

Deleted(s, p) == Restate(s, p, [s.st[p] EXCEPT !.mode = IF s.cur[p] = NoVer THEN "keep" ELSE "delete", !.inst = NoVer])

MarkDelete(s, p, FromUser) ==
  IF ~IsModeChangeOk(s, "delete", p, FromUser) THEN No(s)
  ELSE IF s.st[p].mode = "delete" \/ s.st[p].inst = NoVer THEN Yes(s)
  ELSE IF ~IsDeleteOk(s, p, FromUser) THEN No(s)
  ELSE Yes(Deleted(MarkAutoAll(s, IF FromUser THEN {} ELSE NeededByMeta(s, s.st[p].inst), FALSE), p))

MarkProtected(s, p) == Put(s, p, [s.st[p] EXCEPT !.protect = TRUE])

ReSum(s, t, p) == Recount(s, Resize(s, t, p), p)

SetReInstall(s, p) == ReSum(s, Put(s, p, [s.st[p] EXCEPT !.reinst = TRUE]), p)

SetCandidateVersion(s, p, v) ==
  LET st == s.st[p]
  IN IF st.cand = v THEN s
     ELSE Restate(s, p, [st EXCEPT !.inst = IF st.cand = st.inst /\ st.mode = "install" THEN v ELSE @,
                                   !.cand = v, !.status = StatusOf(s.cur[p], v)])

-----------------------------------------------------------------------------
(* The parts of MarkInstall *)

StateChange(s, p, AutoInst, FromUser) ==
  LET st == s.st[p]
      auto == IF FromUser THEN st.auto /\ ~(st.status = 2 \/ (s.cur[p] # NoVer /\ (AutoInst \/ ~st.marked)))
              ELSE st.auto \/ st.status = 2
  IN IF st.protect /\ st.inst = st.cand THEN s
     ELSE Restate(s, p, [st EXCEPT !.mode = IF st.cand = s.cur[p] THEN "keep" ELSE "install", !.inst = st.cand, !.auto = auto])

DiscardCandidate(s, p) == Put(s, p, [s.st[p] EXCEPT !.cand = s.st[p].inst])

DiscardInstall(s, p) ==
  LET st == s.st[p] IN
  IF st.mode = "keep" /\ st.inst = st.cand /\ st.cand = s.cur[p] THEN s
  ELSE DiscardCandidate(Restate(s, p, [st EXCEPT !.inst = s.cur[p], !.mode = "keep"]), p)

\* the dependencies of version v to look after, in order
CollectDependencies(s, p, v) ==
  SelectSeq([i \in DOMAIN DependsList[v] |-> i],
            LAMBDA i : /\ IsImportantDep(DependsList[v][i])
                       /\ s.st[p].protect \/ ~GroupState(s, v, i, "Install"))

ProviderRank(s, target, p) ==
  <<First(s.st[p].protect), First(s.cur[p] # NoVer), First(p = target), First(p \in Essential), -Id(p)>>

\* FromDependency: the candidates or the installed versions that satisfy an alternative
FromDependency(s, k, use) ==
  IF use = "CVer" /\ ~s.ds[k].CVer THEN {} ELSE {v \in AltOf(k).vers : VersionFor(s, Owner[v], use) = v}

Ruled(s, p) == s.st[p].protect /\ (s.st[p].mode = "delete" \/ (s.st[p].mode = "keep" /\ s.cur[p] = NoVer))

SortedProviders(s, target, ps) ==
  StableSort(InOrder(ps), LAMBDA a, b : LexLess(ProviderRank(s, target, a), ProviderRank(s, target, b)))

InstalledFirst(s, ps) == SelectSeq(ps, LAMBDA p : s.cur[p] # NoVer) \o SelectSeq(ps, LAMBDA p : s.cur[p] = NoVer)

\* std::unique
Unique(ps) == FoldLeft(LAMBDA acc, p : IF acc # <<>> /\ acc[Len(acc)] = p THEN acc ELSE Append(acc, p), <<>>, ps)

AllPossibleSolutions(s, v, i, use) ==
  SelectSeq(Unique(InstalledFirst(s, FlattenSeq([j \in DOMAIN DependsList[v][i].alts |->
              SortedProviders(s, DependsList[v][i].alts[j].pkg, {Owner[w] : w \in FromDependency(s, <<v, i, j>>, use)})]))),
            LAMBDA p : IsNegative(DependsList[v][i]) \/ ~Ruled(s, p))

-----------------------------------------------------------------------------
(* The steps of MarkInstall with automatic installation.  c is what the    *)
(* function keeps in local variables: the cache s, the package p and its   *)
(* candidate v, the dependencies deps, the packages to remove at the end,  *)
(* to upgrade, those whose candidate does not help, and whether a step     *)
(* failed.                                                                 *)

Early(c)  == ~c.already /\ ~c.user          \* a failure ends the function
GiveUp(c) == c.failed /\ Early(c)

Protecting(s, p) == MarkProtected(DiscardCandidate(s, p), p)

Gone(c, p, t) == IF t.ok THEN [c EXCEPT !.s = Protecting(t, p)] ELSE [c EXCEPT !.s = t, !.failed = TRUE]

MarkDeleteForNotUpgradeable(c, p) ==
  IF c.already THEN Gone(c, p, IF c.s.st[p].mode = "delete" THEN Yes(c.s) ELSE MarkDelete(c.s, p, FALSE))
  ELSE IF c.s.st[p].mode = "delete" THEN c
  ELSE IF IsModeChangeOk(c.s, "delete", p, FALSE) /\ IsDeleteOk(c.s, p, FALSE) THEN [c EXCEPT !.delayed = Append(@, p)]
  ELSE [c EXCEPT !.failed = TRUE]

\* a candidate that conflicts is discarded
CandidateConflicts(c, p, t) ==
  IF ~t.ok THEN [c EXCEPT !.s = t, !.failed = TRUE]
  ELSE IF ~c.already THEN [c EXCEPT !.s = t, !.bad = @ \cup {p}]
  ELSE [c EXCEPT !.s = IF t.cur[p] = NoVer THEN Protecting(t, p) ELSE DiscardCandidate(t, p)]

\* one package that conflicts: by its candidate, then, installed ones, by their current version
OneConflict(c, p, use) ==
  LET st == c.s.st[p]
      installed == c.s.cur[p]
  IN IF GiveUp(c) \/ (use = "Now" /\ st.cand = installed) THEN c
     ELSE IF use = "CVer" /\ st.cand # installed
          THEN CandidateConflicts(c, p, IF st.mode = "install" THEN MarkKeep(c.s, p, FALSE) ELSE Yes(c.s))
     ELSE IF use = "Now" /\ st.cand # NoVer /\ p \notin c.bad THEN [c EXCEPT !.upgrade = Append(@, p)]
     ELSE MarkDeleteForNotUpgradeable(c, p)

\* the packages that conflict with dependency i, e = <<i, use>>
ConflictsOf(c, e) ==
  IF GiveUp(c) THEN c ELSE FoldLeft(LAMBDA f, p : OneConflict(f, p, e[2]), c, AllPossibleSolutions(c.s, c.v, e[1], e[2]))

RemoveConflictsIfNotUpgradeable(c) ==
  FoldLeft(ConflictsOf, c, FlattenSeq([n \in DOMAIN c.deps |-> IF IsNegative(DependsList[c.v][c.deps[n]])
                                                               THEN <<<<c.deps[n], "CVer">>, <<c.deps[n], "Now">>>> ELSE <<>>]))

\* installed packages that need the old version of p and must be upgraded with it
CollectReverseDepends(c) ==
  LET s == c.s
      need(q) == /\ s.st[q].mode = "keep" /\ q \notin ToSet(c.delayed) \cup ToSet(c.upgrade)
                 /\ \E k \in RevDepends[c.p] : /\ k[1] = s.cur[q] /\ IsImportantDep(DepOf(k)) /\ ~IsNegative(DepOf(k))
                                               /\ s.cur[c.p] \in AltOf(k).vers /\ c.v \notin AltOf(k).vers
  IN IF s.cur[c.p] = NoVer \/ GiveUp(c) THEN c ELSE [c EXCEPT !.upgrade = @ \o SelectSeq(PkgList, need)]

RECURSIVE MarkInstall(_, _, _, _, _)

\* installed binaries of the same source version whose candidate it is, first without and then with what they need
UpgradeOtherBinaries(c) ==
  LET s == c.s
      others == SelectSeq(PkgList, LAMBDA q : /\ q # c.p /\ s.cur[q] # NoVer /\ s.st[q].cand \notin {NoVer, s.cur[q]}
                                              /\ Source[s.st[q].cand] = Source[c.v]
                                              /\ ~(Install(s, q) /\ s.st[q].inst = s.st[q].cand))
      twice == [n \in 1..(2 * Len(others)) |-> others[((n - 1) % Len(others)) + 1]]
  IN IF c.done THEN c
     ELSE [c EXCEPT !.s = FoldLeft(LAMBDA t, n : MarkInstall(t, twice[n], n > Len(others), FALSE, c.force), s, [n \in DOMAIN twice |-> n])]

RemovedInstead(c, q, t) ==
  IF ~t.ok THEN [c EXCEPT !.s = t, !.failed = TRUE]
  ELSE [c EXCEPT !.s = IF c.already THEN MarkProtected(t, q) ELSE t]

UpgradedOrRemoved(c, q, t) == IF t.ok THEN [c EXCEPT !.s = t] ELSE RemovedInstead(c, q, MarkDelete(t, q, FALSE))

UpgradeOrRemoveConflicts(c) ==
  IF c.done THEN c
  ELSE FoldLeft(LAMBDA d, q : IF GiveUp(d) \/ Install(d.s, q) THEN d ELSE UpgradedOrRemoved(d, q, MarkInstall(d.s, q, TRUE, FALSE, d.force)),
                c, c.upgrade)

\* a Recommends of an installed package that was not satisfied before is left alone
OldUnsatisfied(s, p, d) ==
  LET now     == s.cur[p]
      similar == {k \in Keys : k[1] = now /\ ~IsCritical(DepOf(k)) /\ IsImportantDep(DepOf(k)) /\ AltOf(k).pkg = d.alts[1].pkg}
  IN now # NoVer /\ ~IsCritical(d) /\ similar # {} /\ \A k \in similar : ~GroupState(s, now, k[2], "Now")

\* one possible solution q of dependency i; the only one of a protected package is protected too
TrySolution(c, q, i, alone) ==
  LET helps == c.s.st[q].cand \in UNION {DependsList[c.v][i].alts[j].vers : j \in DOMAIN DependsList[c.v][i].alts}
      after(u) == IF ~u.ok THEN [c EXCEPT !.s = u]
                  ELSE [c EXCEPT !.s = u, !.found = TRUE, !.moved = IF c.s.cur[q] = NoVer THEN @ \cup {q} ELSE @]
      first(t) == IF ~t.ok THEN [c EXCEPT !.s = t]
                  ELSE after(MarkInstall(IF alone THEN MarkProtected(t, q) ELSE t, q, TRUE, FALSE, c.force))
  IN IF c.found \/ ~helps THEN c
     ELSE first(IF alone THEN MarkInstall(c.s, q, FALSE, FALSE, c.force) ELSE Yes(c.s))

TrySolutions(c, i, sols) ==
  FoldLeft(LAMBDA d, q : TrySolution(d, q, i, c.already /\ IsCritical(DependsList[c.v][i]) /\ Len(sols) = 1), [c EXCEPT !.found = FALSE], sols)

\* a satisfied dependency of a protected package protects its only provider: the only version, installed or
\* candidate, so that one whose installed version and candidate both satisfy it is left alone
ProtectOnly(c, d, open) ==
  LET only == Owner[CHOOSE w \in open : TRUE]
      after(t) == [c EXCEPT !.s = t, !.failed = @ \/ ~t.ok]
  IN IF c.already /\ IsCritical(d) /\ Cardinality(open) = 1 /\ ~c.s.st[only].protect
     THEN after(MarkInstall(MarkProtected(c.s, only), only, TRUE, FALSE, c.force)) ELSE c

OpenProviders(s, v, i) ==
  {w \in UNION {FromDependency(s, <<v, i, j>>, use) : j \in DOMAIN DependsList[v][i].alts, use \in {"CVer", "Now"}} : ~Ruled(s, Owner[w])}

InstallDependencies(c) ==
  LET failedIf(d, b) == [d EXCEPT !.failed = @ \/ (b /\ ~d.found)]
      one(d, i) ==
        LET dep == DependsList[c.v][i] IN
        IF IsNegative(dep) \/ GiveUp(d) THEN d
        ELSE IF GroupState(d.s, c.v, i, "Install") THEN ProtectOnly(d, dep, OpenProviders(d.s, c.v, i))
        ELSE IF ~c.force /\ OldUnsatisfied(d.s, c.p, dep) THEN d
        ELSE failedIf(TrySolutions(d, i, AllPossibleSolutions(d.s, c.v, i, "CVer")), IsCritical(dep))
  IN IF c.done THEN c ELSE FoldLeft(one, c, c.deps)

\* a candidate whose dependencies no candidate can satisfy is discarded
Hopeless(s, v) ==
  \E i \in DOMAIN DependsList[v] :
    /\ IsCritical(DependsList[v][i]) /\ ~IsNegative(DependsList[v][i])
    /\ \A j \in DOMAIN DependsList[v][i].alts : ~s.ds[<<v, i, j>>].Install /\ ~s.ds[<<v, i, j>>].CVer

KeepWhatIs(s, p) ==
  IF s.st[p].mode = "delete" THEN s
  ELSE Put(s, p, [s.st[p] EXCEPT !.mode = "keep", !.status = StatusOf(s.cur[p], s.st[p].cand)])

IsInstallOk(s, p, AutoInst) ==
  IF ~AutoInst \/ s.st[p].cand = s.cur[p] \/ ~Hopeless(s, s.st[p].cand) THEN Yes(s)
  ELSE IF s.st[p].protect THEN No(s)
  ELSE No(KeepWhatIs(IF s.cur[p] # NoVer THEN SetCandidateVersion(s, p, s.cur[p]) ELSE Put(s, p, [s.st[p] EXCEPT !.cand = NoVer]), p))

DeleteDelayed(c) ==
  LET after(d, t) == [d EXCEPT !.s = t, !.failed = @ \/ ~t.ok]
  IN IF c.done THEN c ELSE FoldLeft(LAMBDA d, q : IF GiveUp(d) THEN d ELSE after(d, MarkDelete(d.s, q, FALSE)), c, c.delayed)

\* a transitional package hands its manual bit on to what it needs
MovesAuto(c) ==
  LET w == c.s.st[c.p].inst
      now == c.s.cur[c.p]
  IN w # NoVer /\ ~c.s.st[c.p].auto /\ now # NoVer /\ now \notin OldLibs /\ w \in OldLibs

Begin(s, p, FromUser, Force) ==
  [s |-> s, p |-> p, v |-> s.st[p].cand, user |-> FromUser, force |-> Force, already |-> s.st[p].protect, failed |-> FALSE,
   done |-> FALSE, deps |-> CollectDependencies(s, p, s.st[p].cand), delayed |-> <<>>, upgrade |-> <<>>, bad |-> {},
   found |-> FALSE, moved |-> {}]

\* nothing was changed yet that has to be undone; from here on the package is protected
Enter(c) ==
  IF GiveUp(c) THEN [c EXCEPT !.done = TRUE]
  ELSE [c EXCEPT !.s = MarkProtected(IF c.user THEN @ ELSE StateChange(@, c.p, TRUE, FALSE), c.p)]

\* a step after which a failure of an unprotected package undoes its installation
OrDiscard(c) ==
  IF c.done \/ ~GiveUp(c) THEN c
  ELSE [c EXCEPT !.s = DiscardInstall(@, c.p), !.done = TRUE]

Leave(c) ==
  LET s == [c.s EXCEPT !.st[c.p].protect = c.already, !.ok = ~c.failed]
  IN IF c.done \/ ~c.moves THEN s ELSE MarkAuto(MarkAutoAll(s, c.moved, FALSE), c.p, TRUE)

NoteMove(c) == [moves |-> MovesAuto(c)] @@ c

AutoSolve(s, p, FromUser, Force) ==
  Leave(OrDiscard(DeleteDelayed(InstallDependencies(NoteMove(UpgradeOrRemoveConflicts(UpgradeOtherBinaries(Enter(CollectReverseDepends(
    RemoveConflictsIfNotUpgradeable(Begin(IF FromUser THEN StateChange(s, p, TRUE, TRUE) ELSE s, p, FromUser, Force)))))))))))

ChangeInstall(s, p, AutoInst, FromUser, Force) ==
  IF ~s.ok THEN s
  ELSE IF AutoInst THEN AutoSolve(s, p, FromUser, Force)
  ELSE Yes(StateChange(s, p, FALSE, FromUser))

MarkInstall(s, p, AutoInst, FromUser, Force) ==
  LET st       == s.st[p]
      protects == st.protect /\ st.mode = "keep" /\ st.cand # NoVer /\ st.cand = s.cur[p]
      sound    == ~st.protect /\ st.instOk = {"Min", "Policy"}
  IN IF (~protects /\ ~IsModeChangeOk(s, "install", p, FromUser)) \/ st.cand = NoVer THEN No(s)
     ELSE IF sound /\ st.cand = s.cur[p] THEN IF st.inst = NoVer THEN MarkKeep(s, p, FromUser) ELSE Yes(s)
     ELSE IF sound /\ st.mode = "install" THEN Yes(s)
     ELSE ChangeInstall(IsInstallOk(s, p, AutoInst), p, AutoInst, FromUser, Force)

-----------------------------------------------------------------------------
(* Mark and sweep *)

BoringState(s, p) == IF s.cur[p] = NoVer THEN s.st[p].mode = "keep" ELSE s.st[p].mode = "delete"

\* mutant: the dependencies of the installed version count
PlannedVerNow(s, p) == IF s.cur[p] # NoVer THEN s.cur[p] ELSE s.st[p].inst

PlannedVer(s, p) == IF Install(s, p) THEN s.st[p].inst ELSE s.cur[p]

RECURSIVE MarkPackage(_, _, _)

\* the packages that have the name n after the plan
Candidates(s, n) ==
  {p \in Pkgs : (p = n \/ n \in ProvidesOf[PlannedVer(s, p)]) /\ ~BoringState(s, p) /\ PlannedVer(s, p) # NoVer}

\* only the newest binaries of each source, and no new package if one of several sources is installed
Newest(s, good) ==
  {p \in good : \A q \in good : LET a == Source[PlannedVer(s, p)]  b == Source[PlannedVer(s, q)] IN b.name = a.name => b.ver <= a.ver}

PreferInstalled(s, good, newest) ==
  IF Cardinality({Source[PlannedVer(s, p)].name : p \in good}) >= 2 /\ \E p \in newest : s.cur[p] # NoVer
  THEN {p \in newest : s.cur[p] # NoVer} ELSE newest

\* m: the packages marked and the names fully explored; n has the providers choices, good satisfy the dependency
FollowChoices(s, m, n, choices, good) ==
  FoldLeft(LAMBDA k, p : MarkPackage(s, k, p),
           [marked |-> IF n \in choices THEN m.marked ELSE m.marked \cup {n},
            explored |-> IF good = choices THEN m.explored \cup {n} ELSE m.explored],
           InOrder(PreferInstalled(s, good, Newest(s, good))))

FollowDependency(s, m, alt, choices) ==
  IF alt.pkg \in m.explored THEN m
  ELSE FollowChoices(s, m, alt.pkg, choices, {p \in choices : PlannedVer(s, p) \in alt.vers})

MarkPackage(s, m, p) ==
  LET v    == PlannedVer(s, p)
      deps == SelectSeq(DependsList[v], LAMBDA d : d.type \in {"Depends", "Recommends", "Suggests"})
      alts == FlattenSeq([i \in DOMAIN deps |-> deps[i].alts])
  IN IF v = NoVer \/ p \in m.marked THEN m
     ELSE IF BoringState(s, p) THEN [m EXCEPT !.explored = @ \cup {p}]
     ELSE FoldLeft(LAMBDA n, alt : FollowDependency(s, n, alt, Candidates(s, alt.pkg)), [m EXCEPT !.marked = @ \cup {p}], alts)

MarkRequired(s) ==
  LET root(p) == ~BoringState(s, p) /\ (~s.st[p].auto \/ p \in Essential \/ ~IsModeChangeOk(s, "garbage", p, FALSE))
  IN FoldLeft(LAMBDA n, p : IF root(p) THEN MarkPackage(s, n, p) ELSE n, [marked |-> {}, explored |-> {}], PkgList)

Sweep(s, marked) ==
  FoldLeft(LAMBDA t, p : Put(t, p, [t.st[p] EXCEPT !.marked = p \in marked, !.garbage = p \notin marked /\ (t.cur[p] # NoVer \/ Install(t, p))]),
           s, PkgList)

MarkAndSweep(s) == Sweep(s, MarkRequired(s).marked)

-----------------------------------------------------------------------------
(* The extended states file and transactions *)

WriteStateFile(s, InstalledOnly) ==
  {p \in Pkgs : s.st[p].auto /\ ~(InstalledOnly /\ IF s.cur[p] = NoVer THEN ~Install(s, p) ELSE s.st[p].mode = "delete")}

\* everything but the selection states of the packages comes back
Rollback(s, saved) == [saved EXCEPT !.hold = s.hold]
=============================================================================
