----------------------------- MODULE OrderList -----------------------------
(***************************************************************************)
(* pkgOrderList (apt-pkg/orderlist.cc): in which order the packages that   *)
(* change are unpacked and removed. The visits thread one record o, the    *)
(* fields of the object: its flags as sets of packages, the functions to   *)
(* call as names, the lists as sequences.                                  *)
(* One architecture; PackageManager::UnpackAll is true as by default, so   *)
(* OrderCritical and the list of loops it reports are left out. VisitNode  *)
(* always returns true: no visit can fail, and no caller's error path for  *)
(* it is reachable.                                                        *)
(***************************************************************************)
EXTENDS Integers, Sequences, FiniteSets, SequencesExt

CONSTANTS
  PkgList,      \* the packages, in the order of the cache
  Owner,        \* version -> its package
  DependsOf,    \* version -> its dependencies, [ver, idx, type, target, vers, or]
  RevDependsOf, \* package -> the dependencies naming it
  ProvidesOf,   \* version -> the virtual packages it provides
  Essential     \* the essential (or protected) packages

VARIABLE
  cache  \* pkgDepCache: [cur, state, inst, reinst], what was installed when apt started and is planned

NoVer == "none"
Pkgs  == ToSet(PkgList)

ASSUME IndexAssumption ==
  \A v \in DOMAIN DependsOf : \A i \in DOMAIN DependsOf[v] :
    LET d == DependsOf[v][i]
    IN /\ d.ver = v /\ d.idx = i /\ ToSet(d.vers) \subseteq DOMAIN Owner
       /\ d \in ToSet(RevDependsOf[d.target])
       /\ d.type \in {"Conflicts", "Breaks"} => \A w \in ToSet(d.vers) : Owner[w] # Owner[v]

-----------------------------------------------------------------------------
(* What the dependency cache says of a package *)

Delete(p)       == cache.inst[p] = NoVer /\ cache.cur[p] # NoVer
Keep(p)         == cache.inst[p] = cache.cur[p]
NeedsNothing(p) == cache.state[p] = "NeedsNothing"
ReInstall(p)    == p \in cache.reinst

Depends(v)    == IF v = NoVer THEN <<>> ELSE DependsOf[v]
Provides(v)   == IF v = NoVer THEN <<>> ELSE ProvidesOf[v]
ParentPkg(d)  == Owner[d.ver]
IsNegative(d) == d.type \in {"Conflicts", "Breaks"}
IsCritical(d) == d.type \in {"PreDepends", "Depends", "Conflicts", "Breaks"}
\* the dependency belongs to the version that is installed
OfCurrent(d)  == cache.cur[ParentPkg(d)] = d.ver

\* neither unpacked nor configured in this run; a temporarily removed package still counts
IsNow(st, p) == st[p] \in {"none", "Removed"}

\* files: the packages with a file name, all of them while FileList is null
IsMissing(files, p) ==
  /\ ~Delete(p)
  /\ ~(cache.state[p] \in {"NeedsConfigure", "NeedsNothing"} /\ Keep(p))
  /\ p \notin files

-----------------------------------------------------------------------------
(* CheckDep *)

\* the target is there at this point of the order
Considered(o, d, rev, v) ==
  LET p == Owner[v]
  IN IF p \in o.added \/ (p \in o.pending /\ rev)
     THEN cache.inst[p] = v
     ELSE cache.cur[p] = v /\ NeedsNothing(p)

\* provides by older versions of the package itself do not count
OldSelf(d, rev, v) ==
  Owner[v] = (IF rev THEN d.target ELSE ParentPkg(d)) /\ cache.inst[Owner[v]] # v

Hits(o, d, rev) ==
  SelectSeq(d.vers, LAMBDA v : Considered(o, d, rev, v) /\ (IsNegative(d) \/ ~OldSelf(d, rev, v)))

AllAfter(o, vs) == \A i \in DOMAIN vs : Owner[vs[i]] \in o.after

CheckDep(o, d, rev) ==
  LET hits == Hits(o, d, rev)
  IN CASE IsNegative(d)        -> hits = <<>> /\ d.type = "Conflicts"
       [] ~AllAfter(o, hits)   -> TRUE
       [] OTHER                -> hits # <<>> /\ d.type = "PreDepends"

\* CheckDep sends a package after the missing file it hangs on
FlagAfter(o, d, rev) ==
  LET hits == Hits(o, d, rev)
  IN IF hits # <<>> /\ (IF IsNegative(d) THEN Owner[hits[1]] \in o.after
                        ELSE d.type = "PreDepends" /\ AllAfter(o, hits))
     THEN [o EXCEPT !.after = @ \cup {ParentPkg(d)}]
     ELSE o

-----------------------------------------------------------------------------
(* The visits *)

RECURSIVE VisitNode(_, _)

VisitIf(o, p, b) == IF b THEN VisitNode(o, p) ELSE o

\* the targets of the dependency to visit: what it will be satisfied by, or what it is about now
Visitable(o, d, critical, v) ==
  /\ (IF IsNegative(d) THEN cache.cur ELSE cache.inst)[Owner[v]] = v
  /\ ~(Keep(Owner[v]) /\ NeedsNothing(Owner[v]))
  /\ critical \/ ~IsMissing(o.files, ParentPkg(d))

\* packages to be removed come first for a negative dependency
VisitProvides(o, d, critical) ==
  LET vs == SelectSeq(d.vers, LAMBDA v : Visitable(o, d, critical, v))
  IN FoldLeft(LAMBDA acc, v : VisitNode(acc, Owner[v]), o,
              IF IsNegative(d)
              THEN SelectSeq(vs, LAMBDA v : Delete(Owner[v])) \o SelectSeq(vs, LAMBDA v : ~Delete(Owner[v]))
              ELSE vs)

\* a critical dependency that does not hold yet; a loop ends here
VisitUnmet(o, d, prim) ==
  IF CheckDep(o, d, FALSE) \/ d.target \in o.added \cup o.pending
  THEN FlagAfter(o, d, FALSE)
  ELSE [VisitProvides([FlagAfter(o, d, FALSE) EXCEPT !.primary = prim], d, TRUE) EXCEPT !.primary = o.primary]

\* which dependencies a function looks at
Concerns(o, f, d, rev) ==
  CASE f \in {"Crit", "PreD"} /\ rev -> d.type = "Conflicts" /\ OfCurrent(d)
    [] f = "Crit" /\ ~rev            -> IsNegative(d) \/ d.type = "PreDepends"
    [] f = "PreD" /\ ~rev            -> IsCritical(d)
    [] f = "Pre"                     -> ~rev /\ (d.type = "PreDepends" \/ (d.type = "Depends" /\ ~(o.depth = 1 /\ ParentPkg(d) \notin o.imm)))
    [] f = "UnPackDep" /\ rev        -> IsCritical(d) /\ OfCurrent(d)
    [] f = "UnPackDep" /\ ~rev       -> d.type \in {"Depends", "Breaks"}
    [] f = "Configure"               -> ~rev /\ d.type = "Depends"
    [] f = "Remove"                  -> rev /\ d.type \in {"Depends", "PreDepends"} /\ cache.cur[ParentPkg(d)] # NoVer

DepUnPackCrit(o, d, rev) ==
  IF rev THEN VisitIf(FlagAfter(o, d, TRUE), ParentPkg(d), ~CheckDep(o, d, TRUE))
  ELSE VisitUnmet(o, d, IF d.type = "PreDepends" THEN "PreD" ELSE o.primary)

DepUnPackPreD(o, d, rev) == IF rev THEN DepUnPackCrit(o, d, rev) ELSE VisitUnmet(o, d, o.primary)

DepUnPackPre(o, d) == VisitUnmet(o, d, o.primary)

DepUnPackDep(o, d, rev) ==
  IF rev
  THEN VisitIf(FlagAfter(o, d, TRUE), ParentPkg(d), ~CheckDep(o, d, TRUE) /\ ~IsMissing(o.files, ParentPkg(d)))
  ELSE IF d.type = "Depends" THEN VisitProvides(o, d, FALSE)
       ELSE VisitIf(FlagAfter(o, d, FALSE), d.target, ~CheckDep(o, d, FALSE))

DepConfigure(o, d) == VisitProvides(o, d, FALSE)

\* the or group of the dependency in its version
GroupOf(d) ==
  LET ds    == DependsOf[d.ver]
      first == CHOOSE i \in 1..d.idx : (i = 1 \/ ~ds[i - 1].or) /\ \A j \in i..(d.idx - 1) : ds[j].or
      last  == CHOOSE i \in d.idx..Len(ds) : ~ds[i].or /\ \A j \in d.idx..(i - 1) : ds[j].or
  IN SubSeq(ds, first, last)

AllTargets(g) == FlattenSeq([i \in DOMAIN g |-> g[i].vers])

\* a package that stays would lose this dependency by the removal: bring its replacement, or itself, forward
DepRemove(o, d, n) ==
  LET broken == ParentPkg(d)
      ready  == \E v \in ToSet(AllTargets(GroupOf(d))) : cache.cur[Owner[v]] = v /\ ~Delete(Owner[v])
      comes  == SelectSeq(AllTargets(GroupOf(d)), LAMBDA v :
                  /\ cache.inst[Owner[v]] = v /\ ~Keep(Owner[v])
                  /\ Owner[v] \notin o.pending /\ ~IsMissing(o.files, Owner[v]))
      imm    == IF comes # <<>> /\ broken \in o.imm THEN o.imm \cup {Owner[comes[1]]} ELSE o.imm
  IN IF o.left = n \/ broken \in o.added \cup o.pending
     THEN o
     ELSE CASE Delete(broken)                   -> [VisitNode(o, broken) EXCEPT !.left = n]
            [] ~Delete(broken) /\ ~OfCurrent(d) -> o
            [] ~Delete(broken) /\ OfCurrent(d) /\ ready -> o
            [] OTHER -> IF comes # <<>> THEN VisitNode([o EXCEPT !.imm = imm], Owner[comes[1]])
                        ELSE VisitIf(o, broken, ~IsMissing(o.files, broken))

\* one dependency [f, d, rev, n]: the function, the dependency, in which direction, in which call
Consider(o, i) ==
  CASE i.f = "Crit"      -> DepUnPackCrit(o, i.d, i.rev)
    [] i.f = "PreD"      -> DepUnPackPreD(o, i.d, i.rev)
    [] i.f = "Pre"       -> DepUnPackPre(o, i.d)
    [] i.f = "UnPackDep" -> DepUnPackDep(o, i.d, i.rev)
    [] i.f = "Configure" -> DepConfigure(o, i.d)
    [] i.f = "Remove"    -> DepRemove(o, i.d, i.n)

\* VisitDeps, VisitRDeps and VisitRProvides as lists of calls [f, ds, rev]
VisitDeps(f, p)       == <<[f |-> f, ds |-> Depends(cache.inst[p]), rev |-> FALSE]>>
VisitRDeps(f, p)      == <<[f |-> f, ds |-> RevDependsOf[p], rev |-> TRUE]>>
VisitRProvides(f, v)  == [i \in DOMAIN Provides(v) |-> [f |-> f, ds |-> RevDependsOf[Provides(v)[i]], rev |-> TRUE]]
Around(f, p)          == VisitRDeps(f, p) \o VisitRProvides(f, cache.cur[p]) \o VisitRProvides(f, cache.inst[p])

VisitCalls(o, p) ==
  IF Delete(p)
  THEN VisitRDeps(o.remove, p) \o VisitRProvides(o.remove, cache.cur[p])
  ELSE VisitDeps(o.primary, p) \o Around(o.primary, p) \o Around(o.revdepends, p)
       \o VisitDeps(o.secondary, p) \o Around(o.secondary, p)

ItemsOf(o, c, n) ==
  LET ds == SelectSeq(c.ds, LAMBDA d : Concerns(o, c.f, d, c.rev))
  IN [k \in DOMAIN ds |-> [f |-> c.f, d |-> ds[k], rev |-> c.rev, n |-> n]]

\* every dependency the visit of p looks at, in order
VisitItems(o, p, calls) == FlattenSeq([n \in DOMAIN calls |-> IF calls[n].f = "null" THEN <<>> ELSE ItemsOf(o, calls[n], n)])

Enter(o, p) ==
  [o EXCEPT !.pending = @ \cup {p}, !.depth = @ + 1, !.left = 0,
            !.primary = IF p \in o.imm /\ @ # "Pre" THEN "PreD" ELSE @]

Leave(o, p, old) ==
  [o EXCEPT !.pending = @ \ {p}, !.added = @ \cup {p}, !.depth = @ - 1, !.primary = old.primary, !.left = old.left,
            !.list      = IF p \in o.after THEN @ ELSE Append(@, p),
            !.afterlist = IF p \in o.after THEN Append(@, p) ELSE @]

\* the flags do not change before the first dependency is considered
Visit(o, p) == FoldLeft(Consider, o, IF IsNow(o.st, p) THEN VisitItems(o, p, VisitCalls(o, p)) ELSE <<>>)

VisitNode(o, p) ==
  IF p \in o.added \cup o.pending \/ p \notin o.inlist THEN o ELSE Leave(Visit(Enter(o, p), p), p, o)

-----------------------------------------------------------------------------
(* The runs *)

\* the packages that wait for a missing file come last
Joined(o) == [o EXCEPT !.list = @ \o o.afterlist]

DoRun(o, list) ==
  Joined(FoldLeft(VisitNode, [o EXCEPT !.added = {}, !.pending = {}, !.inlist = ToSet(list), !.depth = 0,
                                       !.list = <<>>, !.afterlist = <<>>], list))

Score(o, p) ==
  IF Delete(p) THEN 100
  ELSE (IF p \in Essential THEN 200 ELSE 0) + (IF p \in o.imm THEN 10 ELSE 0)
       + (IF \E i \in DOMAIN Depends(cache.inst[p]) : Depends(cache.inst[p])[i].type = "PreDepends" THEN 50 ELSE 0)

\* packages in a bad state first, then by score, then by name
OrderCompareA(o, p, q) ==
  LET key(x) == <<IF IsNow(o.st, x) THEN 0 ELSE 1, IF NeedsNothing(x) THEN 1 ELSE 0,
                  0 - Score(o, x), CHOOSE i \in DOMAIN PkgList : PkgList[i] = x>>
  IN \E i \in 1..4 : key(p)[i] < key(q)[i] /\ \A j \in 1..(i - 1) : key(p)[j] = key(q)[j]

NewOrder(st, imm) ==
  [added |-> {}, pending |-> {}, inlist |-> {}, after |-> {}, imm |-> imm, st |-> st, depth |-> 0, left |-> 0,
   list |-> <<>>, afterlist |-> <<>>, files |-> Pkgs,
   primary |-> "null", secondary |-> "null", revdepends |-> "null", remove |-> "null"]

\* the four passes: what each sets before its DoRun
Passes ==
  <<[primary |-> "Crit", secondary |-> "Configure", revdepends |-> "UnPackDep", remove |-> "Remove"],
    [primary |-> "Crit", secondary |-> "null",      revdepends |-> "UnPackDep", remove |-> "Remove"],
    [primary |-> "Crit", secondary |-> "null",      revdepends |-> "null",      remove |-> "null"],
    [primary |-> "Pre",  secondary |-> "null",      revdepends |-> "null",      remove |-> "null"]>>

Pass(o, f) == DoRun([o EXCEPT !.primary = f.primary, !.secondary = f.secondary, !.revdepends = f.revdepends, !.remove = f.remove], o.list)

Sorted(o, list) == [o EXCEPT !.list = SortSeq(list, LAMBDA p, q : OrderCompareA(o, p, q))]

\* the only element of a set: its passes are evaluated one after the other
The(S) == CHOOSE x \in S : TRUE

OrderUnpack(o, list) == FoldLeft(LAMBDA acc, f : The({Pass(a, f) : a \in {acc}}), Sorted(o, list), Passes)

\* FileList is given: packages whose file has not come yet go to the end
FlagMissing(o, list, files) ==
  [o EXCEPT !.files = files, !.after = {p \in ToSet(list) : IsMissing(files, p) /\ IsNow(o.st, p)}]

OrderConfigure(list) ==
  DoRun([NewOrder([p \in Pkgs |-> "none"], {}) EXCEPT !.primary = "Configure"], list).list
=============================================================================
