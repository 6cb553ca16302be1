--------------------------- MODULE PackageManager ---------------------------
(***************************************************************************)
(* pkgPackageManager (apt-pkg/packagemanager.cc): from the planned states  *)
(* to a sequence of dpkg operations. The mutually recursive Smart methods  *)
(* thread one record m: st (the States flags of every package), loop (the  *)
(* Loop flags), ops (the operations given to dpkg), ok (FALSE once a       *)
(* method has returned false), with the order list o and the packages      *)
(* whose file is there.                                                    *)
(* One architecture: no lockstep of Multi-Arch: same packages.             *)
(***************************************************************************)
EXTENDS OrderList

CONSTANTS
  ForceLoopBreak,  \* APT::Force-LoopBreak
  ImmediateConfigure, \* APT::Immediate-Configure
  MaxLoopCount     \* APT::pkgPackageManager::MaxLoopCount, 5000 in the code

Fail(m) == [m EXCEPT !.ok = FALSE]
FlagState(m, p, s) == [m EXCEPT !.st[p] = s]
Emit(m, op, p) == [m EXCEPT !.ops = Append(@, [op |-> op, pkg |-> p])]

FirstOf(s, Test(_)) == LET t == SelectSeq(s, Test) IN IF t = <<>> THEN NoVer ELSE t[1]

-----------------------------------------------------------------------------
(* CreateOrderList *)

RECURSIVE ImmediateAdd(_, _, _)

\* vers: the planned or the installed versions; a package flagged already is not entered again
ImmediateAdd(imm, p, vers) ==
  FoldLeft(LAMBDA acc, d : IF d.type \in {"Depends", "PreDepends"} /\ d.target \notin acc
                           THEN ImmediateAdd(acc \cup {d.target}, d.target, vers) ELSE acc, imm, Depends(vers[p]))

\* essential packages and what they depend on are configured at once
Immediates ==
  FoldLeft(LAMBDA imm, p : IF p \in Essential /\ ImmediateConfigure
                           THEN ImmediateAdd(ImmediateAdd(imm \cup {p}, p, cache.inst), p, cache.cur) ELSE imm, {}, PkgList)

\* kept packages in a good state are not interesting
CreateOrderList == SelectSeq(PkgList, LAMBDA p : ~(Keep(p) /\ NeedsNothing(p) /\ ~ReInstall(p)))

-----------------------------------------------------------------------------
(* Removals *)

SmartRemove(m, p) ==
  IF IsNow(m.st, p) THEN Emit(FlagState(m, p, "Configured"), "Remove", p) ELSE m

DependsOnIt(d) == d.type \in {"Depends", "PreDepends"}

\* an essential package, or one an essential package depends on, is not removed for a moment
EarlyRemove(m, p, type) ==
  LET essential == p \in Essential
                   \/ (cache.cur[p] # NoVer
                       /\ \E i \in DOMAIN RevDependsOf[p] :
                            DependsOnIt(RevDependsOf[p][i]) /\ ParentPkg(RevDependsOf[p][i]) \in Essential)
  IN CASE ~IsNow(m.st, p) \/ m.st[p] = "Removed" -> m
       [] IsNow(m.st, p) /\ m.st[p] # "Removed" /\ p \notin m.inlist -> Fail(m)
       [] IsNow(m.st, p) /\ m.st[p] # "Removed" /\ p \in m.inlist ->
            IF type = "Breaks" THEN m
            ELSE IF essential /\ ~ForceLoopBreak THEN Fail(m)
            ELSE IF Delete(p) THEN SmartRemove(m, p)
            ELSE FlagState(SmartRemove(m, p), p, "Removed")

\* The versions of conflicting packages are removed early; v is the version unpacked.  What it
\* provides is not looked at: the loops over its provides (packagemanager.cc:590, 967) skip those
\* whose owner is of the group of the package, and the owner is the package itself.
CheckRConflicts(m, p, ds, v) ==
  FoldLeft(LAMBDA acc, d :
             IF acc.ok /\ d.type = "Conflicts" /\ IsNow(acc.st, p) /\ ParentPkg(d) # p /\ OfCurrent(d) /\ v \in ToSet(d.vers)
             THEN EarlyRemove(acc, ParentPkg(d), d.type) ELSE acc, m, ds)

CheckRBreaks(m, p, ds, v) ==
  FoldLeft(LAMBDA acc, d :
             IF d.type = "Breaks" /\ Delete(ParentPkg(d)) /\ ParentPkg(d) # p /\ OfCurrent(d) /\ v \in ToSet(d.vers)
             THEN SmartRemove(acc, ParentPkg(d)) ELSE acc, m, ds)

-----------------------------------------------------------------------------
(* SmartUnPack and SmartConfigure. l holds the locals of one call: the     *)
(* package, Bad, Changed, SomethingBad and needConfigure.                  *)

RECURSIVE SmartUnPack(_, _, _, _)
RECURSIVE SmartConfigure(_, _)

Locals(m, p) ==
  [m |-> m, pkg |-> p, loop |-> p \in m.loop, bad |-> FALSE, changed |-> FALSE, somethingBad |-> FALSE, need |-> <<>>]

WithLoop(l, b) == [l EXCEPT !.m.loop = IF l.loop THEN @ ELSE IF b THEN @ \cup {l.pkg} ELSE @ \ {l.pkg}]

SmartAction(m, action, q) ==
  CASE action = "UNPACK_IMMEDIATE" -> SmartUnPack(m, q, TRUE, FALSE)
    [] action = "UNPACK"           -> SmartUnPack(m, q, FALSE, FALSE)
    [] action = "CONFIGURE"        -> SmartConfigure(m, q)

\* a loop A depends B, B depends A does not recurse for ever
NonLoopingSmart(l, action, q) ==
  LET after == WithLoop([l EXCEPT !.m = SmartAction(WithLoop(l, TRUE).m, action, q)], FALSE)
  IN IF after.m.ok THEN [after EXCEPT !.bad = FALSE, !.changed = @ \/ q \notin after.m.loop] ELSE after

\* do ... while (Changed), bounded by MaxLoopCount
WhileChanged(l, Body(_)) ==
  LET r == FoldLeft(LAMBDA acc, i : IF acc.m.ok /\ acc.changed THEN Body([acc EXCEPT !.changed = FALSE]) ELSE acc,
                    [l EXCEPT !.changed = TRUE], [i \in 1..(MaxLoopCount + 1) |-> i])
  IN IF r.m.ok /\ r.changed THEN [r EXCEPT !.m.ok = FALSE] ELSE r

\* the or groups of the version to be installed (GlobOr)
Groups(v) ==
  LET firsts == SelectSeq(Depends(v), LAMBDA d : d.idx = 1 \/ ~Depends(v)[d.idx - 1].or)
  IN [i \in DOMAIN firsts |-> GroupOf(firsts[i])]

\* the installed version is in order, so far
CurrentOk(m, v) ==
  LET q == Owner[v] IN cache.cur[q] = v /\ IsNow(m.st, q) /\ NeedsNothing(q) /\ ~ReInstall(q)

SatisfiedNow(m, g) == \E v \in ToSet(AllTargets(g)) : CurrentOk(m, v) /\ m.st[Owner[v]] # "Removed"

\* the first target of an alternative that this run will still unpack
UnpackAlternative(l, d) ==
  LET v == FirstOf(d.vers, LAMBDA w : cache.inst[Owner[w]] = w /\ IsNow(l.m.st, Owner[w]))
  IN IF l.m.ok /\ l.bad /\ v # NoVer /\ ~l.loop THEN NonLoopingSmart(l, "UNPACK_IMMEDIATE", Owner[v]) ELSE l

Needed(l, g) == IF l.bad THEN [l EXCEPT !.need = Append(@, g)] ELSE l

UnpackGroup(l, g) ==
  IF l.m.ok /\ DependsOnIt(Last(g))
  THEN IF SatisfiedNow(l.m, g) THEN [l EXCEPT !.bad = FALSE]
       ELSE Needed(FoldLeft(UnpackAlternative, [l EXCEPT !.bad = TRUE], g), g)
  ELSE l

\* an unpacked dependency is configured first
ConfigureAlternative(l, d) ==
  LET v == FirstOf(d.vers, LAMBDA w : cache.inst[Owner[w]] = w /\ l.m.st[Owner[w]] \in {"UnPacked", "Configured"})
  IN IF ~l.m.ok \/ ~l.bad \/ v = NoVer THEN l
     ELSE IF l.m.st[Owner[v]] = "Configured" \/ (Owner[v] \in l.m.loop /\ l.loop) THEN [l EXCEPT !.bad = FALSE]
     ELSE NonLoopingSmart(l, "CONFIGURE", Owner[v])

\* Bad is set anew for every dependency: what counts in the end is the last one
ConfigureGroup(l, g) == IF l.m.ok THEN FoldLeft(ConfigureAlternative, [l EXCEPT !.bad = TRUE], g) ELSE l

\* mutant: a package is configured without its dependencies being unpacked first
UnpackDependenciesNone(l) == l

UnpackDependencies(l)    == WhileChanged(l, LAMBDA x : FoldLeft(UnpackGroup, x, Groups(cache.inst[l.pkg])))
ConfigureDependencies(l) == WhileChanged([l EXCEPT !.bad = FALSE], LAMBDA x : FoldLeft(ConfigureGroup, x, x.need))

FinishConfigure(m, p, loop) ==
  IF ~m.ok \/ loop THEN m
  ELSE IF m.st[p] = "Configured" THEN Fail(m)
  ELSE FlagState(Emit(m, "Configure", p), p, "Configured")

Configurable(l) ==
  IF l.m.ok /\ l.bad THEN Fail(l.m)
  ELSE IF ~l.m.ok THEN l.m
  ELSE CheckRBreaks(l.m, l.pkg, RevDependsOf[l.pkg], cache.inst[l.pkg])

SmartConfigure(m, p) ==
  FinishConfigure(Configurable(ConfigureDependencies(UnpackDependencies(Locals(m, p)))), p, p \in m.loop)

\* something of the pre-dependency, or of a dependency listed after it, that can be configured
PreDependsAlternative(l, d) ==
  LET v == FirstOf(d.vers, LAMBDA w :
             LET q == Owner[w]
             IN /\ cache.inst[q] = w /\ ~(Keep(q) /\ NeedsNothing(q) /\ ~ReInstall(q))
                /\ ~(l.m.st[q] \notin {"UnPacked", "Configured"} /\ q \in l.m.loop /\ l.loop))
  IN IF ~l.m.ok \/ ~l.bad \/ v = NoVer THEN l
     ELSE IF l.m.st[Owner[v]] = "Configured" THEN [l EXCEPT !.bad = FALSE]
     ELSE NonLoopingSmart(l, IF l.m.st[Owner[v]] = "UnPacked" THEN "CONFIGURE" ELSE "UNPACK_IMMEDIATE", Owner[v])

NoteBad(l) == IF l.bad THEN [l EXCEPT !.somethingBad = TRUE] ELSE l

\* the search does not end with the or group but with the dependencies of the version
PreDependsGroup(l, g) ==
  IF \E v \in ToSet(AllTargets(g)) : CurrentOk(l.m, v) THEN [l EXCEPT !.bad = FALSE]
  ELSE NoteBad(FoldLeft(PreDependsAlternative, [l EXCEPT !.bad = TRUE],
                        SubSeq(DependsOf[g[1].ver], g[1].idx, Len(DependsOf[g[1].ver]))))

\* unpacking the other did not work out: make one of the two go, unless one is gone already
Avoid(before, after, q, type) ==
  IF after.m.ok THEN [after EXCEPT !.bad = before.bad]
  ELSE IF "Removed" \in {after.m.st[q], after.m.st[after.pkg]} THEN [after EXCEPT !.m.ok = TRUE]
  ELSE [after EXCEPT !.m = EarlyRemove([after.m EXCEPT !.ok = TRUE], q, type)]

ConflictTarget(l, d, v) ==
  LET q == Owner[v]
  IN IF ~l.m.ok \/ cache.cur[q] # v \/ ~IsNow(l.m.st, q) \/ l.m.st[q] = "Removed" THEN l
     ELSE IF q \in l.m.loop /\ l.loop
          THEN [l EXCEPT !.m = EarlyRemove(@, q, d.type), !.somethingBad = TRUE]
     ELSE IF Delete(q) THEN [l EXCEPT !.m = SmartRemove(@, q)]
     ELSE Avoid(l, NonLoopingSmart(l, "UNPACK", q), q, d.type)

PreUnpackCheck(l, g) ==
  CASE ~l.m.ok -> l
    [] l.m.ok /\ Last(g).type = "PreDepends" -> PreDependsGroup(l, g)
    [] l.m.ok /\ IsNegative(Last(g)) -> FoldLeft(LAMBDA acc, v : ConflictTarget(acc, Last(g), v), l, Last(g).vers)
    [] OTHER -> l

PreUnpackChecks(l) == WhileChanged(l, LAMBDA x : FoldLeft(PreUnpackCheck, x, Groups(cache.inst[l.pkg])))

\* pkgDPkgPM::Install wants a file name
InstallOp(m, p) ==
  IF cache.inst[p] = cache.cur[p] /\ ~ReInstall(p) THEN m
  ELSE IF p \notin m.files THEN Fail(m) ELSE Emit(m, "Install", p)

\* an immediate configuration that fails is not an error
ImmediateConfigureOp(m, p, immediate) ==
  IF m.ok /\ immediate THEN [SmartConfigure(m, p) EXCEPT !.ok = TRUE] ELSE m

DoUnPack(m, p, immediate, loop) ==
  IF ~m.ok \/ loop THEN m ELSE ImmediateConfigureOp(InstallOp(FlagState(m, p, "UnPacked"), p), p, immediate)

RConflicts(m, p) == IF m.ok THEN CheckRConflicts(m, p, RevDependsOf[p], cache.inst[p]) ELSE m

\* top: called by OrderInstall (Depth 0)
AfterChecks(l, immediate, top, removed) ==
  CASE l.m.ok /\ l.somethingBad -> Fail(l.m)
    [] l.m.ok /\ ~l.somethingBad /\ ~top /\ ~removed /\ l.m.st[l.pkg] = "Removed" -> l.m
    [] OTHER -> DoUnPack(RConflicts(l.m, l.pkg), l.pkg, immediate, l.loop)

SmartUnPack(m, p, immediate, top) ==
  AfterChecks(PreUnpackChecks(Locals(m, p)), immediate, top, m.st[p] = "Removed")

-----------------------------------------------------------------------------
(* ConfigureAll and OrderInstall *)

\* PackageManager::Configure is smart: the rest is left to dpkg --configure --pending
ConfigureAll(m, list) ==
  FoldLeft(LAMBDA acc, p : FlagState(acc, p, "Configured"), m,
           OrderConfigure(SelectSeq(list, LAMBDA p : m.st[p] = "UnPacked")))

\* one package of the list; stop: the sequence ends here because of a missing file
InstallNext(r, p) ==
  IF ~r.m.ok \/ r.stop \/ ~IsNow(r.m.st, p) THEN r
  ELSE IF IsMissing(r.m.files, p) THEN [r EXCEPT !.stop = TRUE, !.m.ok = r.done]
  ELSE IF Keep(p) /\ NeedsNothing(p) /\ ~ReInstall(p) THEN [r EXCEPT !.m.ok = FALSE]
  ELSE [r EXCEPT !.done = TRUE, !.m = IF Delete(p) THEN SmartRemove(@, p) ELSE SmartUnPack(@, p, p \in r.imm, TRUE)]

\* result: Failed, Incomplete or Completed
Finished(r, list) ==
  [r EXCEPT !.res = IF \A p \in ToSet(list) : r.m.st[p] = "Configured" THEN "Completed" ELSE "Failed"]

Outcome(r, list) ==
  IF ~r.m.ok THEN [r EXCEPT !.res = "Failed"]
  ELSE IF r.stop THEN [r EXCEPT !.res = "Incomplete"]
  ELSE Finished([r EXCEPT !.m = ConfigureAll(@, list)], list)

Ordered(o, files) == OrderUnpack(FlagMissing(o, CreateOrderList, files), CreateOrderList)

InstallStart(ord, files) ==
  [m |-> [st |-> ord.st, loop |-> {}, ops |-> <<>>, ok |-> TRUE, inlist |-> ord.inlist, files |-> files],
   imm |-> ord.imm, stop |-> FALSE, done |-> FALSE, res |-> "Failed", o |-> ord]

OrderInstall(o, files) ==
  The({Outcome(r, r.o.list) : r \in {FoldLeft(InstallNext, InstallStart(ord, files), ord.list) : ord \in {Ordered(o, files)}}})

\* the packages whose archive is fetched
Wanted(o) == {p \in ToSet(o.list) : ~Delete(p) /\ ~(cache.state[p] = "NeedsConfigure" /\ Keep(p)) /\ IsNow(o.st, p)}

GetArchives(o) == The({[o |-> ord, fetch |-> Wanted(ord)] : ord \in {OrderUnpack([o EXCEPT !.files = Pkgs], CreateOrderList)}})
=============================================================================
