-------------------------- MODULE ProblemResolver --------------------------
(***************************************************************************)
(* A command such as  apt install x y-  or  apt full-upgrade : it marks    *)
(* what the user asks for in the dependency cache (private-install.cc),    *)
(* upgrades (upgrade.cc), resolves what is broken now (algorithms.cc,      *)
(* pkgProblemResolver), falls back to the solver of APT 3.0, removes what  *)
(* nobody needs any more, and is carried out.  Commands follow each other  *)
(* on the same system.                                                     *)
(***************************************************************************)
EXTENDS DepCache

CONSTANTS
  Systems,       \* the systems to start from: [cur, ext, hold]
  Commands,      \* the command lines
  MaxCommands,   \* bound: commands in a row
  MaxCounter     \* pkgProblemResolver::MaxCounter

VARIABLES
  disk,    \* what is installed, extended_states, the packages on hold
  dc,      \* the dependency cache
  cmd,     \* the command line, what is left of it
  phase,
  fix,     \* the resolver object
  saved,   \* the transaction: the cache before the solver ran
  asked,   \* history: installed packages the user asked for, see StaysAutomatic
  count

vars == <<disk, dc, cmd, phase, fix, saved, asked, count>>

NoFlags == [p \in Pkgs |-> {}]
NewFix(s) ==
  [flags |-> NoFlags, score |-> [p \in Pkgs |-> 0], brokenFix |-> s.count.broken # 0, later |-> <<>>, changed |-> FALSE,
   fixing |-> FALSE, plist |-> <<>>, pos |-> 1, counter |-> 0, change |-> FALSE, lastStop |-> 0, next |-> "resolved", tries |-> 0,
   offered |-> {}]

Protect(f, p) == [f EXCEPT !.flags[p] = @ \cup {"Protected"}]
Clear(f, p)   == [f EXCEPT !.flags[p] = @ \ {"Protected", "ToRemove", "BrokenPolicyAllowed"}]
Each(s, Op(_, _), ps) == FoldLeft(Op, s, InOrder(ps))

\* The end of the outermost action group.  install, remove, reinstall and autoremove keep
\* one open for the whole command (InhibitActionGroups), the upgrades (mode) do not.
Release(mode, s) == IF mode = "none" THEN s ELSE MarkAndSweep(s)

-----------------------------------------------------------------------------
(* Scores *)

DepScore(d)    == CASE d.type \in {"Depends", "Recommends"} -> 1 [] d.type \in {"Conflicts", "Breaks"} -> -1 [] OTHER -> 0
Versioned(alt) == ~(ToSet(VersionList[alt.pkg]) \subseteq alt.vers)
Providers(s, n) == {p \in Pkgs : n \in ProvidesOf[s.st[p].inst]}

MakeScores(s, flags) ==
  LET planned == {p \in Pkgs : s.st[p].inst # NoVer}
      base(p) == IF p \notin planned THEN 0
                 ELSE (IF p \in Essential THEN 100 ELSE 0) + (IF s.st[p].inst \in Downloadable THEN -1 ELSE -2)
                      + (IF s.cur[p] # NoVer /\ s.st[p].cand \in Downloadable THEN 1 ELSE 0)
      reach(k) == LET alt == AltOf(k) IN
                  IF Versioned(alt) /\ s.st[alt.pkg].inst \notin alt.vers THEN {}
                  ELSE {alt.pkg} \cup {p \in Providers(s, alt.pkg) : s.st[p].inst \in alt.vers}
      active  == {k \in Keys : s.st[Owner[k[1]]].inst = k[1]}
      voted(k, p) == IF p \in reach(k) THEN DepScore(DepOf(k)) ELSE 0
      first   == [p \in Pkgs |-> base(p) + FoldSet(LAMBDA k, n : n + voted(k, p), 0, active)]
      inherit(k, p) == LET from == first[Owner[k[1]]] IN
                       IF p \in planned /\ AltOf(k).pkg = p /\ DepOf(k).type \in {"Depends", "Recommends"} /\ from > 0 THEN from ELSE 0
      second  == [p \in Pkgs |-> first[p] + FoldSet(LAMBDA k, n : n + inherit(k, p), 0, active)]
      abs(i)  == IF i < 0 THEN -i ELSE i
      third   == FoldLeft(LAMBDA sc, n : [p \in Pkgs |-> IF p \in Providers(s, n) THEN sc[p] + abs(sc[n] - first[n]) ELSE sc[p]], second, PkgList)
  IN [p \in Pkgs |-> third[p] + (IF "Protected" \in flags[p] THEN 10000 ELSE 0) + (IF p \in Essential THEN 5000 ELSE 0)]

ByScore(score) == StableSort(PkgList, LAMBDA p, q : score[p] > score[q])

-----------------------------------------------------------------------------
(* DoUpgrade: r is [s, flags, ok] *)

SmartTargetPkg(alt) ==
  LET others == {p \in Pkgs : \E v \in ToSet(VersionList[p]) : alt.pkg \in ProvidesOf[v]}
  IN IF VersionList[alt.pkg] # <<>> \/ others = {} THEN alt.pkg ELSE CHOOSE p \in others : \A q \in others : Id(p) <= Id(q)

CandidateFixes(s, k) == s.ds[k].CVer # IsNegative(DepOf(k))

RECURSIVE DoUpgrade(_, _, _)

UpgradeTarget(r, v, k, q) ==
  LET done(up) == [r EXCEPT !.s = up.s, !.flags = up.flags, !.fail = ~up.ok, !.left = up.ok]
  IN IF r.stop \/ r.left THEN r
     ELSE IF GroupState(r.s, v, k[2], "Install") THEN [r EXCEPT !.left = TRUE]
     ELSE IF r.s.st[q].protect THEN [r EXCEPT !.fail = TRUE]
     ELSE IF CandidateFixes(r.s, k) THEN done(DoUpgrade(r.s, r.flags, q))
     ELSE IF IsNegative(DepOf(k)) THEN [r EXCEPT !.left = TRUE] ELSE [r EXCEPT !.fail = TRUE]

UpgradeDepends(r, v) ==
  LET stop(u) == [u EXCEPT !.stop = u.fail]
      group(u, i) ==
        IF u.stop \/ ~IsCritical(DependsList[v][i]) THEN u
        ELSE stop(FoldLeft(LAMBDA w, j : UpgradeTarget(w, v, <<v, i, j>>, SmartTargetPkg(DependsList[v][i].alts[j])), [u EXCEPT !.left = FALSE],
                           [j \in DOMAIN DependsList[v][i].alts |-> j]))
  IN FoldLeft(group, r, [i \in DOMAIN DependsList[v] |-> i])

\* undo if we failed
UpgradeEnd(r, p, mode) ==
  [s |-> IF ~r.fail THEN r.s ELSE IF mode = "keep" THEN MarkKeep(r.s, p, FALSE) ELSE MarkDelete(r.s, p, FALSE), flags |-> r.flags, ok |-> ~r.fail]

UpgradeMarked(s, flags, p, mode) ==
  IF ~s.ok \/ s.st[p].inst = NoVer THEN [s |-> s, flags |-> flags, ok |-> FALSE]
  ELSE UpgradeEnd(UpgradeDepends([s |-> s, flags |-> flags, fail |-> FALSE, stop |-> FALSE, left |-> FALSE], s.st[p].inst), p, mode)

DoUpgrade(s, flags, p) ==
  IF "Upgradable" \notin flags[p] \/ ~Upgradable(s, p) \/ "Protected" \in flags[p] THEN [s |-> s, flags |-> flags, ok |-> FALSE]
  ELSE UpgradeMarked(MarkInstall(s, p, FALSE, FALSE, FALSE), [flags EXCEPT ![p] = @ \ {"Upgradable"}], p, s.st[p].mode)

-----------------------------------------------------------------------------
(* One package of a pass of ResolveInternal.  a holds the cache, the flags, *)
(* the scores, the kill list and what the code keeps in local variables.   *)

AllTargets(alt) ==
  LET own    == SelectSeq(VersionList[alt.pkg], LAMBDA v : v \in alt.vers)
      others == SelectSeq(PkgList, LAMBDA p : p # alt.pkg)
  IN own \o FlattenSeq([n \in DOMAIN others |-> SelectSeq(VersionList[others[n]], LAMBDA v : v \in alt.vers)])

ReInstateOrKeep(a, p, t) ==
  [a EXCEPT !.flags[p] = @ \cap {"ReInstateTried"},
            !.s = IF InstBroken(t, p) \/ t.count.broken > a.s.count.broken THEN MarkKeep(t, p, FALSE) ELSE t]

ReInstate(a, p) ==
  LET st == a.s.st[p] IN
  IF /\ st.cand # st.inst /\ a.s.cur[p] # NoVer /\ st.inst # NoVer /\ ~st.protect
     /\ "PreInstalled" \in a.flags[p] /\ "ReInstateTried" \notin a.flags[p]
  THEN ReInstateOrKeep(a, p, MarkInstall(a.s, p, FALSE, FALSE, FALSE))
  ELSE a

\* the end of an or group nothing was put on the kill list for
Decide(a, p) ==
  IF ~a.inOr \/ a.old # Len(a.kill) THEN a
  ELSE IF a.orOp = "keep" THEN [a EXCEPT !.s = MarkKeep(a.s, p, FALSE), !.change = TRUE]
  ELSE IF a.s.st[p].protect THEN a ELSE [a EXCEPT !.s = MarkDelete(a.s, p, FALSE), !.change = TRUE]

\* see if a keep will do
AfterKeep(a, p, t) ==
  IF InstBroken(t, p) THEN [a EXCEPT !.s = t, !.kept = FALSE]
  ELSE [a EXCEPT !.s = IF a.inOr /\ Install(a.s, p) THEN MarkInstall(t, p, FALSE, FALSE, FALSE) ELSE t, !.orOp = "keep", !.kept = TRUE]

TryKeep(a, p) == AfterKeep(a, p, MarkKeep(a.s, p, FALSE))

\* install the target of the dependency instead of giving up
OrRemove(a, T, t) ==
  IF InstBroken(t, T) \/ t.count.broken > a.s.count.broken
  THEN [a EXCEPT !.s = MarkDelete(t, T, FALSE), !.orOp = "remove"]
  ELSE [a EXCEPT !.s = t, !.orOp = "keep"]

FixByInstall(a, T) == OrRemove(a, T, MarkInstall(a.s, T, TRUE, FALSE, FALSE))

Done(a) == [a EXCEPT !.change = TRUE, !.done = TRUE, !.out = TRUE]
With(a, u) == [a EXCEPT !.s = u.s, !.flags = u.flags]

\* neither a keep nor an upgrade helps: remove p, or the next alternative
GiveWay(c, p, q, T, counter) ==
  IF ~c.inOr \/ c.s.st[p].garbage
  THEN [c EXCEPT !.s = MarkDelete(c.s, p, FALSE), !.score[p] = IF counter > 1 /\ @ < c.score[q] THEN c.score[q] ELSE @]
  ELSE IF c.s.cur[T] = NoVer /\ c.s.st[T].mode # "delete" /\ "ToRemove" \notin c.flags[T] /\ c.s.st[T].cand # NoVer
  THEN FixByInstall(c, T)
  ELSE c

\* change package p itself rather than q: keep it, or upgrade it, or give way
OrGiveWay(b, u, p, q, T, counter) == IF u.ok THEN With(b, u) ELSE GiveWay(With(b, u), p, q, T, counter)

OrUpgrade(b, p, q, T, brokenFix, counter) ==
  IF b.kept THEN b
  ELSE OrGiveWay(b, IF brokenFix THEN DoUpgrade(b.s, b.flags, p) ELSE [s |-> b.s, flags |-> b.flags, ok |-> FALSE], p, q, T, counter)

FixSelf(a, p, q, T, brokenFix, counter) == Done(OrUpgrade(TryKeep(a, p), p, q, T, brokenFix, counter))

\* p is protected: upgrade q
FixOther(a, p, q, up) == [With(a, up) EXCEPT !.out = up.ok, !.score[q] = IF up.ok /\ @ > a.score[p] THEN a.score[p] ELSE @]

ConsiderTarget(a, p, k, v, q, brokenFix, counter) ==
  LET negative == IsNegative(DepOf(k)) IN
  IF a.out \/ (negative /\ a.s.st[q].inst # v) THEN a
  ELSE IF a.score[p] <= a.score[q] \/ (~a.s.ds[k].Now /\ ~negative)
  THEN IF ~a.s.st[p].protect THEN FixSelf(a, p, q, AltOf(k).pkg, brokenFix, counter) ELSE FixOther(a, p, q, DoUpgrade(a.s, a.flags, q))
  ELSE IF DepOf(k).type = "Breaks" /\ GroupState(a.s, k[1], k[2], "CVer")
       THEN [a EXCEPT !.s = MarkInstall(a.s, q, FALSE, FALSE, FALSE)]
  ELSE IF a.s.st[q].protect /\ a.s.st[q].mode # "delete" THEN a
  ELSE [a EXCEPT !.kill = Append(@, [pkg |-> q, dep |-> k]), !.out = ~negative]

\* a new or group starts
OpenGroup(a, k) == [a EXCEPT !.inOr = IsCritical(DepOf(k)) /\ Len(DepOf(k).alts) > 1, !.orOp = "remove", !.old = Len(a.kill)]

\* nothing has the target: keep the package or remove it
NoTarget(a, p) == [a EXCEPT !.s = IF a.kept \/ a.inOr THEN @ ELSE MarkDelete(@, p, FALSE), !.change = TRUE, !.done = TRUE]

StopIfDone(a, inOr) == [a EXCEPT !.stop = a.done /\ ~inOr]

ConsiderTargets(a, p, k, targets, brokenFix, counter) ==
  IF targets = <<>> /\ ~IsNegative(DepOf(k)) /\ ~a.s.st[p].protect /\ ~NowBroken(a.s, p)
  THEN IF a.inOr THEN a ELSE [a EXCEPT !.change = TRUE, !.s = MarkKeep(a.s, p, FALSE), !.stop = TRUE]
  ELSE StopIfDone(IF targets = <<>> /\ ~IsNegative(DepOf(k)) /\ ~a.s.st[p].protect THEN NoTarget(TryKeep(a, p), p)
                  ELSE FoldLeft(LAMBDA b, v : ConsiderTarget(b, p, k, v, Owner[v], brokenFix, counter),
                                [a EXCEPT !.out = FALSE, !.done = FALSE], targets), a.inOr)

InGroup(a, p, k, brokenFix, counter) ==
  IF ~IsCritical(DepOf(k)) THEN a
  ELSE IF GroupState(a.s, k[1], k[2], "Install") THEN [a EXCEPT !.inOr = FALSE]
  ELSE ConsiderTargets(a, p, k, AllTargets(AltOf(k)), brokenFix, counter)

ConsiderAlternative(a, p, k, brokenFix, counter) ==
  IF a.stop THEN a ELSE InGroup(IF k[3] = 1 THEN OpenGroup(Decide(a, p), k) ELSE a, p, k, brokenFix, counter)

AfterKill(a, p, q, t, counter) ==
  LET raise == (~t.ok \/ counter > 1) /\ a.score[p] > a.score[q]
  IN [a EXCEPT !.s = t, !.score[q] = IF raise THEN a.score[p] ELSE @, !.change = @ \/ raise \/ t.ok]

ApplyKill(a, p, j, counter) ==
  AfterKill(a, p, j.pkg, IF GroupState(a.s, j.dep[1], j.dep[2], "Now") THEN MarkKeep(a.s, j.pkg, FALSE)
                         ELSE IF IsNegative(DepOf(j.dep)) THEN MarkDelete(a.s, j.pkg, FALSE) ELSE No(a.s), counter)

ConsiderAll(a, p, v, brokenFix, counter) ==
  FoldLeft(LAMBDA b, k : ConsiderAlternative(b, p, k, brokenFix, counter), a,
           FlattenSeq([i \in DOMAIN DependsList[v] |-> [j \in DOMAIN DependsList[v][i].alts |-> <<v, i, j>>]]))

DecideLast(a, p) == IF a.stop THEN a ELSE Decide(a, p)

ApplyKills(a, p, counter) ==
  IF a.s.st[p].inst = NoVer THEN a ELSE FoldLeft(LAMBDA b, j : ApplyKill(b, p, j, counter), a, a.kill)

ResolveBroken(a, p, fixing, counter) ==
  IF a.s.st[p].inst = NoVer \/ ~InstBroken(a.s, p) THEN a
  ELSE ApplyKills(DecideLast(ConsiderAll(a, p, a.s.st[p].inst, fixing, counter), p), p, counter)

ResolvePackage(s, f, p) ==
  ResolveBroken(ReInstate([s |-> s, flags |-> f.flags, score |-> f.score, kill |-> <<>>, change |-> f.change, inOr |-> FALSE,
                           orOp |-> "remove", old |-> 0, out |-> FALSE, done |-> FALSE, stop |-> FALSE, kept |-> FALSE], p),
                p, f.fixing, f.counter)

-----------------------------------------------------------------------------
(* One package of ResolveByKeepInternal *)

InstOrNewPolicyBroken(s, f, p) ==
  InstBroken(s, p) \/ ("BrokenPolicyAllowed" \notin f.flags[p] /\ ~NowPolicyBroken(s, p) /\ InstPolicyBroken(s, p))

KeepTargets(s, f, p) ==
  LET v == s.st[p].inst
      target(t, w) == IF ~InstOrNewPolicyBroken(t, f, p) \/ t.cur[Owner[w]] = NoVer \/ t.st[Owner[w]].protect THEN t
                      ELSE MarkKeep(t, Owner[w], FALSE)
      group(t, i) ==
        LET alts == DependsList[v][i].alts IN
        IF ~IsCritical(DependsList[v][i]) \/ GroupState(t, v, i, "Install") \/ ~InstOrNewPolicyBroken(t, f, p) THEN t
        ELSE FoldLeft(target, t, FlattenSeq([j \in DOMAIN alts |-> AllTargets(alts[j])]))
  IN IF v = NoVer THEN s ELSE FoldLeft(group, s, [i \in DOMAIN DependsList[v] |-> i])

-----------------------------------------------------------------------------
(* Upgrades: what is marked before the resolver runs; u is [s, f] *)

Upgrade1(s, p) == MarkInstall(s, p, FALSE, FALSE, FALSE)
Current(s)     == {p \in Pkgs : s.cur[p] # NoVer}

\* the packages MarkInstall is called for, one after the other, with or without
\* what they need, and the condition; packages marked before are protected
Requested(ps, auto, when) == [i \in DOMAIN ps |-> [pkg |-> ps[i], auto |-> auto, when |-> when]]

UpgradeList(s, mode) ==
  CASE mode = "dist"     -> LET cur == InOrder(Current(s)) IN
                            Requested(cur, FALSE, "always") \o Requested(cur, TRUE, "always") \o Requested(InOrder(Essential), TRUE, "unmarked")
                              \o Requested(cur, FALSE, "always")
    [] mode = "noremove" -> Requested(InOrder(Current(s) \ s.hold), FALSE, "planned") \o Requested(PkgList, TRUE, "marked")
    [] mode = "nonew"    -> Requested(InOrder(Current(s) \ s.hold), FALSE, "planned")
    [] OTHER             -> <<>>

UpgradeNext(s, r) ==
  IF CASE r.when = "always"   -> TRUE
       [] r.when = "planned"  -> s.st[r.pkg].inst # NoVer
       [] r.when = "marked"   -> Install(s, r.pkg)
       [] r.when = "unmarked" -> ~Install(s, r.pkg)
  THEN MarkInstall(s, r.pkg, r.auto, FALSE, FALSE) ELSE s

\* pkgDistUpgrade protects what is on hold, the others keep what would be removed
AfterUpgrade(s, p, mode) ==
  CASE mode = "dist" /\ p \in s.hold -> MarkKeep(MarkProtected(s, p), p, FALSE)
    [] mode = "noremove" /\ s.st[p].mode = "delete" -> MarkKeep(s, p, FALSE)
    [] OTHER -> s

\* what is marked for installation before pkgAllUpgradeNoNewPackages is protected
Marked(s, mode) == IF mode = "nonew" THEN {p \in Pkgs : Install(s, p)} ELSE {}

AllUpgrade(s, mode) ==
  FoldLeft(LAMBDA t, p : AfterUpgrade(t, p, mode), FoldLeft(UpgradeNext, Each(s, MarkProtected, Marked(s, mode)), UpgradeList(s, mode)), PkgList)

-----------------------------------------------------------------------------
(* The automatic removal *)

\* something needs the new package p after all
StillNeeded(s, p) ==
  LET cand == s.st[p].cand IN
  cand # NoVer /\ \E k \in UNION {RevDepends[n] : n \in {p} \cup ProvidesOf[cand]} :
    LET q == Owner[k[1]] IN
    /\ ~IsNegative(DepOf(k)) /\ IsImportantDep(DepOf(k)) /\ cand \in AltOf(k).vers
    /\ IF s.cur[q] = k[1] THEN s.st[q].mode = "keep" ELSE s.st[q].cand = k[1] /\ (NewInstall(s, q) \/ Upgrade(s, q))
    /\ ~\E v \in AltOf(k).vers : s.cur[Owner[v]] # NoVer /\ s.st[Owner[v]].inst = v

RECURSIVE SaveNeeded(_)

SaveFirst(u, need) ==
  IF need = <<>> THEN u
  ELSE SaveNeeded([u EXCEPT !.s = Release(u.mode, MarkInstall(u.s, need[1], FALSE, FALSE, FALSE)), !.tooMuch = @ \ {need[1]}, !.listed = TRUE])

SaveNeeded(u) == SaveFirst(u, SelectSeq(InOrder(u.tooMuch), LAMBDA p : StillNeeded(u.s, p)))

\* the list of what could be removed is shown with fresh marks
List(u) == IF u.listed THEN [u EXCEPT !.s = MarkAndSweep(@)] ELSE u

\* One pass over what is garbage now: with all it goes, otherwise new packages are dropped
\* again and the others listed.  The marks are those of the sweep before the pass as long
\* as an action group is open.
DoAutomaticRemove(s0, mode, all) ==
  LET remove(s, p) == Release(mode, IF all /\ s.cur[p] = NoVer THEN MarkKeep(s, p, FALSE) ELSE MarkDelete(s, p, FALSE))
      one(u, p) ==
        IF ~u.s.st[p].garbage THEN u
        ELSE IF all THEN [u EXCEPT !.s = remove(@, p)]
        ELSE IF Install(u.s, p) /\ u.s.cur[p] = NoVer THEN [u EXCEPT !.s = remove(@, p), !.tooMuch = @ \cup {p}]
        ELSE [u EXCEPT !.listed = @ \/ u.s.st[p].mode # "delete"]
      save(u) == IF u.s.count.broken # 0 \/ u.s.count.policy # 0 THEN SaveNeeded(u) ELSE u
  IN List(save(FoldLeft(one, [s |-> MarkAndSweep(s0), mode |-> mode, tooMuch |-> {}, listed |-> FALSE], PkgList)))

-----------------------------------------------------------------------------
(* Actions: a command is given *)

FixPolicy(s, mode) ==
  Each(s, LAMBDA t, p : IF NowPolicyBroken(t, p) THEN Release(mode, MarkInstall(t, p, TRUE, FALSE, TRUE)) ELSE t, Pkgs)

\* pkgFixBroken, before the resolver
MarkBroken(s) == Each(s, LAMBDA t, p : IF NowBroken(t, p) THEN MarkInstall(t, p, TRUE, FALSE, FALSE) ELSE t, Pkgs)

CheckPolicy(s, c) == IF c.fix = "policy" THEN FixPolicy(s, c.mode) ELSE s

\* OpenForInstall and CheckDeps
Command(c) ==
  /\ phase = "idle" /\ count < MaxCommands
  /\ dc' = CheckPolicy(Release(c.mode, InitCache(disk.cur, disk.hold, disk.ext)), c)
  /\ fix' = NewFix(dc')
  /\ phase' = IF dc'.count.broken = 0 \/ ((c.remove # <<>> \/ c.install # <<>>) /\ c.mode = "none") THEN "open"
              ELSE IF c.fix = "no" THEN "failed" ELSE "mend"
  /\ cmd' = [wants |-> ToSet(c.install), drops |-> ToSet(c.remove)] @@ c /\ count' = count + 1
  /\ UNCHANGED <<disk, saved, asked>>

FixBroken ==
  /\ phase = "mend"
  /\ dc' = MarkBroken(dc) /\ fix' = [NewFix(dc') EXCEPT !.fixing = TRUE, !.next = "fixed"]
  /\ phase' = "prepare"
  /\ UNCHANGED <<disk, cmd, saved, asked, count>>

\* pkgFixBroken did it; pkgMinimizeUpgrade starts
Fixed ==
  /\ phase = "fixed"
  /\ fix' = [fix EXCEPT !.pos = 1, !.change = FALSE, !.tries = 0] /\ phase' = IF dc.count.broken = 0 THEN "minimize" ELSE "failed"
  /\ UNCHANGED <<disk, dc, cmd, saved, asked, count>>

OrUpgradeAgain(s, p) == IF s.count.broken # 0 THEN Upgrade1(s, p) ELSE s

MinimizeOne(s, p) == IF ~Upgrade(s, p) \/ NewInstall(s, p) THEN s ELSE OrUpgradeAgain(MarkKeep(s, p, FALSE), p)

\* one round of pkgMinimizeUpgrade
Minimize ==
  /\ phase = "minimize"
  /\ LET again(t, p) == IF t.count.broken # 0 THEN Upgrade1(t, p) ELSE t
         one(t, p) == IF ~Upgrade(t, p) \/ NewInstall(t, p) THEN t ELSE again(MarkKeep(t, p, FALSE), p)
     IN dc' = FoldLeft(one, dc, PkgList)
  /\ IF fix.tries < 9 /\ \E p \in Pkgs : Upgrade(dc, p) /\ ~Upgrade(dc', p)
     THEN fix' = [fix EXCEPT !.tries = @ + 1] /\ UNCHANGED phase
     ELSE fix' = NewFix(dc') /\ phase' = IF dc'.count.broken = 0 THEN "minimized" ELSE "failed"
  /\ UNCHANGED <<disk, cmd, saved, asked, count>>

\* the action group ends
Minimized ==
  /\ phase = "minimized"
  /\ dc' = Release(cmd.mode, dc) /\ phase' = "open"
  /\ UNCHANGED <<disk, cmd, fix, saved, asked, count>>

\* the first lines of DoCacheManipulationFromCommandLine: the only sweep before the marks
DoCacheManipulation ==
  /\ phase = "open"
  /\ dc' = MarkAndSweep(dc) /\ phase' = "mark"
  /\ UNCHANGED <<disk, cmd, fix, saved, asked, count>>

TryToRemove ==
  /\ phase = "mark" /\ cmd.remove # <<>>
  /\ LET p == Head(cmd.remove)
         s == MarkProtected(dc, p)
     IN /\ fix' = [Protect(Clear(fix, p), p) EXCEPT !.flags[p] = @ \cup {"ToRemove"}]
        /\ dc' = IF dc.cur[p] = NoVer THEN [s EXCEPT !.hold = @ \cup {p}] ELSE Release(cmd.mode, MarkDelete(s, p, TRUE))
  /\ cmd' = [cmd EXCEPT !.remove = Tail(@)]
  /\ UNCHANGED <<disk, phase, saved, asked, count>>

\* what TryToInstall does to the cache
InstallRequest(s, p) == Release(cmd.mode, MarkInstall(MarkProtected(Release(cmd.mode, s), p), p, FALSE, TRUE, FALSE))
ReInstallRequest(s, p) ==
  IF ~Install(s, p) /\ cmd.reinstall /\ s.cur[p] \in Downloadable THEN Release(cmd.mode, SetReInstall(s, p)) ELSE s

TryToInstall ==
  /\ phase = "mark" /\ cmd.remove = <<>> /\ cmd.install # <<>>
  /\ LET v == Head(cmd.install)
         p == Owner[v]
     IN \E t \in {ReInstallRequest(InstallRequest(SetCandidateVersion(dc, p, v), p), p)} :
          LET manual == ~Install(t, p) /\ t.st[p].auto /\ ~cmd.reinstall
          IN /\ dc' = IF manual THEN Release(cmd.mode, MarkAuto(t, p, FALSE)) ELSE t
             /\ fix' = [Protect(Clear(fix, p), p) EXCEPT !.later = IF fix.brokenFix THEN @ ELSE Append(@, p), !.changed = @ \/ manual]
  /\ cmd' = [cmd EXCEPT !.install = Tail(@)]
  /\ UNCHANGED <<disk, phase, saved, asked, count>>

-----------------------------------------------------------------------------
(* runTheSolver *)

BeginTransaction ==
  /\ phase = "mark" /\ cmd.remove = <<>> /\ cmd.install = <<>>
  /\ saved' = dc /\ phase' = "auto"
  /\ UNCHANGED <<disk, dc, cmd, fix, asked, count>>

DoAutoInstall ==
  /\ phase = "auto" /\ fix.later # <<>>
  /\ dc' = Release(cmd.mode, MarkInstall(dc, Head(fix.later), TRUE, TRUE, FALSE))
  /\ fix' = [fix EXCEPT !.later = Tail(@)]
  /\ UNCHANGED <<disk, cmd, phase, saved, asked, count>>

Scored(f, score) == [f EXCEPT !.score = score, !.plist = ByScore(score), !.pos = 1, !.lastStop = 0, !.counter = 0, !.change = FALSE]
ByKeep(s, f)     == Scored(f, MakeScores(s, f.flags))

\* problems the system had before are not ours to resolve
RefuseBroken ==
  /\ phase = "auto" /\ fix.later = <<>> /\ fix.brokenFix /\ dc.count.broken # 0
  /\ phase' = "unresolved"
  /\ UNCHANGED <<disk, dc, cmd, fix, saved, asked, count>>

ChooseAlgorithm ==
  /\ phase = "auto" /\ fix.later = <<>> /\ ~(fix.brokenFix /\ dc.count.broken # 0)
  /\ dc' = AllUpgrade(dc, cmd.mode)
  /\ LET fresh == [FoldLeft(Protect, NewFix(dc), InOrder(Marked(dc, cmd.mode) \cup (IF cmd.mode = "dist" THEN dc.hold ELSE {})))
                     EXCEPT !.changed = fix.changed]
     IN fix' = CASE cmd.mode = "none" -> [fix EXCEPT !.fixing = TRUE, !.next = "resolved"]
                 [] cmd.mode = "dist" -> [fresh EXCEPT !.next = "keepdist"]
                 [] OTHER             -> ByKeep(dc', [fresh EXCEPT !.next = "resolved"])
  /\ phase' = IF cmd.mode \in {"none", "dist"} THEN "prepare" ELSE "keep"
  /\ UNCHANGED <<disk, cmd, saved, asked, count>>

\* record which packages are marked for install; with BrokenFix the broken ones are marked too
Prepare ==
  /\ phase = "prepare"
  /\ LET tried(s, p) == IF ~Install(s, p) /\ InstBroken(s, p) /\ fix.fixing THEN Upgrade1(s, p) ELSE s
         flag(f, p, installed) == [f EXCEPT ![p] = (IF installed THEN @ \cup {"PreInstalled"} ELSE @ \ {"PreInstalled"}) \cup {"Upgradable"}]
         one(u, p, t) == [s |-> t, again |-> u.again \/ (~Install(u.s, p) /\ Install(t, p)), flags |-> flag(u.flags, p, Install(u.s, p))]
     IN \E u \in {FoldLeft(LAMBDA w, p : one(w, p, tried(w.s, p)), [s |-> dc, flags |-> fix.flags, again |-> FALSE], PkgList)} :
          /\ dc' = u.s
          /\ IF u.again THEN fix' = [fix EXCEPT !.flags = u.flags] /\ UNCHANGED phase
             ELSE fix' = ByKeep(u.s, [fix EXCEPT !.flags = u.flags]) /\ phase' = "resolve"
  /\ UNCHANGED <<disk, cmd, saved, asked, count>>

ResolveOne ==
  /\ phase = "resolve" /\ fix.pos <= Len(PkgList)
  /\ \E a \in {ResolvePackage(dc, fix, fix.plist[fix.pos])} :
       /\ dc' = a.s
       /\ fix' = [fix EXCEPT !.flags = a.flags, !.score = a.score, !.change = a.change, !.pos = @ + 1]
  /\ UNCHANGED <<disk, cmd, phase, saved, asked, count>>

\* mutant: the passes are not counted
NextPassForever ==
  /\ phase = "resolve" /\ fix.pos > Len(PkgList) /\ fix.change
  /\ fix' = [fix EXCEPT !.pos = 1, !.counter = IF @ + 1 < MaxCounter THEN @ + 1 ELSE @, !.change = FALSE]
  /\ UNCHANGED <<disk, dc, cmd, phase, saved, asked, count>>

NextPass ==
  /\ phase = "resolve" /\ fix.pos > Len(PkgList) /\ fix.change /\ fix.counter + 1 < MaxCounter
  /\ fix' = [fix EXCEPT !.pos = 1, !.counter = @ + 1, !.change = FALSE]
  /\ UNCHANGED <<disk, dc, cmd, phase, saved, asked, count>>

\* packages the resolver added are automatic
ResolveDone ==
  /\ phase = "resolve" /\ fix.pos > Len(PkgList) /\ ~(fix.change /\ fix.counter + 1 < MaxCounter)
  /\ LET s == Each(dc, LAMBDA t, p : MarkAuto(t, p, TRUE), {p \in Pkgs : NewInstall(dc, p) /\ "PreInstalled" \notin fix.flags[p]})
         f == [NewFix(s) EXCEPT !.changed = fix.changed, !.flags = [p \in Pkgs |-> IF InstPolicyBroken(s, p) THEN {"BrokenPolicyAllowed"} ELSE {}]]
     IN IF dc.count.broken # 0 THEN dc' = Release(cmd.mode, dc) /\ phase' = (IF fix.next = "fixed" THEN "failed" ELSE "unresolved") /\ UNCHANGED fix
        ELSE IF fix.next = "keepdist" THEN dc' = s /\ phase' = "keep" /\ fix' = ByKeep(s, f)
        ELSE dc' = Release(cmd.mode, s) /\ phase' = fix.next /\ UNCHANGED fix
  /\ UNCHANGED <<disk, cmd, saved, asked, count>>

KeepOne ==
  /\ phase = "keep" /\ fix.pos <= Len(PkgList)
  /\ LET p == fix.plist[fix.pos] IN
     \E kept \in {IF dc.st[p].protect THEN dc ELSE MarkKeep(dc, p, FALSE)} :
       IF dc.st[p].inst = NoVer \/ ~InstOrNewPolicyBroken(dc, fix, p)
       THEN fix' = [fix EXCEPT !.pos = @ + 1] /\ UNCHANGED <<dc, phase>>
       ELSE IF ~dc.st[p].protect /\ ~InstOrNewPolicyBroken(kept, fix, p)
       THEN dc' = kept /\ fix' = [fix EXCEPT !.pos = 1] /\ UNCHANGED phase
       ELSE \E tried \in {KeepTargets(kept, fix, p)} :
              IF InstOrNewPolicyBroken(tried, fix, p)
              THEN dc' = tried /\ fix' = [fix EXCEPT !.pos = @ + 1] /\ UNCHANGED phase
              ELSE IF fix.pos = fix.lastStop
              THEN dc' = Release(cmd.mode, tried) /\ phase' = "unresolved" /\ UNCHANGED fix
              ELSE dc' = tried /\ fix' = [fix EXCEPT !.lastStop = fix.pos, !.pos = 1] /\ UNCHANGED phase
  /\ UNCHANGED <<disk, cmd, saved, asked, count>>

KeepDone ==
  /\ phase = "keep" /\ fix.pos > Len(PkgList)
  /\ dc' = Release(cmd.mode, dc)
  /\ phase' = IF dc.count.broken = 0 THEN "resolved" ELSE "unresolved"
  /\ UNCHANGED <<disk, cmd, fix, saved, asked, count>>

-----------------------------------------------------------------------------
(* The solver of APT 3.0 as a second try (module Solver3): a selection that *)
(* satisfies all dependencies and the requests, or none.                    *)

Satisfied(sel, v) ==
  \A i \in DOMAIN DependsList[v] :
    LET d == DependsList[v][i]
        met == \E j \in DOMAIN d.alts : \E w \in d.alts[j].vers : sel[Owner[w]] = w
    IN IsCritical(d) => met # IsNegative(d)

Consistent(sel) == \A p \in Pkgs : sel[p] # NoVer => Satisfied(sel, sel[p])

\* what the restrictions of the request leave open for one package
Open(s, p) ==
  LET st == s.st[p]
      mayGo   == p \notin Essential /\ (s.cur[p] = NoVer \/ cmd.mode \notin {"noremove", "nonew"})
      mayCome == s.cur[p] # NoVer \/ cmd.mode # "nonew"
  IN IF st.protect THEN {st.inst}
     ELSE IF p \in s.hold THEN {s.cur[p]}
     ELSE IF st.mode = "delete" THEN {NoVer}
     ELSE (IF mayGo THEN {NoVer} ELSE {}) \cup {s.cur[p]} \cup (IF mayCome THEN {st.cand} ELSE {})

Selections(s) ==
  LET add(sels, p) == {p :> v @@ sel : v \in Open(s, p), sel \in sels}
  IN {sel \in FoldLeft(add, {<<>>}, PkgList) : Consistent(sel)}

\* the marks it leaves are not modelled, DoAutomaticRemove sweeps before anybody reads them
ToDepCache(s, sel) ==
  LET unmarked(t, p) == Put(t, p, [t.st[p] EXCEPT !.marked = FALSE])
      user(t, p)     == t.st[p].protect /\ ~t.st[p].auto
      one(t, p) ==
        IF sel[p] = NoVer THEN IF t.cur[p] # NoVer \/ Install(t, p) THEN MarkDelete(t, p, t.st[p].protect) ELSE t
        ELSE IF sel[p] = t.cur[p] THEN MarkKeep(t, p, user(t, p))
        ELSE MarkInstall(SetCandidateVersion(unmarked(t, p), p, sel[p]), p, FALSE, user(t, p), FALSE)
  IN Release(cmd.mode, FoldLeft(one, s, PkgList))

\* a restricted upgrade with arguments is not given to the other solver
MayFallBack == ~(cmd.mode \in {"noremove", "nonew"} /\ cmd.wants \cup cmd.drops # {}) /\ ~(fix.brokenFix /\ saved.count.broken # 0)

Solver3Succeeds ==
  /\ phase = "unresolved" /\ MayFallBack
  /\ \E sel \in Selections(saved) : dc' = ToDepCache(Rollback(dc, saved), sel)
  /\ phase' = "resolved"
  /\ UNCHANGED <<disk, cmd, fix, saved, asked, count>>

\* the result of the internal resolver comes back, and is refused
Solver3Fails ==
  /\ phase = "unresolved" /\ (MayFallBack => Selections(saved) = {})
  /\ phase' = "failed"
  /\ UNCHANGED <<disk, dc, cmd, fix, saved, asked, count>>

-----------------------------------------------------------------------------
(* The rest of the command *)

AutoRemove ==
  /\ phase = "resolved"
  /\ \E u \in {DoAutomaticRemove(dc, cmd.mode, cmd.autoremove)} :
       /\ dc' = u.s
       /\ fix' = [fix EXCEPT !.offered = IF u.listed THEN {p \in Pkgs : u.s.st[p].garbage /\ u.s.st[p].mode # "delete"} ELSE {}]
  /\ phase' = IF dc'.count.broken # 0 THEN "broke" ELSE "confirm"
  /\ UNCHANGED <<disk, cmd, saved, asked, count>>

\* A package of the command line that was automatic becomes manual, but for reinstall, and
\* where something needs it before the command: then it only does if its version stays
\* (TryToInstall); StateChange leaves the flag of a marked package alone.
StaysAutomatic(p, new) ==
  p \in disk.ext /\ (cmd.reinstall \/ (new[p] # disk.cur[p] /\ p \in MarkRequired(InitCache(disk.cur, disk.hold, disk.ext)).marked))

NothingToDo == dc.count.inst = 0 /\ dc.count.del = 0

\* the plan is carried out; extended_states is saved if there is one or a mark changed
Commit ==
  /\ phase = "confirm"
  /\ LET new == [p \in Pkgs |-> IF dc.st[p].mode = "keep" THEN disk.cur[p] ELSE dc.st[p].inst] IN
     /\ disk' = [disk EXCEPT !.cur = new, !.ext = IF NothingToDo /\ ~fix.changed THEN @ ELSE WriteStateFile(dc, TRUE)]
     /\ asked' = {p \in asked \cup {Owner[v] : v \in cmd.wants} : new[p] # NoVer /\ ~StaysAutomatic(p, new)}
  /\ phase' = "idle"
  /\ UNCHANGED <<dc, cmd, fix, saved, count>>

Decline ==
  /\ phase = "confirm" /\ ~NothingToDo
  /\ phase' = "idle"
  /\ UNCHANGED <<disk, dc, cmd, fix, saved, asked, count>>

Fail ==
  /\ phase \in {"failed", "broke"}
  /\ phase' = "idle"
  /\ UNCHANGED <<disk, dc, cmd, fix, saved, asked, count>>

Over == phase = "idle" /\ count = MaxCommands /\ UNCHANGED vars

Init ==
  /\ disk \in Systems
  /\ dc = InitCache(disk.cur, disk.hold, disk.ext) /\ fix = NewFix(dc) /\ saved = dc
  /\ cmd = [remove |-> <<>>, install |-> <<>>, mode |-> "none", fix |-> "no", reinstall |-> FALSE, autoremove |-> FALSE,
            wants |-> {}, drops |-> {}]
  /\ phase = "idle" /\ count = 0
  /\ asked = {p \in Pkgs : disk.cur[p] # NoVer} \ disk.ext

Step ==
  \/ \E c \in Commands : Command(c)
  \/ DoCacheManipulation \/ FixBroken \/ Fixed \/ Minimize \/ Minimized \/ TryToRemove \/ TryToInstall
  \/ BeginTransaction \/ DoAutoInstall \/ RefuseBroken \/ ChooseAlgorithm
  \/ Prepare \/ ResolveOne \/ NextPass \/ ResolveDone \/ KeepOne \/ KeepDone
  \/ Solver3Succeeds \/ Solver3Fails \/ AutoRemove \/ Commit \/ Decline \/ Fail

Next == Step \/ Over

Spec == Init /\ [][Next]_vars

\* the program runs on; a step is always possible before the end
FairSpec == Spec /\ ([]<>(phase = "idle" /\ count = MaxCommands) \/ []<><<Step>>_vars)

-----------------------------------------------------------------------------
(* Properties *)

\* The counters and broken flags that Update keeps step by step equal those a
\* pass over everything computes (CheckConsistency: "Internal Inconsistency
\* in pkgDepCache").
CacheConsistent ==
  LET t == PerformDependencyPass(dc)
  IN /\ dc.count = t.count /\ dc.size = t.size
     /\ \A p \in Pkgs : dc.st[p].nowOk = t.st[p].nowOk /\ dc.st[p].instOk = t.st[p].instOk

Plan == [p \in Pkgs |-> dc.st[p].inst]

\* What is put to the user satisfies every dependency, whatever the counters say.
ResultSound == phase = "confirm" => Consistent(Plan)

\* The plan has the versions asked for, not the packages to be removed, and
\* leaves alone what is on hold and essential and was not named.
RequestsHonoured ==
  phase = "confirm" =>
    /\ \A v \in cmd.wants : Plan[Owner[v]] = v
    /\ \A p \in cmd.drops : Plan[p] = NoVer \/ \E v \in cmd.wants : Owner[v] = p
    /\ \A p \in disk.hold : Plan[p] = disk.cur[p] \/ p \in cmd.drops \cup {Owner[v] : v \in cmd.wants}
    /\ \A p \in Essential : disk.cur[p] # NoVer /\ p \notin cmd.drops => Plan[p] # NoVer

\* upgrade removes nothing; without --with-new-pkgs it adds nothing
UpgradeGentle ==
  phase = "confirm" /\ cmd.mode \in {"noremove", "nonew"} /\ cmd.wants \cup cmd.drops = {} /\ ~cmd.autoremove =>
    \A p \in Pkgs : /\ disk.cur[p] # NoVer => Plan[p] # NoVer
                    /\ cmd.mode = "nonew" /\ disk.cur[p] = NoVer => Plan[p] = NoVer

\* The automatic removal takes nothing away that something else needs, though it walks the
\* marks of before (the "AutoRemover broke stuff" error).
AutoRemoverHarmless == phase # "broke"

\* A package the user asked for is manual from then on, until it is removed, or a
\* transitional version hands its flag on.
AskedStaysManual == phase = "idle" => \A p \in asked \cap disk.ext : disk.cur[p] \in OldLibs

\* what is listed for automatic removal can go at once
GarbageUnneeded ==
  phase = "confirm" => Consistent([p \in Pkgs |-> IF p \in fix.offered THEN NoVer ELSE Plan[p]])

\* The plan of every command is sound, is what was asked for, and rests on
\* counters that are exact.
PlanSound == CacheConsistent /\ ResultSound /\ RequestsHonoured /\ UpgradeGentle

\* The marks of automatic packages, set, kept and saved over several commands,
\* never cost the user a package that was asked for or that something needs.
AutomaticSafe == AutoRemoverHarmless /\ AskedStaysManual /\ GarbageUnneeded

\* every command ends
CommandEnds == []<>(phase = "idle")
=============================================================================
