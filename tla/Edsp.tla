------------------------------- MODULE Edsp ---------------------------------
(***************************************************************************)
(* The external solver and planner protocols EDSP and EIPP (edsp.cc,       *)
(* apt-pkg/edsp/, apt-internal-solver.cc, apt-internal-planner.cc): APT    *)
(* writes a request and a scenario made from its depcache into a pipe, the *)
(* other process builds a cache of its own from them, applies the request, *)
(* decides, and answers with stanzas that name versions by APT's numbers.  *)
(*                                                                         *)
(* A request is a sequence of lines, a scenario a sequence of version      *)
(* stanzas, dependency fields are sequences of names, "|" and ",". Pins    *)
(* are not repeated here (Policy.tla): they reach the solver as APT-Pin.   *)
(* "dump" is `apt-internal-solver scenario`, which writes the scenario of  *)
(* some packages only.                                                     *)
(***************************************************************************)
EXTENDS Integers, Sequences, FiniteSets, SequencesExt

CONSTANTS
  PkgOrder,     \* the packages, in the order of the cache
  VersionList,  \* package -> its versions' IDs, newest first
  Online,       \* versions some index offers
  DependsList,  \* version -> sequence of [to, or, critical, implicit]
  AptStates,    \* package -> the states the depcache may have it in
  VersionCount, \* IDs are 0..VersionCount - 1
  MachineID,    \* what getMachineID returns, a sequence, empty for none
  MaxStanzas    \* length of the answers of an unknown solver

VARIABLES
  protocol,     \* "edsp", "eipp", or "dump"
  peer,         \* "internal", or "other": a solver of unknown behaviour
  DCache,       \* APT's depcache
  flags,        \* Request flags APT asks with
  pkgset,       \* packages of a limited scenario
  request,      \* lines written and not yet read
  scenario,     \* stanzas written
  side,         \* the other process: [flags, machine, actions, cache, mapping]
  response,     \* its answer, stanzas [type, id]
  ops,          \* what a planner's answer made the package manager do
  seenOnce,
  begun,        \* DCache and response when APT begins to read the answer
  session       \* the step that comes next

edspvars == <<protocol, peer, DCache, flags, pkgset, request, scenario, side, response, ops, seenOnce, begun, session>>

NoVer == -1
Pkgs == ToSet(PkgOrder)
ParentPkg(v) == CHOOSE p \in Pkgs : v \in ToSet(VersionList[p])
Place(p, v) == CHOOSE i \in 1..Len(VersionList[p]) : VersionList[p][i] = v
Newer(p, v, w) == Place(p, v) < Place(p, w)

(* StateCache::NewInstall, Upgrade, Downgrade, Delete, InstVerIter         *)
NewInstall(P) == P.mode = "install" /\ P.cur = NoVer
Upgrade(p, P) == P.mode = "install" /\ P.cur # NoVer /\ P.cand # P.cur /\ Newer(p, P.cand, P.cur)
Downgrade(p, P) == P.mode = "install" /\ P.cur # NoVer /\ P.cand # P.cur /\ Newer(p, P.cur, P.cand)
Delete(P) == P.mode = "delete"
InstVer(P) == CASE P.mode = "install" -> P.cand [] P.mode = "delete" -> NoVer [] OTHER -> P.cur

NoAnswer == [Cache |-> <<>>, response |-> <<>>]
NoSide == [flags |-> {}, machine |-> <<>>, actions |-> <<>>, cache |-> <<>>, mapping |-> <<>>]

(* What pkgProblemResolver and APT::Upgrade ask the solver with, and the   *)
(* dump of a failed run of apt; AUTOREMOVE goes with any of them.          *)
ResolveFlags ==
  {{}, {"UPGRADE_ALL"}, {"FORBID_NEW_INSTALL", "FORBID_REMOVE"}, {"UPGRADE_ALL", "FORBID_REMOVE"}, {"AUTOREMOVE", "FORBID_NEW_INSTALL"},
   {"AUTOREMOVE", "UPGRADE_ALL", "FORBID_NEW_INSTALL", "FORBID_REMOVE"}, {"UPGRADE_ALL", "FORBID_NEW_INSTALL"}}
(* pkgPackageManager::OrderInstall asks for one of these at a time.        *)
OrderFlags == {{}, {"NO_IMMEDIATE_CONFIGURATION"}, {"IMMEDIATE_CONFIGURATION_ALL"}, {"ALLOW_TEMPORARY_REMOVE_OF_ESSENTIALS"}}

Init ==
  /\ protocol \in {"edsp", "eipp", "dump"} /\ peer \in {"internal", "other"}
  /\ DCache \in {c \in [Pkgs -> UNION {AptStates[p] : p \in Pkgs}] : \A p \in Pkgs : c[p] \in AptStates[p]}
  /\ flags \in (IF protocol = "edsp" THEN ResolveFlags ELSE OrderFlags)
  /\ (peer = "other" \/ protocol = "dump") => flags = {}
  /\ peer = "other" => protocol = "edsp"
  /\ pkgset \in (IF protocol = "dump" THEN SUBSET Pkgs ELSE {{}})
  /\ request = <<>> /\ scenario = <<>> /\ side = NoSide /\ response = <<>> /\ ops = <<>> /\ seenOnce = {} /\ begun = NoAnswer
  /\ session = IF protocol = "dump" THEN "scenario" ELSE "request"

(* Writing. A list of packages is written when it is not empty.            *)
InOrder(S) == SelectSeq(PkgOrder, LAMBDA p : p \in S)
Line(tag, value, written) == IF written THEN <<[tag |-> tag, value |-> value]>> ELSE <<>>
PkgLine(tag, S) == Line(tag, InOrder(S), S # {})

EdspInstall ==
  {p \in Pkgs : LET P == DCache[p] IN
     ~Delete(P) /\ (NewInstall(P) \/ Upgrade(p, P) \/ P.reinst \/ (P.mode = "keep" /\ P.protect))}
EdspRequest ==
  LET f(x) == x \in flags
  IN Line("Request", "EDSP", TRUE)
     \o Line("Machine-ID", MachineID, MachineID # <<>>)
     \o PkgLine("Remove", {p \in Pkgs : Delete(DCache[p])})
     \o PkgLine("Install", EdspInstall)
     \o Line("Autoremove", TRUE, f("AUTOREMOVE"))
     \o Line("Upgrade-All", TRUE, f("UPGRADE_ALL"))
     \o Line("Upgrade", TRUE, f("UPGRADE_ALL") /\ (f("FORBID_NEW_INSTALL") \/ f("FORBID_REMOVE")))
     \o Line("Dist-Upgrade", TRUE, f("UPGRADE_ALL") /\ ~f("FORBID_NEW_INSTALL") /\ ~f("FORBID_REMOVE"))
     \o Line("Forbid-New-Install", f("FORBID_NEW_INSTALL"), f("FORBID_NEW_INSTALL") \/ f("FORBID_REMOVE"))
     \o Line("Forbid-Remove", f("FORBID_REMOVE"), f("FORBID_NEW_INSTALL") \/ f("FORBID_REMOVE"))
     \o Line("", "", TRUE)

Boring(P) == P.purge /\ P.state = "config-files"
EippRequest ==
  LET f(x) == x \in flags
      told == {p \in Pkgs : ~Boring(DCache[p])}
      del == {p \in told : Delete(DCache[p])}
      inst == {p \in told \ del : NewInstall(DCache[p]) \/ Upgrade(p, DCache[p]) \/ Downgrade(p, DCache[p])}
      reinst == {p \in told \ (del \cup inst) : DCache[p].reinst}
  IN Line("Request", "EIPP", TRUE)
     \o PkgLine("Remove", del) \o PkgLine("Install", inst) \o PkgLine("ReInstall", reinst)
     \o Line("Immediate-Configuration", TRUE, f("IMMEDIATE_CONFIGURATION_ALL"))
     \o Line("Immediate-Configuration", FALSE, ~f("IMMEDIATE_CONFIGURATION_ALL") /\ f("NO_IMMEDIATE_CONFIGURATION"))
     \o Line("Allow-Temporary-Remove-of-Essentials", TRUE,
             f("ALLOW_TEMPORARY_REMOVE_OF_ESSENTIALS") /\ ~f("IMMEDIATE_CONFIGURATION_ALL") /\ ~f("NO_IMMEDIATE_CONFIGURATION"))
     \o Line("", "", TRUE)

WriteRequest ==
  /\ session = "request"
  /\ request' = IF protocol = "edsp" THEN EdspRequest ELSE EippRequest
  /\ session' = "scenario"
  /\ UNCHANGED <<protocol, peer, DCache, flags, pkgset, scenario, side, response, ops, seenOnce, begun>>

(* WriteScenarioDependency and WriteScenarioLimitedDependency: one field   *)
(* per type of dependency, "Depends" for the critical ones here and        *)
(* "Recommends" for the others.                                            *)
Field(d) == IF d.critical THEN "Depends" ELSE "Recommends"
NoText == [t \in {"Depends", "Recommends"} |-> <<>>]

AddName(acc, d) ==
  [text |-> [acc.text EXCEPT ![Field(d)] =
               (IF ~acc.orGroup /\ @ # <<>> THEN Append(@, ",") ELSE @) \o <<d.to>> \o (IF d.or THEN <<"|">> ELSE <<>>)],
   orGroup |-> d.or]
\* mutant: the dangling " | " stays when the last alternative is left out
LimitedStep_Kept(acc, d, limit) ==
  IF d.to \in limit THEN AddName(acc, d)
  ELSE IF ~acc.orGroup \/ d.or THEN acc
  ELSE [acc EXCEPT !.orGroup = FALSE]
LimitedStep(acc, d, limit) ==
  IF d.to \in limit THEN AddName(acc, d)
  ELSE IF ~acc.orGroup \/ d.or THEN acc
  ELSE [text |-> [acc.text EXCEPT ![Field(d)] = Front(@)], orGroup |-> FALSE]

WrittenDeps(v, OnlyCritical) == SelectSeq(DependsList[v], LAMBDA d : ~d.implicit /\ (OnlyCritical => d.critical))
WriteScenarioDependency(v) == FoldLeft(AddName, [text |-> NoText, orGroup |-> FALSE], WrittenDeps(v, FALSE)).text
WriteScenarioLimitedDependency(v, limit, OnlyCritical) ==
  FoldLeft(LAMBDA acc, d : LimitedStep(acc, d, limit), [text |-> NoText, orGroup |-> FALSE], WrittenDeps(v, OnlyCritical)).text

SkipUnavailableVersions(p, v) == DCache[p].cur = NoVer /\ DCache[p].cand # v /\ v \notin Online
EdspStanza(p, v, text) ==
  [Package |-> p, APT_ID |-> v, Installed |-> DCache[p].cur = v,
   Hold |-> DCache[p].hold \/ (DCache[p].mode = "keep" /\ DCache[p].protect),
   APT_Candidate |-> DCache[p].cand = v, APT_Automatic |-> DCache[p].auto, Status |-> "", depends |-> text]
EippStanza(p, v, text) ==
  [Package |-> p, APT_ID |-> v, Installed |-> FALSE, Hold |-> FALSE, APT_Candidate |-> FALSE, APT_Automatic |-> FALSE,
   Status |-> IF DCache[p].cur = v THEN DCache[p].state ELSE "", depends |-> text]

EdspScenario ==
  LET vs == FlattenSeq([i \in DOMAIN PkgOrder |-> SelectSeq(VersionList[PkgOrder[i]], LAMBDA v : ~SkipUnavailableVersions(PkgOrder[i], v))])
  IN [i \in DOMAIN vs |-> EdspStanza(ParentPkg(vs[i]), vs[i], WriteScenarioDependency(vs[i]))]
LimitedScenario ==
  LET vs == FlattenSeq([i \in DOMAIN PkgOrder |-> IF PkgOrder[i] \notin pkgset THEN <<>>
                          ELSE SelectSeq(VersionList[PkgOrder[i]], LAMBDA v : ~SkipUnavailableVersions(PkgOrder[i], v))])
  IN [i \in DOMAIN vs |-> EdspStanza(ParentPkg(vs[i]), vs[i], WriteScenarioLimitedDependency(vs[i], pkgset, FALSE))]

(* forAllInterestingVersions: what is installed and what shall be.         *)
InterestingVersions(P) ==
  IF P.state = "not-installed" THEN (IF P.mode = "install" THEN <<InstVer(P)>> ELSE <<>>)
  ELSE (IF P.cur # NoVer THEN <<P.cur>> ELSE <<>>)
       \o (IF ~Delete(P) /\ InstVer(P) # P.cur THEN <<InstVer(P)>> ELSE <<>>)
MarkedPkgs ==
  LET vs == UNION {ToSet(InterestingVersions(DCache[p])) : p \in Pkgs}
  IN {ParentPkg(v) : v \in vs} \cup UNION {{d.to : d \in {e \in ToSet(DependsList[v]) : e.critical}} : v \in vs}
EippScenario(marked) ==
  LET vs == FlattenSeq([i \in DOMAIN PkgOrder |-> IF PkgOrder[i] \notin marked THEN <<>> ELSE InterestingVersions(DCache[PkgOrder[i]])])
  IN [i \in DOMAIN vs |-> EippStanza(ParentPkg(vs[i]), vs[i], WriteScenarioLimitedDependency(vs[i], marked, TRUE))]

WriteScenario ==
  /\ session = "scenario"
  /\ \E m \in {IF protocol = "eipp" THEN MarkedPkgs ELSE pkgset} :
       /\ pkgset' = m
       /\ scenario' = CASE protocol = "edsp" -> EdspScenario
                        [] protocol = "dump" -> LimitedScenario
                        [] OTHER -> EippScenario(m)
  /\ session' = CASE protocol = "dump" -> "done" [] peer = "other" -> "answer" [] OTHER -> "read"
  (* EIPP::OrderInstall tells no planner about configuration files to purge *)
  /\ ops' = IF protocol = "eipp" THEN [i \in 1..Len(InOrder({p \in Pkgs : Boring(DCache[p])})) |->
                                         [op |-> "Purge", pkg |-> InOrder({p \in Pkgs : Boring(DCache[p])})[i], ver |-> NoVer]]
            ELSE <<>>
  /\ UNCHANGED <<protocol, peer, DCache, flags, request, side, response, seenOnce, begun>>

(* The other process. EDSP::ReadRequest and EIPP::ReadRequest: a line at a *)
(* time up to the empty one.                                               *)
FlagsOf(tag) ==
  CASE tag = "Upgrade" -> {"UPGRADE_ALL", "FORBID_REMOVE", "FORBID_NEW_INSTALL"}
    [] tag \in {"Dist-Upgrade", "Upgrade-All"} -> {"UPGRADE_ALL"}
    [] tag = "Forbid-New-Install" -> {"FORBID_NEW_INSTALL"}
    [] tag = "Forbid-Remove" -> {"FORBID_REMOVE"}
    [] tag = "Autoremove" -> {"AUTOREMOVE"}
    [] tag = "Allow-Temporary-Remove-of-Essentials" -> {"ALLOW_TEMPORARY_REMOVE_OF_ESSENTIALS"}
    [] OTHER -> {}
ReadFlag(f, l) == IF l.value THEN f \cup FlagsOf(l.tag) ELSE f \ FlagsOf(l.tag)
(* The tag is stripped without its colon, what is left begins with it.     *)
Stripped(id) == <<":">> \o id
Immediate(l) == IF l.value THEN {"IMMEDIATE_CONFIGURATION_ALL"} ELSE {"NO_IMMEDIATE_CONFIGURATION"}

ReadRequest ==
  /\ session = "read" /\ request # <<>>
  /\ \E l \in {Head(request)} :
       /\ request' = Tail(request)
       /\ session' = IF l.tag = "" THEN "open" ELSE "read"
       /\ side' = CASE l.tag \in {"", "Request"} -> side
                    [] l.tag \in {"Install", "Remove", "ReInstall"} ->
                         [side EXCEPT !.actions = @ \o [i \in DOMAIN l.value |-> [pkg |-> l.value[i], act |-> l.tag]]]
                    [] l.tag = "Machine-ID" -> [side EXCEPT !.machine = Stripped(l.value)]
                    [] l.tag = "Immediate-Configuration" -> [side EXCEPT !.flags = @ \cup Immediate(l)]
                    [] OTHER -> [side EXCEPT !.flags = ReadFlag(@, l)]
  /\ UNCHANGED <<protocol, peer, DCache, flags, pkgset, scenario, response, ops, seenOnce, begun>>

(* edspLikeListParser::NewVersion, edspListParser::ParseStatus and         *)
(* eippListParser::ParseStatus: the cache made of the scenario. Versions   *)
(* are numbered as they come, mapping leads back to APT's numbers. The     *)
(* candidate is pinned with priority 9999; a planner has the only version  *)
(* it knows that is not installed as candidate once the request is applied.*)
StanzasOf(p) == {i \in DOMAIN scenario : scenario[i].Package = p}
StatusOf(p) ==
  LET known == {i \in StanzasOf(p) : scenario[i].Installed \/ scenario[i].Status \notin {"", "not-installed", "config-files"}}
  IN IF known = {} THEN NoVer ELSE (CHOOSE i \in known : TRUE) - 1
CandidateOf(p) ==
  LET pinned == {i \in StanzasOf(p) : scenario[i].APT_Candidate}
  IN IF protocol = "eipp" THEN StatusOf(p)
     ELSE IF pinned = {} THEN NoVer ELSE (CHOOSE i \in pinned : TRUE) - 1
ParseStatus(p) ==
  [cur |-> StatusOf(p), cand |-> CandidateOf(p), mode |-> "keep", reinst |-> FALSE, purge |-> FALSE, protect |-> FALSE,
   hold |-> \E i \in StanzasOf(p) : scenario[i].Hold, auto |-> \E i \in StanzasOf(p) : scenario[i].APT_Automatic,
   state |-> IF StatusOf(p) = NoVer THEN "not-installed" ELSE "installed", garbage |-> FALSE]

OpenCache ==
  /\ session = "open"
  /\ side' = [side EXCEPT !.cache = [p \in Pkgs |-> ParseStatus(p)],
                          !.mapping = [i \in 0..Len(scenario) - 1 |-> scenario[i + 1].APT_ID]]
  /\ session' = "apply"
  /\ UNCHANGED <<protocol, peer, DCache, flags, pkgset, request, scenario, response, ops, seenOnce, begun>>

(* The marks of the depcache as far as the protocols use them (see         *)
(* DepCache.tla for all they do): without automatic installation, FromUser *)
(* for what a request asks.                                                *)
IsModeChangeOk(P, mode, FromUser) == FromUser \/ P.mode = mode \/ (~P.protect /\ ~P.hold)
MarkInstall(P, FromUser) ==
  IF ~IsModeChangeOk(P, "install", FromUser) \/ P.cand = NoVer THEN P
  ELSE [P EXCEPT !.mode = IF P.cand = P.cur THEN "keep" ELSE "install"]
MarkDelete(P, FromUser) == IF ~IsModeChangeOk(P, "delete", FromUser) \/ P.cur = NoVer THEN P ELSE [P EXCEPT !.mode = "delete"]

SetCandidates(c, p) ==
  LET other == {i \in StanzasOf(p) : i - 1 # c[p].cur}
  IN IF protocol = "eipp" /\ other # {} THEN [c[p] EXCEPT !.cand = (CHOOSE i \in other : \A j \in other : j <= i) - 1] ELSE c[p]
Act(c, a) ==
  [c EXCEPT ![a.pkg] = CASE a.act = "Install" -> MarkInstall(@, TRUE)
                         [] a.act = "ReInstall" -> [MarkInstall(@, TRUE) EXCEPT !.reinst = TRUE]
                         [] OTHER -> MarkDelete(@, TRUE)]
ApplyRequest ==
  /\ session = "apply"
  /\ side' = [side EXCEPT !.cache = FoldLeft(Act, [p \in Pkgs |-> SetCandidates(side.cache, p)], side.actions)]
  /\ session' = IF protocol = "edsp" THEN "solve" ELSE "answer"
  /\ UNCHANGED <<protocol, peer, DCache, flags, pkgset, request, scenario, response, ops, seenOnce, begun>>

(* What the solver may decide: anything that honours the request.          *)
Asked == {side.actions[i].pkg : i \in DOMAIN side.actions}
Decisions(p) ==
  LET P == side.cache[p]
  IN IF p \in Asked THEN {P}
     ELSE {[P EXCEPT !.garbage = g] : g \in {FALSE, P.auto /\ P.cur # NoVer}}
          \cup {MarkInstall(P, FALSE), MarkDelete(P, FALSE)}
Solve ==
  /\ session = "solve"
  /\ \E c \in {d \in [Pkgs -> UNION {Decisions(p) : p \in Pkgs}] : \A p \in Pkgs : d[p] \in Decisions(p)} :
       side' = [side EXCEPT !.cache = c]
  /\ session' = "answer"
  /\ UNCHANGED <<protocol, peer, DCache, flags, pkgset, request, scenario, response, ops, seenOnce, begun>>

(* WriteSolution and WriteSolutionStanza, in the order of the packages; in *)
(* the solver's cache the newer version of a package has the lower number. *)
Stanza(type, v) == [type |-> type, id |-> side.mapping[v]]
Error == [type |-> "Error", id |-> 0]
SolutionFor(p, P) ==
  IF Delete(P) THEN <<Stanza("Remove", P.cur)>>
  ELSE IF NewInstall(P) \/ (P.mode = "install" /\ P.cur # NoVer /\ P.cand < P.cur) THEN <<Stanza("Install", P.cand)>>
  ELSE IF P.garbage THEN <<Stanza("Autoremove", P.cur)>>
  ELSE <<>>
WriteSolution ==
  /\ session = "answer" /\ peer = "internal" /\ protocol = "edsp"
  /\ response' = FlattenSeq([i \in DOMAIN PkgOrder |-> SolutionFor(PkgOrder[i], side.cache[PkgOrder[i]])])
  /\ session' = "answered"
  /\ UNCHANGED <<protocol, peer, DCache, flags, pkgset, request, scenario, side, ops, seenOnce, begun>>

(* PMOutput: the planner orders the removals, unpackings and               *)
(* configurations of its packages in some way (PackageManager.tla). Each   *)
(* is written when it is planned, a failure comes after them.              *)
Planned ==
  UNION {LET P == side.cache[p] IN
         IF Delete(P) THEN {[type |-> "Remove", v |-> P.cur]}
         ELSE IF P.mode = "install" \/ P.reinst THEN {[type |-> "Unpack", v |-> InstVer(P)], [type |-> "Configure", v |-> InstVer(P)]}
         ELSE {} : p \in Pkgs}
Planner ==
  /\ session = "answer" /\ protocol = "eipp"
  /\ \E plan \in SetToSeqs(Planned) :
       /\ \A i, j \in DOMAIN plan : plan[i].type = "Configure" /\ plan[j].type = "Unpack" /\ plan[i].v = plan[j].v => j < i
       /\ \E stanzas \in {[i \in DOMAIN plan |-> Stanza(plan[i].type, plan[i].v)]} :
            \/ response' = stanzas
            \/ \E n \in 0..Len(plan) : response' = Append(SubSeq(stanzas, 1, n), Error)
  /\ session' = "answered"
  /\ UNCHANGED <<protocol, peer, DCache, flags, pkgset, request, scenario, side, ops, seenOnce, begun>>

(* A solver of unknown behaviour: any stanzas, numbers that are no         *)
(* version's, an error after some stanzas.                                 *)
OtherSolver ==
  /\ session = "answer" /\ peer = "other"
  /\ \/ Len(response) < MaxStanzas
        /\ \E t \in {"Install", "Remove", "Autoremove", "Error"}, v \in 0..VersionCount + 1 :
             /\ t = "Error" => v = 0
             /\ response' = Append(response, [type |-> t, id |-> v])
             /\ session' = "answer"
     \/ session' = "answered" /\ response' = response
  /\ UNCHANGED <<protocol, peer, DCache, flags, pkgset, request, scenario, side, ops, seenOnce, begun>>

(* EDSP::ReadResponse, a stanza at a time. What was garbage before is not. *)
StartResponse ==
  /\ session = "answered"
  /\ session' = "receive"
  /\ DCache' = IF protocol = "edsp" THEN [p \in Pkgs |-> [DCache[p] EXCEPT !.garbage = FALSE]] ELSE DCache
  /\ begun' = [Cache |-> DCache', response |-> response]
  /\ UNCHANGED <<protocol, peer, flags, pkgset, request, scenario, side, response, ops, seenOnce>>

Known(t) == t.id < VersionCount
Applied(P, t) ==
  IF t.type = "Install" THEN (IF P.cur = t.id THEN P ELSE MarkInstall([P EXCEPT !.cand = t.id], FALSE))
  ELSE IF P.cur = NoVer \/ P.cur # t.id THEN P ELSE MarkDelete(P, FALSE)
ReadResponse ==
  /\ session = "receive" /\ protocol = "edsp" /\ response # <<>>
  /\ \E t \in {Head(response)} :
       /\ response' = Tail(response)
       /\ IF t.type = "Error" THEN session' = "failed" /\ UNCHANGED <<DCache, seenOnce>>
          ELSE IF ~Known(t) THEN UNCHANGED <<DCache, seenOnce, session>>
          ELSE \E p \in {ParentPkg(t.id)} :
                 /\ session' = session
                 /\ IF t.type = "Autoremove" THEN DCache' = [DCache EXCEPT ![p].garbage = TRUE] /\ UNCHANGED seenOnce
                    ELSE /\ seenOnce' = seenOnce \cup {p}
                         /\ DCache' = IF p \in seenOnce THEN DCache ELSE [DCache EXCEPT ![p] = Applied(@, t)]
  /\ UNCHANGED <<protocol, peer, flags, pkgset, request, scenario, side, ops, begun>>

(* EIPP::ReadResponse: the package manager is told at once, an error ends  *)
(* the ordering, and with it the run, and takes nothing back.              *)
ReadPlan ==
  /\ session = "receive" /\ protocol = "eipp" /\ response # <<>>
  /\ \E t \in {Head(response)} :
       /\ response' = Tail(response)
       /\ session' = IF t.type = "Error" THEN "failed" ELSE session
       /\ ops' = IF t.type = "Error" \/ ~Known(t) THEN ops
                 ELSE Append(ops, [op |-> t.type, pkg |-> ParentPkg(t.id),
                                   ver |-> IF t.type = "Remove" THEN NoVer ELSE InstVer(DCache[ParentPkg(t.id)])])
  /\ UNCHANGED <<protocol, peer, DCache, flags, pkgset, request, scenario, side, seenOnce, begun>>

Finish ==
  /\ session = "receive" /\ response = <<>>
  /\ session' = "done"
  /\ UNCHANGED <<protocol, peer, DCache, flags, pkgset, request, scenario, side, response, ops, seenOnce, begun>>

Next ==
  \/ WriteRequest \/ WriteScenario \/ ReadRequest \/ OpenCache \/ ApplyRequest \/ Solve \/ WriteSolution
  \/ Planner \/ OtherSolver \/ StartResponse \/ ReadResponse \/ ReadPlan \/ Finish

Spec == Init /\ [][Next]_edspvars

-----------------------------------------------------------------------------
(* The version of APT's a version of the other process stands for.         *)
Mapped(v) == IF v = NoVer THEN NoVer ELSE side.mapping[v]

(* The field APT has for the dependencies D of one type, restricted to the *)
(* packages of a set: the names in order, "|" between two that are         *)
(* alternatives of each other and "," between the others.                  *)
FieldOf(D, S) ==
  LET in == SelectSeq([i \in DOMAIN D |-> i], LAMBDA i : D[i].to \in S)
      between(k) == IF \A i \in in[k]..in[k + 1] - 1 : D[i].or THEN "|" ELSE ","
  IN [k \in 1..(IF in = <<>> THEN 0 ELSE 2 * Len(in) - 1) |-> IF k % 2 = 1 THEN D[in[(k + 1) \div 2]].to ELSE between(k \div 2)]

(* What the other process works on is what APT meant. Once the request is  *)
(* applied it has the flags APT set (the order of the lines decides:       *)
(* "Upgrade" sets both Forbid flags and the lines that follow correct it), *)
(* the packages have the installed version, the candidate and the marks    *)
(* they have in APT's cache, as far as the protocol names them, under      *)
(* numbers of its own (an ID of the machine arrives if there is one, but   *)
(* not as it was: see Stripped); and a scenario of some packages has the   *)
(* dependencies restricted to these packages, with no or-group torn or     *)
(* joined with its neighbour.                                              *)
RequestArrives ==
  /\ session \in {"solve", "answer"} /\ peer = "internal" =>
       /\ side.flags = flags
       /\ (side.machine = <<>>) = (protocol = "eipp" \/ MachineID = <<>>)
       /\ \A p \in Pkgs : LET A == DCache[p]
                               B == side.cache[p]
                           IN /\ Mapped(B.cur) = A.cur
                              /\ protocol = "edsp" => Mapped(B.cand) = A.cand
                              /\ Delete(A) /\ ~Boring(A) => Delete(B)
                              /\ NewInstall(A) \/ Upgrade(p, A) => B.mode = "install" /\ Mapped(B.cand) = A.cand
                              /\ protocol = "eipp" => Mapped(InstVer(B)) = InstVer(A) /\ B.reinst = (A.reinst /\ A.mode = "keep")
  /\ protocol = "dump" /\ session = "done" =>
       \A i \in DOMAIN scenario :
         LET D == SelectSeq(DependsList[scenario[i].APT_ID], LAMBDA d : ~d.implicit)
         IN \A f \in DOMAIN NoText : scenario[i].depends[f] = FieldOf(SelectSeq(D, LAMBDA d : Field(d) = f), pkgset)

(* What the other process decided is what APT does. With the internal      *)
(* solver every package ends up with the version the solver chose, and is  *)
(* garbage if the solver said so, downgrades apart (neither a request nor  *)
(* an answer has a word for them). With the internal planner the package   *)
(* manager gets exactly the planner's operations, in its order, for the    *)
(* versions APT has chosen, and the purges the planner never heard of; of  *)
(* a planner that failed, those up to the failure.                         *)
(* With a solver of unknown behaviour the first stanza about a package     *)
(* decides, whatever comes later.                                          *)
SolutionArrives ==
  /\ session \in {"done", "failed"} /\ peer = "other" /\ protocol = "edsp" =>
       LET read == Len(begun.response) - Len(response)
           about(p) == {i \in 1..read : LET t == begun.response[i] IN t.type \in {"Install", "Remove"} /\ Known(t) /\ ParentPkg(t.id) = p}
       IN \A p \in Pkgs : [DCache[p] EXCEPT !.garbage = FALSE] =
            IF about(p) = {} THEN begun.Cache[p]
            ELSE Applied(begun.Cache[p], begun.response[CHOOSE i \in about(p) : \A j \in about(p) : i <= j])
  /\ session \in {"done", "failed"} /\ protocol = "eipp" =>
       LET told == SelectSeq(ops, LAMBDA o : o.op # "Purge")
           planned == SelectSeq(begun.response, LAMBDA t : t # Error)
       IN /\ Len(told) = Len(planned)
          /\ \A i \in DOMAIN told : told[i].op = planned[i].type /\ told[i].pkg = ParentPkg(planned[i].id)
          /\ session = "failed" <=> planned # begun.response
  /\ session = "done" =>
    /\ protocol = "edsp" /\ peer = "internal" =>
         \A p \in Pkgs : LET A == DCache[p]
                             B == side.cache[p]
                         IN \/ Downgrade(p, A) \/ (B.mode = "install" /\ B.cur # NoVer /\ B.cand > B.cur)
                            \/ InstVer(A) = Mapped(InstVer(B)) /\ (A.garbage <=> B.garbage)
    /\ protocol = "eipp" =>
         LET told == SelectSeq(ops, LAMBDA o : o.op # "Purge")
         IN /\ Len(told) = Cardinality(Planned)
            /\ {[type |-> told[i].op, p |-> told[i].pkg, v |-> told[i].ver] : i \in DOMAIN told}
                 = {[type |-> o.type, p |-> ParentPkg(Mapped(o.v)), v |-> IF o.type = "Remove" THEN NoVer ELSE Mapped(o.v)] : o \in Planned}
            /\ {ops[i].pkg : i \in {j \in DOMAIN ops : ops[j].op = "Purge"}} = {p \in Pkgs : Boring(DCache[p])}

(* Nothing is lost or changed on the way to the other process and back,    *)
(* but for the ID of the machine.                                          *)
DialogueFaithful == RequestArrives /\ SolutionArrives
=============================================================================
