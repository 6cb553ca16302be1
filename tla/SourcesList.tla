----------------------------- MODULE SourcesList ----------------------------
(***************************************************************************)
(* Reading sources.list and sources.list.d (sourcelist.cc) into the list   *)
(* of releases, and the index files these want (debmetaindex.cc). All the  *)
(* entries about the same release share one debReleaseIndex and have to    *)
(* agree on its options; an entry may be redirected to a snapshot server,  *)
(* which leaves the release itself in the list as a shadowed one.          *)
(*                                                                         *)
(* An entry is one call of CreateItem: a type, URI, suite and component    *)
(* with the options of its line or stanza. A URI stands for URI and suite. *)
(* Lines and stanzas that do not parse are entries with malformed set.     *)
(***************************************************************************)
EXTENDS Integers, Sequences, FiniteSets, SequencesExt, TLC

CONSTANTS
  Files,        \* the files in reading order, each the entries it may hold
  MaxEntries,   \* bound: entries that are read
  Snapshots,    \* the values APT::Snapshot may have, "" is none
  Server,       \* [URI -> what the Release file or the host names as server]
  HostServer,   \* [URI -> what the host alone names]
  SnapshotURI,  \* [URI -> its URI on the snapshot server]
  InLists,      \* [URI -> the Release file in lists: [good, until, key, date] or Nothing]
  MinAge, MaxAge, \* Acquire::Min-ValidTime and Max-ValidTime
  Now,          \* the time
  AllTargets,   \* [type -> sequence of the configured targets]
  Template,     \* [target -> [key, vars, fallback, id, enabled]]
  Architectures, Languages, NativeArch

VARIABLES
  conf,     \* APT::Snapshot
  file,     \* the file being read
  nread,    \* entries read
  List,     \* SrcList
  used,     \* entries accepted so far
  errors,   \* an error is pending
  aborted   \* the assertion of CreateItemInternal failed

slvars == <<conf, file, nread, List, used, errors, aborted>>

Nothing == [good |-> FALSE, until |-> 0, key |-> "", date |-> -1]

Init ==
  /\ conf \in Snapshots
  /\ file = 1 /\ nread = 0
  /\ List = <<>> /\ used = {} /\ errors = FALSE /\ aborted = FALSE

-----------------------------------------------------------------------------
(* The lists an entry asks for: the default or the set it names, what it   *)
(* adds and what it takes away. Every architecture list gets "all" unless  *)
(* the entry says something about it.                                      *)
ApplyPlusMinus(o, values) ==
  SelectSeq(values \o SelectSeq(o.plus, LAMBDA v : v \notin ToSet(values)),
            LAMBDA v : v \notin ToSet(o.minus))
ParsePlusMinus(o, default) == ApplyPlusMinus(o, IF o.set = <<>> THEN default ELSE o.set)

ParseArch(o) ==
  LET values == ParsePlusMinus(o, Architectures)
  IN IF "all" \in ToSet(o.minus) \/ "all" \in ToSet(values) THEN values
     ELSE Append(values, "implicit:all")

ParseLang(o) ==
  LET values == ParsePlusMinus(o, Languages) IN IF values = <<>> THEN <<"none">> ELSE values

(* A target that is the fallback of another is moved behind it. 1000 steps *)
(* are tried, in which only a cycle is left.                               *)
MisplacedAt(ts, i) ==
  LET f == Template[ts[i]].fallback IN
  /\ f \in ToSet(ts)
  /\ SelectInSeq(ts, LAMBDA t : t = f) > i

RECURSIVE Ordered(_, _)
Ordered(ts, steps) ==
  LET wrong == {i \in 1..Len(ts) : MisplacedAt(ts, i)} IN
  IF wrong = {} \/ steps = 0 THEN ts
  ELSE LET i == CHOOSE i \in wrong : \A j \in wrong : i <= j
       IN Ordered(Append(RemoveAt(ts, i), ts[i]), steps - 1)

FirstOnly(ts) == FoldLeft(LAMBDA acc, t : IF t \in ToSet(acc) THEN acc ELSE Append(acc, t), <<>>, ts)

ParseTargets(type, o) ==
  LET all == AllTargets[type]
      default == SelectSeq(all, LAMBDA t : Template[t].enabled)
      Switch(acc, t) ==
        IF t \in o.on THEN acc \o SelectSeq(all, LAMBDA u : Template[u].id = t)
        ELSE IF t \in o.off THEN SelectSeq(acc, LAMBDA u : Template[u].id # t)
        ELSE acc
  IN FirstOnly(Ordered(FoldLeft(Switch, ParsePlusMinus(o, default), all), 1000))

-----------------------------------------------------------------------------
(* One release for all the entries of a URI. The options that are part of  *)
(* the release have to be the same, SHADOWED excepted.                     *)
NewRelease(uri, e, shadowed) ==
  [uri |-> uri, insecure |-> e.insecure, shadowed |-> shadowed, Trusted |-> "unset",
   ValidUntilMin |-> 0, Snapshot |-> "", SignedBy |-> "", entries |-> <<>>]

GetDebReleaseIndexBy(list, uri, e, shadowed) ==
  LET at == SelectInSeq(list, LAMBDA r : r.uri = uri)
  IN IF at = 0 THEN [list |-> Append(list, NewRelease(uri, e, shadowed)), at |-> Len(list) + 1, ok |-> TRUE]
     ELSE [list |-> list, at |-> at, ok |-> list[at].insecure = e.insecure]

AddComponent(r, e) ==
  [r EXCEPT !.entries = Append(@, [name |-> e.name, type |-> e.type, comp |-> e.comp,
     targets |-> ParseTargets(e.type, e.targets), archs |-> ParseArch(e.archs), langs |-> ParseLang(e.langs)])]

(* The setters answer with the new value, or Conflict. An option that is a *)
(* yes or no has to be the same for all, absent included; a time and a     *)
(* snapshot may be added later but not be left out later.                  *)
Conflict == "conflict"
SetTriState(old, new) == IF old \in {"unset", new} THEN new ELSE Conflict
SetTime(old, new) == IF old \in {0, new} THEN new ELSE -1
SetSnapshot(old, new) == IF old \in {"", new} THEN new ELSE Conflict

(* A value that is not a fingerprint nor a file normalises to nothing; the *)
(* first one is an error that does not end the file. So is a conflict with *)
(* a key of the stored Release file, of which the result is not looked at. *)
NormalizeSignedBy(s) == IF s = "invalid" THEN "" ELSE s
SetSignedBy(old, new) ==
  IF old = "" /\ new # "" THEN [key |-> NormalizeSignedBy(new), ok |-> TRUE, error |-> NormalizeSignedBy(new) = ""]
  ELSE LET fine == NormalizeSignedBy(new) \in {"", old} IN [key |-> old, ok |-> fine, error |-> ~fine]

(* What Load makes of the Valid-Until field of the stored Release file, 0  *)
(* if it has none: no earlier than MinAge and no later than MaxAge after   *)
(* its date.                                                               *)
ValidUntil(f) ==
  LET least == IF MinAge # 0 /\ f.until # 0 /\ f.until < f.date + MinAge THEN f.date + MinAge ELSE f.until
  IN IF MaxAge # 0 /\ f.date # 0 /\ (least = 0 \/ least > f.date + MaxAge) THEN f.date + MaxAge ELSE least

(* Without the option the keys named in the stored Release file count,     *)
(* until that file has expired.                                            *)
Pinned(uri) ==
  LET f == InLists[uri] IN
  IF f # Nothing /\ f.good /\ ValidUntil(f) > 0 /\ Now <= ValidUntil(f) THEN f.key ELSE ""

GetSnapshotOption(o, default) ==
  CASE o = "unset" -> default [] o = "yes" -> conf [] o = "no" -> "" [] OTHER -> o

(* CreateItemInternalOne: include and exclude exclude each other, and the  *)
(* first option that conflicts ends it.                                    *)
SetOptions(r, e, k) ==
  [r EXCEPT !.Trusted = SetTriState(@, e.trusted), !.ValidUntilMin = SetTime(@, e.validmin),
            !.Snapshot = SetSnapshot(@, GetSnapshotOption(e.snapshot, "")), !.SignedBy = k.key]
Conflicting(r, e, k) ==
  Conflict \in {r.Trusted, r.Snapshot} \/ r.ValidUntilMin = -1 \/ (~k.ok /\ e.signedby # "")
Stored(g, r, bad, k) == [list |-> [g.list EXCEPT ![g.at] = r], ok |-> ~bad, error |-> bad \/ k.error]
StoreOptions(g, r, e, k) == Stored(g, r, Conflicting(r, e, k), k)
AddEntry(g, e, k) ==
  IF ~g.ok \/ e.both THEN [list |-> g.list, ok |-> FALSE, error |-> TRUE]
  ELSE StoreOptions(g, SetOptions(AddComponent(g.list[g.at], e), e, k), e, k)
SignedByFor(g, uri, e) ==
  SetSignedBy(g.list[g.at].SignedBy, IF e.signedby = "" THEN Pinned(uri) ELSE e.signedby)
CreateOneIn(g, uri, e) == AddEntry(g, e, SignedByFor(g, uri, e))
CreateOne(list, uri, e, shadowed) == CreateOneIn(GetDebReleaseIndexBy(list, uri, e, shadowed), uri, e)

(* CreateItemInternal: the release is put into the list as shadowed, the   *)
(* server is looked up, and when there is none for a snapshot that is only *)
(* a default ("?") the release is taken out again if it was new, which the *)
(* code finds out by comparing it with the last one of the list. A release *)
(* of other options is an error, but the search for a server goes on, by   *)
(* the host only, and the release on the snapshot server may be created    *)
(* before the entry is given up.                                           *)
RECURSIVE CreateAll(_, _, _)
CreateAll(b, e, calls) ==
  IF ~b.ok \/ calls = <<>> THEN b
  ELSE LET c == CreateOne(b.list, Head(calls).uri, e, Head(calls).shadowed)
       IN CreateAll([c EXCEPT !.error = @ \/ b.error], e, Tail(calls))
Created(list, e, calls) == CreateAll([list |-> list, ok |-> TRUE, error |-> FALSE], e, calls) @@ [abort |-> FALSE]
Refused(list, abort) == [list |-> list, ok |-> FALSE, error |-> TRUE, abort |-> abort]

CreateSnapshot(list, e, g) ==
  LET none == (IF g.ok THEN Server[e.uri] ELSE HostServer[e.uri]) \in {"", "no"}
      unreadable == g.ok /\ InLists[e.uri] # Nothing /\ ~InLists[e.uri].good
      fresh == g.ok /\ Len(list) # g.at
  IN IF unreadable \/ (none /\ e.snapshot # "unset") THEN Refused(g.list, FALSE)
     ELSE IF none /\ fresh /\ g.at # Len(g.list) THEN Refused(g.list, TRUE)
     ELSE Created(IF none /\ fresh THEN Front(g.list) ELSE g.list, e,
                  IF none THEN <<[uri |-> e.uri, shadowed |-> FALSE]>>
                  ELSE <<[uri |-> SnapshotURI[e.uri], shadowed |-> FALSE], [uri |-> e.uri, shadowed |-> TRUE]>>)

CreateItem(list, e) ==
  IF GetSnapshotOption(e.snapshot, conf) = "" THEN Created(list, e, <<[uri |-> e.uri, shadowed |-> FALSE]>>)
  ELSE CreateSnapshot(list, e, GetDebReleaseIndexBy(list, e.uri, e, TRUE))

(* An entry that is not accepted ends the file it is in, the other files   *)
(* are still read.                                                         *)
AfterEntry(ok) == file' = (IF ok THEN file ELSE file + 1) /\ nread' = nread + 1

ParseEntry(e) ==
  /\ ~aborted /\ nread < MaxEntries
  /\ UNCHANGED conf
  /\ \/ e.disabled /\ AfterEntry(TRUE) /\ UNCHANGED <<List, used, errors, aborted>>
     \/ /\ ~e.disabled /\ e.malformed
        /\ AfterEntry(FALSE) /\ errors' = TRUE /\ UNCHANGED <<List, used, aborted>>
     \/ /\ ~e.disabled /\ ~e.malformed
        /\ \E r \in {CreateItem(List, e)} :
             /\ List' = r.list
             /\ errors' = (errors \/ r.error)
             /\ aborted' = r.abort
             /\ used' = IF r.ok THEN used \cup {e} ELSE used
             /\ AfterEntry(r.ok)

NextFile ==
  /\ ~aborted /\ file <= Len(Files) /\ file' = file + 1
  /\ UNCHANGED <<conf, nread, List, used, errors, aborted>>

Next ==
  \/ file <= Len(Files) /\ \E e \in Files[file] : ParseEntry(e)
  \/ NextFile

Spec == Init /\ [][Next]_slvars

-----------------------------------------------------------------------------
(* GetIndexTargets: the templates filled in for every language,            *)
(* architecture and native architecture that they mention, deb-src         *)
(* entries first. A file that is in the list already is not asked for      *)
(* again, whoever wants it.                                                *)
Plain(a) == IF a = "implicit:all" THEN "all" ELSE a
Fill(v, t, value) == IF v \in Template[t].vars THEN value ELSE ""
Indices(s, v, t) == IF v \in Template[t].vars THEN 1..Len(s) ELSE {i \in {1} : s # <<>>}
Natives == <<NativeArch, "implicit:all">>

(* The files target t of component c of the release asks for, numbered in  *)
(* the order of the loops: at counts components, targets, languages,       *)
(* architectures and native architectures as digits.                       *)
Candidates(c, i, j) ==
  LET t == c.targets[j]
      Langs == {l \in Indices(c.langs, "LANGUAGE", t) : "LANGUAGE" \in Template[t].vars => c.langs[l] # "none"}
  IN {[key |-> <<Template[t].key, Fill("COMPONENT", t, c.comp), Fill("LANGUAGE", t, c.langs[l]),
                 Fill("ARCHITECTURE", t, Plain(c.archs[a])), Fill("NATIVE", t, Plain(Natives[n]))>>,
       by |-> t, entry |-> c.name, at |-> 10000 * i + 1000 * j + 100 * l + 10 * a + n] :
        l \in Langs, a \in Indices(c.archs, "ARCHITECTURE", t), n \in Indices(Natives, "NATIVE", t)}

\* mutant: a file is asked for again when another target wants it too
SameFileAndTarget(c, d) == c.key = d.key /\ c.by = d.by
SameFile(c, d) == c.key = d.key

IndexTargets(r) ==
  LET Of(type) == SelectSeq(r.entries, LAMBDA c : c.type = type)
      comps == Of("deb-src") \o Of("deb")
      all == UNION {Candidates(comps[ij[1]], ij[1], ij[2]) :
                      ij \in {x \in (1..Len(comps)) \X (1..Len(AllTargets["deb"])) : x[2] <= Len(comps[x[1]].targets)}}
  IN {c \in all : \A d \in all : SameFile(d, c) => c.at <= d.at}

-----------------------------------------------------------------------------
Wanted(c) ==
  UNION {{<<Template[t].key, Fill("COMPONENT", t, c.comp), Fill("LANGUAGE", t, l),
            Fill("ARCHITECTURE", t, Plain(a)), Fill("NATIVE", t, n)>> :
            l \in {x \in ToSet(c.langs) : x # "none" \/ "LANGUAGE" \notin Template[t].vars},
            a \in ToSet(c.archs), n \in {NativeArch, "all"}} : t \in ToSet(c.targets)}

About(r) == {e \in used : r.uri \in {e.uri, SnapshotURI[e.uri]}}

(* A list that was read without an error has one release for each URI,     *)
(* and the release's options are what every entry about it asked for,      *)
(* whichever entry came first: no entry is used with a trust, an age or a  *)
(* key it did not ask for. Without a Signed-By the keys the last Release   *)
(* file announced stay in force.                                           *)
ReleasesAgree ==
  ~errors /\ ~aborted =>
    \A i \in 1..Len(List) : \A r \in {List[i]} :
      /\ \A j \in 1..Len(List) : List[j].uri = r.uri => i = j
      /\ \A e \in About(r) :
           /\ r.Trusted = e.trusted /\ r.insecure = e.insecure
           /\ e.validmin \in {0, r.ValidUntilMin}
           /\ e.signedby \in {"", "invalid", r.SignedBy}
           /\ Pinned(r.uri) # "" /\ e.signedby = "" => r.SignedBy = Pinned(r.uri)

(* Every index file that some entry wants is asked for once and only once, *)
(* whatever targets, architectures and languages the entries overlap in,   *)
(* and a fallback is asked for after what it is a fallback of.             *)
TargetsExact ==
  ~errors /\ ~aborted /\ file > Len(Files) =>
    \A i \in 1..Len(List) : \A ts \in {IndexTargets(List[i])} :
      /\ \A a, b \in ts : a.key = b.key => a = b
      /\ {a.key : a \in ts} = UNION {Wanted(c) : c \in ToSet(List[i].entries)}
      /\ \A c \in ToSet(List[i].entries) : \A a, b \in 1..Len(c.targets) :
           Template[c.targets[a]].fallback = c.targets[b] => b < a

(* What the sources say is what is asked for, with the trust they give.    *)
SourcesAsWritten == ReleasesAgree /\ TargetsExact
=============================================================================
