--------------------------- MODULE CacheGenerator ---------------------------
(***************************************************************************)
(* Building the package cache from the stanzas of the index files          *)
(* (apt-pkg/pkgcachegen.cc, apt-pkg/deb/deblistparser.cc): packages come   *)
(* into being when something mentions them, and whatever was merged before *)
(* has to be carried over to a package that appears late. Foreign          *)
(* (unconfigured) architectures, descriptions, architecture variants and   *)
(* the addresses in the map are left out.                                  *)
(***************************************************************************)
EXTENDS Integers, Sequences, FiniteSets, SequencesExt

CONSTANTS
  Native, Archs,
  Stanza,     \* id -> [n, a, ver, hash, sha, ma, deps, prvs, status]
  MaxStanzas  \* bound: stanzas merged in one behaviour

VARIABLES
  cache,   \* [pkgs, list, files, deps, data, prvs, current, cursor]
  merged   \* the stanzas read so far

gvars == <<cache, merged>>

(* A package is <<name, qualifier, architecture>>: dependencies on a:i386 and a:any are
   attached to packages of that name with the architecture "any". *)
Names == {Stanza[s].n : s \in DOMAIN Stanza}
Packages == (Names \X {""} \X Archs) \cup (Names \X (Archs \cup {"any"}) \X {"any"})
PkgOf(s) == <<Stanza[s].n, "", Stanza[s].a>>

Init ==
  /\ merged = {}
  /\ cache = [pkgs |-> <<>>, list |-> [p \in Packages |-> <<>>], files |-> [s \in DOMAIN Stanza |-> {}],
              deps |-> [s \in DOMAIN Stanza |-> <<>>], data |-> [p \in Packages |-> <<>>], prvs |-> {},
              current |-> [p \in Packages |-> "none"], cursor |-> 0]

Group(c, p) == SelectSeq(c.pkgs, LAMBDA o : o[1] = p[1] /\ o[2] = p[2])

Negative == {"Conflicts", "Breaks", "Replaces"}
GroupWide(d) == d.type \in Negative /\ ~d.spec /\ ~d.implicit

FindPreferredPkg(c, p) ==
  LET native == SelectSeq(Group(c, p), LAMBDA o : o[3] = Native)
  IN IF native # <<>> THEN native[1] ELSE Group(c, p)[1]

Provide(v, p, implicit, spec) == [ver |-> v, pkg |-> p, implicit |-> implicit, spec |-> spec]

\* a new package of a known group takes over what is meant for all of its packages
NewSibling(c, p) ==
  IF p \in ToSet(c.pkgs) THEN c
  ELSE IF Group(c, p) = <<>> THEN [c EXCEPT !.pkgs = Append(@, p)]
  ELSE LET m == FindPreferredPkg(c, p)
           copied == {q \in c.prvs : q.pkg = m /\ ~q.spec /\ ~q.implicit /\ Stanza[q.ver].ma = "foreign"}
           own    == {v \in UNION {ToSet(c.list[o]) : o \in ToSet(Group(c, p))} : Stanza[v].ma = "foreign"}
           Links(v) == SelectSeq(c.deps[v], LAMBDA l : l.pkg = m /\ GroupWide(l.dep))
       IN [c EXCEPT !.pkgs = Append(@, p),
                    !.prvs = @ \cup {[q EXCEPT !.pkg = p] : q \in copied} \cup {Provide(v, p, TRUE, FALSE) : v \in own},
                    !.deps = [v \in DOMAIN @ |-> @[v] \o [k \in DOMAIN Links(v) |-> [Links(v)[k] EXCEPT !.pkg = p]]],
                    !.data[p] = SelectSeq(c.data[m], GroupWide)]

\* a package like a:i386 also needs a of i386, whose versions and providers provide it
NewPackage(c, p) ==
  IF p \in ToSet(c.pkgs) \/ p[3] # "any" \/ p[2] = "any" THEN NewSibling(c, p)
  ELSE LET a  == <<p[1], "", p[2]>>
           c1 == NewSibling(NewSibling(c, p), a)
           providers == {q.ver : q \in {q \in c1.prvs : q.pkg = a /\ ~q.implicit /\ Stanza[q.ver].a = p[2]}}
       IN [c1 EXCEPT !.prvs = @ \cup {Provide(v, p, TRUE, TRUE) : v \in providers \cup ToSet(c1.list[a])}]

\* the shared data of the dependencies on a package, newest version string first
NewData(chain, d) ==
  LET stops == {k \in DOMAIN chain : d.ver > chain[k].ver \/ chain[k] = d}
      k == IF stops = {} THEN Len(chain) + 1 ELSE CHOOSE k \in stops : \A j \in stops : k <= j
  IN IF k <= Len(chain) /\ chain[k] = d THEN chain ELSE InsertAt(chain, k, d)

\* at: the place in the list of the version after which the dependency is linked
NewDepends(c, p, v, d, at) ==
  [c EXCEPT !.deps[v] = InsertAt(@, at + 1, [pkg |-> p, dep |-> d]), !.data[p] = NewData(@, d)]

\* mutant: the parser links at the end of the list
CachedEndForgotten(c, p, v, d) == NewDepends(c, p, v, d, Len(c.deps[v]))

\* the parser goes on behind the dependency it linked last (OldDepLast)
CachedEnd(c, p, v, d) ==
  LET at == IF c.cursor = 0 THEN Len(c.deps[v]) ELSE c.cursor
  IN [NewDepends(c, p, v, d, at) EXCEPT !.cursor = at + 1]

\* one dependency of a stanza: a negative one without architecture means the whole group
ListNewDepends(c, v, r) ==
  LET p == IF r.q = "" THEN <<r.n, "", Stanza[v].a>> ELSE <<r.n, r.q, "any">>
      d == [type |-> r.type, ver |-> r.ver, or |-> r.or, spec |-> r.q \in Archs, implicit |-> FALSE]
  IN IF GroupWide(d) /\ Group(c, p) # <<>>
     THEN FoldLeft(LAMBDA acc, o : CachedEnd(acc, o, v, d), c, Group(c, p))
     ELSE CachedEnd(NewPackage(c, p), p, v, d)

ParseDepends(c, v) == FoldLeft(LAMBDA acc, r : ListNewDepends(acc, v, r), c, Stanza[v].deps)

ListNewProvides(c, v, p, implicit, spec) ==
  IF p = PkgOf(v) THEN c
  ELSE [NewPackage(c, p) EXCEPT !.prvs = @ \cup {Provide(v, p, implicit, spec)}]

NewProvidesAllArch(c, v, n, implicit) ==
  LET grp == ToSet(Group(c, <<n, "", Native>>))
  IN IF grp = {} THEN ListNewProvides(c, v, <<n, "", Native>>, implicit, FALSE)
     ELSE [c EXCEPT !.prvs = @ \cup {Provide(v, p, implicit, FALSE) : p \in grp \ (IF implicit THEN {PkgOf(v)} ELSE {})}]

\* one entry of a Provides field, then the package of that name and this architecture if there is one
ParseProvide(c, v, r) ==
  LET s    == Stanza[v]
      arch == <<r.n, s.a, "any">>
      main == IF r.q # "" THEN ListNewProvides(IF r.q = "any" THEN c ELSE ListNewProvides(c, v, <<r.n, "", r.q>>, TRUE, TRUE),
                                               v, <<r.n, r.q, "any">>, FALSE, TRUE)
              ELSE IF s.ma = "foreign" THEN NewProvidesAllArch(c, v, r.n, FALSE)
              ELSE ListNewProvides(IF s.ma = "allowed" THEN ListNewProvides(c, v, <<r.n, "any", "any">>, TRUE, FALSE) ELSE c,
                                   v, <<r.n, "", s.a>>, FALSE, FALSE)
  IN IF r.q = "" /\ arch \in ToSet(main.pkgs) THEN ListNewProvides(main, v, arch, TRUE, TRUE) ELSE main

ParseProvides(c, v) ==
  LET s   == Stanza[v]
      spz == <<s.n, s.a, "any">>
      already == \E q \in c.prvs : q.ver = v /\ q.implicit /\ q.spec
      c1 == FoldLeft(LAMBDA acc, r : ParseProvide(acc, v, r), c, s.prvs)
      c2 == IF s.ma = "allowed" THEN ListNewProvides(c1, v, <<s.n, "any", "any">>, TRUE, FALSE)
            ELSE IF s.ma = "foreign" THEN NewProvidesAllArch(c1, v, s.n, TRUE) ELSE c1
  IN IF ~already /\ spz \in ToSet(c2.pkgs) THEN ListNewProvides(c2, v, spz, TRUE, TRUE) ELSE c2

Implicit(type, ver) == [type |-> type, ver |-> ver, or |-> FALSE, spec |-> FALSE, implicit |-> TRUE]

\* a version conflicts with the other architectures, or with other versions of them if it can be co-installed
AddImplicitDepends(c, v, p) ==
  LET New(acc, d) == NewDepends(acc, p, v, d, Len(acc.deps[v]))
  IN IF Stanza[v].ma = "same" THEN New(New(c, Implicit("Replaces", Stanza[v].ver)), Implicit("Breaks", Stanza[v].ver))
     ELSE New(c, Implicit("Conflicts", 0))

AddAllImplicit(c, v) ==
  LET p == PkgOf(v)
      others == SelectSeq(Group(c, p), LAMBDA o : o # p /\ c.list[o] # <<>>)
      theirs == FlattenSeq([k \in DOMAIN others |-> c.list[others[k]]])
      c1 == IF Len(c.list[p]) = 1 THEN FoldLeft(LAMBDA acc, o : AddImplicitDepends(acc, o, p), c, theirs) ELSE c
  IN FoldLeft(LAMBDA acc, o : AddImplicitDepends(acc, v, o), c1, others)

SameVersion(s, e) == s.hash = e.hash /\ s.ma = e.ma /\ (s.sha = "" \/ e.sha = "" \/ s.sha = e.sha)

\* the file of the stanza, and for the status file the installed version
UseVersion(c, v, s) ==
  [c EXCEPT !.files[v] = @ \cup {s}, !.current[PkgOf(s)] = IF Stanza[s].status THEN v ELSE @]

\* the version lists are sorted; a version already there gets one more file
MergeListVersion(c, s) ==
  LET new  == Stanza[s]
      list == c.list[PkgOf(s)]
      Stops(v) == \/ new.ver > Stanza[v].ver
                  \/ new.ver = Stanza[v].ver /\ SameVersion(new, Stanza[v])
                  \/ new.ver = Stanza[v].ver /\ ~new.status /\ (\A f \in c.files[v] : Stanza[f].status)
      ks == {k \in DOMAIN list : Stops(list[k])}
      k == IF ks = {} THEN Len(list) + 1 ELSE CHOOSE k \in ks : \A j \in ks : k <= j
      known == k <= Len(list) /\ Stanza[list[k]].ver = new.ver /\ Stanza[list[k]].hash = new.hash
      c1 == [c EXCEPT !.list[PkgOf(s)] = InsertAt(@, k, s), !.cursor = 0]
  IN IF known THEN UseVersion(c, list[k], s)
     ELSE AddAllImplicit(UseVersion(ParseProvides(ParseDepends(c1, s), s), s, s), s)

\* the status file is read after the index files of the sources
MergeList(s) ==
  /\ s \notin merged /\ Cardinality(merged) < MaxStanzas
  /\ Stanza[s].status \/ \A o \in merged : ~Stanza[o].status
  /\ merged' = merged \cup {s}
  /\ cache' = [MergeListVersion(NewPackage(cache, PkgOf(s)), s) EXCEPT !.cursor = 0]

Next == \E s \in DOMAIN Stanza : MergeList(s)

Spec == Init /\ [][Next]_gvars

-----------------------------------------------------------------------------
Pkgs == ToSet(cache.pkgs)
Versions == UNION {ToSet(cache.list[p]) : p \in Pkgs}

\* what the stanzas say a package is provided by, whatever the order they were read in
Provides(v, p) ==
  LET s == Stanza[v]
      Unqualified(n) == \E k \in DOMAIN s.prvs : s.prvs[k].n = n /\ s.prvs[k].q = ""
      Qualified(n, q) == \E k \in DOMAIN s.prvs : s.prvs[k].n = n /\ s.prvs[k].q = q
  IN IF p[3] # "any"
     THEN \/ Unqualified(p[1]) /\ (s.a = p[3] \/ s.ma = "foreign")
          \/ Qualified(p[1], p[3])
          \/ s.n = p[1] /\ s.a # p[3] /\ s.ma = "foreign"
     ELSE \/ Qualified(p[1], p[2])
          \/ (s.n = p[1] \/ Unqualified(p[1])) /\ (IF p[2] = "any" THEN s.ma = "allowed" ELSE s.a = p[2])

ProvidesExact == \A p \in Pkgs : {q.ver : q \in {q \in cache.prvs : q.pkg = p}} = {v \in Versions : Provides(v, p)}

\* how often a version depends on a package, and how often its stanza says so
Links(v, p, Is(_)) == Cardinality({k \in DOMAIN cache.deps[v] : cache.deps[v][k].pkg = p /\ Is(cache.deps[v][k].dep)})
Means(v, r, p) ==
  IF r.q # "" THEN p = <<r.n, r.q, "any">>
  ELSE p[1] = r.n /\ p[2] = "" /\ (r.type \in Negative \/ p[3] = Stanza[v].a)

DependsExact == \A v \in Versions, p \in Pkgs :
  Links(v, p, LAMBDA d : ~d.implicit) = Cardinality({k \in DOMAIN Stanza[v].deps : Means(v, Stanza[v].deps[k], p)})

ImplicitExact == \A v \in Versions, p \in Pkgs :
  LET other == p[1] = Stanza[v].n /\ p[2] = "" /\ p[3] # Stanza[v].a /\ cache.list[p] # <<>>
      same  == Stanza[v].ma = "same"
  IN /\ Links(v, p, LAMBDA d : d.implicit /\ d.type = "Conflicts") = IF other /\ ~same THEN 1 ELSE 0
     /\ Links(v, p, LAMBDA d : d.implicit /\ d.type = "Breaks") = IF other /\ same THEN 1 ELSE 0

ListsSorted == \A p \in Pkgs : LET l == cache.list[p] IN
  \A j, k \in DOMAIN l : j < k =>
    \/ Stanza[l[j]].ver > Stanza[l[k]].ver
    \/ Stanza[l[j]].ver = Stanza[l[k]].ver /\ ~SameVersion(Stanza[l[j]], Stanza[l[k]])

DataShared == \A p \in Pkgs : LET d == cache.data[p] IN
  /\ \A j, k \in DOMAIN d : j < k => d[j].ver >= d[k].ver /\ d[j] # d[k]
  /\ ToSet(d) = UNION {{l.dep : l \in {l \in ToSet(cache.deps[v]) : l.pkg = p}} : v \in Versions}

(* The alternatives of an or-group stay next to each other in the list of the version, also
   if parsing one of them creates a package that copies a conflict to the same version: the
   list is only read as a group up to the first member without the Or flag
   (pkgcachegen.cc NewDepends, OldDepLast). *)
OrGroupsTogether == \A v \in Versions : \A k \in DOMAIN cache.deps[v] :
  cache.deps[v][k].dep.or =>
    k < Len(cache.deps[v]) /\ cache.deps[v][k].dep.type = cache.deps[v][k + 1].dep.type

(* However the stanzas are ordered, the cache says what they say: each package is provided by
   the versions that provide it, also if it came into being after them; a conflict without an
   architecture reaches every package of the group exactly once, the implicit conflicts
   between architectures are there exactly once, the version lists are sorted with one entry
   for the same version, and equal dependencies on a package share their data
   (pkgcachegen.cc NewPackage, NewDepends, MergeListVersion; deblistparser.cc ParseProvides). *)
CacheExact == ProvidesExact /\ DependsExact /\ ImplicitExact /\ ListsSorted /\ DataShared /\ OrGroupsTogether
=============================================================================
