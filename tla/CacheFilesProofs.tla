-------------------------- MODULE CacheFilesProofs --------------------------
(***************************************************************************)
(* CacheFresh of CacheFiles for every set of index files, every number of  *)
(* processes, whichever of them may write, and without bounds on how much  *)
(* changes meanwhile.                                                      *)
(*                                                                         *)
(* The property speaks of open caches only.  Its invariant follows a cache *)
(* from the first look at a stored image to the last file that is read:    *)
(* the size and the time noted in any image, stored or in memory, are      *)
(* those of the content it holds (Images), so a stored image that passes   *)
(* CheckValidity is as good as one that was read (Checked), and what is    *)
(* read is added to what was found (Built).                                *)
(***************************************************************************)
EXTENDS CacheFiles, TLAPS

\* the status file and the files of the command line are not index files
NamesDistinct == Status \notin Lists /\ Volatile \notin Lists /\ "none" \notin Lists

\* the size and the time noted for a file are those of the content the image holds
Gens   == {<<>>} \cup UNION {[D -> Nat] : D \in SUBSET Files}
Images == {x \in [gen : Gens, stamp : Gens, mtime : Int] : x.stamp = x.gen}

Processes ==
  [pc : {"closed", "failed", "dropped", "pkg", "src", "lists", "status", "debs", "open"},
   list : SUBSET Lists, listtime : Int, volatile : BOOLEAN, since : [Files -> SUBSET Nat],
   image : Images, fd : Images, todo : SUBSET Files, visited : SUBSET Files,
   reading : Files \cup {"none"}, read : Nat, dynamic : BOOLEAN]

TypeInv ==
  /\ disk \in [Files -> Nat]
  /\ sources.files \subseteq Lists /\ sources.mtime \in Int
  /\ stored \in [{"pkg", "src"} -> Images]
  /\ now \in Nat
  /\ proc \in [Procs -> Processes]

\* the files a process has to take in before it leaves the stage it is in
Due(r) ==
  r.list \cup (IF r.pc \in {"lists", "src"} THEN {} ELSE {Status})
         \cup (IF r.pc \in {"debs", "open"} /\ r.volatile THEN {Volatile} ELSE {})

\* the content of f in an image, 0 if it has none
Entry(x, f) == IF f \in DOMAIN x.gen THEN x.gen[f] ELSE 0

\* nothing is being read
Quiet(r) == r.reading = "none" /\ r.read = 0

\* what a process could see of the files it still may read
Witnessed(r, d) ==
  /\ r.pc \in {"pkg", "src", "lists", "status"} => \A f \in Files : d[f] \in r.since[f]
  /\ r.pc \in {"debs", "open"} => d[Volatile] \in r.since[Volatile]

\* CheckValidity: what was looked at so far is as good as if it had been read
Checked(r) ==
  r.pc \in {"pkg", "src"} =>
    /\ Quiet(r)
    /\ r.todo \subseteq Due(r) /\ r.visited \subseteq Due(r) \ r.todo
    /\ \A f \in r.visited : f \in DOMAIN r.fd.gen /\ r.fd.gen[f] \in r.since[f]
    /\ \A f \in Due(r) \ r.todo : f \notin r.visited => 0 \in r.since[f]

\* BuildCache: the image holds what was taken in so far, and nothing else
Built(r) ==
  r.pc \in Building \cup {"open"} =>
    /\ r.todo \subseteq Due(r)
    /\ r.reading = "none" \/ r.reading \in Due(r) \ r.todo
    /\ DOMAIN r.image.gen \subseteq Due(r) \ (r.todo \cup {r.reading})
    /\ \A f \in Due(r) \ (r.todo \cup {r.reading}) : Entry(r.image, f) \in r.since[f]
    /\ r.read # 0 => r.reading # "none" /\ r.read \in r.since[r.reading]
    /\ r.pc = "debs" => r.todo \subseteq {Volatile} /\ r.reading \in {Volatile, "none"}
    /\ r.pc = "open" => Quiet(r) /\ r.todo = {}

ProcInv(r, d) ==
  /\ Witnessed(r, d) /\ Checked(r) /\ Built(r)
  /\ r.pc \in {"closed", "dropped", "failed"} => Quiet(r)

Inv == TypeInv /\ \A p \in Procs : ProcInv(proc[p], disk)

-----------------------------------------------------------------------------
(* Images and processes have their types *)

\* The two images nothing was read into.
LEMMA EmptyImages == NoImage \in Images /\ EmptyImage \in Images
  <1>1. [f \in {} |-> 0] \in [{} -> Nat] /\ {} \in SUBSET Files
    OBVIOUS
  <1>2. [f \in {} |-> 0] \in Gens /\ <<>> \in Gens
    BY <1>1 DEF Gens
  <1> QED BY <1>2 DEF Images, NoImage, EmptyImage

\* A process that has not begun, and one that failed.
LEMMA ClosedType ==
  /\ Closed \in Processes /\ Closed.pc = "closed" /\ Quiet(Closed)
  /\ Failed \in Processes /\ Failed.pc = "failed" /\ Quiet(Failed)
  <1>1. /\ [f \in Files |-> {}] \in [Files -> SUBSET Nat] /\ {} \in SUBSET Lists /\ {} \in SUBSET Files
        /\ FALSE \in BOOLEAN /\ 0 \in Int /\ 0 \in Nat
    OBVIOUS
  <1>2. Closed \in Processes
    BY <1>1, EmptyImages DEF Closed, Processes
  <1>3. Closed.pc = "closed" /\ Closed.reading = "none" /\ Closed.read = 0
    BY DEF Closed
  <1>4. Failed \in Processes /\ Failed.pc = "failed" /\ Failed.reading = "none" /\ Failed.read = 0
    BY <1>2, <1>3 DEF Failed, Processes
  <1> QED BY <1>2, <1>3, <1>4 DEF Quiet

\* Neither of them promises anything.
LEMMA ClosedInv ==
  ASSUME NEW d
  PROVE  ProcInv(Closed, d) /\ ProcInv(Failed, d)
  BY ClosedType DEF ProcInv, Witnessed, Checked, Built, Building

\* Everything is read anew.
LEMMA FromNothingInv ==
  ASSUME NamesDistinct, NEW d, NEW r \in Processes, Quiet(r), \A f \in Files : d[f] \in r.since[f]
  PROVE  FromNothing(r) \in Processes /\ ProcInv(FromNothing(r), d)
  <1> DEFINE s == FromNothing(r)
  <1>1. /\ s \in Processes /\ s.pc = "lists" /\ s.todo = r.list /\ s.list = r.list /\ s.image = EmptyImage
        /\ s.reading = r.reading /\ s.read = r.read /\ s.since = r.since
    BY EmptyImages DEF FromNothing, Processes, Files
  <1>2. DOMAIN EmptyImage.gen = {}
    BY DEF EmptyImage
  <1> HIDE DEF s
  <1>3. Due(s) = s.list
    BY <1>1 DEF Due
  <1>4. s \in Processes /\ ProcInv(s, d)
    BY <1>1, <1>2, <1>3 DEF ProcInv, Witnessed, Checked, Built, Quiet, Building, Entry
  <1> QED BY <1>4 DEF s

\* A stored image is looked at, if there is one to look at.
LEMMA CheckOpensInv ==
  ASSUME NamesDistinct, TypeInv, NEW d, NEW r \in Processes, Quiet(r), \A f \in Files : d[f] \in r.since[f],
         NEW kind \in {"pkg", "src"}, NEW else \in Processes, ProcInv(else, d)
  PROVE  CheckOpens(r, kind, else) \in Processes /\ ProcInv(CheckOpens(r, kind, else), d)
  <1> DEFINE s == [r EXCEPT !.pc = kind, !.fd = stored[kind], !.visited = {},
                            !.todo = r.list \cup (IF kind = "pkg" THEN {Status} ELSE {})]
  <1>1. /\ s \in Processes /\ s.pc = kind /\ s.list = r.list /\ s.visited = {}
        /\ s.todo = r.list \cup (IF kind = "pkg" THEN {Status} ELSE {})
        /\ s.reading = r.reading /\ s.read = r.read /\ s.since = r.since
    <2>1. stored[kind] \in Images
      BY DEF TypeInv
    <2>2. r.list \cup (IF kind = "pkg" THEN {Status} ELSE {}) \in SUBSET Files
      BY DEF Processes, Files
    <2> QED BY <2>1, <2>2 DEF Processes
  <1>2. CheckOpens(r, kind, else) \in {s, else}
    BY DEF CheckOpens
  <1> HIDE DEF s
  <1>3. Due(s) = s.todo
    BY <1>1 DEF Due
  <1>4. ProcInv(s, d)
    BY <1>1, <1>3 DEF ProcInv, Witnessed, Checked, Built, Quiet, Building
  <1> QED BY <1>1, <1>2, <1>4

\* srcpkgcache.bin, or else nothing; pkgcache.bin, or else srcpkgcache.bin.
LEMMA CheckPackageInv ==
  ASSUME NamesDistinct, TypeInv, NEW d, NEW r \in Processes, Quiet(r), \A f \in Files : d[f] \in r.since[f]
  PROVE  /\ CheckSource(r) \in Processes /\ ProcInv(CheckSource(r), d)
         /\ CheckPackage(r) \in Processes /\ ProcInv(CheckPackage(r), d)
  <1>1. FromNothing(r) \in Processes /\ ProcInv(FromNothing(r), d)
    BY FromNothingInv
  <1>2. CheckSource(r) \in Processes /\ ProcInv(CheckSource(r), d)
    BY <1>1, CheckOpensInv DEF CheckSource
  <1>3. CheckPackage(r) \in Processes /\ ProcInv(CheckPackage(r), d)
    BY <1>2, CheckOpensInv DEF CheckPackage
  <1> QED BY <1>2, <1>3

\* Names of files that are not "none".
LEMMA FileNames ==
  ASSUME NamesDistinct
  PROVE  /\ "none" \notin Files /\ Status \in Files /\ Volatile \in Files /\ Status # Volatile
         /\ \A r \in Processes : Due(r) \subseteq Files /\ Status \notin r.list /\ Volatile \notin r.list
  BY DEF NamesDistinct, Files, Status, Volatile, Processes, Due

\* A stored image which passed the check is used.
LEMMA FineInv ==
  ASSUME NamesDistinct, NEW d, NEW r \in Processes, ProcInv(r, d), r.pc \in {"pkg", "src"}, r.todo = {},
         r.visited = DOMAIN r.fd.gen
  PROVE  Fine(r) \in Processes /\ ProcInv(Fine(r), d)
  <1> DEFINE s == Fine(r)
             todo == IF r.volatile THEN {Volatile} ELSE {}
  <1>0. /\ Quiet(r) /\ DOMAIN r.fd.gen \subseteq Due(r)
        /\ \A f \in Due(r) : Entry(r.fd, f) \in r.since[f]
        /\ \A f \in Files : d[f] \in r.since[f]
    BY DEF ProcInv, Checked, Witnessed, Entry
  <1>1. CASE r.pc = "pkg"
    <2>0. todo \in SUBSET Files
      BY FileNames
    <2>1. s = [r EXCEPT !.pc = IF r.volatile THEN "debs" ELSE "open", !.image = r.fd, !.fd = NoImage,
                        !.visited = {}, !.dynamic = r.volatile, !.todo = todo]
      BY <1>1 DEF Fine
    <2> HIDE DEF s, todo
    <2>2. /\ s \in Processes /\ s.pc = (IF r.volatile THEN "debs" ELSE "open") /\ s.list = r.list
          /\ s.volatile = r.volatile /\ s.image = r.fd /\ s.todo = todo
          /\ s.reading = r.reading /\ s.read = r.read /\ s.since = r.since
      BY <2>0, <2>1, EmptyImages DEF Processes
    <2>3. Due(r) = r.list \cup {Status} /\ Due(s) \ (s.todo \cup {s.reading}) = Due(r) /\ s.todo \subseteq Due(s)
      BY <1>0, <1>1, <2>2, FileNames DEF Due, Quiet, todo
    <2>4. Built(s)
      BY <1>0, <2>2, <2>3 DEF Built, Quiet, Entry, todo
    <2>5. Witnessed(s, d) /\ Checked(s)
      BY <1>0, <2>2, FileNames DEF Witnessed, Checked
    <2>6. s \in Processes /\ ProcInv(s, d)
      BY <2>2, <2>4, <2>5 DEF ProcInv
    <2> QED BY <2>6 DEF s
  <1>2. CASE r.pc = "src"
    <2>1. s = [r EXCEPT !.pc = "status", !.dynamic = TRUE, !.image = r.fd, !.fd = NoImage, !.visited = {}, !.todo = {Status}]
      BY <1>2 DEF Fine
    <2> HIDE DEF s
    <2>2. /\ s \in Processes /\ s.pc = "status" /\ s.list = r.list
          /\ s.volatile = r.volatile /\ s.image = r.fd /\ s.todo = {Status}
          /\ s.reading = r.reading /\ s.read = r.read /\ s.since = r.since
      BY <2>1, EmptyImages, FileNames DEF Processes
    <2>3. Due(r) = r.list /\ Due(s) \ (s.todo \cup {s.reading}) = Due(r) /\ s.todo \subseteq Due(s)
      BY <1>0, <1>2, <2>2, FileNames DEF Due, Quiet
    <2>4. Built(s)
      BY <1>0, <2>2, <2>3 DEF Built, Quiet, Entry
    <2>5. Witnessed(s, d) /\ Checked(s)
      BY <1>0, <2>2 DEF Witnessed, Checked
    <2>6. s \in Processes /\ ProcInv(s, d)
      BY <2>2, <2>4, <2>5 DEF ProcInv
    <2> QED BY <2>6 DEF s
  <1> QED BY <1>1, <1>2

-----------------------------------------------------------------------------
(* Steps of one process *)

\* The other processes, and what is stored, stay as they are.
LEMMA SetInv ==
  ASSUME Inv, NEW p \in Procs, NEW s \in Processes, ProcInv(s, disk), Set(p, s),
         UNCHANGED <<disk, sources, stored, now>>
  PROVE  Inv'
  <1>1. proc' = [proc EXCEPT ![p] = s] /\ proc \in [Procs -> Processes]
    BY DEF Set, Inv, TypeInv
  <1>2. TypeInv'
    BY <1>1 DEF TypeInv, Inv
  <1>3. \A q \in Procs : proc'[q] = IF q = p THEN s ELSE proc[q]
    BY <1>1
  <1>4. disk' = disk
    OBVIOUS
  <1>5. \A q \in Procs : ProcInv(proc'[q], disk')
    BY <1>3, <1>4 DEF Inv
  <1> QED BY <1>2, <1>5 DEF Inv

\* FindInCache for one file.
LEMMA CheckFileInv ==
  ASSUME NamesDistinct, Inv, NEW p \in Procs, NEW f \in Files, CheckFile(p, f)
  PROVE  Inv'
  <1> DEFINE q == proc[p]
             r == [q EXCEPT !.todo = @ \ {f}]
             s == [r EXCEPT !.visited = @ \cup {f}]
  <1>1. /\ q \in Processes /\ ProcInv(q, disk) /\ q.pc \in {"pkg", "src"} /\ f \in q.todo
    BY DEF CheckFile, Inv, TypeInv
  <1>2. /\ Quiet(q) /\ \A g \in Files : disk[g] \in q.since[g]
        /\ q.todo \subseteq Due(q) /\ q.visited \subseteq Due(q) \ q.todo
        /\ \A g \in q.visited : g \in DOMAIN q.fd.gen /\ q.fd.gen[g] \in q.since[g]
        /\ \A g \in Due(q) \ q.todo : g \notin q.visited => 0 \in q.since[g]
    BY <1>1 DEF ProcInv, Checked, Witnessed
  <1>3. Set(p, IF disk[f] = 0 THEN r ELSE IF InCache(r.fd, f) THEN s ELSE Bad(r))
    BY DEF CheckFile
  <1>4. /\ r \in Processes /\ r.pc = q.pc /\ r.list = q.list /\ r.volatile = q.volatile /\ r.since = q.since
        /\ r.fd = q.fd /\ r.todo = q.todo \ {f} /\ r.visited = q.visited /\ r.reading = q.reading /\ r.read = q.read
    BY <1>1 DEF Processes
  <1>5. /\ s \in Processes /\ s.pc = q.pc /\ s.list = q.list /\ s.volatile = q.volatile /\ s.since = q.since
        /\ s.fd = q.fd /\ s.todo = q.todo \ {f} /\ s.visited = q.visited \cup {f} /\ s.reading = q.reading
        /\ s.read = q.read
    BY <1>4 DEF Processes
  <1> HIDE DEF q, r, s
  <1>6. Due(r) = Due(q) /\ Due(s) = Due(q)
    BY <1>4, <1>5 DEF Due
  <1>7. disk[f] = 0 => ProcInv(r, disk)
    BY <1>1, <1>2, <1>4, <1>6 DEF ProcInv, Witnessed, Checked, Built, Quiet, Building
  <1>8. InCache(r.fd, f) => ProcInv(s, disk)
    <2>1. SUFFICES ASSUME InCache(r.fd, f) PROVE ProcInv(s, disk)
      OBVIOUS
    <2>2. r.fd.stamp = r.fd.gen
      BY <1>4 DEF Processes, Images
    <2>3. f \in DOMAIN q.fd.gen /\ q.fd.gen[f] = disk[f]
      BY <1>4, <2>1, <2>2 DEF InCache
    <2> QED BY <1>1, <1>2, <1>5, <1>6, <2>3 DEF ProcInv, Witnessed, Checked, Built, Quiet, Building
  <1>9. Bad(r) \in Processes /\ ProcInv(Bad(r), disk)
    <2>1. Quiet(r) /\ TypeInv /\ \A g \in Files : disk[g] \in r.since[g]
      BY <1>2, <1>4 DEF Quiet, Inv
    <2> QED BY <1>4, <2>1, CheckPackageInv, FromNothingInv DEF Bad
  <1>10. UNCHANGED <<disk, sources, stored, now>>
    BY DEF CheckFile
  <1>11. CASE disk[f] = 0
    BY <1>3, <1>4, <1>7, <1>10, <1>11, SetInv
  <1>12. CASE disk[f] # 0 /\ InCache(r.fd, f)
    BY <1>3, <1>5, <1>8, <1>10, <1>12, SetInv
  <1>13. CASE disk[f] # 0 /\ ~InCache(r.fd, f)
    BY <1>3, <1>9, <1>10, <1>13, SetInv
  <1> QED BY <1>11, <1>12, <1>13

\* The end of the check: the image has every file asked for and no other.
LEMMA CheckEndInv ==
  ASSUME NamesDistinct, Inv, NEW p \in Procs, CheckEnd(p)
  PROVE  Inv'
  <1> DEFINE r == proc[p]
  <1>1. /\ r \in Processes /\ ProcInv(r, disk) /\ r.pc \in {"pkg", "src"} /\ r.todo = {} /\ TypeInv
    BY DEF CheckEnd, Inv, TypeInv
  <1>2. Quiet(r) /\ \A f \in Files : disk[f] \in r.since[f]
    BY <1>1 DEF ProcInv, Checked, Witnessed
  <1>3. UNCHANGED <<disk, sources, stored, now>> /\ Set(p, IF r.visited # DOMAIN r.fd.gen THEN Bad(r) ELSE Fine(r))
    BY DEF CheckEnd
  <1> HIDE DEF r
  <1>4. CASE r.visited # DOMAIN r.fd.gen
    <2>1. Bad(r) \in Processes /\ ProcInv(Bad(r), disk)
      BY <1>1, <1>2, CheckPackageInv, FromNothingInv DEF Bad
    <2> QED BY <1>3, <1>4, <2>1, SetInv
  <1>5. CASE r.visited = DOMAIN r.fd.gen
    <2>1. Fine(r) \in Processes /\ ProcInv(Fine(r), disk)
      BY <1>1, <1>5, FineInv
    <2> QED BY <1>3, <1>5, <2>1, SetInv
  <1> QED BY <1>4, <1>5

\* A cache is asked for: from now on every content a file has is noted.
LEMMA BuildCachesInv ==
  ASSUME NamesDistinct, Inv, NEW p \in Procs, BuildCaches(p)
  PROVE  Inv'
  <1> DEFINE q == proc[p]
             known == q.pc = "dropped"
             list == IF known THEN q.list ELSE sources.files
             time == IF known THEN q.listtime ELSE sources.mtime
             since == [f \in Files |-> {disk[f]}]
             r == [q EXCEPT !.list = list, !.listtime = time, !.since = since, !.dynamic = FALSE, !.image = NoImage]
  <1>1. q \in Processes /\ ProcInv(q, disk) /\ q.pc \in {"closed", "dropped"} /\ TypeInv
    BY DEF BuildCaches, Inv, TypeInv
  <1>2. UNCHANGED <<disk, sources, stored, now>> /\ Set(p, CheckPackage(r))
    BY DEF BuildCaches
  <1>3. list \in SUBSET Lists /\ time \in Int /\ since \in [Files -> SUBSET Nat]
    BY <1>1 DEF Processes, TypeInv
  <1>4. \A f \in Files : disk[f] \in since[f]
    OBVIOUS
  <1> HIDE DEF q, list, time, since
  <1>5. r \in Processes /\ r.since = since /\ r.reading = q.reading /\ r.read = q.read
    BY <1>1, <1>3, EmptyImages DEF Processes
  <1> HIDE DEF r
  <1>6. Quiet(r) /\ \A f \in Files : disk[f] \in r.since[f]
    BY <1>1, <1>4, <1>5 DEF ProcInv, Quiet
  <1>7. CheckPackage(r) \in Processes /\ ProcInv(CheckPackage(r), disk)
    BY <1>1, <1>5, <1>6, CheckPackageInv
  <1> QED BY <1>2, <1>7, SetInv

\* BuildCache takes up a file, or skips it.
LEMMA NextFileInv ==
  ASSUME NamesDistinct, Inv, NEW p \in Procs, NEW f \in Files, NextFile(p, f)
  PROVE  Inv'
  <1> DEFINE q == proc[p]
             name == IF disk[f] = 0 THEN "none" ELSE f
             s == [q EXCEPT !.todo = @ \ {f}, !.reading = name, !.read = 0]
  <1>1. /\ q \in Processes /\ ProcInv(q, disk) /\ q.pc \in Building /\ q.reading = "none" /\ f \in q.todo
        /\ UNCHANGED <<disk, sources, stored, now>> /\ Set(p, s)
    BY DEF NextFile, Inv, TypeInv
  <1>2. /\ s \in Processes /\ s.pc = q.pc /\ s.list = q.list /\ s.volatile = q.volatile /\ s.since = q.since
        /\ s.image = q.image /\ s.todo = q.todo \ {f} /\ s.reading = name /\ s.read = 0
    BY <1>1 DEF Processes
  <1>3. disk[f] \in q.since[f]
    BY <1>1 DEF ProcInv, Witnessed, Built, Building
  <1> HIDE DEF q, s
  <1>4. Due(s) = Due(q) /\ f \in Due(q) /\ f # "none"
    BY <1>1, <1>2, FileNames DEF Due, ProcInv, Built
  <1>5. f \notin DOMAIN q.image.gen
    BY <1>1 DEF ProcInv, Built
  <1>6. ASSUME NEW g \in Due(s) \ (s.todo \cup {s.reading})
        PROVE  Entry(s.image, g) \in s.since[g]
    <2>1. CASE g = f
      BY <1>2, <1>3, <1>5, <1>6, <2>1 DEF Entry
    <2>2. CASE g # f
      <3>1. g \in Due(q) \ (q.todo \cup {q.reading})
        BY <1>1, <1>2, <1>4, <1>6, <2>2, FileNames
      <3>2. Entry(q.image, g) \in q.since[g]
        BY <1>1, <3>1 DEF ProcInv, Built
      <3> QED BY <1>2, <3>2
    <2> QED BY <2>1, <2>2
  <1>7. DOMAIN s.image.gen \subseteq Due(s) \ (s.todo \cup {s.reading})
    BY <1>1, <1>2, <1>4, <1>5 DEF ProcInv, Built
  <1>8. Built(s)
    BY <1>1, <1>2, <1>4, <1>6, <1>7 DEF ProcInv, Built, Building, Quiet
  <1>9. ProcInv(s, disk)
    BY <1>1, <1>2, <1>8 DEF ProcInv, Witnessed, Checked, Building
  <1> QED BY <1>1, <1>2, <1>9, SetInv

\* Merge opens the file.
LEMMA OpenListFileInv ==
  ASSUME NamesDistinct, Inv, NEW p \in Procs, OpenListFile(p)
  PROVE  Inv'
  <1> DEFINE q == proc[p]
             s == [q EXCEPT !.read = disk[q.reading]]
  <1>1. /\ q \in Processes /\ ProcInv(q, disk) /\ q.pc \in Building /\ q.reading # "none"
        /\ UNCHANGED <<disk, sources, stored, now>> /\ Set(p, IF disk[q.reading] = 0 THEN Failed ELSE s)
    BY DEF OpenListFile, Inv, TypeInv
  <1>2. q.reading \in Files /\ disk[q.reading] \in Nat
    BY <1>1 DEF Processes, Inv, TypeInv
  <1>3. /\ s \in Processes /\ s.pc = q.pc /\ s.list = q.list /\ s.volatile = q.volatile /\ s.since = q.since
        /\ s.image = q.image /\ s.todo = q.todo /\ s.reading = q.reading /\ s.read = disk[q.reading]
    BY <1>1, <1>2 DEF Processes
  <1>4. disk[q.reading] \in q.since[q.reading]
    BY <1>1, <1>2 DEF ProcInv, Witnessed, Built, Building
  <1> HIDE DEF q, s
  <1>5. Due(s) = Due(q)
    BY <1>3 DEF Due
  <1>6. Built(s)
    BY <1>1, <1>3, <1>4, <1>5 DEF ProcInv, Built, Building
  <1>7. ProcInv(s, disk)
    BY <1>1, <1>3, <1>6 DEF ProcInv, Witnessed, Checked, Building
  <1> QED BY <1>1, <1>3, <1>7, ClosedType, ClosedInv, SetInv

\* The content which was read is added to the image, with its size and time.
LEMMA MergeInv ==
  ASSUME NamesDistinct, Inv, NEW p \in Procs, Merge(p)
  PROVE  Inv'
  <1> DEFINE q == proc[p]
             gen == [f \in DOMAIN q.image.gen \cup {q.reading} |-> IF f = q.reading THEN q.read ELSE q.image.gen[f]]
             stamp == [f \in DOMAIN q.image.stamp \cup {q.reading} |-> IF f = q.reading THEN q.read ELSE q.image.stamp[f]]
             image == [q.image EXCEPT !.gen = gen, !.stamp = stamp]
             s == [q EXCEPT !.reading = "none", !.read = 0, !.image = image]
  <1>1. /\ q \in Processes /\ ProcInv(q, disk) /\ q.pc \in Building /\ q.read # 0
        /\ UNCHANGED <<disk, sources, stored, now>>
    BY DEF Merge, Inv, TypeInv
  <1>2. /\ q.reading # "none" /\ q.reading \in Files /\ q.read \in Nat /\ q.read \in q.since[q.reading]
        /\ q.reading \in Due(q) \ q.todo
    BY <1>1 DEF ProcInv, Built, Processes
  <1>3. q.image \in Images /\ q.image.stamp = q.image.gen /\ q.image.gen \in Gens /\ q.image.mtime \in Int
    BY <1>1 DEF Processes, Images
  <1>4. Set(p, s)
    BY <1>1, <1>3 DEF Merge, Processes, Images
  <1>5. gen \in Gens /\ stamp = gen /\ DOMAIN gen = DOMAIN q.image.gen \cup {q.reading}
    <2>1. DOMAIN q.image.gen \in SUBSET Files
      BY <1>1, FileNames DEF ProcInv, Built
    <2>2. \A f \in DOMAIN q.image.gen : q.image.gen[f] \in Nat
      BY <1>3 DEF Gens
    <2>3. gen \in [DOMAIN q.image.gen \cup {q.reading} -> Nat] /\ DOMAIN q.image.gen \cup {q.reading} \in SUBSET Files
      BY <1>2, <2>1, <2>2
    <2> QED BY <1>3, <2>3 DEF Gens
  <1>6. \A f \in DOMAIN gen : gen[f] = IF f = q.reading THEN q.read ELSE q.image.gen[f]
    OBVIOUS
  <1> HIDE DEF gen, stamp
  <1>7. image \in Images /\ image.gen = gen
    BY <1>3, <1>5 DEF Images
  <1> HIDE DEF image
  <1>8. /\ s \in Processes /\ s.pc = q.pc /\ s.list = q.list /\ s.volatile = q.volatile /\ s.since = q.since
        /\ s.image = image /\ s.todo = q.todo /\ s.reading = "none" /\ s.read = 0
    BY <1>1, <1>7 DEF Processes
  <1> HIDE DEF q, s
  <1>9. Due(s) = Due(q) /\ "none" \notin Due(q)
    BY <1>1, <1>8, FileNames DEF Due
  <1>10. DOMAIN s.image.gen \subseteq Due(s) \ (s.todo \cup {s.reading})
    BY <1>1, <1>2, <1>5, <1>7, <1>8, <1>9 DEF ProcInv, Built
  <1>11. ASSUME NEW f \in Due(s) \ (s.todo \cup {s.reading})
         PROVE  Entry(s.image, f) \in s.since[f]
    <2>1. CASE f = q.reading
      BY <1>2, <1>5, <1>6, <1>7, <1>8, <2>1 DEF Entry
    <2>2. CASE f # q.reading
      <3>1. f \in Due(q) \ (q.todo \cup {q.reading})
        BY <1>8, <1>9, <1>11, <2>2
      <3>2. Entry(q.image, f) \in q.since[f]
        BY <1>1, <3>1 DEF ProcInv, Built
      <3>3. Entry(s.image, f) = Entry(q.image, f)
        BY <1>5, <1>6, <1>7, <1>8, <2>2 DEF Entry
      <3> QED BY <1>8, <3>2, <3>3
    <2> QED BY <2>1, <2>2
  <1>12. Built(s)
    BY <1>1, <1>8, <1>9, <1>10, <1>11 DEF ProcInv, Built, Building, Quiet
  <1>13. ProcInv(s, disk)
    BY <1>1, <1>8, <1>12 DEF ProcInv, Witnessed, Checked, Building
  <1> QED BY <1>1, <1>4, <1>8, <1>13, SetInv

\* A stage is over, and the next one has more files to take in.
LEMMA StageInv ==
  ASSUME NamesDistinct, NEW d, NEW q \in Processes, ProcInv(q, d), q.pc \in {"lists", "status"}, q.todo = {},
         q.reading = "none", NEW s \in Processes,
         s.pc = IF q.pc = "lists" THEN "status" ELSE "debs",
         s.todo = IF q.pc = "lists" THEN {Status} ELSE IF q.volatile THEN {Volatile} ELSE {},
         s.list = q.list, s.volatile = q.volatile, s.since = q.since, s.image = q.image,
         s.reading = q.reading, s.read = q.read
  PROVE  ProcInv(s, d)
  <1>1. Due(s) \ (s.todo \cup {s.reading}) = Due(q) \ (q.todo \cup {q.reading}) /\ s.todo \subseteq Due(s)
    BY FileNames DEF Due
  <1>2. Built(s)
    BY <1>1 DEF ProcInv, Built, Building
  <1>3. Witnessed(s, d) /\ Checked(s)
    BY FileNames DEF ProcInv, Witnessed, Checked
  <1> QED BY <1>2, <1>3 DEF ProcInv

\* The image is written, if the process may write, and the next stage begins.
LEMMA WriteBackInv ==
  ASSUME NamesDistinct, Inv, NEW p \in Procs, WriteBack(p)
  PROVE  Inv'
  <1> DEFINE q    == proc[p]
             kind == IF q.pc = "lists" THEN "src" ELSE "pkg"
             todo == IF q.pc = "lists" THEN {Status} ELSE IF q.volatile THEN {Volatile} ELSE {}
             pc   == IF q.pc = "lists" THEN "status" ELSE "debs"
             s    == [q EXCEPT !.pc = pc, !.todo = todo]
             image == [q.image EXCEPT !.mtime = now]
  <1>1. /\ q \in Processes /\ ProcInv(q, disk) /\ q.pc \in {"lists", "status"} /\ q.todo = {} /\ q.reading = "none"
        /\ UNCHANGED <<disk, sources, now>> /\ kind \in {"pkg", "src"}
    BY DEF WriteBack, Inv, TypeInv
  <1>2. Set(p, s) \/ Set(p, Failed)
    BY DEF WriteBack
  <1>3. stored' = stored \/ stored' = [stored EXCEPT ![kind] = image]
    BY DEF WriteBack
  <1>4. image \in Images
    BY <1>1 DEF Processes, Images, Inv, TypeInv
  <1>5. todo \in SUBSET Files /\ pc \in {"status", "debs"}
    BY FileNames
  <1>6. /\ s \in Processes /\ s.pc = pc /\ s.todo = todo /\ s.list = q.list /\ s.volatile = q.volatile
        /\ s.since = q.since /\ s.image = q.image /\ s.reading = q.reading /\ s.read = q.read
    BY <1>1, <1>5 DEF Processes
  <1>7. PICK t \in Processes : Set(p, t) /\ ProcInv(t, disk)
    <2>1. ProcInv(s, disk)
      <3> HIDE DEF q, s
      <3> QED BY <1>1, <1>6, StageInv
    <2> QED BY <1>2, <1>6, <2>1, ClosedType, ClosedInv
  <1> HIDE DEF q, s, kind, todo, pc, image
  <1>8. proc' = [proc EXCEPT ![p] = t] /\ proc \in [Procs -> Processes] /\ disk' = disk
    BY <1>1, <1>7 DEF Set, Inv, TypeInv
  <1>9. TypeInv'
    <2>1. stored' \in [{"pkg", "src"} -> Images]
      BY <1>1, <1>3, <1>4 DEF Inv, TypeInv
    <2> QED BY <1>1, <1>8, <2>1 DEF Inv, TypeInv
  <1>10. \A o \in Procs : proc'[o] = IF o = p THEN t ELSE proc[o]
    BY <1>8
  <1>11. \A o \in Procs : ProcInv(proc'[o], disk')
    BY <1>7, <1>8, <1>10 DEF Inv
  <1> QED BY <1>9, <1>11 DEF Inv

\* The cache is open, and files of the command line may be added to it.
LEMMA OpenedInv ==
  ASSUME NamesDistinct, Inv, NEW p \in Procs, Opened(p) \/ AddIndexFile(p)
  PROVE  Inv'
  <1> DEFINE q == proc[p]
  <1>1. q \in Processes /\ ProcInv(q, disk) /\ UNCHANGED <<disk, sources, stored, now>>
    BY DEF Opened, AddIndexFile, Inv, TypeInv
  <1>2. CASE Opened(p)
    <2> DEFINE s == [q EXCEPT !.pc = "open"]
    <2>1. q.pc = "debs" /\ q.todo = {} /\ q.reading = "none" /\ Set(p, s)
      BY <1>2 DEF Opened
    <2>2. /\ s \in Processes /\ s.pc = "open" /\ s.todo = q.todo /\ s.list = q.list /\ s.volatile = q.volatile
          /\ s.since = q.since /\ s.image = q.image /\ s.reading = q.reading /\ s.read = q.read
      BY <1>1 DEF Processes
    <2> HIDE DEF q, s
    <2>3. Due(s) = Due(q)
      BY <2>1, <2>2 DEF Due
    <2>4. ProcInv(s, disk)
      BY <1>1, <2>1, <2>2, <2>3 DEF ProcInv, Witnessed, Checked, Built, Building, Quiet
    <2> QED BY <1>1, <2>1, <2>2, <2>4, SetInv
  <1>3. CASE AddIndexFile(p)
    <2> DEFINE r == [q EXCEPT !.volatile = TRUE]
               s == [r EXCEPT !.pc = "debs", !.todo = {Volatile}]
               t == [r EXCEPT !.pc = "dropped"]
    <2>1. /\ q.pc \in {"closed", "open"} /\ ~q.volatile
          /\ Set(p, IF r.pc = "closed" THEN r ELSE IF r.dynamic THEN s ELSE t)
      BY <1>3 DEF AddIndexFile
    <2>2. /\ r \in Processes /\ r.pc = q.pc /\ r.todo = q.todo /\ r.list = q.list /\ r.volatile = TRUE
          /\ r.since = q.since /\ r.image = q.image /\ r.reading = q.reading /\ r.read = q.read
      BY <1>1 DEF Processes
    <2>3. /\ s \in Processes /\ s.pc = "debs" /\ s.todo = {Volatile} /\ s.list = q.list /\ s.volatile = TRUE
          /\ s.since = q.since /\ s.image = q.image /\ s.reading = q.reading /\ s.read = q.read
      BY <2>2, FileNames DEF Processes
    <2>4. t \in Processes /\ t.pc = "dropped" /\ t.reading = q.reading /\ t.read = q.read
      BY <2>2 DEF Processes
    <2> HIDE DEF q, r, s, t
    <2>5. CASE r.pc = "closed"
      <3>1. ProcInv(r, disk)
        BY <1>1, <2>2, <2>5 DEF ProcInv, Witnessed, Checked, Built, Building, Quiet
      <3> QED BY <1>1, <2>1, <2>2, <2>5, <3>1, SetInv
    <2>6. CASE r.pc # "closed"
      <3>1. q.pc = "open" /\ Quiet(q) /\ q.todo = {}
        BY <1>1, <2>1, <2>2, <2>6 DEF ProcInv, Built
      <3>2. ProcInv(t, disk)
        BY <2>4, <3>1 DEF ProcInv, Witnessed, Checked, Built, Building, Quiet
      <3>3. Due(s) \ (s.todo \cup {s.reading}) = Due(q) \ (q.todo \cup {q.reading}) /\ s.todo \subseteq Due(s)
        BY <1>1, <2>1, <2>3, <3>1, FileNames DEF Due, Quiet
      <3>4. Built(s)
        BY <1>1, <2>3, <3>1, <3>3 DEF ProcInv, Built, Building, Quiet
      <3>5. Witnessed(s, disk) /\ Checked(s)
        BY <1>1, <2>3, <3>1 DEF ProcInv, Witnessed, Checked
      <3>6. ProcInv(s, disk)
        BY <2>3, <3>4, <3>5 DEF ProcInv
      <3>7. Set(p, s) \/ Set(p, t)
        BY <2>1, <2>6
      <3> QED BY <1>1, <2>3, <2>4, <3>2, <3>6, <3>7, SetInv
    <2> QED BY <2>5, <2>6
  <1> QED BY <1>2, <1>3

-----------------------------------------------------------------------------
(* Files change on disk *)

\* Whoever is at work may see the new content as well as the old one.
LEMMA ChangeInv ==
  ASSUME NamesDistinct, Inv, NEW f \in Files, Change(f)
  PROVE  Inv'
  <1>1. /\ f # Volatile /\ UNCHANGED <<sources, stored>> /\ now' = now + 1 /\ proc' = Seen(disk')
        /\ now \in Nat /\ disk \in [Files -> Nat] /\ proc \in [Procs -> Processes]
    BY DEF Change, Inv, TypeInv
  <1>2. PICK gen \in {0, now + 2} : disk' = [disk EXCEPT ![f] = gen]
    BY Zenon DEF Change
  <1>3. disk' \in [Files -> Nat] /\ disk'[Volatile] = disk[Volatile] /\ now' \in Nat
    BY <1>1, <1>2, FileNames
  <1>4. ASSUME NEW p \in Procs
        PROVE  proc'[p] \in Processes /\ ProcInv(proc'[p], disk')
    <2> DEFINE q == proc[p]
               since == [g \in Files |-> q.since[g] \cup {disk'[g]}]
               s == [q EXCEPT !.since = since]
    <2>1. q \in Processes /\ ProcInv(q, disk)
      BY <1>1 DEF Inv
    <2>2. proc'[p] = IF q.pc \in {"closed", "dropped", "open", "failed"} THEN q ELSE s
      BY <1>1 DEF Seen
    <2>3. CASE q.pc \in {"closed", "dropped", "open", "failed"}
      <3> HIDE DEF q
      <3>1. ProcInv(q, disk')
        BY <1>3, <2>1, <2>3 DEF ProcInv, Witnessed, Checked
      <3> QED BY <2>1, <2>2, <2>3, <3>1
    <2>4. CASE q.pc \notin {"closed", "dropped", "open", "failed"}
      <3>1. since \in [Files -> SUBSET Nat] /\ \A g \in Files : q.since[g] \subseteq since[g] /\ disk'[g] \in since[g]
        BY <1>3, <2>1 DEF Processes
      <3> HIDE DEF since
      <3>2. /\ s \in Processes /\ s.pc = q.pc /\ s.todo = q.todo /\ s.list = q.list /\ s.volatile = q.volatile
            /\ s.since = since /\ s.image = q.image /\ s.fd = q.fd /\ s.visited = q.visited
            /\ s.reading = q.reading /\ s.read = q.read
        BY <2>1, <3>1 DEF Processes
      <3> HIDE DEF q, s
      <3>3. Due(s) = Due(q) /\ Due(q) \subseteq Files
        BY <2>1, <3>2, FileNames DEF Due
      <3>4. Checked(s)
        BY <2>1, <3>1, <3>2, <3>3 DEF ProcInv, Checked, Quiet
      <3>5. Built(s)
        BY <2>1, <3>1, <3>2, <3>3 DEF ProcInv, Built, Quiet
      <3>6. Witnessed(s, disk')
        BY <3>1, <3>2, FileNames DEF Witnessed
      <3> QED BY <2>2, <2>4, <3>2, <3>4, <3>5, <3>6 DEF ProcInv
    <2> QED BY <2>3, <2>4
  <1>5. proc' \in [Procs -> Processes]
    BY <1>1, <1>4 DEF Seen
  <1> QED BY <1>1, <1>3, <1>4, <1>5 DEF Inv, TypeInv

\* The invariant is inductive.
LEMMA StepInv ==
  ASSUME NamesDistinct, Inv, [Next]_fvars
  PROVE  Inv'
  <1>1. CASE EditSources
    <2>1. UNCHANGED <<disk, stored, proc>> /\ now' \in Nat /\ sources'.files \subseteq Lists /\ sources'.mtime \in Int
      BY <1>1 DEF EditSources, Inv, TypeInv
    <2> QED BY <2>1 DEF Inv, TypeInv
  <1>2. CASE RemoveCaches
    <2>1. UNCHANGED <<disk, sources, proc>> /\ now' \in Nat /\ stored' \in [{"pkg", "src"} -> Images]
      BY <1>2, EmptyImages DEF RemoveCaches, Inv, TypeInv
    <2> QED BY <2>1 DEF Inv, TypeInv
  <1>3. ASSUME NEW p \in Procs, Ends(p)
        PROVE  Inv'
    BY <1>3, ClosedType, ClosedInv, SetInv DEF Ends
  <1>4. CASE UNCHANGED fvars
    BY <1>4 DEF fvars, Inv, TypeInv
  <1> QED BY <1>1, <1>2, <1>3, <1>4, ChangeInv, BuildCachesInv, CheckFileInv, CheckEndInv, NextFileInv,
             OpenListFileInv, MergeInv, WriteBackInv, OpenedInv DEF Next

\* The initial state: nothing is stored and nobody has begun.
LEMMA InitInv == Init => Inv
  <1> SUFFICES ASSUME Init PROVE Inv
    OBVIOUS
  <1>1. TypeInv
    BY EmptyImages, ClosedType DEF Init, TypeInv
  <1>2. \A p \in Procs : proc[p] = Closed
    BY DEF Init
  <1> QED BY <1>1, <1>2, ClosedInv DEF Inv

\* A cache that was opened holds, of each file that was asked for, a content the
\* file had since the opening began, and no other file: for every number of
\* processes, whatever they store and whatever changes meanwhile.
THEOREM CachesAreFresh == ASSUME NamesDistinct PROVE Spec => []CacheFresh
  <1>1. Inv /\ [Next]_fvars => Inv'
    BY StepInv
  <1>2. Inv => CacheFresh
    <2> SUFFICES ASSUME Inv, NEW p \in Procs, proc[p].pc = "open"
                 PROVE  LET r == proc[p]
                            asked == r.list \cup {Status} \cup (IF r.volatile THEN {Volatile} ELSE {})
                        IN  /\ DOMAIN r.image.gen \subseteq asked
                            /\ \A f \in asked : (IF f \in DOMAIN r.image.gen THEN r.image.gen[f] ELSE 0) \in r.since[f]
      BY DEF CacheFresh
    <2> DEFINE r == proc[p]
    <2>1. r \in Processes /\ Built(r) /\ r.pc = "open"
      BY DEF Inv, TypeInv, ProcInv
    <2> HIDE DEF r
    <2>2. Due(r) = r.list \cup {Status} \cup (IF r.volatile THEN {Volatile} ELSE {})
      BY <2>1 DEF Due
    <2>3. Due(r) \ (r.todo \cup {r.reading}) = Due(r)
      BY <2>1, FileNames DEF Built, Quiet
    <2>4. DOMAIN r.image.gen \subseteq Due(r) /\ \A f \in Due(r) : Entry(r.image, f) \in r.since[f]
      BY <2>1, <2>3 DEF Built
    <2> QED BY <2>2, <2>4 DEF Entry, r
  <1> QED BY InitInv, <1>1, <1>2, PTL DEF Spec
====
