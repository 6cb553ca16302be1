----------------------------- MODULE CacheFiles -----------------------------
(***************************************************************************)
(* When a stored package cache may be used (apt-pkg/pkgcachegen.cc         *)
(* MakeStatusCache, apt-pkg/cachefile.cc, apt-pkg/indexfile.cc): several   *)
(* processes check, build and replace pkgcache.bin and srcpkgcache.bin     *)
(* while index files, the status file and sources.list change on disk and  *)
(* processes are killed. A release file is treated as its index file.      *)
(***************************************************************************)
EXTENDS Integers, FiniteSets, Functions

CONSTANTS
  Lists,       \* the index files sources.list may name
  Procs, Root, \* the processes, and those that may write to the cache directory
  MaxChanges,  \* bound: changes of files on disk
  MaxOpens     \* bound: caches opened

VARIABLES
  disk,     \* file -> the number of its content, 0 if it does not exist
  sources,  \* [files, mtime]: sources.list
  stored,   \* {"pkg", "src"} -> an image, or NoImage
  now, opens,
  proc      \* per process: [pc, list, volatile, since, image, fd, todo, visited, reading, dynamic]

fvars == <<disk, sources, stored, now, opens, proc>>

Status == "status"
Volatile == "deb"
Files == Lists \cup {Status, Volatile}

\* an image of the cache: the content it holds of each file, the size and time noted for it, and its own time
NoImage == [gen |-> <<>>, stamp |-> <<>>, mtime |-> -1]
EmptyImage == [gen |-> [f \in {} |-> 0], stamp |-> [f \in {} |-> 0], mtime |-> 0]

Closed == [pc |-> "closed", list |-> {}, listtime |-> 0, volatile |-> FALSE, since |-> [f \in Files |-> {}], image |-> NoImage,
           fd |-> NoImage, todo |-> {}, visited |-> {}, reading |-> "none", read |-> 0, dynamic |-> FALSE]

\* "The package lists or status file could not be parsed or opened."
Failed == [Closed EXCEPT !.pc = "failed"]

Init ==
  /\ disk = [f \in Files |-> 1]
  /\ sources = [files |-> Lists, mtime |-> 0]
  /\ stored = [k \in {"pkg", "src"} |-> NoImage]
  /\ now = 0 /\ opens = 0
  /\ proc = [p \in Procs |-> Closed]

\* what a process sees while it builds is any of the contents a file had since it began
Seen(d) == [p \in Procs |-> IF proc[p].pc \in {"closed", "dropped", "open", "failed"} THEN proc[p]
                             ELSE [proc[p] EXCEPT !.since = [f \in Files |-> @[f] \cup {d[f]}]]]

\* apt update or dpkg put another file in place, or remove it; files are renamed into place and get a new time
Change(f) ==
  /\ now < MaxChanges /\ f # Volatile
  /\ \E gen \in {0, now + 2} : gen # disk[f] /\ disk' = [disk EXCEPT ![f] = gen]
  /\ now' = now + 1 /\ proc' = Seen(disk')
  /\ UNCHANGED <<sources, stored, opens>>

EditSources ==
  /\ now < MaxChanges /\ now' = now + 1
  /\ \E fs \in SUBSET Lists : fs # sources.files /\ sources' = [files |-> fs, mtime |-> now']
  /\ UNCHANGED <<disk, stored, opens, proc>>

Set(p, r) == proc' = [proc EXCEPT ![p] = r]

\* pkgcache.bin and srcpkgcache.bin are no good: everything is read
FromNothing(r) == [r EXCEPT !.pc = "lists", !.fd = NoImage, !.visited = {}, !.dynamic = TRUE, !.image = EmptyImage, !.todo = r.list]

\* open a stored file; a missing one and one older than sources.list is of no use
CheckOpens(r, kind, else) ==
  IF stored[kind] # NoImage /\ r.listtime <= stored[kind].mtime
  THEN [r EXCEPT !.pc = kind, !.fd = stored[kind], !.visited = {}, !.todo = r.list \cup (IF kind = "pkg" THEN {Status} ELSE {})]
  ELSE else

CheckSource(r) == CheckOpens(r, "src", FromNothing(r))
CheckPackage(r) == CheckOpens(r, "pkg", CheckSource(r))

\* BuildCaches: sources.list is read once for the object, then MakeStatusCache begins
BuildCaches(p) ==
  LET known == proc[p].pc = "dropped"
      r == [proc[p] EXCEPT !.list = IF known THEN @ ELSE sources.files, !.listtime = IF known THEN @ ELSE sources.mtime,
                           !.since = [f \in Files |-> {disk[f]}], !.dynamic = FALSE, !.image = NoImage]
  IN /\ proc[p].pc \in {"closed", "dropped"} /\ opens < MaxOpens /\ opens' = opens + 1
     /\ Set(p, CheckPackage(r))
     /\ UNCHANGED <<disk, sources, stored, now>>

\* mutant: only the name of the file is looked for
InCacheByName(image, f) == f \in DOMAIN image.gen

\* FindInCache: a file of that name with the size and the time of the one on disk
InCache(image, f) == f \in DOMAIN image.gen /\ image.stamp[f] = disk[f]

\* the files are taken in the order of the list
FirstOf(todo) == CHOOSE f \in todo : TRUE

Bad(r) == IF r.pc = "pkg" THEN CheckSource(r) ELSE FromNothing(r)

\* pkgcache.bin can be used as it is unless there are files of the command line; srcpkgcache.bin lacks the status file
Fine(r) == IF r.pc = "pkg" THEN [r EXCEPT !.pc = IF r.volatile THEN "debs" ELSE "open", !.image = r.fd, !.fd = NoImage, !.visited = {},
                                          !.dynamic = r.volatile, !.todo = IF r.volatile THEN {Volatile} ELSE {}]
           ELSE [r EXCEPT !.pc = "status", !.dynamic = TRUE, !.image = r.fd, !.fd = NoImage, !.visited = {}, !.todo = {Status}]

CheckFile(p, f) ==
  /\ proc[p].pc \in {"pkg", "src"} /\ f \in proc[p].todo /\ f = FirstOf(proc[p].todo)
  /\ LET r == [proc[p] EXCEPT !.todo = @ \ {f}]
     IN Set(p, IF disk[f] = 0 THEN r
               ELSE IF InCache(r.fd, f) THEN [r EXCEPT !.visited = @ \cup {f}] ELSE Bad(r))
  /\ UNCHANGED <<disk, sources, stored, now, opens>>

\* mutant: files the cache has and nobody asks for are overlooked
CheckEndExtra(p) ==
  /\ proc[p].pc \in {"pkg", "src"} /\ proc[p].todo = {}
  /\ Set(p, Fine(proc[p]))
  /\ UNCHANGED <<disk, sources, stored, now, opens>>

\* every file is in the cache; the cache may have no other
CheckEnd(p) ==
  /\ proc[p].pc \in {"pkg", "src"} /\ proc[p].todo = {}
  /\ LET r == proc[p]
     IN Set(p, IF r.visited # DOMAIN r.fd.gen THEN Bad(r) ELSE Fine(r))
  /\ UNCHANGED <<disk, sources, stored, now, opens>>

Building == {"lists", "status", "debs"}

\* BuildCache takes the next file: one that does not exist is skipped
NextFile(p, f) ==
  /\ proc[p].pc \in Building /\ proc[p].reading = "none" /\ f \in proc[p].todo /\ f = FirstOf(proc[p].todo)
  /\ Set(p, [proc[p] EXCEPT !.todo = @ \ {f}, !.reading = IF disk[f] = 0 THEN "none" ELSE f, !.read = 0])
  /\ UNCHANGED <<disk, sources, stored, now, opens>>

\* Merge opens it; if it is gone meanwhile the whole build fails
OpenListFile(p) ==
  /\ proc[p].pc \in Building /\ proc[p].reading # "none" /\ proc[p].read = 0
  /\ Set(p, IF disk[proc[p].reading] = 0 THEN Failed ELSE [proc[p] EXCEPT !.read = disk[proc[p].reading]])
  /\ UNCHANGED <<disk, sources, stored, now, opens>>

\* mutant: size and time are those of the file that has the name when it was read
MergeByName(p) ==
  /\ proc[p].pc \in Building /\ proc[p].read # 0
  /\ LET r == proc[p]
     IN Set(p, [r EXCEPT !.reading = "none", !.read = 0,
                         !.image.gen = [f \in DOMAIN @ \cup {r.reading} |-> IF f = r.reading THEN r.read ELSE @[f]],
                         !.image.stamp = [f \in DOMAIN @ \cup {r.reading} |-> IF f = r.reading THEN disk[f] ELSE @[f]]])
  /\ UNCHANGED <<disk, sources, stored, now, opens>>

\* its size and its time are those of the open file
Merge(p) ==
  /\ proc[p].pc \in Building /\ proc[p].read # 0
  /\ LET r == proc[p]
     IN Set(p, [r EXCEPT !.reading = "none", !.read = 0,
                         !.image.gen = [f \in DOMAIN @ \cup {r.reading} |-> IF f = r.reading THEN r.read ELSE @[f]],
                         !.image.stamp = [f \in DOMAIN @ \cup {r.reading} |-> IF f = r.reading THEN r.read ELSE @[f]]])
  /\ UNCHANGED <<disk, sources, stored, now, opens>>

\* the files of one kind are read: write the image (a new file is renamed into place) and go on
WriteBack(p) ==
  LET r    == proc[p]
      kind == IF r.pc = "lists" THEN "src" ELSE "pkg"
      next == IF r.pc = "lists" THEN [r EXCEPT !.pc = "status", !.todo = {Status}]
              ELSE [r EXCEPT !.pc = "debs", !.todo = IF r.volatile THEN {Volatile} ELSE {}]
  IN /\ r.pc \in {"lists", "status"} /\ r.todo = {} /\ r.reading = "none"
     /\ \/ p \in Root /\ stored' = [stored EXCEPT ![kind] = [r.image EXCEPT !.mtime = now]] /\ Set(p, next)
        \/ p \in Root /\ stored' = stored /\ Set(p, Failed)
        \/ p \notin Root /\ stored' = stored /\ Set(p, next)
     /\ UNCHANGED <<disk, sources, now, opens>>

\* files given on the command line are added to the image in memory only, at the end
Opened(p) ==
  /\ proc[p].pc = "debs" /\ proc[p].todo = {} /\ proc[p].reading = "none"
  /\ Set(p, [proc[p] EXCEPT !.pc = "open"])
  /\ UNCHANGED <<disk, sources, stored, now, opens>>

\* AddIndexFile: into the image if it can grow, else the cache is dropped and built again when needed
AddIndexFile(p) ==
  /\ proc[p].pc \in {"closed", "open"} /\ ~proc[p].volatile /\ opens < MaxOpens
  /\ LET r == [proc[p] EXCEPT !.volatile = TRUE]
     IN Set(p, IF r.pc = "closed" THEN r
               ELSE IF r.dynamic THEN [r EXCEPT !.pc = "debs", !.todo = {Volatile}] ELSE [r EXCEPT !.pc = "dropped"])
  /\ UNCHANGED <<disk, sources, stored, now, opens>>

\* the process ends, or is killed
Ends(p) ==
  /\ proc[p].pc # "closed"
  /\ Set(p, Closed)
  /\ UNCHANGED <<disk, sources, stored, now, opens>>

RemoveCaches ==
  /\ now < MaxChanges /\ now' = now + 1
  /\ stored' = [k \in {"pkg", "src"} |-> NoImage]
  /\ UNCHANGED <<disk, sources, opens, proc>>

Next ==
  \/ EditSources \/ RemoveCaches
  \/ \E f \in Files : Change(f)
  \/ \E p \in Procs : \/ BuildCaches(p) \/ CheckEnd(p) \/ OpenListFile(p) \/ Merge(p) \/ WriteBack(p)
                      \/ Opened(p) \/ AddIndexFile(p) \/ Ends(p)
                      \/ \E f \in Files : CheckFile(p, f) \/ NextFile(p, f)

Spec == Init /\ [][Next]_fvars

-----------------------------------------------------------------------------
(* A cache that was opened holds of each file sources.list named, of the status file and of the
   files of the command line a content the file had at some moment since the opening began,
   lacks a file only if it was missing then, and holds no other file: however stored caches
   were written, by whom, and whatever changed on disk meanwhile (pkgcachegen.cc
   CheckValidity, BuildCache, writeBackMMapToFile; indexfile.cc Merge, FindInCache). *)
CacheFresh == \A p \in Procs : proc[p].pc = "open" =>
  LET r == proc[p]
      asked == r.list \cup {Status} \cup (IF r.volatile THEN {Volatile} ELSE {})
  IN /\ DOMAIN r.image.gen \subseteq asked
     /\ \A f \in asked : (IF f \in DOMAIN r.image.gen THEN r.image.gen[f] ELSE 0) \in r.since[f]
=============================================================================
