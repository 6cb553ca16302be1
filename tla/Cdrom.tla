------------------------------- MODULE Cdrom --------------------------------
(***************************************************************************)
(* apt-cdrom: pkgCdrom (cdrom.cc) looks over a disc, drops what it found   *)
(* twice, gives the disc a name in the database of discs, copies the       *)
(* indexes (indexcopy.cc) with the file names put right, and writes the    *)
(* entries of the disc into sources.list. Database and sources.list are    *)
(* each replaced by two renames.                                           *)
(*                                                                         *)
(* A path is a sequence of names below the mount point. A disc is a tree   *)
(* of directories known by their inodes; a subdirectory may be a symlink.  *)
(***************************************************************************)
EXTENDS Integers, Sequences, FiniteSets, SequencesExt

CONSTANTS
  Discs,       \* id -> [dir: inode -> directory, root: inode, records: inode -> Seq([file, size])]
               \* directory: [subs: Seq([name, ino, link]), files: set of [name, size], Packages, Sources, gpg, in: inode or 0,
               \*   Release, good, ignored, unreadable: BOOLEAN, trans: Seq([lang, ino]), disk: label, "" for none]
  Binaries,    \* names of the form binary-<arch>
  Accepted,    \* those of an architecture in use
  Languages,   \* names of Translation files in use
  Names,       \* what the user may call a disc
  Valid,       \* names without quotes and brackets
  Escape,      \* label -> the label with the special characters replaced
  MaxDepth,    \* FindPackages goes no deeper (7 in the code)
  OldLines,    \* the lines sources.list may have: a set of sequences of [kind, type, name, entry]
  Options,     \* sets of options: "Thorough", "Rename", "NoAct"
  MaxAdds      \* runs of apt-cdrom

VARIABLES
  cd_step,     \* where the run is
  cd_options,
  cd_disc,     \* the disc in the drive
  DirStack,    \* FindPackages: directories from the root to the current one
  BinList, SrcList, SigList, TransList,  \* List, SourceList, SigList, TransList
  InfoLabel,   \* the label in InfoDir
  CDName,      \* Name
  Database,    \* Database of the run: id -> name, "" for none
  cdroms,      \* the file of the database and what it was moved to: [now, old]
  cd_lists,    \* lists: set of [name, kind, path, ino, prefix, records]
  cd_meta,     \* Release files in lists: set of [name, path]
  etc,         \* sources.list: [now, old], NoFile when there is none
  foreign_lines, \* its lines that are not about discs
  added,       \* discs added so far, the last one first: [id, name, lines: its entries]
  adds

cdvars == <<cd_step, cd_options, cd_disc, DirStack, BinList, SrcList, SigList, TransList, InfoLabel, CDName, Database, cdroms, cd_lists, cd_meta,
            etc, foreign_lines, added, adds>>

NoFile == <<[kind |-> "none"]>>
Unknown == [id \in DOMAIN Discs |-> ""]
Disc == Discs[cd_disc]
Dir(ino) == Disc.dir[ino]
Act == "NoAct" \notin cd_options

Init ==
  /\ cd_step = "idle" /\ cd_options \in Options /\ cd_disc = 0 /\ DirStack = <<>>
  /\ BinList = <<>> /\ SrcList = <<>> /\ SigList = <<>> /\ TransList = <<>> /\ InfoLabel = "" /\ CDName = ""
  /\ Database = Unknown /\ cdroms = [now |-> Unknown, old |-> NoFile] /\ cd_lists = {} /\ cd_meta = {}
  /\ \E l \in OldLines : etc = [now |-> l, old |-> NoFile] /\ foreign_lines = l
  /\ added = <<>> /\ adds = 0

filevars == <<cdroms, cd_lists, cd_meta, etc, foreign_lines, added>>

(* MountAndIdentCDROM: the user puts in a disc; mounting, identifying or   *)
(* reading the database may fail, which ends the run.                      *)
MountAndIdent ==
  /\ cd_step = "idle" /\ adds < MaxAdds /\ adds' = adds + 1
  /\ \E d \in DOMAIN Discs, ok \in BOOLEAN :
       /\ cd_disc' = d /\ cd_step' = IF ok THEN "scan" ELSE "idle"
       /\ DirStack' = <<[path |-> <<>>, ino |-> Discs[d].root, linked |-> FALSE, next |-> 0]>>
  /\ Database' = cdroms.now
  /\ BinList' = <<>> /\ SrcList' = <<>> /\ SigList' = <<>> /\ TransList' = <<>> /\ InfoLabel' = "" /\ CDName' = ""
  /\ UNCHANGED <<cd_options, filevars>>

-----------------------------------------------------------------------------
(* FindPackages                                                            *)
Top == Last(DirStack)
Found(ino, d) == [path |-> d.path, linked |-> d.linked, ino |-> ino]
Translations(d) ==
  [i \in 1..Len(Dir(d.ino).trans) |->
     [path |-> d.path \o <<"i18n", Dir(d.ino).trans[i].lang>>, linked |-> d.linked, ino |-> Dir(d.ino).trans[i].ino]]

(* Into a directory. What lies below an index belongs to it.               *)
EnterDirectory ==
  /\ cd_step = "scan" /\ DirStack # <<>> /\ Top.next = 0 /\ Len(DirStack) <= MaxDepth /\ ~Dir(Top.ino).unreadable
  /\ InfoLabel' = IF InfoLabel = "" THEN Dir(Top.ino).disk ELSE InfoLabel
  /\ LET here == Dir(Top.ino)
         deeper == "Thorough" \in cd_options
         sig == ~here.ignored /\ (here.gpg # 0 \/ here.in # 0)
         packages == ~here.ignored /\ here.Packages # 0
         sources == ~here.ignored /\ (packages => deeper) /\ here.Sources # 0
         on == ~here.ignored /\ (packages \/ sources => deeper)
     IN /\ SigList' = IF sig THEN Append(SigList, Found(Top.ino, Top)) ELSE SigList
        /\ BinList' = IF packages THEN Append(BinList, Found(here.Packages, Top)) ELSE BinList
        /\ SrcList' = IF sources THEN Append(SrcList, Found(here.Sources, Top)) ELSE SrcList
        /\ TransList' = IF on THEN TransList \o Translations(Top) ELSE TransList
        /\ DirStack' = IF on THEN [DirStack EXCEPT ![Len(DirStack)].next = 1] ELSE Front(DirStack)
  /\ UNCHANGED <<cd_step, cd_options, cd_disc, CDName, Database, filevars, adds>>

(* Too deep, or through with the directory: back to the one above.         *)
LeaveDirectory ==
  /\ cd_step = "scan" /\ DirStack # <<>>
  /\ Len(DirStack) > MaxDepth \/ Top.next > Len(Dir(Top.ino).subs)
  /\ DirStack' = Front(DirStack)
  /\ UNCHANGED <<cd_step, cd_options, cd_disc, BinList, SrcList, SigList, TransList, InfoLabel, CDName, Database, filevars, adds>>

(* A directory on the way from the root is not entered again; the root     *)
(* itself is not remembered.                                               *)
Descend ==
  /\ cd_step = "scan" /\ DirStack # <<>> /\ Len(DirStack) <= MaxDepth
  /\ Top.next \in 1..Len(Dir(Top.ino).subs)
  /\ LET sub == Dir(Top.ino).subs[Top.next]
         moved == [DirStack EXCEPT ![Len(DirStack)].next = @ + 1]
         seen == {DirStack[i].ino : i \in 2..Len(DirStack)}
     IN DirStack' = IF sub.name = "debian-installer" \/ sub.ino \in seen THEN moved
                    ELSE Append(moved, [path |-> Append(Top.path, sub.name), ino |-> sub.ino, linked |-> Top.linked \/ sub.link, next |-> 0])
  /\ UNCHANGED <<cd_step, cd_options, cd_disc, BinList, SrcList, SigList, TransList, InfoLabel, CDName, Database, filevars, adds>>

(* A directory that cannot be read ends the run.                           *)
ScanFails ==
  /\ cd_step = "scan" /\ DirStack # <<>> /\ Top.next = 0 /\ Len(DirStack) <= MaxDepth /\ Dir(Top.ino).unreadable
  /\ cd_step' = "idle" /\ DirStack' = <<>>
  /\ UNCHANGED <<cd_options, cd_disc, BinList, SrcList, SigList, TransList, InfoLabel, CDName, Database, filevars, adds>>

-----------------------------------------------------------------------------
(* Score: points for each part a path has, and a penalty for a symlink on  *)
(* it. The empty path of a dropped entry scores nothing.                   *)
Dropped == [path |-> <<>>, linked |-> FALSE, ino |-> 0]
Points == <<<<{"stable", "unstable"}, 29>>, <<Binaries, 20>>, <<{"testing"}, 28>>, <<{"unstable"}, 27>>, <<{"dists"}, 40>>, <<{"main"}, 20>>,
            <<{"contrib"}, 20>>, <<{"non-free"}, 20>>, <<{"non-free-firmware"}, 20>>, <<{"source"}, 10>>, <<{"debian"}, -10>>>>
Score(e) ==
  FoldLeft(LAMBDA res, p : IF ToSet(e.path) \cap p[1] # {} THEN res + p[2] ELSE res, IF e.linked THEN -60 ELSE 0, Points)

(* One round of the loop of DropRepeats: the entry at i against the later  *)
(* ones with its inode, until one of them is better. Entries are dropped   *)
(* by emptying their path; their inode is not forgotten.                   *)
DropRepeatsOf_First(l, inodes, i) ==  \* mutant: the score is not asked
  LET same == {j \in i + 1..Len(l) : inodes[j] # 0 /\ inodes[j] = inodes[i]}
  IN [j \in 1..Len(l) |-> IF j \in same THEN Dropped ELSE l[j]]
DropRepeatsOf(l, inodes, i) ==
  LET same == {j \in i + 1..Len(l) : inodes[j] # 0 /\ inodes[j] = inodes[i]}
      better == {j \in same : Score(l[i]) < Score(l[j])}
      erased == IF better = {} THEN same ELSE {i} \cup {j \in same : \A b \in better : j < b}
  IN [j \in 1..Len(l) |-> IF j \in erased THEN Dropped ELSE l[j]]
DropRepeats(list, inodes) ==
  SelectSeq(FoldLeft(LAMBDA l, i : DropRepeatsOf(l, inodes, i), list, [i \in 1..Len(list) |-> i]), LAMBDA e : e # Dropped)

InodesOf(list) == [i \in 1..Len(list) |-> list[i].ino]
GpgInodes(list) == [i \in 1..Len(list) |-> Dir(list[i].ino).gpg]
InReleaseInodes(list) == [i \in 1..Len(list) |-> Dir(list[i].ino).in]

DropBinaryArch(list) == SelectSeq(list, LAMBDA e : ToSet(e.path) \cap Binaries \subseteq Accepted)
DropTranslation(list) == SelectSeq(list, LAMBDA e : Last(e.path) \in Languages)

(* Add, after the scan: the lists are cleaned. A disc without an index is  *)
(* refused.                                                                *)
FixLists ==
  /\ cd_step = "scan" /\ DirStack = <<>>
  /\ \E l \in {DropBinaryArch(BinList)} : BinList' = DropRepeats(l, InodesOf(l))
  /\ SrcList' = DropRepeats(SrcList, InodesOf(SrcList))
  /\ \E l \in {DropRepeats(SigList, GpgInodes(SigList))} : SigList' = DropRepeats(l, InReleaseInodes(l))
  /\ TransList' = DropTranslation(DropRepeats(TransList, InodesOf(TransList)))
  /\ cd_step' = IF BinList' = <<>> /\ SrcList' = <<>> THEN "idle" ELSE "name"
  /\ UNCHANGED <<cd_options, cd_disc, DirStack, InfoLabel, CDName, Database, filevars, adds>>

-----------------------------------------------------------------------------
(* The name: the one of the database, else the label, else what the user   *)
(* says; a name that is not valid is asked for again.                      *)
Ask == "Rename" \in cd_options \/ InfoLabel = ""
NameDisc ==
  /\ cd_step = "name"
  /\ \/ /\ Database[cd_disc] # "" /\ "Rename" \notin cd_options
        /\ CDName' = Database[cd_disc]
     \/ /\ Database[cd_disc] = "" \/ "Rename" \in cd_options
        /\ \/ ~Ask /\ CDName' = Escape[InfoLabel]
           \/ Ask /\ CDName' \in Names \cap Valid
  /\ Database' = [Database EXCEPT ![cd_disc] = CDName']
  /\ cd_step' = "verify"
  /\ UNCHANGED <<cd_options, cd_disc, DirStack, BinList, SrcList, SigList, TransList, InfoLabel, filevars, adds>>

-----------------------------------------------------------------------------
(* SigVerify::CopyAndVerify: the Release files of good signatures are      *)
(* copied. A disc with InRelease only has no Release to load, which ends   *)
(* the round, and Add does not look at the result.                         *)
Usable(d) == d.in # 0 \/ (d.Release /\ d.gpg # 0)
Loaded(i) == \A j \in 1..i : LET d == Dir(SigList[j].ino) IN Usable(d) /\ d.good => d.Release
CopyAndVerify ==
  /\ cd_step = "verify" /\ cd_step' = "packages"
  /\ cd_meta' = cd_meta \cup {[name |-> CDName, path |-> SigList[i].path] :
                   i \in {k \in 1..Len(SigList) : Usable(Dir(SigList[k].ino)) /\ Dir(SigList[k].ino).good /\ Loaded(k)}}
  /\ UNCHANGED <<cd_options, cd_disc, DirStack, BinList, SrcList, SigList, TransList, InfoLabel, CDName, Database, cdroms, cd_lists, etc,
                 foreign_lines, added, adds>>

(* stat(): the size of the file at a path, -1 for none.                    *)
Into(ino, name) ==
  LET s == IF ino = 0 THEN {} ELSE {e \in ToSet(Dir(ino).subs) : e.name = name}
  IN IF s = {} THEN 0 ELSE (CHOOSE e \in s : TRUE).ino
FileAt(ino, name) ==
  LET s == IF ino = 0 THEN {} ELSE {f \in Dir(ino).files : f.name = name}
  IN IF s = {} THEN -1 ELSE (CHOOSE f \in s : TRUE).size
Stat(path) == IF path = <<>> THEN -1 ELSE FileAt(FoldLeft(Into, Disc.root, Front(path)), Last(path))

(* ReconstructPrefix: the leading directories of the index are put before  *)
(* the file name until there is such a file. ReconstructChop: leading      *)
(* directories of the file name are cut off below the directory of the     *)
(* index.                                                                  *)
PrefixesTried(path, file, prefix) ==
  SelectSeq(<<prefix>> \o [d \in 1..Len(path) |-> SubSeq(path, 1, d)], LAMBDA p : Stat(p \o file) # -1)
Chops(path, file) == {d \in 1..Len(file) - 1 : Stat(path \o SubSeq(file, d + 1, Len(file))) # -1}
ChopDirs(path, file, chop) == IF chop = 0 THEN file ELSE path \o SubSeq(file, chop + 1, Len(file))
MangleBinary(file) ==
  LET b == {i \in 1..Len(file) - 1 : file[i] \in Binaries}
  IN IF b = {} THEN file ELSE [file EXCEPT ![CHOOSE i \in b : \A j \in b : i <= j] = "binary-all"]

(* One record: found, where it should be or in binary-all, with the size   *)
(* it should have. s = [prefix, chop, hits, out, failed]                   *)
KeepRecord(s, r, file) ==
  LET at == IF Stat(s.prefix \o file) > 0 THEN file ELSE MangleBinary(file)
  IN IF Stat(s.prefix \o at) = r.size THEN [s EXCEPT !.hits = @ + 1, !.out = Append(@, [r EXCEPT !.file = at])] ELSE s
SetUp(s, path, file) ==
  LET p == PrefixesTried(path, file, s.prefix)
  IN IF s.hits > 0 THEN {s}
     ELSE IF p # <<>> THEN {[s EXCEPT !.prefix = Head(p)]}
     ELSE {[s EXCEPT !.chop = c] : c \in {d \in Chops(path, file) : \A e \in Chops(path, file) : d <= e}}
CopyRecord(s, r, path) ==
  IF s.failed \/ r.size = 0 THEN [s EXCEPT !.failed = TRUE]
  ELSE LET given == ChopDirs(path, r.file, s.chop)
           to == SetUp(s, path, given)
       IN IF to = {} THEN s
          ELSE LET t == CHOOSE t \in to : TRUE
               IN KeepRecord(t, r, IF s.hits = 0 THEN ChopDirs(path, given, t.chop) ELSE given)
CopyIndex(e) ==
  FoldLeft(LAMBDA s, r : CopyRecord(s, r, e.path), [prefix |-> <<>>, chop |-> 0, hits |-> 0, out |-> <<>>, failed |-> FALSE], Disc.records[e.ino])

(* ConvertToSourceList: dists/<dist>/<component>/<binary-arch or source>.  *)
ConvertToSourceList(prefix, path) ==
  LET k == {i \in 4..Len(path) : path[i] \in Accepted \cup {"source"}}
      least == CHOOSE i \in k : \A j \in k : i <= j
  IN IF path # <<>> /\ path[1] = "dists" /\ k # {}
     THEN [prefix |-> prefix, dist |-> <<path[2]>>, comp |-> {SubSeq(path, 3, least - 1)}]
     ELSE [prefix |-> prefix, dist |-> path, comp |-> {}]
Entry(e, prefix) == ConvertToSourceList(prefix, SubSeq(e.path, Len(prefix) + 1, Len(e.path)))

(* IndexCopy::CopyPackages for one list: [entries, lists, failed]. An      *)
(* index that fails leaves the ones before it in place.                    *)
CopiedOne(s, e, c) ==
  IF c.failed THEN [s EXCEPT !.failed = TRUE]
  ELSE [s EXCEPT !.entries = Append(@, Entry(e, c.prefix)),
                 !.lists = @ \cup {[name |-> CDName, kind |-> cd_step, path |-> e.path, ino |-> e.ino, prefix |-> c.prefix, records |-> c.out]}]
CopyOne(s, e) == IF s.failed THEN s ELSE CopiedOne(s, e, CopyIndex(e))
CopyPackages(list) == FoldLeft(CopyOne, [entries |-> <<>>, lists |-> {}, failed |-> FALSE], list)

(* A copy replaces the list of the same name.                              *)
InLists(new) == IF Act THEN {l \in cd_lists : \A n \in new : l.name # n.name \/ l.kind # n.kind \/ l.path # n.path} \cup new ELSE cd_lists

(* First the Packages files, then the Sources files.                       *)
CopyIndexes ==
  /\ cd_step \in {"packages", "sources"}
  /\ \E c \in {CopyPackages(IF cd_step = "packages" THEN BinList ELSE SrcList)} :
       /\ cd_lists' = InLists(c.lists)
       /\ BinList' = (IF cd_step = "packages" THEN c.entries ELSE BinList)
       /\ SrcList' = (IF cd_step = "sources" THEN c.entries ELSE SrcList)
       /\ cd_step' = (IF c.failed THEN "idle" ELSE IF cd_step = "packages" THEN "sources" ELSE "translations")
  /\ UNCHANGED <<cd_options, cd_disc, DirStack, SigList, TransList, InfoLabel, CDName, Database, cdroms, cd_meta, etc, foreign_lines, added, adds>>

(* ReduceSourcelist: one entry for each prefix and distribution.           *)
ReduceSourcelist(list) ==
  {[e EXCEPT !.comp = UNION {f.comp : f \in {f \in ToSet(list) : f.prefix = e.prefix /\ f.dist = e.dist /\ f.comp # {}}}] :
     e \in {e \in ToSet(list) : e.comp # {}}} \cup {e \in ToSet(list) : e.comp = {}}

(* TranslationsCopy::CopyTranslations copies as it is. Then the lists are  *)
(* reduced and written, unless nothing is to be changed.                   *)
CopyTranslations ==
  /\ cd_step = "translations"
  /\ cd_lists' = InLists({[name |-> CDName, kind |-> cd_step, path |-> e.path, ino |-> e.ino, prefix |-> <<>>, records |-> <<>>] : e \in ToSet(TransList)})
  /\ BinList' = SetToSeq(ReduceSourcelist(BinList)) /\ SrcList' = SetToSeq(ReduceSourcelist(SrcList))
  /\ cd_step' = IF Act THEN "database" ELSE "idle"
  /\ UNCHANGED <<cd_options, cd_disc, DirStack, SigList, TransList, InfoLabel, CDName, Database, cdroms, cd_meta, etc, foreign_lines, added, adds>>

-----------------------------------------------------------------------------
(* WriteDatabase, rename by rename.                                        *)
MoveDatabase ==
  /\ cd_step = "database" /\ cd_step' = "database2"
  /\ cdroms' = [now |-> NoFile, old |-> cdroms.now]
  /\ UNCHANGED <<cd_options, cd_disc, DirStack, BinList, SrcList, SigList, TransList, InfoLabel, CDName, Database, cd_lists, cd_meta, etc,
                 foreign_lines, added, adds>>
WriteDatabase ==
  /\ cd_step = "database2" /\ cd_step' = "deb"
  /\ cdroms' = [cdroms EXCEPT !.now = Database]
  /\ UNCHANGED <<cd_options, cd_disc, DirStack, BinList, SrcList, SigList, TransList, InfoLabel, CDName, Database, cd_lists, cd_meta, etc,
                 foreign_lines, added, adds>>

(* WriteSourceList: the new entries go before the first entry there is,    *)
(* and old entries of the disc and the type are left out. In a file        *)
(* without any entry all entries are of the type deb.                      *)
Line(type, e) == [kind |-> "entry", type |-> type, name |-> CDName, entry |-> e]
NewLines(type, list) == [i \in 1..Len(list) |-> Line(type, list[i])]
IsEntry(l) == l.kind = "entry"
Stays(l, type) == ~(IsEntry(l) /\ l.type = type /\ l.name = CDName)
WriteSourceList(old, list, type) ==
  LET first == {i \in 1..Len(old) : IsEntry(old[i]) /\ \A j \in 1..i - 1 : ~IsEntry(old[j])}
  IN IF first = {} THEN old \o NewLines("deb", list)
     ELSE LET f == CHOOSE i \in first : TRUE
          IN SubSeq(old, 1, f - 1) \o NewLines(type, list) \o SelectSeq(SubSeq(old, f, Len(old)), LAMBDA l : Stays(l, type))

MoveSources ==
  /\ cd_step \in {"deb", "deb-src"}
  /\ LET list == IF cd_step = "deb" THEN BinList ELSE SrcList
     IN IF list = <<>> THEN etc' = etc /\ cd_step' = (IF cd_step = "deb" THEN "deb-src" ELSE "done")
        ELSE etc' = [now |-> NoFile, old |-> etc.now] /\ cd_step' = (IF cd_step = "deb" THEN "deb2" ELSE "deb-src2")
  /\ UNCHANGED <<cd_options, cd_disc, DirStack, BinList, SrcList, SigList, TransList, InfoLabel, CDName, Database, cdroms, cd_lists, cd_meta,
                 foreign_lines, added, adds>>
PutSources ==
  /\ cd_step \in {"deb2", "deb-src2"}
  /\ etc' = [etc EXCEPT !.now = IF cd_step = "deb2" THEN WriteSourceList(etc.old, BinList, "deb") ELSE WriteSourceList(etc.old, SrcList, "deb-src")]
  /\ cd_step' = IF cd_step = "deb2" THEN "deb-src" ELSE "done"
  /\ UNCHANGED <<cd_options, cd_disc, DirStack, BinList, SrcList, SigList, TransList, InfoLabel, CDName, Database, cdroms, cd_lists, cd_meta,
                 foreign_lines, added, adds>>

Done ==
  /\ cd_step = "done" /\ cd_step' = "idle"
  /\ added' = <<[id |-> cd_disc, name |-> CDName, lines |-> SelectSeq(etc.now, LAMBDA l : IsEntry(l) /\ l.name = CDName)]>> \o added
  /\ UNCHANGED <<cd_options, cd_disc, DirStack, BinList, SrcList, SigList, TransList, InfoLabel, CDName, Database, cdroms, cd_lists, cd_meta, etc,
                 foreign_lines, adds>>

(* The machine stops; no run comes after it.                               *)
Crash ==
  /\ cd_step \notin {"idle", "crashed"} /\ cd_step' = "crashed"
  /\ UNCHANGED <<cd_options, cd_disc, DirStack, BinList, SrcList, SigList, TransList, InfoLabel, CDName, Database, filevars, adds>>

Next ==
  \/ MountAndIdent \/ EnterDirectory \/ LeaveDirectory \/ Descend \/ ScanFails \/ FixLists \/ NameDisc \/ CopyAndVerify
  \/ CopyIndexes \/ CopyTranslations \/ MoveDatabase \/ WriteDatabase \/ MoveSources \/ PutSources \/ Done \/ Crash

Spec == Init /\ [][Next]_cdvars

-----------------------------------------------------------------------------
(* The directories a look over the disc meets: no directory twice on the   *)
(* way (the root is not counted), nothing below an index or in a directory *)
(* to be ignored.                                                          *)
Open(d) ==
  /\ ~d.ignored
  /\ "Thorough" \in cd_options \/ (d.Packages = 0 /\ d.Sources = 0)
Start == [path |-> <<>>, ino |-> Disc.root, linked |-> FALSE, seen |-> {}]
Walk[n \in 0..MaxDepth - 1] ==
  IF n = 0 THEN {Start}
  ELSE UNION {{[path |-> Append(w.path, e.name), ino |-> e.ino, linked |-> w.linked \/ e.link, seen |-> w.seen \cup {e.ino}] :
                 e \in {e \in ToSet(Dir(w.ino).subs) : e.ino \notin w.seen /\ e.name # "debian-installer"}} :
              w \in {w \in Walk[n - 1] : Open(Dir(w.ino))}}
Met == UNION {Walk[n] : n \in 0..MaxDepth - 1}
IndexesMet(type) ==
  {[path |-> w.path, linked |-> w.linked, ino |-> IF type = "deb" THEN Dir(w.ino).Packages ELSE Dir(w.ino).Sources] :
     w \in {w \in Met : /\ ~Dir(w.ino).ignored
                        /\ IF type = "deb" THEN Dir(w.ino).Packages # 0 /\ ToSet(w.path) \cap Binaries \subseteq Accepted
                           ELSE Dir(w.ino).Sources # 0 /\ ("Thorough" \in cd_options \/ Dir(w.ino).Packages = 0)}}

(* A disc with nothing but sources, the first one, and a sources.list      *)
(* without an entry: its entries are written as deb and not as deb-src     *)
(* (cdrom.cc:536-546 has the type in its text), and the sources that were  *)
(* copied are in no source list. What apt-cdrom prints says deb-src.       *)
FirstEntriesAreSources == IndexesMet("deb") = {} /\ added = <<>> /\ SelectSeq(foreign_lines, IsEntry) = <<>>

Copied(e) == {l \in cd_lists : l.name = CDName /\ l.path = e.path /\ l.ino = e.ino}
Listed(type, entry) ==
  \E i \in 1..Len(etc.now) :
    LET l == etc.now[i]
    IN /\ IsEntry(l) /\ l.type = type /\ l.name = CDName
       /\ l.entry.prefix = entry.prefix /\ l.entry.dist = entry.dist /\ entry.comp \subseteq l.entry.comp

(* Every index on the disc that is of use is copied once, from its best    *)
(* path, and listed with its type, but for FirstEntriesAreSources; the     *)
(* copy names exactly the files the disc has with the right size below the *)
(* place the entry names. Indexes that are only at paths without any point *)
(* are left aside: DropRepeats may lose them.                              *)
IndexServed(type, ino) ==
  LET at == {e \in IndexesMet(type) : e.ino = ino}
      copied == {e \in at : \E l \in cd_lists : l.name = CDName /\ l.path = e.path /\ l.ino = ino}
      pointless == Cardinality(at) > 2 /\ \A e \in at : Score(e) <= 0
      best == {e \in at : \A f \in at : Score(f) <= Score(e)}
  IN pointless \/
     (/\ Cardinality(copied) = 1 /\ copied \subseteq best
      /\ \A e \in copied : \A l \in Copied(e) :
           /\ Listed(type, Entry(e, l.prefix)) \/ (type = "deb-src" /\ FirstEntriesAreSources)
           /\ \A i \in 1..Len(l.records) : Stat(l.prefix \o l.records[i].file) = l.records[i].size
           /\ \A i \in 1..Len(Disc.records[ino]) :
                Stat(l.prefix \o Disc.records[ino][i].file) = Disc.records[ino][i].size => \E j \in 1..Len(l.records) : l.records[j] = Disc.records[ino][i])

(* What apt-cdrom add promises once it has written sources.list: the disc  *)
(* is known by its name and all its indexes are served, the sources of     *)
(* FirstEntriesAreSources only as copies no entry leads to.                *)
DiscServed ==
  cd_step = "done" =>
    /\ cdroms.now[cd_disc] = CDName
    /\ \A type \in {"deb", "deb-src"} : \A ino \in {e.ino : e \in IndexesMet(type)} : IndexServed(type, ino)

(* Whenever the machine stops, each file or what it was moved to has all   *)
(* there was: the lines that are no business of apt-cdrom in their order,  *)
(* the entries of the other discs and their names in the database.         *)
Latest(i) == \A j \in 1..i - 1 : added[j].id # added[i].id
NameFree(i) == added[i].name # CDName /\ \A j \in 1..i - 1 : added[j].name # added[i].name
OthersKept ==
  LET file == IF etc.now = NoFile THEN etc.old ELSE etc.now
      db == IF cdroms.now = NoFile THEN cdroms.old ELSE cdroms.now
  IN /\ SelectSeq(file, LAMBDA l : ~IsEntry(l) \/ l.name = "") = foreign_lines
     /\ \A i \in 1..Len(added) :
          /\ NameFree(i) => SelectSeq(file, LAMBDA l : IsEntry(l) /\ l.name = added[i].name) = added[i].lines
          /\ Latest(i) /\ added[i].id # cd_disc => db[added[i].id] = added[i].name

(* Adding a disc makes it usable, with the one exception that is named     *)
(* above, and costs nothing that was there.                                *)
DiscAdded == DiscServed /\ OthersKept
=============================================================================
