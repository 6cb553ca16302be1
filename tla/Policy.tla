------------------------------- MODULE Policy -------------------------------
(***************************************************************************)
(* Pins (policy.cc, versionmatch.cc): the records of the preferences files *)
(* are read one by one into the table of the defaults and the pins of the  *)
(* versions, from which come the priorities and the candidates.            *)
(*                                                                         *)
(* A pattern is a name that stands for itself or for the set Glob gives    *)
(* it. A selector of a record is one word of its Package field.            *)
(***************************************************************************)
EXTENDS Integers, Sequences, FiniteSets, SequencesExt, FiniteSetsExt, TLC

CONSTANTS
  IndexFiles,  \* [file -> [release, fields, site, flag]], the fields of NoData
  Vers,        \* sequence of versions [pkg, arch, num, ver, src, srcver, files, phased], newest first
  Glob,        \* [pattern -> names it matches]
  NativeArch,
  Records,     \* records [names, type, data, never, prio], names <<>> for "*"
  MaxRecords,  \* bound: records in the preferences files
  Currents,    \* sets of versions that may be installed, one per package
  DefaultReleases \* values of APT::Default-Release

VARIABLES
  CurrentVer,  \* indices of the installed versions
  PFPriority,  \* [index file -> priority]
  Defaults,    \* sequence of default pins
  VerPins,     \* [version -> pin]
  dirty,       \* Defaults has pins InitDefaults has not looked at
  pins_failed,      \* a file was refused
  history      \* the records read, the Default-Release first

plvars == <<CurrentVer, PFPriority, Defaults, VerPins, dirty, pins_failed, history>>

NEVER_PIN == -32768
NoData == [f \in {"all", "pattern", "release", "a", "n", "o", "l", "v", "c", "b"} |-> ""]
NoPin == [type |-> "none", data |-> NoData, prio |-> 0]

-----------------------------------------------------------------------------
(* pkgVersionMatch. Release data is "*" or has the fields release, a, n,   *)
(* o, l, v, c and b; a pattern is for the other types.                     *)
ExpressionMatches(p, s) == p = s \/ (p \in DOMAIN Glob /\ s \in Glob[p])

Fits(d, file, fs) == \A f \in fs : d[f] = "" \/ ExpressionMatches(d[f], file.fields[f])

(* The release of a file has to fit, or for the status file its component  *)
(* "now" in the place of the archive.                                      *)
ReleaseMatch(d, file) ==
  /\ \E f \in DOMAIN d : d[f] # ""
  /\ Fits(d, file, {"v", "o", "a", "n", "l"})
  /\ d.release = "" \/ ExpressionMatches(d.release, file.fields.a) \/ ExpressionMatches(d.release, file.fields.n)

NowMatch(d, file) ==
  /\ \A f \in {"a", "release"} : d[f] = "" \/ ExpressionMatches(d[f], file.fields.c)
  /\ \A f \in {"o", "l", "v", "n"} : d[f] = ""

FileMatch(pin, file) ==
  CASE pin.type = "release" ->
         \/ pin.data.all = "*"
         \/ /\ IF file.release THEN ReleaseMatch(pin.data, file) ELSE NowMatch(pin.data, file)
            /\ Fits(pin.data, file, {"c", "b"})
    [] pin.type = "origin" -> file.release /\ ExpressionMatches(pin.data.pattern, file.site)
    [] OTHER -> FALSE

VersionMatches(pin, v) ==
  CASE pin.type = "version" -> ExpressionMatches(pin.data.pattern, v.ver)
    [] pin.type = "source-version" -> ExpressionMatches(pin.data.pattern, v.srcver)
    [] OTHER -> \E f \in v.files : FileMatch(pin, IndexFiles[f])

-----------------------------------------------------------------------------
(* InitDefaults: the first default pin that matches a file decides, but a  *)
(* never pin overrides the others wherever it is.                          *)
Base(file) ==
  CASE file.flag = "NotSource" -> 100
    [] file.flag = "ButAutomaticUpgrades" -> 100
    [] file.flag = "NotAutomatic" -> 1
    [] OTHER -> 500

\* mutant: a never pin does not override an earlier one
DecidesInOrder(fixed, prio, pin) == ~fixed
Decides(fixed, prio, pin) == (~fixed \/ pin.prio = NEVER_PIN) /\ prio # NEVER_PIN

InitDefaults(defaults) ==
  [f \in DOMAIN IndexFiles |->
     FoldLeft(LAMBDA acc, pin :
                IF Decides(acc.fixed, acc.prio, pin) /\ FileMatch(pin, IndexFiles[f])
                THEN [fixed |-> TRUE, prio |-> pin.prio] ELSE acc,
              [fixed |-> FALSE, prio |-> Base(IndexFiles[f])], defaults).prio]

Pin(r) == [type |-> r.type, data |-> r.data, 
  prio |-> IF r.never THEN NEVER_PIN ELSE IF r.prio = NEVER_PIN THEN NEVER_PIN + 1 ELSE r.prio]

(* Default-Release is a pin in front of all others; one that no file has   *)
(* is an error.                                                            *)
DefaultPins(rel) ==
  IF rel = "" THEN <<>>
  ELSE <<[names |-> <<>>, type |-> "release", data |-> [NoData EXCEPT !.release = rel], never |-> FALSE, prio |-> 990]>>
Known(rel) ==
  rel \in {"", "now"} \/ \E f \in DOMAIN IndexFiles : rel \in {IndexFiles[f].fields.a, IndexFiles[f].fields.n, IndexFiles[f].fields.v}

Init ==
  /\ CurrentVer \in Currents
  /\ \E rel \in DefaultReleases :
       /\ pins_failed = ~Known(rel)
       /\ history = IF Known(rel) THEN DefaultPins(rel) ELSE <<>>
  /\ Defaults = [i \in 1..Len(history) |-> Pin(history[i])]
  /\ PFPriority = InitDefaults(Defaults)
  /\ VerPins = [i \in 1..Len(Vers) |-> NoPin] /\ dirty = FALSE

(* CreatePin: the versions a selector is about. Without an architecture it *)
(* is about the native one, and a pattern is not about a package of that   *)
(* very name.                                                              *)
Selected(n, v) ==
  /\ v.arch = (IF n.arch = "" THEN NativeArch ELSE n.arch) \/ n.arch = "any"
  /\ LET name == IF n.src THEN v.src ELSE v.pkg
     IN IF n.name \in DOMAIN Glob THEN name # n.name /\ name \in Glob[n.name] ELSE name = n.name

CreatePin(pins, n, pin) ==
  [i \in 1..Len(Vers) |->
     IF pins[i].type = "none" /\ Selected(n, Vers[i]) /\ VersionMatches(pin, Vers[i]) THEN pin ELSE pins[i]]

(* A record of a preferences file. A priority of 0, one that is no short   *)
(* and a never pin for single packages refuse the file there and then, and *)
(* InitDefaults is left out.                                               *)
Refused(r) ==
  \/ r.never /\ r.names # <<>>
  \/ ~r.never /\ (r.prio = 0 \/ r.prio < -32768 \/ r.prio > 32767)
Understood(r) == r.names # <<>> \/ r.type \in {"release", "origin"}

ReadRecord(r) ==
  /\ Len(history) < MaxRecords /\ ~pins_failed
  /\ IF ~Understood(r) THEN UNCHANGED <<Defaults, VerPins, dirty, pins_failed, history>>
     ELSE IF Refused(r) THEN pins_failed' = TRUE /\ UNCHANGED <<Defaults, VerPins, dirty, history>>
     ELSE /\ history' = Append(history, r) /\ dirty' = TRUE
          /\ IF r.names = <<>> THEN Defaults' = Append(Defaults, Pin(r)) /\ UNCHANGED VerPins
             ELSE /\ VerPins' = FoldLeft(LAMBDA pins, n : CreatePin(pins, n, Pin(r)), VerPins, r.names)
                  /\ UNCHANGED Defaults
          /\ UNCHANGED pins_failed
  /\ UNCHANGED <<CurrentVer, PFPriority>>

EndPinFile ==
  /\ dirty /\ ~pins_failed
  /\ PFPriority' = InitDefaults(Defaults) /\ dirty' = FALSE
  /\ UNCHANGED <<CurrentVer, Defaults, VerPins, pins_failed, history>>

Next ==
  \/ \E r \in Records : ReadRecord(r)
  \/ EndPinFile

Spec == Init /\ [][Next]_plvars

-----------------------------------------------------------------------------
(* GetPriority: the pin of the version unless all its files are never      *)
(* pinned, or else the best of its files; a status file is no reason to    *)
(* install what is not installed. A phased update is at most 1.            *)
FilePriority(i, f) ==
  IF IndexFiles[f].flag = "NotSource" /\ i \notin CurrentVer THEN -1 ELSE PFPriority[f]
BestFile(i) == IF Vers[i].files = {} THEN 0 ELSE Max({FilePriority(i, f) : f \in Vers[i].files})
Ceiling(i) == IF Vers[i].phased THEN 1 ELSE 2147483647
Least(a, b) == IF a < b THEN a ELSE b

GetPriority(i) ==
  LET pin == VerPins[i] IN
  IF pin.type # "none" /\ pin.prio = NEVER_PIN THEN NEVER_PIN
  ELSE IF pin.type # "none" /\ \E f \in Vers[i].files : PFPriority[f] # NEVER_PIN THEN Least(pin.prio, Ceiling(i))
  ELSE Least(BestFile(i), Ceiling(i))

(* GetCandidateVer: the first version, newest first, of the greatest       *)
(* priority. An older one than the installed one needs 1000 or more.       *)
SamePkg(i, j) == Vers[i].pkg = Vers[j].pkg /\ Vers[i].arch = Vers[j].arch

Better(prio, best) == prio # 0 /\ prio > best
Downgrade(i) == \E c \in CurrentVer : SamePkg(i, c) /\ Vers[i].num < Vers[c].num
GetCandidateVer(of) ==
  FoldLeft(LAMBDA cand, i :
             IF SamePkg(i, of) /\ Better(GetPriority(i), cand.prio) /\ ~(Downgrade(i) /\ GetPriority(i) < 1000)
             THEN [ver |-> i, prio |-> GetPriority(i)] ELSE cand,
           [ver |-> 0, prio |-> -1], [i \in 1..Len(Vers) |-> i]).ver

-----------------------------------------------------------------------------
(* What the records mean together, by apt_preferences(5): the first record *)
(* about a version decides, records about single packages before the ones  *)
(* about all, of several files the best one.                               *)
About(r, i) == \E k \in 1..Len(r.names) : Selected(r.names[k], Vers[i]) /\ VersionMatches(Pin(r), Vers[i])
General == SelectSeq(history, LAMBDA r : r.names = <<>>)

AsWrittenFile(f) ==
  LET hits == SelectSeq(General, LAMBDA r : FileMatch(Pin(r), IndexFiles[f]))
  IN IF \E k \in 1..Len(hits) : hits[k].never THEN NEVER_PIN
     ELSE IF hits = <<>> THEN Base(IndexFiles[f]) ELSE Pin(hits[1]).prio

AsWritten(i) ==
  LET first == SelectInSeq(history, LAMBDA r : r.names # <<>> /\ About(r, i))
      sources == {f \in Vers[i].files : IndexFiles[f].flag # "NotSource" \/ i \in CurrentVer}
      given == IF first # 0 /\ (\E f \in Vers[i].files : AsWrittenFile(f) # NEVER_PIN)
               THEN Pin(history[first]).prio
               ELSE Max({AsWrittenFile(f) : f \in sources} \cup {-1 : f \in Vers[i].files \ sources})
  IN IF Vers[i].phased THEN Least(given, 1) ELSE given

(* Once the files are read the priorities of index files and versions are  *)
(* what the records mean together, and the candidate of a package is a     *)
(* version with the greatest priority above zero that is no downgrade      *)
(* below 1000, the newest of these; there is none only if there is no such *)
(* version.                                                                *)
PinsAsWritten ==
  ~dirty /\ ~pins_failed =>
    /\ \A f \in DOMAIN IndexFiles : PFPriority[f] = AsWrittenFile(f)
    /\ \A i \in 1..Len(Vers) : GetPriority(i) = AsWritten(i)
    /\ \A i \in 1..Len(Vers) :
         LET fit == {j \in 1..Len(Vers) : SamePkg(i, j) /\ AsWritten(j) > 0 /\ (Downgrade(j) => AsWritten(j) >= 1000)}
             cand == GetCandidateVer(i)
         IN IF fit = {} THEN cand = 0
            ELSE /\ cand \in fit
                 /\ \A j \in fit : AsWritten(j) < AsWritten(cand) \/ (AsWritten(j) = AsWritten(cand) /\ j >= cand)
=============================================================================
