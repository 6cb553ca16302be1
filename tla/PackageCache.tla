---------------------------- MODULE PackageCache ----------------------------
(***************************************************************************)
(* The package cache (apt-pkg/pkgcache.h) as the algorithms see it: the    *)
(* packages of one architecture, their versions and dependencies.          *)
(* A dependency is a record [type, alts], an or group of alternatives; an  *)
(* alternative [pkg, vers] names the target package and every version that *)
(* satisfies it, providers included (DepIterator::IsSatisfied).            *)
(***************************************************************************)
EXTENDS Integers, Sequences, FiniteSets, SequencesExt

CONSTANTS
  PkgList,       \* the packages, in the order of the cache
  VersionList,   \* package -> its versions, newest first
  Owner,         \* version -> its package (ParentPkg)
  DependsList,   \* version -> its dependencies
  CurrentVer,    \* package -> installed version or NoVer
  Candidate,     \* package -> candidate version of the policy or NoVer
  Downloadable,  \* the versions some source has
  Source,        \* version -> [name, ver] of its source package
  Essential,     \* the essential packages
  OldLibs,       \* the versions in APT::Move-Autobit-Sections
  InstallRecommends

NoVer    == "none"
Pkgs     == ToSet(PkgList)
Versions == UNION {ToSet(VersionList[p]) : p \in Pkgs}

ParentPkg(v) == Owner[v]

ASSUME UniverseAssumption ==
  /\ \A p \in Pkgs : {CurrentVer[p], Candidate[p]} \subseteq ToSet(VersionList[p]) \cup {NoVer}
  /\ \A p \in Pkgs : \A v \in ToSet(VersionList[p]) : Owner[v] = p
  /\ \A v \in Versions : \A i \in DOMAIN DependsList[v] : \A j \in DOMAIN DependsList[v][i].alts :
       DependsList[v][i].alts[j].vers \subseteq Versions

-----------------------------------------------------------------------------
(* Kinds of dependencies *)

IsCritical(d)     == d.type \in {"Depends", "Conflicts", "Breaks"}
IsNegative(d)     == d.type \in {"Conflicts", "Breaks"}
IsImportantDep(d) == IsCritical(d) \/ (InstallRecommends /\ d.type = "Recommends")

-----------------------------------------------------------------------------
(* Sorting by several criteria *)

LexLess(s, t) == \E i \in DOMAIN s : s[i] < t[i] /\ \A j \in 1..(i - 1) : s[j] = t[j]

First(b) == IF b THEN 0 ELSE 1

\* std::stable_sort
StableSort(s, Less(_, _)) ==
  FoldLeft(LAMBDA done, x : LET n == Len(SelectSeq(done, LAMBDA y : ~Less(x, y))) IN InsertAt(done, n + 1, x), <<>>, s)
=============================================================================
