----------------------------- MODULE MCSolver3 -----------------------------
(* Small universes for the solver. *)
EXTENDS Solver3

Dep(t, a)   == [type |-> t, alts |-> a]
Alt(p, vs)  == [pkg |-> p, vers |-> vs]
Mark(mode, auto, protect, hold) == [mode |-> mode, auto |-> auto, protect |-> protect, hold |-> hold]
Unmarked    == Mark("keep", FALSE, FALSE, FALSE)
Asked       == Mark("install", FALSE, TRUE, FALSE)

(* x is new and needs the new a or b; the new a needs c, which needs v, which b  *)
(* and e provide.  d is installed in an old version, which needs the old a and   *)
(* recommends c; the new one needs the new a.  b conflicts with d, and c         *)
(* replaces e as a new binary of the same source package.                        *)
LoopPkgs == <<"a", "b", "c", "d", "e", "v", "x">>
LoopVers == [a |-> <<"a2", "a1">>, b |-> <<"b1">>, c |-> <<"c1">>, d |-> <<"d2", "d1">>, e |-> <<"e1">>, v |-> <<>>, x |-> <<"x1">>]
LoopOwner == [u \in UNION {ToSet(LoopVers[p]) : p \in DOMAIN LoopVers} |-> CHOOSE p \in DOMAIN LoopVers : u \in ToSet(LoopVers[p])]
LoopDeps ==
  [a1 |-> <<>>,
   a2 |-> <<Dep("Depends", <<Alt("c", {"c1"})>>)>>,
   b1 |-> <<Dep("Conflicts", <<Alt("d", {"d1", "d2"})>>), Dep("Enhances", <<Alt("a", {"a1"})>>)>>,
   c1 |-> <<Dep("Depends", <<Alt("v", {"b1", "e1"})>>)>>,
   d1 |-> <<Dep("Depends", <<Alt("a", {"a1", "a2"})>>), Dep("Depends", <<Alt("a", {"a1"})>>), Dep("Recommends", <<Alt("c", {"c1"})>>),
            Dep("Suggests", <<Alt("e", {"e1"})>>)>>,
   d2 |-> <<Dep("Depends", <<Alt("a", {"a1", "a2"})>>), Dep("Depends", <<Alt("a", {"a2"})>>), Dep("Recommends", <<Alt("e", {"e1"}), Alt("c", {"c1"})>>)>>,
   e1 |-> <<>>,
   x1 |-> <<Dep("Depends", <<Alt("a", {"a2"}), Alt("b", {"b1"})>>), Dep("Recommends", <<Alt("d", {"d2"})>>)>>]
LoopCurrent   == [a |-> "a1", b |-> "none", c |-> "none", d |-> "d1", e |-> "e1", v |-> "none", x |-> "none"]
LoopCandidate == [a |-> "a2", b |-> "b1", c |-> "c1", d |-> "d2", e |-> "e1", v |-> "none", x |-> "x1"]
LoopSource    == [u \in {"a1", "a2", "b1", "c1", "d1", "d2", "e1", "x1"} |->
                    CASE u \in {"a1", "d1"} -> [name |-> "s", ver |-> 1] [] u \in {"a2", "d2"} -> [name |-> "s", ver |-> 2]
                      [] u = "c1" -> [name |-> "t", ver |-> 2] [] u = "e1" -> [name |-> "t", ver |-> 1] [] OTHER -> [name |-> u, ver |-> 1]]
LoopPin       == [u \in {"a1", "a2", "b1", "c1", "d1", "d2", "e1", "x1"} |-> 500]
LoopMarks ==
  [a |-> {Unmarked, Mark("keep", TRUE, FALSE, FALSE), Asked, Mark("keep", FALSE, FALSE, TRUE), Mark("delete", FALSE, TRUE, FALSE)},
   b |-> {Unmarked, Mark("keep", FALSE, TRUE, FALSE), Asked},
   c |-> {Unmarked, Mark("keep", FALSE, FALSE, TRUE)},
   d |-> {Unmarked, Mark("keep", TRUE, FALSE, FALSE), Mark("install", FALSE, FALSE, FALSE), Mark("delete", FALSE, FALSE, FALSE)},
   e |-> {Unmarked, Mark("keep", TRUE, FALSE, FALSE)},
   v |-> {Unmarked},
   x |-> {Unmarked, Asked, Mark("install", FALSE, FALSE, FALSE)}]
Install     == [IsUpgrade |-> FALSE, AllowRemove |-> TRUE, AllowInstall |-> TRUE]
Upgrade     == [IsUpgrade |-> TRUE, AllowRemove |-> FALSE, AllowInstall |-> FALSE]
UpgradeNew  == [IsUpgrade |-> TRUE, AllowRemove |-> FALSE, AllowInstall |-> TRUE]
DistUpgrade == [IsUpgrade |-> TRUE, AllowRemove |-> TRUE, AllowInstall |-> TRUE]
LoopRequests == {Install, Upgrade, UpgradeNew, DistUpgrade}
=============================================================================
