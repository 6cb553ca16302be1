------------------------- MODULE MCProblemResolver -------------------------
(* A small distribution and the commands given on it. *)
EXTENDS ProblemResolver

Dep(t, a)  == [type |-> t, alts |-> a]
Alt(p, vs) == [pkg |-> p, vers |-> vs]

(* x needs the new a or b; the new a needs c, which needs v, which b, e and the  *)
(* new f provide.  The old d needs the old a and recommends c; the new one needs *)
(* the new a.  b conflicts with d.  all is a metapackage that    *)
(* comes before what it needs in every pass.                                    *)
MCPkgs == <<"a", "all", "b", "c", "d", "e", "f", "v", "x">>
MCVers == [a |-> <<"a2", "a1">>, b |-> <<"b1">>, c |-> <<"c1">>, d |-> <<"d2", "d1">>, e |-> <<"e1">>, f |-> <<"f2", "f1">>,
           all |-> <<"all1">>, v |-> <<>>, x |-> <<"x1">>]
AllVers == {"a1", "a2", "b1", "c1", "d1", "d2", "e1", "f1", "f2", "all1", "x1"}
MCOwner == [u \in AllVers |-> CHOOSE p \in ToSet(MCPkgs) : u \in ToSet(MCVers[p])]
MCProvides == [u \in AllVers \cup {NoVer} |-> IF u \in {"b1", "e1", "f2"} THEN {"v"} ELSE {}]
MCDeps ==
  [a1 |-> <<>>,
   a2 |-> <<Dep("Depends", <<Alt("c", {"c1"})>>)>>,
   b1 |-> <<Dep("Conflicts", <<Alt("d", {"d1", "d2"})>>), Dep("Enhances", <<Alt("a", {"a1"})>>)>>,
   c1 |-> <<Dep("Depends", <<Alt("v", {"b1", "e1", "f2"})>>)>>,
   d1 |-> <<Dep("Depends", <<Alt("a", {"a1"})>>), Dep("Recommends", <<Alt("c", {"c1"})>>), Dep("Suggests", <<Alt("e", {"e1"})>>)>>,
   d2 |-> <<Dep("Depends", <<Alt("a", {"a2"})>>), Dep("Recommends", <<Alt("e", {"e1"}), Alt("c", {"c1"})>>)>>,
   e1 |-> <<>>,
   f1 |-> <<Dep("Breaks", <<Alt("e", {"e1"})>>)>>,
   f2 |-> <<>>,
   all1 |-> <<Dep("Depends", <<Alt("e", {"e1"})>>), Dep("Recommends", <<Alt("f", {"f2"})>>)>>,
   x1 |-> <<Dep("Depends", <<Alt("a", {"a2"}), Alt("b", {"b1"})>>), Dep("Recommends", <<Alt("d", {"d2"})>>)>>]
MCCurrent   == [a |-> "a1", b |-> "none", c |-> "none", d |-> "d1", e |-> "e1", f |-> "none", all |-> "none", v |-> "none", x |-> "none"]
MCCandidate == [a |-> "a2", b |-> "b1", c |-> "c1", d |-> "d2", e |-> "e1", f |-> "f2", all |-> "all1", v |-> "none", x |-> "x1"]
MCSource    == [u \in AllVers |->
                  CASE u \in {"a1", "d1"} -> [name |-> "s", ver |-> 1] [] u \in {"a2", "d2"} -> [name |-> "s", ver |-> 2]
                    [] u = "c1" -> [name |-> "t", ver |-> 2] [] u = "e1" -> [name |-> "t", ver |-> 1] [] OTHER -> [name |-> u, ver |-> 1]]
MCSize      == [u \in AllVers |-> IF u \in {"a1", "d1"} THEN 1 ELSE 2]
System(cur, ext, hold) == [cur |-> cur, ext |-> ext, hold |-> hold]
MCSystems ==
  {System(MCCurrent, {}, {}), System(MCCurrent, {"a", "e"}, {}), System(MCCurrent, {}, {"a"}),
   System([MCCurrent EXCEPT !["d"] = "d2"], {"a"}, {}),
   System([MCCurrent EXCEPT !["c"] = "c1", !["all"] = "all1", !["f"] = "f2"], {"c", "e", "f", "all"}, {}), System([MCCurrent EXCEPT !["f"] = "f1"], {"e", "f"}, {})}
Cmd(remove, install, mode, fixing, re, auto) ==
  [remove |-> remove, install |-> install, mode |-> mode, fix |-> fixing, reinstall |-> re, autoremove |-> auto]
MCCommands ==
  {Cmd(<<>>, <<"x1">>, "none", "no", FALSE, FALSE), Cmd(<<>>, <<"b1">>, "none", "no", FALSE, FALSE),
   Cmd(<<"e">>, <<>>, "none", "no", FALSE, FALSE), Cmd(<<"a">>, <<>>, "none", "no", FALSE, TRUE), Cmd(<<"d">>, <<"x1">>, "none", "no", FALSE, FALSE),
   Cmd(<<>>, <<"a2">>, "none", "no", FALSE, FALSE), Cmd(<<>>, <<"e1">>, "none", "no", FALSE, FALSE), Cmd(<<>>, <<"e1">>, "none", "no", TRUE, FALSE),
   Cmd(<<>>, <<"a1", "c1">>, "none", "no", FALSE, FALSE),
   Cmd(<<>>, <<>>, "dist", "no", FALSE, FALSE), Cmd(<<>>, <<>>, "noremove", "no", FALSE, FALSE), Cmd(<<>>, <<>>, "nonew", "no", FALSE, FALSE),
   Cmd(<<>>, <<>>, "none", "no", FALSE, TRUE), Cmd(<<>>, <<>>, "none", "broken", FALSE, FALSE), Cmd(<<>>, <<>>, "none", "policy", FALSE, FALSE),
   Cmd(<<>>, <<"x1">>, "nonew", "no", FALSE, FALSE), Cmd(<<"e">>, <<"f2", "c1">>, "none", "no", FALSE, FALSE), Cmd(<<>>, <<"f1">>, "none", "no", FALSE, FALSE),
   Cmd(<<"all">>, <<>>, "none", "no", FALSE, FALSE), Cmd(<<>>, <<"all1", "b1">>, "none", "no", FALSE, FALSE)}
=============================================================================
