------------------------------ MODULE MCDpkgPM ------------------------------
(* Every consistent system of six packages and every consistent system it  *)
(* may be changed into. exim and app may depend on each other; only smail1 *)
(* says that it and exim1, which provides mta, cannot be installed         *)
(* together, and smail2 needs exim.                                        *)
EXTENDS DpkgPM

MCPkgList == <<"app", "base", "data", "exim", "lib", "mta", "smail">>

MCOwner == [app1 |-> "app", app2 |-> "app", base1 |-> "base", base2 |-> "base", data1 |-> "data", exim1 |-> "exim",
            lib1 |-> "lib", lib2 |-> "lib", smail1 |-> "smail", smail2 |-> "smail"]

On(t, p, vs) == [type |-> t, target |-> p, vers |-> vs, or |-> FALSE]
Or(d)        == [d EXCEPT !.or = TRUE]

MCDepends ==
  [app1   |-> <<On("Depends", "lib", <<"lib1", "lib2">>)>>,
   app2   |-> <<On("Depends", "lib", <<"lib2">>), On("Depends", "mta", <<"exim1", "smail1", "smail2">>)>>,
   base1  |-> <<On("Depends", "lib", <<"lib1", "lib2">>)>>,
   base2  |-> <<On("PreDepends", "lib", <<"lib2">>)>>,
   data1  |-> <<On("Depends", "lib", <<"lib2">>)>>,
   exim1  |-> <<Or(On("Depends", "app", <<"app2">>)), On("Depends", "base", <<"base2">>)>>,
   lib1   |-> <<>>,
   lib2   |-> <<On("Breaks", "app", <<"app1">>), On("Depends", "data", <<"data1">>)>>,
   smail1 |-> <<On("Conflicts", "mta", <<"exim1">>)>>,
   smail2 |-> <<On("Depends", "exim", <<"exim1">>)>>]

MCDependsOf == [v \in DOMAIN MCOwner |-> [i \in DOMAIN MCDepends[v] |-> MCDepends[v][i] @@ [ver |-> v, idx |-> i]]]

MCProvidesOf == [v \in DOMAIN MCOwner |-> IF v \in {"exim1", "smail1", "smail2"} THEN <<"mta">> ELSE <<>>]

VersionOrder == <<"app1", "app2", "base1", "base2", "data1", "exim1", "lib1", "lib2", "smail1", "smail2">>

MCRevDependsOf ==
  [p \in ToSet(MCPkgList) |-> SelectSeq(FlattenSeq([i \in DOMAIN VersionOrder |-> MCDependsOf[VersionOrder[i]]]),
                                        LAMBDA d : d.target = p)]

Of(p)    == {v \in DOMAIN MCOwner : MCOwner[v] = p} \cup {"none"}
Index(v) == IF v = "none" THEN 0 ELSE CHOOSE i \in DOMAIN VersionOrder : VersionOrder[i] = v

AllSystems == {f \in [ToSet(MCPkgList) -> DOMAIN MCOwner \cup {"none"}] : \A p \in ToSet(MCPkgList) : f[p] \in Of(p)}

\* every or group has an installed member, nothing conflicts
Sound(f) ==
  /\ f["base"] # "none"
  /\ \A p \in ToSet(MCPkgList) : f[p] # "none" =>
       \A i \in DOMAIN MCDependsOf[f[p]] :
         LET d == MCDependsOf[f[p]][i]
             installed(e) == \E w \in ToSet(e.vers) : f[MCOwner[w]] = w
         IN IF d.type \in {"Conflicts", "Breaks"} THEN ~installed(d)
            ELSE \/ installed(d)
                 \/ d.or /\ installed(MCDependsOf[f[p]][i + 1])
                 \/ i > 1 /\ MCDependsOf[f[p]][i - 1].or /\ installed(MCDependsOf[f[p]][i - 1])

SoundSystems == {f \in [app : Of("app"), base : Of("base"), data : Of("data"), exim : Of("exim"), lib : Of("lib"), mta : {"none"}, smail : Of("smail")] : Sound(f)}

MCSystems ==
  {[db |-> [p \in ToSet(MCPkgList) |-> [ver |-> s[p], st |-> IF s[p] = "none" THEN "not-installed" ELSE "installed"]],
    goal |-> [p \in ToSet(MCPkgList) |-> g[p]]] :
      <<s, g>> \in {x \in SoundSystems \X SoundSystems :
                      x[1] # x[2] /\ \A p \in ToSet(MCPkgList) : x[2][p] = "none" \/ Index(x[1][p]) <= Index(x[2][p])}}
=============================================================================
