----------------------------- MODULE DebVersion -----------------------------
(***************************************************************************)
(* The comparison of versions (deb/debversion.cc, CmpFragment and          *)
(* DoCmpVersion) as a walk over two strings of characters, and what the    *)
(* relations of dependencies make of it (CheckDep). A version is a         *)
(* sequence of characters; a position past its end reads as End, which is  *)
(* what stands there in the code: a colon, a dash or the final zero.       *)
(***************************************************************************)
EXTENDS Integers, Sequences, SequencesExt

CONSTANTS
  Versions,  \* the versions compared
  Digit,     \* the digits and their values
  Order      \* the order of the other characters: letters before the rest

VARIABLES
  pkg_ver, dep_ver,  \* the versions compared
  ver_res            \* the sign of the result, 9 for none yet

vervars == <<pkg_ver, dep_ver, ver_res>>

End == "end"
At(v, i) == IF i <= Len(v) THEN v[i] ELSE End
IsDigit(c) == c \in DOMAIN Digit
order(c) == IF IsDigit(c) \/ c = End THEN 0 ELSE IF c = "~" THEN -1 ELSE Order[c]
Sign(n) == IF n < 0 THEN -1 ELSE IF n > 0 THEN 1 ELSE 0

-----------------------------------------------------------------------------
(* CmpFragment, at the positions i and j: the characters up to two digits, *)
(* then the digits without their zeros, then what is left of one of them.  *)
RECURSIVE SkipZeros(_, _)
SkipZeros(v, i) == IF At(v, i) = "0" THEN SkipZeros(v, i + 1) ELSE i
RECURSIVE NonDigits(_, _, _, _)
NonDigits(a, i, b, j) ==
  IF i > Len(a) \/ j > Len(b) \/ (IsDigit(a[i]) /\ IsDigit(b[j])) THEN [i |-> i, j |-> j, diff |-> 0]
  ELSE IF order(a[i]) # order(b[j]) THEN [i |-> i, j |-> j, diff |-> order(a[i]) - order(b[j])]
  ELSE NonDigits(a, i + 1, b, j + 1)
RECURSIVE Digits(_, _, _, _, _)
Digits(a, i, b, j, first_diff) ==
  IF IsDigit(At(a, i)) /\ IsDigit(At(b, j))
  THEN Digits(a, i + 1, b, j + 1, IF first_diff = 0 THEN Digit[a[i]] - Digit[b[j]] ELSE first_diff)
  ELSE [i |-> i, j |-> j, diff |-> IF IsDigit(At(a, i)) THEN 1 ELSE IF IsDigit(At(b, j)) THEN -1 ELSE first_diff]
\* mutant: what is left is always more
Rest_Longer(a, i, b, j) == IF i > Len(a) /\ j > Len(b) THEN 0 ELSE IF i > Len(a) THEN -1 ELSE 1
Rest(a, i, b, j) ==
  CASE i > Len(a) /\ j > Len(b) -> 0
    [] i > Len(a) /\ j <= Len(b) -> IF b[j] = "~" THEN 1 ELSE -1
    [] OTHER -> IF a[i] = "~" THEN -1 ELSE 1
RECURSIVE Walk(_, _, _, _)
Walk(a, i, b, j) ==
  IF i > Len(a) \/ j > Len(b) THEN Rest(a, i, b, j)
  ELSE LET n == NonDigits(a, i, b, j)
           d == Digits(a, SkipZeros(a, n.i), b, SkipZeros(b, n.j), 0)
       IN IF n.diff # 0 THEN n.diff ELSE IF d.diff # 0 THEN d.diff ELSE Walk(a, d.i, b, d.j)
CmpFragment(a, b) == Walk(a, 1, b, 1)

-----------------------------------------------------------------------------
(* DoCmpVersion: E:V-R. An epoch of zeros is no epoch, no revision is -0.  *)
FirstOf(v, c) == LET at == {i \in 1..Len(v) : v[i] = c} IN IF at = {} THEN 0 ELSE CHOOSE i \in at : \A j \in at : i <= j
LastOf(v, c) == LET at == {i \in 1..Len(v) : v[i] = c} IN IF at = {} THEN 0 ELSE CHOOSE i \in at : \A j \in at : j <= i
Epoch(v) == LET e == SubSeq(v, 1, FirstOf(v, ":") - 1) IN SubSeq(e, SkipZeros(e, 1), Len(e))
AfterEpoch(v) == SubSeq(v, FirstOf(v, ":") + 1, Len(v))
UpstreamVersion(v) == LET w == AfterEpoch(v) IN IF LastOf(w, "-") = 0 THEN w ELSE SubSeq(w, 1, LastOf(w, "-") - 1)
Revision(v) == LET w == AfterEpoch(v) IN IF LastOf(w, "-") = 0 THEN <<"0">> ELSE SubSeq(w, LastOf(w, "-") + 1, Len(w))
HasRevision(v) == LastOf(AfterEpoch(v), "-") # 0
DoCmpVersion(a, b) ==
  LET epoch == CmpFragment(Epoch(a), Epoch(b))
      main == CmpFragment(UpstreamVersion(a), UpstreamVersion(b))
  IN IF epoch # 0 THEN epoch ELSE IF main # 0 THEN main
     ELSE IF HasRevision(a) \/ HasRevision(b) THEN CmpFragment(Revision(a), Revision(b)) ELSE 0

(* CheckDep: nothing to compare with is always fine.                       *)
CheckDep(a, op, b) ==
  IF b = <<>> THEN TRUE ELSE IF a = <<>> THEN FALSE
  ELSE CASE op = "<=" -> DoCmpVersion(a, b) <= 0 [] op = ">=" -> DoCmpVersion(a, b) >= 0
         [] op = "<<" -> DoCmpVersion(a, b) < 0 [] op = ">>" -> DoCmpVersion(a, b) > 0
         [] op = "=" -> DoCmpVersion(a, b) = 0 [] op = "!=" -> DoCmpVersion(a, b) # 0

-----------------------------------------------------------------------------
Init == pkg_ver \in Versions /\ dep_ver \in Versions /\ ver_res = 9
Compare == ver_res = 9 /\ ver_res' = Sign(DoCmpVersion(pkg_ver, dep_ver)) /\ UNCHANGED <<pkg_ver, dep_ver>>
Next == Compare
Spec == Init /\ [][Next]_vervars

-----------------------------------------------------------------------------
(* The order deb-version(7) describes: from left to right the longest part *)
(* without digits and the longest part of digits are compared in turn, the *)
(* first by the order of their characters, where a tilde comes before the  *)
(* end, the second as numbers, and nothing counts as zero. Key spells a    *)
(* part as numbers, so that the order is that of number sequences.         *)
KeyStep(k, c) ==
  IF IsDigit(c) THEN IF k.num THEN [k EXCEPT !.key[Len(k.key)] = @ * 10 + Digit[c]]
                     ELSE [num |-> TRUE, key |-> k.key \o <<0, Digit[c]>>]
  ELSE IF k.num THEN [num |-> FALSE, key |-> Append(k.key, order(c))]
  ELSE [k EXCEPT !.key = Append(@, order(c))]
\* the end of a part without digits is a 0; a part of digits that is missing is a 0
Key(v) == LET k == FoldLeft(KeyStep, [num |-> FALSE, key |-> <<>>], v) IN IF k.num THEN k.key ELSE k.key \o <<0, 0>>
KeyAt(k, i) == IF i <= Len(k) THEN k[i] ELSE 0
Less(k, l) == \E i \in 1..(Len(k) + Len(l)) : KeyAt(k, i) < KeyAt(l, i) /\ \A j \in 1..i - 1 : KeyAt(k, j) = KeyAt(l, j)
KeyCompare(k, l) == IF Less(k, l) THEN -1 ELSE IF Less(l, k) THEN 1 ELSE 0
Parts(v) == <<Key(Epoch(v)), Key(UpstreamVersion(v)), Key(Revision(v))>>
Reference(a, b) ==
  LET c == [n \in 1..3 |-> KeyCompare(Parts(a)[n], Parts(b)[n])]
      diff == SelectSeq(c, LAMBDA x : x # 0)
  IN IF diff = <<>> THEN 0 ELSE diff[1]

(* Versions are ordered as deb-version(7) says, in both directions; and of *)
(* the relations exactly those hold that the order implies, so that << and *)
(* >= never both hold.                                                     *)
VersionsOrdered ==
  ver_res # 9 =>
    /\ ver_res = Reference(pkg_ver, dep_ver)
    /\ Sign(DoCmpVersion(dep_ver, pkg_ver)) = -ver_res
    /\ \A op \in {"<=", ">=", "<<", ">>", "=", "!="} :
         CheckDep(pkg_ver, op, dep_ver) <=>
           ver_res \in CASE op = "<=" -> {-1, 0} [] op = ">=" -> {0, 1} [] op = "<<" -> {-1} [] op = ">>" -> {1} [] op = "=" -> {0} [] op = "!=" -> {-1, 1}
=============================================================================
