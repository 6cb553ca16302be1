--------------------------- MODULE MCAcquireQueue ---------------------------
(* Small instances of AcquireQueue for TLC. *)
EXTENDS AcquireQueue, TLC

(* Two hosts.  a and b want the same file of host 1, which may redirect to    *)
(* host 2 and back and has an alternative; c has a second stage ("store:") and *)
(* an alternative for which no method is installed.                           *)
MergeItems   == {"a", "b", "c"}
MergeUris    == {"u1", "u2", "u3", "s3", "n3"}
MergeHost    == "u1" :> "h1" @@ "u2" :> "h2" @@ "u3" :> "h1" @@ "n3" :> "h1"
MergeStore   == <<"store0">>
MergePipe    == "h1" :> 2 @@ "h2" :> 1 @@ "http" :> 1 @@ "store0" :> 1
MergeFirst   == "a" :> "u1" @@ "b" :> "u1" @@ "c" :> "u3"
MergeAlts    == "a" :> <<>> @@ "b" :> <<"u2">> @@ "c" :> <<"n3">>
MergeStages  == "a" :> <<>> @@ "b" :> <<>> @@ "c" :> <<"s3">>
MergeSpawns  == "a" :> <<>> @@ "b" :> <<>> @@ "c" :> <<>>
MergePrio    == "a" :> 500 @@ "b" :> 500 @@ "c" :> 1000
MergeKey     == "a" :> "k1" @@ "b" :> "k1" @@ "c" :> "k3"
MergeOrder   == <<"a", "b", "c">>
MergeRedir   == "u1" :> {"u1", "u2"} @@ "u2" :> {"u1"} @@ "u3" :> {} @@ "s3" :> {} @@ "n3" :> {}
MergeMirror  == "u1" :> {<<>>, <<"u2">>} @@ "u2" :> {<<>>} @@ "u3" :> {<<>>} @@ "s3" :> {<<>>} @@ "n3" :> {<<>>}
MergeKinds   == "u1" :> {"transient", "auth"} @@ "u2" :> {"other"} @@ "u3" :> {"transient"} @@ "s3" :> {"hash", "transient"} @@ "n3" :> {}

(* One host.  m is an InRelease; t1 and t2 are index files of a transaction.   *)
(* t2 may be redirected to a second host and has an alternative.  m's Done()   *)
(* creates w, which has no usable hash and so aborts the transaction, and x;   *)
(* in the runs about one property, x alone, a file of another repository.      *)
AbortItems   == {"m", "w", "x", "t1", "t2"}
AbortUris    == {"um", "uw", "ux", "ut1", "ut2", "ut3", "s"}
AbortHost    == [u \in AbortUris \ {"s"} |-> IF u = "ut3" THEN "h2" ELSE "h1"]
AbortPipe    == "h1" :> 2 @@ "h2" :> 1 @@ "http" :> 1 @@ "store0" :> 1
AbortFirst   == "m" :> "um" @@ "w" :> "uw" @@ "x" :> "ux" @@ "t1" :> "ut1" @@ "t2" :> "ut2"
AbortNone    == [i \in AbortItems |-> <<>>]
AbortAlts    == [AbortNone EXCEPT !["t2"] = <<"ut3">>]
AbortSpawns  == [AbortNone EXCEPT !["m"] = <<"w", "x">>]
HangSpawns   == [AbortNone EXCEPT !["m"] = <<"x">>]
AbortPrio    == [i \in AbortItems |-> IF i = "m" THEN 1000 ELSE 500]
AbortKey     == [i \in AbortItems |-> i]
AbortOrder   == <<"m", "t1", "t2">>
AbortRedir   == [u \in AbortUris |-> IF u = "ut2" THEN {"ut3"} ELSE {}]
AbortMirror  == [u \in AbortUris |-> {<<>>}]
AbortKinds   == "um" :> {"other"} @@ "uw" :> {} @@ "ux" :> {} @@ "ut1" :> {"toomany", "other"}
                  @@ "ut2" :> {"transient", "other"} @@ "ut3" :> {"other"} @@ "s" :> {}
HangKinds    == [AbortKinds EXCEPT !["um"] = {"transient"}]

(* Each instance keeps what belongs to its transaction apart, as the theorems *)
(* of AcquireLossProofs assume.                                               *)
ASSUME KeptApart == \E T \in SUBSET Uris : Separate(T)
=============================================================================
