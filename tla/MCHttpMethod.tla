---------------------------- MODULE MCHttpMethod ----------------------------
(***************************************************************************)
(* Two of three files from one server: a of two blocks with hashes and     *)
(* perhaps a partial file (valid, stale, or complete), b of one block with *)
(* hashes, c without hashes, known in an older version.                    *)
(***************************************************************************)
EXTENDS HttpMethod

CONSTANTS a, b, c

MCItems  == {a, b, c}
MCWishes == {<<a, b>>, <<c, a>>}
MCSize   == (a :> 2) @@ (b :> 1) @@ (c :> 1)
MCHashed == {a, b}
MCKnown  == {c}
MCParts  ==
  (a :> {<<>>, <<[of |-> a, nr |-> 1]>>, <<[of |-> "stale", nr |-> 1]>>, Its(a)})
  @@ (b :> {<<>>}) @@ (c :> {<<>>})

=============================================================================
