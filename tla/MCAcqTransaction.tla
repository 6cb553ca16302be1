--------------------------- MODULE MCAcqTransaction ---------------------------
(* Constants for the runs of AcqTransaction. *)
EXTENDS AcqTransaction

\* three versions; each index file stays, changes, or is dropped once
MCContent ==
  <<[Packages |-> 1, Sources |-> 1],
    [Packages |-> 1, Sources |-> 2],
    [Packages |-> 3, Sources |-> 0]>>

Clearsigned == {"InRelease"}
Detached    == {"Release", "Release.gpg"}
Unsigned    == {"Release"}
Gone        == {}

SignedLayouts      == {Clearsigned, Detached, Clearsigned \cup Detached, Gone}
ClearsignedLayouts == {Clearsigned, Gone}
DetachedLayouts    == {Detached}
AllLayouts         == {Clearsigned, Detached, Unsigned, Gone}
=============================================================================
