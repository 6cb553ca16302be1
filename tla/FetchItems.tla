----------------------------- MODULE FetchItems -----------------------------
(***************************************************************************)
(* One file that is not an index (acquire-item.cc): the archive of a       *)
(* version, a source file, a file asked for by a method (auxiliary), or a  *)
(* changelog; with its alternative URIs, redirections, retries and what is *)
(* left in the partial directory. Methods and servers are external: a      *)
(* server may fail at any time and deliver the wrong bytes.                *)
(***************************************************************************)
EXTENDS Integers, Sequences, FiniteSets, SequencesExt

CONSTANTS
  Site,       \* URI -> site
  Local,      \* sites of the methods file, copy and cdrom
  Redirect,   \* URI -> URIs its server may redirect to
  Bad,        \* sites that deliver wrong bytes
  Sources,    \* set of sequences of [uri, trusted, hashes]: the indexes a version may be in
  AllowUnauth, \* APT::Get::AllowUnauthenticated
  MaxRetries  \* Acquire::Retries

VARIABLES
  kind,      \* "archive", "file", "aux", "changelog"
  from,      \* the sources of the archive
  AlternativeURIs, PastRedirections, BadAlternativeSites, Retries,
  uri,       \* Desc.URI
  Status, Complete,
  DestFile,  \* the file in partial: "none", "part", "badpart", "right", "wrong", "link"
  store,     \* StoreFilename, or the final file of a changelog: as DestFile, or "" for none
  Trusted,
  tried,     \* URIs asked for
  looped,    \* the item failed because of a redirection loop
  replies    \* answers to the method that asked for an auxiliary file

ivars == <<kind, from, AlternativeURIs, PastRedirections, BadAlternativeSites, Retries, uri, Status, Complete,
           DestFile, store, Trusted, tried, looped, replies>>

(* The archive item asks only trusted indexes if there is one, unless told otherwise. *)
SourceTrusted(srcs) ==
  /\ \E k \in DOMAIN srcs : srcs[k].trusted
  /\ ~(AllowUnauth /\ \E k \in DOMAIN srcs : ~srcs[k].trusted)
Usable(srcs) == SelectSeq(srcs, LAMBDA s : (SourceTrusted(srcs) => s.trusted) /\ s.hashes)
URIs(srcs) == [k \in DOMAIN Usable(srcs) |-> Usable(srcs)[k].uri]

(* The constructors. An archive of the right size in the cache is taken as it is; a partial file
   that is too large was removed. A changelog starts with a copy of the one there is. *)
Init ==
  /\ kind \in {"archive", "file", "aux", "changelog"}
  /\ from \in Sources /\ (kind # "archive" => Len(from) = 1)
  /\ PastRedirections = <<>> /\ BadAlternativeSites = {} /\ Retries = MaxRetries
  /\ tried = {} /\ looped = FALSE /\ replies = 0
  /\ Trusted = (kind = "archive" /\ SourceTrusted(from))
  /\ \E list \in {IF kind = "archive" THEN URIs(from) ELSE <<from[1].uri>>}, cached \in {"none", "cached"},
        part \in {"none", "part", "badpart"} :
       \/ /\ list = <<>> /\ AlternativeURIs = <<>> /\ uri = "none" /\ Status = "error" /\ Complete = FALSE
          /\ DestFile = part /\ store = ""
       \/ /\ list # <<>> /\ kind = "archive" /\ cached # "none"
          /\ AlternativeURIs = Tail(list) /\ uri = Head(list) /\ Status = "done" /\ Complete = TRUE
          /\ DestFile = part /\ store = cached
       \/ /\ list # <<>> /\ (kind \in {"archive", "file", "aux"} => cached = "none")
          /\ AlternativeURIs = Tail(list) /\ uri = Head(list) /\ Status = "idle" /\ Complete = FALSE
          /\ DestFile = (IF kind = "changelog" THEN cached ELSE part) /\ store = (IF kind = "changelog" THEN cached ELSE "")

IsGoodAlternativeURI(u) == u \notin ToSet(PastRedirections) /\ Site[u] \notin BadAlternativeSites

IsRedirectionLoop(u) ==
  /\ PastRedirections # <<>> /\ Last(PastRedirections) # u
  /\ \E k \in 1..(Len(PastRedirections) - 1) : PastRedirections[k] = u
Redirected(u) ==
  IF PastRedirections # <<>> /\ Last(PastRedirections) = u THEN PastRedirections ELSE Append(PastRedirections, u)

ReplyAux == replies' = replies + (IF kind = "aux" THEN 1 ELSE 0)

(* Failed of each class: nothing more will be tried *)
ItemFailed(status) ==
  /\ Status' = status /\ Complete' = FALSE /\ AlternativeURIs' = <<>>
  /\ ReplyAux /\ UNCHANGED <<uri, store>>

(* The method answers with a redirection *)
Redirection(u) ==
  /\ Status = "fetching" /\ u \in Redirect[uri] \ {uri}
  /\ \E todo \in {IF IsGoodAlternativeURI(u) THEN <<u>> \o AlternativeURIs ELSE AlternativeURIs} :
       IF todo = <<>> \/ IsRedirectionLoop(Head(todo))
       THEN ItemFailed("error") /\ looped' = TRUE /\ UNCHANGED PastRedirections
       ELSE /\ uri' = Head(todo) /\ AlternativeURIs' = Tail(todo) /\ PastRedirections' = Redirected(Head(todo))
            /\ Status' = "idle" /\ UNCHANGED <<Complete, store, replies, looped>>
  /\ UNCHANGED <<BadAlternativeSites, Retries, DestFile>>

\* the URIs left once the site of the current one is no good
RemoveAlternativeSite(auth) ==
  IF auth /\ Site[uri] \notin Local THEN SelectSeq(AlternativeURIs, LAMBDA u : Site[u] # Site[uri]) ELSE AlternativeURIs

HandleFailure(transient, auth) ==
  LET left == RemoveAlternativeSite(auth)
  IN \/ /\ transient /\ Retries > 0 /\ Retries' = Retries - 1 /\ Status' = "idle"
        /\ UNCHANGED <<AlternativeURIs, BadAlternativeSites, uri, Complete, store, replies>>
     \/ /\ ~(transient /\ Retries > 0) /\ UNCHANGED Retries
        /\ BadAlternativeSites' = BadAlternativeSites \cup (IF auth /\ Site[uri] \notin Local THEN {Site[uri]} ELSE {})
        /\ \/ /\ left # <<>> /\ uri' = Head(left) /\ AlternativeURIs' = Tail(left) /\ Status' = "idle"
              /\ UNCHANGED <<Complete, store, replies>>
           \/ left = <<>> /\ ItemFailed(IF auth THEN "auth" ELSE IF transient THEN "transient" ELSE "error")

Start ==
  /\ Status = "idle" /\ Status' = "fetching" /\ tried' = tried \cup {uri}
  /\ UNCHANGED <<kind, from, AlternativeURIs, PastRedirections, BadAlternativeSites, Retries, uri, Complete, DestFile,
                 store, Trusted, looped, replies>>

(* The file method names a file where it is, and removes what lingers in partial. *)
Named == Site[uri] \in Local /\ uri # "copy"

(* A failure may leave part of the file behind; a later request continues it. *)
Failure(transient) ==
  /\ Status = "fetching" /\ HandleFailure(transient, FALSE)
  /\ \/ DestFile' = IF Named THEN "none" ELSE DestFile
     \/ Site[uri] \notin Local /\ DestFile' = IF Site[uri] \in Bad \/ DestFile = "badpart" THEN "badpart" ELSE "part"
  /\ UNCHANGED <<PastRedirections, looped>>

Received == IF Site[uri] \in Bad \/ (Site[uri] \notin Local /\ DestFile = "badpart") THEN "wrong" ELSE "right"

(* The worker finds the hashes to be wrong: FailMessage renames the file. A changelog has none. *)
Mismatch ==
  /\ Status = "fetching" /\ kind # "changelog" /\ Received = "wrong"
  /\ HandleFailure(FALSE, TRUE) /\ DestFile' = "none" /\ UNCHANGED <<PastRedirections, looped>>

\* Item::Done and what Done of the classes makes of the file
Finish(status, complete, dest, final) ==
  /\ Received = "right" \/ kind = "changelog"
  /\ Status' = status /\ Complete' = complete /\ DestFile' = dest /\ store' = final /\ AlternativeURIs' = <<>>
  /\ UNCHANGED <<Retries, BadAlternativeSites, PastRedirections, looped>>

(* The file stays where a local method has it, or is moved to the archives, which may fail. *)
ArchiveDone ==
  /\ Status = "fetching" /\ kind = "archive" /\ UNCHANGED <<uri, replies>>
  /\ \/ Finish("done", TRUE, "none", Received)
     \/ ~Named /\ Finish("error", TRUE, DestFile, "missing")

(* The file of a local method is linked, which may fail, or copied, a request of its own. *)
FileDone ==
  /\ Status = "fetching" /\ kind \in {"file", "aux"}
  /\ \/ ~Named /\ Finish("done", TRUE, Received, store) /\ ReplyAux /\ UNCHANGED uri
     \/ Named /\ Finish("done", TRUE, Received, store) /\ ReplyAux /\ UNCHANGED uri
     \/ Named /\ Finish("error", FALSE, "none", store) /\ ReplyAux /\ UNCHANGED uri
     \/ Named /\ Finish("idle", TRUE, "none", store) /\ uri' = "copy" /\ UNCHANGED replies

ChangelogDone ==
  /\ Status = "fetching" /\ kind = "changelog" /\ UNCHANGED <<uri, replies>>
  /\ \/ Finish("done", TRUE, "none", Received)
     \/ Finish("error", TRUE, DestFile, "missing")

\* mutant: the name is kept whatever happened
FinishedKeeps == store' = store

\* Finished of an archive item: without a complete file there is none to install
FinishedStore == store' = IF kind = "archive" /\ ~(Status = "done" /\ Complete) THEN "" ELSE store

(* pkgAcquire::Run calls Finished of every item at its end. *)
Finished ==
  /\ Status \in {"done", "error", "auth", "transient"} /\ Status' = "over" /\ FinishedStore
  /\ DestFile' = (IF kind = "aux" /\ Status # "done" THEN "none" ELSE DestFile)
  /\ UNCHANGED <<kind, from, AlternativeURIs, PastRedirections, BadAlternativeSites, Retries, uri, Complete,
                 Trusted, tried, looped, replies>>

Next ==
  \/ Start \/ Finished
  \/ /\ \/ \E u \in DOMAIN Site : Redirection(u)
        \/ \E transient \in BOOLEAN : Failure(transient)
        \/ Mismatch \/ ArchiveDone \/ FileDone \/ ChangelogDone
     /\ UNCHANGED <<kind, from, Trusted, tried>>

Spec == Init /\ [][Next]_ivars

(* However requests, sites, redirections and renames went wrong: the file name an archive item hands
   to the installation is that of a file with the right hashes, or of one that was in the cache
   with the right size; and there is none if the item failed. *)
ArchiveOrNothing ==
  Status = "over" /\ kind = "archive" => store \in {"", "right", "cached"}

(* An archive item gives up only when each index that lists the file was asked, or its site is known
   to be bad (a redirection loop, or a failed
   rename, ends the item without that). *)
AllSourcesAsked ==
  kind = "archive" /\ Status \in {"error", "auth", "transient"} /\ ~looped /\ store # "missing" =>
    \A k \in DOMAIN URIs(from) : URIs(from)[k] \in tried \/ Site[URIs(from)[k]] \in BadAlternativeSites

(* The method that asked for an auxiliary file gets one answer, and waits for it no longer than
   the item lasts. *)
AuxAnsweredOnce ==
  kind = "aux" => replies = IF Status \in {"idle", "fetching"} THEN 0 ELSE 1

(* An item comes to the end its caller can rely on, whatever failed on the way. *)
ItemsServed == ArchiveOrNothing /\ AllSourcesAsked /\ AuxAnsweredOnce
=============================================================================
