---------------------------- MODULE AcquireQueue ----------------------------
(***************************************************************************)
(* The download engine of libapt-pkg: pkgAcquire, its Queues and Workers   *)
(* (apt-pkg/acquire.cc, apt-pkg/acquire-worker.cc) and the part of         *)
(* pkgAcquire::Item every item shares (apt-pkg/acquire-item.cc).           *)
(*                                                                         *)
(* APT is single threaded: a handler runs to its end before the select     *)
(* loop looks at the next descriptor.  The methods are processes of their  *)
(* own and answer whenever, and in whatever order, they like.  A handler   *)
(* that loops over the owners of a queue item is split into one step per   *)
(* owner: "work" holds the calls it still has to make and every other      *)
(* action waits until "work" is empty, so the split adds no interleaving.  *)
(***************************************************************************)
EXTENDS Integers, Sequences, FiniteSets, SequencesExt, FiniteSetsExt

CONSTANTS
  Items,          \* pkgAcquire::Item objects
  Uris,           \* all URIs
  StoreUris,      \* the URIs of the host-less local method ("store:...")
  NoMethod,       \* URIs whose access method is not installed
  NoURI,          \* the empty string
  HostQueue,      \* HostQueue[u]: the queue "access:host" of a remote URI
  GenericQueue,   \* the queue "access" used beyond Acquire::QueueHost::Limit
  HostLimit,      \* Acquire::QueueHost::Limit
  StoreQueue,     \* <<"store:0", "store:1", ...>> up to the limit
  MaxPipeDepth,   \* MaxPipeDepth[q]: 1, or Acquire::Max-Pipeline-Depth
  Flaky,          \* queues whose method process may fail to start
  FirstURI,       \* FirstURI[i]: the URI an item is created with
  Alternates,     \* Alternates[i]: its AlternativeURIs after QueueURI
  Stages,         \* Stages[i]: the URIs of the item's later stages
  Spawns,         \* Spawns[i]: the items its last Done() constructs
  Priority,       \* Priority[i]
  MetaKey,        \* MetaKey[i]: key of a transaction item in the Release file
  Hashed,         \* items whose expected hashes are known
  Weak,           \* items that need hashes and have no usable one
  InitialItems,   \* the items queued before Run() is called
  Txn,            \* the items of the (one) transaction that can be aborted
  Redirects,      \* Redirects[u]: where a 103 Redirect for u may lead
  MirrorAlts,     \* MirrorAlts[u]: Alternate-URIs lists such a message carries
  FailKinds,      \* FailKinds[u]: how fetching u may fail
  MaxRetries,     \* Acquire::Retries
  MaxDelay,       \* Acquire::Retries::Delay::Maximum
  MaxReschedule,  \* bound: redirects of a URI to itself, in all
  MayDie,         \* queues whose method process may die unexpectedly
  MayCancel       \* whether the user may cancel the run

Names == {HostQueue[u] : u \in DOMAIN HostQueue} \cup {GenericQueue} \cup Range(StoreQueue)

Statuses == {"New", "Idle", "Fetching", "Done", "Error", "AuthError", "TransientNetworkError"}

QItems == [uri : Uris, owners : Seq(Items), sent : BOOLEAN]

ASSUME ConstantsAssumption ==
  /\ StoreUris \subseteq Uris /\ NoMethod \subseteq Uris /\ NoURI \notin Uris
  /\ DOMAIN HostQueue = Uris \ StoreUris
  /\ HostLimit \in Nat \ {0} /\ StoreQueue \in Seq(Range(StoreQueue)) /\ StoreQueue # <<>>
  /\ MaxPipeDepth \in [Names -> Nat \ {0}]
  /\ FirstURI \in [Items -> Uris]
  /\ Alternates \in [Items -> Seq(Uris)] /\ Stages \in [Items -> Seq(Uris)]
  /\ \A u \in Uris : Redirects[u] \subseteq Uris /\ MirrorAlts[u] \subseteq Seq(Uris)
  \* an item is constructed once: before Run() or by the Done() of one other
  /\ Spawns \in [Items -> Seq(Items)]
  /\ \A i \in Items : \A n \in DOMAIN Spawns[i] : Spawns[i][n] \notin Range(InitialItems)
  /\ \A i, j \in Items : \A n \in DOMAIN Spawns[i], m \in DOMAIN Spawns[j] :
       Spawns[i][n] = Spawns[j][m] => i = j /\ n = m
  /\ Priority \in [Items -> Nat]
  /\ MaxRetries \in Nat /\ MaxDelay \in Nat /\ MaxReschedule \in Nat
  \* a URI is fetched for items of the transaction or for others, never both
  /\ \A i \in Txn, j \in Items \ Txn : FirstURI[i] # FirstURI[j]

\* What the queues rely on to keep items apart: a URI that belongs to the
\* transaction (T are those that do) is never fetched for, redirected to or an
\* alternative of one that does not; local queues have names of their own; and
\* items for the same URI agree on whether they need a hash they do not have.
Separate(T) ==
  /\ \A i \in Items : /\ FirstURI[i] \in T <=> i \in Txn
                      /\ \A n \in DOMAIN Alternates[i] : Alternates[i][n] \in T <=> i \in Txn
                      /\ \A n \in DOMAIN Stages[i] : Stages[i][n] \in T <=> i \in Txn
  /\ \A u \in Uris : /\ \A v \in Redirects[u] : v \in T <=> u \in T
                     /\ \A s \in MirrorAlts[u] : \A n \in DOMAIN s : s[n] \in T <=> u \in T
  /\ GenericQueue \notin Range(StoreQueue) /\ \A u \in DOMAIN HostQueue : HostQueue[u] \notin Range(StoreQueue)
  /\ \A i, j \in Range(InitialItems) : FirstURI[i] = FirstURI[j] => (i \in Weak <=> j \in Weak)

VARIABLES
  Queue,        \* Queue[q]: the QItem list of queue q
  queues,       \* the queues created so far (pkgAcquire::Queues)
  worker,       \* worker[q]: "none", "up" or "dead" (OutFd = -1)
  PipeDepth,    \* PipeDepth[q]
  CurrentItem,  \* CurrentItem[q]: URI of the QItem the worker points to
  ToFetch,      \* pkgAcquire::ToFetch
  Status,       \* Status[i]
  DescURI,      \* DescURI[i]: Item::Desc.URI
  Retries,      \* Retries[i]
  FetchAfter,   \* FetchAfter[i]: 0 is the zero time_point
  PastRedirections, AlternativeURIs, BadAlternativeSites,
  stage,        \* stage[i]: how many of Stages[i] were entered
  aborted,      \* TransactionManager->State = TransactionAbort
  now,          \* clock::now()
  run,          \* "setup", "startup", "running" or "stopped"
  result,       \* what ended the select loop so far
  errors,       \* internal errors reported through _error
  work,         \* calls the handler in progress still has to make
  inflight,     \* inflight[q][u]: requests for u the method has not answered
  reschedules   \* redirects of a URI to itself so far

itemVars  == <<DescURI, Retries, FetchAfter, PastRedirections, AlternativeURIs,
               BadAlternativeSites, stage>>
queueVars == <<Queue, queues, worker, PipeDepth, ToFetch, inflight>>
vars == <<queueVars, itemVars, Status, CurrentItem, aborted, now, run, result, errors, work, reschedules>>

-----------------------------------------------------------------------------
(* Items *)

\* the elements of s at the positions K, in the order they have in s
AtPositions(s, K) ==
  [m \in 1..Cardinality(K) |-> s[CHOOSE p \in K : Cardinality({x \in K : x <= p}) = m]]

Site(u) == IF u \in StoreUris THEN StoreQueue ELSE HostQueue[u]

\* mutant: the state of the transaction is not looked at
NeverDoomed(i) == FALSE

\* isDoomedItem
Doomed(i) == i \in Txn /\ aborted

IsGoodAlternativeURI(i, u) ==
  u \notin Range(PastRedirections[i]) /\ (u = NoURI \/ Site(u) \notin BadAlternativeSites[i])

IsRedirectionLoop(i, u, past) ==
  /\ u \notin StoreUris
  /\ past[i] # <<>>
  /\ Last(past[i]) # u
  /\ u \in Range(Front(past[i]))

\* mutant: IsRedirectionLoop forgets what it was asked
RecordsNothing(i, u, past) == past

\* PastRedirections after IsRedirectionLoop(u) was asked
Recorded(i, u, past) ==
  IF u \in StoreUris \/ u \in Range(past[i])
  THEN past ELSE [past EXCEPT ![i] = Append(@, u)]

Primary(qi) == Head(qi.owners)

QPriority(qi) == Max({Priority[o] : o \in Range(qi.owners)})
QFetchAfter(qi, after) == Max({after[o] : o \in Range(qi.owners)})

Owned(i) == \E q \in Names : \E k \in DOMAIN Queue[q] : i \in Range(Queue[q][k].owners)

-----------------------------------------------------------------------------
(* Queue::Cycle *)

\* The positions of list L of queue q that one Cycle() hands to the worker:
\* the idle items from the head on, up to the first one that has to wait.
CycleSent(q, w, L, status, after, depth) ==
  LET Idle(k)     == status[Primary(L[k])] = "Idle"
      Active(k)   == status[Primary(L[k])] \in {"Idle", "Fetching"}
      Before(k)   == {m \in 1..(k-1) : Idle(m)}
      MayGo(k)    == /\ depth + Cardinality(Before(k)) < MaxPipeDepth[q]
                     /\ \A m \in 1..(k-1) : Active(m) => QPriority(L[k]) >= QPriority(L[m])
                     /\ QFetchAfter(L[k], after) <= now
                     /\ w = "dead" => Before(k) = {}
  IN  IF w = "none" THEN {}
      ELSE {k \in DOMAIN L : Idle(k) /\ \A m \in 1..k : Idle(m) => MayGo(m)}

\* Cycle() on queue q with worker state w, in the state given.  A worker
\* whose descriptor is closed (QueueItem returns false) and a doomed item
\* (QueueItem returns without writing) get no request.
Cycle(q, w, Q, status, after, depth, asked) ==
  LET L    == Q[q]
      sent == CycleSent(q, w, L, status, after, depth)
      Asked(u) == {k \in sent : L[k].uri = u /\ w = "up" /\ ~Doomed(Primary(L[k]))}
  IN  /\ Queue' = [Q EXCEPT ![q] = [k \in DOMAIN L |-> IF k \in sent THEN [L[k] EXCEPT !.sent = TRUE] ELSE L[k]]]
      /\ Status' = [i \in Items |-> IF \E k \in sent : i \in Range(L[k].owners) THEN "Fetching" ELSE status[i]]
      /\ PipeDepth' = [PipeDepth EXCEPT ![q] = depth + Cardinality(sent)]
      /\ inflight' = [asked EXCEPT ![q] = [u \in Uris |-> @[u] + Cardinality(Asked(u))]]

-----------------------------------------------------------------------------
(* pkgAcquire::Dequeue, Item::Failed and the transaction abort it may cause *)

\* the queues without the QItems whose primary owner is in I
Without(Q, I) == [q \in Names |-> AtPositions(Q[q], {k \in DOMAIN Q[q] : Primary(Q[q][k]) \notin I})]

Queued(Q, i) == \E q \in Names : \E k \in DOMAIN Q[q] : Primary(Q[q][k]) = i

\* mutant: AbortTransaction dequeues the items being fetched too
DequeueFetching(i) == {t \in Txn \ {i} : Status[t] # "New"}

\* what AbortTransaction dequeues: every item that is not being fetched right now
AbortDequeues(i) == {t \in Txn \ {i} : Status[t] \notin {"New", "Fetching"}}

\* Item i fails with status st.  An item of the transaction takes the whole
\* transaction with it: pkgAcqIndex::Failed calls AbortTransaction.
Failed(i, st, parked, alternatives) ==
  LET others   == IF i \in Txn /\ ~aborted THEN AbortDequeues(i) ELSE {}
      dequeued == {i} \cup others
      settled  == CASE parked -> IF i \in Txn /\ ~aborted THEN "Done" ELSE "Idle"
                    [] ~parked /\ st \in {"Idle", "Fetching", "Done"} -> "Error"
                    [] OTHER -> st
  IN  /\ Queue' = Without(Queue, dequeued)
      /\ ToFetch' = ToFetch - Cardinality({d \in dequeued : Queued(Queue, d)})
      /\ Status' = [j \in Items |-> CASE j = i -> settled
                                      [] j \in others /\ Status[j] = "Idle" -> "Done"
                                      [] OTHER -> Status[j]]
      /\ AlternativeURIs' = [j \in Items |-> IF j \in dequeued THEN <<>> ELSE alternatives[j]]
      /\ aborted' = (aborted \/ i \in Txn)
      /\ errors' = errors \cup (IF i \in Txn /\ aborted THEN {"aborted again"} ELSE {})
      /\ UNCHANGED <<queues, worker, PipeDepth, inflight>>

-----------------------------------------------------------------------------
(* pkgAcquire::Enqueue *)

\* the queue names QueueName() may choose for u; the backlog of a local
\* queue is a sum of file sizes, so any non-empty one may be the shortest
QueueName(u) ==
  LET existing == {k \in DOMAIN StoreQueue : StoreQueue[k] \in queues}
      empty    == {k \in existing : Queue[StoreQueue[k]] = <<>>}
      hosts    == {h \in queues : \E r \in DOMAIN HostQueue : h = HostQueue[r]}
  IN  IF u \in StoreUris
      THEN IF empty # {} THEN {StoreQueue[Max(empty)]}
           ELSE IF Cardinality(existing) < Len(StoreQueue) THEN {StoreQueue[Cardinality(existing) + 1]}
           ELSE {StoreQueue[k] : k \in existing}
      ELSE IF HostQueue[u] \in queues \/ Cardinality(hosts) < HostLimit THEN {HostQueue[u]} ELSE {GenericQueue}

\* position of the QItem that item i, wanting u, can share; 0 if there is none
SharedWith(q, i, u) ==
  LET same == {k \in DOMAIN Queue[q] : /\ Queue[q][k].uri = u
                                       /\ \A o \in Range(Queue[q][k].owners) : i \in Txn /\ o \in Txn => MetaKey[i] = MetaKey[o]}
  IN  IF same = {} THEN 0 ELSE Min(same)

\* a new QItem goes behind the last one that is not before it in
\* (FetchAfter, Priority) order, which puts a delayed item first
InsertAfter(q, i, after) ==
  LET L == Queue[q]
      NotBefore(k) == \/ QFetchAfter(L[k], after) > after[i]
                      \/ QFetchAfter(L[k], after) = after[i] /\ QPriority(L[k]) >= Priority[i]
  IN  Max({0} \cup {k \in DOMAIN L : NotBefore(k)})

\* Queue::Enqueue and what pkgAcquire::Enqueue does around it
Insert(q, w, i, u, after) ==
  LET k    == SharedWith(q, i, u)
      idle == [Status EXCEPT ![i] = "Idle"]
      new  == InsertAt(Queue[q], InsertAfter(q, i, after) + 1, [uri |-> u, owners |-> <<i>>, sent |-> FALSE])
  IN  IF k # 0
      THEN /\ Queue' = [Queue EXCEPT ![q][k].owners = Append(@, i)]
           /\ Status' = [Status EXCEPT ![i] = IF Primary(Queue[q][k]) = i THEN "Idle" ELSE Status[Primary(Queue[q][k])]]
           /\ UNCHANGED <<ToFetch, PipeDepth, inflight>>
      ELSE /\ ToFetch' = ToFetch + 1
           /\ IF Len(new) = 1
              THEN Cycle(q, w, [Queue EXCEPT ![q] = new], idle, after, PipeDepth[q], inflight)
              ELSE /\ Queue' = [Queue EXCEPT ![q] = new]
                   /\ Status' = idle
                   /\ UNCHANGED <<PipeDepth, inflight>>

\* CheckForBadItemAndFailIt is only asked once Run() was called; until then
\* queues have no worker and nothing is sent.
Enqueue(i, u, after, past, alternatives) ==
  LET running == run \in {"startup", "running"}
      loop    == IsRedirectionLoop(i, u, past)
  IN  /\ PastRedirections' = IF running /\ u \notin NoMethod THEN Recorded(i, u, past) ELSE past
      /\ \/ /\ u \in NoMethod
            /\ Status' = [Status EXCEPT ![i] = "Error"]
            /\ AlternativeURIs' = alternatives
            /\ UNCHANGED <<queueVars, aborted, errors>>
         \/ /\ u \notin NoMethod /\ running /\ (loop \/ i \in Weak)
            /\ Failed(i, IF loop THEN "Error" ELSE "AuthError", FALSE, alternatives)
         \/ /\ u \notin NoMethod /\ ~(running /\ (loop \/ i \in Weak))
            /\ \E q \in QueueName(u) :
                 /\ queues' = queues \cup {q}
                 /\ worker' \in {[worker EXCEPT ![q] = w] :
                       w \in IF ~running \/ q \in queues THEN {worker[q]}
                             ELSE {"up"} \cup (IF q \in Flaky THEN {"dead"} ELSE {})}
                 /\ Insert(q, worker'[q], i, u, after)
            /\ AlternativeURIs' = alternatives
            /\ UNCHANGED <<aborted, errors>>

-----------------------------------------------------------------------------
(* Before Run(): items are constructed and queue themselves *)

Init ==
  /\ Queue = [q \in Names |-> <<>>] /\ queues = {}
  /\ worker = [q \in Names |-> "none"]
  /\ PipeDepth = [q \in Names |-> 0]
  /\ CurrentItem = [q \in Names |-> NoURI]
  /\ inflight = [q \in Names |-> [u \in Uris |-> 0]]
  /\ ToFetch = 0
  /\ Status = [i \in Items |-> "New"]
  /\ DescURI = FirstURI
  /\ Retries = [i \in Items |-> MaxRetries]
  /\ FetchAfter = [i \in Items |-> 0]
  /\ PastRedirections = [i \in Items |-> <<>>]
  /\ AlternativeURIs = Alternates
  /\ BadAlternativeSites = [i \in Items |-> {}]
  /\ stage = [i \in Items |-> 0]
  /\ aborted = FALSE /\ now = 1 /\ run = "setup" /\ result = "go"
  /\ errors = {} /\ work = <<>> /\ reschedules = 0

\* an item's constructor queues its first URI; the caller creates its items in turn
QueueURI(i) ==
  /\ run = "setup" /\ Status[i] = "New" /\ i \in Range(InitialItems)
  /\ \A k \in DOMAIN InitialItems : InitialItems[k] = i => \A m \in 1..(k-1) : Status[InitialItems[m]] # "New"
  /\ Enqueue(i, FirstURI[i], FetchAfter, PastRedirections, AlternativeURIs)
  /\ UNCHANGED <<DescURI, Retries, FetchAfter, BadAlternativeSites, stage, CurrentItem, now, run, result, work, reschedules>>

Run ==
  /\ run = "setup" /\ \A i \in Range(InitialItems) : Status[i] # "New"
  /\ run' = "startup"
  /\ UNCHANGED <<queueVars, itemVars, Status, CurrentItem, aborted, now, result, errors, work, reschedules>>

Call(op, i, q) ==
  [op |-> op, item |-> i, q |-> q, owners |-> <<>>, uri |-> NoURI, got |-> NoURI, alts |-> <<>>, kind |-> "none"]

\* Queue::Startup: every owner of every QItem is checked, then the worker is started
Startup(q) ==
  LET checks == [k \in DOMAIN Queue[q] |-> [Call("check", NoURI, q) EXCEPT !.owners = Queue[q][k].owners]]
  IN  /\ run = "startup" /\ work = <<>> /\ q \in queues /\ worker[q] = "none"
      /\ work' = checks \o <<Call("start", NoURI, q)>>
      /\ UNCHANGED <<queueVars, itemVars, Status, CurrentItem, aborted, now, run, result, errors, reschedules>>

CheckOwner(c) ==
  LET i    == Head(c.owners)
      rest == Tail(c.owners)
      loop == IsRedirectionLoop(i, DescURI[i], PastRedirections)
  IN  /\ c.op = "check"
      /\ PastRedirections' = Recorded(i, DescURI[i], PastRedirections)
      /\ IF loop \/ i \in Weak
         THEN Failed(i, IF loop THEN "Error" ELSE "AuthError", FALSE, AlternativeURIs)
         ELSE UNCHANGED <<queueVars, Status, AlternativeURIs, aborted, errors>>
      /\ work' = IF rest = <<>> THEN Tail(work) ELSE <<[c EXCEPT !.owners = rest]>> \o Tail(work)
      /\ UNCHANGED <<DescURI, Retries, FetchAfter, BadAlternativeSites, stage, CurrentItem, now, run, result, reschedules>>

StartWorker(c) ==
  LET q == c.q
  IN  /\ c.op = "start"
      /\ \/ /\ worker' = [worker EXCEPT ![q] = "up"]
            /\ Cycle(q, "up", Queue, Status, FetchAfter, PipeDepth[q], inflight)
         \/ /\ q \in Flaky
            /\ worker' = [worker EXCEPT ![q] = "dead"]
            /\ UNCHANGED <<Queue, Status, PipeDepth, inflight>>
      /\ work' = Tail(work)
      /\ UNCHANGED <<queues, ToFetch, itemVars, CurrentItem, aborted, now, run, result, errors, reschedules>>

EnterLoop ==
  /\ run = "startup" /\ work = <<>> /\ \A q \in queues : worker[q] # "none"
  /\ run' = "running"
  /\ UNCHANGED <<queueVars, itemVars, Status, CurrentItem, aborted, now, result, errors, work, reschedules>>

-----------------------------------------------------------------------------
(* Messages of the methods: Worker::RunMessages *)

LocalOnly(q) == q \in Range(StoreQueue)

Listening(q) == run = "running" /\ work = <<>> /\ worker[q] = "up"

\* Queue::FindItem: 0 if the method answers for a URI that is not queued
FindItem(q, u) ==
  LET found == {k \in DOMAIN Queue[q] : Queue[q][k].uri = u /\ Queue[q][k].sent}
  IN  IF found = {} THEN 0 ELSE Min(found)

Answered(q, u) == [inflight EXCEPT ![q][u] = @ - 1]

\* 200 URI Start
URIStart(q, u) ==
  LET k == FindItem(q, u)
  IN  /\ Listening(q) /\ inflight[q][u] > 0 /\ CurrentItem[q] # u
      /\ IF k = 0
         THEN errors' = errors \cup {"invalid message"} /\ UNCHANGED <<CurrentItem, Status>>
         ELSE /\ CurrentItem' = [CurrentItem EXCEPT ![q] = u]
              /\ Status' = [i \in Items |-> IF i \in Range(Queue[q][k].owners) THEN "Fetching" ELSE Status[i]]
              /\ UNCHANGED errors
      /\ UNCHANGED <<queueVars, itemVars, aborted, now, run, result, work, reschedules>>

\* Queue::ItemDone for position k of queue q; the owners have the given
\* status.  An item is in one queue only (invariant OwnedOnce), so the
\* branch for QueueCounter > 1 is not modelled.
ItemDone(q, k, status, asked) ==
  LET p == Primary(Queue[q][k])
  IN  /\ ToFetch' = ToFetch - 1
      /\ Cycle(q, worker[q], Without(Queue, {p}), status, FetchAfter, PipeDepth[q] - 1, asked)
      /\ UNCHANGED <<queues, worker>>

\* Worker::ItemDone
ForgetCurrentItem(q) == CurrentItem' = [CurrentItem EXCEPT ![q] = NoURI]

\* mutant: only the primary owner is told
TellPrimary(owners, c) == <<[c EXCEPT !.item = Head(owners)]>>

\* the loop over the owners a handler of RunMessages ends with
TellOwners(owners, c) == [n \in DOMAIN owners |-> [c EXCEPT !.item = owners[n]]]

\* A final answer for u: the queue item leaves the queue, the next one is
\* sent, and then each of its owners is told, through the calls in "work".
Answer(q, u, from, to, c) ==
  LET k      == FindItem(q, u)
      owners == Queue[q][k].owners
      status == [i \in Items |-> IF i \in Range(owners) /\ Status[i] \in from THEN to ELSE Status[i]]
  IN  /\ Listening(q) /\ inflight[q][u] > 0
      /\ IF k = 0
         THEN /\ errors' = errors \cup {"invalid message"}
              /\ inflight' = Answered(q, u)
              /\ UNCHANGED <<Queue, queues, worker, PipeDepth, ToFetch, Status, CurrentItem, work>>
         ELSE /\ ItemDone(q, k, status, Answered(q, u))
              /\ ForgetCurrentItem(q)
              /\ work' = TellOwners(owners, c)
              /\ UNCHANGED errors
      /\ UNCHANGED <<itemVars, aborted, now, run, result>>

\* 103 Redirect to new, with alternatives from a mirror list
Redirect(q, u) ==
  \E new \in Redirects[u], alts \in MirrorAlts[u] :
    /\ new = u => reschedules < MaxReschedule
    /\ reschedules' = IF new = u THEN reschedules + 1 ELSE reschedules
    /\ Answer(q, u, Statuses, "Idle", [Call("redirect", NoURI, q) EXCEPT !.uri = new, !.got = new, !.alts = alts])

\* 201 URI Done whose hashes and VerifyDone are fine
URIDone(q, u) ==
  /\ Answer(q, u, {"Fetching"}, "Done", Call("done", NoURI, q))
  /\ UNCHANGED reschedules

\* 400 URI Failure, or a 201 URI Done that fails its checks
URIFailure(q, u) ==
  /\ \E kind \in FailKinds[u] : Answer(q, u, {"Fetching"}, "Done", [Call("fail", NoURI, q) EXCEPT !.kind = kind])
  /\ UNCHANGED reschedules

-----------------------------------------------------------------------------
(* ... and what they mean for one owner *)

Skip == UNCHANGED <<queueVars, Status, aborted, errors>>

\* An owner of a redirected item.  NewURI is one variable for the whole loop
\* over the owners, so what one owner makes of it is what the next one gets.
RedirectOwner(c) ==
  LET i      == c.item
      usable == {n \in DOMAIN c.alts : IsGoodAlternativeURI(i, c.alts[n])}
      alt    == AtPositions(c.alts, usable) \o AlternativeURIs[i]
      simple == DescURI[i] = c.got
      good   == IsGoodAlternativeURI(i, c.uri)
      new    == IF good THEN c.uri ELSE IF alt # <<>> THEN Head(alt) ELSE NoURI
      left   == [AlternativeURIs EXCEPT ![i] = IF simple \/ good \/ alt = <<>> THEN alt ELSE Tail(alt)]
      to     == IF simple THEN DescURI[i] ELSE new
      loop   == ~simple /\ (new = NoURI \/ IsRedirectionLoop(i, new, PastRedirections))
      past   == IF simple \/ new = NoURI THEN PastRedirections ELSE Recorded(i, new, PastRedirections)
  IN  /\ c.op = "redirect"
      /\ work' = [n \in DOMAIN Tail(work) |-> IF simple THEN Tail(work)[n] ELSE [Tail(work)[n] EXCEPT !.uri = new]]
      /\ DescURI' = IF loop THEN DescURI ELSE [DescURI EXCEPT ![i] = to]
      /\ \/ loop /\ Failed(i, Status[i], FALSE, left) /\ PastRedirections' = past
         \/ ~loop /\ Doomed(i) /\ Skip /\ PastRedirections' = past /\ AlternativeURIs' = left
         \/ ~loop /\ ~Doomed(i) /\ Enqueue(i, to, FetchAfter, past, left)
      /\ UNCHANGED <<Retries, FetchAfter, BadAlternativeSites, stage, CurrentItem, now, run, result, reschedules>>

\* An owner of a fetched item: Item::Done, then the item's next stage or the
\* items its last stage creates.
DoneOwner(c) ==
  LET i    == c.item
      next == stage[i] + 1
      more == next <= Len(Stages[i])
      done == [AlternativeURIs EXCEPT ![i] = <<>>]
  IN  /\ c.op = "done"
      /\ \/ /\ Doomed(i)
            /\ Skip
            /\ UNCHANGED <<DescURI, stage, PastRedirections, AlternativeURIs>>
            /\ work' = Tail(work)
         \/ /\ ~Doomed(i) /\ more
            /\ DescURI' = [DescURI EXCEPT ![i] = Stages[i][next]]
            /\ stage' = [stage EXCEPT ![i] = next]
            /\ Enqueue(i, Stages[i][next], FetchAfter, PastRedirections, done)
            /\ work' = Tail(work)
         \/ /\ ~Doomed(i) /\ ~more
            /\ Status' = [Status EXCEPT ![i] = "Done"]
            /\ AlternativeURIs' = done
            /\ work' = [n \in DOMAIN Spawns[i] |-> Call("new", Spawns[i][n], c.q)] \o Tail(work)
            /\ UNCHANGED <<queueVars, aborted, errors, DescURI, stage, PastRedirections>>
      /\ UNCHANGED <<Retries, FetchAfter, BadAlternativeSites, CurrentItem, now, run, result, reschedules>>

\* the constructor of an item created while the queues are running
NewItem(c) ==
  LET i == c.item
  IN  /\ c.op = "new"
      /\ \/ /\ Doomed(i)
            /\ Status' = [Status EXCEPT ![i] = "Idle"]
            /\ UNCHANGED <<queueVars, aborted, errors, PastRedirections, AlternativeURIs>>
         \/ /\ ~Doomed(i)
            /\ Enqueue(i, FirstURI[i], FetchAfter, PastRedirections, AlternativeURIs)
      /\ work' = Tail(work)
      /\ UNCHANGED <<DescURI, Retries, FetchAfter, BadAlternativeSites, stage, CurrentItem, now, run, result, reschedules>>

\* seconds a retry is delayed by: exponential backoff up to MaxDelay, plus
\* what the server asked for and a random share after a 429
RetryDelays(i, kind) ==
  LET backoff == Min({2^(MaxRetries - Retries[i]), MaxDelay})
  IN  IF kind = "toomany" THEN backoff..MaxDelay ELSE {backoff}

\* Worker::HandleFailure, first half: a transient error is retried later
RetryOwner(c) ==
  LET i == c.item
  IN  /\ c.op = "fail" /\ c.kind \in {"transient", "toomany"} /\ ~LocalOnly(c.q) /\ Retries[i] # 0
      /\ Retries' = [Retries EXCEPT ![i] = @ - 1]
      /\ \E d \in RetryDelays(i, c.kind) :
           /\ FetchAfter' = [FetchAfter EXCEPT ![i] = now + d]
           /\ IF Doomed(i) THEN Skip /\ UNCHANGED <<PastRedirections, AlternativeURIs>>
              ELSE Enqueue(i, DescURI[i], [FetchAfter EXCEPT ![i] = now + d], PastRedirections, AlternativeURIs)
      /\ work' = Tail(work)
      /\ UNCHANGED <<DescURI, BadAlternativeSites, stage, CurrentItem, now, run, result, reschedules>>

\* second half: try the next alternative, or give up
FailOwner(c) ==
  LET i         == c.item
      transient == c.kind \in {"transient", "toomany"}
      auth      == c.kind \in {"auth", "hash"}
      site      == Site(DescURI[i])
      others    == {n \in DOMAIN AlternativeURIs[i] : Site(AlternativeURIs[i][n]) # site}
      alts      == IF auth THEN AtPositions(AlternativeURIs[i], others) ELSE AlternativeURIs[i]
      st        == CASE auth /\ i \in Hashed -> "AuthError"
                     [] ~(auth /\ i \in Hashed) /\ transient -> "TransientNetworkError"
                     [] OTHER -> Status[i]
      Left(s)   == [AlternativeURIs EXCEPT ![i] = s]
  IN  /\ c.op = "fail" /\ ~(transient /\ ~LocalOnly(c.q) /\ Retries[i] # 0)
      /\ BadAlternativeSites' = IF auth THEN [BadAlternativeSites EXCEPT ![i] = @ \cup {site}] ELSE BadAlternativeSites
      /\ \/ /\ alts # <<>>
            /\ DescURI' = [DescURI EXCEPT ![i] = Head(alts)]
            /\ IF Doomed(i) THEN Skip /\ UNCHANGED PastRedirections /\ AlternativeURIs' = Left(Tail(alts))
               ELSE Enqueue(i, Head(alts), FetchAfter, PastRedirections, Left(Tail(alts)))
         \/ /\ alts = <<>>
            /\ IF Doomed(i)
               THEN /\ Status' = [Status EXCEPT ![i] = st]
                    /\ AlternativeURIs' = Left(alts)
                    /\ UNCHANGED <<queueVars, aborted, errors>>
               ELSE Failed(i, st, LocalOnly(c.q) /\ transient, Left(alts))
            /\ UNCHANGED <<DescURI, PastRedirections>>
      /\ work' = Tail(work)
      /\ UNCHANGED <<Retries, FetchAfter, stage, CurrentItem, now, run, result, reschedules>>

Handler ==
  /\ work # <<>>
  /\ LET c == Head(work)
     IN  \/ CheckOwner(c) \/ StartWorker(c) \/ RedirectOwner(c) \/ DoneOwner(c)
         \/ NewItem(c) \/ RetryOwner(c) \/ FailOwner(c)

-----------------------------------------------------------------------------
(* The rest of pkgAcquire::Run *)

\* the loop cycles a queue whose head item was delayed and is due now
Unstick(q) ==
  /\ run = "running" /\ work = <<>> /\ result = "go" /\ ToFetch > 0
  /\ Queue[q] # <<>>
  /\ LET f == QFetchAfter(Head(Queue[q]), FetchAfter)
     IN  f # 0 /\ f <= now /\ Status[Primary(Head(Queue[q]))] = "Idle"
  /\ CycleSent(q, worker[q], Queue[q], Status, FetchAfter, PipeDepth[q]) # {}
  /\ Cycle(q, worker[q], Queue, Status, FetchAfter, PipeDepth[q], inflight)
  /\ result' = IF worker[q] = "dead" THEN "broken" ELSE result
  /\ UNCHANGED <<queues, worker, ToFetch, itemVars, CurrentItem, aborted, now, run, errors, work, reschedules>>

\* time passes; only told apart while a queued item is delayed
Tick ==
  /\ run = "running" /\ work = <<>> /\ result = "go"
  /\ \E q \in Names : \E k \in DOMAIN Queue[q] : QFetchAfter(Queue[q][k], FetchAfter) > now
  /\ now' = now + 1
  /\ UNCHANGED <<queueVars, itemVars, Status, CurrentItem, aborted, run, result, errors, work, reschedules>>

\* Worker::MethodFailure: its answers that were not read yet are lost
MethodFailure(q) ==
  /\ q \in MayDie /\ Listening(q)
  /\ worker' = [worker EXCEPT ![q] = "dead"]
  /\ inflight' = [inflight EXCEPT ![q] = [u \in Uris |-> 0]]
  /\ result' = "broken"
  /\ errors' = errors \cup {"died"}
  /\ UNCHANGED <<Queue, queues, PipeDepth, ToFetch, itemVars, Status, CurrentItem, aborted, now, run, work, reschedules>>

\* Log->Pulse returned false
Cancel ==
  /\ MayCancel /\ run = "running" /\ work = <<>> /\ result = "go" /\ ToFetch > 0
  /\ result' = "cancelled"
  /\ UNCHANGED <<queueVars, itemVars, Status, CurrentItem, aborted, now, run, errors, work, reschedules>>

\* the loop ends; Shutdown(false) ends the workers
Stop ==
  /\ run = "running" /\ work = <<>> /\ (ToFetch <= 0 \/ result # "go")
  /\ run' = "stopped"
  /\ worker' = [q \in Names |-> "none"]
  /\ CurrentItem' = [q \in Names |-> NoURI]
  /\ inflight' = [q \in Names |-> [u \in Uris |-> 0]]
  /\ UNCHANGED <<Queue, queues, PipeDepth, ToFetch, itemVars, Status, aborted, now, result, errors, work, reschedules>>

Finished == run = "stopped" /\ UNCHANGED vars

Next ==
  \/ \E i \in Items : QueueURI(i)
  \/ Run \/ EnterLoop \/ Handler \/ Tick \/ Cancel \/ Stop \/ Finished
  \/ \E q \in Names : Startup(q) \/ Unstick(q) \/ MethodFailure(q)
  \/ \E q \in Names, u \in Uris : URIStart(q, u) \/ Redirect(q, u) \/ URIDone(q, u) \/ URIFailure(q, u)

\* A method answers every request (its own timeouts see to that), the select
\* loop keeps running and time passes; nobody has to cancel or crash.
Fairness ==
  /\ WF_vars((\E i \in Items : QueueURI(i)) \/ Run \/ EnterLoop \/ Handler \/ Stop \/ \E q \in Names : Startup(q))
  /\ WF_vars(Tick)
  /\ \A q \in Names : WF_vars(Unstick(q))
  /\ \A q \in Names : WF_vars(\E u \in Uris : Redirect(q, u) \/ URIDone(q, u) \/ URIFailure(q, u))

Spec == Init /\ [][Next]_vars
FairSpec == Spec /\ Fairness

-----------------------------------------------------------------------------
(* Properties *)

\* The variables hold values of the types the code gives them; the retries left
\* of an item never get below zero.
TypeOK ==
  /\ Queue \in [Names -> Seq(QItems)] /\ queues \subseteq Names
  /\ worker \in [Names -> {"none", "up", "dead"}]
  /\ PipeDepth \in [Names -> Int] /\ ToFetch \in Int
  /\ CurrentItem \in [Names -> Uris \cup {NoURI}]
  /\ inflight \in [Names -> [Uris -> Nat]]
  /\ Status \in [Items -> Statuses] /\ DescURI \in [Items -> Uris]
  /\ Retries \in [Items -> 0..MaxRetries] /\ FetchAfter \in [Items -> Int]
  /\ PastRedirections \in [Items -> Seq(Uris)] /\ AlternativeURIs \in [Items -> Seq(Uris)]
  /\ stage \in [Items -> Nat] /\ aborted \in BOOLEAN /\ now \in Nat
  /\ run \in {"setup", "startup", "running", "stopped"}
  /\ result \in {"go", "broken", "cancelled"}

Sent(q) == {k \in DOMAIN Queue[q] : Queue[q][k].sent}

\* ToFetch, which decides when Run() returns, counts exactly the queue items:
\* a miss makes Run() return early or wait for an answer that never comes.
ToFetchExact == ToFetch = Cardinality(UNION {{q} \X DOMAIN Queue[q] : q \in Names})

\* PipeDepth counts exactly the items handed to the worker and keeps within
\* the method's pipeline depth, through redirects, retries, merged items and
\* aborted transactions (the code reports "Pipedepth failure" otherwise).
PipeDepthExact == \A q \in Names : PipeDepth[q] = Cardinality(Sent(q)) /\ PipeDepth[q] <= MaxPipeDepth[q]

\* An item is an owner of at most one queue item and appears once in it: the
\* single decrement of ToFetch in pkgAcquire::Dequeue and the owner loops of
\* the message handlers rely on it.
OwnedOnce ==
  \A q, r \in Names : \A k \in DOMAIN Queue[q], l \in DOMAIN Queue[r] :
    \A m \in DOMAIN Queue[q][k].owners, n \in DOMAIN Queue[r][l].owners :
      Queue[q][k].owners[m] = Queue[r][l].owners[n] => q = r /\ k = l /\ m = n

\* Every request a method still has to answer has its own queue item, so no
\* answer is dropped as an "invalid message" (RunMessages, Itm == nullptr).
AnswersFindItem ==
  /\ \A q \in Names, u \in Uris : inflight[q][u] <= Cardinality({k \in Sent(q) : Queue[q][k].uri = u})
  /\ "invalid message" \notin errors

\* Worker::CurrentItem, which Pulse() follows between messages, never points
\* to a queue item that was deleted.
CurrentItemLive ==
  work = <<>> => \A q \in Names : CurrentItem[q] # NoURI => \E k \in Sent(q) : Queue[q][k].uri = CurrentItem[q]

\* An item that is idle or being fetched is in a queue.  Left out: items of an
\* aborted transaction, and the local items Item::Failed parks as idle.
NoOrphan ==
  work = <<>> /\ run # "setup" =>
    \A i \in Items : Status[i] \in {"Idle", "Fetching"} /\ ~Doomed(i) => Owned(i) \/ DescURI[i] \in StoreUris

\* When Run() ends by itself every item has its final status.
CompleteRun ==
  run = "stopped" /\ result = "go" =>
    \A i \in Items : Status[i] \in {"Idle", "Fetching"} => Doomed(i) \/ DescURI[i] \in StoreUris

\* Once its transaction is aborted nothing of it is handed to a worker
\* anymore, whatever answers for its other items are still to come.
AbortIsFinal ==
  [][\A q \in Names : \A k \in DOMAIN Queue'[q] :
       aborted /\ Queue'[q][k].sent /\ Primary(Queue'[q][k]) \in Txn
         => \E m \in Sent(q) : Primary(Queue[q][m]) = Primary(Queue'[q][k])]_vars

\* Run() returns: retries, redirects, alternatives and delays all come to an
\* end, and no queue waits for somebody else to cycle it.
RunReturns == run = "startup" ~> run = "stopped"

\* What Run(), Cycle and the handlers count and link stays exact through
\* redirects, merged requests, retries and later stages, and no item is lost.
QueuesExact == TypeOK /\ ToFetchExact /\ PipeDepthExact /\ OwnedOnce /\ NoOrphan

\* Whatever is aborted, redirected, cancelled or dies while requests are in the
\* pipeline, each late answer finds its item, Pulse() follows no deleted one,
\* the counters stay exact, and Run() ends with every item in a final status.
LateAnswersSafe == ToFetchExact /\ PipeDepthExact /\ AnswersFindItem /\ CurrentItemLive /\ CompleteRun
====
