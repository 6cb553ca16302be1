------------------------- MODULE AcquireLossProofs --------------------------
(***************************************************************************)
(* Theorems about AcquireQueue, continued: no item is lost, whatever is    *)
(* redirected, merged, retried, aborted or fails, as long as what belongs  *)
(* to the transaction is kept apart from what does not (Separate).         *)
(***************************************************************************)
EXTENDS AcquireQueueProofs

-----------------------------------------------------------------------------
(* The third invariant: no item is lost *)

Active == {"Idle", "Fetching"}

\* A QItem is for the URI each of its owners wants, and a local queue has local ones.
Wanted(Q, desc) ==
  \A q \in Names : \A k \in DOMAIN Q[q] :
    /\ \A o \in Range(Q[q][k].owners) : desc[o] = Q[q][k].uri
    /\ LocalOnly(q) => Q[q][k].uri \in StoreUris

\* the URIs of s are the transaction's if i is
OnSide(T, i, s) == \A n \in DOMAIN s : s[n] \in T <=> i \in Txn

\* What is fetched for the transaction is not fetched for others.
Sides(T) == \A i \in Items : (DescURI[i] \in T <=> i \in Txn) /\ OnSide(T, i, AlternativeURIs[i])

\* Nor is it redirected to what is; NewURI is the same for all owners.
Redirections(T) ==
  \A n \in DOMAIN work : work[n].op = "redirect" =>
    /\ work[n].got \in T <=> work[n].item \in Txn
    /\ work[n].uri # NoURI => (work[n].uri \in T <=> work[n].item \in Txn)
    /\ OnSide(T, work[n].item, work[n].alts)
    /\ \A m \in DOMAIN work : work[m].op = "redirect" => work[m].got = work[n].got

\* An item begins with its first URI, and before the loop none has another.
Beginnings ==
  /\ \A i \in Items : Status[i] = "New" => DescURI[i] = FirstURI[i]
  /\ run \in {"setup", "startup"} =>
       \A i \in Items : /\ DescURI[i] = FirstURI[i] /\ PastRedirections[i] \in {<<>>, <<DescURI[i]>>}
                        /\ Status[i] # "New" => i \in Range(InitialItems)

\* Startup checks all owners of a QItem that is still in its queue.
Whole ==
  \A n \in DOMAIN work : work[n].op = "check" =>
    \A q \in Names : \A k \in DOMAIN Queue[q] :
      Primary(Queue[q][k]) \in Range(work[n].owners) => work[n].owners = Queue[q][k].owners

\* What is told of a local fetch is about a local URI.
LocalCalls ==
  \A n \in DOMAIN work : work[n].op = "fail" /\ LocalOnly(work[n].q) => DescURI[work[n].item] \in StoreUris

\* An item that is neither done nor failed is in a queue, or about to be told or checked.
ToBeChecked(i) == \E n \in DOMAIN work : work[n].op = "check" /\ i \in Range(work[n].owners)
NoneLost ==
  \A i \in Items : Status[i] \in Active /\ ~Doomed(i) =>
    OwnedIn(Queue, i) \/ DescURI[i] \in StoreUris \/ i \in Pending \/ (i \in Weak /\ ToBeChecked(i))

\* Run() that ends by itself leaves nothing in the queues.
Emptied == run = "stopped" /\ result = "go" => Heads(Queue) = {}

LossInv(T) ==
  /\ Wanted(Queue, DescURI) /\ Sides(T) /\ Redirections(T) /\ Beginnings /\ Whole /\ LocalCalls
  /\ NoneLost /\ Emptied

-----------------------------------------------------------------------------
(* What the operations do *)

\* The owners of a QItem are in its queue.
LEMMA InQueue ==
  ASSUME NEW Q, NEW q \in Names, NEW k \in DOMAIN Q[q], NEW o \in Range(Q[q][k].owners)
  PROVE  OwnedIn(Q, o)
  BY DEF OwnedIn

\* the step sends some QItems of Q, and gives their owners a status
Sends(Q, status) ==
  /\ \A r \in Names : /\ DOMAIN Queue'[r] = DOMAIN Q[r]
                      /\ \A k \in DOMAIN Q[r] : Queue'[r][k].owners = Q[r][k].owners /\ Queue'[r][k].uri = Q[r][k].uri
  /\ \A i \in Items : Status'[i] # status[i] => OwnedIn(Queue', i)
  /\ \A i \in Items : OwnedIn(Queue', i) <=> OwnedIn(Q, i)

\* Cycle changes no QItem but for sending it.
LEMMA CycleSends ==
  ASSUME NEW Q, NEW status, Sound(Q, status), NEW q \in Names, NEW w, NEW after, NEW depth, NEW asked,
         Cycle(q, w, Q, status, after, depth, asked)
  PROVE  Sends(Q, status)
  <1> DEFINE sent == CycleSent(q, w, Q[q], status, after, depth)
  <1>1. sent \in SUBSET DOMAIN Q[q] /\ \A k \in sent : status[Primary(Q[q][k])] = "Idle"
    BY DEF CycleSent
  <1> HIDE DEF sent
  <1>2. Queue' = QueuesSent(Q, q, sent) /\ Status' = StatusSent(Q, q, sent, status)
    BY DEF Cycle, sent, QueuesSent, StatusSent
  <1>3. /\ Sound(Queue', Status')
        /\ \A r \in Names : /\ DOMAIN Queue'[r] = DOMAIN Q[r]
                            /\ \A k \in DOMAIN Q[r] :
                                 /\ Queue'[r][k].owners = Q[r][k].owners /\ Queue'[r][k].uri = Q[r][k].uri
                                 /\ Queue'[r][k].sent <=> Q[r][k].sent \/ (r = q /\ k \in sent)
        /\ \A k \in sent : ~Q[q][k].sent
        /\ \A i \in Items : Status'[i] # status[i] => Status'[i] = "Fetching" /\ OwnedIn(Q, i)
        /\ \A i \in Items : OwnedIn(Queue', i) <=> OwnedIn(Q, i)
    BY <1>1, <1>2, Sending
  <1> QED BY <1>3 DEF Sends

\* the step puts i, which wants u, into queue q, alone or to share a QItem
Takes(i, q, u) ==
  /\ \A r \in Names : \A k \in DOMAIN Queue'[r] :
       \/ \E m \in DOMAIN Queue[r] : Queue'[r][k].owners = Queue[r][m].owners /\ Queue'[r][k].uri = Queue[r][m].uri
       \/ /\ r = q /\ Queue'[r][k].uri = u
          /\ \A o \in Range(Queue'[r][k].owners) :
               o = i \/ \E m \in DOMAIN Queue[r] : o \in Range(Queue[r][m].owners) /\ Queue[r][m].uri = u
  /\ OwnedIn(Queue', i)
  /\ \A j \in Items : OwnedIn(Queue, j) => OwnedIn(Queue', j)
  /\ \A j \in Items \ {i} : Status'[j] # Status[j] => OwnedIn(Queue', j)

\* Sharing a QItem.
LEMMA ShareTakes ==
  ASSUME Sound(Queue, Status), NEW q \in Names, NEW i \in Items, NEW u, NEW k \in DOMAIN Queue[q], Queue[q][k].uri = u,
         Queue' = QueuesShared(Queue, q, k, i), NEW st, Status' = [Status EXCEPT ![i] = st]
  PROVE  Takes(i, q, u)
  <1> DEFINE x == Queue[q][k]
             y == [x EXCEPT !.owners = Append(x.owners, i)]
  <1>1. /\ Queue \in [Names -> Seq(QItems)] /\ Queue[q] \in Seq(QItems) /\ x \in QItems /\ x.owners \in Seq(Items)
        /\ Status \in [Items -> Statuses]
    BY SoundItems DEF Sound
  <1>2. Queue'[q] = [Queue[q] EXCEPT ![k] = y] /\ \A r \in Names : r # q => Queue'[r] = Queue[r]
    BY <1>1 DEF QueuesShared
  <1>3. y.uri = u /\ y.owners = Append(x.owners, i)
    BY <1>1 DEF QItems
  <1>4. Range(y.owners) = Range(x.owners) \cup {i}
    <2>1. /\ DOMAIN Append(x.owners, i) = 1..(Len(x.owners) + 1) /\ DOMAIN x.owners = 1..Len(x.owners) /\ Len(x.owners) \in Nat
          /\ Append(x.owners, i)[Len(x.owners) + 1] = i
          /\ \A n \in DOMAIN x.owners : Append(x.owners, i)[n] = x.owners[n]
      BY <1>1
    <2>2. \A n \in DOMAIN Append(x.owners, i) : n \in DOMAIN x.owners \/ n = Len(x.owners) + 1
      BY <2>1
    <2>3. \A n \in DOMAIN x.owners : n \in DOMAIN Append(x.owners, i)
      BY <2>1
    <2>4. Len(x.owners) + 1 \in DOMAIN Append(x.owners, i)
      BY <2>1
    <2>5. Range(Append(x.owners, i)) = Range(x.owners) \cup {i}
      BY <2>1, <2>2, <2>3, <2>4 DEF Range
    <2> QED BY <1>3, <2>5
  <1>5. DOMAIN Queue'[q] = DOMAIN Queue[q] /\ Queue'[q][k] = y /\ \A l \in DOMAIN Queue[q] : l # k => Queue'[q][l] = Queue[q][l]
    BY <1>1, <1>2
  <1> HIDE DEF x, y
  <1>6. x = Queue[q][k] /\ x.uri = u
    BY DEF x
  <1>7. ASSUME NEW r \in Names, NEW l \in DOMAIN Queue'[r]
        PROVE  \/ \E m \in DOMAIN Queue[r] : Queue'[r][l].owners = Queue[r][m].owners /\ Queue'[r][l].uri = Queue[r][m].uri
               \/ /\ r = q /\ Queue'[r][l].uri = u
                  /\ \A o \in Range(Queue'[r][l].owners) :
                       o = i \/ \E m \in DOMAIN Queue[r] : o \in Range(Queue[r][m].owners) /\ Queue[r][m].uri = u
    <2>1. CASE r # q
      BY <1>2, <2>1
    <2>2. CASE r = q /\ l # k
      BY <1>5, <2>2
    <2>3. CASE r = q /\ l = k
      BY <1>3, <1>4, <1>5, <1>6, <2>3
    <2> QED BY <2>1, <2>2, <2>3
  <1>8. OwnedIn(Queue', i)
    BY <1>4, <1>5 DEF OwnedIn
  <1>9. ASSUME NEW j \in Items, OwnedIn(Queue, j) PROVE OwnedIn(Queue', j)
    <2>1. PICK r \in Names : \E l \in DOMAIN Queue[r] : j \in Range(Queue[r][l].owners)
      BY <1>9 DEF OwnedIn
    <2>2. PICK l \in DOMAIN Queue[r] : j \in Range(Queue[r][l].owners)
      BY <2>1
    <2>3. l \in DOMAIN Queue'[r] /\ j \in Range(Queue'[r][l].owners)
      <3>1. CASE r # q
        BY <1>2, <2>2, <3>1
      <3>2. CASE r = q /\ l # k
        BY <1>5, <2>2, <3>2
      <3>3. CASE r = q /\ l = k
        BY <1>4, <1>5, <1>6, <2>2, <3>3
      <3> QED BY <3>1, <3>2, <3>3
    <2> QED BY <2>3 DEF OwnedIn
  <1>10. \A j \in Items \ {i} : Status'[j] = Status[j]
    BY <1>1
  <1> QED BY <1>7, <1>8, <1>9, <1>10 DEF Takes

\* Queue::Enqueue takes its item into the queue.
LEMMA InsertTakes ==
  ASSUME Sound(Queue, Status), NEW q \in Names, NEW i \in Items, ~OwnedIn(Queue, i), NEW u \in Uris,
         NEW w, NEW after, Insert(q, w, i, u, after)
  PROVE  Takes(i, q, u)
  <1> DEFINE k == SharedWith(q, i, u)
             p == InsertAfter(q, i, after) + 1
             e == [uri |-> u, owners |-> <<i>>, sent |-> FALSE]
             R == [Queue EXCEPT ![q] = InsertAt(Queue[q], p, e)]
             idle == [Status EXCEPT ![i] = "Idle"]
  <1>1. Status \in [Items -> Statuses]
    BY DEF Sound
  <1>2. CASE k # 0
    <2>1. PICK st : Queue' = QueuesShared(Queue, q, k, i) /\ Status' = [Status EXCEPT ![i] = st]
      BY <1>2 DEF Insert, QueuesShared
    <2>2. k \in DOMAIN Queue[q] /\ Queue[q][k].uri = u
      <3> DEFINE same == {l \in DOMAIN Queue[q] : /\ Queue[q][l].uri = u
                                                  /\ \A o \in Range(Queue[q][l].owners) : i \in Txn /\ o \in Txn => MetaKey[i] = MetaKey[o]}
      <3>1. same # {} /\ k = Min(same)
        BY <1>2 DEF SharedWith
      <3>2. same \in SUBSET Nat
        BY SoundItems
      <3>3. k \in same
        <4> HIDE DEF same, k
        <4> QED BY <3>1, <3>2, LeastPosition
      <3> QED BY <3>3
    <2> HIDE DEF k
    <2> QED BY <2>1, <2>2, ShareTakes
  <1>3. CASE k = 0
    <2>1. p \in 1..(Len(Queue[q]) + 1)
      BY Places
    <2>2. \/ Cycle(q, w, R, idle, after, PipeDepth[q], inflight)
          \/ Queue' = R /\ Status' = idle
      BY <1>3 DEF Insert
    <2> HIDE DEF p
    <2>3. Sound(R, idle)
      BY <2>1, Inserting
    <2>4. PutsIn(Queue, q, e, R)
      <3> HIDE DEF R
      <3>1. R = [Queue EXCEPT ![q] = InsertAt(Queue[q], p, [uri |-> u, owners |-> <<i>>, sent |-> FALSE])]
        BY DEF R
      <3> QED BY <2>1, <3>1, InsertingOne
    <2>5. \A j \in Items \ {i} : idle[j] = Status[j]
      BY <1>1
    <2>6. e.uri = u /\ Range(e.owners) = {i}
      BY DEF Range
    <2> HIDE DEF R, idle, e
    <2>7. ASSUME NEW r \in Names, NEW l \in DOMAIN R[r]
          PROVE  \/ \E m \in DOMAIN Queue[r] : R[r][l].owners = Queue[r][m].owners /\ R[r][l].uri = Queue[r][m].uri
                 \/ r = q /\ R[r][l].uri = u /\ \A o \in Range(R[r][l].owners) : o = i
      <3>1. (r = q /\ R[r][l] = e) \/ \E m \in DOMAIN Queue[r] : R[r][l] = Queue[r][m]
        BY <2>4 DEF PutsIn
      <3>2. CASE r = q /\ R[r][l] = e
        BY <2>6, <3>2
      <3>3. CASE \E m \in DOMAIN Queue[r] : R[r][l] = Queue[r][m]
        BY <3>3
      <3> QED BY <3>1, <3>2, <3>3
    <2>8. OwnedIn(R, i)
      BY <2>4, <2>6 DEF PutsIn, OwnedIn
    <2>9. ASSUME NEW j \in Items, OwnedIn(Queue, j) PROVE OwnedIn(R, j)
      <3>1. PICK r \in Names : \E l \in DOMAIN Queue[r] : j \in Range(Queue[r][l].owners)
        BY <2>9 DEF OwnedIn
      <3>2. PICK l \in DOMAIN Queue[r] : j \in Range(Queue[r][l].owners)
        BY <3>1
      <3>3. PICK m \in DOMAIN R[r] : R[r][m] = Queue[r][l]
        BY <2>4 DEF PutsIn
      <3> QED BY <3>2, <3>3 DEF OwnedIn
    <2>10. CASE Queue' = R /\ Status' = idle
      BY <2>5, <2>7, <2>8, <2>9, <2>10 DEF Takes
    <2>11. CASE Cycle(q, w, R, idle, after, PipeDepth[q], inflight)
      <3>1. Sends(R, idle)
        BY <2>3, <2>11, CycleSends
      <3>2. OwnedIn(Queue', i) /\ \A j \in Items : OwnedIn(Queue, j) => OwnedIn(Queue', j)
        BY <2>8, <2>9, <3>1 DEF Sends
      <3>3. \A j \in Items \ {i} : Status'[j] # Status[j] => OwnedIn(Queue', j)
        BY <2>5, <3>1 DEF Sends
      <3>4. ASSUME NEW r \in Names, NEW l \in DOMAIN Queue'[r]
            PROVE  \/ \E m \in DOMAIN Queue[r] : Queue'[r][l].owners = Queue[r][m].owners /\ Queue'[r][l].uri = Queue[r][m].uri
                   \/ r = q /\ Queue'[r][l].uri = u /\ \A o \in Range(Queue'[r][l].owners) : o = i
        <4>1. l \in DOMAIN R[r] /\ Queue'[r][l].owners = R[r][l].owners /\ Queue'[r][l].uri = R[r][l].uri
          BY <3>1 DEF Sends
        <4> QED BY <2>7, <4>1
      <3> QED BY <3>2, <3>3, <3>4 DEF Takes
    <2> QED BY <2>2, <2>10, <2>11
  <1> QED BY <1>2, <1>3

\* What taking an item into a queue means for what is wanted.
LEMMA TakesWanted ==
  ASSUME Wanted(Queue, DescURI), NEW i, ~OwnedIn(Queue, i), NEW q \in Names, NEW u \in Uris, Takes(i, q, u),
         LocalOnly(q) => u \in StoreUris, DescURI'[i] = u, \A j : OwnedIn(Queue, j) => DescURI'[j] = DescURI[j]
  PROVE  Wanted(Queue', DescURI')
  <1> SUFFICES ASSUME NEW r \in Names, NEW k \in DOMAIN Queue'[r]
               PROVE  /\ \A o \in Range(Queue'[r][k].owners) : DescURI'[o] = Queue'[r][k].uri
                      /\ LocalOnly(r) => Queue'[r][k].uri \in StoreUris
    BY DEF Wanted
  <1>1. ASSUME NEW m \in DOMAIN Queue[r], NEW o \in Range(Queue[r][m].owners) PROVE DescURI'[o] = Queue[r][m].uri
    <2>1. OwnedIn(Queue, o)
      BY InQueue
    <2> QED BY <2>1 DEF Wanted
  <1>2. ASSUME NEW m \in DOMAIN Queue[r], Queue'[r][k].owners = Queue[r][m].owners, Queue'[r][k].uri = Queue[r][m].uri
        PROVE  /\ \A o \in Range(Queue'[r][k].owners) : DescURI'[o] = Queue'[r][k].uri
               /\ LocalOnly(r) => Queue'[r][k].uri \in StoreUris
    BY <1>1, <1>2 DEF Wanted
  <1>3. CASE /\ r = q /\ Queue'[r][k].uri = u
             /\ \A o \in Range(Queue'[r][k].owners) :
                  o = i \/ \E m \in DOMAIN Queue[r] : o \in Range(Queue[r][m].owners) /\ Queue[r][m].uri = u
    BY <1>1, <1>3
  <1> QED BY <1>2, <1>3 DEF Takes

\* QueueName names a local queue for local URIs only.
LEMMA LocalNames ==
  ASSUME NEW T, Separate(T), NEW u \in Uris, NEW q \in QueueName(u)
  PROVE  LocalOnly(q) => u \in StoreUris
  <1> SUFFICES ASSUME u \notin StoreUris PROVE q \notin Range(StoreQueue)
    BY DEF LocalOnly
  <1>1. q = HostQueue[u] \/ q = GenericQueue
    BY DEF QueueName
  <1>2. u \in DOMAIN HostQueue
    BY ConstantsAssumption
  <1> QED BY <1>1, <1>2 DEF Separate

\* the step fails i: only items of its transaction go with it
Drops(i, alternatives) ==
  /\ \A q \in Names : \A m \in DOMAIN Queue'[q] :
       \E k \in DOMAIN Queue[q] : Queue'[q][m] = Queue[q][k] /\ Primary(Queue[q][k]) # i
  /\ Status'[i] # "New" /\ \A j \in Items \ {i} : Status'[j] = "New" <=> Status[j] = "New"
  /\ \A j \in Items \ {i} : Status'[j] \in Active /\ ~Doomed(j)' =>
       /\ Status[j] \in Active /\ ~Doomed(j)
       /\ \A q \in Names : \A k \in DOMAIN Queue[q] :
            j \in Range(Queue[q][k].owners) /\ Primary(Queue[q][k]) # i => OwnedIn(Queue', j)
  /\ \A j \in Items : AlternativeURIs'[j] \in {alternatives[j], <<>>}

\* Failed, with the abort of the transaction it may cause.
LEMMA FailedDrops ==
  ASSUME NEW T, Sound(Queue, Status), aborted \in BOOLEAN, Wanted(Queue, DescURI), Sides(T), NEW i \in Items, NEW st, st # "New",
         NEW parked \in BOOLEAN, NEW alternatives, Failed(i, st, parked, alternatives)
  PROVE  /\ Drops(i, alternatives)
         /\ Status'[i] \in Active /\ ~Doomed(i)' => parked
  <1> DEFINE others  == IF i \in Txn /\ ~aborted THEN AbortDequeues(i) ELSE {}
             I       == {i} \cup others
             settled == CASE parked -> IF i \in Txn /\ ~aborted THEN "Done" ELSE "Idle"
                          [] ~parked /\ st \in {"Idle", "Fetching", "Done"} -> "Error"
                          [] OTHER -> st
  <1>1. /\ Queue' = Without(Queue, I)
        /\ Status' = [j \in Items |-> CASE j = i -> settled
                                        [] j \in others /\ Status[j] = "Idle" -> "Done"
                                        [] OTHER -> Status[j]]
        /\ AlternativeURIs' = [j \in Items |-> IF j \in I THEN <<>> ELSE alternatives[j]]
        /\ aborted' = (aborted \/ i \in Txn)
    BY DEF Failed
  <1>2. settled # "New" /\ (settled \in Active => parked)
    BY DEF Active
  <1>3. others \subseteq Txn /\ (others # {} => i \in Txn)
    BY DEF AbortDequeues
  <1> HIDE DEF settled, others
  <1>4. /\ Status'[i] = settled
        /\ \A j \in Items \ {i} : Status'[j] = Status[j] \/ (Status[j] = "Idle" /\ Status'[j] = "Done")
    <2> DEFINE new(j) == CASE j = i -> settled
                           [] j \in others /\ Status[j] = "Idle" -> "Done"
                           [] OTHER -> Status[j]
    <2>1. i \notin others
      BY DEF others, AbortDequeues
    <2>2. new(i) = settled
      BY <2>1
    <2>3. ASSUME NEW j \in Items \ {i} PROVE new(j) = Status[j] \/ (Status[j] = "Idle" /\ new(j) = "Done")
      BY <2>3
    <2> QED BY <1>1, <2>2, <2>3
  <1>5. \A j \in Items : AlternativeURIs'[j] \in {alternatives[j], <<>>}
    BY <1>1
  <1>6. I = {i} \cup others
    OBVIOUS
  <1> HIDE DEF I
  <1>7. Leaves(Queue, I, Queue')
    BY <1>1, Deleting
  <1>8. \A q \in Names : \A m \in DOMAIN Queue'[q] :
          \E k \in DOMAIN Queue[q] : Queue'[q][m] = Queue[q][k] /\ Primary(Queue[q][k]) # i
    BY <1>6, <1>7 DEF Leaves
  <1>9. ASSUME NEW j \in Items \ {i}, Status'[j] \in Active, ~Doomed(j)'
        PROVE  /\ Status[j] \in Active /\ ~Doomed(j)
               /\ \A q \in Names : \A k \in DOMAIN Queue[q] :
                    j \in Range(Queue[q][k].owners) /\ Primary(Queue[q][k]) # i => OwnedIn(Queue', j)
    <2>1. Status[j] \in Active
      BY <1>4, <1>9 DEF Active
    <2>2. ~Doomed(j) /\ (i \in Txn => j \notin Txn)
      BY <1>1, <1>9 DEF Doomed
    <2>3. ASSUME NEW q \in Names, NEW k \in DOMAIN Queue[q], j \in Range(Queue[q][k].owners), Primary(Queue[q][k]) # i
          PROVE  OwnedIn(Queue', j)
      <3> DEFINE p == Primary(Queue[q][k])
      <3>1. p \in Items /\ p \in Range(Queue[q][k].owners)
        <4>1. 1 \in DOMAIN Queue[q][k].owners /\ Primary(Queue[q][k]) = Queue[q][k].owners[1] /\ Queue[q][k].owners[1] \in Items
          BY SoundItems
        <4> QED BY <4>1 DEF Range
      <3>2. DescURI[p] = DescURI[j]
        BY <2>3, <3>1 DEF Wanted
      <3>3. p \in Txn <=> j \in Txn
        BY <3>1, <3>2 DEF Sides
      <3>4. p \notin I
        BY <1>3, <1>6, <2>2, <2>3, <3>3
      <3>5. PICK m \in DOMAIN Queue'[q] : Queue'[q][m] = Queue[q][k]
        BY <1>7, <3>4 DEF Leaves
      <3> QED BY <2>3, <3>5 DEF OwnedIn
    <2> QED BY <2>1, <2>2, <2>3
  <1>10. Status'[i] # "New" /\ \A j \in Items \ {i} : Status'[j] = "New" <=> Status[j] = "New"
    BY <1>2, <1>4
  <1> QED BY <1>2, <1>4, <1>5, <1>8, <1>9, <1>10 DEF Drops

\* What the handling of an item i that was in no queue does; alts are its alternatives
Handled(i, alts) ==
  /\ Wanted(Queue', DescURI')
  /\ Status'[i] # "New" /\ \A j \in Items \ {i} : Status'[j] = "New" <=> Status[j] = "New"
  /\ \A j \in Items \ {i} : Status'[j] \in Active /\ ~Doomed(j)' =>
       OwnedIn(Queue', j) \/ (Status[j] \in Active /\ ~Doomed(j) /\ ~OwnedIn(Queue, j))
  /\ Status'[i] \in Active /\ ~Doomed(i)' => OwnedIn(Queue', i) \/ DescURI'[i] \in StoreUris
  /\ \A j \in Items \ {i} : AlternativeURIs'[j] \in {AlternativeURIs[j], <<>>}
  /\ AlternativeURIs'[i] \in {alts, <<>>}

\* It fails.
LEMMA FailedHandles ==
  ASSUME NEW T, Sound(Queue, Status), aborted \in BOOLEAN, Wanted(Queue, DescURI), Sides(T),
         NEW i \in Items, ~OwnedIn(Queue, i), NEW st, st # "New", NEW parked \in BOOLEAN, parked => DescURI'[i] \in StoreUris,
         \A j \in Items \ {i} : DescURI'[j] = DescURI[j],
         NEW alternatives, \A j \in Items \ {i} : alternatives[j] = AlternativeURIs[j],
         Failed(i, st, parked, alternatives)
  PROVE  Handled(i, alternatives[i])
  <1>1. Drops(i, alternatives) /\ (Status'[i] \in Active /\ ~Doomed(i)' => parked)
    BY FailedDrops
  <1>2. Wanted(Queue', DescURI')
    <2> SUFFICES ASSUME NEW q \in Names, NEW m \in DOMAIN Queue'[q]
                 PROVE  /\ \A o \in Range(Queue'[q][m].owners) : DescURI'[o] = Queue'[q][m].uri
                        /\ LocalOnly(q) => Queue'[q][m].uri \in StoreUris
      BY DEF Wanted
    <2>1. PICK k \in DOMAIN Queue[q] : Queue'[q][m] = Queue[q][k]
      BY <1>1 DEF Drops
    <2>2. ASSUME NEW o \in Range(Queue[q][k].owners) PROVE o \in Items \ {i}
      <3>1. OwnedIn(Queue, o)
        BY InQueue
      <3>2. o \in Items
        BY SoundItems DEF Range
      <3> QED BY <3>1, <3>2
    <2> QED BY <2>1, <2>2 DEF Wanted
  <1>3. ASSUME NEW j \in Items \ {i}, Status'[j] \in Active, ~Doomed(j)'
        PROVE  OwnedIn(Queue', j) \/ (Status[j] \in Active /\ ~Doomed(j) /\ ~OwnedIn(Queue, j))
    <2>1. \A q \in Names : \A k \in DOMAIN Queue[q] : Primary(Queue[q][k]) # i
      BY SoundItems
    <2> QED BY <1>1, <1>3, <2>1 DEF Drops, OwnedIn
  <1> QED BY <1>1, <1>2, <1>3 DEF Drops, Handled

\* It gets another status, and comes into no queue.
LEMMA QuietHandles ==
  ASSUME Sound(Queue, Status), Wanted(Queue, DescURI), NEW i \in Items, ~OwnedIn(Queue, i),
         Queue' = Queue, aborted' = aborted, NEW st, st # "New", Status' = [Status EXCEPT ![i] = st],
         st \notin Active \/ Doomed(i), \A j \in Items \ {i} : DescURI'[j] = DescURI[j],
         \A j \in Items \ {i} : AlternativeURIs'[j] = AlternativeURIs[j]
  PROVE  Handled(i, AlternativeURIs'[i])
  <1>1. Status \in [Items -> Statuses]
    BY DEF Sound
  <1>2. Status'[i] = st /\ \A j \in Items \ {i} : Status'[j] = Status[j]
    BY <1>1
  <1>3. Wanted(Queue', DescURI')
    <2> SUFFICES ASSUME NEW q \in Names, NEW k \in DOMAIN Queue[q]
                 PROVE  /\ \A o \in Range(Queue[q][k].owners) : DescURI'[o] = Queue[q][k].uri
                        /\ LocalOnly(q) => Queue[q][k].uri \in StoreUris
      BY DEF Wanted
    <2>2. ASSUME NEW o \in Range(Queue[q][k].owners) PROVE o \in Items \ {i}
      <3>1. OwnedIn(Queue, o)
        BY InQueue
      <3>2. o \in Items
        BY SoundItems DEF Range
      <3> QED BY <3>1, <3>2
    <2> QED BY <2>2 DEF Wanted
  <1>4. \A j : Doomed(j)' <=> Doomed(j)
    BY DEF Doomed
  <1> QED BY <1>2, <1>3, <1>4 DEF Handled

\* It is enqueued, or cannot be.
LEMMA EnqueueHandles ==
  ASSUME NEW T, Separate(T), Sound(Queue, Status), aborted \in BOOLEAN, Wanted(Queue, DescURI), Sides(T),
         NEW i \in Items, ~OwnedIn(Queue, i), NEW u \in Uris, DescURI'[i] = u,
         \A j \in Items \ {i} : DescURI'[j] = DescURI[j],
         NEW alternatives, \A j \in Items \ {i} : alternatives[j] = AlternativeURIs[j],
         NEW after, NEW past, Enqueue(i, u, after, past, alternatives)
  PROVE  Handled(i, alternatives[i])
  <1> DEFINE running == run \in {"startup", "running"}
             loop    == IsRedirectionLoop(i, u, past)
  <1>1. CASE /\ Status' = [Status EXCEPT ![i] = "Error"]
             /\ AlternativeURIs' = alternatives
             /\ UNCHANGED <<queueVars, aborted, errors>>
    <2>1. Queue' = Queue /\ aborted' = aborted
      BY <1>1 DEF queueVars
    <2>2. "Error" # "New" /\ "Error" \notin Active
      BY DEF Active
    <2>3. \A j \in Items \ {i} : AlternativeURIs'[j] = AlternativeURIs[j]
      BY <1>1
    <2>4. Handled(i, AlternativeURIs'[i])
      BY <1>1, <2>1, <2>2, <2>3, QuietHandles
    <2> QED BY <1>1, <2>4
  <1>2. CASE Failed(i, IF loop THEN "Error" ELSE "AuthError", FALSE, alternatives)
    <2>1. (IF loop THEN "Error" ELSE "AuthError") # "New" /\ FALSE \in BOOLEAN
      OBVIOUS
    <2> HIDE DEF loop
    <2> QED BY <1>2, <2>1, FailedHandles
  <1>3. CASE /\ \E q \in QueueName(u) : Insert(q, worker'[q], i, u, after)
             /\ AlternativeURIs' = alternatives
             /\ UNCHANGED <<aborted, errors>>
    <2>1. PICK q \in QueueName(u) : Insert(q, worker'[q], i, u, after)
      BY <1>3
    <2>2. q \in Names /\ (LocalOnly(q) => u \in StoreUris)
      BY QueueNames, LocalNames
    <2>3. /\ Status'[i] # "New" /\ \A j \in Items \ {i} : Status'[j] = "New" <=> Status[j] = "New"
      BY <2>1, <2>2, Enqueuing
    <2>4. Takes(i, q, u)
      BY <2>1, <2>2, InsertTakes
    <2>5. \A j : OwnedIn(Queue, j) => j \in Items \ {i}
      BY SoundItems DEF OwnedIn, Range
    <2>6. Wanted(Queue', DescURI')
      <3>1. \A j : OwnedIn(Queue, j) => DescURI'[j] = DescURI[j]
        BY <2>5
      <3> QED BY <2>2, <2>4, <3>1, TakesWanted
    <2>7. OwnedIn(Queue', i)
      BY <2>4 DEF Takes
    <2>8. ASSUME NEW j \in Items \ {i}, Status'[j] \in Active, ~Doomed(j)'
          PROVE  OwnedIn(Queue', j) \/ (Status[j] \in Active /\ ~Doomed(j) /\ ~OwnedIn(Queue, j))
      <3>1. ~Doomed(j)
        BY <1>3, <2>8 DEF Doomed
      <3> QED BY <2>4, <2>8, <3>1 DEF Takes
    <2> QED BY <1>3, <2>3, <2>6, <2>7, <2>8 DEF Handled
  <1> QED BY <1>1, <1>2, <1>3 DEF Enqueue

-----------------------------------------------------------------------------
(* Sequences of URIs on one side *)

\* Parts of a sequence are on its side, and so are two together.
LEMMA SideParts ==
  ASSUME NEW T, NEW i, NEW s \in Seq(Uris), OnSide(T, i, s)
  PROVE  /\ s # <<>> => (Head(s) \in T <=> i \in Txn) /\ OnSide(T, i, Tail(s)) /\ Head(s) \in Uris /\ Tail(s) \in Seq(Uris)
         /\ \A t \in Seq(Uris) : OnSide(T, i, t) => OnSide(T, i, s \o t) /\ s \o t \in Seq(Uris)
  <1>1. ASSUME s # <<>>
        PROVE  (Head(s) \in T <=> i \in Txn) /\ OnSide(T, i, Tail(s)) /\ Head(s) \in Uris /\ Tail(s) \in Seq(Uris)
    <2>1. Head(s) = s[1] /\ 1 \in DOMAIN s /\ Head(s) \in Uris /\ Tail(s) \in Seq(Uris)
      BY <1>1
    <2>2. \A n \in DOMAIN Tail(s) : n + 1 \in DOMAIN s /\ Tail(s)[n] = s[n + 1]
      BY <1>1
    <2> QED BY <2>1, <2>2 DEF OnSide
  <1>2. ASSUME NEW t \in Seq(Uris), OnSide(T, i, t) PROVE OnSide(T, i, s \o t) /\ s \o t \in Seq(Uris)
    <2> DEFINE w == s \o t
               b == Len(s)
    <2>1. w \in Seq(Uris) /\ Joins(w, s, b, t) /\ b \in Nat /\ DOMAIN s = 1..b
      <3>1. w = s \o t /\ b = Len(s)
        OBVIOUS
      <3>2. b \in Nat /\ DOMAIN s = 1..b
        OBVIOUS
      <3> HIDE DEF w, b
      <3> QED BY <3>1, <3>2, Joined
    <2> HIDE DEF w, b
    <2>2. ASSUME NEW n \in DOMAIN w PROVE w[n] \in T <=> i \in Txn
      <3>1. CASE n \in 1..b
        BY <2>1, <3>1 DEF Joins, OnSide
      <3>2. CASE n \notin 1..b
        BY <1>2, <2>1, <3>2 DEF Joins, OnSide
      <3> QED BY <3>1, <3>2
    <2>3. OnSide(T, i, w)
      BY <2>2 DEF OnSide
    <2> QED BY <2>1, <2>3 DEF w
  <1> QED BY <1>1, <1>2

\* The same for chosen positions.
LEMMA SideChosen ==
  ASSUME NEW T, NEW i, NEW s \in Seq(Uris), OnSide(T, i, s), NEW K \in SUBSET DOMAIN s, NEW t, t = AtPositions(s, K)
  PROVE  OnSide(T, i, t) /\ t \in Seq(Uris)
  <1>1. /\ t \in Seq(Uris) /\ \A m \in DOMAIN t : Source(K, m) \in K /\ t[m] = s[Source(K, m)]
    BY Filtered
  <1> QED BY <1>1 DEF OnSide

-----------------------------------------------------------------------------
(* The steps that tell an item something *)

\* the calls left when i was told: those that were there, and constructors
LeftCalls(T, i) ==
  /\ \A n \in DOMAIN work' :
       \/ work'[n].op = "new"
       \/ \E m \in DOMAIN work :
            /\ m # 1 /\ work'[n].op = work[m].op /\ work'[n].item = work[m].item /\ work'[n].q = work[m].q
            /\ work'[n].got = work[m].got /\ work'[n].alts = work[m].alts
            /\ work[m].op = "redirect" /\ work'[n].uri # NoURI => (work'[n].uri \in T <=> work[m].item \in Txn)
  /\ Pending \ {i} \subseteq Pending'

\* Such a step loses no item.
LEMMA TellKeeps ==
  ASSUME NEW T, IInv, LossInv(T), IInv', work # <<>>, NEW c, c = Head(work), c.op \in Telling, run' = run,
         NEW i, i = c.item, NEW alts, Handled(i, alts), OnSide(T, i, alts), DescURI'[i] \in T <=> i \in Txn,
         \A j \in Items \ {i} : DescURI'[j] = DescURI[j], LeftCalls(T, i)
  PROVE  LossInv(T)'
  <1>1. /\ run = "running" /\ c = work[1] /\ 1 \in DOMAIN work
        /\ \A n \in DOMAIN work : work[n].op \in Telling /\ work[n].item \in Items
        /\ \A n, m \in DOMAIN work : work[n].item = work[m].item => n = m
    BY TellingCalls
  <1>2. /\ Wanted(Queue, DescURI) /\ Sides(T) /\ Redirections(T) /\ Beginnings /\ LocalCalls /\ NoneLost
    BY DEF LossInv
  <1>3. i \in Items
    BY <1>1
  <1>4. Sides(T)'
    <2> SUFFICES ASSUME NEW j \in Items
                 PROVE  (DescURI'[j] \in T <=> j \in Txn) /\ OnSide(T, j, AlternativeURIs'[j])
      BY DEF Sides, OnSide
    <2>1. OnSide(T, j, <<>>)
      BY DEF OnSide
    <2>2. CASE j = i
      BY <2>1, <2>2 DEF Handled
    <2>3. CASE j # i
      BY <1>2, <2>1, <2>3 DEF Handled, Sides
    <2> QED BY <2>2, <2>3
  <1>5. ASSUME NEW n \in DOMAIN work', work'[n].op = "redirect"
        PROVE  \E m \in DOMAIN work :
                 /\ work[m].op = "redirect" /\ work'[n].item = work[m].item
                 /\ work'[n].got = work[m].got /\ work'[n].alts = work[m].alts
                 /\ work'[n].uri # NoURI => (work'[n].uri \in T <=> work[m].item \in Txn)
    BY <1>5 DEF LeftCalls
  <1>6. Redirections(T)'
    <2> SUFFICES ASSUME NEW n \in DOMAIN work', work'[n].op = "redirect"
                 PROVE  /\ work'[n].got \in T <=> work'[n].item \in Txn
                        /\ work'[n].uri # NoURI => (work'[n].uri \in T <=> work'[n].item \in Txn)
                        /\ OnSide(T, work'[n].item, work'[n].alts)
                        /\ \A m \in DOMAIN work' : work'[m].op = "redirect" => work'[m].got = work'[n].got
      BY DEF Redirections, OnSide
    <2>1. PICK m \in DOMAIN work :
                 /\ work[m].op = "redirect" /\ work'[n].item = work[m].item
                 /\ work'[n].got = work[m].got /\ work'[n].alts = work[m].alts
                 /\ work'[n].uri # NoURI => (work'[n].uri \in T <=> work[m].item \in Txn)
      BY <1>5
    <2>2. /\ work[m].got \in T <=> work[m].item \in Txn
          /\ OnSide(T, work[m].item, work[m].alts)
          /\ \A l \in DOMAIN work : work[l].op = "redirect" => work[l].got = work[m].got
      BY <1>2, <2>1 DEF Redirections
    <2>3. ASSUME NEW l \in DOMAIN work', work'[l].op = "redirect" PROVE work'[l].got = work'[n].got
      BY <1>5, <2>1, <2>2, <2>3
    <2> QED BY <2>1, <2>2, <2>3
  <1>7. Beginnings'
    <2>1. run' \notin {"setup", "startup"}
      BY <1>1
    <2>2. \A j \in Items : Status'[j] = "New" => DescURI'[j] = FirstURI[j]
      BY <1>2 DEF Handled, Beginnings
    <2> QED BY <2>1, <2>2 DEF Beginnings
  <1>8. Whole'
    <2>1. \A n \in DOMAIN work' : work'[n].op \in Telling
      BY <1>1 DEF IInv, CallsOK
    <2> QED BY <2>1 DEF Whole, Telling
  <1>9. LocalCalls'
    <2> SUFFICES ASSUME NEW n \in DOMAIN work', work'[n].op = "fail", LocalOnly(work'[n].q)
                 PROVE  DescURI'[work'[n].item] \in StoreUris
      BY DEF LocalCalls, LocalOnly
    <2>1. PICK m \in DOMAIN work : m # 1 /\ work'[n].op = work[m].op /\ work'[n].item = work[m].item /\ work'[n].q = work[m].q
      BY DEF LeftCalls
    <2>2. work[m].item \in Items \ {i}
      BY <1>1, <2>1
    <2> QED BY <1>2, <2>1, <2>2 DEF LocalCalls
  <1>10. NoneLost'
    <2> SUFFICES ASSUME NEW j \in Items, Status'[j] \in Active, ~Doomed(j)'
                 PROVE  OwnedIn(Queue', j) \/ DescURI'[j] \in StoreUris \/ j \in Pending'
      BY DEF NoneLost, OwnedIn
    <2>1. CASE j = i
      BY <2>1 DEF Handled
    <2>2. CASE j # i /\ ~OwnedIn(Queue', j)
      <3>1. Status[j] \in Active /\ ~Doomed(j) /\ ~OwnedIn(Queue, j)
        BY <2>2 DEF Handled
      <3>2. ~ToBeChecked(j)
        BY <1>1 DEF ToBeChecked, Telling
      <3>3. DescURI[j] \in StoreUris \/ j \in Pending
        BY <1>2, <3>1, <3>2 DEF NoneLost
      <3> QED BY <2>2, <3>3 DEF LeftCalls
    <2> QED BY <2>1, <2>2
  <1>11. Emptied'
    BY <1>1 DEF Emptied
  <1>12. Wanted(Queue', DescURI')
    BY DEF Handled
  <1> QED BY <1>4, <1>6, <1>7, <1>8, <1>9, <1>10, <1>11, <1>12 DEF LossInv, Wanted, LocalOnly

\* Taking a call off the list leaves the others.
LEMMA TailLeaves ==
  ASSUME NEW T, IInv, Redirections(T), work # <<>>, NEW c, c = Head(work), c.op \in Telling, work' = Tail(work),
         NEW i, i = c.item
  PROVE  LeftCalls(T, i)
  <1>1. work \in Seq(Calls) /\ c = work[1]
    BY TellingCalls DEF IInv, Types
  <1>2. \A n \in DOMAIN Tail(work) : n + 1 \in DOMAIN work /\ n + 1 # 1 /\ Tail(work)[n] = work[n + 1]
    BY <1>1
  <1>3. \A m \in DOMAIN work : m # 1 => m - 1 \in DOMAIN Tail(work) /\ Tail(work)[m - 1] = work[m]
    BY <1>1
  <1>4. ASSUME NEW n \in DOMAIN work'
        PROVE  \E m \in DOMAIN work :
            /\ m # 1 /\ work'[n].op = work[m].op /\ work'[n].item = work[m].item /\ work'[n].q = work[m].q
            /\ work'[n].got = work[m].got /\ work'[n].alts = work[m].alts
            /\ work[m].op = "redirect" /\ work'[n].uri # NoURI => (work'[n].uri \in T <=> work[m].item \in Txn)
    <2>1. n + 1 \in DOMAIN work /\ n + 1 # 1 /\ work'[n] = work[n + 1]
      BY <1>2
    <2>2. PICK m \in DOMAIN work : m # 1 /\ work'[n] = work[m]
      BY <2>1
    <2> QED BY <2>2 DEF Redirections
  <1>5. ASSUME NEW j \in Pending \ {i} PROVE j \in Pending'
    <2>1. PICK m \in DOMAIN work : work[m].op \in Telling /\ work[m].item = j
      BY DEF Pending
    <2>2. m # 1
      BY <1>1, <2>1
    <2>3. m - 1 \in DOMAIN work' /\ work'[m - 1] = work[m]
      BY <1>3, <2>2
    <2> QED BY <2>1, <2>3 DEF Pending
  <1> QED BY <1>4, <1>5 DEF LeftCalls

\* The constructor of an item.
LEMMA NewItemKeeps ==
  ASSUME NEW T, Separate(T), IInv, LossInv(T), IInv', work # <<>>, NEW c, c = Head(work), NewItem(c)
  PROVE  LossInv(T)'
  <1> DEFINE i == c.item
  <1>1. c.op = "new" /\ c.op \in Telling
    BY DEF NewItem, Telling
  <1>2. i \in Items /\ ~OwnedIn(Queue, i) /\ Sound(Queue, Status) /\ aborted \in BOOLEAN
    BY <1>1, ToldItem DEF Types
  <1>3. work' = Tail(work) /\ run' = run /\ DescURI' = DescURI
    BY DEF NewItem
  <1>4. Wanted(Queue, DescURI) /\ Sides(T) /\ Redirections(T) /\ Beginnings
    BY DEF LossInv
  <1>5. Status[i] = "New"
    BY <1>1, TellingCalls
  <1>6. /\ FirstURI[i] = DescURI[i] /\ OnSide(T, i, AlternativeURIs[i]) /\ (DescURI'[i] \in T <=> i \in Txn)
        /\ FirstURI[i] \in Uris
    BY <1>2, <1>3, <1>4, <1>5, ConstantsAssumption DEF Sides, Beginnings
  <1>7. Handled(i, AlternativeURIs[i])
    <2>1. CASE Doomed(i) /\ Status' = [Status EXCEPT ![i] = "Idle"] /\ UNCHANGED <<queueVars, aborted, errors, PastRedirections, AlternativeURIs>>
      <3>1. Queue' = Queue /\ aborted' = aborted /\ AlternativeURIs' = AlternativeURIs
        BY <2>1 DEF queueVars
      <3>2. Handled(i, AlternativeURIs'[i])
        BY <1>2, <1>3, <1>4, <2>1, <3>1, QuietHandles
      <3> QED BY <3>1, <3>2
    <2>2. CASE Enqueue(i, FirstURI[i], FetchAfter, PastRedirections, AlternativeURIs)
      <3>1. DescURI'[i] = FirstURI[i]
        BY <1>3, <1>6
      <3> QED BY <1>2, <1>3, <1>4, <1>6, <2>2, <3>1, EnqueueHandles
    <2> QED BY <2>1, <2>2 DEF NewItem
  <1>8. LeftCalls(T, i)
    BY <1>1, <1>3, <1>4, TailLeaves
  <1> HIDE DEF i
  <1>9. i = c.item
    BY DEF i
  <1> QED BY <1>1, <1>3, <1>6, <1>7, <1>8, <1>9, TellKeeps

\* An item that is not enqueued again, as its transaction was aborted.
LEMMA SkipHandles ==
  ASSUME Sound(Queue, Status), Wanted(Queue, DescURI), NEW i \in Items, ~OwnedIn(Queue, i), Status[i] # "New", Doomed(i), Skip,
         \A j \in Items \ {i} : DescURI'[j] = DescURI[j],
         \A j \in Items \ {i} : AlternativeURIs'[j] = AlternativeURIs[j]
  PROVE  Handled(i, AlternativeURIs'[i])
  <1>1. Queue' = Queue /\ aborted' = aborted /\ Status' = Status
    BY DEF Skip, queueVars
  <1>2. Status' = [Status EXCEPT ![i] = Status[i]]
    BY <1>1 DEF Sound
  <1> QED BY <1>1, <1>2, QuietHandles

\* A retry.
LEMMA RetryKeeps ==
  ASSUME NEW T, Separate(T), IInv, LossInv(T), IInv', work # <<>>, NEW c, c = Head(work), RetryOwner(c)
  PROVE  LossInv(T)'
  <1> DEFINE i == c.item
  <1>1. c.op # "new" /\ c.op \in Telling
    BY DEF RetryOwner, Telling
  <1>2. i \in Items /\ ~OwnedIn(Queue, i) /\ Sound(Queue, Status) /\ aborted \in BOOLEAN /\ Status[i] # "New" /\ DescURI[i] \in Uris
    BY <1>1, ToldItem DEF Types
  <1>3. work' = Tail(work) /\ run' = run /\ DescURI' = DescURI
    BY DEF RetryOwner
  <1>4. Wanted(Queue, DescURI) /\ Sides(T) /\ Redirections(T)
    BY DEF LossInv
  <1>5. OnSide(T, i, AlternativeURIs[i]) /\ (DescURI'[i] \in T <=> i \in Txn)
    BY <1>2, <1>3, <1>4 DEF Sides
  <1>6. Handled(i, AlternativeURIs[i])
    <2>1. CASE Doomed(i) /\ Skip /\ UNCHANGED AlternativeURIs
      <3>1. Handled(i, AlternativeURIs'[i])
        BY <1>2, <1>3, <1>4, <2>1, SkipHandles
      <3> QED BY <2>1, <3>1
    <2>2. ASSUME NEW after, Enqueue(i, DescURI[i], after, PastRedirections, AlternativeURIs)
          PROVE  Handled(i, AlternativeURIs[i])
      BY <1>2, <1>3, <1>4, <2>2, EnqueueHandles
    <2> QED BY <2>1, <2>2 DEF RetryOwner
  <1>7. LeftCalls(T, i)
    BY <1>1, <1>3, <1>4, TailLeaves
  <1> HIDE DEF i
  <1>8. i = c.item
    BY DEF i
  <1> QED BY <1>1, <1>3, <1>5, <1>6, <1>7, <1>8, TellKeeps

\* A failure that is not retried.
LEMMA FailKeeps ==
  ASSUME NEW T, Separate(T), IInv, LossInv(T), IInv', work # <<>>, NEW c, c = Head(work), FailOwner(c)
  PROVE  LossInv(T)'
  <1> DEFINE i         == c.item
             transient == c.kind \in {"transient", "toomany"}
             auth      == c.kind \in {"auth", "hash"}
             others    == {n \in DOMAIN AlternativeURIs[i] : Site(AlternativeURIs[i][n]) # Site(DescURI[i])}
             alts      == IF auth THEN AtPositions(AlternativeURIs[i], others) ELSE AlternativeURIs[i]
             st        == CASE auth /\ i \in Hashed -> "AuthError"
                            [] ~(auth /\ i \in Hashed) /\ transient -> "TransientNetworkError"
                            [] OTHER -> Status[i]
             Left(s)   == [AlternativeURIs EXCEPT ![i] = s]
  <1>1. c.op = "fail" /\ c.op \in Telling /\ c.op # "new"
    BY DEF FailOwner, Telling
  <1>2. /\ i \in Items /\ ~OwnedIn(Queue, i) /\ Sound(Queue, Status) /\ aborted \in BOOLEAN
        /\ Status[i] \in Statuses \ {"New"} /\ AlternativeURIs[i] \in Seq(Uris)
        /\ AlternativeURIs \in [Items -> Seq(Uris)] /\ DescURI \in [Items -> Uris]
    BY <1>1, ToldItem DEF Types
  <1>3. work' = Tail(work) /\ run' = run
    BY DEF FailOwner
  <1>4. Wanted(Queue, DescURI) /\ Sides(T) /\ Redirections(T) /\ LocalCalls
    BY DEF LossInv
  <1>5. alts \in Seq(Uris) /\ OnSide(T, i, alts)
    <2>1. others \in SUBSET DOMAIN AlternativeURIs[i] /\ OnSide(T, i, AlternativeURIs[i])
      BY <1>2, <1>4 DEF Sides
    <2> HIDE DEF others, i
    <2> QED BY <1>2, <2>1, SideChosen
  <1>6. st # "New" /\ (st \in Active => st = Status[i])
    BY <1>2 DEF Active
  <1>7. LocalOnly(c.q) => DescURI[i] \in StoreUris
    <2>1. 1 \in DOMAIN work /\ c = work[1]
      BY <1>1, TellingCalls
    <2> QED BY <1>1, <1>4, <2>1 DEF LocalCalls
  <1>8. \/ /\ alts # <<>> /\ DescURI' = [DescURI EXCEPT ![i] = Head(alts)]
           /\ \/ Doomed(i) /\ Skip /\ AlternativeURIs' = Left(Tail(alts))
              \/ ~Doomed(i) /\ Enqueue(i, Head(alts), FetchAfter, PastRedirections, Left(Tail(alts)))
        \/ /\ DescURI' = DescURI
           /\ \/ /\ Doomed(i) /\ Status' = [Status EXCEPT ![i] = st]
                 /\ AlternativeURIs' = Left(alts) /\ UNCHANGED <<queueVars, aborted, errors>>
              \/ ~Doomed(i) /\ Failed(i, st, LocalOnly(c.q) /\ transient, Left(alts))
    BY DEF FailOwner
  <1>9. (LocalOnly(c.q) /\ transient) \in BOOLEAN
    BY DEF LocalOnly
  <1>10. LeftCalls(T, i)
    BY <1>1, <1>3, <1>4, TailLeaves
  <1> HIDE DEF i, alts, st, transient
  <1>11. alts # <<>> => /\ Head(alts) \in Uris /\ Tail(alts) \in Seq(Uris)
                        /\ (Head(alts) \in T <=> i \in Txn) /\ OnSide(T, i, Tail(alts))
    BY <1>5, SideParts
  <1>12. \A s : Left(s)[i] = s /\ \A j \in Items \ {i} : Left(s)[j] = AlternativeURIs[j]
    BY <1>2
  <1> HIDE DEF Left
  <1>13. \A j \in Items \ {i} : DescURI'[j] = DescURI[j]
    BY <1>2, <1>8
  <1>14. ASSUME alts # <<>>, DescURI' = [DescURI EXCEPT ![i] = Head(alts)],
                \/ Doomed(i) /\ Skip /\ AlternativeURIs' = Left(Tail(alts))
                \/ ~Doomed(i) /\ Enqueue(i, Head(alts), FetchAfter, PastRedirections, Left(Tail(alts)))
         PROVE  Handled(i, Tail(alts)) /\ DescURI'[i] = Head(alts)
    <2> DEFINE rest == Tail(alts)
    <2>1. DescURI'[i] = Head(alts)
      BY <1>2, <1>14
    <2>2. ASSUME Doomed(i), Skip, AlternativeURIs' = Left(rest) PROVE Handled(i, rest)
      <3>1. \A j \in Items \ {i} : AlternativeURIs'[j] = AlternativeURIs[j]
        BY <1>12, <2>2
      <3>2. Status[i] # "New"
        BY <1>2
      <3>3. Handled(i, AlternativeURIs'[i])
        BY <1>2, <1>4, <1>13, <2>2, <3>1, <3>2, SkipHandles
      <3> QED BY <1>12, <2>2, <3>3
    <2>3. ASSUME Enqueue(i, Head(alts), FetchAfter, PastRedirections, Left(rest)) PROVE Handled(i, rest)
      <3>1. \A j \in Items \ {i} : Left(rest)[j] = AlternativeURIs[j]
        BY <1>12
      <3>2. Handled(i, Left(rest)[i])
        BY <1>2, <1>4, <1>11, <1>13, <1>14, <2>1, <2>3, <3>1, EnqueueHandles
      <3> QED BY <1>12, <3>2
    <2> QED BY <1>14, <2>1, <2>2, <2>3
  <1>15. ASSUME DescURI' = DescURI,
                \/ /\ Doomed(i) /\ Status' = [Status EXCEPT ![i] = st]
                   /\ AlternativeURIs' = Left(alts) /\ UNCHANGED <<queueVars, aborted, errors>>
                \/ ~Doomed(i) /\ Failed(i, st, LocalOnly(c.q) /\ transient, Left(alts))
         PROVE  Handled(i, alts)
    <2>1. ASSUME Doomed(i), Status' = [Status EXCEPT ![i] = st], AlternativeURIs' = Left(alts),
                 UNCHANGED <<queueVars, aborted, errors>>
          PROVE  Handled(i, alts)
      <3>1. Queue' = Queue /\ aborted' = aborted
        BY <2>1 DEF queueVars
      <3>2. \A j \in Items \ {i} : AlternativeURIs'[j] = AlternativeURIs[j]
        BY <1>12, <2>1
      <3>3. Handled(i, AlternativeURIs'[i])
        BY <1>2, <1>4, <1>6, <1>13, <2>1, <3>1, <3>2, QuietHandles
      <3> QED BY <1>12, <2>1, <3>3
    <2>2. ASSUME NEW parked \in BOOLEAN, parked => LocalOnly(c.q), Failed(i, st, parked, Left(alts))
          PROVE  Handled(i, alts)
      <3>1. \A j \in Items \ {i} : Left(alts)[j] = AlternativeURIs[j]
        BY <1>12
      <3>2. parked => DescURI'[i] \in StoreUris
        BY <1>7, <1>15, <2>2
      <3>3. Handled(i, Left(alts)[i])
        BY <1>2, <1>4, <1>6, <1>13, <2>2, <3>1, <3>2, FailedHandles
      <3> QED BY <1>12, <3>3
    <2> QED BY <1>9, <1>15, <2>1, <2>2
  <1>16. i = c.item
    BY DEF i
  <1>17. DescURI[i] \in T <=> i \in Txn
    BY <1>2, <1>4 DEF Sides
  <1>18. CASE alts # <<>> /\ Handled(i, Tail(alts)) /\ DescURI'[i] = Head(alts)
    <2>1. OnSide(T, i, Tail(alts)) /\ (DescURI'[i] \in T <=> i \in Txn)
      BY <1>11, <1>18
    <2> QED BY <1>1, <1>3, <1>10, <1>13, <1>16, <1>18, <2>1, TellKeeps
  <1>19. CASE DescURI' = DescURI /\ Handled(i, alts)
    <2>1. DescURI'[i] \in T <=> i \in Txn
      BY <1>17, <1>19
    <2> QED BY <1>1, <1>3, <1>5, <1>10, <1>13, <1>16, <1>19, <2>1, TellKeeps
  <1> QED BY <1>8, <1>14, <1>15, <1>18, <1>19

\* The calls left when an item is done that constructs others.
LEMMA BornLeaves ==
  ASSUME NEW T, IInv, Redirections(T), work # <<>>, NEW c, c = Head(work), c.op = "done", NEW i, i = c.item,
         work' = [n \in DOMAIN Spawns[i] |-> Call("new", Spawns[i][n], c.q)] \o Tail(work)
  PROVE  LeftCalls(T, i)
  <1> DEFINE born == [n \in DOMAIN Spawns[i] |-> Call("new", Spawns[i][n], c.q)]
             b    == Len(Spawns[i])
             rest == Tail(work)
  <1>1. c.op \in Telling
    BY DEF Telling
  <1>2. c \in Calls /\ i \in Items /\ work \in Seq(Calls) /\ c = work[1]
    BY <1>1, ToldItem, TellingCalls DEF Types
  <1>3. /\ Spawns[i] \in Seq(Items) /\ DOMAIN Spawns[i] = 1..b /\ b \in Nat /\ \A n \in 1..b : Spawns[i][n] \in Items
    BY <1>2, Construction
  <1>4. born \in Seq(Calls) /\ b = Len(born) /\ \A n \in 1..b : born[n].op = "new"
    <2>1. \A x \in Items : Call("new", x, c.q) \in Calls /\ Call("new", x, c.q).op = "new"
      <3>1. c.q \in Names /\ <<>> \in Seq(Items) /\ <<>> \in Seq(Uris) /\ "none" \in Kinds /\ "new" \in Telling
        BY <1>2 DEF Calls, Kinds, Telling
      <3> QED BY <3>1 DEF Call, Calls
    <2>2. born \in [1..b -> Calls]
      BY <1>3, <2>1
    <2>3. born \in Seq(Calls) /\ Len(born) = b
      BY <1>3, <2>2, FunctionIsSeq
    <2> QED BY <1>3, <2>1, <2>3
  <1>5. rest \in Seq(Calls) /\ \A n \in DOMAIN rest : n + 1 \in DOMAIN work /\ n + 1 # 1 /\ rest[n] = work[n + 1]
    BY <1>2
  <1>6. \A m \in DOMAIN work : m # 1 => m - 1 \in DOMAIN rest /\ m - 1 \in 1..Len(rest) /\ rest[m - 1] = work[m]
    BY <1>2
  <1>7. work' = born \o rest
    OBVIOUS
  <1> HIDE DEF born, rest, b
  <1>8. work' \in Seq(Calls) /\ Joins(work', born, b, rest)
    BY <1>4, <1>5, <1>7, Joined
  <1>9. ASSUME NEW n \in DOMAIN work', work'[n].op # "new"
        PROVE  \E m \in DOMAIN work : m # 1 /\ work'[n] = work[m]
    <2>1. n \notin 1..b
      BY <1>4, <1>8, <1>9 DEF Joins
    <2>2. n - b \in DOMAIN rest /\ work'[n] = rest[n - b]
      BY <1>8, <2>1 DEF Joins
    <2>3. n - b + 1 \in DOMAIN work /\ n - b + 1 # 1 /\ rest[n - b] = work[n - b + 1]
      BY <1>5, <2>2
    <2> QED BY <2>2, <2>3
  <1>10. ASSUME NEW n \in DOMAIN work', work'[n].op # "new"
        PROVE  \E m \in DOMAIN work :
            /\ m # 1 /\ work'[n].op = work[m].op /\ work'[n].item = work[m].item /\ work'[n].q = work[m].q
            /\ work'[n].got = work[m].got /\ work'[n].alts = work[m].alts
            /\ work[m].op = "redirect" /\ work'[n].uri # NoURI => (work'[n].uri \in T <=> work[m].item \in Txn)
    <2>1. PICK m \in DOMAIN work : m # 1 /\ work'[n] = work[m]
      BY <1>9, <1>10
    <2> QED BY <2>1 DEF Redirections
  <1>11. ASSUME NEW j \in Pending \ {i} PROVE j \in Pending'
    <2>1. PICK m \in DOMAIN work : work[m].op \in Telling /\ work[m].item = j
      BY DEF Pending
    <2>2. m # 1
      BY <1>2, <2>1
    <2>3. m - 1 \in DOMAIN rest /\ m - 1 \in 1..Len(rest) /\ rest[m - 1] = work[m]
      BY <1>6, <2>2
    <2> DEFINE x == m - 1
               y == b + x
    <2> HIDE DEF x
    <2>4. x \in 1..Len(rest) /\ rest[x] = work[m] /\ Len(rest) \in Nat
      BY <1>5, <2>3 DEF x
    <2>5. y \in 1..(b + Len(rest)) /\ y \notin 1..b /\ y - b = x
      BY <1>3, <2>4
    <2> HIDE DEF y
    <2>6. y \in DOMAIN work' /\ work'[y] = rest[x]
      BY <1>8, <2>5 DEF Joins
    <2> QED BY <2>1, <2>4, <2>6 DEF Pending
  <1> QED BY <1>10, <1>11 DEF LeftCalls

\* An item was fetched.
LEMMA DoneKeeps ==
  ASSUME NEW T, Separate(T), IInv, LossInv(T), IInv', work # <<>>, NEW c, c = Head(work), DoneOwner(c)
  PROVE  LossInv(T)'
  <1> DEFINE i    == c.item
             next == stage[i] + 1
             done == [AlternativeURIs EXCEPT ![i] = <<>>]
  <1>1. c.op = "done" /\ c.op \in Telling /\ c.op # "new"
    BY DEF DoneOwner, Telling
  <1>2. /\ i \in Items /\ ~OwnedIn(Queue, i) /\ Sound(Queue, Status) /\ aborted \in BOOLEAN /\ Status[i] # "New"
        /\ AlternativeURIs \in [Items -> Seq(Uris)] /\ DescURI \in [Items -> Uris] /\ stage \in [Items -> Nat]
    BY <1>1, ToldItem DEF Types
  <1>3. run' = run
    BY DEF DoneOwner
  <1>4. Wanted(Queue, DescURI) /\ Sides(T) /\ Redirections(T)
    BY DEF LossInv
  <1>5. OnSide(T, i, AlternativeURIs[i]) /\ OnSide(T, i, <<>>) /\ (DescURI[i] \in T <=> i \in Txn)
    BY <1>2, <1>4 DEF Sides, OnSide
  <1>6. done[i] = <<>> /\ \A j \in Items \ {i} : done[j] = AlternativeURIs[j]
    BY <1>2
  <1>7. CASE Doomed(i) /\ Skip /\ UNCHANGED <<DescURI, stage, AlternativeURIs>> /\ work' = Tail(work)
    <2>1. Handled(i, AlternativeURIs'[i])
      BY <1>2, <1>4, <1>7, SkipHandles
    <2>2. LeftCalls(T, i)
      BY <1>1, <1>4, <1>7, TailLeaves
    <2>3. OnSide(T, i, AlternativeURIs'[i]) /\ (DescURI'[i] \in T <=> i \in Txn)
      BY <1>5, <1>7
    <2>4. \A j \in Items \ {i} : DescURI'[j] = DescURI[j]
      BY <1>7
    <2>5. i = c.item
      OBVIOUS
    <2> HIDE DEF i
    <2> QED BY <1>1, <1>3, <2>1, <2>2, <2>3, <2>4, <2>5, TellKeeps
  <1>8. CASE /\ ~Doomed(i) /\ next <= Len(Stages[i])
             /\ DescURI' = [DescURI EXCEPT ![i] = Stages[i][next]]
             /\ Enqueue(i, Stages[i][next], FetchAfter, PastRedirections, done)
             /\ work' = Tail(work)
    <2> DEFINE u == Stages[i][next]
    <2>1. u \in Uris /\ (u \in T <=> i \in Txn)
      <3>1. Stages[i] \in Seq(Uris) /\ stage[i] \in Nat
        BY <1>2, ConstantsAssumption
      <3>2. next \in DOMAIN Stages[i]
        BY <1>8, <3>1
      <3>3. u \in Uris
        BY <3>1, <3>2
      <3> HIDE DEF next
      <3> QED BY <1>2, <3>2, <3>3 DEF Separate
    <2> HIDE DEF next
    <2>2. Enqueue(i, u, FetchAfter, PastRedirections, done)
      BY <1>8
    <2>3. DescURI'[i] = u /\ \A j \in Items \ {i} : DescURI'[j] = DescURI[j]
      BY <1>2, <1>8
    <2> HIDE DEF u
    <2>4. Handled(i, done[i])
      <3> HIDE DEF done
      <3> QED BY <1>2, <1>4, <1>6, <2>1, <2>2, <2>3, EnqueueHandles
    <2>5. LeftCalls(T, i)
      BY <1>1, <1>4, <1>8, TailLeaves
    <2>6. i = c.item /\ OnSide(T, i, done[i]) /\ (DescURI'[i] \in T <=> i \in Txn)
      BY <1>5, <1>6, <2>1, <2>3
    <2> HIDE DEF i, done
    <2> QED BY <1>1, <1>3, <2>3, <2>4, <2>5, <2>6, TellKeeps
  <1>9. CASE /\ Status' = [Status EXCEPT ![i] = "Done"]
             /\ AlternativeURIs' = done
             /\ work' = [n \in DOMAIN Spawns[i] |-> Call("new", Spawns[i][n], c.q)] \o Tail(work)
             /\ UNCHANGED <<queueVars, aborted, errors, DescURI, stage, PastRedirections>>
    <2>1. Queue' = Queue /\ aborted' = aborted /\ DescURI' = DescURI /\ "Done" # "New" /\ "Done" \notin Active
      BY <1>9 DEF queueVars, Active
    <2>2. \A j \in Items \ {i} : AlternativeURIs'[j] = AlternativeURIs[j] /\ DescURI'[j] = DescURI[j]
      BY <1>6, <1>9, <2>1
    <2>3. Handled(i, AlternativeURIs'[i])
      BY <1>2, <1>4, <1>9, <2>1, <2>2, QuietHandles
    <2>4. LeftCalls(T, i)
      BY <1>1, <1>4, <1>9, BornLeaves
    <2>5. i = c.item /\ OnSide(T, i, AlternativeURIs'[i]) /\ (DescURI'[i] \in T <=> i \in Txn)
      BY <1>5, <1>6, <1>9, <2>1
    <2> HIDE DEF i
    <2> QED BY <1>1, <1>3, <2>2, <2>3, <2>4, <2>5, TellKeeps
  <1> QED BY <1>7, <1>8, <1>9 DEF DoneOwner

\* The calls left when an owner was redirected, which may get another URI.
LEMMA RedirectLeaves ==
  ASSUME NEW T, IInv, Redirections(T), work # <<>>, NEW c, c = Head(work), c.op = "redirect", NEW i, i = c.item,
         NEW new, new # NoURI => (new \in T <=> i \in Txn), NEW simple,
         work' = [n \in DOMAIN Tail(work) |-> IF simple THEN Tail(work)[n] ELSE [Tail(work)[n] EXCEPT !.uri = new]]
  PROVE  LeftCalls(T, i)
  <1>1. c.op \in Telling
    BY DEF Telling
  <1>2. work \in Seq(Calls) /\ c = work[1] /\ 1 \in DOMAIN work
    BY <1>1, ToldItem, TellingCalls DEF Types
  <1>3. \A n \in DOMAIN Tail(work) : n + 1 \in DOMAIN work /\ n + 1 # 1 /\ Tail(work)[n] = work[n + 1]
    BY <1>2
  <1>4. \A m \in DOMAIN work : m # 1 => m - 1 \in DOMAIN Tail(work) /\ Tail(work)[m - 1] = work[m]
    BY <1>2
  <1>6. \A m \in DOMAIN work : work[m] \in Calls
    BY <1>2
  <1>7. DOMAIN work' = DOMAIN Tail(work)
    OBVIOUS
  <1>8. ASSUME NEW n \in DOMAIN work', NEW m \in DOMAIN work, Tail(work)[n] = work[m]
        PROVE  /\ work'[n].op = work[m].op /\ work'[n].item = work[m].item /\ work'[n].q = work[m].q
               /\ work'[n].got = work[m].got /\ work'[n].alts = work[m].alts
               /\ work'[n].uri = work[m].uri \/ work'[n].uri = new
    <2>1. CASE simple
      <3>1. work'[n] = work[m]
        BY <1>7, <1>8, <2>1
      <3> QED BY <3>1
    <2>2. CASE ~simple
      <3> DEFINE x == work[m]
                 y == [x EXCEPT !.uri = new]
      <3>1. work'[n] = y
        BY <1>7, <1>8, <2>2
      <3>2. x \in Calls
        BY <1>6
      <3> HIDE DEF x
      <3>3. y.op = x.op /\ y.item = x.item /\ y.q = x.q /\ y.got = x.got /\ y.alts = x.alts /\ y.uri = new
        BY <3>2 DEF Calls
      <3> HIDE DEF y
      <3> QED BY <3>1, <3>3 DEF x
    <2> QED BY <2>1, <2>2
  <1>9. ASSUME NEW n \in DOMAIN work'
        PROVE  \E m \in DOMAIN work :
            /\ m # 1 /\ work'[n].op = work[m].op /\ work'[n].item = work[m].item /\ work'[n].q = work[m].q
            /\ work'[n].got = work[m].got /\ work'[n].alts = work[m].alts
            /\ work[m].op = "redirect" /\ work'[n].uri # NoURI => (work'[n].uri \in T <=> work[m].item \in Txn)
    <2>1. n + 1 \in DOMAIN work /\ n + 1 # 1 /\ Tail(work)[n] = work[n + 1]
      BY <1>3, <1>7
    <2>2. PICK m \in DOMAIN work : m # 1 /\ Tail(work)[n] = work[m]
      BY <2>1
    <2>3. /\ work'[n].op = work[m].op /\ work'[n].item = work[m].item /\ work'[n].q = work[m].q
          /\ work'[n].got = work[m].got /\ work'[n].alts = work[m].alts
          /\ work'[n].uri = work[m].uri \/ work'[n].uri = new
      BY <1>8, <2>2
    <2>4. ASSUME work[m].op = "redirect" PROVE work[m].item \in Txn <=> i \in Txn
      BY <1>2, <2>4 DEF Redirections
    <2>5. ASSUME work[m].op = "redirect", work[m].uri # NoURI PROVE work[m].uri \in T <=> work[m].item \in Txn
      BY <2>5 DEF Redirections
    <2>6. ASSUME work[m].op = "redirect", work'[n].uri # NoURI PROVE work'[n].uri \in T <=> work[m].item \in Txn
      BY <2>3, <2>4, <2>5, <2>6
    <2> QED BY <2>2, <2>3, <2>6
  <1>10. ASSUME NEW j \in Pending \ {i} PROVE j \in Pending'
    <2>1. PICK m \in DOMAIN work : work[m].op \in Telling /\ work[m].item = j
      BY DEF Pending
    <2>2. m # 1
      BY <1>2, <2>1
    <2>3. m - 1 \in DOMAIN work' /\ Tail(work)[m - 1] = work[m]
      BY <1>4, <1>7, <2>2
    <2>4. work'[m - 1].op = work[m].op /\ work'[m - 1].item = work[m].item
      BY <1>8, <2>3
    <2> QED BY <2>1, <2>3, <2>4 DEF Pending
  <1> QED BY <1>9, <1>10 DEF LeftCalls

\* A redirection.
LEMMA RedirectKeeps ==
  ASSUME NEW T, Separate(T), IInv, LossInv(T), IInv', work # <<>>, NEW c, c = Head(work), RedirectOwner(c)
  PROVE  LossInv(T)'
  <1> DEFINE i      == c.item
             usable == {n \in DOMAIN c.alts : IsGoodAlternativeURI(i, c.alts[n])}
             some   == AtPositions(c.alts, usable)
             alt    == AtPositions(c.alts, usable) \o AlternativeURIs[i]
             simple == DescURI[i] = c.got
             good   == IsGoodAlternativeURI(i, c.uri)
             new    == IF good THEN c.uri ELSE IF alt # <<>> THEN Head(alt) ELSE NoURI
             over   == IF simple \/ good \/ alt = <<>> THEN alt ELSE Tail(alt)
             left   == [AlternativeURIs EXCEPT ![i] = IF simple \/ good \/ alt = <<>> THEN alt ELSE Tail(alt)]
             to     == IF simple THEN DescURI[i] ELSE new
             loop   == ~simple /\ (new = NoURI \/ IsRedirectionLoop(i, new, PastRedirections))
             past   == IF simple \/ new = NoURI THEN PastRedirections ELSE Recorded(i, new, PastRedirections)
  <1>1. c.op = "redirect" /\ c.op \in Telling /\ c.op # "new"
    BY DEF RedirectOwner, Telling
  <1>2. /\ i \in Items /\ ~OwnedIn(Queue, i) /\ Sound(Queue, Status) /\ aborted \in BOOLEAN /\ Status[i] # "New"
        /\ DescURI[i] \in Uris /\ AlternativeURIs[i] \in Seq(Uris) /\ c \in Calls
        /\ AlternativeURIs \in [Items -> Seq(Uris)] /\ DescURI \in [Items -> Uris]
    BY <1>1, ToldItem DEF Types
  <1>3. /\ work' = [n \in DOMAIN Tail(work) |-> IF simple THEN Tail(work)[n] ELSE [Tail(work)[n] EXCEPT !.uri = new]]
        /\ DescURI' = IF loop THEN DescURI ELSE [DescURI EXCEPT ![i] = to]
        /\ \/ loop /\ Failed(i, Status[i], FALSE, left)
           \/ ~loop /\ Doomed(i) /\ Skip /\ AlternativeURIs' = left
           \/ ~loop /\ ~Doomed(i) /\ Enqueue(i, to, FetchAfter, past, left)
        /\ run' = run
    BY DEF RedirectOwner
  <1>4. Wanted(Queue, DescURI) /\ Sides(T) /\ Redirections(T)
    BY DEF LossInv
  <1>5. /\ c.uri \in Uris \cup {NoURI} /\ c.alts \in Seq(Uris) /\ OnSide(T, i, c.alts)
        /\ c.uri # NoURI => (c.uri \in T <=> i \in Txn)
    <2>1. 1 \in DOMAIN work /\ c = work[1]
      BY <1>1, TellingCalls
    <2> QED BY <1>1, <1>2, <1>4, <2>1 DEF Calls, Redirections
  <1>6. OnSide(T, i, AlternativeURIs[i]) /\ (DescURI[i] \in T <=> i \in Txn)
    BY <1>2, <1>4 DEF Sides
  <1>7. some \in Seq(Uris) /\ OnSide(T, i, some)
    <2>1. usable \in SUBSET DOMAIN c.alts
      OBVIOUS
    <2> HIDE DEF usable, i
    <2> QED BY <1>5, <2>1, SideChosen
  <1>8. i = c.item
    OBVIOUS
  <1>9. alt = some \o AlternativeURIs[i]
    OBVIOUS
  <1>10. left = [AlternativeURIs EXCEPT ![i] = over]
    OBVIOUS
  <1> HIDE DEF i, usable, some, alt, simple, good, past
  <1>11. alt \in Seq(Uris) /\ OnSide(T, i, alt)
    BY <1>2, <1>6, <1>7, <1>9, SideParts
  <1>12. alt # <<>> => (Head(alt) \in T <=> i \in Txn) /\ OnSide(T, i, Tail(alt)) /\ Head(alt) \in Uris /\ Tail(alt) \in Seq(Uris)
    BY <1>11, SideParts
  <1>13. new \in Uris \cup {NoURI} /\ (new # NoURI => (new \in T <=> i \in Txn))
    BY <1>5, <1>12
  <1>14. OnSide(T, i, over)
    BY <1>11, <1>12
  <1>15. ~loop => to \in Uris /\ (to \in T <=> i \in Txn)
    BY <1>2, <1>6, <1>13
  <1> HIDE DEF new, over, to, loop
  <1>16. left[i] = over /\ \A j \in Items \ {i} : left[j] = AlternativeURIs[j]
    BY <1>2, <1>10
  <1> HIDE DEF left
  <1>17. /\ ~loop => DescURI'[i] = to
         /\ loop => DescURI'[i] = DescURI[i]
         /\ \A j \in Items \ {i} : DescURI'[j] = DescURI[j]
    BY <1>2, <1>3
  <1>18. Handled(i, over)
    <2>1. CASE Failed(i, Status[i], FALSE, left)
      <3>1. FALSE \in BOOLEAN
        OBVIOUS
      <3>2. Handled(i, left[i])
        BY <1>2, <1>4, <1>16, <1>17, <2>1, <3>1, FailedHandles
      <3> QED BY <1>16, <3>2
    <2>2. CASE Doomed(i) /\ Skip /\ AlternativeURIs' = left
      <3>1. \A j \in Items \ {i} : AlternativeURIs'[j] = AlternativeURIs[j]
        BY <1>16, <2>2
      <3>2. Handled(i, AlternativeURIs'[i])
        BY <1>2, <1>4, <1>17, <2>2, <3>1, SkipHandles
      <3> QED BY <1>16, <2>2, <3>2
    <2>3. CASE ~loop /\ Enqueue(i, to, FetchAfter, past, left)
      <3>1. to \in Uris /\ DescURI'[i] = to
        BY <1>15, <1>17, <2>3
      <3>2. Handled(i, left[i])
        BY <1>2, <1>4, <1>16, <1>17, <2>3, <3>1, EnqueueHandles
      <3> QED BY <1>16, <3>2
    <2> QED BY <1>3, <2>1, <2>2, <2>3
  <1>19. LeftCalls(T, i)
    BY <1>1, <1>3, <1>4, <1>8, <1>13, RedirectLeaves
  <1>20. DescURI'[i] \in T <=> i \in Txn
    BY <1>6, <1>15, <1>17
  <1> QED BY <1>1, <1>3, <1>8, <1>14, <1>17, <1>18, <1>19, <1>20, TellKeeps

-----------------------------------------------------------------------------
(* The types of what the first invariant does not look at *)

OtherTypes ==
  /\ Retries \in [Items -> 0..MaxRetries] /\ FetchAfter \in [Items -> Int] /\ now \in Nat
  /\ PastRedirections \in [Items -> Seq(Uris)] /\ result \in {"go", "broken", "cancelled"}

\* The delay of a retry is a number.
LEMMA DelayType ==
  ASSUME OtherTypes, NEW i \in Items, NEW kind, NEW d \in RetryDelays(i, kind)
  PROVE  d \in Int
  <1> DEFINE two == 2^(MaxRetries - Retries[i])
             backoff == Min({two, MaxDelay})
  <1>1. MaxRetries \in Nat /\ MaxDelay \in Nat /\ Retries[i] \in 0..MaxRetries
    BY ConstantsAssumption DEF OtherTypes
  <1>2. two \in Int
    BY <1>1
  <1>3. d \in {backoff} \cup (backoff..MaxDelay)
    BY DEF RetryDelays
  <1> HIDE DEF two
  <1>4. backoff \in Int
    <2>1. {two, MaxDelay} # {} /\ \E x \in {two, MaxDelay} : \A y \in {two, MaxDelay} : x <= y
      BY <1>1, <1>2
    <2>2. backoff \in {two, MaxDelay}
      BY <2>1 DEF Min
    <2> QED BY <1>1, <1>2, <2>2
  <1> HIDE DEF backoff
  <1> QED BY <1>1, <1>3, <1>4

\* What IsRedirectionLoop was asked is remembered as URIs.
LEMMA RecordedType ==
  ASSUME NEW past \in [Items -> Seq(Uris)], NEW i \in Items, NEW u \in Uris
  PROVE  Recorded(i, u, past) \in [Items -> Seq(Uris)]
  <1>1. Append(past[i], u) \in Seq(Uris)
    OBVIOUS
  <1> QED BY <1>1 DEF Recorded

\* Enqueue remembers at most the URI it was given.
LEMMA EnqueueType ==
  ASSUME NEW past \in [Items -> Seq(Uris)], NEW i \in Items, NEW u \in Uris, NEW after, NEW alternatives,
         Enqueue(i, u, after, past, alternatives)
  PROVE  PastRedirections' \in [Items -> Seq(Uris)]
  <1>1. PastRedirections' \in {past, Recorded(i, u, past)}
    BY DEF Enqueue
  <1> QED BY <1>1, RecordedType

\* One call of the handler in progress keeps the types.
LEMMA HandlerTypes ==
  ASSUME IInv, OtherTypes, Handler
  PROVE  OtherTypes'
  <1> DEFINE P == [Items -> Seq(Uris)]
  <1>1. PICK c : c = Head(work)
    OBVIOUS
  <1>2. /\ work # <<>>
        /\ \/ CheckOwner(c) \/ StartWorker(c) \/ RedirectOwner(c) \/ DoneOwner(c)
           \/ NewItem(c) \/ RetryOwner(c) \/ FailOwner(c)
    BY <1>1 DEF Handler
  <1>3. /\ PastRedirections \in P /\ Retries \in [Items -> 0..MaxRetries] /\ FetchAfter \in [Items -> Int] /\ now \in Nat
        /\ MaxRetries \in Nat
    BY ConstantsAssumption DEF OtherTypes
  <1>4. DescURI \in [Items -> Uris] /\ AlternativeURIs \in P /\ stage \in [Items -> Nat]
    BY DEF IInv, Types
  <1>5. now' = now /\ result' = result
    BY <1>2 DEF CheckOwner, StartWorker, RedirectOwner, DoneOwner, NewItem, RetryOwner, FailOwner
  <1>6. ASSUME PastRedirections' \in P, UNCHANGED <<Retries, FetchAfter>> PROVE OtherTypes'
    BY <1>5, <1>6 DEF OtherTypes
  <1> HIDE DEF P
  <1>7. CASE CheckOwner(c)
    <2>1. c.op = "check" /\ c.op \notin Telling /\ UNCHANGED <<Retries, FetchAfter>>
          /\ PastRedirections' = Recorded(Head(c.owners), DescURI[Head(c.owners)], PastRedirections)
      BY <1>7 DEF CheckOwner, Telling
    <2>2. c \in Calls /\ c.owners # <<>>
      BY <1>1, <1>2, <2>1, StartupCalls
    <2>3. c.owners \in Seq(Items)
      BY <2>2 DEF Calls
    <2>4. Head(c.owners) \in Items
      BY <2>2, <2>3
    <2>5. PastRedirections' \in P
      BY <1>3, <1>4, <2>1, <2>4, RecordedType DEF P
    <2> QED BY <1>6, <2>1, <2>5
  <1>8. CASE StartWorker(c)
    <2>1. PastRedirections' = PastRedirections /\ UNCHANGED <<Retries, FetchAfter>>
      BY <1>8 DEF StartWorker, itemVars
    <2> QED BY <1>3, <1>6, <2>1
  <1>9. ASSUME c.op \in Telling
        PROVE  c \in Calls /\ c.item \in Items /\ DescURI[c.item] \in Uris /\ AlternativeURIs[c.item] \in Seq(Uris)
    BY <1>1, <1>2, <1>9, ToldItem
  <1>10. CASE NewItem(c)
    <2>1. c.op \in Telling /\ UNCHANGED <<Retries, FetchAfter>>
      BY <1>10 DEF NewItem, Telling
    <2>2. c.item \in Items /\ FirstURI[c.item] \in Uris
      BY <1>9, <2>1, ConstantsAssumption
    <2>3. \/ PastRedirections' = PastRedirections
          \/ Enqueue(c.item, FirstURI[c.item], FetchAfter, PastRedirections, AlternativeURIs)
      BY <1>10 DEF NewItem
    <2>4. PastRedirections' \in P
      BY <1>3, <2>2, <2>3, EnqueueType DEF P
    <2> QED BY <1>6, <2>1, <2>4
  <1>11. CASE DoneOwner(c)
    <2> DEFINE next == stage[c.item] + 1
    <2>1. c.op \in Telling /\ UNCHANGED <<Retries, FetchAfter>>
      BY <1>11 DEF DoneOwner, Telling
    <2>2. c.item \in Items
      BY <1>9, <2>1
    <2>3. \/ PastRedirections' = PastRedirections
          \/ /\ next <= Len(Stages[c.item])
             /\ Enqueue(c.item, Stages[c.item][next], FetchAfter, PastRedirections, [AlternativeURIs EXCEPT ![c.item] = <<>>])
      BY <1>11 DEF DoneOwner
    <2>4. next <= Len(Stages[c.item]) => Stages[c.item][next] \in Uris
      <3>1. Stages[c.item] \in Seq(Uris) /\ stage[c.item] \in Nat
        BY <1>4, <2>2, ConstantsAssumption
      <3> QED BY <3>1
    <2> HIDE DEF next
    <2>5. PastRedirections' \in P
      BY <1>3, <2>2, <2>3, <2>4, EnqueueType DEF P
    <2> QED BY <1>6, <2>1, <2>5
  <1>12. CASE RetryOwner(c)
    <2> DEFINE i == c.item
    <2>1. c.op \in Telling /\ Retries[i] # 0 /\ Retries' = [Retries EXCEPT ![i] = @ - 1]
      BY <1>12 DEF RetryOwner, Telling
    <2>2. PICK d \in RetryDelays(i, c.kind) :
            /\ FetchAfter' = [FetchAfter EXCEPT ![i] = now + d]
            /\ \/ PastRedirections' = PastRedirections
               \/ Enqueue(i, DescURI[i], [FetchAfter EXCEPT ![i] = now + d], PastRedirections, AlternativeURIs)
      BY <1>12 DEF RetryOwner
    <2>3. i \in Items /\ DescURI[i] \in Uris
      BY <1>9, <2>1
    <2> HIDE DEF i
    <2>4. PastRedirections' \in P
      BY <1>3, <2>2, <2>3, EnqueueType DEF P
    <2>5. d \in Int
      BY <2>2, <2>3, DelayType
    <2>6. FetchAfter' \in [Items -> Int]
      <3>1. now + d \in Int
        BY <1>3, <2>5
      <3> QED BY <1>3, <2>2, <3>1
    <2>7. Retries' \in [Items -> 0..MaxRetries]
      <3>1. Retries[i] - 1 \in 0..MaxRetries
        BY <1>3, <2>1, <2>3
      <3> QED BY <1>3, <2>1, <3>1
    <2> QED BY <1>5, <2>4, <2>6, <2>7 DEF OtherTypes, P
  <1>13. CASE FailOwner(c)
    <2> DEFINE i      == c.item
               auth   == c.kind \in {"auth", "hash"}
               others == {n \in DOMAIN AlternativeURIs[i] : Site(AlternativeURIs[i][n]) # Site(DescURI[i])}
               alts   == IF auth THEN AtPositions(AlternativeURIs[i], others) ELSE AlternativeURIs[i]
    <2>1. c.op \in Telling /\ UNCHANGED <<Retries, FetchAfter>>
      BY <1>13 DEF FailOwner, Telling
    <2>2. i \in Items /\ AlternativeURIs[i] \in Seq(Uris)
      BY <1>9, <2>1
    <2>3. \/ PastRedirections' = PastRedirections
          \/ alts # <<>> /\ Enqueue(i, Head(alts), FetchAfter, PastRedirections, [AlternativeURIs EXCEPT ![i] = Tail(alts)])
      BY <1>13 DEF FailOwner
    <2>4. alts \in Seq(Uris)
      <3>1. others \in SUBSET DOMAIN AlternativeURIs[i]
        OBVIOUS
      <3> HIDE DEF others, i
      <3> QED BY <2>2, <3>1, Filtered
    <2> HIDE DEF i, alts
    <2>5. alts # <<>> => Head(alts) \in Uris
      BY <2>4
    <2>6. PastRedirections' \in P
      BY <1>3, <2>2, <2>3, <2>5, EnqueueType DEF P
    <2> QED BY <1>6, <2>1, <2>6
  <1>14. CASE RedirectOwner(c)
    <2> DEFINE i      == c.item
               usable == {n \in DOMAIN c.alts : IsGoodAlternativeURI(i, c.alts[n])}
               some   == AtPositions(c.alts, usable)
               alt    == AtPositions(c.alts, usable) \o AlternativeURIs[i]
               simple == DescURI[i] = c.got
               good   == IsGoodAlternativeURI(i, c.uri)
               new    == IF good THEN c.uri ELSE IF alt # <<>> THEN Head(alt) ELSE NoURI
               left   == [AlternativeURIs EXCEPT ![i] = IF simple \/ good \/ alt = <<>> THEN alt ELSE Tail(alt)]
               to     == IF simple THEN DescURI[i] ELSE new
               loop   == ~simple /\ (new = NoURI \/ IsRedirectionLoop(i, new, PastRedirections))
               past   == IF simple \/ new = NoURI THEN PastRedirections ELSE Recorded(i, new, PastRedirections)
    <2>1. c.op \in Telling /\ UNCHANGED <<Retries, FetchAfter>>
      BY <1>14 DEF RedirectOwner, Telling
    <2>2. i \in Items /\ AlternativeURIs[i] \in Seq(Uris) /\ DescURI[i] \in Uris /\ c \in Calls
      BY <1>9, <2>1
    <2>3. PastRedirections' = past \/ (~loop /\ Enqueue(i, to, FetchAfter, past, left))
      BY <1>14 DEF RedirectOwner
    <2>4. c.alts \in Seq(Uris) /\ c.uri \in Uris \cup {NoURI}
      BY <2>2 DEF Calls
    <2>5. some \in Seq(Uris)
      <3>1. usable \in SUBSET DOMAIN c.alts
        OBVIOUS
      <3> HIDE DEF usable, i
      <3> QED BY <2>4, <3>1, Filtered
    <2>6. alt = some \o AlternativeURIs[i]
      OBVIOUS
    <2> HIDE DEF some, alt, usable
    <2>7. alt \in Seq(Uris)
      BY <2>2, <2>5, <2>6
    <2> HIDE DEF i, good, simple
    <2>8. alt # <<>> => Head(alt) \in Uris
      BY <2>7
    <2>9. new \in Uris \cup {NoURI}
      BY <2>4, <2>8
    <2>10. ~loop => to \in Uris
      BY <2>2, <2>9
    <2> HIDE DEF new, left, to, loop
    <2>11. past \in P
      BY <1>3, <2>2, <2>9, RecordedType DEF P
    <2> HIDE DEF past
    <2>12. PastRedirections' \in P
      BY <2>2, <2>3, <2>10, <2>11, EnqueueType DEF P
    <2> QED BY <1>6, <2>1, <2>12
  <1> QED BY <1>2, <1>7, <1>8, <1>10, <1>11, <1>12, <1>13, <1>14

\* Every step keeps the types.
LEMMA TypesStep ==
  ASSUME IInv, OtherTypes, [Next]_vars
  PROVE  OtherTypes'
  <1>1. CASE Handler
    BY <1>1, HandlerTypes
  <1>2. ASSUME NEW i \in Items, QueueURI(i) PROVE OtherTypes'
    <2>1. /\ Enqueue(i, FirstURI[i], FetchAfter, PastRedirections, AlternativeURIs)
          /\ UNCHANGED <<Retries, FetchAfter, now, result>>
      BY <1>2 DEF QueueURI
    <2>2. FirstURI[i] \in Uris
      BY ConstantsAssumption
    <2>3. PastRedirections' \in [Items -> Seq(Uris)]
      BY <2>1, <2>2, EnqueueType DEF OtherTypes
    <2> QED BY <2>1, <2>3 DEF OtherTypes
  <1>3. ASSUME UNCHANGED itemVars, now' \in {now, now + 1}, result' \in {result, "broken", "cancelled"} PROVE OtherTypes'
    BY <1>3 DEF OtherTypes, itemVars
  <1>4. CASE Run \/ EnterLoop \/ Tick \/ Cancel \/ Stop
    BY <1>3, <1>4 DEF Run, EnterLoop, Tick, Cancel, Stop
  <1>5. ASSUME NEW q \in Names, Startup(q) \/ Unstick(q) \/ MethodFailure(q) PROVE OtherTypes'
    BY <1>3, <1>5 DEF Startup, Unstick, MethodFailure
  <1>6. ASSUME NEW q \in Names, NEW u \in Uris, URIStart(q, u) \/ Redirect(q, u) \/ URIDone(q, u) \/ URIFailure(q, u)
        PROVE  OtherTypes'
    <2>1. URIStart(q, u) \/ \E from, to, c : Answer(q, u, from, to, c)
      BY <1>6 DEF Redirect, URIDone, URIFailure
    <2> QED BY <1>3, <2>1 DEF URIStart, Answer
  <1>7. CASE UNCHANGED vars
    BY <1>3, <1>7 DEF vars
  <1> QED BY <1>1, <1>2, <1>4, <1>5, <1>6, <1>7 DEF Next, Finished

\* It begins with them.
LEMMA InitTypes ==
  ASSUME Init
  PROVE  OtherTypes
  <1>1. MaxRetries \in 0..MaxRetries /\ <<>> \in Seq(Uris)
    BY ConstantsAssumption
  <1> QED BY <1>1 DEF Init, OtherTypes

-----------------------------------------------------------------------------
(* The steps that tell nobody anything *)

\* When nobody is being told anything.
LEMMA NobodyTold ==
  ASSUME NEW T, IInv', run' # "running" \/ work' = <<>>
  PROVE  Redirections(T)' /\ LocalCalls' /\ Pending' = {}
  <1>1. \A n \in DOMAIN work' : work'[n].op \notin Telling
    <2>1. DOMAIN <<>> = {}
      OBVIOUS
    <2> QED BY <2>1 DEF IInv, CallsOK
  <1> QED BY <1>1 DEF Redirections, LocalCalls, Pending, Telling

\* A step that at most sends QItems, when there is nothing left to check.
LEMMA SendsKeeps ==
  ASSUME NEW T, IInv, LossInv(T), IInv', Sends(Queue, Status), work' = <<>>, \A n \in DOMAIN work : work[n].op = "start",
         UNCHANGED <<DescURI, AlternativeURIs, PastRedirections, aborted>>,
         run' \in {"setup", "startup"} => run \in {"setup", "startup"}, Emptied'
  PROVE  LossInv(T)'
  <1>1. Wanted(Queue, DescURI) /\ Sides(T) /\ Beginnings /\ NoneLost
    BY DEF LossInv
  <1>2. DOMAIN <<>> = {}
    OBVIOUS
  <1>3. Redirections(T)' /\ LocalCalls' /\ Pending' = {} /\ Whole'
    <2>1. DOMAIN work' = {}
      BY <1>2
    <2> QED BY <2>1 DEF Redirections, LocalCalls, Pending, Whole
  <1>4. Wanted(Queue', DescURI')
    BY <1>1 DEF Sends, Wanted
  <1>5. Sides(T)'
    BY <1>1 DEF Sides
  <1>6. \A j \in Items : Status'[j] = Status[j] \/ (OwnedIn(Queue', j) /\ OwnedIn(Queue, j))
    BY DEF Sends
  <1>7. \A j \in Items : (OwnedIn(Queue, j) => Status[j] # "New") /\ (OwnedIn(Queue', j) => Status'[j] # "New")
    BY DEF IInv, Sound, Known, OwnedIn, Range
  <1>8. Beginnings'
    <2>1. \A j \in Items : Status'[j] = "New" <=> Status[j] = "New"
      BY <1>6, <1>7
    <2> QED BY <1>1, <2>1 DEF Beginnings
  <1>9. NoneLost'
    <2> SUFFICES ASSUME NEW j \in Items, Status'[j] \in Active, ~Doomed(j)', ~OwnedIn(Queue', j), DescURI[j] \notin StoreUris
                 PROVE  FALSE
      BY DEF NoneLost
    <2>1. Status[j] = Status'[j] /\ ~Doomed(j) /\ ~OwnedIn(Queue, j)
      BY <1>6 DEF Doomed, Sends
    <2>2. j \in Pending \/ ToBeChecked(j)
      BY <1>1, <2>1 DEF NoneLost
    <2> QED BY <2>2 DEF Pending, ToBeChecked, Telling
  <1> QED BY <1>3, <1>4, <1>5, <1>8, <1>9 DEF LossInv, Wanted, LocalOnly

\* Nothing is sent, and nobody has another status.
LEMMA SendsNothing ==
  ASSUME UNCHANGED <<Queue, Status>>
  PROVE  Sends(Queue, Status)
  BY DEF Sends

\* Startup starts the worker.
LEMMA StartKeeps ==
  ASSUME NEW T, IInv, CountInv, LossInv(T), IInv', work # <<>>, NEW c, c = Head(work), StartWorker(c)
  PROVE  LossInv(T)'
  <1>1. /\ c.op = "start" /\ c.op \notin Telling /\ work' = Tail(work) /\ UNCHANGED <<itemVars, aborted, run, result>>
        /\ Cycle(c.q, "up", Queue, Status, FetchAfter, PipeDepth[c.q], inflight) \/ UNCHANGED <<Queue, Status>>
    BY DEF StartWorker, Telling
  <1>2. run = "startup" /\ c \in Calls /\ work \in Seq(Calls) /\ Sound(Queue, Status)
    BY <1>1, StartupCalls DEF IInv, Types
  <1>3. c = work[1] /\ 1 \in DOMAIN work
    BY <1>2
  <1>4. Len(work) = 1
    BY <1>1, <1>3 DEF CountInv, Checks
  <1>5. work' = <<>> /\ \A n \in DOMAIN work : work[n].op = "start"
    BY <1>1, <1>2, <1>3, <1>4
  <1>6. Sends(Queue, Status)
    <2>1. c.q \in Names
      BY <1>2 DEF Calls
    <2> QED BY <1>1, <1>2, <2>1, CycleSends, SendsNothing
  <1>7. Emptied'
    BY <1>1, <1>2 DEF Emptied
  <1>8. UNCHANGED <<DescURI, AlternativeURIs, PastRedirections, aborted>> /\ run' = run
    BY <1>1 DEF itemVars
  <1> QED BY <1>2, <1>5, <1>6, <1>7, <1>8, SendsKeeps

\* The loop cycles a queue.
LEMMA UnstickKeeps ==
  ASSUME NEW T, IInv, LossInv(T), IInv', NEW q \in Names, Unstick(q)
  PROVE  LossInv(T)'
  <1>1. /\ run = "running" /\ run' = run /\ work = <<>> /\ work' = work /\ UNCHANGED <<DescURI, AlternativeURIs, PastRedirections, aborted>>
        /\ Cycle(q, worker[q], Queue, Status, FetchAfter, PipeDepth[q], inflight)
    BY DEF Unstick, itemVars
  <1>2. Sends(Queue, Status)
    BY <1>1, CycleSends DEF IInv
  <1>3. Emptied' /\ \A n \in DOMAIN work : work[n].op = "start"
    BY <1>1 DEF Emptied
  <1> QED BY <1>1, <1>2, <1>3, SendsKeeps

\* 200 URI Start
LEMMA URIStartKeeps ==
  ASSUME NEW T, IInv, LossInv(T), IInv', NEW q \in Names, NEW u \in Uris, URIStart(q, u)
  PROVE  LossInv(T)'
  <1> DEFINE k == FindItem(q, u)
  <1>1. /\ run = "running" /\ run' = run /\ work = <<>> /\ work' = work
        /\ UNCHANGED <<DescURI, AlternativeURIs, PastRedirections, aborted, Queue>>
    BY DEF URIStart, Listening, queueVars, itemVars
  <1>2. Sends(Queue, Status)
    <2>1. CASE k = 0
      <3>1. Status' = Status
        BY <2>1 DEF URIStart
      <3> QED BY <1>1, <3>1, SendsNothing
    <2>2. CASE k # 0
      <3>1. Status' = [i \in Items |-> IF i \in Range(Queue[q][k].owners) THEN "Fetching" ELSE Status[i]]
        BY <2>2 DEF URIStart
      <3>2. k \in DOMAIN Queue[q]
        BY <2>2, Found DEF IInv
      <3> HIDE DEF k
      <3>3. \A i \in Items : Status'[i] # Status[i] => OwnedIn(Queue', i)
        <4> TAKE i \in Items
        <4> HAVE Status'[i] # Status[i]
        <4>1. i \in Range(Queue[q][k].owners)
          BY <3>1
        <4> QED BY <1>1, <3>2, <4>1, InQueue
      <3> QED BY <1>1, <3>3 DEF Sends
    <2> QED BY <2>1, <2>2
  <1>3. Emptied' /\ \A n \in DOMAIN work : work[n].op = "start"
    BY <1>1 DEF Emptied
  <1> QED BY <1>1, <1>2, <1>3, SendsKeeps

\* Run() ends by itself when nothing is left to fetch.
LEMMA StopKeeps ==
  ASSUME NEW T, IInv, CountInv, LossInv(T), IInv', Stop
  PROVE  LossInv(T)'
  <1>1. /\ run' = "stopped" /\ work = <<>> /\ work' = work /\ UNCHANGED <<DescURI, AlternativeURIs, PastRedirections, aborted>>
        /\ (ToFetch <= 0 \/ result # "go") /\ result' = result /\ Queue' = Queue /\ Status' = Status
    BY DEF Stop, itemVars
  <1>2. Emptied'
    <2> SUFFICES ASSUME ToFetch <= 0 PROVE Heads(Queue) = {}
      BY <1>1 DEF Emptied, Heads, Queued
    <2>1. IsFiniteSet(Heads(Queue)) /\ ToFetch = Cardinality(Heads(Queue))
      BY DEF CountInv, CountsOK, Exact
    <2>2. Cardinality(Heads(Queue)) \in Nat
      BY <2>1, FS_CardinalityType
    <2>3. Cardinality(Heads(Queue)) = 0
      BY <2>1, <2>2
    <2> QED BY <2>1, <2>3, FS_EmptySet
  <1>3. \A n \in DOMAIN work : work[n].op = "start"
    BY <1>1
  <1>4. Sends(Queue, Status)
    BY <1>1, SendsNothing
  <1> QED BY <1>1, <1>2, <1>3, <1>4, SendsKeeps

\* The other steps that leave the items and the queues alone.
LEMMA OtherKeeps ==
  ASSUME NEW T, IInv, LossInv(T), IInv', Run \/ EnterLoop \/ Tick \/ Cancel \/ \E q \in Names : MethodFailure(q)
  PROVE  LossInv(T)'
  <1>1. /\ run' # "stopped" /\ (run' \in {"setup", "startup"} => run \in {"setup", "startup"})
        /\ UNCHANGED <<DescURI, AlternativeURIs, PastRedirections, aborted, Queue, Status, work>>
    BY DEF Run, EnterLoop, Tick, Cancel, MethodFailure, Listening, queueVars, itemVars
  <1>2. work = <<>>
    BY DEF Run, EnterLoop, Tick, Cancel, MethodFailure, Listening, IInv, CallsOK
  <1>3. Emptied' /\ \A n \in DOMAIN work : work[n].op = "start"
    BY <1>1, <1>2 DEF Emptied
  <1>4. Sends(Queue, Status)
    BY <1>1, SendsNothing
  <1> QED BY <1>1, <1>2, <1>3, <1>4, SendsKeeps

\* What Startup's calls are after one owner was checked.
LEMMA CheckedCalls ==
  ASSUME IInv, work # <<>>, NEW c, c = Head(work), CheckOwner(c), NEW i, i = Head(c.owners)
  PROVE  /\ \A n \in DOMAIN work' :
              \/ \E m \in DOMAIN work : work'[n] = work[m]
              \/ work'[n].owners = Tail(c.owners)
         /\ \A j : j # i /\ ToBeChecked(j) => ToBeChecked(j)'
         /\ \A j : j # i /\ j \in Range(c.owners) => ToBeChecked(j)'
         /\ i \in Items /\ Status[i] # "New" /\ run = "startup" /\ run' = run /\ c \in Calls /\ c.owners # <<>>
         /\ 1 \in DOMAIN work /\ c = work[1] /\ c.op = "check"
  <1> DEFINE rest == Tail(c.owners)
             left == [c EXCEPT !.owners = rest]
  <1>1. c.op = "check" /\ c.op \notin Telling /\ run' = run
    BY DEF CheckOwner, Telling
  <1>2. /\ run = "startup" /\ c \in Calls /\ c.owners # <<>> /\ work \in Seq(Calls)
        /\ \A m \in DOMAIN c.owners : Status[c.owners[m]] # "New"
    BY <1>1, StartupCalls DEF IInv, Types
  <1>3. c.owners \in Seq(Items)
    BY <1>2 DEF Calls
  <1>4. i \in Items /\ 1 \in DOMAIN c.owners /\ i = c.owners[1] /\ rest \in Seq(Items)
    BY <1>2, <1>3
  <1>5. \A j : j # i /\ j \in Range(c.owners) => rest # <<>> /\ j \in Range(rest)
    <2> SUFFICES ASSUME NEW m \in DOMAIN c.owners, m # 1 PROVE \E n \in DOMAIN rest : rest[n] = c.owners[m]
      BY <1>4 DEF Range
    <2>1. m - 1 \in DOMAIN rest /\ rest[m - 1] = c.owners[m]
      BY <1>3
    <2> QED BY <2>1
  <1>6. work' = IF rest = <<>> THEN Tail(work) ELSE <<left>> \o Tail(work)
    BY DEF CheckOwner
  <1>7. left \in Calls /\ left.op = "check" /\ left.owners = rest
    BY <1>1, <1>2, <1>4 DEF Calls
  <1> HIDE DEF rest, left
  <1>8. /\ Tail(work) \in Seq(Calls) /\ c = work[1] /\ 1 \in DOMAIN work
        /\ \A n \in DOMAIN Tail(work) : n + 1 \in DOMAIN work /\ Tail(work)[n] = work[n + 1]
        /\ \A m \in DOMAIN work : m # 1 => m - 1 \in DOMAIN Tail(work) /\ Tail(work)[m - 1] = work[m]
    BY <1>2
  <1>9. /\ \A n \in DOMAIN work' :
             \/ \E m \in DOMAIN Tail(work) : work'[n] = Tail(work)[m]
             \/ work'[n] = left
        /\ \A m \in DOMAIN Tail(work) : \E n \in DOMAIN work' : work'[n] = Tail(work)[m]
        /\ rest # <<>> => \E n \in DOMAIN work' : work'[n] = left
    <2>1. CASE rest = <<>>
      BY <1>6, <2>1
    <2>2. CASE rest # <<>>
      <3> DEFINE one == <<left>>
      <3>1. one \in Seq(Calls) /\ 1 = Len(one) /\ one[1] = left
        BY <1>7
      <3>2. work' = one \o Tail(work)
        BY <1>6, <2>2
      <3> HIDE DEF one
      <3>3. work' \in Seq(Calls) /\ Joins(work', one, 1, Tail(work))
        BY <1>8, <3>1, <3>2, Joined
      <3>4. 1 \in DOMAIN work' /\ work'[1] = left
        BY <3>1, <3>3 DEF Joins
      <3>5. ASSUME NEW n \in DOMAIN work'
            PROVE  (\E m \in DOMAIN Tail(work) : work'[n] = Tail(work)[m]) \/ work'[n] = left
        <4>1. CASE n \in 1..1
          BY <3>1, <3>3, <4>1 DEF Joins
        <4>2. CASE n \notin 1..1
          BY <3>3, <4>2 DEF Joins
        <4> QED BY <4>1, <4>2
      <3>6. ASSUME NEW m \in DOMAIN Tail(work) PROVE \E n \in DOMAIN work' : work'[n] = Tail(work)[m]
        <4>1. m \in 1..Len(Tail(work)) /\ Len(Tail(work)) \in Nat
          BY <1>8
        <4> DEFINE n == m + 1
                   t == Len(Tail(work))
        <4>2. n \in 1..(1 + t) /\ n \notin 1..1 /\ n - 1 = m
          BY <4>1
        <4> HIDE DEF n
        <4>3. n \in DOMAIN work' /\ work'[n] = Tail(work)[n - 1]
          BY <3>3, <4>2 DEF Joins
        <4> QED BY <4>2, <4>3
      <3> QED BY <3>4, <3>5, <3>6
    <2> QED BY <2>1, <2>2
  <1>10. \A n \in DOMAIN work' : (\E m \in DOMAIN work : work'[n] = work[m]) \/ work'[n].owners = rest
    BY <1>7, <1>8, <1>9
  <1>11. ASSUME NEW j, j # i, j \in Range(c.owners) PROVE ToBeChecked(j)'
    BY <1>5, <1>7, <1>9, <1>11 DEF ToBeChecked
  <1>12. ASSUME NEW j, j # i, ToBeChecked(j) PROVE ToBeChecked(j)'
    <2>1. PICK m \in DOMAIN work : work[m].op = "check" /\ j \in Range(work[m].owners)
      BY <1>12 DEF ToBeChecked
    <2>2. CASE m = 1
      BY <1>8, <1>11, <1>12, <2>1, <2>2
    <2>3. CASE m # 1
      <3>1. m - 1 \in DOMAIN Tail(work) /\ Tail(work)[m - 1] = work[m]
        BY <1>8, <2>3
      <3>2. PICK n \in DOMAIN work' : work'[n] = work[m]
        BY <1>9, <3>1
      <3> QED BY <2>1, <3>2 DEF ToBeChecked
    <2> QED BY <2>2, <2>3
  <1> QED BY <1>1, <1>2, <1>4, <1>8, <1>10, <1>11, <1>12 DEF rest

\* Startup checks an owner.
LEMMA CheckKeeps ==
  ASSUME NEW T, Separate(T), IInv, OtherTypes, LossInv(T), IInv', work # <<>>, NEW c, c = Head(work), CheckOwner(c)
  PROVE  LossInv(T)'
  <1> DEFINE i    == Head(c.owners)
             rest == Tail(c.owners)
             u    == DescURI[i]
             loop == IsRedirectionLoop(i, u, PastRedirections)
  <1>1. /\ \A n \in DOMAIN work' : (\E m \in DOMAIN work : work'[n] = work[m]) \/ work'[n].owners = rest
        /\ \A j : j # i /\ ToBeChecked(j) => ToBeChecked(j)'
        /\ \A j : j # i /\ j \in Range(c.owners) => ToBeChecked(j)'
        /\ i \in Items /\ Status[i] # "New" /\ run = "startup" /\ run' = run /\ c \in Calls /\ c.owners # <<>>
        /\ 1 \in DOMAIN work /\ c = work[1] /\ c.op = "check"
    BY CheckedCalls
  <1>2. /\ DescURI' = DescURI /\ PastRedirections' = Recorded(i, u, PastRedirections)
        /\ IF loop \/ i \in Weak
           THEN Failed(i, IF loop THEN "Error" ELSE "AuthError", FALSE, AlternativeURIs)
           ELSE UNCHANGED <<queueVars, Status, AlternativeURIs, aborted, errors>>
    BY DEF CheckOwner
  <1>3. /\ Wanted(Queue, DescURI) /\ Sides(T) /\ Beginnings /\ Whole /\ NoneLost
        /\ Sound(Queue, Status) /\ aborted \in BOOLEAN /\ DescURI \in [Items -> Uris] /\ c.owners \in Seq(Items)
        /\ PastRedirections \in [Items -> Seq(Uris)]
    BY <1>1 DEF LossInv, IInv, Types, OtherTypes, Calls
  <1>4. \A j \in Items : /\ DescURI[j] = FirstURI[j] /\ PastRedirections[j] \in {<<>>, <<DescURI[j]>>}
                         /\ Status[j] # "New" => j \in Range(InitialItems)
    BY <1>1, <1>3 DEF Beginnings
  <1> HIDE DEF i, rest
  <1>5. u \in Uris /\ PastRedirections[i] \in {<<>>, <<u>>}
    BY <1>1, <1>3, <1>4
  <1>6. ~loop
    <2>1. Last(<<u>>) = u
      BY DEF Last
    <2> QED BY <1>5, <2>1 DEF IsRedirectionLoop
  <1> HIDE DEF loop
  <1>7. \A j \in Items : PastRedirections'[j] \in {<<>>, <<DescURI[j]>>}
    <2>1. Append(<<>>, u) = <<u>>
      BY <1>5
    <2>2. u \in Range(<<u>>)
      <3>1. 1 \in DOMAIN <<u>> /\ <<u>>[1] = u
        OBVIOUS
      <3> QED BY <3>1 DEF Range
    <2>3. CASE PastRedirections' = PastRedirections
      BY <1>4, <2>3
    <2>4. CASE u \notin Range(PastRedirections[i]) /\ PastRedirections' = [PastRedirections EXCEPT ![i] = Append(@, u)]
      <3>1. PastRedirections[i] = <<>>
        BY <1>5, <2>2, <2>4
      <3>2. PastRedirections'[i] = <<DescURI[i]>> /\ \A j \in Items \ {i} : PastRedirections'[j] = PastRedirections[j]
        BY <1>1, <1>3, <2>1, <2>4, <3>1
      <3> QED BY <1>4, <3>2
    <2> QED BY <1>2, <2>3, <2>4 DEF Recorded
  <1> HIDE DEF u
  <1>8. ASSUME i \in Weak PROVE Drops(i, AlternativeURIs) /\ (Status'[i] \in Active => Doomed(i)')
    <2>1. Failed(i, "AuthError", FALSE, AlternativeURIs) /\ FALSE \in BOOLEAN /\ "AuthError" # "New"
      BY <1>2, <1>6, <1>8
    <2> QED BY <1>1, <1>3, <2>1, FailedDrops
  <1>9. ASSUME i \notin Weak PROVE UNCHANGED <<Queue, Status, AlternativeURIs, aborted>>
    BY <1>2, <1>6, <1>9 DEF queueVars
  <1>10. \A q \in Names : \A m \in DOMAIN Queue'[q] : \E k \in DOMAIN Queue[q] : Queue'[q][m] = Queue[q][k]
    BY <1>8, <1>9 DEF Drops
  <1>11. \A j \in Items : /\ Status'[j] = "New" <=> Status[j] = "New"
                          /\ AlternativeURIs'[j] \in {AlternativeURIs[j], <<>>}
    BY <1>1, <1>8, <1>9 DEF Drops
  <1>12. Wanted(Queue', DescURI')
    <2> SUFFICES ASSUME NEW q \in Names, NEW m \in DOMAIN Queue'[q]
                 PROVE  /\ \A o \in Range(Queue'[q][m].owners) : DescURI[o] = Queue'[q][m].uri
                        /\ LocalOnly(q) => Queue'[q][m].uri \in StoreUris
      BY <1>2 DEF Wanted
    <2>1. PICK k \in DOMAIN Queue[q] : Queue'[q][m] = Queue[q][k]
      BY <1>10
    <2> QED BY <1>3, <2>1 DEF Wanted
  <1>13. Sides(T)'
    <2> SUFFICES ASSUME NEW j \in Items
                 PROVE  (DescURI[j] \in T <=> j \in Txn) /\ OnSide(T, j, AlternativeURIs'[j])
      BY <1>2 DEF Sides, OnSide
    <2>1. OnSide(T, j, <<>>)
      BY DEF OnSide
    <2> QED BY <1>3, <1>11, <2>1 DEF Sides
  <1>14. Redirections(T)' /\ LocalCalls' /\ Emptied'
    <2>1. run' # "running" /\ run' # "stopped"
      BY <1>1
    <2> QED BY <2>1, NobodyTold DEF Emptied
  <1>15. Beginnings'
    BY <1>1, <1>2, <1>4, <1>7, <1>11 DEF Beginnings
  <1>16. \A q \in Names : \A k \in DOMAIN Queue[q] : Primary(Queue[q][k]) \in Range(c.owners) => c.owners = Queue[q][k].owners
    BY <1>1, <1>3 DEF Whole
  <1>17. Whole'
    <2> SUFFICES ASSUME NEW n \in DOMAIN work', work'[n].op = "check", NEW q \in Names, NEW m \in DOMAIN Queue'[q],
                        Primary(Queue'[q][m]) \in Range(work'[n].owners)
                 PROVE  work'[n].owners = Queue'[q][m].owners
      BY DEF Whole
    <2>1. PICK k \in DOMAIN Queue[q] : Queue'[q][m] = Queue[q][k]
      BY <1>10
    <2>2. CASE \E l \in DOMAIN work : work'[n] = work[l]
      BY <1>3, <2>1, <2>2 DEF Whole
    <2>3. CASE work'[n].owners = rest
      <3> DEFINE p == Primary(Queue[q][k])
      <3>1. \A l \in DOMAIN rest : l + 1 \in DOMAIN c.owners /\ l + 1 # 1 /\ rest[l] = c.owners[l + 1]
        BY <1>1, <1>3 DEF rest
      <3>2. PICK l \in DOMAIN rest : p = rest[l]
        BY <2>1, <2>3 DEF Range
      <3>3. l + 1 \in DOMAIN c.owners /\ l + 1 # 1 /\ p = c.owners[l + 1]
        BY <3>1, <3>2
      <3>4. p \in Range(c.owners)
        BY <3>3 DEF Range
      <3>5. c.owners = Queue[q][k].owners
        BY <1>16, <3>4
      <3>6. 1 \in DOMAIN Queue[q][k].owners /\ p = Queue[q][k].owners[1]
        BY <1>3, SoundItems
      <3>7. Apart(Queue)
        BY <1>3 DEF Sound
      <3> HIDE DEF p
      <3> DEFINE x == l + 1
      <3> HIDE DEF x
      <3>8. x \in DOMAIN Queue[q][k].owners /\ Queue[q][k].owners[x] = Queue[q][k].owners[1] /\ x # 1
        BY <3>3, <3>5, <3>6 DEF x
      <3>9. FALSE
        BY <3>6, <3>7, <3>8 DEF Apart
      <3> QED BY <3>9
    <2> QED BY <1>1, <2>2, <2>3
  <1>18. NoneLost'
    <2> SUFFICES ASSUME NEW j \in Items, Status'[j] \in Active, ~Doomed(j)', ~OwnedIn(Queue', j), DescURI[j] \notin StoreUris
                 PROVE  j \in Weak /\ ToBeChecked(j)'
      BY <1>2 DEF NoneLost
    <2>1. Pending = {}
      BY <1>1 DEF Pending, IInv, CallsOK
    <2>2. CASE i \notin Weak
      <3>1. Status[j] \in Active /\ ~Doomed(j) /\ ~OwnedIn(Queue, j)
        BY <1>9, <2>2 DEF Doomed
      <3>2. j \in Weak /\ ToBeChecked(j)
        BY <1>3, <2>1, <3>1 DEF NoneLost
      <3> QED BY <1>1, <2>2, <3>2
    <2>3. CASE i \in Weak
      <3>1. j # i
        BY <1>8, <2>3
      <3>2. /\ Status[j] \in Active /\ ~Doomed(j)
            /\ \A q \in Names : \A k \in DOMAIN Queue[q] :
                 j \in Range(Queue[q][k].owners) /\ Primary(Queue[q][k]) # i => OwnedIn(Queue', j)
        BY <1>8, <2>3, <3>1 DEF Drops
      <3>3. CASE ~OwnedIn(Queue, j)
        <4>1. j \in Weak /\ ToBeChecked(j)
          BY <1>3, <2>1, <3>2, <3>3 DEF NoneLost
        <4> QED BY <1>1, <3>1, <4>1
      <3>4. CASE OwnedIn(Queue, j)
        <4>1. PICK q \in Names : \E k \in DOMAIN Queue[q] : j \in Range(Queue[q][k].owners)
          BY <3>4 DEF OwnedIn
        <4>2. PICK k \in DOMAIN Queue[q] : j \in Range(Queue[q][k].owners)
          BY <4>1
        <4>3. Primary(Queue[q][k]) = i
          BY <3>2, <4>2
        <4>4. i \in Range(c.owners) /\ i \in Range(Queue[q][k].owners)
          <5>1. 1 \in DOMAIN c.owners /\ i = c.owners[1]
            BY <1>1, <1>3 DEF i
          <5>2. 1 \in DOMAIN Queue[q][k].owners /\ i = Queue[q][k].owners[1]
            BY <1>3, <4>3, SoundItems
          <5> QED BY <5>1, <5>2 DEF Range
        <4>5. c.owners = Queue[q][k].owners
          BY <1>16, <4>3, <4>4
        <4>6. ToBeChecked(j)'
          BY <1>1, <3>1, <4>2, <4>5
        <4>7. FirstURI[j] = FirstURI[i]
          BY <1>1, <1>3, <1>4, <4>2, <4>4 DEF Wanted
        <4>8. i \in Range(InitialItems) /\ j \in Range(InitialItems)
          BY <1>1, <1>4, <3>2 DEF Active
        <4> QED BY <2>3, <4>6, <4>7, <4>8 DEF Separate
      <3> QED BY <3>3, <3>4
    <2> QED BY <2>2, <2>3
  <1> QED BY <1>12, <1>13, <1>14, <1>15, <1>17, <1>18 DEF LossInv, Wanted, LocalOnly

\* Startup checks every owner of every QItem of its queue.
LEMMA StartupKeeps ==
  ASSUME NEW T, IInv, LossInv(T), IInv', NEW q \in Names, Startup(q)
  PROVE  LossInv(T)'
  <1> DEFINE checks == [k \in DOMAIN Queue[q] |-> [Call("check", NoURI, q) EXCEPT !.owners = Queue[q][k].owners]]
             x      == Call("start", NoURI, q)
             S      == {checks[k] : k \in DOMAIN Queue[q]} \cup {x}
             b      == Len(Queue[q])
  <1>1. /\ run = "startup" /\ run' = run /\ work = <<>> /\ work' = checks \o <<x>>
        /\ UNCHANGED <<Queue, Status, DescURI, AlternativeURIs, PastRedirections, aborted>>
    BY DEF Startup, queueVars, itemVars
  <1>2. /\ Sound(Queue, Status)
        /\ Wanted(Queue, DescURI) /\ Sides(T) /\ Beginnings /\ NoneLost
    BY DEF IInv, LossInv
  <1>3. DOMAIN Queue[q] = 1..b /\ b \in Nat
    BY <1>2, SoundItems
  <1>4. x.op = "start" /\ \A k \in DOMAIN Queue[q] : checks[k].op = "check" /\ checks[k].owners = Queue[q][k].owners
    BY DEF Call
  <1>5. \A n \in DOMAIN work' : work'[n] = x \/ \E k \in DOMAIN Queue[q] : work'[n] = checks[k]
    <2>1. checks \in [1..b -> S] /\ <<x>> \in Seq(S) /\ DOMAIN <<x>> = 1..1 /\ <<x>>[1] = x
      BY <1>3
    <2> HIDE DEF checks, x, S, b
    <2>2. checks \in Seq(S) /\ Len(checks) = b
      BY <1>3, <2>1, FunctionIsSeq
    <2> DEFINE w == checks \o <<x>>
    <2>3. w \in Seq(S) /\ Joins(w, checks, b, <<x>>)
      BY <2>1, <2>2, Joined
    <2> HIDE DEF w
    <2>4. \A n \in DOMAIN w : w[n] \in S
      BY <2>3
    <2> QED BY <1>1, <2>4 DEF w, S
  <1> HIDE DEF checks, x, S, b
  <1>6. ASSUME NEW n \in DOMAIN work', work'[n].op = "check"
        PROVE  \E k \in DOMAIN Queue[q] : work'[n].owners = Queue[q][k].owners
    BY <1>4, <1>5, <1>6
  <1>7. Redirections(T)' /\ LocalCalls' /\ Pending' = {}
    BY <1>1, NobodyTold
  <1>8. Whole'
    <2> SUFFICES ASSUME NEW n \in DOMAIN work', work'[n].op = "check", NEW r \in Names, NEW l \in DOMAIN Queue[r],
                        Primary(Queue[r][l]) \in Range(work'[n].owners)
                 PROVE  work'[n].owners = Queue[r][l].owners
      BY <1>1 DEF Whole
    <2>1. PICK k \in DOMAIN Queue[q] : work'[n].owners = Queue[q][k].owners
      BY <1>6
    <2>2. Primary(Queue[r][l]) \in Range(Queue[r][l].owners)
      BY <1>2, SoundItems DEF Range
    <2>3. r = q /\ l = k
      <3> DEFINE o == Primary(Queue[r][l])
      <3>1. o \in Range(Queue[q][k].owners) /\ o \in Range(Queue[r][l].owners)
        BY <2>1, <2>2
      <3> HIDE DEF o
      <3> QED BY <1>2, <3>1, Owners
    <2> QED BY <2>1, <2>3
  <1>9. Beginnings'
    BY <1>1, <1>2 DEF Beginnings
  <1>10. NoneLost'
    <2> SUFFICES ASSUME NEW j \in Items, Status[j] \in Active, ~Doomed(j)
                 PROVE  OwnedIn(Queue, j) \/ DescURI[j] \in StoreUris
      BY <1>1 DEF NoneLost, OwnedIn, Doomed
    <2>1. j \notin Pending /\ ~ToBeChecked(j)
      BY <1>1 DEF Pending, ToBeChecked
    <2> QED BY <1>2, <2>1 DEF NoneLost
  <1>11. Sides(T)'
    BY <1>1, <1>2 DEF Sides
  <1>12. Wanted(Queue', DescURI')
    BY <1>1, <1>2
  <1>13. Emptied'
    BY <1>1 DEF Emptied
  <1> QED BY <1>7, <1>8, <1>9, <1>10, <1>11, <1>12, <1>13 DEF LossInv, Wanted, LocalOnly

\* A constructor before Run().
LEMMA QueueURIKeeps ==
  ASSUME NEW T, Separate(T), IInv, LossInv(T), IInv', NEW i \in Items, QueueURI(i)
  PROVE  LossInv(T)'
  <1>1. /\ run = "setup" /\ run' = run /\ Status[i] = "New" /\ i \in Range(InitialItems)
        /\ Enqueue(i, FirstURI[i], FetchAfter, PastRedirections, AlternativeURIs)
        /\ DescURI' = DescURI /\ work' = work
    BY DEF QueueURI
  <1>2. /\ Sound(Queue, Status) /\ aborted \in BOOLEAN /\ DescURI \in [Items -> Uris]
        /\ Wanted(Queue, DescURI) /\ Sides(T) /\ Beginnings /\ NoneLost
    BY DEF IInv, Types, LossInv
  <1>3. work = <<>>
    BY <1>1 DEF IInv, CallsOK
  <1>4. ~OwnedIn(Queue, i)
    BY <1>1, <1>2 DEF Sound, Known, OwnedIn, Range
  <1>5. FirstURI[i] = DescURI[i] /\ FirstURI[i] \in Uris
    BY <1>1, <1>2 DEF Beginnings
  <1> DEFINE alts == AlternativeURIs[i]
  <1>6. Handled(i, alts)
    BY <1>1, <1>2, <1>4, <1>5, EnqueueHandles
  <1> HIDE DEF alts
  <1>7. Redirections(T)' /\ LocalCalls' /\ Pending' = {}
    BY <1>1, NobodyTold
  <1>8. Whole'
    <2>1. DOMAIN work' = {}
      BY <1>1, <1>3
    <2> QED BY <2>1 DEF Whole
  <1>9. Beginnings'
    <2>1. PastRedirections' = PastRedirections
      BY <1>1 DEF Enqueue
    <2>2. \A j \in Items : Status'[j] = "New" => Status[j] = "New"
      BY <1>6 DEF Handled
    <2>3. \A j \in Items : Status'[j] # "New" => j = i \/ Status[j] # "New"
      BY <1>6 DEF Handled
    <2> QED BY <1>1, <1>2, <2>1, <2>2, <2>3 DEF Beginnings
  <1>10. NoneLost'
    <2> SUFFICES ASSUME NEW j \in Items, Status'[j] \in Active, ~Doomed(j)'
                 PROVE  OwnedIn(Queue', j) \/ DescURI'[j] \in StoreUris
      BY DEF NoneLost, OwnedIn
    <2>1. CASE j = i
      BY <1>6, <2>1 DEF Handled
    <2>2. CASE j # i /\ ~OwnedIn(Queue', j)
      <3>1. Status[j] \in Active /\ ~Doomed(j) /\ ~OwnedIn(Queue, j)
        BY <1>6, <2>2 DEF Handled
      <3>2. j \notin Pending /\ ~ToBeChecked(j)
        BY <1>3 DEF Pending, ToBeChecked
      <3> QED BY <1>1, <1>2, <3>1, <3>2 DEF NoneLost
    <2> QED BY <2>1, <2>2
  <1>11. Sides(T)'
    <2> SUFFICES ASSUME NEW j \in Items
                 PROVE  (DescURI'[j] \in T <=> j \in Txn) /\ OnSide(T, j, AlternativeURIs'[j])
      BY DEF Sides, OnSide
    <2>1. OnSide(T, j, <<>>)
      BY DEF OnSide
    <2>2. AlternativeURIs'[j] \in {AlternativeURIs[j], <<>>}
      BY <1>6 DEF Handled, alts
    <2> QED BY <1>1, <1>2, <2>1, <2>2 DEF Sides
  <1>12. Wanted(Queue', DescURI')
    BY <1>6 DEF Handled
  <1>13. Emptied'
    BY <1>1 DEF Emptied
  <1> QED BY <1>7, <1>8, <1>9, <1>10, <1>11, <1>12, <1>13 DEF LossInv, Wanted, LocalOnly

\* the answer takes QItem k of queue q, and c is told to its owners
Ends(q, k, c) ==
  /\ \A r \in Names : \A l \in DOMAIN Queue'[r] :
       \E m \in DOMAIN Queue[r] : Queue'[r][l].owners = Queue[r][m].owners /\ Queue'[r][l].uri = Queue[r][m].uri
  /\ \A j \in Items : OwnedIn(Queue, j) => OwnedIn(Queue', j) \/ j \in Range(Queue[q][k].owners)
  /\ \A j \in Items : Status'[j] # Status[j] => OwnedIn(Queue', j) \/ j \in Range(Queue[q][k].owners)
  /\ work' = TellOwners(Queue[q][k].owners, c)

\* What a final answer does.
LEMMA AnswerEnds ==
  ASSUME IInv, CountInv, NEW q \in Names, NEW u \in Uris, NEW from, NEW to \in Statuses \ {"New"}, NEW c,
         Answer(q, u, from, to, c)
  PROVE  \E k \in DOMAIN Queue[q] : Queue[q][k].uri = u /\ Ends(q, k, c)
  <1> DEFINE k      == FindItem(q, u)
             owners == Queue[q][k].owners
             p      == Primary(Queue[q][k])
             status == [i \in Items |-> IF i \in Range(owners) /\ Status[i] \in from THEN to ELSE Status[i]]
             R      == Without(Queue, {p})
  <1>1. inflight[q][u] > 0 /\ Sound(Queue, Status) /\ CountsOK
    BY DEF Answer, IInv, CountInv
  <1>2. k # 0 /\ k \in DOMAIN Queue[q] /\ Queue[q][k].uri = u
    <2> DEFINE l == FindItem(q, u)
    <2> HIDE DEF l
    <2>1. l = FindItem(q, u)
      BY DEF l
    <2>2. l # 0 /\ l \in DOMAIN Queue[q] /\ Queue[q][l].uri = u
      BY <1>1, <2>1, AnswerFound
    <2> QED BY <2>2 DEF l
  <1>3. /\ Cycle(q, worker[q], R, status, FetchAfter, PipeDepth[q] - 1, Answered(q, u))
        /\ work' = TellOwners(owners, c)
    BY <1>2 DEF Answer, ItemDone
  <1>4. \A o \in Range(owners) :
          \A r \in Names : \A l \in DOMAIN Queue[r] : o \in Range(Queue[r][l].owners) => r = q /\ l = k
    BY <1>1, <1>2, Owners
  <1>5. \A r \in Names : \A l \in DOMAIN Queue[r] :
          Primary(Queue[r][l]) \in Items /\ Primary(Queue[r][l]) \in Range(Queue[r][l].owners)
    <2> TAKE r \in Names
    <2> TAKE l \in DOMAIN Queue[r]
    <2>1. 1 \in DOMAIN Queue[r][l].owners /\ Primary(Queue[r][l]) = Queue[r][l].owners[1] /\ Primary(Queue[r][l]) \in Items
      BY <1>1, SoundItems
    <2> QED BY <2>1 DEF Range
  <1>6. p \in Range(owners)
    BY <1>2, <1>5
  <1> HIDE DEF k, p
  <1>7. SameBut(Queue, {p}, Status, status) /\ status \in [Items -> Statuses]
    <2>1. \A r \in Names : \A l \in DOMAIN Queue[r] :
            Primary(Queue[r][l]) \notin {p} => status[Primary(Queue[r][l])] = Status[Primary(Queue[r][l])]
      <3> TAKE r \in Names
      <3> TAKE l \in DOMAIN Queue[r]
      <3> HAVE Primary(Queue[r][l]) \notin {p}
      <3>1. Primary(Queue[r][l]) \notin Range(owners)
        BY <1>4, <1>5 DEF p
      <3> QED BY <1>5, <3>1
    <2>2. Status \in [Items -> Statuses]
      BY <1>1 DEF Sound
    <2>3. status \in [Items -> Statuses] /\ \A i \in Items : status[i] = "New" => Status[i] = "New"
      BY <2>2
    <2> QED BY <2>1, <2>3 DEF SameBut
  <1>8. \A j \in Items : j \notin Range(owners) => status[j] = Status[j]
    OBVIOUS
  <1> HIDE DEF status, R
  <1>9. Sound(R, status) /\ Leaves(Queue, {p}, R)
    <2>1. R = Without(Queue, {p})
      BY DEF R
    <2> QED BY <1>1, <1>7, <2>1, Removing, Deleting
  <1>10. Sends(R, status)
    BY <1>3, <1>9, CycleSends
  <1>11. ASSUME NEW j \in Items, OwnedIn(Queue, j), j \notin Range(owners) PROVE OwnedIn(Queue', j)
    <2>1. PICK r \in Names : \E l \in DOMAIN Queue[r] : j \in Range(Queue[r][l].owners)
      BY <1>11 DEF OwnedIn
    <2>2. PICK l \in DOMAIN Queue[r] : j \in Range(Queue[r][l].owners)
      BY <2>1
    <2>3. Primary(Queue[r][l]) \notin {p}
      <3>1. SUFFICES ASSUME p \in Range(Queue[r][l].owners) PROVE FALSE
        BY <1>5
      <3>2. r = q /\ l = k
        BY <1>4, <1>6, <3>1
      <3> QED BY <1>11, <2>2, <3>2
    <2>4. PICK m \in DOMAIN R[r] : R[r][m] = Queue[r][l]
      BY <1>9, <2>3 DEF Leaves
    <2>5. OwnedIn(R, j)
      BY <2>2, <2>4 DEF OwnedIn
    <2> QED BY <1>10, <2>5 DEF Sends
  <1>12. \A j \in Items : Status'[j] # Status[j] => OwnedIn(Queue', j) \/ j \in Range(owners)
    BY <1>8, <1>10 DEF Sends
  <1>13. ASSUME NEW r \in Names, NEW l \in DOMAIN Queue'[r]
         PROVE  \E m \in DOMAIN Queue[r] : Queue'[r][l].owners = Queue[r][m].owners /\ Queue'[r][l].uri = Queue[r][m].uri
    <2>1. l \in DOMAIN R[r] /\ Queue'[r][l].owners = R[r][l].owners /\ Queue'[r][l].uri = R[r][l].uri
      BY <1>10 DEF Sends
    <2>2. PICK m \in DOMAIN Queue[r] : R[r][l] = Queue[r][m]
      BY <1>9, <2>1 DEF Leaves
    <2> QED BY <2>1, <2>2
  <1>14. Ends(q, k, c)
    BY <1>3, <1>11, <1>12, <1>13 DEF Ends
  <1> QED BY <1>2, <1>14

\* what is told is on the side of u
Fits(T, u, c) ==
  c.op = "redirect" => /\ c.got \in T <=> u \in T
                       /\ c.uri # NoURI => (c.uri \in T <=> u \in T)
                       /\ \A n \in DOMAIN c.alts : c.alts[n] \in T <=> u \in T

\* A final answer: those it is for are told.
LEMMA AnswerKeeps ==
  ASSUME NEW T, IInv, CountInv, LossInv(T), IInv', NEW q \in Names, NEW u \in Uris, NEW from,
         NEW to \in Statuses \ {"New"}, NEW c \in Calls, c.op \in Telling, c.op # "new", c.q = q, Fits(T, u, c),
         Answer(q, u, from, to, c)
  PROVE  LossInv(T)'
  <1>1. PICK k \in DOMAIN Queue[q] : Queue[q][k].uri = u /\ Ends(q, k, c)
    BY AnswerEnds
  <1> DEFINE owners == Queue[q][k].owners
  <1>2. /\ run = "running" /\ run' = run /\ work = <<>>
        /\ UNCHANGED <<DescURI, AlternativeURIs, PastRedirections, aborted>>
    BY DEF Answer, Listening, itemVars
  <1>3. /\ Sound(Queue, Status) /\ Wanted(Queue, DescURI) /\ Sides(T) /\ Beginnings /\ NoneLost
        /\ Sound(Queue', Status')
    BY DEF IInv, LossInv
  <1>4. owners \in Seq(Items)
    BY <1>3, SoundItems
  <1>5. \A o \in Range(owners) : /\ o \in Items /\ OwnedIn(Queue, o) /\ Status[o] # "New"
                                 /\ DescURI[o] = u /\ (u \in T <=> o \in Txn)
    <2> TAKE o \in Range(owners)
    <2>1. o \in Items /\ OwnedIn(Queue, o) /\ Status[o] # "New"
      BY <1>3, Owners
    <2>2. DescURI[o] = u
      BY <1>1, <1>3 DEF Wanted
    <2> QED BY <1>3, <2>1, <2>2 DEF Sides
  <1>6. /\ DOMAIN work' = DOMAIN owners
        /\ \A n \in DOMAIN owners :
             /\ work'[n].item = owners[n] /\ owners[n] \in Range(owners) /\ work'[n].op = c.op /\ work'[n].q = c.q
             /\ work'[n].uri = c.uri /\ work'[n].got = c.got /\ work'[n].alts = c.alts
    <2>1. work' = [n \in DOMAIN owners |-> [c EXCEPT !.item = owners[n]]]
      BY <1>1 DEF Ends, TellOwners
    <2>2. \A i \in Items : LET x == [c EXCEPT !.item = i]
                           IN  /\ x.item = i /\ x.op = c.op /\ x.q = c.q
                               /\ x.uri = c.uri /\ x.got = c.got /\ x.alts = c.alts
      BY DEF Calls
    <2>3. \A n \in DOMAIN owners : owners[n] \in Items /\ owners[n] \in Range(owners)
      BY <1>4 DEF Range
    <2> HIDE DEF owners
    <2> QED BY <2>1, <2>2, <2>3
  <1>7. /\ \A r \in Names : \A l \in DOMAIN Queue'[r] :
             \E m \in DOMAIN Queue[r] : Queue'[r][l].owners = Queue[r][m].owners /\ Queue'[r][l].uri = Queue[r][m].uri
        /\ \A j \in Items : OwnedIn(Queue, j) => OwnedIn(Queue', j) \/ j \in Range(owners)
        /\ \A j \in Items : Status'[j] # Status[j] => OwnedIn(Queue', j) \/ j \in Range(owners)
    BY <1>1 DEF Ends
  <1>8. LocalOnly(q) => u \in StoreUris
    BY <1>1, <1>3 DEF Wanted
  <1> HIDE DEF owners
  <1>9. Wanted(Queue', DescURI')
    <2> SUFFICES ASSUME NEW r \in Names, NEW l \in DOMAIN Queue'[r]
                 PROVE  /\ \A o \in Range(Queue'[r][l].owners) : DescURI[o] = Queue'[r][l].uri
                        /\ LocalOnly(r) => Queue'[r][l].uri \in StoreUris
      BY <1>2 DEF Wanted
    <2>1. PICK m \in DOMAIN Queue[r] : Queue'[r][l].owners = Queue[r][m].owners /\ Queue'[r][l].uri = Queue[r][m].uri
      BY <1>7
    <2> QED BY <1>3, <2>1 DEF Wanted
  <1>10. Sides(T)'
    BY <1>2, <1>3 DEF Sides
  <1>11. Redirections(T)'
    <2> SUFFICES ASSUME NEW n \in DOMAIN work', work'[n].op = "redirect"
                 PROVE  /\ work'[n].got \in T <=> work'[n].item \in Txn
                        /\ work'[n].uri # NoURI => (work'[n].uri \in T <=> work'[n].item \in Txn)
                        /\ OnSide(T, work'[n].item, work'[n].alts)
                        /\ \A m \in DOMAIN work' : work'[m].op = "redirect" => work'[m].got = work'[n].got
      BY DEF Redirections, OnSide
    <2>1. /\ n \in DOMAIN owners /\ c.op = "redirect" /\ work'[n].got = c.got /\ work'[n].uri = c.uri /\ work'[n].alts = c.alts
          /\ work'[n].item \in Range(owners)
      BY <1>6
    <2>2. u \in T <=> work'[n].item \in Txn
      BY <1>5, <2>1
    <2>3. OnSide(T, work'[n].item, work'[n].alts)
      BY <2>1, <2>2 DEF Fits, OnSide
    <2>4. \A m \in DOMAIN work' : work'[m].got = work'[n].got
      BY <1>6, <2>1
    <2> QED BY <2>1, <2>2, <2>3, <2>4 DEF Fits
  <1>12. Beginnings'
    <2>1. \A j \in Items : Status'[j] = "New" => Status[j] = "New"
      <3> SUFFICES ASSUME NEW j \in Items, Status'[j] = "New", Status[j] # "New" PROVE FALSE
        OBVIOUS
      <3>1. ~OwnedIn(Queue', j)
        BY <1>3 DEF Sound, Known, OwnedIn, Range
      <3>2. j \in Range(owners)
        BY <1>7, <3>1
      <3>3. PICK n \in DOMAIN owners : owners[n] = j
        BY <3>2 DEF Range
      <3>4. n \in DOMAIN work' /\ work'[n].op \in Telling /\ work'[n].op # "new" /\ work'[n].item = j
        BY <1>6, <3>3
      <3> QED BY <3>4 DEF IInv, CallsOK
    <2> QED BY <1>2, <1>3, <2>1 DEF Beginnings
  <1>13. Whole'
    <2>1. \A n \in DOMAIN work' : work'[n].op # "check"
      BY <1>6 DEF Telling
    <2> QED BY <2>1 DEF Whole
  <1>14. LocalCalls'
    <2> SUFFICES ASSUME NEW n \in DOMAIN work', LocalOnly(work'[n].q) PROVE DescURI[work'[n].item] \in StoreUris
      BY <1>2 DEF LocalCalls, LocalOnly
    <2>1. work'[n].q = q /\ work'[n].item \in Range(owners)
      BY <1>6
    <2> QED BY <1>5, <1>8, <2>1
  <1>15. NoneLost'
    <2> SUFFICES ASSUME NEW j \in Items, Status'[j] \in Active, ~Doomed(j)', ~OwnedIn(Queue', j), DescURI[j] \notin StoreUris
                 PROVE  j \in Pending'
      BY <1>2 DEF NoneLost
    <2>1. CASE j \in Range(owners)
      <3>1. PICK n \in DOMAIN owners : owners[n] = j
        BY <2>1 DEF Range
      <3>2. n \in DOMAIN work' /\ work'[n].op \in Telling /\ work'[n].item = j
        BY <1>6, <3>1
      <3> QED BY <3>2 DEF Pending
    <2>2. CASE j \notin Range(owners)
      <3>1. Status[j] \in Active /\ ~Doomed(j) /\ ~OwnedIn(Queue, j)
        BY <1>2, <1>7, <2>2 DEF Doomed
      <3>2. j \notin Pending /\ ~ToBeChecked(j)
        BY <1>2 DEF Pending, ToBeChecked
      <3> QED BY <1>3, <3>1, <3>2 DEF NoneLost
    <2> QED BY <2>1, <2>2
  <1>16. Emptied'
    BY <1>2 DEF Emptied
  <1> QED BY <1>9, <1>10, <1>11, <1>12, <1>13, <1>14, <1>15, <1>16 DEF LossInv, Wanted, LocalOnly

\* The answers that end a request.
LEMMA MessageKeeps ==
  ASSUME NEW T, Separate(T), IInv, CountInv, LossInv(T), IInv', NEW q \in Names, NEW u \in Uris,
         Redirect(q, u) \/ URIDone(q, u) \/ URIFailure(q, u)
  PROVE  LossInv(T)'
  <1>1. <<>> \in Seq(Items) /\ <<>> \in Seq(Uris) /\ "none" \in Kinds /\ "Done" \in Statuses \ {"New"} /\ "Idle" \in Statuses \ {"New"}
    BY DEF Kinds, Statuses
  <1>2. ASSUME NEW op \in {"redirect", "done", "fail"}
        PROVE  Call(op, NoURI, q) \in Calls /\ Call(op, NoURI, q).op = op /\ Call(op, NoURI, q).q = q
    BY <1>1 DEF Call, Calls, Telling
  <1>3. CASE URIDone(q, u)
    <2> DEFINE c == Call("done", NoURI, q)
    <2>1. c \in Calls /\ c.op = "done" /\ c.q = q
      BY <1>2
    <2>2. Answer(q, u, {"Fetching"}, "Done", c)
      BY <1>3 DEF URIDone
    <2> HIDE DEF c
    <2>3. c.op \in Telling /\ c.op # "new" /\ Fits(T, u, c)
      BY <2>1 DEF Telling, Fits
    <2> QED BY <1>1, <2>1, <2>2, <2>3, AnswerKeeps
  <1>4. CASE URIFailure(q, u)
    <2>1. PICK kind \in FailKinds[u] : Answer(q, u, {"Fetching"}, "Done", [Call("fail", NoURI, q) EXCEPT !.kind = kind])
      BY <1>4 DEF URIFailure
    <2> DEFINE c == [Call("fail", NoURI, q) EXCEPT !.kind = kind]
    <2>2. kind \in Kinds
      BY DEF Kinds
    <2>3. c \in Calls /\ c.op = "fail" /\ c.q = q
      BY <1>2, <2>2 DEF Calls
    <2> HIDE DEF c
    <2>4. c.op \in Telling /\ c.op # "new" /\ Fits(T, u, c)
      BY <2>3 DEF Telling, Fits
    <2>5. Answer(q, u, {"Fetching"}, "Done", c)
      BY <2>1 DEF c
    <2> QED BY <1>1, <2>3, <2>4, <2>5, AnswerKeeps
  <1>5. CASE Redirect(q, u)
    <2>1. PICK new \in Redirects[u], alts \in MirrorAlts[u] :
            Answer(q, u, Statuses, "Idle", [Call("redirect", NoURI, q) EXCEPT !.uri = new, !.got = new, !.alts = alts])
      BY <1>5 DEF Redirect
    <2> DEFINE c == [Call("redirect", NoURI, q) EXCEPT !.uri = new, !.got = new, !.alts = alts]
    <2>2. new \in Uris /\ alts \in Seq(Uris)
      BY ConstantsAssumption
    <2>3. c \in Calls /\ c.op = "redirect" /\ c.q = q /\ c.uri = new /\ c.got = new /\ c.alts = alts
      BY <1>2, <2>2 DEF Calls
    <2> HIDE DEF c
    <2>4. c.op \in Telling /\ c.op # "new"
      BY <2>3 DEF Telling
    <2>5. Fits(T, u, c)
      BY <2>3 DEF Separate, Fits
    <2>6. Answer(q, u, Statuses, "Idle", c)
      BY <2>1 DEF c
    <2> QED BY <1>1, <2>3, <2>4, <2>5, <2>6, AnswerKeeps
  <1> QED BY <1>3, <1>4, <1>5

\* Nothing happens.
LEMMA StutterKeeps ==
  ASSUME NEW T, LossInv(T), UNCHANGED vars
  PROVE  LossInv(T)'
  <1>1. UNCHANGED <<Queue, DescURI, AlternativeURIs, PastRedirections, Status, aborted, run, result, work>>
    BY DEF vars, queueVars, itemVars
  <1>2. Wanted(Queue', DescURI') /\ Sides(T)' /\ Redirections(T)' /\ Beginnings'
    BY <1>1 DEF LossInv, Sides, Redirections, OnSide, Beginnings
  <1>3. Whole' /\ LocalCalls' /\ Emptied'
    BY <1>1 DEF LossInv, Whole, LocalCalls, LocalOnly, Emptied, Heads, Queued
  <1>4. NoneLost'
    BY <1>1 DEF LossInv, NoneLost, OwnedIn, Pending, ToBeChecked, Doomed
  <1> QED BY <1>2, <1>3, <1>4 DEF LossInv, Wanted, LocalOnly

\* No step loses an item.
LEMMA LossStep ==
  ASSUME NEW T, Separate(T), IInv, CountInv, OtherTypes, LossInv(T), [Next]_vars
  PROVE  LossInv(T)'
  <1>1. IInv'
    BY NextStep
  <1>2. CASE Handler
    <2>1. PICK c : c = Head(work)
      OBVIOUS
    <2>2. /\ work # <<>>
          /\ \/ CheckOwner(c) \/ StartWorker(c) \/ RedirectOwner(c) \/ DoneOwner(c)
             \/ NewItem(c) \/ RetryOwner(c) \/ FailOwner(c)
      BY <1>2, <2>1 DEF Handler
    <2>3. CASE CheckOwner(c) \/ StartWorker(c)
      BY <1>1, <2>1, <2>2, <2>3, CheckKeeps, StartKeeps
    <2>4. CASE RedirectOwner(c) \/ DoneOwner(c)
      BY <1>1, <2>1, <2>2, <2>4, RedirectKeeps, DoneKeeps
    <2>5. CASE NewItem(c) \/ RetryOwner(c) \/ FailOwner(c)
      BY <1>1, <2>1, <2>2, <2>5, NewItemKeeps, RetryKeeps, FailKeeps
    <2> QED BY <2>2, <2>3, <2>4, <2>5
  <1>3. ASSUME NEW i \in Items, QueueURI(i) PROVE LossInv(T)'
    BY <1>1, <1>3, QueueURIKeeps
  <1>4. CASE Run \/ EnterLoop \/ Tick \/ Cancel \/ \E q \in Names : MethodFailure(q)
    BY <1>1, <1>4, OtherKeeps
  <1>5. CASE Stop
    BY <1>1, <1>5, StopKeeps
  <1>6. ASSUME NEW q \in Names, Startup(q) \/ Unstick(q) PROVE LossInv(T)'
    BY <1>1, <1>6, StartupKeeps, UnstickKeeps
  <1>7. ASSUME NEW q \in Names, NEW u \in Uris, URIStart(q, u) \/ Redirect(q, u) \/ URIDone(q, u) \/ URIFailure(q, u)
        PROVE  LossInv(T)'
    BY <1>1, <1>7, URIStartKeeps, MessageKeeps
  <1>8. CASE UNCHANGED vars
    BY <1>8, StutterKeeps
  <1> QED BY <1>2, <1>3, <1>4, <1>5, <1>6, <1>7, <1>8 DEF Next, Finished

\* It begins with nothing to lose.
LEMMA InitLoss ==
  ASSUME NEW T, Separate(T), Init
  PROVE  LossInv(T)
  <1>1. /\ Queue = [q \in Names |-> <<>>] /\ Status = [i \in Items |-> "New"] /\ DescURI = FirstURI
        /\ PastRedirections = [i \in Items |-> <<>>] /\ AlternativeURIs = Alternates
        /\ run = "setup" /\ work = <<>>
    BY DEF Init
  <1>2. DOMAIN work = {} /\ \A q \in Names : DOMAIN Queue[q] = {}
    BY <1>1
  <1>3. Wanted(Queue, DescURI)
    BY <1>2 DEF Wanted
  <1>4. Sides(T)
    BY <1>1 DEF Sides, OnSide, Separate
  <1>5. Redirections(T) /\ Whole /\ LocalCalls
    BY <1>2 DEF Redirections, Whole, LocalCalls
  <1>6. Beginnings /\ NoneLost /\ Emptied
    BY <1>1 DEF Beginnings, NoneLost, Emptied, Active
  <1> QED BY <1>3, <1>4, <1>5, <1>6 DEF LossInv

\* the four invariants together
FullInv(T) == IInv /\ CountInv /\ OtherTypes /\ LossInv(T)

\* They hold throughout.
LEMMA NothingIsLost ==
  ASSUME NEW T, Separate(T)
  PROVE  Spec => []FullInv(T)
  <1>1. Init => FullInv(T)
    BY InitInv, InitCounts, InitTypes, InitLoss DEF FullInv
  <1>2. FullInv(T) /\ [Next]_vars => FullInv(T)'
    BY NextStep, CountStep, TypesStep, LossStep DEF FullInv
  <1> QED BY <1>1, <1>2, PTL DEF Spec

-----------------------------------------------------------------------------
(* What the invariants mean *)

\* The types.
LEMMA TypesMean ==
  ASSUME IInv, CountInv, OtherTypes
  PROVE  TypeOK
  <1>1. /\ queues \subseteq Names /\ DescURI \in [Items -> Uris]
        /\ AlternativeURIs \in [Items -> Seq(Uris)] /\ stage \in [Items -> Nat]
        /\ aborted \in BOOLEAN /\ run \in {"setup", "startup", "running", "stopped"}
        /\ Queue \in [Names -> Seq(QItems)] /\ Status \in [Items -> Statuses]
    BY DEF IInv, Types, Sound
  <1>2. /\ worker \in [Names -> {"none", "up", "dead"}] /\ PipeDepth \in [Names -> Int]
        /\ inflight \in [Names -> [Uris -> Nat]] /\ CurrentItem \in [Names -> Uris \cup {NoURI}]
        /\ IsFiniteSet(Heads(Queue)) /\ ToFetch = Cardinality(Heads(Queue))
    BY DEF CountInv, CountsOK, Exact, Pointed
  <1>3. ToFetch \in Int
    <2>1. ToFetch \in Nat
      BY <1>2, FS_CardinalityType
    <2> QED BY <2>1
  <1> QED BY <1>1, <1>2, <1>3 DEF TypeOK, OtherTypes

\* Between two handlers nobody is about to be told or checked.
LEMMA LossMeans ==
  ASSUME NEW T, IInv, LossInv(T)
  PROVE  NoOrphan /\ CompleteRun
  <1>1. ASSUME work = <<>>, NEW i \in Items, Status[i] \in {"Idle", "Fetching"}, ~Doomed(i)
        PROVE  OwnedIn(Queue, i) \/ DescURI[i] \in StoreUris
    <2>1. i \notin Pending /\ ~ToBeChecked(i)
      BY <1>1 DEF Pending, ToBeChecked
    <2> QED BY <1>1, <2>1 DEF LossInv, NoneLost, Active
  <1>2. NoOrphan
    BY <1>1 DEF NoOrphan, Owned, OwnedIn
  <1>3. CompleteRun
    <2> SUFFICES ASSUME run = "stopped", result = "go", NEW i \in Items, OwnedIn(Queue, i) PROVE FALSE
      BY <1>1 DEF CompleteRun, IInv, CallsOK
    <2>1. Heads(Queue) = {}
      BY DEF LossInv, Emptied
    <2>2. PICK q \in Names : \E k \in DOMAIN Queue[q] : i \in Range(Queue[q][k].owners)
      BY DEF OwnedIn
    <2>3. PICK k \in DOMAIN Queue[q] : i \in Range(Queue[q][k].owners)
      BY <2>2
    <2>4. Primary(Queue[q][k]) \in Items
      BY HeadsApart DEF IInv
    <2> QED BY <2>1, <2>3, <2>4 DEF Heads, Queued
  <1> QED BY <1>2, <1>3

\* Through redirects, merged requests, retries and later stages ToFetch and
\* PipeDepth stay exact, no item is owner twice, and none is lost
\* (pkgAcquire::Enqueue, Dequeue and Run, Queue::Cycle, Worker::RunMessages).
THEOREM QueuesStayExact ==
  ASSUME NEW T, Separate(T)
  PROVE  Spec => []QueuesExact
  <1>1. FullInv(T) => QueuesExact
    BY CountsMean, TypesMean, LossMeans DEF FullInv, QueuesExact
  <1>2. Spec => []FullInv(T)
    BY NothingIsLost
  <1> QED BY <1>1, <1>2, PTL

\* Whatever is aborted, redirected, cancelled or dies, each late answer finds
\* its item, Pulse() follows no deleted one, the counters stay exact, and a
\* Run() that ends by itself leaves no item unfinished.
THEOREM LateAnswersStaySafe ==
  ASSUME NEW T, Separate(T)
  PROVE  Spec => []LateAnswersSafe
  <1>1. FullInv(T) => LateAnswersSafe
    BY CountsMean, LossMeans DEF FullInv, LateAnswersSafe
  <1>2. Spec => []FullInv(T)
    BY NothingIsLost
  <1> QED BY <1>1, <1>2, PTL

=============================================================================
