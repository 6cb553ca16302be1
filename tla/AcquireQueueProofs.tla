------------------------- MODULE AcquireQueueProofs -------------------------
(***************************************************************************)
(* Theorems about AcquireQueue, for every set of items, URIs and queues,   *)
(* every tree of items that create others, and every way the methods       *)
(* answer, redirect, fail and die.                                         *)
(***************************************************************************)
EXTENDS AcquireQueue, FiniteSetTheorems, FunctionTheorems, WellFoundedInduction, TLAPS

-----------------------------------------------------------------------------
(* The inductive invariant *)

\* the calls that tell an item what became of it; the others are Startup's
Telling == {"redirect", "done", "new", "fail"}
Kinds   == {"none"} \cup UNION {FailKinds[u] : u \in Uris}

Calls ==
  [op : Telling \cup {"check", "start"}, item : Items \cup {NoURI}, q : Names, owners : Seq(Items),
   uri : Uris \cup {NoURI}, got : Uris \cup {NoURI}, alts : Seq(Uris), kind : Kinds]

\* the items that will be told something by the handler in progress
Pending == {work[n].item : n \in {m \in DOMAIN work : work[m].op \in Telling}}

Types ==
  /\ queues \subseteq Names /\ DescURI \in [Items -> Uris]
  /\ AlternativeURIs \in [Items -> Seq(Uris)] /\ stage \in [Items -> Nat]
  /\ aborted \in BOOLEAN /\ run \in {"setup", "startup", "running", "stopped"}
  /\ work \in Seq(Calls)

\* A QItem of the queues Q has an owner.
Manned(Q) == \A q \in Names : \A k \in DOMAIN Q[q] : Q[q][k].owners # <<>>

\* No item is owner twice, in one QItem or in two.
Apart(Q) ==
  \A q, r \in Names : \A k \in DOMAIN Q[q], l \in DOMAIN Q[r] :
    \A m \in DOMAIN Q[q][k].owners, n \in DOMAIN Q[r][l].owners :
      Q[q][k].owners[m] = Q[r][l].owners[n] => q = r /\ k = l /\ m = n

\* The status of its first owner says whether a QItem was handed to the worker.
Matches(Q, status) ==
  \A q \in Names : \A k \in DOMAIN Q[q] :
    status[Primary(Q[q][k])] = IF Q[q][k].sent THEN "Fetching" ELSE "Idle"

\* An item in a queue is not new.
Known(Q, status) ==
  \A q \in Names : \A k \in DOMAIN Q[q] : \A n \in DOMAIN Q[q][k].owners :
    status[Q[q][k].owners[n]] # "New"

\* the part of the invariant that is about the queues Q, given the statuses
Sound(Q, status) ==
  /\ Q \in [Names -> Seq(QItems)] /\ status \in [Items -> Statuses]
  /\ Manned(Q) /\ Apart(Q) /\ Matches(Q, status) /\ Known(Q, status)

\* The calls of one handler are about different items, and those are in no queue.
CallsOK ==
  /\ run \in {"setup", "stopped"} => work = <<>>
  /\ \A n \in DOMAIN work :
       /\ work[n].op \in Telling <=> run = "running"
       /\ work[n].op \in Telling =>
            /\ work[n].item \in Items /\ ~Owned(work[n].item)
            /\ Status[work[n].item] = "New" <=> work[n].op = "new"
       /\ work[n].op = "check" =>
            /\ work[n].owners # <<>>
            /\ \A m \in DOMAIN work[n].owners : Status[work[n].owners[m]] # "New"
  /\ \A n, m \in DOMAIN work :
       work[n].op \in Telling /\ work[m].op \in Telling /\ work[n].item = work[m].item => n = m

\* What an item creates when it is done does not exist before.
Unborn ==
  \A i \in Items : Status[i] = "New" \/ Owned(i) \/ i \in Pending =>
    \A n \in DOMAIN Spawns[i] : Status[Spawns[i][n]] = "New" /\ Spawns[i][n] \notin Pending

\* What an aborted transaction has left in the queues was sent before.
Leftovers ==
  aborted => /\ run # "setup"
             /\ \A q \in Names : \A k \in DOMAIN Queue[q] :
                  Primary(Queue[q][k]) \in Txn => Queue[q][k].sent

IInv == Types /\ Sound(Queue, Status) /\ CallsOK /\ Unborn /\ Leftovers

-----------------------------------------------------------------------------
(* Sets of positions *)

\* A set of positions has a least one.
LEMMA LeastPosition ==
  ASSUME NEW K \in SUBSET Nat, K # {}
  PROVE  Min(K) \in K
  <1>1. IsWellFoundedOn(OpToRel(<, Nat), Nat)
    BY NatLessThanWellFounded
  <1>2. PICK x \in K : \A y \in K : ~(<<y, x>> \in OpToRel(<, Nat))
    BY <1>1, WFMin
  <1>3. ASSUME NEW y \in K PROVE x <= y
    <2>1. y \in Nat /\ x \in Nat
      OBVIOUS
    <2>2. ~(y < x)
      BY <1>2, <2>1 DEF OpToRel
    <2> QED BY <2>1, <2>2
  <1> QED BY <1>3 DEF Min

\* The same for the greatest.
LEMMA GreatestPosition ==
  ASSUME NEW n \in Nat, NEW K \in SUBSET (0..n), K # {}
  PROVE  Max(K) \in K
  <1> DEFINE D == {n - x : x \in K}
  <1>1. D \in SUBSET Nat /\ D # {}
    <2>1. \A x \in K : x \in 0..n
      OBVIOUS
    <2>2. \A x \in K : n - x \in Nat
      BY <2>1
    <2> QED BY <2>2
  <1>2. IsWellFoundedOn(OpToRel(<, Nat), Nat)
    BY NatLessThanWellFounded
  <1>3. PICK d \in D : \A y \in D : ~(<<y, d>> \in OpToRel(<, Nat))
    BY <1>1, <1>2, WFMin
  <1>4. PICK x \in K : d = n - x
    BY <1>3
  <1>5. \A y \in K : x >= y
    <2> TAKE y \in K
    <2>1. n - y \in D /\ n - y \in Nat /\ d \in Nat
      BY <1>1
    <2>2. ~(n - y < d)
      BY <1>3, <2>1 DEF OpToRel
    <2> QED BY <1>4, <2>2
  <1> QED BY <1>5 DEF Max

\* The rank of a position in a set of positions.
Rank(K, p) == Cardinality({x \in K : x <= p})

\* Ranks are different and go from 1 to the size of the set, without a gap.
LEMMA Ranks ==
  ASSUME NEW n \in Nat, NEW K \in SUBSET (1..n)
  PROVE  /\ Cardinality(K) \in Nat
         /\ \A p \in K : Rank(K, p) \in 1..Cardinality(K)
         /\ \A p, r \in K : Rank(K, p) = Rank(K, r) => p = r
         /\ \A m \in 1..Cardinality(K) : \E p \in K : Rank(K, p) = m
  <1> DEFINE Below(p) == {x \in K : x <= p}
             rank == [p \in K |-> Rank(K, p)]
             C == Cardinality(K)
  <1>1. IsFiniteSet(K) /\ C \in Nat
    BY FS_Interval, FS_Subset, FS_CardinalityType, 1 \in Int, n \in Int
  <1>2. \A p \in K : IsFiniteSet(Below(p)) /\ Cardinality(Below(p)) \in 1..C
    <2> TAKE p \in K
    <2>1. IsFiniteSet(Below(p)) /\ Cardinality(Below(p)) <= C /\ Cardinality(Below(p)) \in Nat
      BY <1>1, FS_Subset, FS_CardinalityType, Below(p) \in SUBSET K
    <2>2. p \in Below(p)
      OBVIOUS
    <2>3. Cardinality(Below(p)) # 0
      BY <2>1, <2>2, FS_EmptySet
    <2> QED BY <2>1, <2>3, <1>1
  <1>3. rank \in [K -> 1..C]
    BY <1>2 DEF Rank
  <1>4. \A p, r \in K : p < r => Rank(K, p) # Rank(K, r)
    <2> TAKE p, r \in K
    <2> HAVE p < r
    <2>1. p \in Int /\ r \in Int /\ \A x \in K : x \in Int
      OBVIOUS
    <2>2. (\A x \in K : x <= p => x <= r) /\ r <= r /\ ~(r <= p)
      BY <2>1
    <2>3. Below(p) \in SUBSET Below(r) /\ Below(p) # Below(r)
      BY <2>2, Zenon
    <2>4. Cardinality(Below(p)) # Cardinality(Below(r))
      BY <1>2, <2>3, FS_Subset
    <2> QED BY <2>4 DEF Rank
  <1>5. \A p, r \in K : Rank(K, p) = Rank(K, r) => p = r
    <2> TAKE p, r \in K
    <2>1. p \in Int /\ r \in Int
      OBVIOUS
    <2> QED BY <1>4, <2>1
  <1>6. rank \in Injection(K, 1..C)
    BY <1>3, <1>5 DEF Injection, IsInjective
  <1>7. IsFiniteSet(1..C) /\ Cardinality(1..C) = C
    BY <1>1, FS_Interval, 1 \in Int, C \in Int
  <1>8. rank \in Surjection(K, 1..C)
    BY <1>6, <1>7, FS_Injection
  <1>9. \A m \in 1..C : \E p \in K : Rank(K, p) = m
    BY <1>8 DEF Surjection
  <1> QED BY <1>1, <1>2, <1>5, <1>9 DEF Rank

\* the position in s of the m-th element of AtPositions(s, K)
Source(K, m) == CHOOSE p \in K : Rank(K, p) = m

\* AtPositions(s, K) has each element of s at a position in K, and each once.
LEMMA Filtered ==
  ASSUME NEW S, NEW s \in Seq(S), NEW K \in SUBSET (DOMAIN s)
  PROVE  /\ AtPositions(s, K) \in Seq(S)
         /\ DOMAIN AtPositions(s, K) = 1..Cardinality(K) /\ Cardinality(K) \in Nat
         /\ \A m \in DOMAIN AtPositions(s, K) :
              Source(K, m) \in K /\ AtPositions(s, K)[m] = s[Source(K, m)]
         /\ \A m, l \in DOMAIN AtPositions(s, K) : Source(K, m) = Source(K, l) => m = l
         /\ \A p \in K : \E m \in DOMAIN AtPositions(s, K) : Source(K, m) = p
  <1> DEFINE C == Cardinality(K)
  <1>1. DOMAIN s = 1..Len(s) /\ Len(s) \in Nat /\ \A p \in DOMAIN s : s[p] \in S
    OBVIOUS
  <1>2. /\ C \in Nat
        /\ \A p \in K : Rank(K, p) \in 1..C
        /\ \A p, r \in K : Rank(K, p) = Rank(K, r) => p = r
        /\ \A m \in 1..C : \E p \in K : Rank(K, p) = m
    BY <1>1, Ranks
  <1>3. \A m \in 1..C : Source(K, m) \in K /\ Rank(K, Source(K, m)) = m
    BY <1>2 DEF Source
  <1>4. AtPositions(s, K) = [m \in 1..C |-> s[Source(K, m)]]
    BY DEF AtPositions, Source, Rank
  <1>5. \A m \in 1..C : s[Source(K, m)] \in S
    BY <1>1, <1>3
  <1> HIDE DEF C, Source
  <1>6. AtPositions(s, K) \in Seq(S)
    BY <1>2, <1>4, <1>5
  <1>7. \A p \in K : \E m \in 1..C : Source(K, m) = p
    <2> TAKE p \in K
    <2>1. Rank(K, p) \in 1..C
      BY <1>2
    <2>2. Source(K, Rank(K, p)) \in K /\ Rank(K, Source(K, Rank(K, p))) = Rank(K, p)
      BY <1>3, <2>1
    <2> QED BY <1>2, <2>1, <2>2
  <1>8. \A m, l \in 1..C : Source(K, m) = Source(K, l) => m = l
    BY <1>3
  <1> QED BY <1>2, <1>3, <1>4, <1>6, <1>7, <1>8 DEF C

-----------------------------------------------------------------------------
(* What the operations on queues preserve *)

OwnedIn(Q, i) == \E q \in Names : \E k \in DOMAIN Q[q] : i \in Range(Q[q][k].owners)

\* A function on an initial segment of the numbers is a sequence.
LEMMA FunctionIsSeq ==
  ASSUME NEW S, NEW n \in Nat, NEW f \in [1..n -> S]
  PROVE  f \in Seq(S)
  OBVIOUS

\* The first owner of a QItem is one of its owners.
LEMMA PrimaryOwns ==
  ASSUME NEW Q \in [Names -> Seq(QItems)], Manned(Q), NEW q \in Names, NEW k \in DOMAIN Q[q]
  PROVE  /\ Q[q][k] \in QItems
         /\ 1 \in DOMAIN Q[q][k].owners
         /\ Primary(Q[q][k]) = Q[q][k].owners[1]
         /\ Primary(Q[q][k]) \in Items
         /\ OwnedIn(Q, Primary(Q[q][k]))
  <1>1. Q[q] \in Seq(QItems)
    OBVIOUS
  <1>2. Q[q][k] \in QItems
    BY <1>1
  <1>3. Q[q][k].owners \in Seq(Items) /\ Q[q][k].owners # <<>>
    BY <1>2 DEF QItems, Manned
  <1>4. 1 \in DOMAIN Q[q][k].owners /\ Head(Q[q][k].owners) = Q[q][k].owners[1] /\ Q[q][k].owners[1] \in Items
    BY <1>3
  <1> QED BY <1>2, <1>4 DEF Primary, OwnedIn, Range

\* the queues and the statuses when some QItems of queue q are handed to the worker
QueuesSent(Q, q, sent) ==
  [Q EXCEPT ![q] = [k \in DOMAIN Q[q] |-> IF k \in sent THEN [Q[q][k] EXCEPT !.sent = TRUE] ELSE Q[q][k]]]
StatusSent(Q, q, sent, status) ==
  [i \in Items |-> IF \E k \in sent : i \in Range(Q[q][k].owners) THEN "Fetching" ELSE status[i]]

\* Handing idle QItems to the worker.
LEMMA Sending ==
  ASSUME NEW Q, NEW status, Sound(Q, status), NEW q \in Names,
         NEW sent \in SUBSET DOMAIN Q[q], \A k \in sent : status[Primary(Q[q][k])] = "Idle",
         NEW R, R = QueuesSent(Q, q, sent), NEW after, after = StatusSent(Q, q, sent, status)
  PROVE  /\ Sound(R, after)
         /\ \A r \in Names : /\ DOMAIN R[r] = DOMAIN Q[r]
                             /\ \A k \in DOMAIN Q[r] :
                                  /\ R[r][k].owners = Q[r][k].owners /\ R[r][k].uri = Q[r][k].uri
                                  /\ R[r][k].sent <=> Q[r][k].sent \/ (r = q /\ k \in sent)
         /\ \A k \in sent : ~Q[q][k].sent
         /\ \A i \in Items : after[i] # status[i] => after[i] = "Fetching" /\ OwnedIn(Q, i)
         /\ \A i \in Items : OwnedIn(R, i) <=> OwnedIn(Q, i)
  <1> USE DEF QueuesSent, StatusSent
  <1>1. /\ Q \in [Names -> Seq(QItems)] /\ status \in [Items -> Statuses]
        /\ Manned(Q) /\ Apart(Q) /\ Matches(Q, status) /\ Known(Q, status)
    BY DEF Sound
  <1>2. \A r \in Names : Q[r] \in Seq(QItems) /\ \A k \in DOMAIN Q[r] : Q[r][k] \in QItems /\ Q[r][k].owners \in Seq(Items)
    <2> TAKE r \in Names
    <2>1. Q[r] \in Seq(QItems)
      BY <1>1
    <2>2. \A k \in DOMAIN Q[r] : Q[r][k] \in QItems
      BY <2>1
    <2>3. \A x \in QItems : x.owners \in Seq(Items)
      BY DEF QItems
    <2> QED BY <2>1, <2>2, <2>3
  <1> DEFINE L == [k \in DOMAIN Q[q] |-> IF k \in sent THEN [Q[q][k] EXCEPT !.sent = TRUE] ELSE Q[q][k]]
  <1>3. L \in Seq(QItems)
    <2>1. Q[q] \in Seq(QItems) /\ DOMAIN Q[q] = 1..Len(Q[q]) /\ Len(Q[q]) \in Nat
      BY <1>2
    <2>2. \A k \in DOMAIN Q[q] : L[k] \in QItems
      BY <1>2 DEF QItems
    <2>3. L \in [1..Len(Q[q]) -> QItems]
      BY <2>1, <2>2
    <2> QED BY <2>1, <2>3, FunctionIsSeq
  <1>4. R \in [Names -> Seq(QItems)] /\ R[q] = L /\ \A r \in Names : r # q => R[r] = Q[r]
    BY <1>1, <1>3
  <1>5. \A r \in Names : /\ DOMAIN R[r] = DOMAIN Q[r]
                         /\ \A k \in DOMAIN Q[r] :
                              /\ R[r][k].owners = Q[r][k].owners /\ R[r][k].uri = Q[r][k].uri
                              /\ R[r][k].sent <=> Q[r][k].sent \/ (r = q /\ k \in sent)
    <2> TAKE r \in Names
    <2>1. CASE r # q
      <3>1. R[r] = Q[r]
        BY <1>4, <2>1
      <3> QED BY <2>1, <3>1, <1>2 DEF QItems
    <2>2. CASE r = q
      <3>1. DOMAIN R[r] = DOMAIN Q[r]
        BY <1>4, <2>2
      <3>2. ASSUME NEW k \in DOMAIN Q[r]
            PROVE  /\ R[r][k].owners = Q[r][k].owners /\ R[r][k].uri = Q[r][k].uri
                   /\ R[r][k].sent <=> Q[r][k].sent \/ (r = q /\ k \in sent)
        <4>1. R[r][k] = IF k \in sent THEN [Q[q][k] EXCEPT !.sent = TRUE] ELSE Q[q][k]
          BY <1>4, <2>2
        <4>2. Q[q][k] \in [uri : Uris, owners : Seq(Items), sent : BOOLEAN]
          BY <1>2, <2>2 DEF QItems
        <4>3. CASE k \in sent
          <5>1. \A x \in [uri : Uris, owners : Seq(Items), sent : BOOLEAN] :
                  LET y == [x EXCEPT !.sent = TRUE] IN y.uri = x.uri /\ y.owners = x.owners /\ y.sent = TRUE
            OBVIOUS
          <5>2. R[r][k].sent = TRUE /\ R[r][k].uri = Q[q][k].uri /\ R[r][k].owners = Q[q][k].owners
            BY <4>1, <4>2, <4>3, <5>1
          <5> QED BY <2>2, <4>3, <5>2
        <4>4. CASE k \notin sent
          BY <2>2, <4>1, <4>2, <4>4
        <4> QED BY <4>3, <4>4
      <3> QED BY <3>1, <3>2
    <2> QED BY <2>1, <2>2
  <1>6. \A k \in sent : ~Q[q][k].sent
    BY <1>1 DEF Matches
  <1>7. after \in [Items -> Statuses]
    BY <1>1 DEF Statuses
  <1>8. \A i \in Items : after[i] # status[i] => after[i] = "Fetching" /\ OwnedIn(Q, i)
    BY DEF OwnedIn
  <1>9. \A i \in Items : OwnedIn(R, i) <=> OwnedIn(Q, i)
    <2>1. \A r \in Names : DOMAIN R[r] = DOMAIN Q[r] /\ \A k \in DOMAIN Q[r] : R[r][k].owners = Q[r][k].owners
      BY <1>5
    <2> QED BY <2>1, Zenon DEF OwnedIn
  <1>10. Manned(R) /\ Apart(R)
    <2>1. Manned(R)
      BY <1>1, <1>5 DEF Manned
    <2>2. Apart(R)
      BY <1>1, <1>5 DEF Apart
    <2> QED BY <2>1, <2>2
  <1>11. Matches(R, after)
    <2> SUFFICES ASSUME NEW r \in Names, NEW k \in DOMAIN R[r]
                 PROVE  after[Primary(R[r][k])] = IF R[r][k].sent THEN "Fetching" ELSE "Idle"
      BY DEF Matches
    <2>0. k \in DOMAIN Q[r]
      BY <1>5
    <2> DEFINE p == Primary(Q[r][k])
    <2>1. Primary(R[r][k]) = p
      BY <1>5, <2>0 DEF Primary
    <2>2. p \in Items /\ p = Q[r][k].owners[1] /\ 1 \in DOMAIN Q[r][k].owners
      BY <1>1, <2>0, PrimaryOwns
    <2>3. status[p] = IF Q[r][k].sent THEN "Fetching" ELSE "Idle"
      BY <1>1, <2>0 DEF Matches
    <2> HIDE DEF p
    <2>4. CASE r = q /\ k \in sent
      <3>1. p \in Range(Q[q][k].owners)
        BY <2>2, <2>4 DEF Range
      <3> QED BY <1>5, <2>0, <2>1, <2>2, <2>4, <3>1
    <2>5. CASE ~(r = q /\ k \in sent)
      <3>1. \A l \in sent : p \notin Range(Q[q][l].owners)
        BY <1>1, <2>0, <2>2, <2>5 DEF Apart, Range
      <3>2. after[p] = status[p]
        BY <2>2, <3>1
      <3> QED BY <1>5, <2>0, <2>1, <2>3, <2>5, <3>2
    <2> QED BY <2>4, <2>5
  <1>12. Known(R, after)
    <2> SUFFICES ASSUME NEW r \in Names, NEW k \in DOMAIN R[r], NEW n \in DOMAIN R[r][k].owners
                 PROVE  after[R[r][k].owners[n]] # "New"
      BY DEF Known
    <2>1. k \in DOMAIN Q[r] /\ R[r][k].owners = Q[r][k].owners
      BY <1>5
    <2>2. status[Q[r][k].owners[n]] # "New" /\ Q[r][k].owners[n] \in Items
      BY <1>1, <1>2, <2>1 DEF Known
    <2> QED BY <2>1, <2>2, <1>8
  <1> QED BY <1>4, <1>5, <1>6, <1>7, <1>8, <1>9, <1>10, <1>11, <1>12 DEF Sound

\* The facts about single QItems that Sound gives.
LEMMA SoundItems ==
  ASSUME NEW Q, NEW status, Sound(Q, status), NEW q \in Names
  PROVE  /\ Q[q] \in Seq(QItems) /\ DOMAIN Q[q] = 1..Len(Q[q]) /\ Len(Q[q]) \in Nat
         /\ \A k \in DOMAIN Q[q] :
              /\ Q[q][k] \in QItems /\ Q[q][k].owners \in Seq(Items)
              /\ \A n \in DOMAIN Q[q][k].owners :
                   /\ Q[q][k].owners[n] \in Items /\ OwnedIn(Q, Q[q][k].owners[n])
                   /\ status[Q[q][k].owners[n]] # "New"
              /\ 1 \in DOMAIN Q[q][k].owners /\ Primary(Q[q][k]) = Q[q][k].owners[1]
  <1>1. Q \in [Names -> Seq(QItems)] /\ Manned(Q) /\ Known(Q, status)
    BY DEF Sound
  <1>2. Q[q] \in Seq(QItems)
    BY <1>1
  <1>3. DOMAIN Q[q] = 1..Len(Q[q]) /\ Len(Q[q]) \in Nat
    BY <1>2
  <1>4. ASSUME NEW k \in DOMAIN Q[q]
        PROVE  /\ Q[q][k] \in QItems /\ Q[q][k].owners \in Seq(Items)
               /\ \A n \in DOMAIN Q[q][k].owners :
                    /\ Q[q][k].owners[n] \in Items /\ OwnedIn(Q, Q[q][k].owners[n])
                    /\ status[Q[q][k].owners[n]] # "New"
               /\ 1 \in DOMAIN Q[q][k].owners /\ Primary(Q[q][k]) = Q[q][k].owners[1]
    <2>1. Q[q][k] \in QItems /\ 1 \in DOMAIN Q[q][k].owners /\ Primary(Q[q][k]) = Q[q][k].owners[1]
      BY <1>1, PrimaryOwns
    <2>2. Q[q][k].owners \in Seq(Items)
      BY <2>1 DEF QItems
    <2>3. \A n \in DOMAIN Q[q][k].owners : Q[q][k].owners[n] \in Items
      BY <2>2
    <2>4. \A n \in DOMAIN Q[q][k].owners : OwnedIn(Q, Q[q][k].owners[n])
      BY DEF OwnedIn, Range
    <2>5. \A n \in DOMAIN Q[q][k].owners : status[Q[q][k].owners[n]] # "New"
      BY <1>1 DEF Known
    <2> QED BY <2>1, <2>2, <2>3, <2>4, <2>5
  <1> QED BY <1>2, <1>3, <1>4

\* the statuses of the first owners that are not in I are the same, and nobody becomes new
SameBut(Q, I, status, after) ==
  /\ \A q \in Names : \A k \in DOMAIN Q[q] :
       Primary(Q[q][k]) \notin I => after[Primary(Q[q][k])] = status[Primary(Q[q][k])]
  /\ \A i \in Items : after[i] = "New" => status[i] = "New"

\* R has nothing but what Q has, and nothing of the first owners in I
Rest(Q, I, R) ==
  /\ \A q \in Names : \A k \in DOMAIN R[q] :
       \E m \in DOMAIN Q[q] : R[q][k] = Q[q][m] /\ Primary(Q[q][m]) \notin I
  /\ \A i \in Items : OwnedIn(R, i) =>
       \E q \in Names : \E k \in DOMAIN Q[q] : i \in Range(Q[q][k].owners) /\ Primary(Q[q][k]) \notin I

\* Deleting the QItems of some first owners, whose status may change.
LEMMA Removing ==
  ASSUME NEW Q, NEW status, Sound(Q, status), NEW I, NEW R, R = Without(Q, I),
         NEW after \in [Items -> Statuses], SameBut(Q, I, status, after)
  PROVE  Sound(R, after) /\ Rest(Q, I, R)
  <1> USE DEF SameBut
  <1> DEFINE K(q) == {k \in DOMAIN Q[q] : Primary(Q[q][k]) \notin I}
             From(q, k) == Source(K(q), k)
  <1>1. ASSUME NEW q \in Names
        PROVE  /\ R[q] \in Seq(QItems)
               /\ \A k \in DOMAIN R[q] : /\ From(q, k) \in DOMAIN Q[q] /\ R[q][k] = Q[q][From(q, k)]
                                         /\ Primary(Q[q][From(q, k)]) \notin I
               /\ \A k, l \in DOMAIN R[q] : From(q, k) = From(q, l) => k = l
    <2>1. R[q] = AtPositions(Q[q], K(q))
      BY DEF Without
    <2>2. Q[q] \in Seq(QItems) /\ K(q) \in SUBSET DOMAIN Q[q]
      BY SoundItems
    <2>3. \A k \in K(q) : k \in DOMAIN Q[q] /\ Primary(Q[q][k]) \notin I
      OBVIOUS
    <2> HIDE DEF K
    <2> QED BY <2>1, <2>2, <2>3, Filtered
  <1> HIDE DEF From
  <1>2. R \in [Names -> Seq(QItems)]
    <2>1. R = [q \in Names |-> R[q]]
      BY DEF Without
    <2> QED BY <1>1, <2>1
  <1>3. Manned(Q) /\ Apart(Q) /\ Matches(Q, status) /\ Known(Q, status)
    BY DEF Sound
  <1>4. Manned(R)
    BY <1>1, <1>3 DEF Manned
  <1>5. Apart(R)
    <2> SUFFICES ASSUME NEW q \in Names, NEW r \in Names, NEW k \in DOMAIN R[q], NEW l \in DOMAIN R[r],
                        NEW m \in DOMAIN R[q][k].owners, NEW n \in DOMAIN R[r][l].owners,
                        R[q][k].owners[m] = R[r][l].owners[n]
                 PROVE  q = r /\ k = l /\ m = n
      BY DEF Apart
    <2>1. From(q, k) \in DOMAIN Q[q] /\ R[q][k] = Q[q][From(q, k)]
      BY <1>1
    <2>2. From(r, l) \in DOMAIN Q[r] /\ R[r][l] = Q[r][From(r, l)]
      BY <1>1
    <2>3. q = r /\ From(q, k) = From(r, l) /\ m = n
      BY <1>3, <2>1, <2>2 DEF Apart
    <2> QED BY <1>1, <2>3
  <1>6. Matches(R, after)
    <2> SUFFICES ASSUME NEW q \in Names, NEW k \in DOMAIN R[q]
                 PROVE  after[Primary(R[q][k])] = IF R[q][k].sent THEN "Fetching" ELSE "Idle"
      BY DEF Matches
    <2> DEFINE f == From(q, k)
    <2>1. f \in DOMAIN Q[q] /\ R[q][k] = Q[q][f] /\ Primary(Q[q][f]) \notin I
      BY <1>1
    <2> HIDE DEF f
    <2>2. status[Primary(Q[q][f])] = IF Q[q][f].sent THEN "Fetching" ELSE "Idle"
      BY <1>3, <2>1 DEF Matches
    <2> QED BY <2>1, <2>2
  <1>7. Known(R, after)
    <2> SUFFICES ASSUME NEW q \in Names, NEW k \in DOMAIN R[q], NEW n \in DOMAIN R[q][k].owners
                 PROVE  after[R[q][k].owners[n]] # "New"
      BY DEF Known
    <2>1. From(q, k) \in DOMAIN Q[q] /\ R[q][k] = Q[q][From(q, k)]
      BY <1>1
    <2>2. Q[q][From(q, k)].owners[n] \in Items /\ status[Q[q][From(q, k)].owners[n]] # "New"
      BY <2>1, SoundItems
    <2> QED BY <2>1, <2>2
  <1>8. \A i \in Items : OwnedIn(R, i) =>
          \E q \in Names : \E k \in DOMAIN Q[q] : i \in Range(Q[q][k].owners) /\ Primary(Q[q][k]) \notin I
    BY <1>1 DEF OwnedIn
  <1> QED BY <1>1, <1>2, <1>4, <1>5, <1>6, <1>7, <1>8 DEF Sound, Rest

\* R has nothing but what Q has and the item i
Added(Q, i, R) ==
  /\ \A r \in Names : \A k \in DOMAIN R[r] :
       \/ Primary(R[r][k]) = i
       \/ \E m \in DOMAIN Q[r] : Primary(Q[r][m]) = Primary(R[r][k]) /\ R[r][k].sent = Q[r][m].sent
  /\ \A j \in Items : OwnedIn(R, j) => j = i \/ OwnedIn(Q, j)

\* w is s with e put in at position p.
PutIn(w, S, s, p, e) ==
  /\ w \in Seq(S) /\ Len(w) = Len(s) + 1
  /\ \A k \in 1..(Len(s) + 1) : w[k] = IF k < p THEN s[k] ELSE IF k = p THEN e ELSE s[k - 1]

\* Where the elements are after an insertion.
LEMMA Inserted ==
  ASSUME NEW S, NEW s \in Seq(S), NEW p \in 1..(Len(s) + 1), NEW e \in S
  PROVE  PutIn(InsertAt(s, p, e), S, s, p, e)
  <1> DEFINE a == SubSeq(s, 1, p - 1)
             z == SubSeq(s, p, Len(s))
             t == a \o <<e>>
  <1>1. Len(s) \in Nat /\ p \in Int /\ 1 <= p /\ p <= Len(s) + 1
    OBVIOUS
  <1>2. a \in Seq(S) /\ Len(a) = p - 1 /\ \A k \in 1..(p - 1) : a[k] = s[k]
    BY <1>1
  <1>3. z \in Seq(S) /\ Len(z) = Len(s) - p + 1 /\ \A k \in 1..(Len(s) - p + 1) : z[k] = s[p + k - 1]
    BY <1>1
  <1> HIDE DEF a, z
  <1>4. t \in Seq(S) /\ Len(t) = p /\ t[p] = e /\ \A k \in 1..(p - 1) : t[k] = s[k]
    BY <1>1, <1>2
  <1> HIDE DEF t
  <1> DEFINE w == t \o z
  <1>5. InsertAt(s, p, e) = w
    BY DEF InsertAt, t, a, z
  <1>6. /\ w \in Seq(S) /\ Len(w) = Len(s) + 1
        /\ \A k \in 1..p : w[k] = t[k]
        /\ \A k \in 1..(Len(s) - p + 1) : w[p + k] = z[k]
    <2>1. w \in Seq(S) /\ Len(w) = Len(t) + Len(z)
      BY <1>3, <1>4
    <2>2. Len(t) + Len(z) = Len(s) + 1
      BY <1>1, <1>3, <1>4
    <2>3. \A k \in 1..Len(t) : w[k] = t[k]
      BY <1>3, <1>4
    <2>4. \A k \in 1..Len(z) : w[Len(t) + k] = z[k]
      BY <1>3, <1>4
    <2> QED BY <1>3, <1>4, <2>1, <2>2, <2>3, <2>4
  <1> HIDE DEF w
  <1>7. ASSUME NEW k \in 1..(Len(s) + 1)
        PROVE  w[k] = IF k < p THEN s[k] ELSE IF k = p THEN e ELSE s[k - 1]
    <2>1. CASE k = p
      BY <1>1, <1>4, <1>6, <2>1
    <2>2. CASE k < p
      <3>1. k \in 1..(p - 1) /\ k \in 1..p
        BY <1>1, <2>2
      <3> QED BY <1>4, <1>6, <2>2, <3>1
    <2>3. CASE k > p
      <3>1. k - p \in 1..(Len(s) - p + 1) /\ p + (k - p) = k /\ p + (k - p) - 1 = k - 1
        BY <1>1, <2>3
      <3>2. w[k] = z[k - p] /\ z[k - p] = s[k - 1]
        BY <1>3, <1>6, <3>1
      <3> QED BY <1>1, <2>3, <3>2
    <2> QED BY <1>1, <2>1, <2>2, <2>3
  <1> QED BY <1>5, <1>6, <1>7 DEF PutIn

\* A new QItem of an item that is in no queue.
LEMMA Inserting ==
  ASSUME NEW Q, NEW status, Sound(Q, status), NEW q \in Names, NEW i \in Items, ~OwnedIn(Q, i),
         NEW p \in 1..(Len(Q[q]) + 1), NEW u \in Uris,
         NEW R, R = [Q EXCEPT ![q] = InsertAt(Q[q], p, [uri |-> u, owners |-> <<i>>, sent |-> FALSE])],
         NEW after, after = [status EXCEPT ![i] = "Idle"]
  PROVE  Sound(R, after) /\ Added(Q, i, R)
  <1> DEFINE e == [uri |-> u, owners |-> <<i>>, sent |-> FALSE]
             From(r, k) == IF r = q /\ k > p THEN k - 1 ELSE k
             IsNew(r, k) == r = q /\ k = p
  <1>1. Q \in [Names -> Seq(QItems)] /\ Apart(Q) /\ Matches(Q, status) /\ status \in [Items -> Statuses]
    BY DEF Sound
  <1>2. e \in QItems /\ e.owners = <<i>> /\ ~e.sent /\ Primary(e) = i
    BY DEF QItems, Primary
  <1>3. Q[q] \in Seq(QItems) /\ DOMAIN Q[q] = 1..Len(Q[q]) /\ Len(Q[q]) \in Nat
    BY SoundItems
  <1>2a. e.owners # <<>> /\ (\A x \in DOMAIN e.owners : x = 1 /\ e.owners[x] = i) /\ Range(e.owners) = {i}
    BY <1>2 DEF Range
  <1> HIDE DEF e
  <1>4. R = [Q EXCEPT ![q] = InsertAt(Q[q], p, e)]
    BY DEF e
  <1>5. /\ InsertAt(Q[q], p, e) \in Seq(QItems) /\ Len(InsertAt(Q[q], p, e)) = Len(Q[q]) + 1
        /\ \A k \in 1..(Len(Q[q]) + 1) :
             InsertAt(Q[q], p, e)[k] = IF k < p THEN Q[q][k] ELSE IF k = p THEN e ELSE Q[q][k - 1]
    <2>1. PutIn(InsertAt(Q[q], p, e), QItems, Q[q], p, e)
      BY ONLY <1>2, <1>3, p \in 1..(Len(Q[q]) + 1), Inserted
    <2> QED BY ONLY <2>1 DEF PutIn
  <1>6. R \in [Names -> Seq(QItems)] /\ R[q] = InsertAt(Q[q], p, e) /\ \A r \in Names : r # q => R[r] = Q[r]
    BY <1>1, <1>4, <1>5
  <1>7. DOMAIN R[q] = 1..(Len(Q[q]) + 1)
    BY <1>3, <1>5, <1>6
  <1>8. ASSUME NEW r \in Names, NEW k \in DOMAIN R[r]
        PROVE  /\ IsNew(r, k) => R[r][k] = e
               /\ ~IsNew(r, k) => From(r, k) \in DOMAIN Q[r] /\ R[r][k] = Q[r][From(r, k)]
    <2>1. CASE r # q
      BY <1>6, <2>1
    <2>2. CASE r = q
      <3>1. k \in 1..(Len(Q[q]) + 1) /\ p \in Int
        BY <1>7, <2>2
      <3>2. R[r][k] = IF k < p THEN Q[q][k] ELSE IF k = p THEN e ELSE Q[q][k - 1]
        BY <1>5, <1>6, <2>2, <3>1
      <3>3. CASE k < p
        BY <1>3, <2>2, <3>1, <3>2, <3>3
      <3>4. CASE k = p
        BY <1>3, <2>2, <3>1, <3>2, <3>4
      <3>5. CASE k > p
        BY <1>3, <2>2, <3>1, <3>2, <3>5
      <3> QED BY <3>1, <3>3, <3>4, <3>5
    <2> QED BY <2>1, <2>2
  <1>9. ASSUME NEW r \in Names, NEW k \in DOMAIN R[r], NEW l \in DOMAIN R[r],
               ~IsNew(r, k), ~IsNew(r, l), From(r, k) = From(r, l)
        PROVE  k = l
    <2>1. CASE r # q
      BY <1>9, <2>1
    <2>2. CASE r = q
      <3>1. k \in Int /\ l \in Int /\ p \in Int
        BY <1>3, <1>7, <2>2
      <3> QED BY <1>9, <2>2, <3>1
    <2> QED BY <2>1, <2>2
  <1> HIDE DEF From, IsNew
  <1>10. \A r \in Names : \A k \in DOMAIN Q[r] : \A n \in DOMAIN Q[r][k].owners :
           Q[r][k].owners[n] # i /\ Q[r][k].owners[n] \in Items /\ status[Q[r][k].owners[n]] # "New"
    BY SoundItems
  <1>11. Manned(R)
    <2>1. Manned(Q)
      BY DEF Sound
    <2>2. ASSUME NEW r \in Names, NEW k \in DOMAIN R[r] PROVE R[r][k].owners # <<>>
      <3>1. R[r][k] = e \/ \E m \in DOMAIN Q[r] : R[r][k] = Q[r][m]
        BY <1>8
      <3> QED BY <1>2a, <2>1, <3>1 DEF Manned
    <2> QED BY <2>2 DEF Manned
  <1>12. Apart(R)
    <2> SUFFICES ASSUME NEW a \in Names, NEW b \in Names, NEW k \in DOMAIN R[a], NEW l \in DOMAIN R[b],
                        NEW m \in DOMAIN R[a][k].owners, NEW n \in DOMAIN R[b][l].owners,
                        R[a][k].owners[m] = R[b][l].owners[n]
                 PROVE  a = b /\ k = l /\ m = n
      BY DEF Apart
    <2>1. \A x \in DOMAIN e.owners : x = 1 /\ e.owners[x] = i
      BY <1>2a
    <2>2. CASE IsNew(a, k) /\ IsNew(b, l)
      <3>1. R[a][k] = e /\ R[b][l] = e
        BY <1>8, <2>2
      <3> QED BY <2>1, <2>2, <3>1 DEF IsNew
    <2>3. CASE IsNew(a, k) /\ ~IsNew(b, l)
      <3>1. R[a][k] = e /\ From(b, l) \in DOMAIN Q[b] /\ R[b][l] = Q[b][From(b, l)]
        BY <1>8, <2>3
      <3> QED BY <1>10, <2>1, <3>1
    <2>4. CASE ~IsNew(a, k) /\ IsNew(b, l)
      <3>1. R[b][l] = e /\ From(a, k) \in DOMAIN Q[a] /\ R[a][k] = Q[a][From(a, k)]
        BY <1>8, <2>4
      <3> QED BY <1>10, <2>1, <3>1
    <2>5. CASE ~IsNew(a, k) /\ ~IsNew(b, l)
      <3>1. From(a, k) \in DOMAIN Q[a] /\ R[a][k] = Q[a][From(a, k)]
        BY <1>8, <2>5
      <3>2. From(b, l) \in DOMAIN Q[b] /\ R[b][l] = Q[b][From(b, l)]
        BY <1>8, <2>5
      <3>3. a = b /\ From(a, k) = From(b, l) /\ m = n
        BY <1>1, <3>1, <3>2 DEF Apart
      <3> QED BY <1>9, <2>5, <3>3
    <2> QED BY <2>2, <2>3, <2>4, <2>5
  <1>13. after \in [Items -> Statuses] /\ after[i] = "Idle" /\ \A j \in Items : j # i => after[j] = status[j]
    BY <1>1 DEF Statuses
  <1>14. Matches(R, after)
    <2> SUFFICES ASSUME NEW r \in Names, NEW k \in DOMAIN R[r]
                 PROVE  after[Primary(R[r][k])] = IF R[r][k].sent THEN "Fetching" ELSE "Idle"
      BY DEF Matches
    <2>1. CASE IsNew(r, k)
      BY <1>2, <1>8, <1>13, <2>1
    <2>2. CASE ~IsNew(r, k)
      <3> DEFINE f == From(r, k)
      <3>1. f \in DOMAIN Q[r] /\ R[r][k] = Q[r][f]
        BY <1>8, <2>2
      <3> HIDE DEF f
      <3>2. Primary(Q[r][f]) # i /\ Primary(Q[r][f]) \in Items
        BY <1>10, <3>1, SoundItems
      <3>3. status[Primary(Q[r][f])] = IF Q[r][f].sent THEN "Fetching" ELSE "Idle"
        BY <1>1, <3>1 DEF Matches
      <3> QED BY <1>13, <3>1, <3>2, <3>3
    <2> QED BY <2>1, <2>2
  <1>15. Known(R, after)
    <2> SUFFICES ASSUME NEW r \in Names, NEW k \in DOMAIN R[r], NEW n \in DOMAIN R[r][k].owners
                 PROVE  after[R[r][k].owners[n]] # "New"
      BY DEF Known
    <2>1. CASE IsNew(r, k)
      <3>1. R[r][k].owners[n] = i
        BY <1>2a, <1>8, <2>1
      <3> QED BY <1>13, <3>1
    <2>2. CASE ~IsNew(r, k)
      <3>1. From(r, k) \in DOMAIN Q[r] /\ R[r][k] = Q[r][From(r, k)]
        BY <1>8, <2>2
      <3> QED BY <1>10, <1>13, <3>1
    <2> QED BY <2>1, <2>2
  <1>16. \A j \in Items : OwnedIn(R, j) => j = i \/ OwnedIn(Q, j)
    <2> SUFFICES ASSUME NEW j \in Items, NEW r \in Names, NEW k \in DOMAIN R[r], j \in Range(R[r][k].owners), j # i
                 PROVE  OwnedIn(Q, j)
      BY DEF OwnedIn
    <2>2. ~IsNew(r, k)
      BY <1>2a, <1>8
    <2>3. From(r, k) \in DOMAIN Q[r] /\ R[r][k] = Q[r][From(r, k)]
      BY <1>8, <2>2
    <2>4. j \in Range(Q[r][From(r, k)].owners)
      BY <2>3
    <2> QED BY ONLY <2>3, <2>4, r \in Names DEF OwnedIn
  <1>17. Sound(R, after)
    BY <1>6, <1>11, <1>12, <1>13, <1>14, <1>15 DEF Sound
  <1>18. \A r \in Names : \A k \in DOMAIN R[r] :
           \/ r = q /\ k = p /\ R[r][k] = e
           \/ \E m \in DOMAIN Q[r] : R[r][k] = Q[r][m]
    BY <1>8 DEF IsNew
  <1> QED BY <1>2, <1>16, <1>17, <1>18 DEF Added

\* the queues when i becomes another owner of the QItem at position k
QueuesShared(Q, q, k, i) == [Q EXCEPT ![q][k].owners = Append(@, i)]

\* An item that is in no queue becomes another owner of a QItem.
LEMMA Sharing ==
  ASSUME NEW Q, NEW status, Sound(Q, status), NEW q \in Names, NEW i \in Items, ~OwnedIn(Q, i),
         NEW k \in DOMAIN Q[q], NEW R, R = QueuesShared(Q, q, k, i),
         NEW st \in Statuses \ {"New"}, NEW after, after = [status EXCEPT ![i] = st]
  PROVE  Sound(R, after) /\ Added(Q, i, R)
  <1> DEFINE x == Q[q][k]
             o == x.owners
             y == [x EXCEPT !.owners = Append(o, i)]
  <1>1. Q \in [Names -> Seq(QItems)] /\ Apart(Q) /\ Matches(Q, status) /\ status \in [Items -> Statuses]
    BY DEF Sound
  <1>2. Q[q] \in Seq(QItems) /\ DOMAIN Q[q] = 1..Len(Q[q]) /\ x \in QItems /\ o \in Seq(Items) /\ 1 \in DOMAIN o
    BY SoundItems
  <1>3. \A r \in Names : \A l \in DOMAIN Q[r] :
          /\ Primary(Q[r][l]) = Q[r][l].owners[1] /\ 1 \in DOMAIN Q[r][l].owners
          /\ \A n \in DOMAIN Q[r][l].owners :
               Q[r][l].owners[n] # i /\ Q[r][l].owners[n] \in Items /\ status[Q[r][l].owners[n]] # "New"
    BY SoundItems
  <1>4. y \in QItems /\ y.owners = Append(o, i) /\ y.sent = x.sent
    <2>1. Append(o, i) \in Seq(Items)
      BY <1>2
    <2>2. x \in [uri : Uris, owners : Seq(Items), sent : BOOLEAN]
      BY <1>2 DEF QItems
    <2> HIDE DEF x, o
    <2> QED BY <2>1, <2>2 DEF QItems
  <1>5. R = [Q EXCEPT ![q] = [Q[q] EXCEPT ![k] = y]]
    BY DEF QueuesShared
  <1> HIDE DEF y
  <1>6. R \in [Names -> Seq(QItems)] /\ R[q] = [Q[q] EXCEPT ![k] = y] /\ \A r \in Names : r # q => R[r] = Q[r]
    <2>1. [Q[q] EXCEPT ![k] = y] \in [1..Len(Q[q]) -> QItems] /\ Len(Q[q]) \in Nat
      <3>1. Len(Q[q]) \in Nat /\ Q[q] \in [1..Len(Q[q]) -> QItems]
        BY <1>2
      <3> QED BY <1>4, <3>1
    <2>2. [Q[q] EXCEPT ![k] = y] \in Seq(QItems)
      BY <2>1, FunctionIsSeq
    <2> QED BY <1>1, <1>5, <2>2
  <1>7. ASSUME NEW r \in Names
        PROVE  /\ DOMAIN R[r] = DOMAIN Q[r]
               /\ \A l \in DOMAIN Q[r] : R[r][l] = IF r = q /\ l = k THEN y ELSE Q[r][l]
    <2>1. CASE r # q
      BY <1>6, <2>1
    <2>2. CASE r = q
      BY <1>2, <1>6, <2>2
    <2> QED BY <2>1, <2>2
  <1>8. /\ DOMAIN y.owners = 1..(Len(o) + 1) /\ DOMAIN o = 1..Len(o) /\ Len(o) \in Nat
        /\ \A n \in DOMAIN o : n \in DOMAIN y.owners /\ y.owners[n] = o[n]
        /\ y.owners[Len(o) + 1] = i
    BY <1>2, <1>4
  <1>9. \A n \in DOMAIN y.owners : (n \in DOMAIN o /\ y.owners[n] = o[n]) \/ (n = Len(o) + 1 /\ y.owners[n] = i)
    BY <1>8
  <1>10. y.owners # <<>> /\ Primary(y) = Primary(x)
    <2>1. y.owners \in Seq(Items) /\ y.owners # <<>> /\ Head(y.owners) = y.owners[1]
      BY <1>2, <1>4, <1>8
    <2> QED BY <1>2, <1>3, <1>8, <2>1 DEF Primary
  <1>11. ASSUME NEW r \in Names, NEW l \in DOMAIN R[r], NEW n \in DOMAIN R[r][l].owners
         PROVE  \/ n \in DOMAIN Q[r][l].owners /\ R[r][l].owners[n] = Q[r][l].owners[n]
                \/ r = q /\ l = k /\ n = Len(o) + 1 /\ R[r][l].owners[n] = i
    <2>1. l \in DOMAIN Q[r] /\ R[r][l] = IF r = q /\ l = k THEN y ELSE Q[r][l]
      BY <1>7
    <2> QED BY <1>9, <2>1
  <1>12. Manned(R)
    <2>1. Manned(Q)
      BY DEF Sound
    <2> QED BY <1>7, <1>10, <2>1 DEF Manned
  <1>13. Apart(R)
    <2> SUFFICES ASSUME NEW a \in Names, NEW b \in Names, NEW l \in DOMAIN R[a], NEW h \in DOMAIN R[b],
                        NEW m \in DOMAIN R[a][l].owners, NEW n \in DOMAIN R[b][h].owners,
                        R[a][l].owners[m] = R[b][h].owners[n]
                 PROVE  a = b /\ l = h /\ m = n
      BY DEF Apart
    <2>0. l \in DOMAIN Q[a] /\ h \in DOMAIN Q[b]
      BY <1>7
    <2>1. CASE R[a][l].owners[m] = i
      <3>1. a = q /\ l = k /\ m = Len(o) + 1
        BY <1>3, <1>11, <2>0, <2>1
      <3>2. b = q /\ h = k /\ n = Len(o) + 1
        <4>1. R[b][h].owners[n] = i
          BY <2>1
        <4> QED BY <1>3, <1>11, <2>0, <4>1
      <3> QED BY <3>1, <3>2
    <2>2. CASE R[a][l].owners[m] # i
      <3>1. m \in DOMAIN Q[a][l].owners /\ R[a][l].owners[m] = Q[a][l].owners[m]
        BY <1>11, <2>2
      <3>2. n \in DOMAIN Q[b][h].owners /\ R[b][h].owners[n] = Q[b][h].owners[n]
        BY <1>11, <2>2
      <3>3. Q[a][l].owners[m] = Q[b][h].owners[n]
        BY <3>1, <3>2
      <3>4. Apart(Q)
        BY <1>1
      <3> QED BY ONLY <2>0, <3>1, <3>2, <3>3, <3>4, a \in Names, b \in Names DEF Apart
    <2> QED BY <2>1, <2>2
  <1>14. \A r \in Names : \A l \in DOMAIN Q[r] : R[r][l].sent = Q[r][l].sent /\ Primary(R[r][l]) = Primary(Q[r][l])
    <2> TAKE r \in Names
    <2> TAKE l \in DOMAIN Q[r]
    <2>1. CASE r = q /\ l = k
      <3>1. R[r][l] = y
        BY <1>7, <2>1
      <3>2. y.sent = Q[r][l].sent /\ Primary(y) = Primary(Q[r][l])
        BY <1>4, <1>10, <2>1
      <3> QED BY <3>1, <3>2
    <2>2. CASE ~(r = q /\ l = k)
      <3>1. R[r][l] = Q[r][l]
        BY <1>7, <2>2
      <3> QED BY <3>1
    <2> QED BY <2>1, <2>2
  <1>15. after \in [Items -> Statuses] /\ after[i] = st /\ \A j \in Items : j # i => after[j] = status[j]
    BY <1>1
  <1>16. Matches(R, after)
    <2> SUFFICES ASSUME NEW r \in Names, NEW l \in DOMAIN R[r]
                 PROVE  after[Primary(R[r][l])] = IF R[r][l].sent THEN "Fetching" ELSE "Idle"
      BY DEF Matches
    <2>1. l \in DOMAIN Q[r]
      BY <1>7
    <2>2. Primary(Q[r][l]) # i /\ Primary(Q[r][l]) \in Items
      BY <1>3, <2>1
    <2>3. status[Primary(Q[r][l])] = IF Q[r][l].sent THEN "Fetching" ELSE "Idle"
      BY <1>1, <2>1 DEF Matches
    <2>4. R[r][l].sent = Q[r][l].sent /\ Primary(R[r][l]) = Primary(Q[r][l])
      BY <1>14, <2>1
    <2>5. after[Primary(R[r][l])] = status[Primary(Q[r][l])]
      BY <1>15, <2>2, <2>4
    <2> QED BY <2>3, <2>4, <2>5, Zenon
  <1>17. Known(R, after)
    <2> SUFFICES ASSUME NEW r \in Names, NEW l \in DOMAIN R[r], NEW n \in DOMAIN R[r][l].owners
                 PROVE  after[R[r][l].owners[n]] # "New"
      BY DEF Known
    <2>1. l \in DOMAIN Q[r]
      BY <1>7
    <2>2. CASE R[r][l].owners[n] = i
      BY <1>15, <2>2
    <2>3. CASE R[r][l].owners[n] # i
      BY <1>3, <1>11, <1>15, <2>1, <2>3
    <2> QED BY <2>2, <2>3
  <1>18. \A j \in Items : OwnedIn(R, j) => j = i \/ OwnedIn(Q, j)
    <2> SUFFICES ASSUME NEW j \in Items, NEW r \in Names, NEW l \in DOMAIN R[r], NEW n \in DOMAIN R[r][l].owners,
                        j = R[r][l].owners[n], j # i
                 PROVE  OwnedIn(Q, j)
      BY DEF OwnedIn, Range
    <2>1. l \in DOMAIN Q[r]
      BY <1>7
    <2> QED BY <1>11, <2>1 DEF OwnedIn, Range
  <1>19. Sound(R, after)
    BY <1>6, <1>12, <1>13, <1>15, <1>16, <1>17 DEF Sound
  <1>20. \A r \in Names : DOMAIN R[r] = DOMAIN Q[r]
    BY <1>7
  <1> QED BY <1>14, <1>18, <1>19, <1>20 DEF Added

-----------------------------------------------------------------------------
(* What the operations do *)

\* What AbortIsFinal says of a step.
SentBefore ==
  \A q \in Names : \A k \in DOMAIN Queue'[q] :
    aborted /\ Queue'[q][k].sent /\ Primary(Queue'[q][k]) \in Txn
      => \E m \in Sent(q) : Primary(Queue[q][m]) = Primary(Queue'[q][k])

\* Only i may come into the queues, and what was sent stays so.
OnlyNew(i) ==
  \A q \in Names : \A k \in DOMAIN Queue'[q] :
    \/ Primary(Queue'[q][k]) = i
    \/ \E m \in DOMAIN Queue[q] : /\ Primary(Queue[q][m]) = Primary(Queue'[q][k])
                                  /\ Queue[q][m].sent => Queue'[q][k].sent

\* What the handling of one item i leaves of the invariant.
Effect(i) ==
  /\ Sound(Queue', Status') /\ Leftovers' /\ SentBefore
  /\ queues' \subseteq Names /\ AlternativeURIs' \in [Items -> Seq(Uris)] /\ aborted' \in BOOLEAN
  /\ Status'[i] # "New" /\ \A j \in Items \ {i} : Status'[j] = "New" <=> Status[j] = "New"
  /\ \A j \in Items \ {i} : OwnedIn(Queue', j) => OwnedIn(Queue, j)

\* An item of an aborted transaction does not come back into the queues.
LEMMA StaysAborted ==
  ASSUME Leftovers, NEW i, OnlyNew(i), ~Doomed(i), aborted' = aborted, run' = run
  PROVE  Leftovers' /\ SentBefore
  <1>1. ASSUME aborted, NEW q \in Names, NEW k \in DOMAIN Queue'[q], Primary(Queue'[q][k]) \in Txn
        PROVE  Queue'[q][k].sent /\ \E m \in Sent(q) : Primary(Queue[q][m]) = Primary(Queue'[q][k])
    <2>1. PICK m \in DOMAIN Queue[q] : /\ Primary(Queue[q][m]) = Primary(Queue'[q][k])
                                       /\ Queue[q][m].sent => Queue'[q][k].sent
      BY <1>1 DEF OnlyNew, Doomed
    <2>2. Queue[q][m].sent
      BY <1>1, <2>1 DEF Leftovers
    <2> QED BY <2>1, <2>2 DEF Sent
  <1> QED BY <1>1 DEF Leftovers, SentBefore

\* the step makes of Q and status what Cycle makes of them
Cycled(Q, status) ==
  /\ \A r \in Names : /\ DOMAIN Queue'[r] = DOMAIN Q[r]
                      /\ \A k \in DOMAIN Q[r] : /\ Queue'[r][k].owners = Q[r][k].owners
                                                /\ Primary(Queue'[r][k]) = Primary(Q[r][k])
                                                /\ Q[r][k].sent => Queue'[r][k].sent
  /\ \A i \in Items : Status'[i] = "New" <=> status[i] = "New"
  /\ \A i \in Items : OwnedIn(Queue', i) <=> OwnedIn(Q, i)

\* Cycle sends some idle QItems of its queue and changes nothing else.
LEMMA Cycling ==
  ASSUME NEW Q, NEW status, Sound(Q, status), NEW q \in Names, NEW w, NEW after, NEW depth, NEW asked,
         Cycle(q, w, Q, status, after, depth, asked)
  PROVE  Sound(Queue', Status') /\ Cycled(Q, status)
  <1> DEFINE sent == CycleSent(q, w, Q[q], status, after, depth)
  <1>1. sent \in SUBSET DOMAIN Q[q] /\ \A k \in sent : status[Primary(Q[q][k])] = "Idle"
    BY DEF CycleSent
  <1> HIDE DEF sent
  <1>2. Queue' = QueuesSent(Q, q, sent) /\ Status' = StatusSent(Q, q, sent, status)
    BY DEF Cycle, sent, QueuesSent, StatusSent
  <1>3. /\ Sound(Queue', Status')
        /\ \A r \in Names : /\ DOMAIN Queue'[r] = DOMAIN Q[r]
                            /\ \A k \in DOMAIN Q[r] :
                                 /\ Queue'[r][k].owners = Q[r][k].owners /\ Queue'[r][k].uri = Q[r][k].uri
                                 /\ Queue'[r][k].sent <=> Q[r][k].sent \/ (r = q /\ k \in sent)
        /\ \A k \in sent : ~Q[q][k].sent
        /\ \A i \in Items : Status'[i] # status[i] => Status'[i] = "Fetching" /\ OwnedIn(Q, i)
        /\ \A i \in Items : OwnedIn(Queue', i) <=> OwnedIn(Q, i)
    BY <1>1, <1>2, Sending
  <1>4. \A i \in Items : OwnedIn(Q, i) => status[i] # "New"
    BY DEF Sound, Known, OwnedIn, Range
  <1>5. \A i \in Items : Status'[i] = "New" <=> status[i] = "New"
    BY <1>3, <1>4
  <1>6. \A r \in Names : \A k \in DOMAIN Q[r] : Primary(Queue'[r][k]) = Primary(Q[r][k])
    BY <1>3 DEF Primary
  <1> QED BY <1>3, <1>5, <1>6 DEF Cycled

\* Failed, with the abort of the transaction it may cause.
LEMMA Failing ==
  ASSUME Types, Sound(Queue, Status), Leftovers, run # "setup", run' = run,
         NEW i \in Items, NEW st \in Statuses \ {"New"}, NEW parked \in BOOLEAN,
         NEW alternatives \in [Items -> Seq(Uris)], Failed(i, st, parked, alternatives)
  PROVE  Effect(i) /\ \A j \in Items : OwnedIn(Queue', j) => OwnedIn(Queue, j)
  <1> DEFINE others == IF i \in Txn /\ ~aborted THEN AbortDequeues(i) ELSE {}
             dequeued == {i} \cup others
  <1>1. /\ Queue' = Without(Queue, dequeued)
        /\ aborted' = (aborted \/ i \in Txn)
        /\ queues' = queues
        /\ AlternativeURIs' = [j \in Items |-> IF j \in dequeued THEN <<>> ELSE alternatives[j]]
    BY DEF Failed
  <1>2. PICK settled \in Statuses \ {"New"} :
          Status' = [j \in Items |-> CASE j = i -> settled
                                       [] j \in others /\ Status[j] = "Idle" -> "Done"
                                       [] OTHER -> Status[j]]
    <2> DEFINE s == CASE parked -> IF i \in Txn /\ ~aborted THEN "Done" ELSE "Idle"
                      [] ~parked /\ st \in {"Idle", "Fetching", "Done"} -> "Error"
                      [] OTHER -> st
    <2>1. s \in Statuses \ {"New"}
      BY DEF Statuses
    <2>2. Status' = [j \in Items |-> CASE j = i -> s
                                       [] j \in others /\ Status[j] = "Idle" -> "Done"
                                       [] OTHER -> Status[j]]
      BY DEF Failed
    <2> QED BY <2>1, <2>2
  <1>3. i \notin others
    BY DEF AbortDequeues
  <1> HIDE DEF others
  <1>4. /\ Status' \in [Items -> Statuses]
        /\ Status'[i] # "New"
        /\ \A j \in Items : j \notin dequeued => Status'[j] = Status[j]
        /\ \A j \in Items \ {i} : Status'[j] = "New" <=> Status[j] = "New"
    <2>1. Status \in [Items -> Statuses]
      BY DEF Sound
    <2>2. \A j \in Items : Status'[j] = IF j = i THEN settled ELSE IF j \in others /\ Status[j] = "Idle" THEN "Done" ELSE Status[j]
      BY <1>2, <1>3
    <2>3. "Done" \in Statuses /\ DOMAIN Status' = Items /\ Status' = [j \in Items |-> Status'[j]]
      BY <1>2 DEF Statuses
    <2>4. \A j \in Items : Status'[j] \in Statuses
      BY <2>1, <2>2, <2>3
    <2>5. Status' \in [Items -> Statuses]
      BY <2>3, <2>4
    <2> QED BY <2>2, <2>5
  <1>5. \A q \in Names : \A k \in DOMAIN Queue[q] : Primary(Queue[q][k]) \in Items
    BY SoundItems
  <1>6. /\ Sound(Queue', Status')
        /\ \A q \in Names : \A k \in DOMAIN Queue'[q] :
             \E m \in DOMAIN Queue[q] : Queue'[q][k] = Queue[q][m] /\ Primary(Queue[q][m]) \notin dequeued
        /\ \A j \in Items : OwnedIn(Queue', j) => OwnedIn(Queue, j)
    <2>1. SameBut(Queue, dequeued, Status, Status')
      BY <1>4, <1>5 DEF SameBut
    <2>2. Queue' = Without(Queue, dequeued) /\ Status' \in [Items -> Statuses]
      BY <1>1, <1>4
    <2> HIDE DEF dequeued
    <2>3. Sound(Queue', Status') /\ Rest(Queue, dequeued, Queue')
      BY <2>1, <2>2, Removing
    <2> QED BY <2>3 DEF OwnedIn, Rest
  <1>7. ASSUME aborted', NEW q \in Names, NEW k \in DOMAIN Queue'[q], Primary(Queue'[q][k]) \in Txn
        PROVE  Queue'[q][k].sent
    <2>1. PICK m \in DOMAIN Queue[q] : Queue'[q][k] = Queue[q][m] /\ Primary(Queue[q][m]) \notin dequeued
      BY <1>6
    <2>2. CASE aborted
      BY <1>7, <2>1, <2>2 DEF Leftovers
    <2>3. CASE ~aborted
      <3> DEFINE p == Primary(Queue[q][m])
      <3>1. p \notin AbortDequeues(i) /\ p # i /\ p \in Txn
        BY <1>1, <1>7, <2>1, <2>3 DEF others
      <3>2. Status[p] \in {"New", "Fetching"}
        BY <3>1 DEF AbortDequeues
      <3>3. Status[p] = IF Queue[q][m].sent THEN "Fetching" ELSE "Idle"
        BY <2>1 DEF Sound, Matches
      <3> HIDE DEF p
      <3> QED BY <2>1, <3>2, <3>3
    <2> QED BY <2>2, <2>3
  <1>8. Leftovers'
    BY <1>7 DEF Leftovers
  <1>9. SentBefore
    BY <1>6 DEF SentBefore, Sent
  <1>10. AlternativeURIs' \in [Items -> Seq(Uris)]
    <2> HIDE DEF dequeued
    <2>1. <<>> \in Seq(Uris)
      OBVIOUS
    <2> QED BY <1>1, <2>1
  <1>11. queues' \subseteq Names /\ aborted' \in BOOLEAN
    BY <1>1 DEF Types
  <1> QED BY <1>4, <1>6, <1>8, <1>9, <1>10, <1>11 DEF Effect

\* Where a new QItem may go, and which one an item may share.
LEMMA Places ==
  ASSUME Sound(Queue, Status), NEW q \in Names, NEW i, NEW u, NEW after
  PROVE  /\ InsertAfter(q, i, after) + 1 \in 1..(Len(Queue[q]) + 1)
         /\ SharedWith(q, i, u) # 0 => SharedWith(q, i, u) \in DOMAIN Queue[q]
  <1>1. DOMAIN Queue[q] = 1..Len(Queue[q]) /\ Len(Queue[q]) \in Nat
    BY SoundItems
  <1>2. ASSUME NEW K \in SUBSET (DOMAIN Queue[q])
        PROVE  Max({0} \cup K) \in 0..Len(Queue[q])
    <2>1. {0} \cup K \in SUBSET (0..Len(Queue[q])) /\ {0} \cup K # {}
      BY <1>1
    <2> QED BY <1>1, <2>1, GreatestPosition
  <1>3. InsertAfter(q, i, after) \in 0..Len(Queue[q])
    BY <1>2 DEF InsertAfter
  <1>4. ASSUME NEW K \in SUBSET (DOMAIN Queue[q]), K # {}
        PROVE  Min(K) \in DOMAIN Queue[q]
    <2>1. K \in SUBSET Nat
      BY <1>1
    <2> QED BY <1>4, <2>1, LeastPosition
  <1>5. SharedWith(q, i, u) # 0 => SharedWith(q, i, u) \in DOMAIN Queue[q]
    BY <1>4 DEF SharedWith
  <1> QED BY <1>1, <1>3, <1>5

\* Queue::Enqueue puts its item into the queue, sent or not, and no other.
LEMMA Enqueuing ==
  ASSUME Sound(Queue, Status), NEW q \in Names, NEW i \in Items, ~OwnedIn(Queue, i), NEW u \in Uris,
         NEW w, NEW after, Insert(q, w, i, u, after)
  PROVE  /\ Sound(Queue', Status') /\ OnlyNew(i)
         /\ Status'[i] # "New" /\ \A j \in Items \ {i} : Status'[j] = "New" <=> Status[j] = "New"
         /\ \A j \in Items \ {i} : OwnedIn(Queue', j) => OwnedIn(Queue, j)
  <1> DEFINE k == SharedWith(q, i, u)
             p == InsertAfter(q, i, after) + 1
             new == InsertAt(Queue[q], p, [uri |-> u, owners |-> <<i>>, sent |-> FALSE])
             R == [Queue EXCEPT ![q] = new]
             idle == [Status EXCEPT ![i] = "Idle"]
  <1>1. Status \in [Items -> Statuses]
    BY DEF Sound
  <1>2. CASE k # 0
    <2> DEFINE st == IF Primary(Queue[q][k]) = i THEN "Idle" ELSE Status[Primary(Queue[q][k])]
    <2>1. Queue' = QueuesShared(Queue, q, k, i) /\ Status' = [Status EXCEPT ![i] = st]
      BY <1>2 DEF Insert, QueuesShared
    <2>2. k \in DOMAIN Queue[q]
      BY <1>2, Places
    <2>3. st \in Statuses \ {"New"}
      <3>1. Primary(Queue[q][k]) \in Items /\ Status[Primary(Queue[q][k])] # "New"
        BY <2>2, SoundItems
      <3> QED BY <1>1, <3>1 DEF Statuses
    <2> HIDE DEF st, k
    <2>4. Sound(Queue', Status') /\ Added(Queue, i, Queue')
      BY <2>1, <2>2, <2>3, Sharing
    <2>5. Status'[i] # "New" /\ \A j \in Items \ {i} : Status'[j] = Status[j]
      BY <1>1, <2>1, <2>3
    <2> QED BY <2>4, <2>5 DEF Added, OnlyNew
  <1>3. CASE k = 0
    <2>1. p \in 1..(Len(Queue[q]) + 1)
      BY Places
    <2>2. \/ Cycle(q, w, R, idle, after, PipeDepth[q], inflight)
          \/ Queue' = R /\ Status' = idle
      BY <1>3 DEF Insert
    <2> HIDE DEF p
    <2>3. Sound(R, idle) /\ Added(Queue, i, R)
      BY <2>1, Inserting
    <2>4. idle[i] = "Idle" /\ \A j \in Items \ {i} : idle[j] = Status[j]
      BY <1>1
    <2> HIDE DEF R, idle
    <2>5. CASE Queue' = R /\ Status' = idle
      BY <2>3, <2>4, <2>5 DEF Added, OnlyNew
    <2>6. CASE Cycle(q, w, R, idle, after, PipeDepth[q], inflight)
      <3>1. Sound(Queue', Status') /\ Cycled(R, idle)
        BY <2>3, <2>6, Cycling
      <3>2. Status'[i] # "New" /\ \A j \in Items \ {i} : Status'[j] = "New" <=> Status[j] = "New"
        BY <2>4, <3>1 DEF Cycled
      <3>3. \A j \in Items \ {i} : OwnedIn(Queue', j) => OwnedIn(Queue, j)
        BY <2>3, <3>1 DEF Cycled, Added
      <3>4. OnlyNew(i)
        <4> SUFFICES ASSUME NEW r \in Names, NEW l \in DOMAIN Queue'[r], Primary(Queue'[r][l]) # i
                     PROVE  \E m \in DOMAIN Queue[r] : /\ Primary(Queue[r][m]) = Primary(Queue'[r][l])
                                                       /\ Queue[r][m].sent => Queue'[r][l].sent
          BY DEF OnlyNew
        <4>1. l \in DOMAIN R[r] /\ Primary(R[r][l]) = Primary(Queue'[r][l]) /\ (R[r][l].sent => Queue'[r][l].sent)
          BY <3>1 DEF Cycled
        <4>2. PICK m \in DOMAIN Queue[r] : Primary(Queue[r][m]) = Primary(R[r][l]) /\ R[r][l].sent = Queue[r][m].sent
          BY <2>3, <4>1 DEF Added
        <4> QED BY <4>1, <4>2
      <3> QED BY <3>1, <3>2, <3>3, <3>4
    <2> QED BY <2>2, <2>5, <2>6
  <1> QED BY <1>2, <1>3

\* QueueName names queues.
LEMMA QueueNames ==
  ASSUME NEW u \in Uris
  PROVE  QueueName(u) \subseteq Names
  <1> DEFINE existing == {k \in DOMAIN StoreQueue : StoreQueue[k] \in queues}
             empty    == {k \in existing : Queue[StoreQueue[k]] = <<>>}
  <1>1. /\ \A k \in DOMAIN StoreQueue : StoreQueue[k] \in Names
        /\ GenericQueue \in Names
        /\ \A r \in Uris \ StoreUris : HostQueue[r] \in Names
    BY ConstantsAssumption DEF Names, Range
  <1>2. DOMAIN StoreQueue = 1..Len(StoreQueue) /\ Len(StoreQueue) \in Nat
    BY ConstantsAssumption
  <1>3. empty # {} => Max(empty) \in DOMAIN StoreQueue
    <2>1. empty \in SUBSET (0..Len(StoreQueue))
      BY <1>2
    <2>2. empty \subseteq DOMAIN StoreQueue
      OBVIOUS
    <2> HIDE DEF empty
    <2> QED BY <1>2, <2>1, <2>2, GreatestPosition
  <1>4. Cardinality(existing) < Len(StoreQueue) => Cardinality(existing) + 1 \in DOMAIN StoreQueue
    <2>1. existing \in SUBSET (1..Len(StoreQueue))
      BY <1>2
    <2>2. Cardinality(existing) \in Nat
      BY <1>2, <2>1, Ranks
    <2> HIDE DEF existing
    <2> QED BY <1>2, <2>2
  <1>5. existing \subseteq DOMAIN StoreQueue
    OBVIOUS
  <1>6. CASE u \in StoreUris
    <2>1. QueueName(u) = IF empty # {} THEN {StoreQueue[Max(empty)]}
                         ELSE IF Cardinality(existing) < Len(StoreQueue) THEN {StoreQueue[Cardinality(existing) + 1]}
                         ELSE {StoreQueue[k] : k \in existing}
      BY <1>6 DEF QueueName
    <2> HIDE DEF empty, existing
    <2> QED BY <1>1, <1>3, <1>4, <1>5, <2>1
  <1>7. CASE u \notin StoreUris
    BY <1>1, <1>7 DEF QueueName
  <1> QED BY <1>6, <1>7

\* The status of an item that is in no queue is free.
LEMMA FreeStatus ==
  ASSUME Sound(Queue, Status), NEW i \in Items, ~OwnedIn(Queue, i), NEW st \in Statuses,
         Queue' = Queue, Status' = [Status EXCEPT ![i] = st]
  PROVE  /\ Sound(Queue', Status') /\ OnlyNew(i)
         /\ Status'[i] = st /\ \A j \in Items \ {i} : Status'[j] = Status[j]
  <1>1. /\ Queue \in [Names -> Seq(QItems)] /\ Status \in [Items -> Statuses]
        /\ Manned(Queue) /\ Apart(Queue) /\ Matches(Queue, Status) /\ Known(Queue, Status)
    BY DEF Sound
  <1>2. Status' \in [Items -> Statuses] /\ Status'[i] = st /\ \A j \in Items : j # i => Status'[j] = Status[j]
    BY <1>1
  <1>3. \A q \in Names : \A k \in DOMAIN Queue[q] :
          /\ Primary(Queue[q][k]) \in Items /\ Primary(Queue[q][k]) # i
          /\ \A n \in DOMAIN Queue[q][k].owners : Queue[q][k].owners[n] \in Items /\ Queue[q][k].owners[n] # i
    BY SoundItems
  <1>4. Matches(Queue, Status')
    BY <1>1, <1>2, <1>3 DEF Matches
  <1>5. Known(Queue, Status')
    BY <1>1, <1>2, <1>3 DEF Known
  <1>6. Sound(Queue', Status')
    BY <1>1, <1>2, <1>4, <1>5 DEF Sound
  <1> QED BY <1>2, <1>6 DEF OnlyNew

\* pkgAcquire::Enqueue, for an item that is in no queue.
LEMMA EnqueueEffect ==
  ASSUME Types, Sound(Queue, Status), Leftovers, run' = run,
         NEW i \in Items, ~OwnedIn(Queue, i), ~Doomed(i), NEW u \in Uris, NEW after, NEW past,
         NEW alternatives \in [Items -> Seq(Uris)], Enqueue(i, u, after, past, alternatives)
  PROVE  Effect(i)
  <1> DEFINE running == run \in {"startup", "running"}
             bad == IsRedirectionLoop(i, u, past) \/ i \in Weak
  <1>1. CASE /\ u \in NoMethod
             /\ Status' = [Status EXCEPT ![i] = "Error"]
             /\ AlternativeURIs' = alternatives
             /\ UNCHANGED <<queueVars, aborted, errors>>
    <2>1. "Error" \in Statuses /\ "Error" # "New"
      BY DEF Statuses
    <2>2. Queue' = Queue /\ queues' = queues /\ aborted' = aborted
      BY <1>1 DEF queueVars
    <2>3. /\ Sound(Queue', Status') /\ OnlyNew(i)
          /\ Status'[i] = "Error" /\ \A j \in Items \ {i} : Status'[j] = Status[j]
      BY <1>1, <2>1, <2>2, FreeStatus
    <2>4. Leftovers' /\ SentBefore
      BY <2>2, <2>3, StaysAborted
    <2> QED BY <1>1, <2>1, <2>2, <2>3, <2>4 DEF Effect, Types
  <1>2. CASE /\ u \notin NoMethod /\ running /\ bad
             /\ Failed(i, IF IsRedirectionLoop(i, u, past) THEN "Error" ELSE "AuthError", FALSE, alternatives)
    <2>1. (IF IsRedirectionLoop(i, u, past) THEN "Error" ELSE "AuthError") \in Statuses \ {"New"}
      BY DEF Statuses
    <2>2. run # "setup"
      BY <1>2
    <2> QED BY <1>2, <2>1, <2>2, Failing
  <1>3. CASE /\ u \notin NoMethod /\ ~(running /\ bad)
             /\ \E q \in QueueName(u) : queues' = queues \cup {q} /\ Insert(q, worker'[q], i, u, after)
             /\ AlternativeURIs' = alternatives
             /\ UNCHANGED <<aborted, errors>>
    <2>1. PICK q \in QueueName(u) : queues' = queues \cup {q} /\ Insert(q, worker'[q], i, u, after)
      BY <1>3
    <2>2. q \in Names
      BY QueueNames
    <2>3. /\ Sound(Queue', Status') /\ OnlyNew(i)
          /\ Status'[i] # "New" /\ \A j \in Items \ {i} : Status'[j] = "New" <=> Status[j] = "New"
          /\ \A j \in Items \ {i} : OwnedIn(Queue', j) => OwnedIn(Queue, j)
      BY <2>1, <2>2, Enqueuing
    <2>4. Leftovers' /\ SentBefore
      BY <1>3, <2>3, StaysAborted
    <2> QED BY <1>3, <2>1, <2>2, <2>3, <2>4 DEF Effect, Types
  <1> QED BY <1>1, <1>2, <1>3 DEF Enqueue

-----------------------------------------------------------------------------
(* The calls of a handler *)

\* work' is what is left of the calls when the first was made
Shifted ==
  /\ work' \in Seq(Calls) /\ Len(work') = Len(work) - 1
  /\ \A n \in 1..Len(work') : work'[n].op = work[n + 1].op /\ work'[n].item = work[n + 1].item

\* What CallsOK says while items are told something.
LEMMA TellingCalls ==
  ASSUME IInv, work # <<>>, Head(work).op \in Telling
  PROVE  /\ run = "running" /\ Head(work) = work[1] /\ 1 \in DOMAIN work /\ DOMAIN work = 1..Len(work) /\ Len(work) \in Nat
         /\ \A n \in DOMAIN work :
              /\ work[n] \in Calls /\ work[n].op \in Telling
              /\ work[n].item \in Items /\ work[n].item \in Pending /\ ~OwnedIn(Queue, work[n].item)
              /\ Status[work[n].item] = "New" <=> work[n].op = "new"
         /\ \A n, m \in DOMAIN work : work[n].item = work[m].item => n = m
  <1>1. work \in Seq(Calls) /\ CallsOK
    BY DEF IInv, Types
  <1>2. Head(work) = work[1] /\ 1 \in DOMAIN work /\ DOMAIN work = 1..Len(work) /\ Len(work) \in Nat
        /\ \A n \in DOMAIN work : work[n] \in Calls
    BY <1>1
  <1>3. run = "running"
    BY <1>1, <1>2 DEF CallsOK
  <1>4. \A n \in DOMAIN work : work[n].op \in Telling
    BY <1>1, <1>3 DEF CallsOK
  <1>5. \A n \in DOMAIN work : /\ work[n].item \in Items /\ ~OwnedIn(Queue, work[n].item)
                               /\ Status[work[n].item] = "New" <=> work[n].op = "new"
    BY <1>1, <1>4 DEF CallsOK, Owned, OwnedIn
  <1>6. \A n, m \in DOMAIN work : work[n].item = work[m].item => n = m
    BY <1>1, <1>4 DEF CallsOK
  <1>7. \A n \in DOMAIN work : work[n].item \in Pending
    BY <1>4 DEF Pending
  <1> QED BY <1>2, <1>3, <1>4, <1>5, <1>6, <1>7

\* An item that is told something is the only one a step changes.
LEMMA OneTold ==
  ASSUME IInv, work # <<>>, Head(work).op \in Telling, Effect(Head(work).item), Shifted,
         run' = run, DescURI' \in [Items -> Uris], stage' \in [Items -> Nat]
  PROVE  IInv'
  <1> DEFINE i == Head(work).item
  <1>1. /\ run = "running" /\ i = work[1].item /\ 1 \in DOMAIN work /\ DOMAIN work = 1..Len(work) /\ Len(work) \in Nat
        /\ \A n \in DOMAIN work :
              /\ work[n] \in Calls /\ work[n].op \in Telling
              /\ work[n].item \in Items /\ work[n].item \in Pending /\ ~OwnedIn(Queue, work[n].item)
              /\ Status[work[n].item] = "New" <=> work[n].op = "new"
        /\ \A n, m \in DOMAIN work : work[n].item = work[m].item => n = m
    BY TellingCalls
  <1>2. i \in Items /\ i \in Pending
    BY <1>1
  <1> HIDE DEF i
  <1>3. Effect(i)
    BY DEF i
  <1>4. DOMAIN work' = 1..Len(work') /\ Len(work') = Len(work) - 1
        /\ \A n \in DOMAIN work' : /\ n + 1 \in DOMAIN work
                                   /\ work'[n].op = work[n + 1].op /\ work'[n].item = work[n + 1].item
    BY <1>1 DEF Shifted
  <1>5. \A n \in DOMAIN work' :
          /\ work'[n].op \in Telling /\ work'[n].item \in Items \ {i} /\ work'[n].item \in Pending
          /\ ~OwnedIn(Queue, work'[n].item) /\ (Status[work'[n].item] = "New" <=> work'[n].op = "new")
    <2> TAKE n \in DOMAIN work'
    <2>1. n + 1 \in DOMAIN work /\ n + 1 # 1
      BY <1>4
    <2>2. work[n + 1].item # i
      BY <1>1, <2>1
    <2> QED BY <1>1, <1>4, <2>1, <2>2
  <1>6. Types'
    BY <1>3 DEF Types, Effect, Shifted, IInv
  <1>7. CallsOK'
    <2>1. \A n \in DOMAIN work' :
            /\ work'[n].op \in Telling <=> run' = "running"
            /\ work'[n].op \in Telling =>
                 /\ work'[n].item \in Items /\ ~OwnedIn(Queue', work'[n].item)
                 /\ Status'[work'[n].item] = "New" <=> work'[n].op = "new"
            /\ work'[n].op # "check"
      <3> TAKE n \in DOMAIN work'
      <3>1. /\ work'[n].op \in Telling /\ work'[n].item \in Items \ {i}
            /\ ~OwnedIn(Queue, work'[n].item) /\ (Status[work'[n].item] = "New" <=> work'[n].op = "new")
        BY <1>5
      <3>2. ~OwnedIn(Queue', work'[n].item) /\ (Status'[work'[n].item] = "New" <=> Status[work'[n].item] = "New")
        BY <1>3, <3>1 DEF Effect
      <3> QED BY <1>1, <3>1, <3>2 DEF Telling
    <2>2. \A n, m \in DOMAIN work' : work'[n].item = work'[m].item => n = m
      <3> TAKE n, m \in DOMAIN work'
      <3> HAVE work'[n].item = work'[m].item
      <3>1. n + 1 = m + 1
        BY <1>1, <1>4
      <3> QED BY <1>1, <1>4, <3>1
    <2>3. run' \notin {"setup", "stopped"}
      BY <1>1
    <2> QED BY <2>1, <2>2, <2>3 DEF CallsOK, Owned, OwnedIn
  <1>8. Pending' \subseteq Pending \ {i}
    BY <1>5 DEF Pending
  <1>9. Unborn'
    <2> SUFFICES ASSUME NEW j \in Items, Status'[j] = "New" \/ OwnedIn(Queue', j) \/ j \in Pending', NEW n \in DOMAIN Spawns[j]
                 PROVE  Status'[Spawns[j][n]] = "New" /\ Spawns[j][n] \notin Pending'
      BY DEF Unborn, Owned, OwnedIn
    <2>1. Status[j] = "New" \/ OwnedIn(Queue, j) \/ j \in Pending
      BY <1>2, <1>3, <1>8 DEF Effect
    <2>2. Status[Spawns[j][n]] = "New" /\ Spawns[j][n] \notin Pending
      BY <2>1 DEF IInv, Unborn, Owned, OwnedIn
    <2>3. Spawns[j][n] \in Items \ {i}
      BY <1>2, <2>2, ConstantsAssumption
    <2> QED BY <1>3, <1>8, <2>2, <2>3 DEF Effect
  <1> QED BY <1>3, <1>6, <1>7, <1>9 DEF IInv, Effect

\* A step that leaves the queues alone and gives a status to an item that is in none.
LEMMA QuietEffect ==
  ASSUME IInv, NEW i \in Items, ~OwnedIn(Queue, i), NEW st \in Statuses \ {"New"},
         UNCHANGED <<queueVars, aborted, run>>, Status' = [Status EXCEPT ![i] = st],
         AlternativeURIs' \in [Items -> Seq(Uris)]
  PROVE  Effect(i)
  <1>1. Queue' = Queue /\ queues' = queues /\ aborted' = aborted /\ run' = run
    BY DEF queueVars
  <1>2. Sound(Queue', Status') /\ Status'[i] = st /\ \A j \in Items \ {i} : Status'[j] = Status[j]
    BY <1>1, FreeStatus DEF IInv
  <1>3. Leftovers'
    BY <1>1 DEF IInv, Leftovers
  <1>4. SentBefore
    BY <1>1 DEF IInv, Leftovers, SentBefore, Sent
  <1> QED BY <1>1, <1>2, <1>3, <1>4 DEF Effect, IInv, Types

\* An item of an aborted transaction is not enqueued again.
LEMMA SkipEffect ==
  ASSUME IInv, NEW i \in Items, ~OwnedIn(Queue, i), Status[i] # "New", Skip, run' = run,
         AlternativeURIs' \in [Items -> Seq(Uris)]
  PROVE  Effect(i)
  <1>1. Status \in [Items -> Statuses]
    BY DEF IInv, Sound
  <1>2. UNCHANGED <<queueVars, aborted, run>> /\ Status' = Status
    BY DEF Skip
  <1>3. Status[i] \in Statuses \ {"New"} /\ Status' = [Status EXCEPT ![i] = Status[i]]
    BY <1>1, <1>2
  <1> QED BY <1>2, <1>3, QuietEffect

\* Making a call takes it off the list.
LEMMA TailShifts ==
  ASSUME IInv, work # <<>>, work' = Tail(work)
  PROVE  Shifted
  <1>1. work \in Seq(Calls)
    BY DEF IInv, Types
  <1>2. Tail(work) \in Seq(Calls) /\ Len(Tail(work)) = Len(work) - 1 /\ \A n \in 1..Len(Tail(work)) : Tail(work)[n] = work[n + 1]
    BY <1>1
  <1> QED BY <1>2 DEF Shifted

\* What is known of an item that is told something by the call c.
LEMMA ToldItem ==
  ASSUME IInv, work # <<>>, NEW c, c = Head(work), c.op \in Telling
  PROVE  /\ c \in Calls /\ c.item \in Items /\ ~OwnedIn(Queue, c.item)
         /\ c.op # "new" => Status[c.item] \in Statuses \ {"New"}
         /\ run = "running" /\ Types /\ Sound(Queue, Status) /\ Leftovers
         /\ DescURI[c.item] \in Uris /\ AlternativeURIs[c.item] \in Seq(Uris)
  <1>1. /\ run = "running" /\ c = work[1] /\ 1 \in DOMAIN work
        /\ work[1] \in Calls /\ work[1].item \in Items /\ ~OwnedIn(Queue, work[1].item)
        /\ Status[work[1].item] = "New" <=> work[1].op = "new"
    BY TellingCalls
  <1>2. Types /\ Sound(Queue, Status) /\ Leftovers
    BY DEF IInv
  <1> QED BY <1>1, <1>2 DEF Types, Sound

\* The constructor of an item.
LEMMA NewItemStep ==
  ASSUME IInv, work # <<>>, NEW c, c = Head(work), NewItem(c)
  PROVE  IInv' /\ SentBefore
  <1> DEFINE i == c.item
  <1>1. c.op \in Telling
    BY DEF NewItem, Telling
  <1>2. i \in Items /\ ~OwnedIn(Queue, i) /\ run = "running" /\ Types /\ Sound(Queue, Status) /\ Leftovers
    BY <1>1, ToldItem
  <1>3. /\ work' = Tail(work) /\ run' = run /\ DescURI' = DescURI /\ stage' = stage
    BY DEF NewItem
  <1>4. FirstURI[i] \in Uris /\ AlternativeURIs \in [Items -> Seq(Uris)]
    BY <1>2, ConstantsAssumption DEF Types
  <1>5. Effect(i)
    <2>1. CASE Doomed(i) /\ Status' = [Status EXCEPT ![i] = "Idle"] /\ UNCHANGED <<queueVars, aborted, AlternativeURIs>>
      <3>1. "Idle" \in Statuses \ {"New"}
        BY DEF Statuses
      <3>2. UNCHANGED <<queueVars, aborted, run>> /\ AlternativeURIs' \in [Items -> Seq(Uris)]
        BY <1>3, <1>4, <2>1
      <3> QED BY <1>2, <2>1, <3>1, <3>2, QuietEffect
    <2>2. CASE ~Doomed(i) /\ Enqueue(i, FirstURI[i], FetchAfter, PastRedirections, AlternativeURIs)
      BY <1>2, <1>3, <1>4, <2>2, EnqueueEffect
    <2> QED BY <2>1, <2>2 DEF NewItem
  <1>6. Shifted
    BY <1>3, TailShifts
  <1>7. DescURI' \in [Items -> Uris] /\ stage' \in [Items -> Nat]
    BY <1>2, <1>3 DEF Types
  <1> QED BY <1>1, <1>3, <1>5, <1>6, <1>7, OneTold DEF Effect

\* A retry.
LEMMA RetryStep ==
  ASSUME IInv, work # <<>>, NEW c, c = Head(work), RetryOwner(c)
  PROVE  IInv' /\ SentBefore
  <1> DEFINE i == c.item
  <1>1. c.op \in Telling /\ c.op # "new"
    BY DEF RetryOwner, Telling
  <1>2. /\ i \in Items /\ ~OwnedIn(Queue, i) /\ run = "running" /\ Types /\ Sound(Queue, Status) /\ Leftovers
        /\ Status[i] \in Statuses \ {"New"} /\ DescURI[i] \in Uris
    BY <1>1, ToldItem
  <1>3. work' = Tail(work) /\ run' = run /\ DescURI' = DescURI /\ stage' = stage
    BY DEF RetryOwner
  <1>4. AlternativeURIs \in [Items -> Seq(Uris)]
    BY <1>2 DEF Types
  <1>5. Effect(i)
    <2>1. CASE Doomed(i) /\ Skip /\ UNCHANGED AlternativeURIs
      BY <1>2, <1>3, <1>4, <2>1, SkipEffect
    <2>2. ASSUME NEW after, ~Doomed(i), Enqueue(i, DescURI[i], after, PastRedirections, AlternativeURIs)
          PROVE  Effect(i)
      BY <1>2, <1>3, <1>4, <2>2, EnqueueEffect
    <2> QED BY <2>1, <2>2 DEF RetryOwner
  <1>6. Shifted
    BY <1>3, TailShifts
  <1>7. DescURI' \in [Items -> Uris] /\ stage' \in [Items -> Nat]
    BY <1>2, <1>3 DEF Types
  <1> QED BY <1>1, <1>3, <1>5, <1>6, <1>7, OneTold DEF Effect

\* A failure that is not retried.
LEMMA FailStep ==
  ASSUME IInv, work # <<>>, NEW c, c = Head(work), FailOwner(c)
  PROVE  IInv' /\ SentBefore
  <1> DEFINE i         == c.item
             transient == c.kind \in {"transient", "toomany"}
             auth      == c.kind \in {"auth", "hash"}
             others    == {n \in DOMAIN AlternativeURIs[i] : Site(AlternativeURIs[i][n]) # Site(DescURI[i])}
             alts      == IF auth THEN AtPositions(AlternativeURIs[i], others) ELSE AlternativeURIs[i]
             st        == CASE auth /\ i \in Hashed -> "AuthError"
                            [] ~(auth /\ i \in Hashed) /\ transient -> "TransientNetworkError"
                            [] OTHER -> Status[i]
             Left(s)   == [AlternativeURIs EXCEPT ![i] = s]
  <1>1. c.op \in Telling /\ c.op # "new"
    BY DEF FailOwner, Telling
  <1>2. /\ i \in Items /\ ~OwnedIn(Queue, i) /\ run = "running" /\ Types /\ Sound(Queue, Status) /\ Leftovers
        /\ Status[i] \in Statuses \ {"New"} /\ DescURI[i] \in Uris /\ AlternativeURIs[i] \in Seq(Uris)
    BY <1>1, ToldItem
  <1>3. work' = Tail(work) /\ run' = run /\ stage' = stage
    BY DEF FailOwner
  <1>4. AlternativeURIs \in [Items -> Seq(Uris)] /\ DescURI \in [Items -> Uris]
    BY <1>2 DEF Types
  <1>5. alts \in Seq(Uris)
    <2>1. others \in SUBSET DOMAIN AlternativeURIs[i]
      OBVIOUS
    <2> HIDE DEF others, i
    <2> QED BY <1>2, <2>1, Filtered
  <1>6. st \in Statuses \ {"New"}
    BY <1>2 DEF Statuses
  <1>7. \/ /\ alts # <<>> /\ DescURI' = [DescURI EXCEPT ![i] = Head(alts)]
           /\ \/ Doomed(i) /\ Skip /\ AlternativeURIs' = Left(Tail(alts))
              \/ ~Doomed(i) /\ Enqueue(i, Head(alts), FetchAfter, PastRedirections, Left(Tail(alts)))
        \/ /\ DescURI' = DescURI
           /\ \/ /\ Doomed(i) /\ Status' = [Status EXCEPT ![i] = st]
                 /\ AlternativeURIs' = Left(alts) /\ UNCHANGED <<queueVars, aborted, errors>>
              \/ ~Doomed(i) /\ Failed(i, st, LocalOnly(c.q) /\ transient, Left(alts))
    BY DEF FailOwner
  <1>8. (LocalOnly(c.q) /\ transient) \in BOOLEAN
    BY DEF LocalOnly
  <1> HIDE DEF i, alts, st, transient
  <1>9. alts # <<>> => Head(alts) \in Uris /\ Tail(alts) \in Seq(Uris)
    BY <1>5
  <1>10. \A s \in Seq(Uris) : Left(s) \in [Items -> Seq(Uris)]
    BY <1>4
  <1> HIDE DEF Left
  <1>11. Effect(i)
    <2>1. CASE alts # <<>> /\ Doomed(i) /\ Skip /\ AlternativeURIs' = Left(Tail(alts))
      BY <1>2, <1>3, <1>9, <1>10, <2>1, SkipEffect
    <2>2. CASE alts # <<>> /\ ~Doomed(i) /\ Enqueue(i, Head(alts), FetchAfter, PastRedirections, Left(Tail(alts)))
      BY <1>2, <1>3, <1>9, <1>10, <2>2, EnqueueEffect
    <2>3. CASE Status' = [Status EXCEPT ![i] = st] /\ AlternativeURIs' = Left(alts) /\ UNCHANGED <<queueVars, aborted, errors>>
      <3>1. UNCHANGED <<queueVars, aborted, run>>
        BY <1>3, <2>3
      <3> QED BY <1>2, <1>5, <1>6, <1>10, <2>3, <3>1, QuietEffect
    <2>4. CASE Failed(i, st, LocalOnly(c.q) /\ transient, Left(alts))
      <3>1. run # "setup"
        BY <1>2
      <3> QED BY <1>2, <1>3, <1>5, <1>6, <1>8, <1>10, <2>4, <3>1, Failing
    <2> QED BY <1>7, <2>1, <2>2, <2>3, <2>4
  <1>12. Shifted
    BY <1>3, TailShifts
  <1>13. DescURI' \in [Items -> Uris] /\ stage' \in [Items -> Nat]
    BY <1>2, <1>3, <1>4, <1>7, <1>9 DEF Types
  <1>14. Effect(Head(work).item)
    BY <1>11 DEF i
  <1> QED BY <1>1, <1>3, <1>12, <1>13, <1>14, OneTold DEF Effect

\* A redirection.
LEMMA RedirectStep ==
  ASSUME IInv, work # <<>>, NEW c, c = Head(work), RedirectOwner(c)
  PROVE  IInv' /\ SentBefore
  <1> DEFINE i      == c.item
             usable == {n \in DOMAIN c.alts : IsGoodAlternativeURI(i, c.alts[n])}
             alt    == AtPositions(c.alts, usable) \o AlternativeURIs[i]
             simple == DescURI[i] = c.got
             good   == IsGoodAlternativeURI(i, c.uri)
             new    == IF good THEN c.uri ELSE IF alt # <<>> THEN Head(alt) ELSE NoURI
             left   == [AlternativeURIs EXCEPT ![i] = IF simple \/ good \/ alt = <<>> THEN alt ELSE Tail(alt)]
             to     == IF simple THEN DescURI[i] ELSE new
             loop   == ~simple /\ (new = NoURI \/ IsRedirectionLoop(i, new, PastRedirections))
             past   == IF simple \/ new = NoURI THEN PastRedirections ELSE Recorded(i, new, PastRedirections)
  <1>1. c.op \in Telling /\ c.op # "new"
    BY DEF RedirectOwner, Telling
  <1>2. /\ i \in Items /\ ~OwnedIn(Queue, i) /\ run = "running" /\ Types /\ Sound(Queue, Status) /\ Leftovers
        /\ Status[i] \in Statuses \ {"New"} /\ DescURI[i] \in Uris /\ AlternativeURIs[i] \in Seq(Uris) /\ c \in Calls
    BY <1>1, ToldItem
  <1>3. /\ work' = [n \in DOMAIN Tail(work) |-> IF simple THEN Tail(work)[n] ELSE [Tail(work)[n] EXCEPT !.uri = new]]
        /\ DescURI' = IF loop THEN DescURI ELSE [DescURI EXCEPT ![i] = to]
        /\ \/ loop /\ Failed(i, Status[i], FALSE, left)
           \/ ~loop /\ Doomed(i) /\ Skip /\ AlternativeURIs' = left
           \/ ~loop /\ ~Doomed(i) /\ Enqueue(i, to, FetchAfter, past, left)
        /\ run' = run /\ stage' = stage
    BY DEF RedirectOwner
  <1>4. AlternativeURIs \in [Items -> Seq(Uris)] /\ DescURI \in [Items -> Uris] /\ stage \in [Items -> Nat] /\ work \in Seq(Calls)
    BY <1>2 DEF Types
  <1>5. c.uri \in Uris \cup {NoURI} /\ c.alts \in Seq(Uris)
    BY <1>2 DEF Calls
  <1>6. alt \in Seq(Uris)
    <2>1. usable \in SUBSET DOMAIN c.alts
      OBVIOUS
    <2> HIDE DEF usable, i
    <2>2. AtPositions(c.alts, usable) \in Seq(Uris)
      BY <1>5, <2>1, Filtered
    <2> QED BY <1>2, <2>2
  <1> HIDE DEF i, usable, alt, simple, good, past
  <1>7. new \in Uris \cup {NoURI}
    BY <1>5, <1>6
  <1>8. left \in [Items -> Seq(Uris)]
    <2>1. (IF simple \/ good \/ alt = <<>> THEN alt ELSE Tail(alt)) \in Seq(Uris)
      BY <1>6
    <2> QED BY <1>2, <1>4, <2>1
  <1>9. ~loop => to \in Uris
    BY <1>2, <1>7
  <1> HIDE DEF new, left, to
  <1>10. Shifted
    <2>1. Tail(work) \in Seq(Calls) /\ Len(Tail(work)) = Len(work) - 1 /\ \A n \in 1..Len(Tail(work)) : Tail(work)[n] = work[n + 1]
      BY <1>4
    <2>2. \A x \in Calls : LET y == [x EXCEPT !.uri = new] IN y \in Calls /\ y.op = x.op /\ y.item = x.item
      BY <1>7 DEF Calls
    <2>3. DOMAIN Tail(work) = 1..Len(Tail(work)) /\ Len(Tail(work)) \in Nat /\ \A n \in 1..Len(Tail(work)) : Tail(work)[n] \in Calls
      BY <2>1
    <2>4. \A n \in 1..Len(Tail(work)) : work'[n] \in Calls /\ work'[n].op = work[n + 1].op /\ work'[n].item = work[n + 1].item
      BY <1>3, <2>1, <2>2, <2>3
    <2>5. work' \in [1..Len(Tail(work)) -> Calls]
      BY <1>3, <2>3, <2>4
    <2>6. work' \in Seq(Calls) /\ Len(work') = Len(Tail(work))
      BY <2>3, <2>5, FunctionIsSeq
    <2> QED BY <2>1, <2>4, <2>6 DEF Shifted
  <1>11. Effect(i)
    <2>1. CASE Failed(i, Status[i], FALSE, left)
      <3>1. run # "setup"
        BY <1>2
      <3> QED BY <1>2, <1>3, <1>8, <2>1, <3>1, Failing
    <2>2. CASE Doomed(i) /\ Skip /\ AlternativeURIs' = left
      BY <1>2, <1>3, <1>8, <2>2, SkipEffect
    <2>3. CASE ~loop /\ ~Doomed(i) /\ Enqueue(i, to, FetchAfter, past, left)
      BY <1>2, <1>3, <1>8, <1>9, <2>3, EnqueueEffect
    <2> QED BY <1>3, <2>1, <2>2, <2>3
  <1>12. DescURI' \in [Items -> Uris] /\ stage' \in [Items -> Nat]
    BY <1>2, <1>3, <1>4, <1>9
  <1>13. Effect(Head(work).item)
    BY <1>11 DEF i
  <1> QED BY <1>1, <1>3, <1>10, <1>12, <1>13, OneTold DEF Effect

\* w has the elements of s, of which there are b, and behind them those of t
Joins(w, s, b, t) ==
  /\ DOMAIN w = 1..(b + Len(t)) /\ Len(t) \in Nat
  /\ \A n \in 1..b : n \in DOMAIN w /\ w[n] = s[n]
  /\ \A n \in DOMAIN w : n \in Int /\ (n \notin 1..b => n - b \in DOMAIN t /\ w[n] = t[n - b])

\* The elements of one sequence behind another.
LEMMA Joined ==
  ASSUME NEW S, NEW s \in Seq(S), NEW t \in Seq(S), NEW w, w = s \o t, NEW b, b = Len(s)
  PROVE  w \in Seq(S) /\ Joins(w, s, b, t)
  <1>1. /\ DOMAIN s = 1..Len(s) /\ Len(s) \in Nat /\ DOMAIN t = 1..Len(t) /\ Len(t) \in Nat
    OBVIOUS
  <1>2. w \in Seq(S) /\ Len(w) = Len(s) + Len(t) /\ DOMAIN w = 1..(Len(s) + Len(t))
    OBVIOUS
  <1>3. \A n \in 1..(Len(s) + Len(t)) : w[n] = IF n <= Len(s) THEN s[n] ELSE t[n - Len(s)]
    OBVIOUS
  <1>4. \A n \in DOMAIN s : n \in DOMAIN w /\ n <= Len(s)
    BY <1>1, <1>2
  <1>5. \A n \in DOMAIN w : n \notin DOMAIN s => ~(n <= Len(s)) /\ n - Len(s) \in DOMAIN t
    BY <1>1, <1>2
  <1>6. \A n \in DOMAIN w : n \in Int
    BY <1>1, <1>2
  <1> QED BY <1>1, <1>2, <1>3, <1>4, <1>5, <1>6 DEF Joins

\* An item is constructed by one other, once.
LEMMA Construction ==
  /\ \A i \in Items : Spawns[i] \in Seq(Items) /\ \A n \in DOMAIN Spawns[i] : Spawns[i][n] \in Items
  /\ \A i, j \in Items : \A n \in DOMAIN Spawns[i], m \in DOMAIN Spawns[j] :
       Spawns[i][n] = Spawns[j][m] => i = j /\ n = m
  <1>1. \A i \in Items : Spawns[i] \in Seq(Items)
    BY ConstantsAssumption
  <1>2. \A i, j \in Items : \A n \in DOMAIN Spawns[i], m \in DOMAIN Spawns[j] :
          Spawns[i][n] = Spawns[j][m] => i = j /\ n = m
    BY ConstantsAssumption, Zenon
  <1> QED BY <1>1, <1>2

\* The last stage of an item is done, and it constructs others.
LEMMA LastStage ==
  ASSUME IInv, work # <<>>, NEW c, c = Head(work), c.op = "done",
         Status' = [Status EXCEPT ![c.item] = "Done"], AlternativeURIs' = [AlternativeURIs EXCEPT ![c.item] = <<>>],
         work' = [n \in DOMAIN Spawns[c.item] |-> Call("new", Spawns[c.item][n], c.q)] \o Tail(work),
         UNCHANGED <<queueVars, aborted, DescURI, stage, run>>
  PROVE  IInv' /\ SentBefore
  <1> DEFINE i    == c.item
             born == [n \in DOMAIN Spawns[i] |-> Call("new", Spawns[i][n], c.q)]
             b    == Len(Spawns[i])
             rest == Tail(work)
  <1>1. c.op \in Telling /\ c.op # "new"
    BY DEF Telling
  <1>2. /\ i \in Items /\ ~OwnedIn(Queue, i) /\ Types /\ Sound(Queue, Status) /\ Leftovers
        /\ Status[i] \in Statuses \ {"New"} /\ c \in Calls
    BY <1>1, ToldItem
  <1>3. /\ run = "running" /\ c = work[1] /\ 1 \in DOMAIN work /\ DOMAIN work = 1..Len(work) /\ Len(work) \in Nat
        /\ \A n \in DOMAIN work :
              /\ work[n] \in Calls /\ work[n].op \in Telling
              /\ work[n].item \in Items /\ work[n].item \in Pending /\ ~OwnedIn(Queue, work[n].item)
              /\ Status[work[n].item] = "New" <=> work[n].op = "new"
        /\ \A n, m \in DOMAIN work : work[n].item = work[m].item => n = m
    BY <1>1, TellingCalls
  <1>4. /\ Spawns[i] \in Seq(Items) /\ DOMAIN Spawns[i] = 1..b /\ b \in Nat
        /\ \A n \in 1..b : Spawns[i][n] \in Items
    BY <1>2, ConstantsAssumption
  <1>5. i \in Pending
    BY <1>3
  <1>6. \A n \in 1..b : Status[Spawns[i][n]] = "New" /\ Spawns[i][n] \notin Pending /\ Spawns[i][n] # i
    BY <1>2, <1>4, <1>5 DEF IInv, Unborn
  <1>7. \A n, m \in 1..b : Spawns[i][n] = Spawns[i][m] => n = m
    BY <1>2, <1>4, Construction
  <1>8. \A j \in Items : Status[j] = "New" => ~OwnedIn(Queue, j)
    BY <1>2 DEF Sound, Known, OwnedIn, Range
  <1>9. /\ born \in Seq(Calls) /\ Len(born) = b /\ DOMAIN born = 1..b
        /\ \A n \in 1..b : born[n].op = "new" /\ born[n].item = Spawns[i][n]
    <2>1. \A x \in Items : /\ Call("new", x, c.q) \in Calls
                           /\ Call("new", x, c.q).op = "new" /\ Call("new", x, c.q).item = x
      <3>1. c.q \in Names /\ <<>> \in Seq(Items) /\ <<>> \in Seq(Uris) /\ "none" \in Kinds /\ "new" \in Telling
        BY <1>2 DEF Calls, Kinds, Telling
      <3> QED BY <3>1 DEF Call, Calls
    <2>2. born \in [1..b -> Calls]
      BY <1>4, <2>1
    <2>3. born \in Seq(Calls) /\ Len(born) = b
      BY <1>4, <2>2, FunctionIsSeq
    <2> QED BY <1>4, <2>1, <2>3
  <1>10. /\ rest \in Seq(Calls) /\ Len(rest) = Len(work) - 1 /\ DOMAIN rest = 1..(Len(work) - 1)
         /\ \A n \in DOMAIN rest : n + 1 \in DOMAIN work /\ n + 1 # 1 /\ rest[n] = work[n + 1]
    <2>1. work \in Seq(Calls)
      BY <1>2 DEF Types
    <2> QED BY <1>3, <2>1
  <1>11. \A n \in DOMAIN rest :
           /\ rest[n].op \in Telling /\ rest[n].item \in Items \ {i} /\ rest[n].item \in Pending
           /\ ~OwnedIn(Queue, rest[n].item) /\ (Status[rest[n].item] = "New" <=> rest[n].op = "new")
    <2> TAKE n \in DOMAIN rest
    <2>1. work[n + 1].item # i
      BY <1>3, <1>10
    <2> QED BY <1>3, <1>10, <2>1
  <1>12. \A n, m \in DOMAIN rest : rest[n].item = rest[m].item => n = m
    <2> TAKE n, m \in DOMAIN rest
    <2> HAVE rest[n].item = rest[m].item
    <2>1. n + 1 = m + 1
      BY <1>3, <1>10
    <2> QED BY <1>10, <2>1
  <1>13. work' = born \o rest
    OBVIOUS
  <1> HIDE DEF born, rest, b, i
  <1>14. work' \in Seq(Calls) /\ Joins(work', born, b, rest)
    BY <1>9, <1>10, <1>13, Joined
  <1>15. \A n \in DOMAIN work' :
           /\ work'[n].op \in Telling /\ work'[n].item \in Items \ {i}
           /\ ~OwnedIn(Queue, work'[n].item) /\ (Status[work'[n].item] = "New" <=> work'[n].op = "new")
    <2> TAKE n \in DOMAIN work'
    <2>1. CASE n \in 1..b
      <3>1. work'[n].op = "new" /\ work'[n].item = Spawns[i][n]
        BY <1>9, <1>14, <2>1 DEF Joins
      <3> QED BY <1>4, <1>6, <1>8, <2>1, <3>1 DEF Telling
    <2>2. CASE n \notin 1..b
      <3>1. n - b \in DOMAIN rest /\ work'[n] = rest[n - b]
        BY <1>14, <2>2 DEF Joins
      <3> QED BY <1>11, <3>1
    <2> QED BY <2>1, <2>2
  <1>16. \A n, m \in DOMAIN work' : work'[n].item = work'[m].item => n = m
    <2>1. \A n \in 1..b : work'[n].item = Spawns[i][n]
      BY <1>9, <1>14 DEF Joins
    <2>2. \A n \in DOMAIN work' : n \notin 1..b =>
            n - b \in DOMAIN rest /\ work'[n].item = rest[n - b].item /\ work'[n].item \in Pending
      BY <1>11, <1>14 DEF Joins
    <2>3. \A n \in DOMAIN work' : n \in Int
      BY <1>14 DEF Joins
    <2>4. \A x, y \in Int : x - b = y - b => x = y
      <3>1. b \in Int
        BY <1>4
      <3> QED BY ONLY <3>1
    <2> TAKE n, m \in DOMAIN work'
    <2> HAVE work'[n].item = work'[m].item
    <2>5. CASE n \in 1..b /\ m \in 1..b
      BY <1>7, <2>1, <2>5
    <2>6. CASE n \in 1..b /\ m \notin 1..b
      <3>1. work'[n].item = Spawns[i][n] /\ work'[m].item \in Pending
        BY <2>1, <2>2, <2>6
      <3> QED BY <1>6, <2>6, <3>1
    <2>8. CASE n \notin 1..b /\ m \in 1..b
      <3>1. work'[m].item = Spawns[i][m] /\ work'[n].item \in Pending
        BY <2>1, <2>2, <2>8
      <3> QED BY <1>6, <2>8, <3>1
    <2>7. CASE n \notin 1..b /\ m \notin 1..b
      <3>3. /\ n - b \in DOMAIN rest /\ work'[n].item = rest[n - b].item
            /\ m - b \in DOMAIN rest /\ work'[m].item = rest[m - b].item
        BY <2>2, <2>7
      <3>1. n - b = m - b
        BY <1>12, <3>3
      <3>2. n \in Int /\ m \in Int
        BY <2>3
      <3> QED BY <2>4, <3>1, <3>2
    <2> QED BY <2>5, <2>6, <2>7, <2>8
  <1>17. /\ Status' = [Status EXCEPT ![i] = "Done"] /\ Queue' = Queue /\ queues' = queues /\ aborted' = aborted
         /\ DescURI' = DescURI /\ stage' = stage /\ run' = run /\ AlternativeURIs' = [AlternativeURIs EXCEPT ![i] = <<>>]
    BY DEF queueVars, i
  <1>18. "Done" \in Statuses
    BY DEF Statuses
  <1>19. Sound(Queue', Status') /\ Status'[i] = "Done" /\ \A j \in Items \ {i} : Status'[j] = Status[j]
    BY <1>2, <1>17, <1>18, FreeStatus
  <1>20. Types'
    <2>1. <<>> \in Seq(Uris)
      OBVIOUS
    <2>2. AlternativeURIs' \in [Items -> Seq(Uris)]
      BY <1>2, <1>17, <2>1 DEF Types
    <2> QED BY <1>2, <1>14, <1>17, <2>2 DEF Types, Joins
  <1>21. CallsOK'
    <2>1. \A n \in DOMAIN work' : /\ work'[n].op \in Telling /\ work'[n].op # "check" /\ work'[n].item \in Items
                                  /\ ~OwnedIn(Queue', work'[n].item)
                                  /\ Status'[work'[n].item] = "New" <=> work'[n].op = "new"
      <3> TAKE n \in DOMAIN work'
      <3>1. /\ work'[n].op \in Telling /\ work'[n].item \in Items \ {i}
            /\ ~OwnedIn(Queue, work'[n].item) /\ (Status[work'[n].item] = "New" <=> work'[n].op = "new")
        BY <1>15
      <3>2. Status'[work'[n].item] = Status[work'[n].item] /\ ~OwnedIn(Queue', work'[n].item)
        BY <1>17, <1>19, <3>1
      <3>3. work'[n].op # "check"
        BY <3>1 DEF Telling
      <3> QED BY <3>1, <3>2, <3>3
    <2>2. run' = "running" /\ ~(run' \in {"setup", "stopped"})
      <3>1. run' = "running"
        BY <1>3, <1>17
      <3> QED BY <3>1
    <2>3. \A n \in DOMAIN work' :
            /\ work'[n].op \in Telling <=> run' = "running"
            /\ work'[n].op \in Telling =>
                 /\ work'[n].item \in Items /\ ~OwnedIn(Queue', work'[n].item)
                 /\ Status'[work'[n].item] = "New" <=> work'[n].op = "new"
            /\ work'[n].op # "check"
      BY <2>1, <2>2
    <2> QED BY <1>16, <2>2, <2>3 DEF CallsOK, Owned, OwnedIn
  <1>22. \A j \in Pending' : j \in Items \ {i} /\ (j \in Pending \/ \E n \in 1..b : j = Spawns[i][n])
    <2>1. ASSUME NEW n \in DOMAIN work'
          PROVE  work'[n].item \in Pending \/ \E m \in 1..b : work'[n].item = Spawns[i][m]
      <3>1. CASE n \in 1..b
        <4>1. work'[n].item = Spawns[i][n]
          BY <1>9, <1>14, <3>1 DEF Joins
        <4> QED BY <3>1, <4>1
      <3>2. CASE n \notin 1..b
        <4>1. n - b \in DOMAIN rest /\ work'[n] = rest[n - b]
          BY <1>14, <3>2 DEF Joins
        <4> QED BY <1>11, <4>1
      <3> QED BY <3>1, <3>2
    <2>2. \A j \in Pending' : \E n \in DOMAIN work' : j = work'[n].item
      BY DEF Pending
    <2> TAKE j \in Pending'
    <2>3. PICK n \in DOMAIN work' : j = work'[n].item
      BY <2>2
    <2>4. j \in Items \ {i}
      BY <1>15, <2>3
    <2>5. j \in Pending \/ \E m \in 1..b : j = Spawns[i][m]
      BY <2>1, <2>3
    <2> QED BY <2>4, <2>5
  <1>23. Unborn'
    <2> SUFFICES ASSUME NEW j \in Items, Status'[j] = "New" \/ OwnedIn(Queue', j) \/ j \in Pending', NEW n \in DOMAIN Spawns[j]
                 PROVE  Status'[Spawns[j][n]] = "New" /\ Spawns[j][n] \notin Pending'
      BY DEF Unborn, Owned, OwnedIn
    <2>1. j # i
      BY <1>2, <1>17, <1>19, <1>22
    <2>2. Status[j] = "New" \/ OwnedIn(Queue, j) \/ j \in Pending
      BY <1>6, <1>17, <1>19, <1>22, <2>1
    <2>3. Status[Spawns[j][n]] = "New" /\ Spawns[j][n] \notin Pending
      BY <2>2 DEF IInv, Unborn, Owned, OwnedIn
    <2>4. Spawns[j][n] \in Items
      BY Construction
    <2>5. \A m \in 1..b : Spawns[j][n] # Spawns[i][m]
      BY <1>2, <1>4, <2>1, Construction
    <2> QED BY <2>5, <1>2, <1>19, <1>22, <2>3, <2>4
  <1>24. Leftovers' /\ SentBefore
    BY <1>2, <1>17 DEF Leftovers, SentBefore, Sent
  <1> QED BY <1>19, <1>20, <1>21, <1>23, <1>24 DEF IInv

\* An item was fetched.
LEMMA DoneStep ==
  ASSUME IInv, work # <<>>, NEW c, c = Head(work), DoneOwner(c)
  PROVE  IInv' /\ SentBefore
  <1> DEFINE i    == c.item
             next == stage[i] + 1
             done == [AlternativeURIs EXCEPT ![i] = <<>>]
  <1>1. c.op = "done" /\ c.op \in Telling /\ c.op # "new"
    BY DEF DoneOwner, Telling
  <1>2. /\ i \in Items /\ ~OwnedIn(Queue, i) /\ run = "running" /\ Types /\ Sound(Queue, Status) /\ Leftovers
        /\ Status[i] \in Statuses \ {"New"}
    BY <1>1, ToldItem
  <1>3. run' = run
    BY DEF DoneOwner
  <1>4. /\ AlternativeURIs \in [Items -> Seq(Uris)] /\ DescURI \in [Items -> Uris] /\ stage \in [Items -> Nat]
    BY <1>2 DEF Types
  <1>5. done \in [Items -> Seq(Uris)]
    <2>1. <<>> \in Seq(Uris)
      OBVIOUS
    <2> QED BY <1>4, <2>1
  <1>6. CASE Doomed(i) /\ Skip /\ UNCHANGED <<DescURI, stage, AlternativeURIs>> /\ work' = Tail(work)
    <2>1. Effect(i)
      BY <1>2, <1>3, <1>4, <1>6, SkipEffect
    <2>2. Shifted
      BY <1>6, TailShifts
    <2>3. DescURI' \in [Items -> Uris] /\ stage' \in [Items -> Nat]
      BY <1>4, <1>6
    <2> QED BY <1>1, <1>3, <2>1, <2>2, <2>3, OneTold DEF Effect
  <1>7. CASE /\ ~Doomed(i) /\ next <= Len(Stages[i])
             /\ DescURI' = [DescURI EXCEPT ![i] = Stages[i][next]]
             /\ stage' = [stage EXCEPT ![i] = next]
             /\ Enqueue(i, Stages[i][next], FetchAfter, PastRedirections, done)
             /\ work' = Tail(work)
    <2>1. Stages[i][next] \in Uris /\ next \in Nat
      <3>1. Stages[i] \in Seq(Uris) /\ stage[i] \in Nat
        BY <1>2, <1>4, ConstantsAssumption
      <3> QED BY <1>7, <3>1
    <2> HIDE DEF next, done
    <2>2. Effect(i)
      BY <1>2, <1>3, <1>5, <1>7, <2>1, EnqueueEffect
    <2>3. Shifted
      BY <1>7, TailShifts
    <2>4. DescURI' \in [Items -> Uris] /\ stage' \in [Items -> Nat]
      BY <1>2, <1>4, <1>7, <2>1
    <2> QED BY <1>1, <1>3, <2>2, <2>3, <2>4, OneTold DEF Effect
  <1>8. CASE /\ Status' = [Status EXCEPT ![i] = "Done"]
             /\ AlternativeURIs' = done
             /\ work' = [n \in DOMAIN Spawns[i] |-> Call("new", Spawns[i][n], c.q)] \o Tail(work)
             /\ UNCHANGED <<queueVars, aborted, errors, DescURI, stage, PastRedirections>>
    <2>1. UNCHANGED <<queueVars, aborted, DescURI, stage, run>>
      BY <1>3, <1>8
    <2> QED BY <1>1, <1>8, <2>1, LastStage
  <1> QED BY <1>6, <1>7, <1>8 DEF DoneOwner

-----------------------------------------------------------------------------
(* The steps that tell nobody anything *)

\* the calls left are Startup's, and nobody in them is new
Calm ==
  /\ work' \in Seq(Calls) /\ (work' # <<>> => run' = "startup")
  /\ \A n \in DOMAIN work' :
       /\ work'[n].op \in {"check", "start"}
       /\ work'[n].op = "check" => /\ work'[n].owners # <<>>
                                   /\ \A m \in DOMAIN work'[n].owners : Status[work'[n].owners[m]] # "New"

\* only items nobody constructs are constructed and queued
Settled ==
  /\ \A j \in Items : Status'[j] = "New" => Status[j] = "New"
  /\ \A j \in Items : OwnedIn(Queue', j) => OwnedIn(Queue, j) \/ Status[j] = "New"
  /\ \A j \in Items : \A n \in DOMAIN Spawns[j] :
       Status[Spawns[j][n]] = "New" => Status'[Spawns[j][n]] = "New"

\* Such a step keeps the invariant.
LEMMA CalmStep ==
  ASSUME IInv, Types', Sound(Queue', Status'), Leftovers', Calm, Settled
  PROVE  IInv'
  <1>1. \A n \in DOMAIN work' : work'[n].op \notin Telling
    BY DEF Calm, Telling
  <1>2. Pending' = {}
    BY <1>1 DEF Pending
  <1>3. work' = <<>> \/ run' = "startup"
    BY DEF Calm
  <1>4. \A n \in DOMAIN work' : work'[n].op = "check" =>
          /\ work'[n].owners # <<>>
          /\ \A m \in DOMAIN work'[n].owners : Status'[work'[n].owners[m]] # "New"
    <2> TAKE n \in DOMAIN work'
    <2> HAVE work'[n].op = "check"
    <2>1. work'[n] \in Calls
      BY DEF Calm
    <2>2. work'[n].owners \in Seq(Items)
      BY <2>1 DEF Calls
    <2>3. \A m \in DOMAIN work'[n].owners : work'[n].owners[m] \in Items
      BY <2>2
    <2> QED BY <2>3 DEF Calm, Settled
  <1>5. \A n \in DOMAIN work' : run' # "running"
    <2>1. DOMAIN <<>> = {}
      OBVIOUS
    <2> QED BY <1>3, <2>1
  <1>6. CallsOK'
    BY <1>1, <1>3, <1>4, <1>5 DEF CallsOK
  <1>7. Unborn'
    <2> SUFFICES ASSUME NEW j \in Items, Status'[j] = "New" \/ OwnedIn(Queue', j), NEW n \in DOMAIN Spawns[j]
                 PROVE  Status'[Spawns[j][n]] = "New"
      BY <1>2 DEF Unborn, Owned, OwnedIn
    <2>1. Status[j] = "New" \/ OwnedIn(Queue, j)
      BY DEF Settled
    <2>2. Status[Spawns[j][n]] = "New"
      BY <2>1 DEF IInv, Unborn, Owned, OwnedIn
    <2> QED BY <2>2 DEF Settled
  <1> QED BY <1>6, <1>7 DEF IInv

\* every QItem was there before, and is sent if it was
Kept ==
  \A q \in Names : \A k \in DOMAIN Queue'[q] :
    \E m \in DOMAIN Queue[q] : /\ Primary(Queue[q][m]) = Primary(Queue'[q][k])
                               /\ Queue[q][m].sent => Queue'[q][k].sent

\* Then nothing of an aborted transaction comes in or is sent.
LEMMA KeptStays ==
  ASSUME Leftovers, Kept, aborted' = aborted, run' # "setup"
  PROVE  Leftovers' /\ SentBefore
  <1>1. ASSUME aborted, NEW q \in Names, NEW k \in DOMAIN Queue'[q], Primary(Queue'[q][k]) \in Txn
        PROVE  Queue'[q][k].sent /\ \E m \in Sent(q) : Primary(Queue[q][m]) = Primary(Queue'[q][k])
    <2>1. PICK m \in DOMAIN Queue[q] : /\ Primary(Queue[q][m]) = Primary(Queue'[q][k])
                                       /\ Queue[q][m].sent => Queue'[q][k].sent
      BY <1>1 DEF Kept
    <2>2. Queue[q][m].sent
      BY <1>1, <2>1 DEF Leftovers
    <2> QED BY <2>1, <2>2 DEF Sent
  <1> QED BY <1>1 DEF Leftovers, SentBefore

\* What is known of Startup's calls.
LEMMA StartupCalls ==
  ASSUME IInv, work # <<>>, NEW c, c = Head(work), c.op \notin Telling
  PROVE  /\ run = "startup" /\ c \in Calls
         /\ c.op = "check" => /\ c.owners # <<>>
                              /\ \A m \in DOMAIN c.owners : Status[c.owners[m]] # "New"
         /\ Tail(work) \in Seq(Calls)
         /\ \A n \in DOMAIN Tail(work) :
              /\ Tail(work)[n].op \in {"check", "start"}
              /\ Tail(work)[n].op = "check" =>
                   /\ Tail(work)[n].owners # <<>>
                   /\ \A m \in DOMAIN Tail(work)[n].owners : Status[Tail(work)[n].owners[m]] # "New"
  <1>1. work \in Seq(Calls) /\ CallsOK /\ run \in {"setup", "startup", "running", "stopped"}
    BY DEF IInv, Types
  <1>2. c = work[1] /\ 1 \in DOMAIN work /\ \A n \in DOMAIN work : work[n] \in Calls
    BY <1>1
  <1>3. run = "startup"
    BY <1>1, <1>2 DEF CallsOK
  <1>4. Tail(work) \in Seq(Calls) /\ \A n \in DOMAIN Tail(work) : n + 1 \in DOMAIN work /\ Tail(work)[n] = work[n + 1]
    BY <1>1
  <1>5. \A n \in DOMAIN work :
          /\ work[n].op \in {"check", "start"}
          /\ work[n].op = "check" => /\ work[n].owners # <<>>
                                     /\ \A m \in DOMAIN work[n].owners : Status[work[n].owners[m]] # "New"
    BY <1>1, <1>2, <1>3 DEF CallsOK, Calls
  <1> QED BY <1>2, <1>3, <1>4, <1>5

\* Startup checks an owner.
LEMMA CheckStep ==
  ASSUME IInv, work # <<>>, NEW c, c = Head(work), CheckOwner(c)
  PROVE  IInv' /\ SentBefore
  <1> DEFINE i    == Head(c.owners)
             rest == Tail(c.owners)
             loop == IsRedirectionLoop(i, DescURI[i], PastRedirections)
             left == [c EXCEPT !.owners = rest]
  <1>1. c.op = "check" /\ c.op \notin Telling /\ run' = run /\ DescURI' = DescURI /\ stage' = stage
    BY DEF CheckOwner, Telling
  <1>2. /\ run = "startup" /\ c \in Calls /\ c.owners # <<>>
        /\ \A m \in DOMAIN c.owners : Status[c.owners[m]] # "New"
        /\ Tail(work) \in Seq(Calls)
        /\ \A n \in DOMAIN Tail(work) :
              /\ Tail(work)[n].op \in {"check", "start"}
              /\ Tail(work)[n].op = "check" =>
                   /\ Tail(work)[n].owners # <<>>
                   /\ \A m \in DOMAIN Tail(work)[n].owners : Status[Tail(work)[n].owners[m]] # "New"
    BY <1>1, StartupCalls
  <1>3. c.owners \in Seq(Items)
    BY <1>2 DEF Calls
  <1>4. i \in Items /\ i = c.owners[1] /\ 1 \in DOMAIN c.owners /\ rest \in Seq(Items)
    BY <1>2, <1>3
  <1>5. \A m \in DOMAIN rest : m + 1 \in DOMAIN c.owners /\ rest[m] = c.owners[m + 1]
    BY <1>2, <1>3
  <1>6. Status[i] # "New" /\ \A m \in DOMAIN rest : Status[rest[m]] # "New"
    BY <1>2, <1>4, <1>5
  <1>7. Types /\ Sound(Queue, Status) /\ Leftovers /\ AlternativeURIs \in [Items -> Seq(Uris)]
    BY DEF IInv, Types
  <1>8. \/ \E st \in {"Error", "AuthError"} : Failed(i, st, FALSE, AlternativeURIs)
        \/ UNCHANGED <<queueVars, Status, AlternativeURIs, aborted, errors>>
    BY DEF CheckOwner
  <1>9. work' = IF rest = <<>> THEN Tail(work) ELSE <<left>> \o Tail(work)
    BY DEF CheckOwner
  <1>10. left \in Calls /\ left.op = "check" /\ left.owners = rest
    BY <1>1, <1>2, <1>4 DEF Calls
  <1> HIDE DEF i, rest, left
  <1>11. Effect(i) /\ \A j \in Items : OwnedIn(Queue', j) => OwnedIn(Queue, j)
    <2>1. ASSUME NEW st \in {"Error", "AuthError"}, Failed(i, st, FALSE, AlternativeURIs)
          PROVE  Effect(i) /\ \A j \in Items : OwnedIn(Queue', j) => OwnedIn(Queue, j)
      <3>1. st \in Statuses \ {"New"} /\ FALSE \in BOOLEAN /\ run # "setup"
        BY <1>2 DEF Statuses
      <3> QED BY <1>1, <1>4, <1>7, <2>1, <3>1, Failing
    <2>2. CASE UNCHANGED <<queueVars, Status, AlternativeURIs, aborted, errors>>
      <3>1. Queue' = Queue /\ queues' = queues /\ Status' = Status /\ AlternativeURIs' = AlternativeURIs /\ aborted' = aborted
        BY <2>2 DEF queueVars
      <3>2. Leftovers' /\ SentBefore
        BY <1>1, <1>7, <3>1 DEF Leftovers, SentBefore, Sent
      <3> QED BY <1>6, <1>7, <3>1, <3>2 DEF Effect, Types
    <2> QED BY <1>8, <2>1, <2>2
  <1>12. Settled
    BY <1>6, <1>11, Construction DEF Effect, Settled
  <1>13. Calm
    <2>1. CASE rest = <<>>
      BY <1>1, <1>2, <1>9, <2>1 DEF Calm
    <2>2. CASE rest # <<>>
      <3> DEFINE one == <<left>>
      <3>1. one \in Seq(Calls) /\ 1 = Len(one) /\ one[1] = left
        BY <1>10
      <3>2. work' = one \o Tail(work)
        BY <1>9, <2>2
      <3> HIDE DEF one
      <3>3. work' \in Seq(Calls) /\ Joins(work', one, 1, Tail(work))
        BY <1>2, <3>1, <3>2, Joined
      <3>4. ASSUME NEW n \in DOMAIN work'
            PROVE  /\ work'[n].op \in {"check", "start"}
                   /\ work'[n].op = "check" => /\ work'[n].owners # <<>>
                                               /\ \A m \in DOMAIN work'[n].owners : Status[work'[n].owners[m]] # "New"
        <4>1. CASE n \in 1..1
          <5>1. work'[n] = left
            BY <3>1, <3>3, <4>1 DEF Joins
          <5> QED BY <1>6, <1>10, <2>2, <5>1
        <4>2. CASE n \notin 1..1
          <5>1. n - 1 \in DOMAIN Tail(work) /\ work'[n] = Tail(work)[n - 1]
            BY <3>3, <4>2 DEF Joins
          <5> QED BY <1>2, <5>1
        <4> QED BY <4>1, <4>2
      <3> QED BY <1>1, <1>2, <3>3, <3>4 DEF Calm
    <2> QED BY <2>1, <2>2
  <1>14. Types'
    BY <1>1, <1>7, <1>11, <1>13 DEF Types, Effect, Calm
  <1> QED BY <1>11, <1>12, <1>13, <1>14, CalmStep DEF Effect

\* Startup starts the worker, which is given what it may have.
LEMMA StartStep ==
  ASSUME IInv, work # <<>>, NEW c, c = Head(work), StartWorker(c)
  PROVE  IInv' /\ SentBefore
  <1>1. /\ c.op = "start" /\ c.op \notin Telling /\ run' = run /\ DescURI' = DescURI /\ stage' = stage
        /\ queues' = queues /\ aborted' = aborted /\ AlternativeURIs' = AlternativeURIs /\ work' = Tail(work)
    BY DEF StartWorker, Telling, itemVars
  <1>2. /\ run = "startup" /\ c \in Calls
        /\ Tail(work) \in Seq(Calls)
        /\ \A n \in DOMAIN Tail(work) :
              /\ Tail(work)[n].op \in {"check", "start"}
              /\ Tail(work)[n].op = "check" =>
                   /\ Tail(work)[n].owners # <<>>
                   /\ \A m \in DOMAIN Tail(work)[n].owners : Status[Tail(work)[n].owners[m]] # "New"
    BY <1>1, StartupCalls
  <1>3. Types /\ Sound(Queue, Status) /\ Leftovers /\ c.q \in Names
    BY <1>2 DEF IInv, Calls
  <1>4. \/ Cycle(c.q, "up", Queue, Status, FetchAfter, PipeDepth[c.q], inflight)
        \/ Queue' = Queue /\ Status' = Status
    BY DEF StartWorker
  <1>5. Sound(Queue', Status') /\ Cycled(Queue, Status)
    <2>1. CASE Cycle(c.q, "up", Queue, Status, FetchAfter, PipeDepth[c.q], inflight)
      BY <1>3, <2>1, Cycling
    <2>2. CASE Queue' = Queue /\ Status' = Status
      BY <1>3, <2>2 DEF Cycled
    <2> QED BY <1>4, <2>1, <2>2
  <1>6. Settled
    BY <1>5, Construction DEF Settled, Cycled
  <1>7. Kept
    BY <1>5 DEF Kept, Cycled
  <1>8. Leftovers' /\ SentBefore
    BY <1>1, <1>2, <1>3, <1>7, KeptStays
  <1>9. Calm
    BY <1>1, <1>2 DEF Calm
  <1>10. Types'
    BY <1>1, <1>2, <1>3 DEF Types
  <1> QED BY <1>5, <1>6, <1>8, <1>9, <1>10, CalmStep

\* One call of the handler in progress.
LEMMA HandlerStep ==
  ASSUME IInv, Handler
  PROVE  IInv' /\ SentBefore
  BY CheckStep, StartStep, RedirectStep, DoneStep, NewItemStep, RetryStep, FailStep DEF Handler

-----------------------------------------------------------------------------
(* Before Run() and around the select loop *)

\* Nothing is queued at first.
LEMMA InitInv ==
  ASSUME Init
  PROVE  IInv
  <1>1. /\ Queue = [q \in Names |-> <<>>] /\ queues = {} /\ Status = [i \in Items |-> "New"]
        /\ DescURI = FirstURI /\ AlternativeURIs = Alternates /\ stage = [i \in Items |-> 0]
        /\ aborted = FALSE /\ run = "setup" /\ work = <<>>
    BY DEF Init
  <1>2. <<>> \in Seq(QItems) /\ <<>> \in Seq(Calls) /\ DOMAIN <<>> = {} /\ "New" \in Statuses
    BY DEF Statuses
  <1>3. \A q \in Names : DOMAIN Queue[q] = {}
    BY <1>1, <1>2
  <1>4. Types
    BY <1>1, <1>2, ConstantsAssumption DEF Types
  <1>5. Sound(Queue, Status)
    BY <1>1, <1>2, <1>3 DEF Sound, Manned, Apart, Matches, Known
  <1>6. DOMAIN work = {} /\ Pending = {}
    BY <1>1, <1>2 DEF Pending
  <1>7. CallsOK
    BY <1>1, <1>6 DEF CallsOK
  <1>8. Unborn
    BY <1>1, <1>6, Construction DEF Unborn
  <1> QED BY <1>1, <1>4, <1>5, <1>7, <1>8 DEF IInv, Leftovers

\* A step that leaves the queues and the items alone.
LEMMA OtherStep ==
  ASSUME IInv, work = <<>>, work' = <<>>, UNCHANGED <<Queue, queues, Status, DescURI, AlternativeURIs, stage, aborted>>,
         run' = run \/ run' \in {"startup", "running", "stopped"}
  PROVE  IInv' /\ SentBefore
  <1>1. Types /\ Sound(Queue, Status) /\ Leftovers
    BY DEF IInv
  <1>2. Types'
    BY <1>1 DEF Types
  <1>3. Sound(Queue', Status')
    BY <1>1
  <1>4. Leftovers' /\ SentBefore
    BY <1>1 DEF Leftovers, SentBefore, Sent
  <1>5. DOMAIN <<>> = {}
    OBVIOUS
  <1>6. Calm
    BY <1>2, <1>5 DEF Calm, Types
  <1>7. Settled
    BY DEF Settled
  <1> QED BY <1>2, <1>3, <1>4, <1>6, <1>7, CalmStep

\* A constructor before Run().
LEMMA QueueURIStep ==
  ASSUME IInv, NEW i \in Items, QueueURI(i)
  PROVE  IInv' /\ SentBefore
  <1>1. /\ run = "setup" /\ Status[i] = "New" /\ i \in Range(InitialItems)
        /\ Enqueue(i, FirstURI[i], FetchAfter, PastRedirections, AlternativeURIs)
        /\ run' = run /\ work' = work /\ DescURI' = DescURI /\ stage' = stage
    BY DEF QueueURI
  <1>2. Types /\ Sound(Queue, Status) /\ Leftovers /\ CallsOK
    BY DEF IInv
  <1>3. work = <<>> /\ ~aborted
    BY <1>1, <1>2 DEF CallsOK, Leftovers
  <1>4. ~OwnedIn(Queue, i)
    BY <1>1, <1>2 DEF Sound, Known, OwnedIn, Range
  <1>5. FirstURI[i] \in Uris /\ AlternativeURIs \in [Items -> Seq(Uris)] /\ ~Doomed(i)
    BY <1>2, <1>3, ConstantsAssumption DEF Types, Doomed
  <1>6. Effect(i)
    BY <1>1, <1>2, <1>4, <1>5, EnqueueEffect
  <1>7. \A j \in Items : \A n \in DOMAIN Spawns[j] : Spawns[j][n] \in Items \ {i}
    BY <1>1, Construction, ConstantsAssumption
  <1>8. Settled
    BY <1>1, <1>6, <1>7 DEF Effect, Settled
  <1>9. DOMAIN <<>> = {}
    OBVIOUS
  <1>10. Calm
    BY <1>1, <1>2, <1>3, <1>9 DEF Calm, Types
  <1>11. Types'
    BY <1>1, <1>2, <1>6 DEF Types, Effect
  <1> QED BY <1>6, <1>8, <1>10, <1>11, CalmStep DEF Effect

\* Startup makes its list of calls.
LEMMA StartupStep ==
  ASSUME IInv, NEW q \in Names, Startup(q)
  PROVE  IInv' /\ SentBefore
  <1> DEFINE checks == [k \in DOMAIN Queue[q] |-> [Call("check", NoURI, q) EXCEPT !.owners = Queue[q][k].owners]]
             start  == <<Call("start", NoURI, q)>>
             b      == Len(Queue[q])
  <1>1. /\ run = "startup" /\ work = <<>> /\ work' = checks \o start
        /\ UNCHANGED <<Queue, queues, Status, DescURI, AlternativeURIs, stage, aborted, run>>
    BY DEF Startup, queueVars, itemVars
  <1>2. Types /\ Sound(Queue, Status) /\ Leftovers
    BY DEF IInv
  <1>3. /\ DOMAIN Queue[q] = 1..b /\ b \in Nat
        /\ \A k \in 1..b : /\ Queue[q][k].owners \in Seq(Items) /\ 1 \in DOMAIN Queue[q][k].owners
                           /\ \A n \in DOMAIN Queue[q][k].owners : Status[Queue[q][k].owners[n]] # "New"
    BY <1>2, SoundItems
  <1>4. <<>> \in Seq(Items) /\ <<>> \in Seq(Uris) /\ "none" \in Kinds /\ DOMAIN <<>> = {}
    BY DEF Kinds
  <1>5. \A o \in Seq(Items) : LET x == [Call("check", NoURI, q) EXCEPT !.owners = o]
                               IN  x \in Calls /\ x.op = "check" /\ x.owners = o
    BY <1>4 DEF Call, Calls
  <1>6. Call("start", NoURI, q) \in Calls /\ Call("start", NoURI, q).op = "start"
    BY <1>4 DEF Call, Calls
  <1>7. \A k \in 1..b : checks[k] \in Calls /\ checks[k].op = "check" /\ checks[k].owners = Queue[q][k].owners
    BY <1>3, <1>5
  <1>8. checks \in Seq(Calls) /\ b = Len(checks)
    <2>1. checks \in [1..b -> Calls]
      BY <1>3, <1>7
    <2> QED BY <1>3, <2>1, FunctionIsSeq
  <1>9. start \in Seq(Calls) /\ DOMAIN start = 1..1 /\ start[1].op = "start"
    BY <1>6
  <1> HIDE DEF checks, start, b
  <1>10. work' \in Seq(Calls) /\ Joins(work', checks, b, start)
    BY <1>1, <1>8, <1>9, Joined
  <1>11. ASSUME NEW n \in DOMAIN work'
         PROVE  /\ work'[n].op \in {"check", "start"}
                /\ work'[n].op = "check" => /\ work'[n].owners # <<>>
                                            /\ \A m \in DOMAIN work'[n].owners : Status[work'[n].owners[m]] # "New"
    <2>1. CASE n \in 1..b
      <3>1. work'[n].op = "check" /\ work'[n].owners = Queue[q][n].owners
        BY <1>7, <1>10, <2>1 DEF Joins
      <3> QED BY <1>3, <1>4, <2>1, <3>1
    <2>2. CASE n \notin 1..b
      <3>1. n - b \in DOMAIN start /\ work'[n] = start[n - b]
        BY <1>10, <2>2 DEF Joins
      <3>2. n - b = 1
        BY <1>9, <3>1
      <3> QED BY <1>9, <3>1, <3>2
    <2> QED BY <2>1, <2>2
  <1>12. Calm
    BY <1>1, <1>10, <1>11 DEF Calm
  <1>13. Types'
    BY <1>1, <1>2, <1>10 DEF Types
  <1>14. Leftovers' /\ SentBefore
    BY <1>1, <1>2 DEF Leftovers, SentBefore, Sent
  <1>15. Settled
    BY <1>1 DEF Settled
  <1>16. Sound(Queue', Status')
    BY <1>1, <1>2
  <1> QED BY <1>12, <1>13, <1>14, <1>15, <1>16, CalmStep

\* The loop cycles a queue whose head item is due.
LEMMA UnstickStep ==
  ASSUME IInv, NEW q \in Names, Unstick(q)
  PROVE  IInv' /\ SentBefore
  <1>1. /\ run = "running" /\ work = <<>>
        /\ Cycle(q, worker[q], Queue, Status, FetchAfter, PipeDepth[q], inflight)
        /\ UNCHANGED <<queues, DescURI, AlternativeURIs, stage, aborted, run, work>>
    BY DEF Unstick, itemVars
  <1>2. Types /\ Sound(Queue, Status) /\ Leftovers
    BY DEF IInv
  <1>3. Sound(Queue', Status') /\ Cycled(Queue, Status)
    BY <1>1, <1>2, Cycling
  <1>4. Settled
    BY <1>3, Construction DEF Settled, Cycled
  <1>5. Kept
    BY <1>3 DEF Kept, Cycled
  <1>6. Leftovers' /\ SentBefore
    BY <1>1, <1>2, <1>5, KeptStays
  <1>7. DOMAIN <<>> = {}
    OBVIOUS
  <1>8. Types'
    BY <1>1, <1>2 DEF Types
  <1>9. Calm
    BY <1>1, <1>7, <1>8 DEF Calm, Types
  <1> QED BY <1>3, <1>4, <1>6, <1>8, <1>9, CalmStep

-----------------------------------------------------------------------------
(* Messages of the methods *)

\* FindItem finds a QItem that was sent.
LEMMA Found ==
  ASSUME Sound(Queue, Status), NEW q \in Names, NEW u, FindItem(q, u) # 0
  PROVE  FindItem(q, u) \in DOMAIN Queue[q] /\ Queue[q][FindItem(q, u)].sent
  <1> DEFINE found == {k \in DOMAIN Queue[q] : Queue[q][k].uri = u /\ Queue[q][k].sent}
  <1>1. DOMAIN Queue[q] = 1..Len(Queue[q]) /\ Len(Queue[q]) \in Nat
    BY SoundItems
  <1>2. found \in SUBSET Nat
    BY <1>1
  <1>3. found # {} /\ FindItem(q, u) = Min(found)
    BY DEF FindItem
  <1>4. \A k \in found : k \in DOMAIN Queue[q] /\ Queue[q][k].sent
    OBVIOUS
  <1> HIDE DEF found
  <1>5. Min(found) \in found
    BY <1>2, <1>3, LeastPosition
  <1> QED BY <1>3, <1>4, <1>5

\* The owners of a QItem are different and own no other.
LEMMA Owners ==
  ASSUME NEW Q, NEW status, Sound(Q, status), NEW q \in Names, NEW k \in DOMAIN Q[q],
         NEW o \in Range(Q[q][k].owners)
  PROVE  /\ o \in Items /\ OwnedIn(Q, o) /\ status[o] # "New"
         /\ \A r \in Names : \A l \in DOMAIN Q[r] : o \in Range(Q[r][l].owners) => r = q /\ l = k
  <1>1. Apart(Q)
    BY DEF Sound
  <1>2. PICK n \in DOMAIN Q[q][k].owners : o = Q[q][k].owners[n]
    BY DEF Range
  <1>3. o \in Items /\ OwnedIn(Q, o) /\ status[o] # "New"
    BY <1>2, SoundItems
  <1>4. \A r \in Names : \A l \in DOMAIN Q[r] : o \in Range(Q[r][l].owners) => r = q /\ l = k
    BY <1>1, <1>2 DEF Apart, Range
  <1> QED BY <1>3, <1>4

\* 200 URI Start
LEMMA URIStartStep ==
  ASSUME IInv, NEW q \in Names, NEW u \in Uris, URIStart(q, u)
  PROVE  IInv' /\ SentBefore
  <1> DEFINE k == FindItem(q, u)
  <1>1. /\ run = "running" /\ work = <<>> /\ work' = <<>>
        /\ UNCHANGED <<Queue, queues, DescURI, AlternativeURIs, stage, aborted, run>>
    BY DEF URIStart, Listening, queueVars, itemVars
  <1>2. Types /\ Sound(Queue, Status) /\ Leftovers
    BY DEF IInv
  <1>3. CASE k = 0
    <2>1. Status' = Status
      BY <1>3 DEF URIStart
    <2> QED BY <1>1, <2>1, OtherStep
  <1>4. CASE k # 0
    <2>1. Status' = [i \in Items |-> IF i \in Range(Queue[q][k].owners) THEN "Fetching" ELSE Status[i]]
      BY <1>4 DEF URIStart
    <2>2. k \in DOMAIN Queue[q] /\ Queue[q][k].sent
      BY <1>2, <1>4, Found
    <2> HIDE DEF k
    <2>3. \A o \in Range(Queue[q][k].owners) :
            /\ o \in Items /\ OwnedIn(Queue, o) /\ Status[o] # "New"
            /\ \A r \in Names : \A l \in DOMAIN Queue[r] : o \in Range(Queue[r][l].owners) => r = q /\ l = k
      BY <1>2, <2>2, Owners
    <2>4. /\ Queue \in [Names -> Seq(QItems)] /\ Status \in [Items -> Statuses]
          /\ Manned(Queue) /\ Apart(Queue) /\ Matches(Queue, Status) /\ Known(Queue, Status)
      BY <1>2 DEF Sound
    <2>5. Status' \in [Items -> Statuses]
      BY <2>1, <2>4 DEF Statuses
    <2>6. \A j \in Items : Status'[j] = "New" <=> Status[j] = "New"
      BY <2>1, <2>3
    <2>7. Matches(Queue, Status')
      <3> SUFFICES ASSUME NEW r \in Names, NEW l \in DOMAIN Queue[r]
                   PROVE  Status'[Primary(Queue[r][l])] = IF Queue[r][l].sent THEN "Fetching" ELSE "Idle"
        BY DEF Matches
      <3> DEFINE p == Primary(Queue[r][l])
      <3>1. p \in Items /\ 1 \in DOMAIN Queue[r][l].owners /\ p = Queue[r][l].owners[1]
        BY <1>2, SoundItems
      <3>2. p \in Range(Queue[r][l].owners)
        BY <3>1 DEF Range
      <3>3. Status[p] = IF Queue[r][l].sent THEN "Fetching" ELSE "Idle"
        BY <2>4 DEF Matches
      <3>4. p \in Range(Queue[q][k].owners) => Queue[r][l].sent
        BY <2>2, <2>3, <3>2
      <3> HIDE DEF p
      <3>5. Status'[p] = IF Queue[r][l].sent THEN "Fetching" ELSE "Idle"
        BY <2>1, <3>1, <3>3, <3>4
      <3> QED BY <3>5 DEF p
    <2>8. Known(Queue, Status')
      <3>1. \A r \in Names : \A l \in DOMAIN Queue[r] : \A n \in DOMAIN Queue[r][l].owners : Queue[r][l].owners[n] \in Items
        BY <1>2, SoundItems
      <3> QED BY <2>4, <2>6, <3>1 DEF Known
    <2>9. Sound(Queue', Status')
      BY <1>1, <2>4, <2>5, <2>7, <2>8 DEF Sound
    <2>10. Settled
      BY <1>1, <2>6, Construction DEF Settled
    <2>11. Leftovers' /\ SentBefore
      BY <1>1, <1>2 DEF Leftovers, SentBefore, Sent
    <2>12. DOMAIN <<>> = {}
      OBVIOUS
    <2>13. Types'
      BY <1>1, <1>2 DEF Types
    <2>14. Calm
      BY <1>1, <2>12, <2>13 DEF Calm, Types
    <2> QED BY <2>9, <2>10, <2>11, <2>13, <2>14, CalmStep
  <1> QED BY <1>3, <1>4

\* A final answer: the QItem leaves its queue and its owners are told.
LEMMA AnswerStep ==
  ASSUME IInv, NEW q \in Names, NEW u \in Uris, NEW from, NEW to \in Statuses \ {"New"},
         NEW c \in Calls, c.op \in Telling, c.op # "new", Answer(q, u, from, to, c)
  PROVE  IInv' /\ SentBefore
  <1> DEFINE k      == FindItem(q, u)
             owners == Queue[q][k].owners
             p      == Primary(Queue[q][k])
             status == [i \in Items |-> IF i \in Range(owners) /\ Status[i] \in from THEN to ELSE Status[i]]
             R      == Without(Queue, {p})
  <1>1. /\ run = "running" /\ work = <<>>
        /\ UNCHANGED <<queues, DescURI, AlternativeURIs, stage, aborted, run>>
    BY DEF Answer, Listening, itemVars, ItemDone
  <1>2. Types /\ Sound(Queue, Status) /\ Leftovers
    BY DEF IInv
  <1>3. CASE k = 0
    <2>1. UNCHANGED <<Queue, Status, work>>
      BY <1>3 DEF Answer
    <2> QED BY <1>1, <2>1, OtherStep
  <1>4. CASE k # 0
    <2>1. /\ Cycle(q, worker[q], R, status, FetchAfter, PipeDepth[q] - 1, Answered(q, u))
          /\ work' = TellOwners(owners, c)
      BY <1>4 DEF Answer, ItemDone
    <2>2. k \in DOMAIN Queue[q] /\ Queue[q][k].sent
      BY <1>2, <1>4, Found
    <2>3. owners \in Seq(Items) /\ p = owners[1] /\ 1 \in DOMAIN owners
      BY <1>2, <2>2, SoundItems
    <2>4. \A o \in Range(owners) :
            /\ o \in Items /\ OwnedIn(Queue, o) /\ Status[o] # "New"
            /\ \A r \in Names : \A l \in DOMAIN Queue[r] : o \in Range(Queue[r][l].owners) => r = q /\ l = k
      BY <1>2, <2>2, Owners
    <2>5. Status \in [Items -> Statuses]
      BY <1>2 DEF Sound
    <2>6. \A m, n \in DOMAIN owners : owners[m] = owners[n] => m = n
      BY <1>2, <2>2 DEF Sound, Apart
    <2>7. p \in Range(owners)
      BY <2>3 DEF Range
    <2>8. \A r \in Names : \A l \in DOMAIN Queue[r] :
            /\ Primary(Queue[r][l]) \in Items /\ Primary(Queue[r][l]) \in Range(Queue[r][l].owners)
            /\ Primary(Queue[r][l]) = p <=> r = q /\ l = k
      <3> TAKE r \in Names
      <3> TAKE l \in DOMAIN Queue[r]
      <3>1. /\ 1 \in DOMAIN Queue[r][l].owners /\ Primary(Queue[r][l]) = Queue[r][l].owners[1]
            /\ Primary(Queue[r][l]) \in Items
        BY <1>2, SoundItems
      <3>2. Primary(Queue[r][l]) \in Range(Queue[r][l].owners)
        BY <3>1 DEF Range
      <3> QED BY <2>4, <2>7, <3>1, <3>2
    <2> HIDE DEF p, k
    <2>9. SameBut(Queue, {p}, Status, status)
      <3>1. \A r \in Names : \A l \in DOMAIN Queue[r] :
              Primary(Queue[r][l]) \notin {p} => status[Primary(Queue[r][l])] = Status[Primary(Queue[r][l])]
        <4> TAKE r \in Names
        <4> TAKE l \in DOMAIN Queue[r]
        <4> HAVE Primary(Queue[r][l]) \notin {p}
        <4>1. Primary(Queue[r][l]) \notin Range(owners)
          BY <2>4, <2>8
        <4> QED BY <2>8, <4>1
      <3>2. \A i \in Items : status[i] = "New" => Status[i] = "New"
        OBVIOUS
      <3> QED BY <3>1, <3>2 DEF SameBut
    <2>10. status \in [Items -> Statuses]
      BY <2>5
    <2>11. \A i \in Items : status[i] = "New" <=> Status[i] = "New"
      BY <2>4
    <2> HIDE DEF status, R
    <2>12. Sound(R, status) /\ Rest(Queue, {p}, R)
      BY <1>2, <2>9, <2>10, Removing DEF R
    <2>13. Sound(Queue', Status') /\ Cycled(R, status)
      BY <2>1, <2>12, Cycling
    <2>14. \A j \in Items : Status'[j] = "New" <=> Status[j] = "New"
      BY <2>11, <2>13 DEF Cycled
    <2>15. \A j \in Items : OwnedIn(Queue', j) => OwnedIn(Queue, j) /\ j \notin Range(owners)
      <3> TAKE j \in Items
      <3> HAVE OwnedIn(Queue', j)
      <3>1. PICK r \in Names : \E l \in DOMAIN Queue[r] : j \in Range(Queue[r][l].owners) /\ Primary(Queue[r][l]) \notin {p}
        BY <2>12, <2>13 DEF Cycled, Rest
      <3>2. PICK l \in DOMAIN Queue[r] : j \in Range(Queue[r][l].owners) /\ Primary(Queue[r][l]) \notin {p}
        BY <3>1
      <3>3. OwnedIn(Queue, j)
        BY <3>2 DEF OwnedIn
      <3>4. j \notin Range(owners)
        BY <2>4, <2>8, <3>2
      <3> QED BY <3>3, <3>4
    <2>16. Kept
      <3> SUFFICES ASSUME NEW r \in Names, NEW l \in DOMAIN Queue'[r]
                   PROVE  \E m \in DOMAIN Queue[r] : /\ Primary(Queue[r][m]) = Primary(Queue'[r][l])
                                                     /\ Queue[r][m].sent => Queue'[r][l].sent
        BY DEF Kept
      <3>1. l \in DOMAIN R[r] /\ Primary(Queue'[r][l]) = Primary(R[r][l]) /\ (R[r][l].sent => Queue'[r][l].sent)
        BY <2>13 DEF Cycled
      <3>2. PICK m \in DOMAIN Queue[r] : R[r][l] = Queue[r][m]
        BY <2>12, <3>1 DEF Rest
      <3> QED BY <3>1, <3>2
    <2>17. Leftovers' /\ SentBefore
      BY <1>1, <1>2, <2>16, KeptStays
    <2>18. /\ work' \in Seq(Calls) /\ DOMAIN work' = DOMAIN owners
           /\ \A n \in DOMAIN owners : work'[n].op = c.op /\ work'[n].item = owners[n]
      <3>1. DOMAIN owners = 1..Len(owners) /\ Len(owners) \in Nat /\ \A n \in DOMAIN owners : owners[n] \in Items
        BY <2>3
      <3>2. \A i \in Items : LET x == [c EXCEPT !.item = i] IN x \in Calls /\ x.op = c.op /\ x.item = i
        BY DEF Calls
      <3>3. work' = [n \in DOMAIN owners |-> [c EXCEPT !.item = owners[n]]]
        BY <2>1 DEF TellOwners
      <3> HIDE DEF owners
      <3>4. \A n \in DOMAIN owners : work'[n] \in Calls /\ work'[n].op = c.op /\ work'[n].item = owners[n]
        BY <3>1, <3>2, <3>3
      <3>5. work' \in [1..Len(owners) -> Calls]
        BY <3>1, <3>3, <3>4
      <3> QED BY <3>1, <3>3, <3>4, <3>5, FunctionIsSeq
    <2>19. Types'
      BY <1>1, <1>2, <2>18 DEF Types
    <2>20. \A n \in DOMAIN work' :
             /\ work'[n].op \in Telling /\ work'[n].op # "new" /\ work'[n].op # "check"
             /\ work'[n].item \in Items /\ work'[n].item \in Range(owners)
             /\ ~OwnedIn(Queue', work'[n].item) /\ Status'[work'[n].item] # "New"
      <3> TAKE n \in DOMAIN work'
      <3>1. work'[n].op = c.op /\ work'[n].item = owners[n] /\ n \in DOMAIN owners
        BY <2>18
      <3>2. owners[n] \in Range(owners)
        BY <3>1 DEF Range
      <3> HIDE DEF owners
      <3> QED BY <2>4, <2>14, <2>15, <3>1, <3>2 DEF Telling
    <2>21. CallsOK'
      <3>1. \A n, m \in DOMAIN work' : work'[n].item = work'[m].item => n = m
        BY <2>6, <2>18
      <3> QED BY <1>1, <2>20, <3>1 DEF CallsOK, Owned, OwnedIn
    <2>22. Pending' \subseteq Range(owners)
      BY <2>20 DEF Pending
    <2>23. Unborn'
      <3> SUFFICES ASSUME NEW j \in Items, Status'[j] = "New" \/ OwnedIn(Queue', j) \/ j \in Pending', NEW n \in DOMAIN Spawns[j]
                   PROVE  Status'[Spawns[j][n]] = "New" /\ Spawns[j][n] \notin Pending'
        BY DEF Unborn, Owned, OwnedIn
      <3>1. Status[j] = "New" \/ OwnedIn(Queue, j)
        BY <2>4, <2>14, <2>15, <2>22
      <3>2. Status[Spawns[j][n]] = "New" /\ Spawns[j][n] \in Items
        BY <3>1, Construction DEF IInv, Unborn, Owned, OwnedIn
      <3> QED BY <2>4, <2>14, <2>22, <3>2
    <2> QED BY <2>13, <2>17, <2>19, <2>21, <2>23 DEF IInv
  <1> QED BY <1>3, <1>4

\* The messages that end a request.
LEMMA MessageStep ==
  ASSUME IInv, NEW q \in Names, NEW u \in Uris, Redirect(q, u) \/ URIDone(q, u) \/ URIFailure(q, u)
  PROVE  IInv' /\ SentBefore
  <1>1. <<>> \in Seq(Items) /\ <<>> \in Seq(Uris) /\ "none" \in Kinds /\ "Done" \in Statuses \ {"New"} /\ "Idle" \in Statuses \ {"New"}
    BY DEF Kinds, Statuses
  <1>2. ASSUME NEW op \in {"redirect", "done", "fail"}
        PROVE  Call(op, NoURI, q) \in Calls /\ Call(op, NoURI, q).op = op
    BY <1>1 DEF Call, Calls, Telling
  <1>3. CASE URIDone(q, u)
    <2>1. Answer(q, u, {"Fetching"}, "Done", Call("done", NoURI, q))
      BY <1>3 DEF URIDone
    <2>2. Call("done", NoURI, q) \in Calls /\ Call("done", NoURI, q).op \in Telling /\ Call("done", NoURI, q).op # "new"
      BY <1>2 DEF Telling
    <2> QED BY <1>1, <2>1, <2>2, AnswerStep
  <1>4. CASE URIFailure(q, u)
    <2>1. PICK kind \in FailKinds[u] : Answer(q, u, {"Fetching"}, "Done", [Call("fail", NoURI, q) EXCEPT !.kind = kind])
      BY <1>4 DEF URIFailure
    <2> DEFINE c == [Call("fail", NoURI, q) EXCEPT !.kind = kind]
    <2>2. kind \in Kinds
      BY DEF Kinds
    <2>3. c \in Calls /\ c.op = "fail"
      BY <1>2, <2>2 DEF Calls
    <2>4. c.op \in Telling /\ c.op # "new"
      BY <2>3 DEF Telling
    <2> HIDE DEF c
    <2>5. Answer(q, u, {"Fetching"}, "Done", c)
      BY <2>1 DEF c
    <2> QED BY <1>1, <2>3, <2>4, <2>5, AnswerStep
  <1>5. CASE Redirect(q, u)
    <2>1. PICK new \in Redirects[u], alts \in MirrorAlts[u] :
            Answer(q, u, Statuses, "Idle", [Call("redirect", NoURI, q) EXCEPT !.uri = new, !.got = new, !.alts = alts])
      BY <1>5 DEF Redirect
    <2> DEFINE c == [Call("redirect", NoURI, q) EXCEPT !.uri = new, !.got = new, !.alts = alts]
    <2>2. new \in Uris /\ alts \in Seq(Uris)
      BY ConstantsAssumption
    <2>3. c \in Calls /\ c.op = "redirect"
      BY <1>2, <2>2 DEF Calls
    <2>4. c.op \in Telling /\ c.op # "new"
      BY <2>3 DEF Telling
    <2> HIDE DEF c
    <2>5. Answer(q, u, Statuses, "Idle", c)
      BY <2>1 DEF c
    <2> QED BY <1>1, <2>3, <2>4, <2>5, AnswerStep
  <1> QED BY <1>3, <1>4, <1>5

-----------------------------------------------------------------------------
(* The theorems *)

\* Every step keeps the invariant, and hands over nothing of an aborted transaction.
LEMMA NextStep ==
  ASSUME IInv, [Next]_vars
  PROVE  IInv' /\ SentBefore
  <1>1. CASE Handler
    BY <1>1, HandlerStep
  <1>2. ASSUME NEW i \in Items, QueueURI(i) PROVE IInv' /\ SentBefore
    BY <1>2, QueueURIStep
  <1>3. CASE Run \/ EnterLoop \/ Tick \/ Cancel \/ Stop \/ \E q \in Names : MethodFailure(q)
    <2>1. UNCHANGED <<Queue, queues, Status, DescURI, AlternativeURIs, stage, aborted>>
      BY <1>3 DEF Run, EnterLoop, Tick, Cancel, Stop, MethodFailure, queueVars, itemVars
    <2>2. run' = run \/ run' \in {"startup", "running", "stopped"}
      BY <1>3 DEF Run, EnterLoop, Tick, Cancel, Stop, MethodFailure
    <2>3. work = <<>> /\ work' = work
      BY <1>3 DEF Run, EnterLoop, Tick, Cancel, Stop, MethodFailure, Listening, IInv, CallsOK
    <2> QED BY <2>1, <2>2, <2>3, OtherStep
  <1>4. ASSUME NEW q \in Names, Startup(q) \/ Unstick(q) PROVE IInv' /\ SentBefore
    BY <1>4, StartupStep, UnstickStep
  <1>5. ASSUME NEW q \in Names, NEW u \in Uris, URIStart(q, u) \/ Redirect(q, u) \/ URIDone(q, u) \/ URIFailure(q, u)
        PROVE  IInv' /\ SentBefore
    BY <1>5, URIStartStep, MessageStep
  <1>6. CASE UNCHANGED vars
    <2>1. /\ UNCHANGED <<Queue, queues, Status, DescURI, AlternativeURIs, stage, aborted, run, work>>
      BY <1>6 DEF vars, queueVars, itemVars
    <2>2. IInv'
      BY <2>1 DEF IInv, Types, CallsOK, Unborn, Pending, Owned, Leftovers
    <2>3. SentBefore
      BY <2>1 DEF SentBefore, Sent
    <2> QED BY <2>2, <2>3
  <1> QED BY <1>1, <1>2, <1>3, <1>4, <1>5, <1>6 DEF Next, Finished

\* The invariant holds throughout.
LEMMA Invariant == Spec => []IInv
  <1>1. Init => IInv
    BY InitInv
  <1>2. IInv /\ [Next]_vars => IInv'
    BY NextStep
  <1> QED BY <1>1, <1>2, PTL DEF Spec

\* Whatever answers, retries, redirects and new items are still to come, a
\* transaction that was aborted hands nothing more to a worker (Worker::QueueItem
\* and the isDoomedItem tests of RunMessages and HandleFailure).
THEOREM AbortStaysFinal == Spec => AbortIsFinal
  <1>1. IInv /\ [Next]_vars => [SentBefore]_vars
    BY NextStep
  <1>2. [SentBefore]_vars =>
          [\A q \in Names : \A k \in DOMAIN Queue'[q] :
             aborted /\ Queue'[q][k].sent /\ Primary(Queue'[q][k]) \in Txn
               => \E m \in Sent(q) : Primary(Queue[q][m]) = Primary(Queue'[q][k])]_vars
    BY DEF SentBefore
  <1> QED BY <1>1, <1>2, Invariant, PTL DEF Spec, AbortIsFinal

\* No item is an owner twice: pkgAcquire::Dequeue, which decrements ToFetch once,
\* and the loops over the owners in RunMessages may rely on it.
THEOREM NoItemTwice == Spec => []OwnedOnce
  <1>1. IInv => OwnedOnce
    BY DEF IInv, Sound, Apart, OwnedOnce
  <1> QED BY <1>1, Invariant, PTL

-----------------------------------------------------------------------------
(* What is counted *)

\* the first owners of the QItems of Q; of those of queue q that were handed to
\* the worker; and of those which are for u
Heads(Q) == {i \in Items : Queued(Q, i)}
SentHeads(Q, q) == {i \in Items : \E k \in DOMAIN Q[q] : Q[q][k].sent /\ Primary(Q[q][k]) = i}
AskedHeads(Q, q, u) == {i \in Items : \E k \in DOMAIN Q[q] : Q[q][k].sent /\ Primary(Q[q][k]) = i /\ Q[q][k].uri = u}

\* n, D and F count what ToFetch, PipeDepth and inflight are for
Exact(Q, n, D, F) ==
  /\ IsFiniteSet(Heads(Q)) /\ n = Cardinality(Heads(Q))
  /\ D \in [Names -> Int] /\ F \in [Names -> [Uris -> Nat]]
  /\ \A q \in Names : D[q] = Cardinality(SentHeads(Q, q)) /\ D[q] <= MaxPipeDepth[q]
  /\ \A q \in Names, u \in Uris : F[q][u] <= Cardinality(AskedHeads(Q, q, u))

\* what was sent in Q is sent in R, and nothing else
SameSent(Q, R) ==
  /\ \A q \in Names : SentHeads(R, q) = SentHeads(Q, q)
  /\ \A q \in Names, u \in Uris : AskedHeads(R, q, u) = AskedHeads(Q, q, u)

\* Every QItem has a first owner of its own.
LEMMA HeadsApart ==
  ASSUME NEW Q, NEW status, Sound(Q, status), NEW q \in Names, NEW k \in DOMAIN Q[q]
  PROVE  /\ Primary(Q[q][k]) \in Items
         /\ \A r \in Names : \A l \in DOMAIN Q[r] : Primary(Q[r][l]) = Primary(Q[q][k]) => r = q /\ l = k
  <1>1. 1 \in DOMAIN Q[q][k].owners /\ Primary(Q[q][k]) = Q[q][k].owners[1] /\ Primary(Q[q][k]) \in Items
    BY SoundItems
  <1>2. \A r \in Names : \A l \in DOMAIN Q[r] : 1 \in DOMAIN Q[r][l].owners /\ Primary(Q[r][l]) = Q[r][l].owners[1]
    BY SoundItems
  <1>3. Apart(Q)
    BY DEF Sound
  <1> QED BY <1>1, <1>2, <1>3 DEF Apart

\* The sent ones are among all, and those for u among the sent.
LEMMA HeadsWithin ==
  ASSUME NEW Q, NEW q \in Names, NEW u
  PROVE  SentHeads(Q, q) \subseteq Heads(Q) /\ AskedHeads(Q, q, u) \subseteq SentHeads(Q, q)
  BY DEF Heads, SentHeads, AskedHeads, Queued

\* They are finitely many.
LEMMA HeadsFinite ==
  ASSUME NEW Q, IsFiniteSet(Heads(Q)), NEW q \in Names, NEW u
  PROVE  /\ IsFiniteSet(SentHeads(Q, q)) /\ Cardinality(SentHeads(Q, q)) \in Nat
         /\ IsFiniteSet(AskedHeads(Q, q, u)) /\ Cardinality(AskedHeads(Q, q, u)) \in Nat
         /\ Cardinality(Heads(Q)) \in Nat
  <1>1. SentHeads(Q, q) \in SUBSET Heads(Q) /\ AskedHeads(Q, q, u) \in SUBSET Heads(Q)
    BY HeadsWithin
  <1>2. IsFiniteSet(SentHeads(Q, q)) /\ IsFiniteSet(AskedHeads(Q, q, u))
    BY <1>1, FS_Subset
  <1> QED BY <1>2, FS_CardinalityType

\* R has the QItems of Q but those whose first owner is in I
Leaves(Q, I, R) ==
  \A q \in Names :
    /\ \A m \in DOMAIN R[q] : \E k \in DOMAIN Q[q] : R[q][m] = Q[q][k] /\ Primary(Q[q][k]) \notin I
    /\ \A k \in DOMAIN Q[q] : Primary(Q[q][k]) \notin I => \E m \in DOMAIN R[q] : R[q][m] = Q[q][k]

\* Deleting QItems leaves the others.
LEMMA Deleting ==
  ASSUME NEW Q, NEW status, Sound(Q, status), NEW I, NEW R, R = Without(Q, I)
  PROVE  Leaves(Q, I, R)
  <1> DEFINE K(q) == {k \in DOMAIN Q[q] : Primary(Q[q][k]) \notin I}
  <1>1. ASSUME NEW q \in Names
        PROVE  /\ \A m \in DOMAIN R[q] : \E k \in DOMAIN Q[q] : R[q][m] = Q[q][k] /\ Primary(Q[q][k]) \notin I
               /\ \A k \in DOMAIN Q[q] : Primary(Q[q][k]) \notin I => \E m \in DOMAIN R[q] : R[q][m] = Q[q][k]
    <2>1. R[q] = AtPositions(Q[q], K(q))
      BY DEF Without
    <2>2. Q[q] \in Seq(QItems)
      BY SoundItems
    <2>3. K(q) \in SUBSET (DOMAIN Q[q])
      OBVIOUS
    <2>4. \A k \in DOMAIN Q[q] : k \in K(q) <=> Primary(Q[q][k]) \notin I
      OBVIOUS
    <2> HIDE DEF K
    <2>5. /\ \A m \in DOMAIN R[q] : Source(K(q), m) \in K(q) /\ R[q][m] = Q[q][Source(K(q), m)]
          /\ \A p \in K(q) : \E m \in DOMAIN R[q] : Source(K(q), m) = p
      BY <2>1, <2>2, <2>3, Filtered
    <2>6. \A m \in DOMAIN R[q] : \E k \in DOMAIN Q[q] : R[q][m] = Q[q][k] /\ Primary(Q[q][k]) \notin I
      BY <2>3, <2>4, <2>5
    <2>7. ASSUME NEW k \in DOMAIN Q[q], Primary(Q[q][k]) \notin I PROVE \E m \in DOMAIN R[q] : R[q][m] = Q[q][k]
      <3>1. PICK m \in DOMAIN R[q] : Source(K(q), m) = k
        BY <2>4, <2>5, <2>7
      <3> QED BY <2>5, <3>1
    <2> QED BY <2>6, <2>7
  <1> QED BY <1>1 DEF Leaves

\* the same, in terms of first owners
LeavesHeads(Q, I, R) ==
  /\ Heads(R) = Heads(Q) \ I
  /\ \A q \in Names : SentHeads(R, q) = SentHeads(Q, q) \ I
  /\ \A q \in Names, u \in Uris : AskedHeads(R, q, u) = AskedHeads(Q, q, u) \ I

\* What is left when the QItems of some first owners are deleted.
LEMMA HeadsWithout ==
  ASSUME NEW Q, NEW status, Sound(Q, status), NEW I, NEW R, R = Without(Q, I)
  PROVE  LeavesHeads(Q, I, R)
  <1>1. ASSUME NEW q \in Names
        PROVE  /\ \A m \in DOMAIN R[q] : \E k \in DOMAIN Q[q] : R[q][m] = Q[q][k] /\ Primary(Q[q][k]) \notin I
               /\ \A k \in DOMAIN Q[q] : Primary(Q[q][k]) \notin I => \E m \in DOMAIN R[q] : R[q][m] = Q[q][k]
    <2>1. Leaves(Q, I, R)
      BY Deleting
    <2> QED BY <2>1 DEF Leaves
  <1>2. Heads(R) = Heads(Q) \ I
    <2>1. ASSUME NEW i \in Heads(R) PROVE i \in Heads(Q) \ I
      <3>1. PICK q \in Names : \E m \in DOMAIN R[q] : Primary(R[q][m]) = i
        BY DEF Heads, Queued
      <3>2. PICK m \in DOMAIN R[q] : Primary(R[q][m]) = i
        BY <3>1
      <3>3. PICK k \in DOMAIN Q[q] : R[q][m] = Q[q][k] /\ Primary(Q[q][k]) \notin I
        BY <1>1
      <3> QED BY <3>2, <3>3 DEF Heads, Queued
    <2>2. ASSUME NEW i \in Heads(Q) \ I PROVE i \in Heads(R)
      <3>1. PICK q \in Names : \E k \in DOMAIN Q[q] : Primary(Q[q][k]) = i
        BY DEF Heads, Queued
      <3>2. PICK k \in DOMAIN Q[q] : Primary(Q[q][k]) = i
        BY <3>1
      <3>3. PICK m \in DOMAIN R[q] : R[q][m] = Q[q][k]
        BY <1>1, <3>2
      <3> QED BY <3>2, <3>3 DEF Heads, Queued
    <2> QED BY <2>1, <2>2
  <1>3. ASSUME NEW q \in Names, NEW u \in Uris PROVE AskedHeads(R, q, u) = AskedHeads(Q, q, u) \ I
    <2>1. ASSUME NEW i \in AskedHeads(R, q, u) PROVE i \in AskedHeads(Q, q, u) \ I
      <3>1. PICK m \in DOMAIN R[q] : R[q][m].sent /\ Primary(R[q][m]) = i /\ R[q][m].uri = u
        BY DEF AskedHeads
      <3>2. PICK k \in DOMAIN Q[q] : R[q][m] = Q[q][k] /\ Primary(Q[q][k]) \notin I
        BY <1>1
      <3> QED BY <3>1, <3>2 DEF AskedHeads
    <2>2. ASSUME NEW i \in AskedHeads(Q, q, u) \ I PROVE i \in AskedHeads(R, q, u)
      <3>1. PICK k \in DOMAIN Q[q] : Q[q][k].sent /\ Primary(Q[q][k]) = i /\ Q[q][k].uri = u
        BY DEF AskedHeads
      <3>2. PICK m \in DOMAIN R[q] : R[q][m] = Q[q][k]
        BY <1>1, <3>1
      <3> QED BY <3>1, <3>2 DEF AskedHeads
    <2> QED BY <2>1, <2>2
  <1>4. ASSUME NEW q \in Names PROVE SentHeads(R, q) = SentHeads(Q, q) \ I
    <2>1. ASSUME NEW i \in SentHeads(R, q) PROVE i \in SentHeads(Q, q) \ I
      <3>1. PICK m \in DOMAIN R[q] : R[q][m].sent /\ Primary(R[q][m]) = i
        BY DEF SentHeads
      <3>2. PICK k \in DOMAIN Q[q] : R[q][m] = Q[q][k] /\ Primary(Q[q][k]) \notin I
        BY <1>1
      <3> QED BY <3>1, <3>2 DEF SentHeads
    <2>2. ASSUME NEW i \in SentHeads(Q, q) \ I PROVE i \in SentHeads(R, q)
      <3>1. PICK k \in DOMAIN Q[q] : Q[q][k].sent /\ Primary(Q[q][k]) = i
        BY DEF SentHeads
      <3>2. PICK m \in DOMAIN R[q] : R[q][m] = Q[q][k]
        BY <1>1, <3>1
      <3> QED BY <3>1, <3>2 DEF SentHeads
    <2> QED BY <2>1, <2>2
  <1> QED BY <1>2, <1>3, <1>4 DEF LeavesHeads


\* each QItem of R that was sent is one of Q but for its owners behind the first
SentFrom(Q, R) ==
  \A q \in Names : \A m \in DOMAIN R[q] : R[q][m].sent =>
    \E k \in DOMAIN Q[q] : Q[q][k].sent /\ Primary(Q[q][k]) = Primary(R[q][m]) /\ Q[q][k].uri = R[q][m].uri

\* The same was sent if that is so both ways.
LEMMA SentBothWays ==
  ASSUME NEW Q, NEW R, SentFrom(Q, R), SentFrom(R, Q)
  PROVE  SameSent(Q, R)
  <1>1. ASSUME NEW A, NEW B, SentFrom(A, B), NEW q \in Names
        PROVE  /\ SentHeads(B, q) \subseteq SentHeads(A, q)
               /\ \A u \in Uris : AskedHeads(B, q, u) \subseteq AskedHeads(A, q, u)
    <2>1. ASSUME NEW i \in SentHeads(B, q) PROVE i \in SentHeads(A, q)
      <3>1. PICK m \in DOMAIN B[q] : B[q][m].sent /\ Primary(B[q][m]) = i
        BY DEF SentHeads
      <3>2. PICK k \in DOMAIN A[q] : A[q][k].sent /\ Primary(A[q][k]) = Primary(B[q][m]) /\ A[q][k].uri = B[q][m].uri
        BY <1>1, <3>1 DEF SentFrom
      <3> QED BY <3>1, <3>2 DEF SentHeads
    <2>2. ASSUME NEW u \in Uris, NEW i \in AskedHeads(B, q, u) PROVE i \in AskedHeads(A, q, u)
      <3>1. PICK m \in DOMAIN B[q] : B[q][m].sent /\ Primary(B[q][m]) = i /\ B[q][m].uri = u
        BY DEF AskedHeads
      <3>2. PICK k \in DOMAIN A[q] : A[q][k].sent /\ Primary(A[q][k]) = Primary(B[q][m]) /\ A[q][k].uri = B[q][m].uri
        BY <1>1, <3>1 DEF SentFrom
      <3> QED BY <3>1, <3>2 DEF AskedHeads
    <2> QED BY <2>1, <2>2
  <1>2. \A q \in Names : SentHeads(R, q) \subseteq SentHeads(Q, q) /\ SentHeads(Q, q) \subseteq SentHeads(R, q)
    BY <1>1
  <1>3. \A q \in Names, u \in Uris : AskedHeads(R, q, u) \subseteq AskedHeads(Q, q, u) /\ AskedHeads(Q, q, u) \subseteq AskedHeads(R, q, u)
    BY <1>1
  <1> QED BY <1>2, <1>3 DEF SameSent

\* R has one QItem more than Q, of the first owner i
GrowsHeads(Q, i, R) == Heads(R) = Heads(Q) \cup {i} /\ SameSent(Q, R)

\* R has the QItems of Q, and e in queue q
PutsIn(Q, q, e, R) ==
  /\ \E m \in DOMAIN R[q] : R[q][m] = e
  /\ \A r \in Names : \A m \in DOMAIN R[r] : (r = q /\ R[r][m] = e) \/ \E k \in DOMAIN Q[r] : R[r][m] = Q[r][k]
  /\ \A r \in Names : \A k \in DOMAIN Q[r] : \E m \in DOMAIN R[r] : R[r][m] = Q[r][k]

\* Inserting a QItem leaves the others.
LEMMA InsertingOne ==
  ASSUME NEW Q, NEW status, Sound(Q, status), NEW q \in Names, NEW i \in Items,
         NEW p \in 1..(Len(Q[q]) + 1), NEW u \in Uris,
         NEW R, R = [Q EXCEPT ![q] = InsertAt(Q[q], p, [uri |-> u, owners |-> <<i>>, sent |-> FALSE])]
  PROVE  PutsIn(Q, q, [uri |-> u, owners |-> <<i>>, sent |-> FALSE], R)
  <1> DEFINE e == [uri |-> u, owners |-> <<i>>, sent |-> FALSE]
  <1>1. Q[q] \in Seq(QItems) /\ DOMAIN Q[q] = 1..Len(Q[q]) /\ Len(Q[q]) \in Nat /\ Q \in [Names -> Seq(QItems)]
    BY SoundItems DEF Sound
  <1>2. e \in QItems /\ Primary(e) = i /\ e.sent = FALSE
    BY DEF QItems, Primary
  <1> HIDE DEF e
  <1>3. R[q] = InsertAt(Q[q], p, e) /\ \A r \in Names : r # q => R[r] = Q[r]
    BY <1>1 DEF e
  <1>4. PutIn(R[q], QItems, Q[q], p, e)
    BY <1>1, <1>2, <1>3, Inserted
  <1>5. /\ p \in DOMAIN R[q] /\ R[q][p] = e
        /\ \A m \in DOMAIN R[q] : R[q][m] = e \/ \E k \in DOMAIN Q[q] : R[q][m] = Q[q][k]
        /\ \A k \in DOMAIN Q[q] : \E m \in DOMAIN R[q] : R[q][m] = Q[q][k]
    <2> DEFINE w == R[q]
               s == Q[q]
    <2>1. /\ w \in Seq(QItems) /\ Len(w) = Len(s) + 1
          /\ \A k \in 1..(Len(s) + 1) : w[k] = IF k < p THEN s[k] ELSE IF k = p THEN e ELSE s[k - 1]
      BY <1>4 DEF PutIn
    <2>2. s \in Seq(QItems) /\ DOMAIN s = 1..Len(s) /\ Len(s) \in Nat
      BY <1>1
    <2> HIDE DEF w, s
    <2>3. DOMAIN w = 1..(Len(s) + 1) /\ p \in 1..(Len(s) + 1)
      BY <2>1 DEF s
    <2>4. w[p] = e
      BY <2>1, <2>2, <2>3
    <2>5. ASSUME NEW m \in DOMAIN w PROVE w[m] = e \/ \E k \in DOMAIN s : w[m] = s[k]
      <3>1. CASE m < p
        <4>1. m \in DOMAIN s /\ w[m] = s[m]
          BY <2>1, <2>2, <2>3, <3>1
        <4> QED BY <4>1
      <3>2. CASE m > p
        <4>1. m - 1 \in DOMAIN s /\ w[m] = s[m - 1]
          BY <2>1, <2>2, <2>3, <3>2
        <4> QED BY <4>1
      <3>3. CASE m = p
        BY <2>4, <3>3
      <3> QED BY <2>2, <2>3, <3>1, <3>2, <3>3
    <2>6. ASSUME NEW k \in DOMAIN s PROVE \E m \in DOMAIN w : w[m] = s[k]
      <3>1. CASE k < p
        <4>1. k \in DOMAIN w /\ w[k] = s[k]
          BY <2>1, <2>2, <2>3, <3>1
        <4> QED BY <4>1
      <3>2. CASE ~(k < p)
        <4>1. k + 1 \in DOMAIN w /\ ~(k + 1 < p) /\ k + 1 # p /\ (k + 1) - 1 = k
          BY <2>1, <2>2, <2>3, <3>2
        <4>2. w[k + 1] = s[k]
          BY <2>1, <2>3, <4>1
        <4> QED BY <4>1, <4>2
      <3> QED BY <3>1, <3>2
    <2> QED BY <2>3, <2>4, <2>5, <2>6 DEF w, s
  <1>6. ASSUME NEW r \in Names, NEW m \in DOMAIN R[r]
        PROVE  (r = q /\ R[r][m] = e) \/ \E k \in DOMAIN Q[r] : R[r][m] = Q[r][k]
    <2>1. CASE r = q
      BY ONLY <1>5, <2>1, m \in DOMAIN R[r]
    <2>2. CASE r # q
      <3>1. R[r] = Q[r]
        BY <1>3, <2>2
      <3> QED BY ONLY <3>1, m \in DOMAIN R[r]
    <2> QED BY <2>1, <2>2
  <1>7. ASSUME NEW r \in Names, NEW k \in DOMAIN Q[r]
        PROVE  \E m \in DOMAIN R[r] : R[r][m] = Q[r][k]
    <2>1. CASE r = q
      BY ONLY <1>5, <2>1, k \in DOMAIN Q[r]
    <2>2. CASE r # q
      <3>1. R[r] = Q[r]
        BY <1>3, <2>2
      <3> QED BY ONLY <3>1, k \in DOMAIN Q[r]
    <2> QED BY <2>1, <2>2
  <1>8. PutsIn(Q, q, e, R)
    BY <1>5, <1>6, <1>7 DEF PutsIn
  <1> QED BY <1>8 DEF e

\* A new QItem is one more, and was not sent.
LEMMA HeadsInserted ==
  ASSUME NEW Q, NEW status, Sound(Q, status), NEW q \in Names, NEW i \in Items,
         NEW p \in 1..(Len(Q[q]) + 1), NEW u \in Uris,
         NEW R, R = [Q EXCEPT ![q] = InsertAt(Q[q], p, [uri |-> u, owners |-> <<i>>, sent |-> FALSE])]
  PROVE  GrowsHeads(Q, i, R)
  <1> DEFINE e == [uri |-> u, owners |-> <<i>>, sent |-> FALSE]
  <1>2. e \in QItems /\ Primary(e) = i /\ e.sent = FALSE
    BY DEF QItems, Primary
  <1>4. PutsIn(Q, q, e, R)
    BY InsertingOne
  <1>3. e = [uri |-> u, owners |-> <<i>>, sent |-> FALSE]
    OBVIOUS
  <1> HIDE DEF e
  <1>5. \E m \in DOMAIN R[q] : R[q][m] = e
    BY <1>4 DEF PutsIn
  <1>6. ASSUME NEW r \in Names, NEW m \in DOMAIN R[r]
        PROVE  R[r][m] = e \/ \E k \in DOMAIN Q[r] : R[r][m] = Q[r][k]
    BY <1>4 DEF PutsIn
  <1>7. ASSUME NEW r \in Names, NEW k \in DOMAIN Q[r]
        PROVE  \E m \in DOMAIN R[r] : R[r][m] = Q[r][k]
    BY <1>4 DEF PutsIn
  <1>8. Heads(R) = Heads(Q) \cup {i}
    <2>1. ASSUME NEW j \in Heads(R) PROVE j \in Heads(Q) \cup {i}
      <3>1. PICK r \in Names : \E m \in DOMAIN R[r] : Primary(R[r][m]) = j
        BY DEF Heads, Queued
      <3>2. PICK m \in DOMAIN R[r] : Primary(R[r][m]) = j
        BY <3>1
      <3>3. CASE R[r][m] = e
        BY <1>2, <3>2, <3>3
      <3>4. ASSUME NEW k \in DOMAIN Q[r], R[r][m] = Q[r][k] PROVE j \in Heads(Q)
        <4>1. Primary(Q[r][k]) = j /\ j \in Items
          BY <3>2, <3>4 DEF Heads
        <4> QED BY <4>1 DEF Heads, Queued
      <3> QED BY <1>6, <3>3, <3>4
    <2>2. ASSUME NEW j \in Heads(Q) PROVE j \in Heads(R)
      <3>1. PICK r \in Names : \E m \in DOMAIN Q[r] : Primary(Q[r][m]) = j
        BY DEF Heads, Queued
      <3>2. PICK k \in DOMAIN Q[r] : Primary(Q[r][k]) = j
        BY <3>1
      <3>3. PICK m \in DOMAIN R[r] : R[r][m] = Q[r][k]
        BY <1>7
      <3> QED BY <3>2, <3>3 DEF Heads, Queued
    <2>3. i \in Heads(R)
      BY <1>2, <1>5 DEF Heads, Queued
    <2> QED BY <2>1, <2>2, <2>3
  <1>9. SentFrom(Q, R)
    <2> SUFFICES ASSUME NEW r \in Names, NEW m \in DOMAIN R[r], R[r][m].sent
                 PROVE  \E k \in DOMAIN Q[r] : Q[r][k].sent /\ Primary(Q[r][k]) = Primary(R[r][m]) /\ Q[r][k].uri = R[r][m].uri
      BY DEF SentFrom
    <2>1. R[r][m] # e
      BY <1>2
    <2>2. PICK k \in DOMAIN Q[r] : R[r][m] = Q[r][k]
      BY <1>6, <2>1
    <2> QED BY <2>2
  <1>10. SentFrom(R, Q)
    <2> SUFFICES ASSUME NEW r \in Names, NEW k \in DOMAIN Q[r], Q[r][k].sent
                 PROVE  \E m \in DOMAIN R[r] : R[r][m].sent /\ Primary(R[r][m]) = Primary(Q[r][k]) /\ R[r][m].uri = Q[r][k].uri
      BY DEF SentFrom
    <2>2. PICK m \in DOMAIN R[r] : R[r][m] = Q[r][k]
      BY <1>7
    <2> QED BY <2>2
  <1> QED BY <1>8, <1>9, <1>10, SentBothWays DEF GrowsHeads

\* Another owner changes nothing that is counted.
LEMMA HeadsShared ==
  ASSUME NEW Q, NEW status, Sound(Q, status), NEW q \in Names, NEW i \in Items,
         NEW k \in DOMAIN Q[q], NEW R, R = QueuesShared(Q, q, k, i)
  PROVE  Heads(R) = Heads(Q) /\ SameSent(Q, R)
  <1> DEFINE y == [Q[q][k] EXCEPT !.owners = Append(Q[q][k].owners, i)]
  <1>1. /\ Q \in [Names -> Seq(QItems)] /\ Q[q] \in Seq(QItems) /\ Q[q][k] \in QItems
        /\ Q[q][k].owners \in Seq(Items) /\ 1 \in DOMAIN Q[q][k].owners
    BY SoundItems DEF Sound
  <1>2. R[q] = [Q[q] EXCEPT ![k] = y] /\ \A r \in Names : r # q => R[r] = Q[r]
    BY <1>1 DEF QueuesShared
  <1>3. y.uri = Q[q][k].uri /\ y.sent = Q[q][k].sent /\ y.owners = Append(Q[q][k].owners, i)
    BY <1>1 DEF QItems
  <1>4. Primary(y) = Primary(Q[q][k])
    <2>1. Head(Append(Q[q][k].owners, i)) = Head(Q[q][k].owners)
      BY <1>1
    <2> QED BY <1>3, <2>1 DEF Primary
  <1> HIDE DEF y
  <1>5. \A r \in Names : /\ DOMAIN R[r] = DOMAIN Q[r]
                         /\ \A l \in DOMAIN Q[r] : /\ Primary(R[r][l]) = Primary(Q[r][l])
                                                   /\ R[r][l].uri = Q[r][l].uri /\ R[r][l].sent = Q[r][l].sent
    <2> TAKE r \in Names
    <2>1. CASE r # q
      BY <1>2, <2>1
    <2>2. CASE r = q
      <3>1. DOMAIN R[q] = DOMAIN Q[q] /\ R[q][k] = y /\ \A l \in DOMAIN Q[q] : l # k => R[q][l] = Q[q][l]
        BY <1>1, <1>2
      <3> QED BY <1>3, <1>4, <2>2, <3>1
    <2> QED BY <2>1, <2>2
  <1>6. Heads(R) = Heads(Q)
    BY <1>5 DEF Heads, Queued
  <1>7. SentFrom(Q, R) /\ SentFrom(R, Q)
    BY <1>5 DEF SentFrom
  <1> QED BY <1>6, <1>7, SentBothWays

\* A set of positions has a last one.
LEMMA LastPosition ==
  ASSUME NEW n \in Nat, NEW K \in SUBSET (0..n), K # {}
  PROVE  \E x \in K : \A y \in K : x >= y
  <1> DEFINE D == {n - x : x \in K}
  <1>1. D \in SUBSET Nat /\ D # {}
    <2>1. \A x \in K : x \in 0..n
      OBVIOUS
    <2>2. \A x \in K : n - x \in Nat
      BY <2>1
    <2> QED BY <2>2
  <1>2. IsWellFoundedOn(OpToRel(<, Nat), Nat)
    BY NatLessThanWellFounded
  <1>3. PICK d \in D : \A y \in D : ~(<<y, d>> \in OpToRel(<, Nat))
    BY <1>1, <1>2, WFMin
  <1>4. PICK x \in K : d = n - x
    BY <1>3
  <1>5. \A y \in K : x >= y
    <2> TAKE y \in K
    <2>1. n - y \in D /\ n - y \in Nat /\ d \in Nat
      BY <1>1
    <2>2. ~(n - y < d)
      BY <1>3, <2>1 DEF OpToRel
    <2> QED BY <1>4, <2>2
  <1> QED BY <1>5

\* One Cycle() fills the pipeline at most up to its depth.
LEMMA PipelineBound ==
  ASSUME NEW q \in Names, NEW w, NEW L \in Seq(QItems), NEW status, NEW after, NEW depth \in Int,
         depth <= MaxPipeDepth[q], NEW sent, sent = CycleSent(q, w, L, status, after, depth)
  PROVE  /\ sent \in SUBSET DOMAIN L /\ IsFiniteSet(sent) /\ Cardinality(sent) \in Nat
         /\ \A k \in sent : status[Primary(L[k])] = "Idle"
         /\ depth + Cardinality(sent) <= MaxPipeDepth[q]
         /\ w = "none" => sent = {}
  <1> DEFINE Idle(k) == status[Primary(L[k])] = "Idle"
             Before(k) == {m \in 1..(k-1) : Idle(m)}
  <1>1. DOMAIN L = 1..Len(L) /\ Len(L) \in Nat
    OBVIOUS
  <1>2. sent \in SUBSET DOMAIN L /\ (\A k \in sent : Idle(k)) /\ (w = "none" => sent = {})
    BY DEF CycleSent
  <1>3. ASSUME NEW k \in sent PROVE depth + Cardinality(Before(k)) < MaxPipeDepth[q]
    <2>1. w # "none"
      BY <1>2
    <2>2. \A m \in 1..k : Idle(m) => depth + Cardinality(Before(m)) < MaxPipeDepth[q]
      BY <2>1 DEF CycleSent
    <2>3. k \in 1..k /\ Idle(k)
      BY <1>1, <1>2
    <2> QED BY <2>2, <2>3
  <1> HIDE DEF Idle
  <1>4. IsFiniteSet(sent) /\ Cardinality(sent) \in Nat
    <2>1. IsFiniteSet(1..Len(L))
      BY <1>1, FS_Interval, 1 \in Int, Len(L) \in Int
    <2>2. sent \in SUBSET (1..Len(L))
      BY <1>1, <1>2
    <2> QED BY <2>1, <2>2, FS_Subset, FS_CardinalityType
  <1>5. MaxPipeDepth[q] \in Nat
    BY ConstantsAssumption
  <1>6. CASE sent = {}
    <2>1. Cardinality(sent) = 0
      BY <1>6, FS_EmptySet
    <2> QED BY <1>2, <1>4, <1>5, <2>1 DEF Idle
  <1>7. CASE sent # {}
    <2>1. sent \in SUBSET (0..Len(L))
      BY <1>1, <1>2
    <2>2. PICK k \in sent : \A m \in sent : k >= m
      BY <1>1, <1>7, <2>1, LastPosition
    <2>3. k \in Nat /\ \A m \in sent : m \in Nat /\ m >= 1
      BY <1>1, <1>2
    <2>4. IsFiniteSet(Before(k)) /\ Cardinality(Before(k)) \in Nat
      <3>1. IsFiniteSet(1..(k-1))
        BY <2>3, FS_Interval, 1 \in Int, k - 1 \in Int
      <3>2. Before(k) \in SUBSET (1..(k-1))
        OBVIOUS
      <3> HIDE DEF Before
      <3> QED BY <3>1, <3>2, FS_Subset, FS_CardinalityType
    <2>5. sent \in SUBSET (Before(k) \cup {k})
      <3> SUFFICES ASSUME NEW m \in sent, m # k PROVE m \in Before(k)
        OBVIOUS
      <3>1. m \in 1..(k-1)
        BY <2>2, <2>3
      <3> QED BY <1>2, <3>1
    <2>6. depth + Cardinality(Before(k)) < MaxPipeDepth[q]
      BY <1>3
    <2>7. k \notin Before(k)
      BY <2>3
    <2> HIDE DEF Before
    <2>8. IsFiniteSet(Before(k) \cup {k}) /\ Cardinality(Before(k) \cup {k}) = Cardinality(Before(k)) + 1
      BY <2>4, <2>7, FS_AddElement
    <2>9. Cardinality(sent) <= Cardinality(Before(k)) + 1
      BY <2>5, <2>8, FS_Subset
    <2> QED BY <1>2, <1>4, <1>5, <2>4, <2>6, <2>9 DEF Idle
  <1> QED BY <1>6, <1>7

\* As many first owners as QItems.
LEMMA HeadsCount ==
  ASSUME NEW Q, NEW status, Sound(Q, status), NEW q \in Names, NEW K \in SUBSET DOMAIN Q[q], IsFiniteSet(K),
         NEW P, P = {Primary(Q[q][k]) : k \in K}
  PROVE  IsFiniteSet(P) /\ Cardinality(P) = Cardinality(K)
  <1> DEFINE f == [k \in K |-> Primary(Q[q][k])]
  <1>1. f \in [K -> P] /\ \A p \in P : \E k \in K : f[k] = p
    OBVIOUS
  <1>2. \A k, l \in K : f[k] = f[l] => k = l
    BY HeadsApart
  <1> HIDE DEF f
  <1>3. f \in Bijection(K, P)
    BY <1>1, <1>2 DEF Bijection, Injection, IsInjective, Surjection
  <1>4. ExistsBijection(K, P)
    BY <1>3 DEF ExistsBijection
  <1> QED BY <1>4, FS_Bijection

\* R is Q with the QItems at some positions of queue q handed over, which have the first owners P
SendsHeads(Q, q, sent, R, P) ==
  /\ Heads(R) = Heads(Q)
  /\ \A r \in Names : r # q => SentHeads(R, r) = SentHeads(Q, r)
  /\ \A r \in Names : r # q => \A u \in Uris : AskedHeads(R, r, u) = AskedHeads(Q, r, u)
  /\ SentHeads(R, q) = SentHeads(Q, q) \cup P /\ SentHeads(Q, q) \cap P = {}
  /\ \A u \in Uris : AskedHeads(Q, q, u) \subseteq AskedHeads(R, q, u)
  /\ \A u \in Uris : \A k \in sent : Q[q][k].uri = u => Primary(Q[q][k]) \in AskedHeads(R, q, u)

\* Handing over some idle QItems adds their first owners to the sent ones.
LEMMA HeadsSent ==
  ASSUME NEW Q, NEW status, Sound(Q, status), NEW q \in Names,
         NEW sent \in SUBSET DOMAIN Q[q], \A k \in sent : status[Primary(Q[q][k])] = "Idle",
         NEW R, R = QueuesSent(Q, q, sent), NEW P, P = {Primary(Q[q][k]) : k \in sent}
  PROVE  SendsHeads(Q, q, sent, R, P)
  <1> DEFINE after == StatusSent(Q, q, sent, status)
  <1>1. /\ \A r \in Names : /\ DOMAIN R[r] = DOMAIN Q[r]
                            /\ \A k \in DOMAIN Q[r] :
                                 /\ R[r][k].owners = Q[r][k].owners /\ R[r][k].uri = Q[r][k].uri
                                 /\ R[r][k].sent <=> Q[r][k].sent \/ (r = q /\ k \in sent)
        /\ \A k \in sent : ~Q[q][k].sent
    <2> HIDE DEF after
    <2>1. after = StatusSent(Q, q, sent, status)
      BY DEF after
    <2> QED BY <2>1, Sending
  <1>2. \A r \in Names : \A k \in DOMAIN Q[r] : Primary(R[r][k]) = Primary(Q[r][k])
    BY <1>1 DEF Primary
  <1>3. Heads(R) = Heads(Q)
    BY <1>1, <1>2 DEF Heads, Queued
  <1>4. ASSUME NEW r \in Names, r # q
        PROVE  SentHeads(R, r) = SentHeads(Q, r) /\ \A u \in Uris : AskedHeads(R, r, u) = AskedHeads(Q, r, u)
    <2>1. Q \in [Names -> Seq(QItems)]
      BY DEF Sound
    <2>2. R[r] = Q[r]
      BY <1>4, <2>1 DEF QueuesSent
    <2> QED BY <2>2 DEF SentHeads, AskedHeads
  <1>5. /\ DOMAIN R[q] = DOMAIN Q[q]
        /\ \A k \in DOMAIN Q[q] : /\ Primary(R[q][k]) = Primary(Q[q][k])
                                  /\ R[q][k].uri = Q[q][k].uri
                                  /\ R[q][k].sent <=> Q[q][k].sent \/ k \in sent
    BY <1>1, <1>2
  <1>6. \A k \in sent : k \in DOMAIN Q[q] /\ Primary(Q[q][k]) \in Items
    BY HeadsApart
  <1>7. SentHeads(R, q) = SentHeads(Q, q) \cup P
    <2>1. ASSUME NEW i \in SentHeads(R, q) PROVE i \in SentHeads(Q, q) \cup P
      <3>1. PICK k \in DOMAIN R[q] : R[q][k].sent /\ Primary(R[q][k]) = i
        BY DEF SentHeads
      <3>2. CASE k \in sent
        BY <1>5, <3>1, <3>2
      <3>3. CASE k \notin sent
        <4>1. k \in DOMAIN Q[q] /\ Q[q][k].sent /\ Primary(Q[q][k]) = i
          BY <1>5, <3>1, <3>3
        <4> QED BY <4>1 DEF SentHeads
      <3> QED BY <3>2, <3>3
    <2>2. ASSUME NEW i \in SentHeads(Q, q) PROVE i \in SentHeads(R, q)
      <3>1. PICK k \in DOMAIN Q[q] : Q[q][k].sent /\ Primary(Q[q][k]) = i
        BY DEF SentHeads
      <3>2. k \in DOMAIN R[q] /\ R[q][k].sent /\ Primary(R[q][k]) = i
        BY <1>5, <3>1
      <3> QED BY <3>2 DEF SentHeads
    <2>3. ASSUME NEW i \in P PROVE i \in SentHeads(R, q)
      <3>1. PICK k \in sent : Primary(Q[q][k]) = i
        OBVIOUS
      <3>2. k \in DOMAIN R[q] /\ R[q][k].sent /\ Primary(R[q][k]) = i /\ i \in Items
        BY <1>5, <1>6, <3>1
      <3> QED BY <3>2 DEF SentHeads
    <2> QED BY <2>1, <2>2, <2>3
  <1>8. SentHeads(Q, q) \cap P = {}
    <2> SUFFICES ASSUME NEW i \in SentHeads(Q, q), i \in P PROVE FALSE
      OBVIOUS
    <2>1. PICK k \in DOMAIN Q[q] : Q[q][k].sent /\ Primary(Q[q][k]) = i
      BY DEF SentHeads
    <2>2. PICK l \in sent : Primary(Q[q][l]) = i
      OBVIOUS
    <2>3. l = k
      BY <2>1, <2>2, HeadsApart
    <2> QED BY <1>1, <2>1, <2>3
  <1>9. ASSUME NEW u \in Uris, NEW i \in AskedHeads(Q, q, u) PROVE i \in AskedHeads(R, q, u)
    <2>1. PICK k \in DOMAIN Q[q] : Q[q][k].sent /\ Primary(Q[q][k]) = i /\ Q[q][k].uri = u
      BY DEF AskedHeads
    <2>2. k \in DOMAIN R[q] /\ R[q][k].sent /\ Primary(R[q][k]) = i /\ R[q][k].uri = u
      BY <1>5, <2>1
    <2> QED BY <2>2 DEF AskedHeads
  <1>10. ASSUME NEW u \in Uris, NEW k \in sent, Q[q][k].uri = u PROVE Primary(Q[q][k]) \in AskedHeads(R, q, u)
    <2>2. k \in DOMAIN R[q] /\ R[q][k].sent /\ Primary(R[q][k]) = Primary(Q[q][k]) /\ R[q][k].uri = u
      BY <1>5, <1>10
    <2> QED BY <1>6, <2>2 DEF AskedHeads
  <1> QED BY <1>3, <1>4, <1>7, <1>8, <1>9, <1>10 DEF SendsHeads

\* More may have been sent in R than in Q.
MoreSent(Q, R) ==
  /\ \A q \in Names : SentHeads(Q, q) \subseteq SentHeads(R, q)
  /\ \A q \in Names, u \in Uris : AskedHeads(Q, q, u) \subseteq AskedHeads(R, q, u)

\* Cycle counts what it hands over.
LEMMA CycleCounts ==
  ASSUME NEW Q, NEW status, Sound(Q, status), NEW q \in Names, NEW w, NEW after, NEW depth \in Int,
         NEW asked, NEW n, PipeDepth \in [Names -> Int], Exact(Q, n, [PipeDepth EXCEPT ![q] = depth], asked),
         Cycle(q, w, Q, status, after, depth, asked)
  PROVE  /\ Exact(Queue', n, PipeDepth', inflight')
         /\ MoreSent(Q, Queue')
         /\ \A r \in Names : (r # q \/ w = "none") => SentHeads(Queue', r) = SentHeads(Q, r)
  <1> DEFINE sent == CycleSent(q, w, Q[q], status, after, depth)
             P == {Primary(Q[q][k]) : k \in sent}
             D == [PipeDepth EXCEPT ![q] = depth]
             A(u) == {k \in sent : Q[q][k].uri = u /\ w = "up" /\ ~Doomed(Primary(Q[q][k]))}
             PA(u) == {Primary(Q[q][k]) : k \in A(u)}
  <1>1. /\ IsFiniteSet(Heads(Q)) /\ n = Cardinality(Heads(Q))
        /\ D \in [Names -> Int] /\ asked \in [Names -> [Uris -> Nat]]
        /\ \A r \in Names : D[r] = Cardinality(SentHeads(Q, r)) /\ D[r] <= MaxPipeDepth[r]
        /\ \A r \in Names, u \in Uris : asked[r][u] <= Cardinality(AskedHeads(Q, r, u))
    BY DEF Exact
  <1>2. D[q] = depth /\ \A r \in Names : r # q => D[r] = PipeDepth[r]
    OBVIOUS
  <1>3. /\ Queue' = QueuesSent(Q, q, sent)
        /\ PipeDepth' = [PipeDepth EXCEPT ![q] = depth + Cardinality(sent)]
        /\ inflight' = [asked EXCEPT ![q] = [u \in Uris |-> asked[q][u] + Cardinality(A(u))]]
    BY DEF Cycle, QueuesSent
  <1>4. /\ sent \in SUBSET DOMAIN Q[q] /\ IsFiniteSet(sent) /\ Cardinality(sent) \in Nat
        /\ \A k \in sent : status[Primary(Q[q][k])] = "Idle"
        /\ depth + Cardinality(sent) <= MaxPipeDepth[q]
        /\ w = "none" => sent = {}
    <2>1. Q[q] \in Seq(QItems)
      BY SoundItems
    <2>2. depth <= MaxPipeDepth[q]
      BY <1>1, <1>2
    <2> HIDE DEF sent
    <2>3. sent = CycleSent(q, w, Q[q], status, after, depth)
      BY DEF sent
    <2> QED BY <2>1, <2>2, <2>3, PipelineBound
  <1> HIDE DEF sent, D
  <1>5. /\ Heads(Queue') = Heads(Q)
        /\ \A r \in Names : r # q => SentHeads(Queue', r) = SentHeads(Q, r)
        /\ \A r \in Names : r # q => \A u \in Uris : AskedHeads(Queue', r, u) = AskedHeads(Q, r, u)
        /\ SentHeads(Queue', q) = SentHeads(Q, q) \cup P /\ SentHeads(Q, q) \cap P = {}
        /\ \A u \in Uris : AskedHeads(Q, q, u) \subseteq AskedHeads(Queue', q, u)
        /\ \A u \in Uris : \A k \in sent : Q[q][k].uri = u => Primary(Q[q][k]) \in AskedHeads(Queue', q, u)
    <2> HIDE DEF P
    <2>1. P = {Primary(Q[q][k]) : k \in sent}
      BY DEF P
    <2>2. SendsHeads(Q, q, sent, Queue', P)
      BY <1>3, <1>4, <2>1, HeadsSent
    <2> QED BY <2>2 DEF SendsHeads
  <1>6. IsFiniteSet(P) /\ Cardinality(P) = Cardinality(sent)
    <2> HIDE DEF P
    <2>1. P = {Primary(Q[q][k]) : k \in sent}
      BY DEF P
    <2> QED BY <1>4, <2>1, HeadsCount
  <1>7. Cardinality(SentHeads(Queue', q)) = depth + Cardinality(sent)
    <2> HIDE DEF P
    <2>1. IsFiniteSet(SentHeads(Q, q)) /\ Cardinality(SentHeads(Q, q)) = depth
      BY <1>1, <1>2, HeadsFinite
    <2>2. Cardinality(SentHeads(Q, q) \cup P) = Cardinality(SentHeads(Q, q)) + Cardinality(P) - Cardinality(SentHeads(Q, q) \cap P)
      BY <1>6, <2>1, FS_Union
    <2>3. Cardinality(SentHeads(Q, q) \cap P) = 0
      BY <1>5, FS_EmptySet
    <2> QED BY <1>4, <1>5, <1>6, <2>1, <2>2, <2>3
  <1>8. ASSUME NEW u \in Uris
        PROVE  Cardinality(A(u)) \in Nat /\ asked[q][u] + Cardinality(A(u)) <= Cardinality(AskedHeads(Queue', q, u))
    <2>1. A(u) \in SUBSET sent
      OBVIOUS
    <2>2. \A p \in PA(u) : p \in P /\ p \in AskedHeads(Queue', q, u)
      BY <1>5
    <2>3. IsFiniteSet(A(u)) /\ A(u) \in SUBSET DOMAIN Q[q]
      BY <1>4, <2>1, FS_Subset
    <2> DEFINE B == A(u)
               C == PA(u)
    <2>4. C = {Primary(Q[q][k]) : k \in B}
      OBVIOUS
    <2> HIDE DEF P, B, C, A, PA
    <2>5. IsFiniteSet(B) /\ B \in SUBSET DOMAIN Q[q] /\ Cardinality(B) \in Nat
      BY <2>3, FS_CardinalityType DEF B
    <2>6. IsFiniteSet(C) /\ Cardinality(C) = Cardinality(B)
      BY <2>4, <2>5, HeadsCount
    <2> DEFINE S == AskedHeads(Q, q, u)
               T == AskedHeads(Queue', q, u)
    <2>7. IsFiniteSet(S) /\ IsFiniteSet(T) /\ Cardinality(S) \in Nat /\ Cardinality(T) \in Nat
      BY <1>1, <1>5, HeadsFinite
    <2>8. S \cap C = {}
      BY <1>5, <2>2, HeadsWithin DEF C
    <2>9. S \cup C \in SUBSET T
      BY <1>5, <2>2 DEF C
    <2>10. asked[q][u] \in Nat /\ asked[q][u] <= Cardinality(S)
      BY <1>1
    <2> HIDE DEF S, T
    <2>11. Cardinality(S \cup C) = Cardinality(S) + Cardinality(C)
      <3>1. Cardinality(S \cup C) = Cardinality(S) + Cardinality(C) - Cardinality(S \cap C)
        BY <2>6, <2>7, FS_Union
      <3>2. Cardinality(S \cap C) = 0
        BY <2>8, FS_EmptySet
      <3> QED BY <2>5, <2>6, <2>7, <3>1, <3>2
    <2>12. Cardinality(S \cup C) <= Cardinality(T)
      BY <2>7, <2>9, FS_Subset
    <2>13. Cardinality(B) \in Nat /\ asked[q][u] + Cardinality(B) <= Cardinality(T)
      BY <2>5, <2>6, <2>7, <2>10, <2>11, <2>12
    <2> QED BY <2>13 DEF B, T
  <1>9. /\ PipeDepth' \in [Names -> Int]
        /\ \A r \in Names : PipeDepth'[r] = Cardinality(SentHeads(Queue', r)) /\ PipeDepth'[r] <= MaxPipeDepth[r]
    <2>1. PipeDepth' \in [Names -> Int] /\ PipeDepth'[q] = depth + Cardinality(sent) /\ \A r \in Names : r # q => PipeDepth'[r] = PipeDepth[r]
      BY <1>3, <1>4
    <2>2. ASSUME NEW r \in Names PROVE PipeDepth'[r] = Cardinality(SentHeads(Queue', r)) /\ PipeDepth'[r] <= MaxPipeDepth[r]
      <3>1. CASE r = q
        BY <1>4, <1>7, <2>1, <3>1
      <3>2. CASE r # q
        BY <1>1, <1>2, <1>5, <2>1, <3>2
      <3> QED BY <3>1, <3>2
    <2> QED BY <2>1, <2>2
  <1>10. /\ inflight' \in [Names -> [Uris -> Nat]]
         /\ \A r \in Names, u \in Uris : inflight'[r][u] <= Cardinality(AskedHeads(Queue', r, u))
    <2> DEFINE g == [u \in Uris |-> asked[q][u] + Cardinality(A(u))]
    <2>1. g \in [Uris -> Nat] /\ \A u \in Uris : g[u] = asked[q][u] + Cardinality(A(u))
      BY <1>1, <1>8
    <2>2. inflight' = [asked EXCEPT ![q] = g]
      BY <1>3
    <2> HIDE DEF g
    <2>3. inflight' \in [Names -> [Uris -> Nat]] /\ inflight'[q] = g /\ \A r \in Names : r # q => inflight'[r] = asked[r]
      BY <1>1, <2>1, <2>2
    <2>4. ASSUME NEW r \in Names, NEW u \in Uris PROVE inflight'[r][u] <= Cardinality(AskedHeads(Queue', r, u))
      <3>1. CASE r = q
        <4>1. inflight'[r][u] = asked[q][u] + Cardinality(A(u))
          BY <2>1, <2>3, <3>1
        <4> QED BY <1>8, <3>1, <4>1
      <3>2. CASE r # q
        BY <1>1, <1>5, <2>3, <3>2
      <3> QED BY <3>1, <3>2
    <2> QED BY <2>3, <2>4
  <1>11. Exact(Queue', n, PipeDepth', inflight')
    BY <1>1, <1>5, <1>9, <1>10 DEF Exact
  <1>12. MoreSent(Q, Queue')
    <2>1. \A r \in Names : SentHeads(Q, r) \subseteq SentHeads(Queue', r)
      BY <1>5
    <2>2. \A r \in Names, u \in Uris : AskedHeads(Q, r, u) \subseteq AskedHeads(Queue', r, u)
      BY <1>5
    <2> QED BY <2>1, <2>2 DEF MoreSent
  <1>13. w = "none" => SentHeads(Queue', q) = SentHeads(Q, q)
    BY <1>4, <1>5
  <1> QED BY <1>5, <1>11, <1>12, <1>13

\* what the handling of one item leaves of the counts
Counted ==
  /\ Exact(Queue', ToFetch', PipeDepth', inflight') /\ MoreSent(Queue, Queue')
  /\ worker' \in [Names -> {"none", "up", "dead"}]
  /\ \A q \in Names : worker'[q] = "none" => worker[q] = "none" /\ SentHeads(Queue', q) = SentHeads(Queue, q)
  /\ "invalid message" \in errors' => "invalid message" \in errors

\* the part of the invariant that is about the counts
CountsOK == Exact(Queue, ToFetch, PipeDepth, inflight) /\ worker \in [Names -> {"none", "up", "dead"}]

\* The same sent ones, in two queues.
LEMMA SameIsMore ==
  ASSUME NEW Q, NEW R, SameSent(Q, R)
  PROVE  MoreSent(Q, R)
  BY DEF SameSent, MoreSent

\* The counts stay exact when only the number of QItems changes.
LEMMA SameSentExact ==
  ASSUME NEW Q, NEW n, NEW D, NEW F, Exact(Q, n, D, F), NEW R, SameSent(Q, R), IsFiniteSet(Heads(R)),
         NEW m, m = Cardinality(Heads(R))
  PROVE  Exact(R, m, D, F)
  <1>1. \A q \in Names : SentHeads(R, q) = SentHeads(Q, q)
    BY DEF SameSent
  <1>2. \A q \in Names, u \in Uris : AskedHeads(R, q, u) = AskedHeads(Q, q, u)
    BY DEF SameSent
  <1>3. /\ D \in [Names -> Int] /\ F \in [Names -> [Uris -> Nat]]
        /\ \A q \in Names : D[q] = Cardinality(SentHeads(Q, q)) /\ D[q] <= MaxPipeDepth[q]
        /\ \A q \in Names, u \in Uris : F[q][u] <= Cardinality(AskedHeads(Q, q, u))
    BY DEF Exact
  <1>4. \A q \in Names : D[q] = Cardinality(SentHeads(R, q)) /\ D[q] <= MaxPipeDepth[q]
    BY <1>1, <1>3
  <1>5. \A q \in Names, u \in Uris : F[q][u] <= Cardinality(AskedHeads(R, q, u))
    BY <1>2, <1>3
  <1> QED BY <1>3, <1>4, <1>5 DEF Exact

\* What an item that is in no queue is not.
LEMMA NotAHead ==
  ASSUME NEW Q, NEW status, Sound(Q, status), NEW i, ~OwnedIn(Q, i)
  PROVE  i \notin Heads(Q) /\ \A q \in Names : i \notin SentHeads(Q, q)
  <1>1. \A q \in Names : \A k \in DOMAIN Q[q] : OwnedIn(Q, Primary(Q[q][k]))
    BY SoundItems
  <1> QED BY <1>1 DEF Heads, Queued, SentHeads

\* Failed deletes no QItem that was sent.
LEMMA FailedCounts ==
  ASSUME Sound(Queue, Status), CountsOK, NEW i \in Items, \A q \in Names : i \notin SentHeads(Queue, q),
         NEW st, NEW parked, NEW alternatives, Failed(i, st, parked, alternatives)
  PROVE  Counted /\ SameSent(Queue, Queue')
  <1> DEFINE others == IF i \in Txn /\ ~aborted THEN AbortDequeues(i) ELSE {}
             I == {i} \cup others
  <1>1. /\ Queue' = Without(Queue, I)
        /\ ToFetch' = ToFetch - Cardinality({d \in I : Queued(Queue, d)})
        /\ errors' = errors \cup (IF i \in Txn /\ aborted THEN {"aborted again"} ELSE {})
        /\ worker' = worker /\ PipeDepth' = PipeDepth /\ inflight' = inflight
    BY DEF Failed
  <1>2. ASSUME NEW q \in Names, NEW j \in SentHeads(Queue, q) PROVE j \notin I
    <2>1. PICK k \in DOMAIN Queue[q] : Queue[q][k].sent /\ Primary(Queue[q][k]) = j
      BY DEF SentHeads
    <2>2. Status[j] = "Fetching"
      BY <2>1 DEF Sound, Matches
    <2> QED BY <2>2 DEF AbortDequeues
  <1>3. {d \in I : Queued(Queue, d)} = Heads(Queue) \cap I
    <2>1. \A d : Queued(Queue, d) => d \in Items
      BY SoundItems DEF Queued
    <2> QED BY <2>1 DEF Heads
  <1> HIDE DEF I
  <1>4. /\ Heads(Queue') = Heads(Queue) \ I
        /\ \A q \in Names : SentHeads(Queue', q) = SentHeads(Queue, q) \ I
        /\ \A q \in Names, u \in Uris : AskedHeads(Queue', q, u) = AskedHeads(Queue, q, u) \ I
    <2>1. LeavesHeads(Queue, I, Queue')
      BY <1>1, HeadsWithout
    <2> QED BY <2>1 DEF LeavesHeads
  <1>5. SameSent(Queue, Queue')
    <2>1. \A q \in Names : SentHeads(Queue', q) = SentHeads(Queue, q)
      BY <1>2, <1>4
    <2>2. \A q \in Names, u \in Uris : AskedHeads(Queue', q, u) = AskedHeads(Queue, q, u)
      <3> TAKE q \in Names, u \in Uris
      <3>1. AskedHeads(Queue, q, u) \subseteq SentHeads(Queue, q)
        BY HeadsWithin
      <3> QED BY <1>2, <1>4, <3>1
    <2> QED BY <2>1, <2>2 DEF SameSent
  <1>6. IsFiniteSet(Heads(Queue)) /\ ToFetch = Cardinality(Heads(Queue))
    BY DEF CountsOK, Exact
  <1>7. IsFiniteSet(Heads(Queue')) /\ Cardinality(Heads(Queue')) = Cardinality(Heads(Queue)) - Cardinality(Heads(Queue) \cap I)
    <2>1. Heads(Queue') = Heads(Queue) \ I
      BY <1>4
    <2>2. IsFiniteSet(Heads(Queue))
      BY <1>6
    <2>3. /\ IsFiniteSet(Heads(Queue) \ I)
          /\ Cardinality(Heads(Queue) \ I) = Cardinality(Heads(Queue)) - Cardinality(Heads(Queue) \cap I)
      BY <2>2, FS_Difference
    <2> QED BY <2>1, <2>3
  <1>8. ToFetch' = Cardinality(Heads(Queue'))
    BY <1>1, <1>3, <1>6, <1>7
  <1>9. Exact(Queue', ToFetch', PipeDepth, inflight)
    BY <1>5, <1>7, <1>8, SameSentExact DEF CountsOK
  <1>10. "invalid message" \in errors' => "invalid message" \in errors
    BY <1>1
  <1>11. \A q \in Names : SentHeads(Queue', q) = SentHeads(Queue, q)
    BY <1>5 DEF SameSent
  <1> QED BY <1>1, <1>5, <1>9, <1>10, <1>11, SameIsMore DEF Counted, CountsOK

\* Queue::Enqueue counts a new QItem, and what it hands over.
LEMMA InsertCounts ==
  ASSUME Sound(Queue, Status), CountsOK, NEW q \in Names, NEW i \in Items, ~OwnedIn(Queue, i), NEW u \in Uris,
         NEW w, NEW after, Insert(q, w, i, u, after)
  PROVE  /\ Exact(Queue', ToFetch', PipeDepth', inflight') /\ MoreSent(Queue, Queue')
         /\ \A r \in Names : (r # q \/ w = "none") => SentHeads(Queue', r) = SentHeads(Queue, r)
  <1> DEFINE k == SharedWith(q, i, u)
             p == InsertAfter(q, i, after) + 1
             new == InsertAt(Queue[q], p, [uri |-> u, owners |-> <<i>>, sent |-> FALSE])
             R == [Queue EXCEPT ![q] = new]
             idle == [Status EXCEPT ![i] = "Idle"]
  <1>1. /\ Exact(Queue, ToFetch, PipeDepth, inflight) /\ IsFiniteSet(Heads(Queue)) /\ ToFetch = Cardinality(Heads(Queue))
        /\ PipeDepth \in [Names -> Int]
    BY DEF CountsOK, Exact
  <1>2. CASE k # 0
    <2>1. Queue' = QueuesShared(Queue, q, k, i) /\ UNCHANGED <<ToFetch, PipeDepth, inflight>>
      BY <1>2 DEF Insert, QueuesShared
    <2>2. k \in DOMAIN Queue[q]
      BY <1>2, Places
    <2> HIDE DEF k
    <2>3. Heads(Queue') = Heads(Queue) /\ SameSent(Queue, Queue')
      BY <2>1, <2>2, HeadsShared
    <2>4. Exact(Queue', ToFetch, PipeDepth, inflight)
      BY <1>1, <2>3, SameSentExact
    <2>5. Exact(Queue', ToFetch', PipeDepth', inflight')
      BY <2>1, <2>4
    <2>6. \A r \in Names : SentHeads(Queue', r) = SentHeads(Queue, r)
      BY <2>3 DEF SameSent
    <2> QED BY <2>3, <2>5, <2>6, SameIsMore
  <1>3. CASE k = 0
    <2>1. p \in 1..(Len(Queue[q]) + 1)
      BY Places
    <2>2. /\ ToFetch' = ToFetch + 1
          /\ \/ Cycle(q, w, R, idle, after, PipeDepth[q], inflight)
             \/ Queue' = R /\ PipeDepth' = PipeDepth /\ inflight' = inflight
      BY <1>3 DEF Insert
    <2> HIDE DEF p
    <2>3. Sound(R, idle)
      BY <2>1, Inserting
    <2>4. Heads(R) = Heads(Queue) \cup {i} /\ SameSent(Queue, R)
      <3> HIDE DEF R
      <3>1. R = [Queue EXCEPT ![q] = InsertAt(Queue[q], p, [uri |-> u, owners |-> <<i>>, sent |-> FALSE])]
        BY DEF R
      <3>2. GrowsHeads(Queue, i, R)
        BY <2>1, <3>1, HeadsInserted
      <3> QED BY <3>2 DEF GrowsHeads
    <2> HIDE DEF R, idle
    <2>5. i \notin Heads(Queue)
      BY NotAHead
    <2>6. IsFiniteSet(Heads(R)) /\ ToFetch + 1 = Cardinality(Heads(R))
      BY <1>1, <2>4, <2>5, FS_AddElement
    <2>7. Exact(R, ToFetch', PipeDepth, inflight)
      <3>1. ToFetch' = Cardinality(Heads(R))
        BY <2>2, <2>6
      <3> QED BY <1>1, <2>4, <2>6, <3>1, SameSentExact
    <2>8. \A r \in Names : SentHeads(R, r) = SentHeads(Queue, r)
      BY <2>4 DEF SameSent
    <2>9. CASE Queue' = R /\ PipeDepth' = PipeDepth /\ inflight' = inflight
      <3>1. Exact(Queue', ToFetch', PipeDepth', inflight') /\ SameSent(Queue, Queue')
        BY <2>4, <2>7, <2>9
      <3>2. MoreSent(Queue, Queue')
        BY <3>1, SameIsMore
      <3> QED BY <2>8, <2>9, <3>1, <3>2
    <2>10. CASE Cycle(q, w, R, idle, after, PipeDepth[q], inflight)
      <3>1. [PipeDepth EXCEPT ![q] = PipeDepth[q]] = PipeDepth /\ PipeDepth[q] \in Int
        BY <1>1
      <3>2. Exact(R, ToFetch', [PipeDepth EXCEPT ![q] = PipeDepth[q]], inflight)
        BY <2>7, <3>1
      <3>3. /\ Exact(Queue', ToFetch', PipeDepth', inflight')
            /\ MoreSent(R, Queue')
            /\ \A r \in Names : (r # q \/ w = "none") => SentHeads(Queue', r) = SentHeads(R, r)
        BY <1>1, <2>3, <2>10, <3>1, <3>2, CycleCounts
      <3>4. MoreSent(Queue, Queue')
        BY <2>4, <3>3 DEF MoreSent, SameSent
      <3> QED BY <2>8, <3>3, <3>4
    <2> QED BY <2>2, <2>9, <2>10
  <1> QED BY <1>2, <1>3

\* pkgAcquire::Enqueue, for an item that is in no queue.
LEMMA EnqueueCounts ==
  ASSUME Sound(Queue, Status), CountsOK, NEW i \in Items, ~OwnedIn(Queue, i), NEW u \in Uris, NEW after, NEW past,
         NEW alternatives, Enqueue(i, u, after, past, alternatives)
  PROVE  Counted
  <1> DEFINE running == run \in {"startup", "running"}
             bad == IsRedirectionLoop(i, u, past) \/ i \in Weak
  <1>1. worker \in [Names -> {"none", "up", "dead"}]
    BY DEF CountsOK
  <1>2. CASE UNCHANGED <<queueVars, aborted, errors>>
    <2>1. /\ Queue' = Queue /\ ToFetch' = ToFetch /\ PipeDepth' = PipeDepth /\ inflight' = inflight
          /\ worker' = worker /\ errors' = errors
      BY <1>2 DEF queueVars
    <2>2. Exact(Queue', ToFetch', PipeDepth', inflight')
      BY <2>1 DEF CountsOK
    <2>3. MoreSent(Queue, Queue')
      BY <2>1 DEF MoreSent
    <2> QED BY <1>1, <2>1, <2>2, <2>3 DEF Counted
  <1>3. ASSUME NEW st, Failed(i, st, FALSE, alternatives) PROVE Counted
    <2>1. \A q \in Names : i \notin SentHeads(Queue, q)
      BY NotAHead
    <2> QED BY <1>3, <2>1, FailedCounts
  <1>4. ASSUME NEW q \in QueueName(u), Insert(q, worker'[q], i, u, after), errors' = errors,
               NEW w \in {worker[q], "up", "dead"}, worker' = [worker EXCEPT ![q] = w]
        PROVE  Counted
    <2>1. q \in Names
      BY QueueNames
    <2>2. /\ Exact(Queue', ToFetch', PipeDepth', inflight') /\ MoreSent(Queue, Queue')
          /\ \A r \in Names : (r # q \/ worker'[q] = "none") => SentHeads(Queue', r) = SentHeads(Queue, r)
      BY <1>4, <2>1, InsertCounts
    <2>3. /\ worker' \in [Names -> {"none", "up", "dead"}] /\ worker'[q] = w
          /\ \A r \in Names : r # q => worker'[r] = worker[r]
      BY <1>1, <1>4, <2>1
    <2>4. \A r \in Names : worker'[r] = "none" => worker[r] = "none" /\ SentHeads(Queue', r) = SentHeads(Queue, r)
      BY <2>2, <2>3
    <2> QED BY <1>4, <2>2, <2>3, <2>4 DEF Counted
  <1>5. \/ UNCHANGED <<queueVars, aborted, errors>>
        \/ \E st : Failed(i, st, FALSE, alternatives)
        \/ /\ \E q \in QueueName(u) :
                 /\ \E w \in {worker[q], "up", "dead"} : worker' = [worker EXCEPT ![q] = w]
                 /\ Insert(q, worker'[q], i, u, after)
           /\ errors' = errors
    <2>1. CASE u \notin NoMethod /\ running /\ bad /\ Failed(i, IF IsRedirectionLoop(i, u, past) THEN "Error" ELSE "AuthError", FALSE, alternatives)
      BY <2>1
    <2>2. CASE /\ \E q \in QueueName(u) :
                    /\ worker' \in {[worker EXCEPT ![q] = w] :
                         w \in IF ~running \/ q \in queues THEN {worker[q]}
                               ELSE {"up"} \cup (IF q \in Flaky THEN {"dead"} ELSE {})}
                    /\ Insert(q, worker'[q], i, u, after)
               /\ UNCHANGED <<aborted, errors>>
      <3>1. PICK q \in QueueName(u) :
                    /\ worker' \in {[worker EXCEPT ![q] = w] :
                         w \in IF ~running \/ q \in queues THEN {worker[q]}
                               ELSE {"up"} \cup (IF q \in Flaky THEN {"dead"} ELSE {})}
                    /\ Insert(q, worker'[q], i, u, after)
        BY <2>2
      <3>2. \E w \in {worker[q], "up", "dead"} : worker' = [worker EXCEPT ![q] = w]
        BY <3>1
      <3> QED BY <2>2, <3>1, <3>2
    <2> QED BY <2>1, <2>2 DEF Enqueue
  <1> QED BY <1>2, <1>3, <1>4, <1>5

-----------------------------------------------------------------------------
(* The second invariant: the counts *)

\* While Run() has not returned, nothing was sent without a worker.
Unsent == run # "stopped" => \A q \in Names : worker[q] = "none" => SentHeads(Queue, q) = {}

\* Startup checks what was not sent, and then starts the worker.
Checks ==
  \A n \in DOMAIN work :
    /\ work[n].op = "start" => n = Len(work)
    /\ work[n].op = "check" => \A q \in Names : Range(work[n].owners) \cap SentHeads(Queue, q) = {}

\* CurrentItem is something that was sent.
Pointed ==
  /\ CurrentItem \in [Names -> Uris \cup {NoURI}]
  /\ \A q \in Names : CurrentItem[q] # NoURI => AskedHeads(Queue, q, CurrentItem[q]) # {}

CountInv == CountsOK /\ Unsent /\ Checks /\ Pointed /\ "invalid message" \notin errors

\* A step that counts exactly and leaves the calls of Startup alone.
LEMMA CountedStep ==
  ASSUME CountInv, Counted, run # "stopped", CurrentItem' = CurrentItem, Checks'
  PROVE  CountInv'
  <1>1. CountsOK'
    BY DEF Counted, CountsOK
  <1>2. Unsent'
    BY DEF Counted, CountInv, Unsent
  <1>3. Pointed'
    <2>1. CurrentItem \in [Names -> Uris \cup {NoURI}]
      BY DEF CountInv, Pointed
    <2>2. ASSUME NEW q \in Names, CurrentItem[q] # NoURI PROVE AskedHeads(Queue', q, CurrentItem[q]) # {}
      <3>1. CurrentItem[q] \in Uris /\ AskedHeads(Queue, q, CurrentItem[q]) # {}
        BY <2>1, <2>2 DEF CountInv, Pointed
      <3>2. AskedHeads(Queue, q, CurrentItem[q]) \subseteq AskedHeads(Queue', q, CurrentItem[q])
        BY <3>1 DEF Counted, MoreSent
      <3> QED BY <3>1, <3>2
    <2> QED BY <2>1, <2>2 DEF Pointed
  <1> QED BY <1>1, <1>2, <1>3 DEF CountInv, Counted

\* A step that leaves everything that is counted alone counts exactly.
LEMMA QuietCounts ==
  ASSUME CountsOK, UNCHANGED <<queueVars, errors>>
  PROVE  Counted /\ SameSent(Queue, Queue')
  <1>1. /\ Queue' = Queue /\ ToFetch' = ToFetch /\ PipeDepth' = PipeDepth /\ inflight' = inflight
        /\ worker' = worker /\ errors' = errors
    BY DEF queueVars
  <1>2. Exact(Queue', ToFetch', PipeDepth', inflight')
    BY <1>1 DEF CountsOK
  <1>3. SameSent(Queue, Queue')
    BY <1>1 DEF SameSent
  <1> QED BY <1>1, <1>2, <1>3, SameIsMore DEF Counted, CountsOK

\* The calls that tell an item something are not Startup's.
LEMMA TellingChecks ==
  ASSUME IInv', run' = "running"
  PROVE  Checks'
  <1>1. \A n \in DOMAIN work' : work'[n].op \in Telling
    BY DEF IInv, CallsOK
  <1> QED BY <1>1 DEF Checks, Telling

\* One call that tells an item something.
LEMMA TellCounts ==
  ASSUME IInv, CountInv, IInv', work # <<>>, NEW c, c = Head(work),
         RedirectOwner(c) \/ DoneOwner(c) \/ NewItem(c) \/ RetryOwner(c) \/ FailOwner(c)
  PROVE  CountInv'
  <1> DEFINE i == c.item
  <1>1. c.op \in Telling
    BY DEF RedirectOwner, DoneOwner, NewItem, RetryOwner, FailOwner, Telling
  <1>2. i \in Items /\ ~OwnedIn(Queue, i) /\ run = "running" /\ Sound(Queue, Status) /\ DescURI \in [Items -> Uris]
    BY <1>1, ToldItem DEF Types
  <1>3. run' = run /\ CurrentItem' = CurrentItem
    BY DEF RedirectOwner, DoneOwner, NewItem, RetryOwner, FailOwner
  <1>4. CountsOK /\ DescURI' \in [Items -> Uris]
    BY DEF CountInv, IInv, Types
  <1>5. \A q \in Names : i \notin SentHeads(Queue, q)
    BY <1>2, NotAHead
  <1>6. \A u \in Uris : \A after, past, alternatives : Enqueue(i, u, after, past, alternatives) => Counted
    BY <1>2, <1>4, EnqueueCounts
  <1>7. \A st, parked, alternatives : Failed(i, st, parked, alternatives) => Counted
    BY <1>2, <1>4, <1>5, FailedCounts
  <1>8. UNCHANGED <<queueVars, errors>> => Counted
    BY <1>4, QuietCounts
  <1>9. Skip => UNCHANGED <<queueVars, errors>>
    BY DEF Skip
  <1>10. \A u : DescURI' = [DescURI EXCEPT ![i] = u] => u \in Uris
    <2> SUFFICES ASSUME NEW u, DescURI' = [DescURI EXCEPT ![i] = u] PROVE u \in Uris
      OBVIOUS
    <2>1. DescURI'[i] = u
      BY <1>2
    <2> QED BY <1>2, <1>4, <2>1
  <1>11. Counted
    <2>1. CASE RedirectOwner(c)
      <3> DEFINE usable == {n \in DOMAIN c.alts : IsGoodAlternativeURI(i, c.alts[n])}
                 alt    == AtPositions(c.alts, usable) \o AlternativeURIs[i]
                 simple == DescURI[i] = c.got
                 good   == IsGoodAlternativeURI(i, c.uri)
                 new    == IF good THEN c.uri ELSE IF alt # <<>> THEN Head(alt) ELSE NoURI
                 left   == [AlternativeURIs EXCEPT ![i] = IF simple \/ good \/ alt = <<>> THEN alt ELSE Tail(alt)]
                 to     == IF simple THEN DescURI[i] ELSE new
                 loop   == ~simple /\ (new = NoURI \/ IsRedirectionLoop(i, new, PastRedirections))
                 past   == IF simple \/ new = NoURI THEN PastRedirections ELSE Recorded(i, new, PastRedirections)
      <3>1. /\ DescURI' = IF loop THEN DescURI ELSE [DescURI EXCEPT ![i] = to]
            /\ \/ Failed(i, Status[i], FALSE, left)
               \/ Skip
               \/ ~loop /\ Enqueue(i, to, FetchAfter, past, left)
        BY <2>1 DEF RedirectOwner
      <3> HIDE DEF i, loop, to, past, left
      <3>2. CASE ~loop /\ Enqueue(i, to, FetchAfter, past, left)
        <4>1. to \in Uris
          BY <1>10, <3>1, <3>2
        <4> QED BY <1>6, <3>2, <4>1
      <3> QED BY <1>7, <1>8, <1>9, <3>1, <3>2
    <2>2. CASE DoneOwner(c)
      <3> DEFINE next == stage[i] + 1
                 done == [AlternativeURIs EXCEPT ![i] = <<>>]
                 u == Stages[i][next]
      <3>1. \/ Skip
            \/ DescURI' = [DescURI EXCEPT ![i] = u] /\ Enqueue(i, u, FetchAfter, PastRedirections, done)
            \/ UNCHANGED <<queueVars, errors>>
        BY <2>2 DEF DoneOwner
      <3> HIDE DEF i, u, done
      <3>2. CASE DescURI' = [DescURI EXCEPT ![i] = u] /\ Enqueue(i, u, FetchAfter, PastRedirections, done)
        <4>1. u \in Uris
          BY <1>10, <3>2
        <4> QED BY <1>6, <3>2, <4>1
      <3> QED BY <1>8, <1>9, <3>1, <3>2
    <2>3. CASE NewItem(c)
      <3>1. \/ UNCHANGED <<queueVars, errors>>
            \/ Enqueue(i, FirstURI[i], FetchAfter, PastRedirections, AlternativeURIs)
        BY <2>3 DEF NewItem
      <3>2. FirstURI[i] \in Uris
        BY <1>2, ConstantsAssumption
      <3> HIDE DEF i
      <3> QED BY <1>6, <1>8, <3>1, <3>2
    <2>4. CASE RetryOwner(c)
      <3>1. \/ Skip
            \/ \E after : Enqueue(i, DescURI[i], after, PastRedirections, AlternativeURIs)
        BY <2>4 DEF RetryOwner
      <3>2. DescURI[i] \in Uris
        BY <1>2
      <3> HIDE DEF i
      <3> QED BY <1>6, <1>8, <1>9, <3>1, <3>2
    <2>5. CASE FailOwner(c)
      <3> DEFINE transient == c.kind \in {"transient", "toomany"}
                 auth      == c.kind \in {"auth", "hash"}
                 others    == {n \in DOMAIN AlternativeURIs[i] : Site(AlternativeURIs[i][n]) # Site(DescURI[i])}
                 alts      == IF auth THEN AtPositions(AlternativeURIs[i], others) ELSE AlternativeURIs[i]
                 st        == CASE auth /\ i \in Hashed -> "AuthError"
                                [] ~(auth /\ i \in Hashed) /\ transient -> "TransientNetworkError"
                                [] OTHER -> Status[i]
                 Left(s)   == [AlternativeURIs EXCEPT ![i] = s]
                 u         == Head(alts)
      <3>1. \/ Skip
            \/ DescURI' = [DescURI EXCEPT ![i] = u] /\ Enqueue(i, u, FetchAfter, PastRedirections, Left(Tail(alts)))
            \/ UNCHANGED <<queueVars, errors>>
            \/ Failed(i, st, LocalOnly(c.q) /\ transient, Left(alts))
        BY <2>5 DEF FailOwner
      <3> HIDE DEF i, u, Left, st, transient
      <3>2. CASE DescURI' = [DescURI EXCEPT ![i] = u] /\ Enqueue(i, u, FetchAfter, PastRedirections, Left(Tail(alts)))
        <4>1. u \in Uris
          BY <1>10, <3>2
        <4> QED BY <1>6, <3>2, <4>1
      <3> QED BY <1>7, <1>8, <1>9, <3>1, <3>2
    <2> QED BY <2>1, <2>2, <2>3, <2>4, <2>5
  <1>12. Checks'
    BY <1>2, <1>3, TellingChecks
  <1> QED BY <1>2, <1>3, <1>11, <1>12, CountedStep

\* Startup checks an owner.
LEMMA CheckCounts ==
  ASSUME IInv, CountInv, IInv', work # <<>>, NEW c, c = Head(work), CheckOwner(c)
  PROVE  CountInv'
  <1> DEFINE i    == Head(c.owners)
             rest == Tail(c.owners)
             left == [c EXCEPT !.owners = rest]
  <1>1. c.op = "check" /\ c.op \notin Telling /\ run' = run /\ CurrentItem' = CurrentItem
    BY DEF CheckOwner, Telling
  <1>2. run = "startup" /\ c \in Calls /\ c.owners # <<>> /\ work \in Seq(Calls)
    BY <1>1, StartupCalls DEF IInv, Types
  <1>3. c.owners \in Seq(Items)
    BY <1>2 DEF Calls
  <1>4. /\ i \in Items /\ i \in Range(c.owners) /\ rest \in Seq(Items)
        /\ Range(rest) \subseteq Range(c.owners)
    <2>1. i \in Items /\ 1 \in DOMAIN c.owners /\ i = c.owners[1] /\ rest \in Seq(Items)
      BY <1>2, <1>3
    <2>2. \A m \in DOMAIN rest : m + 1 \in DOMAIN c.owners /\ rest[m] = c.owners[m + 1]
      BY <1>2, <1>3
    <2> QED BY <2>1, <2>2 DEF Range
  <1>5. c = work[1] /\ 1 \in DOMAIN work
    BY <1>2
  <1>6. \A q \in Names : Range(c.owners) \cap SentHeads(Queue, q) = {}
    BY <1>1, <1>5 DEF CountInv, Checks
  <1>7. Sound(Queue, Status) /\ CountsOK
    BY DEF IInv, CountInv
  <1>8. \/ \E st \in {"Error", "AuthError"} : Failed(i, st, FALSE, AlternativeURIs)
        \/ UNCHANGED <<queueVars, errors>>
    BY DEF CheckOwner
  <1>9. work' = IF rest = <<>> THEN Tail(work) ELSE <<left>> \o Tail(work)
    BY DEF CheckOwner
  <1>10. left \in Calls /\ left.op = "check" /\ left.owners = rest
    BY <1>1, <1>2, <1>4 DEF Calls
  <1> HIDE DEF i, rest, left
  <1>11. Counted /\ SameSent(Queue, Queue')
    <2>1. \A q \in Names : i \notin SentHeads(Queue, q)
      BY <1>4, <1>6
    <2>2. ASSUME NEW st, Failed(i, st, FALSE, AlternativeURIs) PROVE Counted /\ SameSent(Queue, Queue')
      BY <1>4, <1>7, <2>1, <2>2, FailedCounts
    <2> QED BY <1>7, <1>8, <2>2, QuietCounts
  <1>12. \A q \in Names : SentHeads(Queue', q) = SentHeads(Queue, q)
    BY <1>11 DEF SameSent
  <1> DEFINE Fine(x) == x.op = "check" => \A q \in Names : Range(x.owners) \cap SentHeads(Queue', q) = {}
  <1>13. /\ Tail(work) \in Seq(Calls) /\ Len(Tail(work)) = Len(work) - 1
         /\ \A n \in DOMAIN Tail(work) : n + 1 \in DOMAIN work /\ Tail(work)[n] = work[n + 1] /\ n \in Nat
         /\ Len(work) \in Nat
    BY <1>2
  <1>14. \A n \in DOMAIN Tail(work) : Fine(Tail(work)[n]) /\ (Tail(work)[n].op = "start" => n = Len(work) - 1)
    <2> TAKE n \in DOMAIN Tail(work)
    <2>1. n + 1 \in DOMAIN work /\ Tail(work)[n] = work[n + 1] /\ n \in Nat
      BY <1>13
    <2>2. work[n + 1].op = "start" => n + 1 = Len(work)
      BY <2>1 DEF CountInv, Checks
    <2>3. Fine(work[n + 1])
      BY <1>12, <2>1 DEF CountInv, Checks
    <2>4. work[n + 1].op = "start" => n = Len(work) - 1
      <3>1. Len(work) \in Nat
        BY <1>13
      <3> QED BY ONLY <2>1, <2>2, <3>1
    <2> HIDE DEF Fine
    <2> QED BY <2>1, <2>3, <2>4
  <1>15. Fine(left)
    BY <1>4, <1>6, <1>10, <1>12
  <1> HIDE DEF Fine
  <1>16. Checks'
    <2>1. CASE rest = <<>>
      BY <1>9, <1>13, <1>14, <2>1 DEF Checks, Fine
    <2>2. CASE rest # <<>>
      <3> DEFINE one == <<left>>
      <3>1. one \in Seq(Calls) /\ 1 = Len(one) /\ one[1] = left
        BY <1>10
      <3>2. work' = one \o Tail(work)
        BY <1>9, <2>2
      <3> HIDE DEF one
      <3>3. work' \in Seq(Calls) /\ Joins(work', one, 1, Tail(work))
        BY <1>13, <3>1, <3>2, Joined
      <3>4. Len(work') = Len(work)
        <4>1. Len(work') = Len(one) + Len(Tail(work))
          BY <1>13, <3>1, <3>2
        <4>2. Len(Tail(work)) = Len(work) - 1 /\ Len(work) \in Int
          BY <1>13
        <4>3. Len(one) = 1 /\ Len(work') \in Nat /\ Len(Tail(work)) \in Nat
          BY <1>13, <3>1, <3>3
        <4> DEFINE a == Len(work')
                   b == Len(Tail(work))
                   d == Len(work)
                   l == Len(one)
        <4>4. a = l + b /\ b = d - 1 /\ l = 1 /\ a \in Int /\ b \in Int /\ d \in Int
          BY <4>1, <4>2, <4>3
        <4> HIDE DEF a, b, d, l
        <4>5. a = d
          BY ONLY <4>4
        <4> QED BY <4>5 DEF a, d
      <3>5. ASSUME NEW n \in DOMAIN work'
            PROVE  Fine(work'[n]) /\ (work'[n].op = "start" => n = Len(work'))
        <4>1. CASE n \in 1..1
          <5>1. work'[n] = left
            BY <3>1, <3>3, <4>1 DEF Joins
          <5> QED BY <1>10, <1>15, <5>1
        <4>2. CASE n \notin 1..1
          <5>1. n - 1 \in DOMAIN Tail(work) /\ work'[n] = Tail(work)[n - 1] /\ n \in Int
            BY <3>3, <4>2 DEF Joins
          <5>2. Fine(work'[n]) /\ (work'[n].op = "start" => n - 1 = Len(work) - 1)
            BY <1>14, <5>1
          <5> QED BY <1>13, <3>4, <5>1, <5>2
        <4> QED BY <4>1, <4>2
      <3> QED BY <3>5 DEF Checks, Fine
    <2> QED BY <2>1, <2>2
  <1> QED BY <1>1, <1>2, <1>11, <1>16, CountedStep

\* Cycle on a queue as it is.
LEMMA CycleStep ==
  ASSUME Sound(Queue, Status), CountsOK, NEW q \in Names, NEW w \in {"none", "up", "dead"},
         Cycle(q, w, Queue, Status, FetchAfter, PipeDepth[q], inflight),
         worker' = [worker EXCEPT ![q] = w], w = "none" => worker[q] = "none", ToFetch' = ToFetch, errors' = errors
  PROVE  Counted
  <1>1. /\ Exact(Queue, ToFetch, PipeDepth, inflight) /\ PipeDepth \in [Names -> Int]
        /\ worker \in [Names -> {"none", "up", "dead"}]
    BY DEF CountsOK, Exact
  <1>2. [PipeDepth EXCEPT ![q] = PipeDepth[q]] = PipeDepth /\ PipeDepth[q] \in Int
    BY <1>1
  <1>3. Exact(Queue, ToFetch, [PipeDepth EXCEPT ![q] = PipeDepth[q]], inflight)
    BY <1>1, <1>2
  <1>4. /\ Exact(Queue', ToFetch, PipeDepth', inflight') /\ MoreSent(Queue, Queue')
        /\ \A r \in Names : (r # q \/ w = "none") => SentHeads(Queue', r) = SentHeads(Queue, r)
    BY <1>1, <1>2, <1>3, CycleCounts
  <1>5. /\ worker' \in [Names -> {"none", "up", "dead"}] /\ worker'[q] = w
        /\ \A r \in Names : r # q => worker'[r] = worker[r]
    BY <1>1
  <1>6. \A r \in Names : worker'[r] = "none" => worker[r] = "none" /\ SentHeads(Queue', r) = SentHeads(Queue, r)
    BY <1>4, <1>5
  <1> QED BY <1>4, <1>5, <1>6 DEF Counted

\* Startup starts the worker.
LEMMA StartCounts ==
  ASSUME IInv, CountInv, IInv', work # <<>>, NEW c, c = Head(work), StartWorker(c)
  PROVE  CountInv'
  <1>1. /\ c.op = "start" /\ c.op \notin Telling /\ run' = run /\ CurrentItem' = CurrentItem
        /\ work' = Tail(work) /\ ToFetch' = ToFetch /\ errors' = errors
    BY DEF StartWorker, Telling
  <1>2. run = "startup" /\ c \in Calls /\ work \in Seq(Calls)
    BY <1>1, StartupCalls DEF IInv, Types
  <1>3. Sound(Queue, Status) /\ CountsOK /\ c.q \in Names /\ worker \in [Names -> {"none", "up", "dead"}]
    BY <1>2 DEF IInv, CountInv, CountsOK, Calls
  <1>4. c = work[1] /\ 1 \in DOMAIN work
    BY <1>2
  <1>5. Len(work) = 1
    BY <1>1, <1>4 DEF CountInv, Checks
  <1>6. work' = <<>>
    BY <1>1, <1>2, <1>5
  <1>7. Checks'
    BY <1>6 DEF Checks
  <1>8. CASE worker' = [worker EXCEPT ![c.q] = "up"] /\ Cycle(c.q, "up", Queue, Status, FetchAfter, PipeDepth[c.q], inflight)
    <2>1. Counted
      BY <1>1, <1>3, <1>8, CycleStep
    <2> QED BY <1>1, <1>2, <1>7, <2>1, CountedStep
  <1>9. CASE worker' = [worker EXCEPT ![c.q] = "dead"] /\ UNCHANGED <<Queue, Status, PipeDepth, inflight>>
    <2>1. worker' \in [Names -> {"none", "up", "dead"}] /\ \A r \in Names : worker'[r] = "none" => worker[r] = "none"
      BY <1>3, <1>9
    <2>2. Exact(Queue', ToFetch', PipeDepth', inflight')
      BY <1>1, <1>3, <1>9 DEF CountsOK
    <2>3. MoreSent(Queue, Queue') /\ \A r \in Names : SentHeads(Queue', r) = SentHeads(Queue, r)
      BY <1>9 DEF MoreSent
    <2>4. Counted
      BY <1>1, <2>1, <2>2, <2>3 DEF Counted
    <2> QED BY <1>1, <1>2, <1>7, <2>4, CountedStep
  <1> QED BY <1>8, <1>9 DEF StartWorker

\* Startup begins: nothing in its queue was sent.
LEMMA StartupCounts ==
  ASSUME IInv, CountInv, IInv', NEW q \in Names, Startup(q)
  PROVE  CountInv'
  <1> DEFINE checks == [k \in DOMAIN Queue[q] |-> [Call("check", NoURI, q) EXCEPT !.owners = Queue[q][k].owners]]
             start  == <<Call("start", NoURI, q)>>
  <1>1. /\ run = "startup" /\ run' = run /\ worker[q] = "none" /\ CurrentItem' = CurrentItem
        /\ UNCHANGED <<queueVars, errors>> /\ Queue' = Queue
        /\ work' = checks \o start
    BY DEF Startup, queueVars
  <1>2. Sound(Queue, Status) /\ CountsOK /\ SentHeads(Queue, q) = {}
    BY <1>1 DEF IInv, CountInv, Unsent
  <1>3. DOMAIN Queue[q] = 1..Len(Queue[q]) /\ Len(Queue[q]) \in Nat
    BY <1>2, SoundItems
  <1>4. \A k \in DOMAIN Queue[q] : checks[k].op = "check" /\ checks[k].owners = Queue[q][k].owners
    BY DEF Call
  <1>5. start[1].op = "start" /\ Len(start) = 1
    BY DEF Call
  <1>6. ASSUME NEW k \in DOMAIN Queue[q], NEW r \in Names, NEW j \in SentHeads(Queue, r), j \in Range(Queue[q][k].owners)
        PROVE  FALSE
    <2>1. PICK l \in DOMAIN Queue[r] : Queue[r][l].sent /\ Primary(Queue[r][l]) = j
      BY DEF SentHeads
    <2>2. Primary(Queue[r][l]) \in Range(Queue[r][l].owners)
      BY <1>2, SoundItems DEF Range
    <2>3. r = q
      BY <1>2, <1>6, <2>1, <2>2, Owners
    <2> QED BY <1>2, <1>6, <2>3
  <1>7. /\ DOMAIN work' = 1..(Len(Queue[q]) + 1) /\ Len(work') = Len(Queue[q]) + 1
        /\ \A n \in 1..Len(Queue[q]) : work'[n] = checks[n]
        /\ work'[Len(Queue[q]) + 1] = start[1]
    <2> DEFINE x == Call("start", NoURI, q)
               S == {checks[n] : n \in 1..Len(Queue[q])} \cup {x}
    <2>1. checks \in [1..Len(Queue[q]) -> S]
      BY <1>3
    <2>3. start = <<x>> /\ x \in S
      OBVIOUS
    <2> HIDE DEF S, checks, x, start
    <2>2. checks \in Seq(S) /\ Len(checks) = Len(Queue[q])
      BY <1>3, <2>1, FunctionIsSeq
    <2>4. work' = checks \o <<x>>
      BY <1>1, <2>3
    <2>5. checks \o <<x>> = Append(checks, x)
      BY <2>2, <2>3
    <2>6. start[1] = x
      BY <2>3
    <2> QED BY <1>3, <2>2, <2>3, <2>4, <2>5, <2>6
  <1> HIDE DEF checks, start
  <1>8. Checks'
    <2> SUFFICES ASSUME NEW n \in DOMAIN work'
                 PROVE  /\ work'[n].op = "start" => n = Len(work')
                        /\ work'[n].op = "check" => \A r \in Names : Range(work'[n].owners) \cap SentHeads(Queue', r) = {}
      BY DEF Checks
    <2>1. CASE n \in 1..Len(Queue[q])
      <3>1. work'[n].op = "check" /\ work'[n].owners = Queue[q][n].owners /\ n \in DOMAIN Queue[q]
        BY <1>3, <1>4, <1>7, <2>1
      <3>2. \A r \in Names : Range(Queue[q][n].owners) \cap SentHeads(Queue, r) = {}
        BY <1>6, <3>1
      <3> QED BY <1>1, <3>1, <3>2
    <2>2. CASE n = Len(Queue[q]) + 1
      BY <1>5, <1>7, <2>2
    <2> QED BY <1>3, <1>7, <2>1, <2>2
  <1>9. Counted
    BY <1>1, <1>2, QuietCounts
  <1> QED BY <1>1, <1>8, <1>9, CountedStep

\* A request that was not answered has its QItem.
LEMMA AnswerFound ==
  ASSUME Sound(Queue, Status), CountsOK, NEW q \in Names, NEW u \in Uris, inflight[q][u] > 0,
         NEW k, k = FindItem(q, u)
  PROVE  /\ k # 0 /\ k \in DOMAIN Queue[q] /\ Queue[q][k].sent /\ Queue[q][k].uri = u
         /\ Primary(Queue[q][k]) \in AskedHeads(Queue, q, u)
  <1>1. /\ inflight[q][u] \in Nat /\ inflight[q][u] <= Cardinality(AskedHeads(Queue, q, u))
        /\ IsFiniteSet(AskedHeads(Queue, q, u)) /\ Cardinality(AskedHeads(Queue, q, u)) \in Nat
    BY HeadsFinite DEF CountsOK, Exact
  <1>2. AskedHeads(Queue, q, u) # {}
    BY <1>1, FS_EmptySet
  <1> DEFINE found == {l \in DOMAIN Queue[q] : Queue[q][l].uri = u /\ Queue[q][l].sent}
  <1>3. found # {}
    BY <1>2 DEF AskedHeads
  <1>4. found \in SUBSET Nat
    BY SoundItems
  <1>5. k = Min(found)
    BY <1>3 DEF FindItem
  <1>6. k \in found
    <2> HIDE DEF found
    <2> QED BY <1>3, <1>4, <1>5, LeastPosition
  <1>7. k \in DOMAIN Queue[q] /\ Queue[q][k].sent /\ Queue[q][k].uri = u
    BY <1>6
  <1>8. k # 0
    BY <1>7, SoundItems
  <1>9. Primary(Queue[q][k]) \in Items
    BY <1>7, HeadsApart
  <1> QED BY <1>7, <1>8, <1>9 DEF AskedHeads

\* 200 URI Start
LEMMA URIStartCounts ==
  ASSUME IInv, CountInv, NEW q \in Names, NEW u \in Uris, URIStart(q, u)
  PROVE  CountInv'
  <1> DEFINE k == FindItem(q, u)
  <1>1. /\ run = "running" /\ work' = work /\ inflight[q][u] > 0 /\ run' = run
        /\ Queue' = Queue /\ ToFetch' = ToFetch /\ PipeDepth' = PipeDepth /\ inflight' = inflight /\ worker' = worker
    BY DEF URIStart, Listening, queueVars
  <1>2. Sound(Queue, Status) /\ CountsOK /\ CurrentItem \in [Names -> Uris \cup {NoURI}]
    BY DEF IInv, CountInv, Pointed
  <1>3. k # 0 /\ AskedHeads(Queue, q, u) # {}
    <2> HIDE DEF k
    <2>1. k = FindItem(q, u)
      BY DEF k
    <2> QED BY <1>1, <1>2, <2>1, AnswerFound
  <1>4. CurrentItem' = [CurrentItem EXCEPT ![q] = u] /\ errors' = errors
    BY <1>3 DEF URIStart
  <1>5. Pointed'
    <2>1. CurrentItem' \in [Names -> Uris \cup {NoURI}] /\ CurrentItem'[q] = u /\ \A r \in Names : r # q => CurrentItem'[r] = CurrentItem[r]
      BY <1>2, <1>4
    <2> QED BY <1>1, <1>3, <2>1 DEF CountInv, Pointed
  <1>6. CountsOK'
    BY <1>1, <1>2 DEF CountsOK
  <1>7. Unsent' /\ Checks'
    BY <1>1 DEF CountInv, Unsent, Checks
  <1> QED BY <1>4, <1>5, <1>6, <1>7 DEF CountInv

\* R and its counts when a QItem of queue q for u, which was sent, is deleted from Q
OneLess(Q, R, n, D, F, q, u) ==
  /\ Exact(R, n - 1, [D EXCEPT ![q] = D[q] - 1], [F EXCEPT ![q][u] = F[q][u] - 1])
  /\ \A r \in Names : r # q => SentHeads(R, r) = SentHeads(Q, r)
  /\ \A r \in Names : r # q => \A v \in Uris : AskedHeads(R, r, v) = AskedHeads(Q, r, v)

\* The QItem of an answer leaves the counts as it leaves its queue.
LEMMA ExactDone ==
  ASSUME NEW Q, NEW status, Sound(Q, status), NEW n, NEW D, NEW F, Exact(Q, n, D, F),
         NEW q \in Names, NEW u \in Uris, F[q][u] > 0, NEW p \in AskedHeads(Q, q, u), NEW R, R = Without(Q, {p})
  PROVE  OneLess(Q, R, n, D, F, q, u)
  <1> DEFINE E == [D EXCEPT ![q] = D[q] - 1]
             G == [F EXCEPT ![q][u] = F[q][u] - 1]
  <1>1. /\ IsFiniteSet(Heads(Q)) /\ n = Cardinality(Heads(Q))
        /\ D \in [Names -> Int] /\ F \in [Names -> [Uris -> Nat]]
        /\ \A r \in Names : D[r] = Cardinality(SentHeads(Q, r)) /\ D[r] <= MaxPipeDepth[r]
        /\ \A r \in Names, v \in Uris : F[r][v] <= Cardinality(AskedHeads(Q, r, v))
    BY DEF Exact
  <1>2. LeavesHeads(Q, {p}, R)
    BY HeadsWithout
  <1>3. PICK k \in DOMAIN Q[q] : Q[q][k].sent /\ Primary(Q[q][k]) = p /\ Q[q][k].uri = u
    BY DEF AskedHeads
  <1>4. p \in SentHeads(Q, q) /\ p \in Heads(Q)
    BY HeadsWithin
  <1>5. ASSUME NEW r \in Names, NEW v \in Uris, p \in AskedHeads(Q, r, v) PROVE r = q /\ v = u
    <2>1. PICK l \in DOMAIN Q[r] : Primary(Q[r][l]) = p /\ Q[r][l].uri = v
      BY <1>5 DEF AskedHeads
    <2>2. r = q /\ l = k
      BY <1>3, <2>1, HeadsApart
    <2> QED BY <1>3, <2>1, <2>2
  <1>6. ASSUME NEW r \in Names, p \in SentHeads(Q, r) PROVE r = q
    <2>1. PICK l \in DOMAIN Q[r] : Primary(Q[r][l]) = p
      BY <1>6 DEF SentHeads
    <2> QED BY <1>3, <2>1, HeadsApart
  <1>7. IsFiniteSet(Heads(R)) /\ n - 1 = Cardinality(Heads(R))
    <2>1. Heads(R) = Heads(Q) \ {p}
      BY <1>2 DEF LeavesHeads
    <2>2. IsFiniteSet(Heads(Q) \ {p}) /\ Cardinality(Heads(Q) \ {p}) = Cardinality(Heads(Q)) - 1
      BY <1>1, <1>4, FS_RemoveElement
    <2> QED BY <1>1, <2>1, <2>2
  <1>8. ASSUME NEW r \in Names, r # q
        PROVE  SentHeads(R, r) = SentHeads(Q, r) /\ \A v \in Uris : AskedHeads(R, r, v) = AskedHeads(Q, r, v)
    <2>1. SentHeads(R, r) = SentHeads(Q, r)
      <3>1. p \notin SentHeads(Q, r)
        BY <1>6, <1>8
      <3>2. SentHeads(R, r) = SentHeads(Q, r) \ {p}
        BY <1>2 DEF LeavesHeads
      <3> QED BY <3>1, <3>2
    <2>2. ASSUME NEW v \in Uris PROVE AskedHeads(R, r, v) = AskedHeads(Q, r, v)
      <3>1. p \notin AskedHeads(Q, r, v)
        BY <1>5, <1>8
      <3>2. AskedHeads(R, r, v) = AskedHeads(Q, r, v) \ {p}
        BY <1>2 DEF LeavesHeads
      <3> QED BY <3>1, <3>2
    <2> QED BY <2>1, <2>2
  <1>9. \A v \in Uris : v # u => AskedHeads(R, q, v) = AskedHeads(Q, q, v)
    <2> TAKE v \in Uris
    <2> HAVE v # u
    <2>1. p \notin AskedHeads(Q, q, v)
      BY <1>5
    <2>2. AskedHeads(R, q, v) = AskedHeads(Q, q, v) \ {p}
      BY <1>2 DEF LeavesHeads
    <2> QED BY <2>1, <2>2
  <1>10. Cardinality(SentHeads(R, q)) = D[q] - 1 /\ D[q] \in Int /\ MaxPipeDepth[q] \in Int
    <2>1. IsFiniteSet(SentHeads(Q, q)) /\ Cardinality(SentHeads(Q, q)) \in Nat
      BY <1>1, HeadsFinite
    <2>2. Cardinality(SentHeads(Q, q) \ {p}) = Cardinality(SentHeads(Q, q)) - 1
      BY <1>4, <2>1, FS_RemoveElement
    <2>3. SentHeads(R, q) = SentHeads(Q, q) \ {p}
      BY <1>2 DEF LeavesHeads
    <2>4. MaxPipeDepth[q] \in Int
      BY ConstantsAssumption
    <2> QED BY <1>1, <2>2, <2>3, <2>4
  <1>11. F[q][u] - 1 <= Cardinality(AskedHeads(R, q, u)) /\ F[q][u] - 1 \in Nat
    <2>1. IsFiniteSet(AskedHeads(Q, q, u)) /\ Cardinality(AskedHeads(Q, q, u)) \in Nat
      BY <1>1, HeadsFinite
    <2>2. Cardinality(AskedHeads(Q, q, u) \ {p}) = Cardinality(AskedHeads(Q, q, u)) - 1
      BY <2>1, FS_RemoveElement
    <2>3. AskedHeads(R, q, u) = AskedHeads(Q, q, u) \ {p}
      BY <1>2 DEF LeavesHeads
    <2>4. F[q][u] \in Nat /\ F[q][u] <= Cardinality(AskedHeads(Q, q, u)) /\ F[q][u] > 0
      BY <1>1
    <2> DEFINE x == F[q][u]
               y == Cardinality(AskedHeads(Q, q, u))
               z == Cardinality(AskedHeads(R, q, u))
    <2>5. x \in Nat /\ x <= y /\ x > 0 /\ y \in Nat /\ z = y - 1
      BY <2>1, <2>2, <2>3, <2>4
    <2> HIDE DEF x, y, z
    <2>6. x - 1 <= z /\ x - 1 \in Nat
      BY ONLY <2>5
    <2> QED BY <2>6 DEF x, z
  <1>12. /\ E \in [Names -> Int]
         /\ \A r \in Names : E[r] = Cardinality(SentHeads(R, r)) /\ E[r] <= MaxPipeDepth[r]
    <2>1. E \in [Names -> Int] /\ E[q] = D[q] - 1 /\ \A r \in Names : r # q => E[r] = D[r]
      BY <1>1, <1>10
    <2> HIDE DEF E
    <2>2. ASSUME NEW r \in Names PROVE E[r] = Cardinality(SentHeads(R, r)) /\ E[r] <= MaxPipeDepth[r]
      <3>1. CASE r = q
        <4>1. D[q] <= MaxPipeDepth[q]
          BY <1>1
        <4>2. D[q] - 1 <= MaxPipeDepth[q]
          BY <1>10, <4>1
        <4> QED BY <1>10, <2>1, <3>1, <4>2
      <3>2. CASE r # q
        BY <1>1, <1>8, <2>1, <3>2
      <3> QED BY <3>1, <3>2
    <2> QED BY <2>1, <2>2
  <1>13. /\ G \in [Names -> [Uris -> Nat]]
         /\ \A r \in Names, v \in Uris : G[r][v] <= Cardinality(AskedHeads(R, r, v))
    <2> DEFINE g == [F[q] EXCEPT ![u] = F[q][u] - 1]
    <2>1. g \in [Uris -> Nat] /\ g[u] = F[q][u] - 1 /\ \A v \in Uris : v # u => g[v] = F[q][v]
      BY <1>1, <1>11
    <2>2. G = [F EXCEPT ![q] = g]
      BY <1>1
    <2> HIDE DEF g, G
    <2>3. G \in [Names -> [Uris -> Nat]] /\ G[q] = g /\ \A r \in Names : r # q => G[r] = F[r]
      BY <1>1, <2>1, <2>2
    <2>4. ASSUME NEW r \in Names, NEW v \in Uris PROVE G[r][v] <= Cardinality(AskedHeads(R, r, v))
      <3>1. CASE r = q /\ v = u
        BY <1>11, <2>1, <2>3, <3>1
      <3>2. CASE r = q /\ v # u
        BY <1>1, <1>9, <2>1, <2>3, <3>2
      <3>3. CASE r # q
        BY <1>1, <1>8, <2>3, <3>3
      <3> QED BY <3>1, <3>2, <3>3
    <2> QED BY <2>3, <2>4
  <1> HIDE DEF E, G
  <1>14. Exact(R, n - 1, E, G)
    BY <1>7, <1>12, <1>13 DEF Exact
  <1> QED BY <1>8, <1>14 DEF E, G, OneLess

\* A final answer.
LEMMA AnswerCounts ==
  ASSUME IInv, CountInv, IInv', NEW q \in Names, NEW u \in Uris, NEW from, NEW to \in Statuses \ {"New"}, NEW c,
         Answer(q, u, from, to, c)
  PROVE  CountInv'
  <1> DEFINE k      == FindItem(q, u)
             owners == Queue[q][k].owners
             p      == Primary(Queue[q][k])
             status == [i \in Items |-> IF i \in Range(owners) /\ Status[i] \in from THEN to ELSE Status[i]]
             R      == Without(Queue, {p})
             depth  == PipeDepth[q] - 1
             asked  == Answered(q, u)
  <1>1. run = "running" /\ run' = run /\ inflight[q][u] > 0 /\ worker[q] = "up"
    BY DEF Answer, Listening
  <1>2. /\ Sound(Queue, Status) /\ CountsOK /\ Exact(Queue, ToFetch, PipeDepth, inflight)
        /\ PipeDepth \in [Names -> Int] /\ worker \in [Names -> {"none", "up", "dead"}]
        /\ CurrentItem \in [Names -> Uris \cup {NoURI}]
    BY DEF IInv, CountInv, CountsOK, Exact, Pointed
  <1>3. /\ k # 0 /\ k \in DOMAIN Queue[q] /\ Queue[q][k].sent /\ Queue[q][k].uri = u /\ p \in AskedHeads(Queue, q, u)
    <2> DEFINE l == FindItem(q, u)
    <2> HIDE DEF l
    <2>1. l = FindItem(q, u)
      BY DEF l
    <2>2. /\ l # 0 /\ l \in DOMAIN Queue[q] /\ Queue[q][l].sent /\ Queue[q][l].uri = u
          /\ Primary(Queue[q][l]) \in AskedHeads(Queue, q, u)
      BY <1>1, <1>2, <2>1, AnswerFound
    <2> QED BY <2>2 DEF l
  <1>4. /\ Cycle(q, worker[q], R, status, FetchAfter, depth, asked) /\ ToFetch' = ToFetch - 1 /\ worker' = worker
        /\ CurrentItem' = [CurrentItem EXCEPT ![q] = NoURI] /\ errors' = errors
    BY <1>3 DEF Answer, ItemDone, ForgetCurrentItem
  <1>5. \A o \in Range(owners) :
          /\ o \in Items /\ Status[o] # "New"
          /\ \A r \in Names : \A l \in DOMAIN Queue[r] : o \in Range(Queue[r][l].owners) => r = q /\ l = k
    <2> DEFINE m == k
    <2>1. m \in DOMAIN Queue[q] /\ owners = Queue[q][m].owners /\ m = k
      BY <1>3
    <2> HIDE DEF m, k, owners
    <2> TAKE o \in Range(owners)
    <2>2. o \in Range(Queue[q][m].owners)
      BY <2>1
    <2>3. /\ o \in Items /\ Status[o] # "New"
          /\ \A r \in Names : \A l \in DOMAIN Queue[r] : o \in Range(Queue[r][l].owners) => r = q /\ l = m
      <3>1. Sound(Queue, Status) /\ m \in DOMAIN Queue[q]
        BY <1>2, <2>1
      <3> QED BY <2>2, <3>1, Owners
    <2> QED BY <2>1, <2>3
  <1>6. \A r \in Names : \A l \in DOMAIN Queue[r] :
          Primary(Queue[r][l]) \in Items /\ Primary(Queue[r][l]) \in Range(Queue[r][l].owners)
    <2> TAKE r \in Names
    <2> TAKE l \in DOMAIN Queue[r]
    <2>1. 1 \in DOMAIN Queue[r][l].owners /\ Primary(Queue[r][l]) = Queue[r][l].owners[1] /\ Primary(Queue[r][l]) \in Items
      BY <1>2, SoundItems
    <2> QED BY <2>1 DEF Range
  <1> HIDE DEF k, p
  <1>7. SameBut(Queue, {p}, Status, status) /\ status \in [Items -> Statuses]
    <2>1. \A r \in Names : \A l \in DOMAIN Queue[r] :
            Primary(Queue[r][l]) \notin {p} => status[Primary(Queue[r][l])] = Status[Primary(Queue[r][l])]
      <3> TAKE r \in Names
      <3> TAKE l \in DOMAIN Queue[r]
      <3> HAVE Primary(Queue[r][l]) \notin {p}
      <3>1. Primary(Queue[r][l]) \notin Range(owners)
        BY <1>5, <1>6 DEF p
      <3> QED BY <1>6, <3>1
    <2>2. Status \in [Items -> Statuses]
      BY <1>2 DEF Sound
    <2>3. status \in [Items -> Statuses] /\ \A i \in Items : status[i] = "New" => Status[i] = "New"
      BY <2>2
    <2> QED BY <2>1, <2>3 DEF SameBut
  <1> HIDE DEF status, R, asked, depth
  <1>8. Sound(R, status)
    BY <1>2, <1>7, Removing DEF R
  <1>9. /\ Exact(R, ToFetch - 1, [PipeDepth EXCEPT ![q] = PipeDepth[q] - 1], [inflight EXCEPT ![q][u] = inflight[q][u] - 1])
        /\ \A r \in Names : r # q => SentHeads(R, r) = SentHeads(Queue, r)
        /\ \A r \in Names : r # q => \A v \in Uris : AskedHeads(R, r, v) = AskedHeads(Queue, r, v)
    <2>1. R = Without(Queue, {p})
      BY DEF R
    <2>2. OneLess(Queue, R, ToFetch, PipeDepth, inflight, q, u)
      BY <1>1, <1>2, <1>3, <2>1, ExactDone
    <2> QED BY <2>2 DEF OneLess
  <1>10. Exact(R, ToFetch', [PipeDepth EXCEPT ![q] = depth], asked) /\ depth \in Int
    BY <1>2, <1>4, <1>9 DEF depth, asked, Answered
  <1>11. /\ Exact(Queue', ToFetch', PipeDepth', inflight') /\ MoreSent(R, Queue')
         /\ \A r \in Names : (r # q \/ worker[q] = "none") => SentHeads(Queue', r) = SentHeads(R, r)
    BY <1>2, <1>4, <1>8, <1>10, CycleCounts
  <1>12. CountsOK'
    BY <1>2, <1>4, <1>11 DEF CountsOK
  <1>13. Unsent'
    <2> SUFFICES ASSUME NEW r \in Names, worker[r] = "none" PROVE SentHeads(Queue', r) = {}
      BY <1>4 DEF Unsent
    <2>1. r # q
      BY <1>1
    <2>2. SentHeads(Queue, r) = {}
      BY <1>1 DEF CountInv, Unsent
    <2> QED BY <1>9, <1>11, <2>1, <2>2
  <1>14. Pointed'
    <2>1. CurrentItem' \in [Names -> Uris \cup {NoURI}] /\ CurrentItem'[q] = NoURI /\ \A r \in Names : r # q => CurrentItem'[r] = CurrentItem[r]
      BY <1>2, <1>4
    <2>2. ASSUME NEW r \in Names, CurrentItem'[r] # NoURI PROVE AskedHeads(Queue', r, CurrentItem'[r]) # {}
      <3> DEFINE v == CurrentItem[r]
      <3>1. r # q /\ CurrentItem'[r] = v /\ v # NoURI /\ v \in Uris
        BY <1>2, <2>1, <2>2
      <3>2. AskedHeads(Queue, r, v) # {}
        BY <3>1 DEF CountInv, Pointed
      <3>3. AskedHeads(Queue', r, v) # {}
        BY <1>9, <1>11, <3>1, <3>2 DEF MoreSent
      <3> QED BY <3>1, <3>3
    <2> QED BY <2>1, <2>2 DEF Pointed
  <1>15. Checks'
    BY <1>1, TellingChecks
  <1> QED BY <1>4, <1>12, <1>13, <1>14, <1>15 DEF CountInv

\* A constructor before Run().
LEMMA QueueURICounts ==
  ASSUME IInv, CountInv, NEW i \in Items, QueueURI(i)
  PROVE  CountInv'
  <1>1. /\ run = "setup" /\ Status[i] = "New" /\ work' = work /\ CurrentItem' = CurrentItem
        /\ Enqueue(i, FirstURI[i], FetchAfter, PastRedirections, AlternativeURIs)
    BY DEF QueueURI
  <1>2. Sound(Queue, Status) /\ CountsOK /\ work = <<>>
    BY <1>1 DEF IInv, CountInv, CallsOK
  <1>3. ~OwnedIn(Queue, i)
    BY <1>1, <1>2 DEF Sound, Known, OwnedIn, Range
  <1>4. FirstURI[i] \in Uris
    BY ConstantsAssumption
  <1>5. Counted
    BY <1>1, <1>2, <1>3, <1>4, EnqueueCounts
  <1>6. Checks'
    BY <1>1, <1>2 DEF Checks
  <1> QED BY <1>1, <1>5, <1>6, CountedStep

\* The loop cycles a queue.
LEMMA UnstickCounts ==
  ASSUME IInv, CountInv, NEW q \in Names, Unstick(q)
  PROVE  CountInv'
  <1>1. /\ run = "running" /\ work = <<>> /\ work' = work /\ CurrentItem' = CurrentItem /\ worker' = worker
        /\ Cycle(q, worker[q], Queue, Status, FetchAfter, PipeDepth[q], inflight)
        /\ ToFetch' = ToFetch /\ errors' = errors
    BY DEF Unstick
  <1>2. Sound(Queue, Status) /\ CountsOK /\ worker \in [Names -> {"none", "up", "dead"}]
    BY DEF IInv, CountInv, CountsOK
  <1>3. worker' = [worker EXCEPT ![q] = worker[q]] /\ worker[q] \in {"none", "up", "dead"}
    BY <1>1, <1>2
  <1>4. Counted
    BY <1>1, <1>2, <1>3, CycleStep
  <1>5. Checks'
    BY <1>1 DEF Checks
  <1> QED BY <1>1, <1>4, <1>5, CountedStep

\* A method dies: what it was asked will not be answered.
LEMMA MethodFailureCounts ==
  ASSUME IInv, CountInv, NEW q \in Names, MethodFailure(q)
  PROVE  CountInv'
  <1> DEFINE F == [inflight EXCEPT ![q] = [u \in Uris |-> 0]]
  <1>1. /\ run = "running" /\ run' = run /\ work' = work /\ CurrentItem' = CurrentItem /\ Queue' = Queue /\ ToFetch' = ToFetch
        /\ PipeDepth' = PipeDepth /\ worker' = [worker EXCEPT ![q] = "dead"] /\ inflight' = F
        /\ errors' = errors \cup {"died"}
    BY DEF MethodFailure, Listening
  <1>2. /\ Exact(Queue, ToFetch, PipeDepth, inflight) /\ inflight \in [Names -> [Uris -> Nat]]
        /\ IsFiniteSet(Heads(Queue)) /\ worker \in [Names -> {"none", "up", "dead"}]
    BY DEF CountInv, CountsOK, Exact
  <1>3. F \in [Names -> [Uris -> Nat]] /\ \A r \in Names, u \in Uris : F[r][u] = IF r = q THEN 0 ELSE inflight[r][u]
    BY <1>2
  <1> HIDE DEF F
  <1>4. \A r \in Names, u \in Uris : F[r][u] <= Cardinality(AskedHeads(Queue, r, u))
    <2> TAKE r \in Names, u \in Uris
    <2>1. Cardinality(AskedHeads(Queue, r, u)) \in Nat /\ inflight[r][u] <= Cardinality(AskedHeads(Queue, r, u))
      BY <1>2, HeadsFinite DEF Exact
    <2> QED BY <1>3, <2>1
  <1>5. Exact(Queue', ToFetch', PipeDepth', inflight')
    BY <1>1, <1>2, <1>3, <1>4 DEF Exact
  <1>6. worker' \in [Names -> {"none", "up", "dead"}] /\ \A r \in Names : worker'[r] = "none" => worker[r] = "none"
    BY <1>1, <1>2
  <1>7. Counted
    BY <1>1, <1>5, <1>6 DEF Counted, MoreSent
  <1>8. Checks'
    BY <1>1 DEF CountInv, Checks
  <1> QED BY <1>1, <1>7, <1>8, CountedStep

\* Run() ends: nobody waits for answers any more.
LEMMA StopCounts ==
  ASSUME IInv, CountInv, Stop
  PROVE  CountInv'
  <1> DEFINE F == [q \in Names |-> [u \in Uris |-> 0]]
  <1>1. /\ run' = "stopped" /\ work' = work /\ work = <<>> /\ CurrentItem' = [q \in Names |-> NoURI]
        /\ Queue' = Queue /\ ToFetch' = ToFetch
        /\ PipeDepth' = PipeDepth /\ worker' = [q \in Names |-> "none"] /\ inflight' = F /\ errors' = errors
    BY DEF Stop
  <1>2. Exact(Queue, ToFetch, PipeDepth, inflight) /\ IsFiniteSet(Heads(Queue))
    BY DEF CountInv, CountsOK, Exact
  <1>3. F \in [Names -> [Uris -> Nat]] /\ \A r \in Names, u \in Uris : F[r][u] = 0
    OBVIOUS
  <1> HIDE DEF F
  <1>4. \A r \in Names, u \in Uris : F[r][u] <= Cardinality(AskedHeads(Queue, r, u))
    <2> TAKE r \in Names, u \in Uris
    <2>1. Cardinality(AskedHeads(Queue, r, u)) \in Nat
      BY <1>2, HeadsFinite
    <2> QED BY <1>3, <2>1
  <1>5. Exact(Queue', ToFetch', PipeDepth', inflight')
    BY <1>1, <1>2, <1>3, <1>4 DEF Exact
  <1>6. CountsOK'
    BY <1>1, <1>5 DEF CountsOK
  <1>7. Unsent' /\ Checks' /\ Pointed'
    BY <1>1 DEF Unsent, Checks, Pointed
  <1> QED BY <1>1, <1>6, <1>7 DEF CountInv

\* What leaves the queues, the calls and the workers alone.
LEMMA IdleCounts ==
  ASSUME CountInv, UNCHANGED <<queueVars, errors, work, CurrentItem>>, run # "stopped" \/ run' = run
  PROVE  CountInv'
  <1>1. /\ Queue' = Queue /\ ToFetch' = ToFetch /\ PipeDepth' = PipeDepth /\ inflight' = inflight
        /\ worker' = worker /\ errors' = errors /\ work' = work /\ CurrentItem' = CurrentItem
    BY DEF queueVars
  <1>2. CountsOK'
    BY <1>1 DEF CountInv, CountsOK
  <1>3. Unsent' /\ Checks' /\ Pointed'
    BY <1>1 DEF CountInv, Unsent, Checks, Pointed
  <1> QED BY <1>1, <1>2, <1>3 DEF CountInv

\* The answers that end a request.
LEMMA MessageCounts ==
  ASSUME IInv, CountInv, IInv', NEW q \in Names, NEW u \in Uris, Redirect(q, u) \/ URIDone(q, u) \/ URIFailure(q, u)
  PROVE  CountInv'
  <1>1. "Done" \in Statuses \ {"New"} /\ "Idle" \in Statuses \ {"New"}
    BY DEF Statuses
  <1>2. \/ \E c : Answer(q, u, {"Fetching"}, "Done", c)
        \/ \E c : Answer(q, u, Statuses, "Idle", c)
    BY DEF Redirect, URIDone, URIFailure
  <1> QED BY <1>1, <1>2, AnswerCounts

\* Every step keeps the counts exact.
LEMMA CountStep ==
  ASSUME IInv, CountInv, [Next]_vars
  PROVE  CountInv'
  <1>1. IInv'
    BY NextStep
  <1>2. CASE Handler
    <2>1. PICK c : c = Head(work)
      OBVIOUS
    <2>2. /\ work # <<>>
          /\ \/ CheckOwner(c) \/ StartWorker(c) \/ RedirectOwner(c) \/ DoneOwner(c)
             \/ NewItem(c) \/ RetryOwner(c) \/ FailOwner(c)
      BY <1>2, <2>1 DEF Handler
    <2> QED BY <1>1, <2>1, <2>2, TellCounts, CheckCounts, StartCounts
  <1>3. ASSUME NEW i \in Items, QueueURI(i) PROVE CountInv'
    BY <1>3, QueueURICounts
  <1>4. CASE Run \/ EnterLoop \/ Tick \/ Cancel
    <2>1. UNCHANGED <<queueVars, errors, work, CurrentItem>> /\ run # "stopped"
      BY <1>4 DEF Run, EnterLoop, Tick, Cancel
    <2> QED BY <2>1, IdleCounts
  <1>5. CASE Stop
    BY <1>5, StopCounts
  <1>6. ASSUME NEW q \in Names, Startup(q) \/ Unstick(q) \/ MethodFailure(q) PROVE CountInv'
    BY <1>1, <1>6, StartupCounts, UnstickCounts, MethodFailureCounts
  <1>7. ASSUME NEW q \in Names, NEW u \in Uris, URIStart(q, u) \/ Redirect(q, u) \/ URIDone(q, u) \/ URIFailure(q, u)
        PROVE  CountInv'
    BY <1>1, <1>7, URIStartCounts, MessageCounts
  <1>8. CASE UNCHANGED vars
    <2>1. UNCHANGED <<queueVars, errors, work, CurrentItem>> /\ run' = run
      BY <1>8 DEF vars
    <2> QED BY <2>1, IdleCounts
  <1> QED BY <1>2, <1>3, <1>4, <1>5, <1>6, <1>7, <1>8 DEF Next, Finished

\* It begins with empty queues.
LEMMA InitCounts ==
  ASSUME Init
  PROVE  CountInv
  <1>1. /\ Queue = [q \in Names |-> <<>>] /\ worker = [q \in Names |-> "none"] /\ PipeDepth = [q \in Names |-> 0]
        /\ CurrentItem = [q \in Names |-> NoURI] /\ inflight = [q \in Names |-> [u \in Uris |-> 0]] /\ ToFetch = 0
        /\ errors = {} /\ work = <<>>
    BY DEF Init
  <1>2. \A q \in Names : DOMAIN Queue[q] = {}
    BY <1>1
  <1>3. Heads(Queue) = {} /\ (\A q \in Names : SentHeads(Queue, q) = {}) /\ \A q \in Names, u \in Uris : AskedHeads(Queue, q, u) = {}
    BY <1>2 DEF Heads, SentHeads, AskedHeads, Queued
  <1>4. IsFiniteSet({}) /\ Cardinality({}) = 0
    BY FS_EmptySet
  <1>5. \A q \in Names : 0 <= MaxPipeDepth[q]
    BY ConstantsAssumption
  <1>6. \A q \in Names, u \in Uris : inflight[q][u] <= Cardinality(AskedHeads(Queue, q, u))
    <2> TAKE q \in Names, u \in Uris
    <2>1. inflight[q][u] = 0
      BY <1>1
    <2>2. AskedHeads(Queue, q, u) = {}
      BY <1>3
    <2> QED BY <1>4, <2>1, <2>2
  <1>7. Exact(Queue, ToFetch, PipeDepth, inflight)
    <2>1. PipeDepth \in [Names -> Int] /\ inflight \in [Names -> [Uris -> Nat]]
      BY <1>1
    <2>2. IsFiniteSet(Heads(Queue)) /\ ToFetch = Cardinality(Heads(Queue))
      BY <1>1, <1>3, <1>4
    <2>3. \A q \in Names : PipeDepth[q] = Cardinality(SentHeads(Queue, q)) /\ PipeDepth[q] <= MaxPipeDepth[q]
      <3> TAKE q \in Names
      <3>1. PipeDepth[q] = 0 /\ SentHeads(Queue, q) = {}
        BY <1>1, <1>3
      <3> QED BY <1>4, <1>5, <3>1
    <2> QED BY <1>6, <2>1, <2>2, <2>3 DEF Exact
  <1>8. Unsent /\ Checks /\ Pointed
    BY <1>1, <1>3 DEF Unsent, Checks, Pointed
  <1> QED BY <1>1, <1>7, <1>8 DEF CountInv, CountsOK

\* The counts are exact throughout.
LEMMA CountsHold == Spec => [](IInv /\ CountInv)
  <1>1. Init => IInv /\ CountInv
    BY InitInv, InitCounts
  <1>2. IInv /\ CountInv /\ [Next]_vars => (IInv /\ CountInv)'
    BY NextStep, CountStep
  <1> QED BY <1>1, <1>2, PTL DEF Spec

-----------------------------------------------------------------------------
(* From first owners to positions *)

\* The positions of a queue whose QItems were sent, counted by first owners.
LEMMA SentCounted ==
  ASSUME Sound(Queue, Status), CountsOK, NEW q \in Names
  PROVE  /\ PipeDepth[q] = Cardinality(Sent(q)) /\ PipeDepth[q] <= MaxPipeDepth[q]
         /\ \A u \in Uris : inflight[q][u] <= Cardinality({k \in Sent(q) : Queue[q][k].uri = u})
  <1>1. DOMAIN Queue[q] = 1..Len(Queue[q]) /\ Len(Queue[q]) \in Nat
    BY SoundItems
  <1>2. IsFiniteSet(DOMAIN Queue[q])
    BY <1>1, FS_Interval
  <1>3. \A k \in DOMAIN Queue[q] : Primary(Queue[q][k]) \in Items
    BY HeadsApart
  <1>4. Cardinality(SentHeads(Queue, q)) = Cardinality(Sent(q))
    <2> DEFINE K == Sent(q)
    <2>1. K \in SUBSET DOMAIN Queue[q] /\ SentHeads(Queue, q) = {Primary(Queue[q][k]) : k \in K}
      BY <1>3 DEF Sent, SentHeads
    <2> HIDE DEF K
    <2>2. IsFiniteSet(K)
      BY <1>2, <2>1, FS_Subset
    <2>3. Cardinality(SentHeads(Queue, q)) = Cardinality(K)
      BY <2>1, <2>2, HeadsCount
    <2> QED BY <2>3 DEF K
  <1>5. ASSUME NEW u \in Uris
        PROVE  Cardinality(AskedHeads(Queue, q, u)) = Cardinality({k \in Sent(q) : Queue[q][k].uri = u})
    <2> DEFINE K == {k \in Sent(q) : Queue[q][k].uri = u}
    <2>1. K \in SUBSET DOMAIN Queue[q] /\ AskedHeads(Queue, q, u) = {Primary(Queue[q][k]) : k \in K}
      BY <1>3 DEF Sent, AskedHeads
    <2> HIDE DEF K
    <2>2. IsFiniteSet(K)
      BY <1>2, <2>1, FS_Subset
    <2>3. Cardinality(AskedHeads(Queue, q, u)) = Cardinality(K)
      BY <2>1, <2>2, HeadsCount
    <2> QED BY <2>3 DEF K
  <1>6. /\ PipeDepth[q] = Cardinality(SentHeads(Queue, q)) /\ PipeDepth[q] <= MaxPipeDepth[q]
        /\ \A u \in Uris : inflight[q][u] <= Cardinality(AskedHeads(Queue, q, u))
    BY DEF CountsOK, Exact
  <1> QED BY <1>4, <1>5, <1>6

\* All positions, counted by first owners.
LEMMA AllCounted ==
  ASSUME Sound(Queue, Status), CountsOK
  PROVE  ToFetchExact
  <1> DEFINE P == UNION {{q} \X DOMAIN Queue[q] : q \in Names}
             f == [x \in P |-> Primary(Queue[x[1]][x[2]])]
  <1>1. ASSUME NEW x \in P PROVE x[1] \in Names /\ x[2] \in DOMAIN Queue[x[1]] /\ x = <<x[1], x[2]>>
    OBVIOUS
  <1>2. ASSUME NEW q \in Names, NEW k \in DOMAIN Queue[q] PROVE <<q, k>> \in P
    OBVIOUS
  <1>3. f \in [P -> Heads(Queue)]
    <2>1. ASSUME NEW x \in P PROVE Primary(Queue[x[1]][x[2]]) \in Heads(Queue)
      <3>1. x[1] \in Names /\ x[2] \in DOMAIN Queue[x[1]]
        BY <1>1
      <3> DEFINE q == x[1]
                 k == x[2]
      <3> HIDE DEF q, k, P
      <3>2. q \in Names /\ k \in DOMAIN Queue[q]
        BY <3>1 DEF q, k
      <3>3. Primary(Queue[q][k]) \in Items
        BY <3>2, HeadsApart
      <3>4. Primary(Queue[q][k]) \in Heads(Queue)
        BY <3>2, <3>3 DEF Heads, Queued
      <3> QED BY <3>4 DEF q, k
    <2> QED BY <2>1
  <1>4. ASSUME NEW i \in Heads(Queue) PROVE \E x \in P : f[x] = i
    <2>4. PICK q \in Names : \E k \in DOMAIN Queue[q] : Primary(Queue[q][k]) = i
      BY DEF Heads, Queued
    <2>1. PICK k \in DOMAIN Queue[q] : Primary(Queue[q][k]) = i
      BY <2>4
    <2>2. <<q, k>> \in P
      BY <1>2
    <2>3. f[<<q, k>>] = Primary(Queue[q][k])
      BY <2>2
    <2> QED BY <2>1, <2>2, <2>3
  <1>5. ASSUME NEW x \in P, NEW y \in P, f[x] = f[y] PROVE x = y
    <2>1. /\ x[1] \in Names /\ x[2] \in DOMAIN Queue[x[1]] /\ x = <<x[1], x[2]>>
          /\ y[1] \in Names /\ y[2] \in DOMAIN Queue[y[1]] /\ y = <<y[1], y[2]>>
      BY <1>1
    <2>2. Primary(Queue[x[1]][x[2]]) = Primary(Queue[y[1]][y[2]])
      BY <1>5
    <2> HIDE DEF P, f
    <2>3. y[1] = x[1] /\ y[2] = x[2]
      BY <2>1, <2>2, HeadsApart
    <2> QED BY <2>1, <2>3
  <1> HIDE DEF P, f
  <1>6. f \in Bijection(P, Heads(Queue))
    BY <1>3, <1>4, <1>5 DEF Bijection, Injection, IsInjective, Surjection
  <1>7. ExistsBijection(P, Heads(Queue))
    BY <1>6 DEF ExistsBijection
  <1>8. IsFiniteSet(Heads(Queue)) /\ ToFetch = Cardinality(Heads(Queue))
    BY DEF CountsOK, Exact
  <1>9. Cardinality(P) = Cardinality(Heads(Queue))
    <2>1. ExistsBijection(Heads(Queue), P)
      BY <1>7, Fun_ExistsBijSymmetric
    <2> QED BY <1>8, <2>1, FS_Bijection
  <1> QED BY <1>8, <1>9 DEF ToFetchExact, P

\* What the counts mean for Run(), Cycle and RunMessages.
LEMMA CountsMean ==
  ASSUME IInv, CountInv
  PROVE  ToFetchExact /\ PipeDepthExact /\ OwnedOnce /\ AnswersFindItem /\ CurrentItemLive
  <1>1. Sound(Queue, Status) /\ CountsOK
    BY DEF IInv, CountInv
  <1>2. ToFetchExact
    BY <1>1, AllCounted
  <1>3. PipeDepthExact
    BY <1>1, SentCounted DEF PipeDepthExact
  <1>4. AnswersFindItem
    BY <1>1, SentCounted DEF AnswersFindItem, CountInv
  <1>5. CurrentItemLive
    BY DEF CountInv, Pointed, AskedHeads, CurrentItemLive, Sent
  <1>6. OwnedOnce
    BY <1>1 DEF Sound, Apart, OwnedOnce
  <1> QED BY <1>2, <1>3, <1>4, <1>5, <1>6

=============================================================================
