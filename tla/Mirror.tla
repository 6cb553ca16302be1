------------------------------- MODULE Mirror -------------------------------
(***************************************************************************)
(* The mirror method (methods/mirror.cc): the first request below a        *)
(* repository URI makes it ask for the list of mirrors, further ones wait  *)
(* in the queue, and when the list is there, which comes as one more       *)
(* request, each is redirected to a mirror with the others as              *)
(* alternatives. One process serves all lists, of which one may be below   *)
(* another (mirror://foo/ and mirror://foo/bar/).                          *)
(*                                                                         *)
(* A URI is known by the repositories it is below. What clock() and the    *)
(* random numbers decide is left open.                                     *)
(***************************************************************************)
EXTENDS Integers, Sequences, FiniteSets, SequencesExt

CONSTANTS
  Requests,      \* the files asked for
  Repos,         \* the base URIs; Repos[r] = [len, below, online]: the length, the bases it starts with, not local
  Below,         \* Below[f]: the bases the URI of a file starts with
  TargetRepo,    \* TargetRepo[f]: Target-Repo-Uri of its message, "" for none
  TargetArch,    \* TargetArch[f]: Target-Architecture, "" for none
  InSources,     \* sources.list, as pkgSourceList has it
  ListFiles,     \* ListFiles[r]: what may come for the list of r: lines, none if there is no such file
  Fanout,        \* values of Acquire::Mirror::Fanout
  FanoutLimit    \* Acquire::Mirror::Fanout-Limit

VARIABLES
  mirror_todo,     \* requests still to come
  mirror_asked,    \* lists asked for with 351 and not answered
  mirror_queue,    \* Queue: files, and the list just received
  msgCache,        \* the files whose message is kept
  sourceslist,
  mirrorfilestate, \* of each list: [state, list, redirected, assigned]
  mirror_answers,  \* of each file, the answers: [kind, repo, mirrors, told]
  sqrtfanout,
  misfailed        \* Fail() was called for a request that was not the head of the queue

mirrorvars == <<mirror_todo, mirror_asked, mirror_queue, msgCache, sourceslist, mirrorfilestate, mirror_answers, sqrtfanout, misfailed>>

Unknown == [state |-> "unknown", list |-> <<>>, redirected |-> 0, assigned |-> <<>>]

-----------------------------------------------------------------------------
(* Parts of the handlers work on a record of the variables they change.    *)
Now == [queue |-> mirror_queue, cache |-> msgCache, files |-> mirrorfilestate, answers |-> mirror_answers]
Become(s) == mirror_queue' = s.queue /\ msgCache' = s.cache /\ mirrorfilestate' = s.files /\ mirror_answers' = s.answers

Answer(s, f, a) == [s EXCEPT !.answers[f] = Append(@, a), !.queue = SelectSeq(@, LAMBDA x : x # f)]

\* Fail() is about the head of the queue
Fail(s) == Answer(s, Head(s.queue), [kind |-> "fail", repo |-> "", mirrors |-> <<>>, told |-> TRUE])

\* ShuffleAndSortMirrors: any order within a priority
ShuffleAndSortMirrors(mirrors) ==
  {q \in {[i \in 1..Len(mirrors) |-> mirrors[p[i]]] : p \in Permutations(1..Len(mirrors))} :
     \A i \in 1..Len(q) - 1 : q[i].priority <= q[i + 1].priority}

\* the mirrors whose tags do not exclude the file; without a message nothing is excluded
Possible(list, f, told) ==
  SelectSeq(list, LAMBDA m : ~told \/ TargetArch[f] = "" \/ m.arch = {} \/ TargetArch[f] \in m.arch)

\* how many mirrors are used for the n-th redirection: the square root of n, but at least three, if there are so many
Tier(poss) == CHOOSE k \in 1..Len(poss) : /\ \A i \in 1..k : poss[i].priority = poss[1].priority
                                          /\ k < Len(poss) => poss[k + 1].priority # poss[1].priority
Least(a, b) == IF a < b THEN a ELSE b
Sqrt(n) == CHOOSE k \in 0..n : k * k <= n /\ (k + 1) * (k + 1) > n
Active(n, poss) ==
  LET most == IF FanoutLimit > 0 THEN Least(FanoutLimit, Tier(poss)) ELSE Tier(poss)
      least == Least(3, most)
  IN IF Sqrt(n) < least THEN least ELSE Least(Sqrt(n), most)
Assigned(info, m) == IF m.uri \in DOMAIN info.assigned THEN info.assigned[m.uri] ELSE 0
Chosen(info, poss, active) ==
  CHOOSE i \in 1..active : \A j \in 1..active :
    Assigned(info, poss[i]) < Assigned(info, poss[j]) \/ (Assigned(info, poss[i]) = Assigned(info, poss[j]) /\ i <= j)

\* RedirectItem: the states it may lead to
Redirected(s, r, f, told, order, info) ==
  Answer([s EXCEPT !.files[r] = info], f, [kind |-> "redirect", repo |-> r, mirrors |-> order, told |-> told])
FannedOut(s, r, f, told, poss, at) ==
  LET info == s.files[r]
      uri == poss[at].uri
      new == [info EXCEPT !.redirected = @ + 1,
                          !.assigned = [u \in DOMAIN @ \cup {uri} |-> IF u = uri THEN Assigned(info, poss[at]) + 1 ELSE @[u]]]
  IN {Redirected(s, r, f, told, <<poss[at]>> \o rest, new) : rest \in ShuffleAndSortMirrors(RemoveAt(poss, at))}
RedirectItem(s, r, f, told) ==
  LET poss == Possible(s.files[r].list, f, told)
  IN IF ~sqrtfanout THEN {Redirected(s, r, f, told, order, s.files[r]) : order \in ShuffleAndSortMirrors(poss)}
     ELSE IF poss = <<>> THEN {Redirected(s, r, f, told, <<>>, s.files[r])}
     ELSE FannedOut(s, r, f, told, poss, Chosen(s.files[r], poss, Active(s.files[r].redirected + 1, poss)))

-----------------------------------------------------------------------------
(* MirrorListFileReceived. What waits for another list goes behind the one *)
(* that was received, also what is below a longer base that is still asked *)
(* for; the rest is redirected, or fails.                                  *)
Longer(r) == {b \in DOMAIN Repos : b # r /\ r \in Repos[b].below /\ mirrorfilestate[b].state = "REQUESTED"}
\* mutant: everything that waits is taken for a request of this list
Concerned_All(f, r) == TRUE
Concerned(f, r) == r \in Below[f] /\ Below[f] \cap Longer(r) = {}

Handle(s, r, f) == IF s.files[r].state = "FAILED" THEN {Fail([s EXCEPT !.queue = <<f>> \o SelectSeq(@, LAMBDA x : x # f)])}
                   ELSE RedirectItem(s, r, f, f \in s.cache)
DealWithPendingItems(s, r) ==
  LET later == SelectSeq(s.queue, LAMBDA f : ~Concerned(f, r))
      done == FoldLeft(LAMBDA states, f : UNION {Handle(t, r, f) : t \in states}, {s}, SelectSeq(s.queue, LAMBDA f : Concerned(f, r)))
  IN {[t EXCEPT !.queue = later] : t \in done}

\* the lines taken from a list file: no local mirrors in a list that came from elsewhere
Lines(r, file) == SelectSeq(file, LAMBDA m : Repos[r].online => ~m.local)

MirrorListFileReceived(r) ==
  /\ r \in mirror_asked /\ mirror_asked' = mirror_asked \ {r}
  /\ \E file \in ListFiles[r] :
       IF Lines(r, file) = <<>>
       THEN \E s \in DealWithPendingItems([Now EXCEPT !.files[r].state = "FAILED"], r) : Become(s)
       ELSE \E list \in IF sqrtfanout THEN ShuffleAndSortMirrors(Lines(r, file)) ELSE {Lines(r, file)} :
              \E s \in DealWithPendingItems([Now EXCEPT !.files[r].state = "AVAILABLE", !.files[r].list = list], r) :
                Become([s EXCEPT !.cache = {}])
  /\ UNCHANGED <<mirror_todo, sourceslist, sqrtfanout, misfailed>>

-----------------------------------------------------------------------------
(* URIAcquire. GetMirrorFileURI: the bases are tried in the order of       *)
(* sourceslist, to which the message's is added, and which is filled from  *)
(* sources.list, longest first, only if it is empty.                       *)
ByLength(set) == CHOOSE q \in SetToSeqs(set) :
                   \A i \in 1..Len(q) - 1 : Repos[q[i]].len >= Repos[q[i + 1]].len
Sources(f) ==
  LET known == IF TargetRepo[f] = "" \/ TargetRepo[f] \in ToSet(sourceslist) THEN sourceslist ELSE Append(sourceslist, TargetRepo[f])
  IN IF known = <<>> THEN ByLength(InSources) ELSE known
GetMirrorFileURI(f, known) == SelectSeq(known, LAMBDA r : r \in Below[f])

Ask(s, f, r) ==
  /\ mirror_asked' = mirror_asked \cup {r} /\ misfailed' = misfailed
  /\ Become([s EXCEPT !.cache = @ \cup {f}, !.files[r].state = "REQUESTED"])
Wait(s, f) == /\ Become([s EXCEPT !.cache = @ \cup {f}]) /\ UNCHANGED <<mirror_asked, misfailed>>
FailHead(s, f) == Become(Fail(s)) /\ misfailed' = (misfailed \/ Head(s.queue) # f) /\ UNCHANGED mirror_asked
Redirect(s, r, f) == /\ \E t \in RedirectItem(s, r, f, TRUE) : Become(t)
                     /\ UNCHANGED <<mirror_asked, misfailed>>

URIAcquire(f) ==
  /\ f \in mirror_todo /\ mirror_todo' = mirror_todo \ {f}
  /\ sourceslist' = Sources(f) /\ UNCHANGED sqrtfanout
  /\ \E s \in {[Now EXCEPT !.queue = Append(@, f)]}, found \in {GetMirrorFileURI(f, Sources(f))} :
       \/ found = <<>> /\ FailHead(s, f)
       \/ \E r \in {x \in DOMAIN Repos : found # <<>> /\ x = found[1]} :
            \/ mirrorfilestate[r].state = "unknown" /\ Ask(s, f, r)
            \/ mirrorfilestate[r].state = "REQUESTED" /\ Wait(s, f)
            \/ mirrorfilestate[r].state = "FAILED" /\ FailHead(s, f)
            \/ mirrorfilestate[r].state = "AVAILABLE" /\ Redirect(s, r, f)

Init ==
  /\ mirror_todo = Requests /\ mirror_asked = {} /\ mirror_queue = <<>> /\ msgCache = {} /\ sourceslist = <<>>
  /\ mirrorfilestate = [r \in DOMAIN Repos |-> Unknown] /\ mirror_answers = [f \in Requests |-> <<>>]
  /\ sqrtfanout \in Fanout /\ misfailed = FALSE

Next == (\E f \in Requests : URIAcquire(f)) \/ (\E r \in DOMAIN Repos : MirrorListFileReceived(r))

Spec == Init /\ [][Next]_mirrorvars

-----------------------------------------------------------------------------
(* Whatever lists are asked for at the same time, come in which order and  *)
(* fail: a request is answered once, and is answered when no list is asked *)
(* for any more (unless Fail() hit another one, mirror.cc:468); it fails   *)
(* only if a list it is below failed, or it does not say to which          *)
(* repository it belongs; a redirection goes to mirrors of a               *)
(* list it is below, to all that have the file's architecture and to no    *)
(* others (as long as its message was not forgotten, mirror.cc:344), first *)
(* to one of the best priority, then in the order of the priorities; and   *)
(* the load of the mirrors that are used differs by at most one.           *)
Answered(f) == mirror_answers[f] # <<>>
Fair(r) ==
  LET info == mirrorfilestate[r]
      free == {m \in ToSet(info.list) : m.arch = {}}
  IN (sqrtfanout /\ free = ToSet(info.list) /\ info.redirected < 16) =>
       LET used == {m \in free : Assigned(info, m) > 0}
       IN \A m, n \in used : Assigned(info, m) - Assigned(info, n) <= 1
RedirectRight(f, a) ==
  /\ a.repo \in Below[f]
  /\ ToSet(a.mirrors) = ToSet(Possible(mirrorfilestate[a.repo].list, f, a.told))
  /\ Len(a.mirrors) = Cardinality(ToSet(a.mirrors))
  /\ \A i \in 1..Len(a.mirrors) - 1 : a.mirrors[i].priority <= a.mirrors[i + 1].priority
MirrorsTried ==
  /\ \A f \in Requests :
       /\ Len(mirror_answers[f]) <= 1
       /\ ~misfailed /\ mirror_asked = {} /\ f \notin mirror_todo => Answered(f)
       /\ Answered(f) => LET a == mirror_answers[f][1]
                         IN IF a.kind = "redirect" THEN RedirectRight(f, a)
                            ELSE misfailed \/ TargetRepo[f] = "" \/ \E r \in Below[f] : mirrorfilestate[r].state = "FAILED"
  /\ \A r \in DOMAIN Repos : Fair(r)
=============================================================================
