---------------------------- MODULE LocksProofs -----------------------------
(***************************************************************************)
(* LocksProtect of Locks, for any number of processes and any commands and *)
(* timeouts.                                                               *)
(*                                                                         *)
(* What carries PlanFresh is about descriptors: each file is open at most  *)
(* once in a process (Ok), a lock file that is open is a lock that is      *)
(* held, and at each point of a command the descriptors it needs are open  *)
(* under the numbers it remembers, also after numbers were used again      *)
(* (Stage). From the moment the plan is made the frontend lock is held, so *)
(* that nobody else writes unless apt is told so in intruded (Fresh).      *)
(*                                                                         *)
(* OwnDescriptors holds without locks too, when GetLock makes descriptors  *)
(* up: each number that is open is remembered by the one who will close    *)
(* it, for what it leads to (Mine).                                        *)
(***************************************************************************)
EXTENDS Locks, FiniteSetTheorems, TLAPS, WellFoundedInduction

\* the programs are told apart, and timeouts are numbers
Setup == Apts \cap {"dpkg", "tool"} = {} /\ \A a \in Apts : Timeouts[a] \subseteq Int

Things == {"none", "stdin", "pipe", "log"} \cup Files
Fds == 0..MaxFd
Holders == {Nobody} \cup {<<x>> : x \in Apts \cup {"dpkg", "tool"}} \cup {<<a, "dpkg">> : a \in Apts}

Childs == {"none", "starts", "runs", "wrote", "done", "failed"}

Points == {"start", "inner", "checkupdates", "plan", "lockarchives", "fetch", "unlockinner", "openlog", "dpkg", "cleaning",
           "end", "over"}

Processes ==
  [pc : Points, cmd : UNION {Commands[a] : a \in Apts}, FrontendLockFD : -1..MaxFd, LockFD : -1..MaxFd,
   LockCount : Int, acqLockFD : -1..MaxFd, Timeout : Int, timeout : Int, i : Int, slept : Int, plan : Int, swaps : Int]

TypeInv ==
  /\ fds \in [Apts -> [Fds -> Things]] /\ holder \in [Files -> Holders]
  /\ apt \in [Apts -> Processes] /\ dpkg \in [Apts -> Childs] /\ others \in [{"dpkg", "tool"} -> {"none", "frontend", "runs"}]
  /\ dpkg_status \in Int /\ foreign \in BOOLEAN

\* no file is open twice, and a lock file that is open is locked
Once(t) == \A m, n \in Fds : t[m] = t[n] /\ t[m] # "none" => m = n
Held(t, h, a) == \A n \in Fds : t[n] \in Files => h[t[n]] = <<a>>

Is(t, n, what) == n \in Fds /\ t[n] = what
Only(t, things) == \A n \in Fds : t[n] \in things

Installs(p) == p.pc \in {"lockarchives", "unlockinner", "openlog", "dpkg"} \/ (p.pc = "fetch" /\ p.cmd = "install")
UnderLock(p) == p.pc \in {"checkupdates", "plan", "lockarchives"}

\* what a process has open at each point, and under which numbers
Stage(p, t) ==
  /\ UnderLock(p) \/ p.pc = "inner" => p.cmd \in {"install", "download"}
  /\ p.pc \in {"unlockinner", "openlog", "dpkg"} => p.cmd = "install"
  /\ UnderLock(p) \/ p.pc \in {"start", "inner"} => p.acqLockFD = -1
  /\ Installs(p) \/ UnderLock(p) \/ p.pc = "inner" => Is(t, p.FrontendLockFD, "lock-frontend")
  /\ UnderLock(p) => Is(t, p.LockFD, "lock")
  /\ p.pc \in {"unlockinner", "fetch"} /\ p.cmd = "install" =>
       Is(t, p.LockFD, "lock") \/ (p.LockFD = -1 /\ Only(t, Things \ {"lock"}))
  /\ p.pc \in {"fetch", "unlockinner", "openlog", "dpkg"} /\ p.cmd \in {"install", "download"} => Is(t, p.acqLockFD, "archives")
  /\ p.pc = "start" => Only(t, {"none", "stdin"})
  /\ p.pc = "inner" => Only(t, {"none", "stdin", "lock-frontend"})
  /\ UnderLock(p) => Only(t, {"none", "stdin", "lock-frontend", "lock"})
  /\ p.pc = "fetch" => Only(t, Things \ {"pipe", "log"})
  /\ p.pc = "unlockinner" => Only(t, Things \ {"log"})
  /\ p.pc = "openlog" => Only(t, Things \ {"lock", "log"})
  /\ p.pc = "dpkg" => Only(t, Things \ {"lock"})
  /\ p.pc = "cleaning" => Only(t, Things \ {"lists"})

Children ==
  \A a \in Apts :
    /\ dpkg[a] \in {"runs", "wrote"} => holder["lock"] = <<a, "dpkg">>
    /\ apt[a].pc \notin {"dpkg", "over"} => dpkg[a] = "none"

Strangers ==
  /\ \A o \in {"dpkg", "tool"} : others[o] = "runs" => holder["lock"] = <<o>>
  /\ others["dpkg"] # "none" => holder["lock-frontend"] = <<"dpkg">>

Fresh ==
  \A a \in Apts : Installs(apt[a]) /\ a \notin intruded =>
    /\ apt[a].plan = dpkg_status
    /\ \A b \in Apts \ {a} : dpkg[b] # "runs"

Tables == \A a \in Apts : Once(fds[a]) /\ Held(fds[a], holder, a) /\ Stage(apt[a], fds[a])

Inv == locking = "locks" => TypeInv /\ Tables /\ Children /\ Strangers /\ Fresh

-----------------------------------------------------------------------------
(* Descriptor tables: what Close, GetLock and the opening of other files   *)
(* do to the table of a process and to the locks.                          *)

States == [t : [Fds -> Things], h : [Files -> Holders], f : BOOLEAN]
Ok(s, a) == Once(s.t) /\ Held(s.t, s.h, a)

\* nobody else's lock is touched
Kept(s, u, a) == \A f \in Files : u.h[f] = s.h[f] \/ {u.h[f], s.h[f]} \subseteq {Nobody, <<a>>}

\* what is open without being a lock
Plain == {"pipe", "log"}

Absent(t, what) == \A n \in Fds : t[n] # what

\* Pipes and logs are such files.
LEMMA PlainAre == "pipe" \in Plain /\ "log" \in Plain
  BY DEF Plain

\* Steps of a process that touch nobody else's lock can follow each other.
LEMMA KeptTrans ==
  ASSUME NEW a, NEW s, NEW u, NEW w, Kept(s, u, a), Kept(u, w, a)
  PROVE  Kept(s, w, a)
  BY DEF Kept

\* close(n) frees n only, and with it the lock of the file n stood for.
LEMMA Closed ==
  ASSUME NEW a, NEW s \in States, Ok(s, a), NEW n \in -1..MaxFd, NEW what, NEW c, c = Close(s, a, n, what)
  PROVE  /\ c \in States /\ Ok(c, a) /\ Kept(s, c, a)
         /\ \A m \in Fds : c.t[m] = IF m = n THEN "none" ELSE s.t[m]
  <1> USE DEF MaxFd, Fds
  <1>1. CASE n = -1 \/ s.t[n] = "none"
    <2>1. c = s
      BY <1>1 DEF Close
    <2> QED BY <1>1, <2>1 DEF States, Kept
  <1>2. CASE n # -1 /\ s.t[n] # "none"
    <2>1. n \in Fds /\ s.t \in [Fds -> Things] /\ s.h \in [Files -> Holders]
      BY <1>2 DEF States
    <2>2. c = [t |-> [s.t EXCEPT ![n] = "none"],
               h |-> [f \in Files |-> IF f = s.t[n] /\ s.h[f] = <<a>> THEN Nobody ELSE s.h[f]],
               f |-> s.f \/ s.t[n] \notin {what, "stdin"}]
      BY <1>2 DEF Close
    <2>3. c.t = [s.t EXCEPT ![n] = "none"] /\ c.h = [f \in Files |-> IF f = s.t[n] /\ s.h[f] = <<a>> THEN Nobody ELSE s.h[f]]
      BY <2>2
    <2>4. \A m \in Fds : c.t[m] = IF m = n THEN "none" ELSE s.t[m]
      BY <2>1, <2>3
    <2>5. c \in States
      <3>1. c.t \in [Fds -> Things]
        BY <2>1, <2>3 DEF Things
      <3>2. c.h \in [Files -> Holders]
        BY <2>1, <2>3 DEF Holders
      <3>3. c.f \in BOOLEAN
        BY <2>2 DEF States
      <3> QED BY <2>2, <3>1, <3>2, <3>3 DEF States
    <2>6. Once(c.t)
      BY <2>4 DEF Once, Ok
    <2>7. Held(c.t, c.h, a)
      <3> SUFFICES ASSUME NEW m \in Fds, c.t[m] \in Files
                   PROVE  c.h[c.t[m]] = <<a>>
        BY DEF Held
      <3>1. m # n /\ c.t[m] = s.t[m]
        BY <2>4 DEF Files
      <3>2. s.t[m] # s.t[n]
        BY <2>1, <3>1, <1>2 DEF Ok, Once
      <3>3. s.h[s.t[m]] = <<a>>
        BY <3>1 DEF Ok, Held
      <3> QED BY <2>3, <3>1, <3>2, <3>3
    <2>8. Kept(s, c, a)
      BY <2>3 DEF Kept
    <2> QED BY <2>4, <2>5, <2>6, <2>7, <2>8 DEF Ok
  <1> QED BY <1>1, <1>2

\* A set with one more element has one more.
LEMMA OneMore ==
  ASSUME NEW S, IsFiniteSet(S), NEW x, x \notin S, NEW k \in Nat, Cardinality(S) = k
  PROVE  IsFiniteSet(S \cup {x}) /\ Cardinality(S \cup {x}) = k + 1
  BY FS_AddElement

\* Nothing is open twice, so a process that lacks one of the seven kinds of files has a number left.
LEMMA FreeSlot ==
  ASSUME NEW t \in [Fds -> Things], Once(t), NEW what \in Things \ {"none"}, Absent(t, what)
  PROVE  LowestFree(t) \in Fds /\ t[LowestFree(t)] = "none"
  <1>1. PICK n \in Fds : t[n] = "none"
    <2> SUFFICES ASSUME \A n \in Fds : t[n] # "none" PROVE FALSE
      OBVIOUS
    <2> DEFINE T6 == {"stdin", "pipe", "log", "lock-frontend", "lock", "archives", "lists"}
    <2>1. IsFiniteSet(T6) /\ Cardinality(T6) = 7
      <3>1. IsFiniteSet({"stdin"}) /\ Cardinality({"stdin"}) = 1
        BY FS_Singleton
      <3>2. IsFiniteSet({"stdin", "pipe"}) /\ Cardinality({"stdin", "pipe"}) = 2
        <4>1. IsFiniteSet({"stdin"} \cup {"pipe"}) /\
              Cardinality({"stdin"} \cup {"pipe"}) = 2
          BY <3>1, OneMore, 1 + 1 = 2
        <4>2. {"stdin"} \cup {"pipe"} = {"stdin", "pipe"}
          OBVIOUS
        <4> QED BY <4>1, <4>2
      <3>3. IsFiniteSet({"stdin", "pipe", "log"}) /\ Cardinality({"stdin", "pipe", "log"}) = 3
        <4>1. IsFiniteSet({"stdin", "pipe"} \cup {"log"}) /\
              Cardinality({"stdin", "pipe"} \cup {"log"}) = 3
          BY <3>2, OneMore, 2 + 1 = 3
        <4>2. {"stdin", "pipe"} \cup {"log"} = {"stdin", "pipe", "log"}
          OBVIOUS
        <4> QED BY <4>1, <4>2
      <3>4. IsFiniteSet({"stdin", "pipe", "log", "lock-frontend"}) /\ Cardinality({"stdin", "pipe", "log", "lock-frontend"}) = 4
        <4>1. IsFiniteSet({"stdin", "pipe", "log"} \cup {"lock-frontend"}) /\
              Cardinality({"stdin", "pipe", "log"} \cup {"lock-frontend"}) = 4
          BY <3>3, OneMore, 3 + 1 = 4
        <4>2. {"stdin", "pipe", "log"} \cup {"lock-frontend"} = {"stdin", "pipe", "log", "lock-frontend"}
          OBVIOUS
        <4> QED BY <4>1, <4>2
      <3>5. IsFiniteSet({"stdin", "pipe", "log", "lock-frontend", "lock"}) /\ Cardinality({"stdin", "pipe", "log", "lock-frontend", "lock"}) = 5
        <4>1. IsFiniteSet({"stdin", "pipe", "log", "lock-frontend"} \cup {"lock"}) /\
              Cardinality({"stdin", "pipe", "log", "lock-frontend"} \cup {"lock"}) = 5
          BY <3>4, OneMore, 4 + 1 = 5
        <4>2. {"stdin", "pipe", "log", "lock-frontend"} \cup {"lock"} = {"stdin", "pipe", "log", "lock-frontend", "lock"}
          OBVIOUS
        <4> QED BY <4>1, <4>2
      <3>6. IsFiniteSet({"stdin", "pipe", "log", "lock-frontend", "lock", "archives"}) /\ Cardinality({"stdin", "pipe", "log", "lock-frontend", "lock", "archives"}) = 6
        <4>1. IsFiniteSet({"stdin", "pipe", "log", "lock-frontend", "lock"} \cup {"archives"}) /\
              Cardinality({"stdin", "pipe", "log", "lock-frontend", "lock"} \cup {"archives"}) = 6
          BY <3>5, OneMore, 5 + 1 = 6
        <4>2. {"stdin", "pipe", "log", "lock-frontend", "lock"} \cup {"archives"} = {"stdin", "pipe", "log", "lock-frontend", "lock", "archives"}
          OBVIOUS
        <4> QED BY <4>1, <4>2
      <3> DEFINE S == {"stdin", "pipe", "log", "lock-frontend", "lock", "archives"}
      <3>7. "lists" \notin S /\ S \cup {"lists"} = T6
        OBVIOUS
      <3> HIDE DEF S, T6
      <3>8. IsFiniteSet(S \cup {"lists"}) /\ Cardinality(S \cup {"lists"}) = 7
        BY <3>6, <3>7, OneMore, 6 + 1 = 7 DEF S
      <3> QED BY <3>7, <3>8
    <2>2. T6 = Things \ {"none"}
      BY DEF Things, Files
    <2> HIDE DEF T6
    <2>3. IsFiniteSet(T6 \ {what}) /\ Cardinality(T6 \ {what}) = 6
      <3>1. what \in T6
        BY <2>2
      <3> QED BY <2>1, <3>1, FS_RemoveElement
    <2>4. IsFiniteSet(Fds) /\ Cardinality(Fds) = 7
      <3>1. IsFiniteSet(0..6) /\ Cardinality(0..6) = IF 0 > 6 THEN 0 ELSE 6 - 0 + 1
        BY FS_Interval, 0 \in Int, 6 \in Int
      <3> QED BY <3>1 DEF Fds, MaxFd
    <2>5. t \in [Fds -> T6 \ {what}]
      BY <2>2 DEF Absent
    <2>6. Cardinality(T6 \ {what}) < Cardinality(Fds)
      BY <2>3, <2>4
    <2>7. PICK x, y \in Fds : x # y /\ t[x] = t[y]
      BY <2>3, <2>4, <2>5, <2>6, FS_PigeonHole
    <2> QED BY <2>7 DEF Once
  <1> DEFINE F == {m \in Fds : t[m] = "none"}
  <1>2. F \in SUBSET Nat /\ F # {}
    BY <1>1 DEF Fds, MaxFd
  <1>3. IsWellFoundedOn(OpToRel(<, Nat), Nat)
    BY NatLessThanWellFounded
  <1>4. PICK x \in F : \A y \in F : ~(<<y, x>> \in OpToRel(<, Nat))
    BY <1>2, <1>3, WFMin
  <1>5. \A y \in F : ~(y < x)
    BY <1>2, <1>4 DEF OpToRel
  <1>6. \A m \in 0..x - 1 : t[m] # "none"
    <2> SUFFICES ASSUME NEW m \in 0..x - 1, t[m] = "none" PROVE FALSE
      OBVIOUS
    <2>1. x \in Fds
      BY <1>4
    <2>2. m \in Fds /\ m < x
      BY <2>1 DEF Fds, MaxFd
    <2> QED BY <1>5, <2>2
  <1> QED BY <1>4, <1>6 DEF LowestFree, Fds

\* A file that is not a lock file takes the lowest number and no lock.
LEMMA OpenedOther ==
  ASSUME NEW a, NEW s \in States, Ok(s, a), NEW what \in Plain, Absent(s.t, what), NEW u, u = Opened(s, what)
  PROVE  /\ u \in States /\ Ok(u, a) /\ u.h = s.h
         /\ \E n \in Fds : s.t[n] = "none" /\ \A m \in Fds : u.t[m] = IF m = n THEN what ELSE s.t[m]
  <1> DEFINE n == LowestFree(s.t)
  <1>1. s.t \in [Fds -> Things] /\ s.h \in [Files -> Holders] /\ what \in Things \ {"none"} /\ what \notin Files
    BY DEF States, Things, Files, Plain
  <1>2. n \in Fds /\ s.t[n] = "none"
    BY <1>1, FreeSlot DEF Ok
  <1> HIDE DEF n
  <1>3. u = [s EXCEPT !.t = [s.t EXCEPT ![n] = what]]
    BY DEF Opened, n, States
  <1>4. u.t = [s.t EXCEPT ![n] = what] /\ u.h = s.h /\ u.f = s.f
    BY <1>3 DEF States
  <1>5. u \in States
    BY <1>1, <1>2, <1>3 DEF States
  <1>6. \A m \in Fds : u.t[m] = IF m = n THEN what ELSE s.t[m]
    BY <1>1, <1>2, <1>4
  <1>7. Once(u.t)
    BY <1>1, <1>6 DEF Once, Ok, Absent
  <1>8. Held(u.t, u.h, a)
    BY <1>1, <1>4, <1>6 DEF Held, Ok
  <1> QED BY <1>2, <1>4, <1>5, <1>6, <1>7, <1>8 DEF Ok

\* GetLock of a file that is not open yet fails and changes nothing, or gives a new descriptor and the lock.
LEMMA GotLock ==
  ASSUME locking = "locks", NEW a \in Apts, NEW s \in States, Ok(s, a), NEW f \in Files, Absent(s.t, f),
         NEW g, g = GetLock(s, a, f)
  PROVE  /\ g.s \in States /\ Ok(g.s, a) /\ Kept(s, g.s, a)
         /\ \/ g.fd = -1 /\ g.s = s
            \/ g.fd \in Fds /\ s.t[g.fd] = "none" /\ \A m \in Fds : g.s.t[m] = IF m = g.fd THEN f ELSE s.t[m]
  <1>1. CASE ~Free(s, a, f)
    <2>1. g = [s |-> s, fd |-> -1]
      BY <1>1 DEF GetLock
    <2> QED BY <2>1 DEF Kept
  <1>2. CASE Free(s, a, f)
    <2> DEFINE n == LowestFree(s.t)
               u == g.s
    <2>1. s.t \in [Fds -> Things] /\ s.h \in [Files -> Holders] /\ f \in Things \ {"none"} /\ s.h[f] \in {Nobody, <<a>>}
      BY <1>2 DEF States, Things, Files, Free
    <2>2. n \in Fds /\ s.t[n] = "none"
      BY <2>1, FreeSlot DEF Ok
    <2>3. g = [s |-> [Opened(s, f) EXCEPT !.h[f] = <<a>>], fd |-> n]
      BY <1>2 DEF GetLock
    <2> HIDE DEF n
    <2>4. Opened(s, f) = [t |-> [s.t EXCEPT ![n] = f], h |-> s.h, f |-> s.f]
      BY DEF Opened, n, States
    <2>5. u = [t |-> [s.t EXCEPT ![n] = f], h |-> [s.h EXCEPT ![f] = <<a>>], f |-> s.f]
      BY <2>3, <2>4
    <2>6. u.t = [s.t EXCEPT ![n] = f] /\ u.h = [s.h EXCEPT ![f] = <<a>>] /\ g.fd = n
      BY <2>3, <2>5
    <2>7. u \in States
      <3>1. <<a>> \in Holders
        BY DEF Holders
      <3>2. s.f \in BOOLEAN
        BY DEF States
      <3> QED BY <2>1, <2>2, <2>5, <3>1, <3>2 DEF States
    <2> HIDE DEF u
    <2>8. \A m \in Fds : u.t[m] = IF m = n THEN f ELSE s.t[m]
      BY <2>1, <2>2, <2>6
    <2>9. \A k \in Files : u.h[k] = IF k = f THEN <<a>> ELSE s.h[k]
      BY <2>1, <2>6
    <2>10. Once(u.t)
      BY <2>1, <2>8 DEF Once, Ok, Absent
    <2>11. Held(u.t, u.h, a)
      BY <2>8, <2>9 DEF Held, Ok
    <2>12. Kept(s, u, a)
      BY <2>1, <2>9 DEF Kept
    <2> QED BY <2>2, <2>6, <2>7, <2>8, <2>10, <2>11, <2>12 DEF Ok, u
  <1> QED BY <1>1, <1>2

\* CloseLog and Shutdown close what is no lock.
Dropped(s, what) == [s EXCEPT !.t = [n \in 0..MaxFd |-> IF s.t[n] = what THEN "none" ELSE s.t[n]]]

\* The table is as before without the descriptors of that kind, and no lock changes.
LEMMA DroppedOk ==
  ASSUME NEW a, NEW s \in States, Ok(s, a), NEW what \in Plain, NEW u, u = Dropped(s, what)
  PROVE  /\ u \in States /\ Ok(u, a) /\ u.h = s.h
         /\ \A m \in Fds : u.t[m] = IF s.t[m] = what THEN "none" ELSE s.t[m]
  <1>1. s.t \in [Fds -> Things] /\ s.h \in [Files -> Holders] /\ what \notin Files /\ "none" \in Things
    BY DEF States, Things, Files, Plain
  <1>2. u.t = [n \in Fds |-> IF s.t[n] = what THEN "none" ELSE s.t[n]] /\ u.h = s.h /\ u \in States
    BY <1>1 DEF Dropped, States, Fds
  <1>3. \A m \in Fds : u.t[m] = IF s.t[m] = what THEN "none" ELSE s.t[m]
    BY <1>2
  <1>4. Once(u.t)
    BY <1>3 DEF Once, Ok
  <1>5. Held(u.t, u.h, a)
    BY <1>2, <1>3 DEF Held, Ok, Files
  <1> QED BY <1>2, <1>3, <1>4, <1>5 DEF Ok

-----------------------------------------------------------------------------
(* A step of apt itself.                                                   *)

Parts == TypeInv /\ Tables /\ Children /\ Strangers /\ Fresh

\* The names of the holders of a lock are told apart.
LEMMA HoldersDiffer ==
  ASSUME NEW x, NEW y
  PROVE  /\ <<x>> # Nobody /\ <<x, "dpkg">> # Nobody
         /\ <<x>> # <<y, "dpkg">>
         /\ <<x>> = <<y>> => x = y
         /\ <<x, "dpkg">> = <<y, "dpkg">> => x = y
  BY DEF Nobody

\* While a process is between the plan and the end of its dpkg, it has the frontend lock.
LEMMA HasFrontend ==
  ASSUME Tables, NEW a \in Apts, Installs(apt[a])
  PROVE  holder["lock-frontend"] = <<a>>
  <1>1. Is(fds[a], apt[a].FrontendLockFD, "lock-frontend")
    BY DEF Tables, Stage
  <1> QED BY <1>1 DEF Is, Tables, Held, Files

\* What a step of process a has to keep so that everything is kept: its own descriptors, and the plan.
LEMMA AptStep ==
  ASSUME Setup, Parts, NEW a \in Apts,
         NEW s \in States, Ok(s, a), Kept(Now(a), s, a), Keep(a, s),
         NEW r \in Processes, Go(a, r), Stage(r, s.t),
         NEW d \in Childs, dpkg' = [dpkg EXCEPT ![a] = d], d \in {dpkg[a], "none", "starts"},
         r.pc \notin {"dpkg", "over"} => d = "none",
         Installs(r) => (Installs(apt[a]) /\ r.plan = apt[a].plan) \/ (apt[a].pc = "plan" /\ r.plan = dpkg_status),
         UNCHANGED <<others, dpkg_status, intruded>>
  PROVE  Parts'
  <1> USE DEF Parts
  <1>1. /\ fds \in [Apts -> [Fds -> Things]] /\ apt \in [Apts -> Processes] /\ dpkg \in [Apts -> Childs]
        /\ holder \in [Files -> Holders]
    BY DEF TypeInv
  <1>2. /\ fds' = [fds EXCEPT ![a] = s.t] /\ holder' = s.h /\ foreign' = s.f /\ apt' = [apt EXCEPT ![a] = r]
        /\ s.t \in [Fds -> Things] /\ s.h \in [Files -> Holders] /\ s.f \in BOOLEAN
    BY DEF Keep, Go, States
  <1>3. TypeInv'
    BY <1>1, <1>2 DEF TypeInv
  <1>4. \A f \in Files : holder'[f] = holder[f] \/ {holder'[f], holder[f]} \subseteq {Nobody, <<a>>}
    BY <1>2 DEF Kept, Now
  <1>5. \A f \in Files, b \in Apts \ {a} : holder[f] = <<b>> => holder'[f] = <<b>>
    BY <1>4, HoldersDiffer
  <1>6. \A b \in Apts : holder["lock"] = <<b, "dpkg">> => holder'["lock"] = <<b, "dpkg">>
    BY <1>4, HoldersDiffer DEF Files
  <1>7. \A o \in {"dpkg", "tool"}, f \in Files : holder[f] = <<o>> => holder'[f] = <<o>>
    BY <1>4, HoldersDiffer DEF Setup
  <1>8. Tables'
    <2> SUFFICES ASSUME NEW b \in Apts
                 PROVE  Once(fds'[b]) /\ Held(fds'[b], holder', b) /\ Stage(apt'[b], fds'[b])
      BY DEF Tables
    <2>1. CASE b = a
      <3>1. fds'[b] = s.t /\ apt'[b] = r
        BY <1>1, <1>2, <2>1
      <3> QED BY <1>2, <2>1, <3>1 DEF Ok
    <2>2. CASE b # a
      <3>1. fds'[b] = fds[b] /\ apt'[b] = apt[b]
        BY <1>1, <1>2, <2>2
      <3>2. Once(fds[b]) /\ Held(fds[b], holder, b) /\ Stage(apt[b], fds[b])
        BY DEF Tables
      <3>3. Held(fds[b], holder', b)
        BY <1>5, <2>2, <3>2 DEF Held
      <3> QED BY <3>1, <3>2, <3>3
    <2> QED BY <2>1, <2>2
  <1>9. Children'
    <2> SUFFICES ASSUME NEW b \in Apts
                 PROVE  /\ dpkg'[b] \in {"runs", "wrote"} => holder'["lock"] = <<b, "dpkg">>
                        /\ apt'[b].pc \notin {"dpkg", "over"} => dpkg'[b] = "none"
      BY DEF Children
    <2>1. CASE b = a
      BY <1>1, <1>2, <1>6, <2>1 DEF Children
    <2>2. CASE b # a
      BY <1>1, <1>2, <1>6, <2>2 DEF Children
    <2> QED BY <2>1, <2>2
  <1>10. Strangers'
    BY <1>7 DEF Strangers, Files
  <1>11. Fresh'
    <2> SUFFICES ASSUME NEW b \in Apts, Installs(apt'[b]), b \notin intruded
                 PROVE  /\ apt'[b].plan = dpkg_status
                        /\ \A c \in Apts \ {b} : dpkg'[c] # "runs"
      BY DEF Fresh
    <2>1. ASSUME NEW c \in Apts, dpkg[c] # "runs"
          PROVE  dpkg'[c] # "runs"
      BY <1>1, <2>1
    <2>2. CASE b # a
      <3>1. apt'[b] = apt[b]
        BY <1>1, <1>2, <2>2
      <3> QED BY <2>1, <3>1 DEF Fresh
    <2>3. CASE b = a /\ Installs(apt[a]) /\ r.plan = apt[a].plan
      <3>1. apt'[b] = r
        BY <1>1, <1>2, <2>3
      <3> QED BY <2>1, <2>3, <3>1 DEF Fresh
    <2>4. CASE b = a /\ apt[a].pc = "plan" /\ r.plan = dpkg_status
      <3>1. apt'[b] = r
        BY <1>1, <1>2, <2>4
      <3>2. Is(fds[a], apt[a].LockFD, "lock")
        BY <2>4 DEF Tables, Stage, UnderLock
      <3>3. holder["lock"] = <<a>>
        BY <3>2 DEF Is, Tables, Held, Files
      <3>4. \A c \in Apts \ {b} : dpkg[c] # "runs"
        BY <3>3, HoldersDiffer DEF Children
      <3> QED BY <2>1, <2>4, <3>1, <3>4
    <2>5. b = a => Installs(r)
      BY <1>1, <1>2
    <2> QED BY <2>2, <2>3, <2>4, <2>5
  <1> QED BY <1>3, <1>8, <1>9, <1>10, <1>11

\* Where a step of a process begins.
LEMMA Begins ==
  ASSUME Parts, NEW a \in Apts
  PROVE  /\ Now(a) \in States /\ Ok(Now(a), a) /\ Kept(Now(a), Now(a), a)
         /\ Now(a).t = fds[a] /\ Now(a).h = holder /\ Now(a).f = foreign
         /\ apt[a] \in Processes /\ Stage(apt[a], fds[a]) /\ dpkg[a] \in Childs
         /\ apt[a].pc \notin {"dpkg", "over"} => dpkg[a] = "none"
  <1>1. fds[a] \in [Fds -> Things] /\ holder \in [Files -> Holders] /\ foreign \in BOOLEAN
    BY DEF Parts, TypeInv
  <1>2. Now(a) \in States /\ Now(a).t = fds[a] /\ Now(a).h = holder /\ Now(a).f = foreign
    BY <1>1 DEF Now, States
  <1>3. Ok(Now(a), a)
    BY <1>2 DEF Ok, Parts, Tables
  <1>4. Kept(Now(a), Now(a), a)
    BY DEF Kept
  <1>5. apt[a] \in Processes /\ dpkg[a] \in Childs
    BY DEF Parts, TypeInv
  <1> QED BY <1>2, <1>3, <1>4, <1>5 DEF Parts, Tables, Children

\* AptStep for the steps before and after dpkg.
LEMMA AptOnly ==
  ASSUME Setup, Parts, NEW a \in Apts,
         NEW s \in States, Ok(s, a), Kept(Now(a), s, a), Keep(a, s),
         NEW r \in Processes, Go(a, r), Stage(r, s.t),
         r.pc # "over" => apt[a].pc \notin {"dpkg", "over"},
         Installs(r) => (Installs(apt[a]) /\ r.plan = apt[a].plan) \/ (apt[a].pc = "plan" /\ r.plan = dpkg_status),
         UNCHANGED Rest
  PROVE  Parts'
  <1>1. dpkg[a] \in Childs /\ (r.pc # "over" => dpkg[a] = "none")
    BY Begins
  <1>2. dpkg' = [dpkg EXCEPT ![a] = dpkg[a]]
    BY DEF Rest, Parts, TypeInv
  <1>3. UNCHANGED <<others, dpkg_status, intruded>>
    BY DEF Rest
  <1> QED BY <1>1, <1>2, <1>3, AptStep

\* Waiting for a lock only counts.
LEMMA Counts ==
  ASSUME NEW p \in Processes
  PROVE  /\ Slept(p) \in Processes /\ Left(p) \in Processes
         /\ \A q \in {Slept(p), Left(p)} :
              /\ q.pc = p.pc /\ q.cmd = p.cmd /\ q.FrontendLockFD = p.FrontendLockFD /\ q.LockFD = p.LockFD
              /\ q.acqLockFD = p.acqLockFD /\ q.plan = p.plan /\ q.LockCount = p.LockCount
  <1>1. p.i + 1 \in Int /\ p.slept + 1 \in Int /\ p.timeout - p.i \in Int /\ 0 \in Int
    BY DEF Processes
  <1>2. Slept(p) \in {p, [p EXCEPT !.i = p.i + 1, !.slept = p.slept + 1]}
    BY DEF Slept
  <1>3. Left(p) \in {p, [p EXCEPT !.timeout = p.timeout - p.i, !.i = 0]}
    BY DEF Left
  <1>4. Slept(p) \in Processes
    BY <1>1, <1>2 DEF Processes
  <1>5. Left(p) \in Processes
    BY <1>1, <1>3 DEF Processes
  <1>6. /\ Slept(p).pc = p.pc /\ Slept(p).cmd = p.cmd /\ Slept(p).FrontendLockFD = p.FrontendLockFD /\ Slept(p).LockFD = p.LockFD
        /\ Slept(p).acqLockFD = p.acqLockFD /\ Slept(p).plan = p.plan /\ Slept(p).LockCount = p.LockCount
    BY <1>2 DEF Processes
  <1>7. /\ Left(p).pc = p.pc /\ Left(p).cmd = p.cmd /\ Left(p).FrontendLockFD = p.FrontendLockFD /\ Left(p).LockFD = p.LockFD
        /\ Left(p).acqLockFD = p.acqLockFD /\ Left(p).plan = p.plan /\ Left(p).LockCount = p.LockCount
    BY <1>3 DEF Processes
  <1> QED BY <1>4, <1>5, <1>6, <1>7

\* Stage looks at these fields only.
LEMMA StageOf ==
  ASSUME NEW p, NEW q, NEW t, Stage(p, t), q.pc = p.pc, q.cmd = p.cmd, q.FrontendLockFD = p.FrontendLockFD,
         q.LockFD = p.LockFD, q.acqLockFD = p.acqLockFD
  PROVE  Stage(q, t)
  BY DEF Stage, Installs, UnderLock

\* At its end a process may have anything open.
LEMMA StageEnd ==
  ASSUME NEW p, NEW t, p.pc \in {"end", "over"}
  PROVE  Stage(p, t) /\ ~Installs(p)
  BY DEF Stage, Installs, UnderLock

\* The values the steps give to fields have the types of the fields.
LEMMA FieldValues ==
  /\ \A x \in {"start", "inner", "checkupdates", "plan", "lockarchives", "fetch", "unlockinner", "openlog", "dpkg", "cleaning",
              "end", "over"} : x \in Points
  /\ -1 \in -1..MaxFd /\ \A n \in Fds : n \in -1..MaxFd /\ n # -1
  BY DEF Points, MaxFd, Fds

\* The frontend lock is the first file apt opens; a failure leaves nothing open.
LEMMA LockFrontendStep ==
  ASSUME Setup, locking = "locks", Parts, NEW a \in Apts, LockFrontend(a)
  PROVE  Parts'
  <1> DEFINE g == GetLock(Now(a), a, "lock-frontend")
             p == apt[a]
             r == IF Waits(p, g) THEN Slept(p)
                  ELSE IF g.fd = -1 THEN [Slept(p) EXCEPT !.FrontendLockFD = -1, !.pc = "end"]
                  ELSE [Left(p) EXCEPT !.FrontendLockFD = g.fd, !.pc = "inner"]
  <1>1. p.pc = "start" /\ p.cmd \in {"install", "download"} /\ Keep(a, g.s) /\ Go(a, r) /\ UNCHANGED Rest
    BY DEF LockFrontend
  <1>2. /\ Now(a) \in States /\ Ok(Now(a), a) /\ Now(a).t = fds[a] /\ p \in Processes /\ Stage(p, fds[a])
    BY Begins
  <1>3. Only(fds[a], {"none", "stdin"}) /\ p.acqLockFD = -1
    BY <1>1, <1>2 DEF Stage
  <1>4. Absent(Now(a).t, "lock-frontend")
    BY <1>2, <1>3 DEF Absent, Only
  <1> HIDE DEF g
  <1>5. /\ g.s \in States /\ Ok(g.s, a) /\ Kept(Now(a), g.s, a)
        /\ \/ g.fd = -1 /\ g.s = Now(a)
           \/ g.fd \in Fds /\ \A m \in Fds : g.s.t[m] = IF m = g.fd THEN "lock-frontend" ELSE fds[a][m]
    BY <1>2, <1>4, GotLock DEF g, Files
  <1>6. /\ Slept(p) \in Processes /\ Left(p) \in Processes
        /\ \A q \in {Slept(p), Left(p)} :
              /\ q.pc = p.pc /\ q.cmd = p.cmd /\ q.FrontendLockFD = p.FrontendLockFD /\ q.LockFD = p.LockFD
              /\ q.acqLockFD = p.acqLockFD
    BY <1>2, Counts
  <1>7. r \in Processes /\ Stage(r, g.s.t) /\ r.pc \in {"start", "end", "inner"}
    <2>1. CASE Waits(p, g)
      <3>1. r = Slept(p) /\ g.s.t = fds[a]
        BY <1>2, <1>5, <2>1 DEF Waits, Fds
      <3> QED BY <1>1, <1>2, <1>6, <3>1, StageOf
    <2>2. CASE ~Waits(p, g) /\ g.fd = -1
      <3>1. PICK q \in Processes : q = Slept(p)
        BY <1>6
      <3>2. r = [q EXCEPT !.FrontendLockFD = -1, !.pc = "end"]
        BY <2>2, <3>1
      <3> HIDE DEF r
      <3>3. r \in Processes /\ r.pc = "end"
        BY <3>2, FieldValues DEF Processes
      <3> QED BY <3>3, StageEnd
    <2>3. CASE ~Waits(p, g) /\ g.fd # -1
      <3>1. PICK q \in Processes : q = Left(p) /\ q.cmd = p.cmd /\ q.acqLockFD = -1
        BY <1>3, <1>6
      <3>2. r = [q EXCEPT !.FrontendLockFD = g.fd, !.pc = "inner"]
        BY <2>3, <3>1
      <3> HIDE DEF r
      <3>5. g.fd \in Fds /\ \A m \in Fds : g.s.t[m] = IF m = g.fd THEN "lock-frontend" ELSE fds[a][m]
        BY <1>5, <2>3
      <3>3. r \in Processes /\ r.pc = "inner" /\ r.FrontendLockFD = g.fd /\ r.cmd = p.cmd /\ r.acqLockFD = -1
        BY <3>1, <3>2, <3>5, FieldValues DEF Processes
      <3>4. Is(g.s.t, g.fd, "lock-frontend") /\ Only(g.s.t, {"none", "stdin", "lock-frontend"})
        BY <1>3, <3>5 DEF Is, Only
      <3> QED BY <1>1, <3>3, <3>4 DEF Stage, Installs, UnderLock
    <2> QED BY <2>1, <2>2, <2>3
  <1> HIDE DEF r
  <1>8. ~Installs(r) /\ p.pc \notin {"dpkg", "over"}
    BY <1>1, <1>7 DEF Installs
  <1> QED BY <1>1, <1>5, <1>7, <1>8, AptOnly

\* dpkg's lock comes second; when it is not to be had the frontend lock is closed under its own number.
LEMMA LockInnerStep ==
  ASSUME Setup, locking = "locks", Parts, NEW a \in Apts, LockInner(a)
  PROVE  Parts'
  <1> DEFINE g == GetLock(Now(a), a, "lock")
             p == apt[a]
             s == IF g.fd # -1 \/ Waits(p, g) THEN g.s ELSE LockInnerFails(a, g.s)
             r == IF Waits(p, g) THEN Slept(p)
                  ELSE IF g.fd = -1 THEN [Slept(p) EXCEPT !.LockFD = -1, !.pc = "end"]
                  ELSE [p EXCEPT !.LockFD = g.fd, !.pc = "checkupdates"]
  <1>1. p.pc = "inner" /\ Keep(a, s) /\ Go(a, r) /\ UNCHANGED Rest
    BY DEF LockInner
  <1>2. /\ Now(a) \in States /\ Ok(Now(a), a) /\ Now(a).t = fds[a] /\ p \in Processes /\ Stage(p, fds[a])
    BY Begins
  <1>3. /\ Only(fds[a], {"none", "stdin", "lock-frontend"}) /\ p.acqLockFD = -1 /\ p.cmd \in {"install", "download"}
        /\ Is(fds[a], p.FrontendLockFD, "lock-frontend")
    BY <1>1, <1>2 DEF Stage
  <1>4. Absent(Now(a).t, "lock")
    BY <1>2, <1>3 DEF Absent, Only
  <1> HIDE DEF g
  <1>5. /\ g.s \in States /\ Ok(g.s, a) /\ Kept(Now(a), g.s, a)
        /\ \/ g.fd = -1 /\ g.s = Now(a)
           \/ g.fd \in Fds /\ fds[a][g.fd] = "none" /\ \A m \in Fds : g.s.t[m] = IF m = g.fd THEN "lock" ELSE fds[a][m]
    BY <1>2, <1>4, GotLock DEF g, Files
  <1>6. /\ Slept(p) \in Processes
        /\ LET q == Slept(p) IN
              /\ q.pc = p.pc /\ q.cmd = p.cmd /\ q.FrontendLockFD = p.FrontendLockFD /\ q.LockFD = p.LockFD
              /\ q.acqLockFD = p.acqLockFD
    BY <1>2, Counts
  <1>7. r \in Processes /\ s \in States /\ Ok(s, a) /\ Kept(Now(a), s, a) /\ Stage(r, s.t) /\ r.pc \in {"inner", "end", "checkupdates"}
    <2>1. CASE Waits(p, g)
      <3>1. r = Slept(p) /\ s = g.s /\ g.s.t = fds[a]
        BY <1>2, <1>5, <2>1, FieldValues DEF Waits
      <3> QED BY <1>1, <1>2, <1>5, <1>6, <3>1, StageOf
    <2>2. CASE ~Waits(p, g) /\ g.fd = -1
      <3>1. PICK q \in Processes : q = Slept(p)
        BY <1>6
      <3>2. r = [q EXCEPT !.LockFD = -1, !.pc = "end"]
        BY <2>2, <3>1
      <3>3. s = Close(g.s, a, p.FrontendLockFD, "lock-frontend")
        BY <2>2 DEF LockInnerFails
      <3> HIDE DEF r, s
      <3>4. r \in Processes /\ r.pc = "end"
        BY <3>2, FieldValues DEF Processes
      <3>5. p.FrontendLockFD \in -1..MaxFd
        BY <1>2 DEF Processes
      <3>6. s \in States /\ Ok(s, a) /\ Kept(g.s, s, a)
        BY <1>5, <3>3, <3>5, Closed
      <3>7. Kept(Now(a), s, a)
        BY <1>5, <3>6, KeptTrans
      <3> QED BY <3>4, <3>6, <3>7, StageEnd
    <2>3. CASE ~Waits(p, g) /\ g.fd # -1
      <3>1. PICK q \in Processes : q = p
        BY <1>2
      <3>2. r = [q EXCEPT !.LockFD = g.fd, !.pc = "checkupdates"] /\ s = g.s
        BY <2>3, <3>1
      <3> HIDE DEF r, s
      <3>3. g.fd \in Fds /\ fds[a][g.fd] = "none" /\ \A m \in Fds : s.t[m] = IF m = g.fd THEN "lock" ELSE fds[a][m]
        BY <1>5, <2>3, <3>2
      <3>4. /\ r \in Processes /\ r.pc = "checkupdates" /\ r.LockFD = g.fd /\ r.FrontendLockFD = q.FrontendLockFD
            /\ r.cmd = q.cmd /\ r.acqLockFD = q.acqLockFD
        BY <3>2, <3>3, FieldValues DEF Processes
      <3>5. /\ Is(s.t, g.fd, "lock") /\ Is(s.t, p.FrontendLockFD, "lock-frontend")
            /\ Only(s.t, {"none", "stdin", "lock-frontend", "lock"})
        BY <1>3, <3>3 DEF Is, Only
      <3>6. Stage(r, s.t)
        BY <1>3, <3>1, <3>4, <3>5 DEF Stage, Installs, UnderLock
      <3> QED BY <1>5, <3>2, <3>4, <3>6
    <2> QED BY <2>1, <2>2, <2>3
  <1> HIDE DEF r, s
  <1>8. ~Installs(r) /\ p.pc \notin {"dpkg", "over"}
    BY <1>1, <1>7 DEF Installs
  <1> QED BY <1>1, <1>7, <1>8, AptOnly

\* Nothing was opened or closed.
LEMMA KeepNow ==
  ASSUME Parts, NEW a \in Apts, UNCHANGED <<fds, holder, foreign>>
  PROVE  Keep(a, Now(a))
  <1>1. Now(a).t = fds[a] /\ Now(a).h = holder /\ Now(a).f = foreign
    BY Begins
  <1>2. fds = [fds EXCEPT ![a] = fds[a]]
    BY DEF Parts, TypeInv
  <1> QED BY <1>1, <1>2 DEF Keep

\* Two closes, as UnLock does them.
LEMMA ClosedTwice ==
  ASSUME NEW a, NEW s \in States, Ok(s, a), NEW m \in -1..MaxFd, NEW n \in -1..MaxFd, NEW x, NEW y,
         NEW c, c = Close(Close(s, a, m, x), a, n, y)
  PROVE  /\ c \in States /\ Ok(c, a) /\ Kept(s, c, a)
         /\ \A k \in Fds : c.t[k] = IF k \in {m, n} THEN "none" ELSE s.t[k]
  <1> DEFINE u == Close(s, a, m, x)
  <1>1. u \in States /\ Ok(u, a) /\ Kept(s, u, a) /\ \A k \in Fds : u.t[k] = IF k = m THEN "none" ELSE s.t[k]
    BY Closed
  <1> HIDE DEF u
  <1>2. c = Close(u, a, n, y)
    BY DEF u
  <1>3. c \in States /\ Ok(c, a) /\ Kept(u, c, a) /\ \A k \in Fds : c.t[k] = IF k = n THEN "none" ELSE u.t[k]
    BY <1>1, <1>2, Closed
  <1> QED BY <1>1, <1>3, KeptTrans

\* UnLock closes both locks or, with a count left, none.
LEMMA UnLockedOk ==
  ASSUME NEW a, NEW s \in States, Ok(s, a), NEW p \in Processes, NEW c, c = UnLocked(s, a, p)
  PROVE  /\ c \in States /\ Ok(c, a) /\ Kept(s, c, a)
         /\ \A k \in Fds : c.t[k] = s.t[k] \/ (k \in {p.LockFD, p.FrontendLockFD} /\ c.t[k] = "none")
  <1>1. p.LockFD \in -1..MaxFd /\ p.FrontendLockFD \in -1..MaxFd
    BY DEF Processes
  <1>2. CASE Last(p)
    <2>1. c = Close(Close(s, a, p.LockFD, "lock"), a, p.FrontendLockFD, "lock-frontend")
      BY <1>2 DEF UnLocked
    <2>2. c \in States /\ Ok(c, a) /\ Kept(s, c, a) /\ \A k \in Fds : c.t[k] = IF k \in {p.LockFD, p.FrontendLockFD} THEN "none" ELSE s.t[k]
      BY <1>1, <2>1, ClosedTwice
    <2> QED BY <2>2
  <1>3. CASE ~Last(p)
    <2>1. c = s
      BY <1>3 DEF UnLocked
    <2> QED BY <2>1 DEF Kept
  <1> QED BY <1>2, <1>3

\* An interrupted dpkg makes apt give up both locks.
LEMMA CheckUpdatesStep ==
  ASSUME Setup, locking = "locks", Parts, NEW a \in Apts, CheckUpdates(a)
  PROVE  Parts'
  <1> DEFINE p == apt[a]
  <1>1. p.pc = "checkupdates" /\ UNCHANGED Rest
    BY DEF CheckUpdates
  <1>2. /\ Now(a) \in States /\ Ok(Now(a), a) /\ Kept(Now(a), Now(a), a) /\ Now(a).t = fds[a]
        /\ p \in Processes /\ Stage(p, fds[a])
    BY Begins
  <1>3. p.LockFD \in -1..MaxFd /\ p.FrontendLockFD \in -1..MaxFd /\ p.LockCount + 1 \in Int
    BY <1>2 DEF Processes
  <1>4. CASE journal
    <2> DEFINE s == Close(Close(Now(a), a, p.LockFD, "lock"), a, p.FrontendLockFD, "lock-frontend")
               r == [p EXCEPT !.LockFD = -1, !.FrontendLockFD = -1, !.pc = "end"]
    <2>1. Keep(a, s) /\ Go(a, r)
      BY <1>4 DEF CheckUpdates
    <2>2. s \in States /\ Ok(s, a) /\ Kept(Now(a), s, a)
      BY <1>2, <1>3, ClosedTwice
    <2>3. r \in Processes /\ r.pc = "end"
      BY <1>2, FieldValues DEF Processes
    <2> HIDE DEF r, s
    <2>4. Stage(r, s.t) /\ ~Installs(r)
      BY <2>3, StageEnd
    <2> QED BY <1>1, <2>1, <2>2, <2>3, <2>4, AptOnly
  <1>5. CASE ~journal
    <2> DEFINE r == [p EXCEPT !.LockCount = p.LockCount + 1, !.pc = "plan"]
    <2>1. UNCHANGED <<fds, holder, foreign>> /\ Go(a, r)
      BY <1>5 DEF CheckUpdates
    <2>2. /\ r \in Processes /\ r.pc = "plan" /\ r.cmd = p.cmd /\ r.FrontendLockFD = p.FrontendLockFD /\ r.LockFD = p.LockFD
          /\ r.acqLockFD = p.acqLockFD
      BY <1>2, <1>3, FieldValues DEF Processes
    <2> HIDE DEF r
    <2>3. Stage(r, fds[a]) /\ ~Installs(r)
      BY <1>1, <1>2, <2>2 DEF Stage, Installs, UnderLock
    <2> QED BY <1>1, <1>2, <2>1, <2>2, <2>3, KeepNow, AptOnly
  <1> QED BY <1>4, <1>5

\* The plan is made under dpkg's lock, when nobody writes.
LEMMA PlanStep ==
  ASSUME Setup, locking = "locks", Parts, NEW a \in Apts, Plan(a)
  PROVE  Parts'
  <1> DEFINE p == apt[a]
             r == [p EXCEPT !.plan = dpkg_status, !.pc = "lockarchives"]
  <1>1. p.pc = "plan" /\ Go(a, r) /\ UNCHANGED <<fds, holder, foreign>> /\ UNCHANGED Rest
    BY DEF Plan
  <1>2. /\ Now(a) \in States /\ Ok(Now(a), a) /\ Kept(Now(a), Now(a), a) /\ Now(a).t = fds[a]
        /\ p \in Processes /\ Stage(p, fds[a])
    BY Begins
  <1>3. dpkg_status \in Int
    BY DEF Parts, TypeInv
  <1>4. /\ r \in Processes /\ r.pc = "lockarchives" /\ r.cmd = p.cmd /\ r.FrontendLockFD = p.FrontendLockFD /\ r.LockFD = p.LockFD
        /\ r.acqLockFD = p.acqLockFD /\ r.plan = dpkg_status
    BY <1>2, <1>3, FieldValues DEF Processes
  <1> HIDE DEF r
  <1>5. Stage(r, fds[a])
    BY <1>1, <1>2, <1>4 DEF Stage, Installs, UnderLock
  <1> QED BY <1>1, <1>2, <1>4, <1>5, KeepNow, AptOnly

\* pkgAcquire::GetLock without a lock of its own is GetLock.
LEMMA AcquiredFirst ==
  ASSUME NEW a, NEW s, NEW f, apt[a].acqLockFD = -1
  PROVE  AcquireLock(s, a, f) = GetLock(s, a, f)
  BY DEF AcquireLock, Close

\* The archives are locked on top of the two locks, which download gives up.
LEMMA LockArchivesStep ==
  ASSUME Setup, locking = "locks", Parts, NEW a \in Apts, LockArchives(a)
  PROVE  Parts'
  <1> DEFINE g == GetLock(Now(a), a, "archives")
             p == apt[a]
  <1>1. p.pc = "lockarchives" /\ UNCHANGED Rest
    BY DEF LockArchives
  <1>2. /\ Now(a) \in States /\ Ok(Now(a), a) /\ Now(a).t = fds[a] /\ p \in Processes /\ Stage(p, fds[a])
    BY Begins
  <1>3. /\ Only(fds[a], {"none", "stdin", "lock-frontend", "lock"}) /\ p.acqLockFD = -1 /\ p.cmd \in {"install", "download"}
        /\ Is(fds[a], p.FrontendLockFD, "lock-frontend") /\ Is(fds[a], p.LockFD, "lock")
    BY <1>1, <1>2 DEF Stage, UnderLock
  <1>4. Absent(Now(a).t, "archives")
    BY <1>2, <1>3 DEF Absent, Only
  <1>5. AcquireLock(Now(a), a, "archives") = g
    BY <1>3, AcquiredFirst
  <1>6. IF g.fd = -1 THEN Keep(a, g.s) /\ Go(a, [p EXCEPT !.acqLockFD = -1, !.pc = "end"])
        ELSE IF p.cmd = "download"
        THEN Keep(a, UnLocked(g.s, a, p)) /\ Go(a, [UnLockCount(p) EXCEPT !.acqLockFD = g.fd, !.pc = "fetch"])
        ELSE Keep(a, g.s) /\ Go(a, [p EXCEPT !.acqLockFD = g.fd, !.pc = "fetch"])
    BY <1>5 DEF LockArchives
  <1> HIDE DEF g
  <1>7. /\ g.s \in States /\ Ok(g.s, a) /\ Kept(Now(a), g.s, a)
        /\ \/ g.fd = -1 /\ g.s = Now(a)
           \/ g.fd \in Fds /\ fds[a][g.fd] = "none" /\ \A m \in Fds : g.s.t[m] = IF m = g.fd THEN "archives" ELSE fds[a][m]
    BY <1>2, <1>4, GotLock DEF g, Files
  <1>8. CASE g.fd = -1
    <2> DEFINE r == [p EXCEPT !.acqLockFD = -1, !.pc = "end"]
    <2>1. Keep(a, g.s) /\ Go(a, r)
      BY <1>6, <1>8
    <2>2. r \in Processes /\ r.pc = "end"
      BY <1>2, FieldValues DEF Processes
    <2> HIDE DEF r
    <2>3. Stage(r, g.s.t) /\ ~Installs(r)
      BY <2>2, StageEnd
    <2> QED BY <1>1, <1>7, <2>1, <2>2, <2>3, AptOnly
  <1>9. CASE g.fd # -1 /\ p.cmd = "download"
    <2> DEFINE s == UnLocked(g.s, a, p)
               k == IF p.LockCount = 0 THEN 0 ELSE p.LockCount - 1
               q == [p EXCEPT !.LockCount = k]
               r == [q EXCEPT !.acqLockFD = g.fd, !.pc = "fetch"]
    <2>1. Keep(a, s) /\ Go(a, r)
      BY <1>6, <1>9 DEF UnLockCount
    <2>2. s \in States /\ Ok(s, a) /\ Kept(g.s, s, a)
          /\ \A m \in Fds : s.t[m] = g.s.t[m] \/ (m \in {p.LockFD, p.FrontendLockFD} /\ s.t[m] = "none")
      BY <1>2, <1>7, UnLockedOk
    <2>3. Kept(Now(a), s, a)
      BY <1>7, <2>2, KeptTrans
    <2>4. k \in Int
      BY <1>2 DEF Processes
    <2> HIDE DEF k
    <2>5. q \in Processes /\ q.cmd = p.cmd
      BY <1>2, <2>4 DEF Processes
    <2> HIDE DEF q, s
    <2>6. g.fd \in Fds /\ fds[a][g.fd] = "none" /\ \A m \in Fds : g.s.t[m] = IF m = g.fd THEN "archives" ELSE fds[a][m]
      BY <1>7, <1>9
    <2>7. r \in Processes /\ r.pc = "fetch" /\ r.cmd = "download" /\ r.acqLockFD = g.fd
      BY <1>9, <2>5, <2>6, FieldValues DEF Processes
    <2> HIDE DEF r
    <2>8. g.fd \notin {p.LockFD, p.FrontendLockFD}
      BY <1>3, <2>6 DEF Is
    <2>9. Is(s.t, g.fd, "archives")
      BY <2>2, <2>6, <2>8 DEF Is
    <2>10. Only(s.t, Things \ {"pipe", "log"})
      BY <1>3, <2>2, <2>6 DEF Only, Things, Files
    <2>11. Stage(r, s.t) /\ ~Installs(r)
      BY <2>7, <2>9, <2>10 DEF Stage, Installs, UnderLock
    <2> QED BY <1>1, <2>1, <2>2, <2>3, <2>7, <2>11, AptOnly
  <1>10. CASE g.fd # -1 /\ p.cmd # "download"
    <2> DEFINE r == [p EXCEPT !.acqLockFD = g.fd, !.pc = "fetch"]
    <2>1. Keep(a, g.s) /\ Go(a, r)
      BY <1>6, <1>10
    <2>2. g.fd \in Fds /\ fds[a][g.fd] = "none" /\ \A m \in Fds : g.s.t[m] = IF m = g.fd THEN "archives" ELSE fds[a][m]
      BY <1>7, <1>10
    <2>3. /\ r \in Processes /\ r.pc = "fetch" /\ r.cmd = "install" /\ r.acqLockFD = g.fd /\ r.FrontendLockFD = p.FrontendLockFD
          /\ r.LockFD = p.LockFD /\ r.plan = p.plan
      BY <1>2, <1>3, <1>10, <2>2, FieldValues DEF Processes
    <2> HIDE DEF r
    <2>4. Is(g.s.t, g.fd, "archives") /\ Is(g.s.t, p.FrontendLockFD, "lock-frontend") /\ Is(g.s.t, p.LockFD, "lock")
      BY <1>3, <2>2 DEF Is
    <2>5. Only(g.s.t, Things \ {"pipe", "log"})
      BY <1>3, <2>2 DEF Only, Things, Files
    <2>6. Stage(r, g.s.t)
      BY <2>3, <2>4, <2>5 DEF Stage, Installs, UnderLock
    <2>7. Installs(p)
      BY <1>1 DEF Installs
    <2> QED BY <1>1, <1>7, <2>1, <2>3, <2>6, <2>7, AptOnly
  <1> QED BY <1>8, <1>9, <1>10

\* A pipe of a method takes the number that is free, never that of a lock.
LEMMA FetchStep ==
  ASSUME Setup, locking = "locks", Parts, NEW a \in Apts, Fetch(a)
  PROVE  Parts'
  <1> DEFINE p == apt[a]
             s == Opened(Now(a), "pipe")
  <1>1. p.pc = "fetch" /\ Keep(a, s) /\ UNCHANGED Rest
    BY DEF Fetch
  <1>2. PICK x \in {"unlockinner", "end"} : Go(a, [p EXCEPT !.pc = x]) /\ (x = "unlockinner" => p.cmd = "install")
    BY DEF Fetch
  <1> DEFINE r == [p EXCEPT !.pc = x]
  <1>3. /\ Now(a) \in States /\ Ok(Now(a), a) /\ Now(a).t = fds[a] /\ Now(a).h = holder /\ p \in Processes /\ Stage(p, fds[a])
    BY Begins
  <1>4. Only(fds[a], Things \ {"pipe", "log"})
    BY <1>1, <1>3 DEF Stage
  <1>5. Absent(Now(a).t, "pipe")
    BY <1>3, <1>4 DEF Absent, Only
  <1>6. fds[a] \in [Fds -> Things]
    BY DEF Parts, TypeInv
  <1> HIDE DEF s
  <1>7. s \in States /\ Ok(s, a) /\ s.h = Now(a).h
    BY <1>3, <1>5, PlainAre, OpenedOther DEF s
  <1>9. PICK n \in Fds : fds[a][n] = "none" /\ \A m \in Fds : s.t[m] = IF m = n THEN "pipe" ELSE fds[a][m]
    BY <1>3, <1>5, PlainAre, OpenedOther DEF s
  <1>8. Kept(Now(a), s, a)
    BY <1>7 DEF Kept
  <1>10. /\ r \in Processes /\ r.pc = x /\ r.cmd = p.cmd /\ r.FrontendLockFD = p.FrontendLockFD /\ r.LockFD = p.LockFD
         /\ r.acqLockFD = p.acqLockFD /\ r.plan = p.plan
    <2>1. x \in Points
      BY FieldValues
    <2> QED BY <1>3, <2>1 DEF Processes
  <1>11. Go(a, r)
    BY <1>2
  <1> HIDE DEF r
  <1>12. CASE x = "end"
    <2>1. Stage(r, s.t) /\ ~Installs(r)
      BY <1>10, <1>12, StageEnd
    <2> QED BY <1>1, <1>7, <1>8, <1>10, <1>11, <2>1, AptOnly
  <1>13. CASE x = "unlockinner"
    <2>1. p.cmd = "install"
      BY <1>2, <1>13
    <2>2. Installs(p)
      BY <1>1, <2>1 DEF Installs
    <2>3. /\ Is(fds[a], p.FrontendLockFD, "lock-frontend") /\ Is(fds[a], p.acqLockFD, "archives")
          /\ Is(fds[a], p.LockFD, "lock") \/ (p.LockFD = -1 /\ Only(fds[a], Things \ {"lock"}))
      BY <1>1, <1>3, <2>1, <2>2 DEF Stage
    <2>4. /\ Is(s.t, p.FrontendLockFD, "lock-frontend") /\ Is(s.t, p.acqLockFD, "archives")
          /\ Is(s.t, p.LockFD, "lock") \/ (p.LockFD = -1 /\ Only(s.t, Things \ {"lock"}))
      BY <1>7, <1>9, <2>3 DEF Is, Only, Things
    <2>5. Only(s.t, Things \ {"log"})
      BY <1>4, <1>9 DEF Only, Things
    <2>6. Stage(r, s.t)
      BY <1>10, <1>13, <2>1, <2>4, <2>5 DEF Stage, Installs, UnderLock
    <2> QED BY <1>1, <1>7, <1>8, <1>10, <1>11, <2>2, <2>6, AptOnly
  <1> QED BY <1>12, <1>13

\* dpkg's lock is closed; its number stays in LockFD.
LEMMA UnLockInnerStep ==
  ASSUME Setup, locking = "locks", Parts, NEW a \in Apts, UnLockInner(a)
  PROVE  Parts'
  <1> DEFINE p == apt[a]
             s == Close(Now(a), a, p.LockFD, "lock")
             r == [p EXCEPT !.pc = "openlog"]
  <1>1. p.pc = "unlockinner" /\ Keep(a, s) /\ Go(a, r) /\ UNCHANGED Rest
    BY DEF UnLockInner
  <1>2. /\ Now(a) \in States /\ Ok(Now(a), a) /\ Now(a).t = fds[a] /\ p \in Processes /\ Stage(p, fds[a])
    BY Begins
  <1>3. p.LockFD \in -1..MaxFd
    BY <1>2 DEF Processes
  <1>4. Installs(p)
    BY <1>1 DEF Installs
  <1>5. /\ Is(fds[a], p.FrontendLockFD, "lock-frontend") /\ Is(fds[a], p.acqLockFD, "archives") /\ p.cmd = "install"
        /\ Is(fds[a], p.LockFD, "lock") \/ (p.LockFD = -1 /\ Only(fds[a], Things \ {"lock"}))
        /\ Only(fds[a], Things \ {"log"})
    BY <1>1, <1>2, <1>4 DEF Stage
  <1>6. s \in States /\ Ok(s, a) /\ Kept(Now(a), s, a) /\ \A m \in Fds : s.t[m] = IF m = p.LockFD THEN "none" ELSE fds[a][m]
    BY <1>2, <1>3, Closed
  <1>7. /\ r \in Processes /\ r.pc = "openlog" /\ r.cmd = p.cmd /\ r.FrontendLockFD = p.FrontendLockFD
        /\ r.acqLockFD = p.acqLockFD /\ r.plan = p.plan
    BY <1>2, FieldValues DEF Processes
  <1> HIDE DEF r, s
  <1>8. Is(s.t, p.FrontendLockFD, "lock-frontend") /\ Is(s.t, p.acqLockFD, "archives")
    BY <1>5, <1>6, FieldValues DEF Is
  <1>9. Only(s.t, Things \ {"lock", "log"})
    <2> SUFFICES ASSUME NEW m \in Fds PROVE s.t[m] \in Things \ {"lock", "log"}
      BY DEF Only
    <2>1. CASE m = p.LockFD
      BY <1>6, <2>1 DEF Things
    <2>2. CASE m # p.LockFD
      <3>1. fds[a][m] # "lock"
        BY <1>2, <1>5, <2>2 DEF Is, Only, Ok, Once
      <3> QED BY <1>5, <1>6, <2>2, <3>1 DEF Only
    <2> QED BY <2>1, <2>2
  <1>10. Stage(r, s.t)
    BY <1>5, <1>7, <1>8, <1>9 DEF Stage, Installs, UnderLock
  <1> QED BY <1>1, <1>4, <1>6, <1>7, <1>10, AptOnly

\* The log may get the number LockFD still has, and dpkg is started.
LEMMA OpenLogStep ==
  ASSUME Setup, locking = "locks", Parts, NEW a \in Apts, OpenLog(a)
  PROVE  Parts'
  <1> DEFINE p == apt[a]
             s == Opened(Now(a), "log")
             r == [p EXCEPT !.pc = "dpkg"]
  <1>1. /\ p.pc = "openlog" /\ Keep(a, s) /\ Go(a, r) /\ dpkg' = [dpkg EXCEPT ![a] = "starts"]
        /\ UNCHANGED <<others, dpkg_status, intruded>>
    BY DEF OpenLog
  <1>2. /\ Now(a) \in States /\ Ok(Now(a), a) /\ Now(a).t = fds[a] /\ p \in Processes /\ Stage(p, fds[a])
    BY Begins
  <1>3. Installs(p)
    BY <1>1 DEF Installs
  <1>4. /\ Only(fds[a], Things \ {"lock", "log"}) /\ p.cmd = "install"
        /\ Is(fds[a], p.FrontendLockFD, "lock-frontend") /\ Is(fds[a], p.acqLockFD, "archives")
    BY <1>1, <1>2, <1>3 DEF Stage
  <1>5. Absent(Now(a).t, "log")
    BY <1>2, <1>4 DEF Absent, Only
  <1> HIDE DEF s
  <1>6. s \in States /\ Ok(s, a) /\ s.h = Now(a).h
    BY <1>2, <1>5, PlainAre, OpenedOther DEF s
  <1>7. PICK n \in Fds : fds[a][n] = "none" /\ \A m \in Fds : s.t[m] = IF m = n THEN "log" ELSE fds[a][m]
    BY <1>2, <1>5, PlainAre, OpenedOther DEF s
  <1>8. Kept(Now(a), s, a)
    BY <1>6 DEF Kept
  <1>9. /\ r \in Processes /\ r.pc = "dpkg" /\ r.cmd = p.cmd /\ r.FrontendLockFD = p.FrontendLockFD
        /\ r.acqLockFD = p.acqLockFD /\ r.plan = p.plan
    BY <1>2, FieldValues DEF Processes
  <1> HIDE DEF r
  <1>10. /\ Is(s.t, p.FrontendLockFD, "lock-frontend") /\ Is(s.t, p.acqLockFD, "archives")
         /\ Only(s.t, Things \ {"lock"})
    BY <1>4, <1>7 DEF Is, Only, Things
  <1>11. Stage(r, s.t)
    BY <1>4, <1>9, <1>10 DEF Stage, Installs, UnderLock
  <1>12. "starts" \in Childs
    BY DEF Childs
  <1> QED BY <1>1, <1>3, <1>6, <1>8, <1>9, <1>11, <1>12, AptStep

\* After dpkg the log is closed first, then another round takes the lock again, or not.
LEMMA InstalledStep ==
  ASSUME Setup, locking = "locks", Parts, NEW a \in Apts, Installed(a)
  PROVE  Parts'
  <1> DEFINE p == apt[a]
             s == CloseLog(Now(a))
  <1>1. p.pc = "dpkg" /\ dpkg' = [dpkg EXCEPT ![a] = "none"] /\ UNCHANGED <<others, dpkg_status, intruded>>
    BY DEF Installed
  <1>2. /\ Now(a) \in States /\ Ok(Now(a), a) /\ Now(a).t = fds[a] /\ p \in Processes /\ Stage(p, fds[a])
    BY Begins
  <1>3. Installs(p)
    BY <1>1 DEF Installs
  <1>4. /\ Only(fds[a], Things \ {"lock"}) /\ p.cmd = "install"
        /\ Is(fds[a], p.FrontendLockFD, "lock-frontend") /\ Is(fds[a], p.acqLockFD, "archives")
    BY <1>1, <1>2, <1>3 DEF Stage
  <1>5. s = Dropped(Now(a), "log")
    BY DEF CloseLog, Dropped
  <1> HIDE DEF s
  <1>6. s \in States /\ Ok(s, a) /\ s.h = Now(a).h /\ \A m \in Fds : s.t[m] = IF fds[a][m] = "log" THEN "none" ELSE fds[a][m]
    BY <1>2, <1>5, PlainAre, DroppedOk
  <1>7. Kept(Now(a), s, a)
    BY <1>6 DEF Kept
  <1>8. "none" \in Childs
    BY DEF Childs
  <1>9. CASE Keep(a, s) /\ Go(a, [p EXCEPT !.pc = "end"])
    <2> DEFINE r == [p EXCEPT !.pc = "end"]
    <2>1. r \in Processes /\ r.pc = "end" /\ Go(a, r)
      BY <1>2, <1>9, FieldValues DEF Processes
    <2> HIDE DEF r
    <2>2. Stage(r, s.t) /\ ~Installs(r)
      BY <2>1, StageEnd
    <2> QED BY <1>1, <1>6, <1>7, <1>8, <1>9, <2>1, <2>2, AptStep
  <1>10. ASSUME NEW g, g = GetLock(s, a, "lock"), Keep(a, Shutdown(g.s)),
                Go(a, [p EXCEPT !.LockFD = g.fd, !.swaps = p.swaps + 1, !.pc = "fetch"])
         PROVE  Parts'
    <2> DEFINE u == Shutdown(g.s)
               r == [p EXCEPT !.LockFD = g.fd, !.swaps = p.swaps + 1, !.pc = "fetch"]
    <2>1. Absent(s.t, "lock")
      BY <1>4, <1>6 DEF Absent, Only
    <2>2. /\ g.s \in States /\ Ok(g.s, a) /\ Kept(s, g.s, a)
          /\ \/ g.fd = -1 /\ g.s = s
             \/ g.fd \in Fds /\ s.t[g.fd] = "none" /\ \A m \in Fds : g.s.t[m] = IF m = g.fd THEN "lock" ELSE s.t[m]
      BY <1>6, <1>10, <2>1, GotLock DEF Files
    <2>3. u = Dropped(g.s, "pipe")
      BY DEF Shutdown, Dropped
    <2>4. Keep(a, u) /\ Go(a, r)
      BY <1>10
    <2> HIDE DEF u
    <2>5. u \in States /\ Ok(u, a) /\ u.h = g.s.h /\ \A m \in Fds : u.t[m] = IF g.s.t[m] = "pipe" THEN "none" ELSE g.s.t[m]
      BY <2>2, <2>3, PlainAre, DroppedOk
    <2>6. Kept(Now(a), u, a)
      <3>1. Kept(g.s, u, a)
        BY <2>5 DEF Kept
      <3> QED BY <1>7, <2>2, <3>1, KeptTrans
    <2>7. g.fd \in -1..MaxFd /\ p.swaps + 1 \in Int
      BY <1>2, <2>2, FieldValues DEF Processes
    <2>8. /\ r \in Processes /\ r.pc = "fetch" /\ r.cmd = p.cmd /\ r.FrontendLockFD = p.FrontendLockFD /\ r.LockFD = g.fd
          /\ r.acqLockFD = p.acqLockFD /\ r.plan = p.plan
      BY <1>2, <2>7, FieldValues DEF Processes
    <2> HIDE DEF r
    <2>9. Is(s.t, p.FrontendLockFD, "lock-frontend") /\ Is(s.t, p.acqLockFD, "archives") /\ Only(s.t, Things \ {"lock", "log"})
      BY <1>4, <1>6 DEF Is, Only, Things
    <2>10. Is(u.t, p.FrontendLockFD, "lock-frontend") /\ Is(u.t, p.acqLockFD, "archives")
      BY <2>2, <2>5, <2>9 DEF Is
    <2>11. Only(u.t, Things \ {"pipe", "log"})
      BY <2>2, <2>5, <2>9 DEF Only, Things, Files
    <2>12. Is(u.t, g.fd, "lock") \/ (g.fd = -1 /\ Only(u.t, Things \ {"lock"}))
      BY <2>2, <2>5, <2>9 DEF Is, Only, Things
    <2>13. Stage(r, u.t)
      BY <1>4, <2>8, <2>10, <2>11, <2>12 DEF Stage, Installs, UnderLock
    <2> QED BY <1>1, <1>3, <1>8, <2>4, <2>5, <2>6, <2>8, <2>13, AptStep
  <1>11. \/ Keep(a, s) /\ Go(a, [p EXCEPT !.pc = "end"])
         \/ \E g \in {GetLock(s, a, "lock")} :
              Keep(a, Shutdown(g.s)) /\ Go(a, [p EXCEPT !.LockFD = g.fd, !.swaps = p.swaps + 1, !.pc = "fetch"])
    BY DEF Installed, s
  <1> QED BY <1>9, <1>10, <1>11

\* At the end pipes and locks are closed; nobody else loses a lock.
LEMMA EndStep ==
  ASSUME Setup, locking = "locks", Parts, NEW a \in Apts, End(a)
  PROVE  Parts'
  <1> DEFINE p == apt[a]
             d == Shutdown(Now(a))
             c == AcquireGone(Now(a), a)
             s == UnLocked(c, a, p)
             k == IF p.LockCount = 0 THEN 0 ELSE p.LockCount - 1
             q == [p EXCEPT !.LockCount = k]
             r == [q EXCEPT !.acqLockFD = -1, !.pc = "over"]
  <1>1. p.pc = "end" /\ Keep(a, s) /\ Go(a, r) /\ UNCHANGED Rest
    BY DEF End, UnLockCount
  <1>2. Now(a) \in States /\ Ok(Now(a), a) /\ p \in Processes
    BY Begins
  <1>3. d = Dropped(Now(a), "pipe")
    BY DEF Shutdown, Dropped
  <1>4. PICK x : c = Close(d, a, p.acqLockFD, x)
    BY DEF AcquireGone
  <1> HIDE DEF d, c
  <1>5. d \in States /\ Ok(d, a) /\ d.h = Now(a).h
    BY <1>2, <1>3, PlainAre, DroppedOk
  <1>6. p.acqLockFD \in -1..MaxFd /\ k \in Int
    BY <1>2 DEF Processes
  <1>7. c \in States /\ Ok(c, a) /\ Kept(d, c, a)
    BY <1>4, <1>5, <1>6, Closed
  <1>8. s \in States /\ Ok(s, a) /\ Kept(c, s, a)
    BY <1>2, <1>7, UnLockedOk
  <1> HIDE DEF s, k
  <1>9. Kept(Now(a), s, a)
    <2>1. Kept(Now(a), d, a)
      BY <1>5 DEF Kept
    <2> QED BY <1>7, <1>8, <2>1, KeptTrans
  <1>10. q \in Processes
    BY <1>2, <1>6 DEF Processes
  <1> HIDE DEF q
  <1>11. r \in Processes /\ r.pc = "over"
    BY <1>10, FieldValues DEF Processes
  <1> HIDE DEF r
  <1>12. Stage(r, s.t) /\ ~Installs(r)
    BY <1>11, StageEnd
  <1> QED BY <1>1, <1>8, <1>9, <1>11, <1>12, AptOnly

\* update, clean and autoclean start with one lock of a directory.
LEMMA FirstLock ==
  ASSUME Setup, locking = "locks", Parts, NEW a \in Apts, apt[a].pc = "start", apt[a].cmd \notin {"install", "download"},
         NEW f \in {"archives", "lists"}, NEW g, g = GetLock(Now(a), a, f), Keep(a, g.s), UNCHANGED Rest,
         NEW x \in {"end", "fetch", "cleaning"}, Go(a, [apt[a] EXCEPT !.acqLockFD = g.fd, !.pc = x]),
         x = "cleaning" => f = "archives"
  PROVE  Parts'
  <1> DEFINE p == apt[a]
             r == [p EXCEPT !.acqLockFD = g.fd, !.pc = x]
  <1>1. /\ Now(a) \in States /\ Ok(Now(a), a) /\ Now(a).t = fds[a] /\ p \in Processes /\ Stage(p, fds[a])
    BY Begins
  <1>2. Only(fds[a], {"none", "stdin"})
    BY <1>1 DEF Stage
  <1>3. Absent(Now(a).t, f) /\ f \in Files
    BY <1>1, <1>2 DEF Absent, Only, Files
  <1>4. /\ g.s \in States /\ Ok(g.s, a) /\ Kept(Now(a), g.s, a)
        /\ \/ g.fd = -1 /\ g.s = Now(a)
           \/ g.fd \in Fds /\ fds[a][g.fd] = "none" /\ \A m \in Fds : g.s.t[m] = IF m = g.fd THEN f ELSE fds[a][m]
    BY <1>1, <1>3, GotLock
  <1>5. g.fd \in -1..MaxFd /\ x \in Points
    BY <1>4, FieldValues
  <1>6. r \in Processes /\ r.pc = x /\ r.cmd = p.cmd
    BY <1>1, <1>5 DEF Processes
  <1>7. Go(a, r)
    OBVIOUS
  <1> HIDE DEF r
  <1>8. Only(g.s.t, {"none", "stdin", f})
    BY <1>1, <1>2, <1>4 DEF Only
  <1>9. Stage(r, g.s.t) /\ ~Installs(r)
    BY <1>6, <1>8 DEF Stage, Installs, UnderLock, Only, Things, Files
  <1> QED BY <1>4, <1>6, <1>7, <1>9, AptOnly

\* update, clean and autoclean hold one directory.
LEMMA DirectoryStep ==
  ASSUME Setup, locking = "locks", Parts, NEW a \in Apts, Update(a) \/ Clean(a) \/ AutoClean(a)
  PROVE  Parts'
  <1>1. apt[a].pc = "start" /\ UNCHANGED Rest
    BY DEF Update, Clean, AutoClean
  <1>2. apt[a].acqLockFD = -1
    <2>1. Stage(apt[a], fds[a])
      BY Begins
    <2> QED BY <1>1, <2>1 DEF Stage
  <1>3. CASE Update(a)
    <2> DEFINE g == GetLock(Now(a), a, "lists")
               x == IF g.fd = -1 THEN "end" ELSE "fetch"
    <2>1. apt[a].cmd = "update" /\ Keep(a, g.s) /\ Go(a, [apt[a] EXCEPT !.acqLockFD = g.fd, !.pc = x])
      <3>1. AcquireLock(Now(a), a, "lists") = g
        BY <1>2, AcquiredFirst
      <3> HIDE DEF g
      <3> QED BY <1>3, <3>1 DEF Update
    <2>2. x \in {"end", "fetch", "cleaning"} /\ x # "cleaning"
      OBVIOUS
    <2> HIDE DEF g, x
    <2> QED BY <1>1, <2>1, <2>2, FirstLock DEF g
  <1>4. CASE Clean(a)
    <2> DEFINE g == GetLock(Now(a), a, "archives")
    <2>1. apt[a].cmd = "clean" /\ Keep(a, g.s) /\ Go(a, [apt[a] EXCEPT !.acqLockFD = g.fd, !.pc = "cleaning"])
      <3>1. AcquireLock(Now(a), a, "archives") = g
        BY <1>2, AcquiredFirst
      <3> HIDE DEF g
      <3> QED BY <1>4, <3>1 DEF Clean
    <2> HIDE DEF g
    <2> QED BY <1>1, <2>1, FirstLock DEF g
  <1>5. CASE AutoClean(a)
    <2> DEFINE g == GetLock(Now(a), a, "archives")
    <2>1. apt[a].cmd = "autoclean" /\ Keep(a, g.s) /\ Go(a, [apt[a] EXCEPT !.acqLockFD = g.fd, !.pc = "end"])
      BY <1>5 DEF AutoClean
    <2> HIDE DEF g
    <2> QED BY <1>1, <2>1, FirstLock DEF g
  <1> QED BY <1>3, <1>4, <1>5

\* clean gives up the archives for the lists.
LEMMA CleanListsStep ==
  ASSUME Setup, locking = "locks", Parts, NEW a \in Apts, CleanLists(a)
  PROVE  Parts'
  <1> DEFINE p == apt[a]
             c == Close(Now(a), a, p.acqLockFD, "archives")
             g == GetLock(c, a, "lists")
             r == [p EXCEPT !.acqLockFD = g.fd, !.pc = "end"]
  <1>1. p.pc = "cleaning" /\ Keep(a, g.s) /\ Go(a, r) /\ UNCHANGED Rest
    BY DEF CleanLists, AcquireLock
  <1>2. /\ Now(a) \in States /\ Ok(Now(a), a) /\ Now(a).t = fds[a] /\ p \in Processes /\ Stage(p, fds[a])
    BY Begins
  <1>3. Only(fds[a], Things \ {"lists"})
    BY <1>1, <1>2 DEF Stage
  <1>4. p.acqLockFD \in -1..MaxFd
    BY <1>2 DEF Processes
  <1> HIDE DEF g
  <1>5. c \in States /\ Ok(c, a) /\ Kept(Now(a), c, a) /\ \A m \in Fds : c.t[m] = IF m = p.acqLockFD THEN "none" ELSE fds[a][m]
    BY <1>2, <1>4, Closed
  <1> HIDE DEF c
  <1>6. Absent(c.t, "lists")
    BY <1>3, <1>5 DEF Absent, Only
  <1>7. g.s \in States /\ Ok(g.s, a) /\ Kept(c, g.s, a) /\ (g.fd = -1 \/ g.fd \in Fds)
    BY <1>5, <1>6, GotLock DEF g, Files
  <1>8. Kept(Now(a), g.s, a)
    BY <1>5, <1>7, KeptTrans
  <1>9. r \in Processes /\ r.pc = "end"
    BY <1>2, <1>7, FieldValues DEF Processes
  <1> HIDE DEF r
  <1>10. Stage(r, g.s.t) /\ ~Installs(r)
    BY <1>9, StageEnd
  <1> QED BY <1>1, <1>7, <1>8, <1>9, <1>10, AptOnly

\* A kill closes everything; the dpkg that was started keeps its lock.
LEMMA KilledStep ==
  ASSUME Setup, Parts, NEW a \in Apts, Killed(a)
  PROVE  Parts'
  <1> DEFINE p == apt[a]
             h == [f \in Files |-> IF holder[f] = <<a>> THEN Nobody ELSE holder[f]]
             s == [t |-> NoFds, h |-> h, f |-> foreign]
             r == [p EXCEPT !.pc = "over", !.FrontendLockFD = -1, !.LockFD = -1, !.LockCount = 0, !.acqLockFD = -1]
  <1>1. Keep(a, s) /\ Go(a, r) /\ UNCHANGED Rest
    BY DEF Killed, Keep
  <1>2. p \in Processes /\ Now(a).h = holder
    BY Begins
  <1>3. holder \in [Files -> Holders] /\ foreign \in BOOLEAN
    BY DEF Parts, TypeInv
  <1>4. NoFds \in [Fds -> Things] /\ \A m \in Fds : NoFds[m] = IF m = 0 THEN "stdin" ELSE "none"
    BY DEF NoFds, Fds, Things
  <1>5. h \in [Files -> Holders] /\ \A f \in Files : h[f] = IF holder[f] = <<a>> THEN Nobody ELSE holder[f]
    BY <1>3 DEF Holders
  <1> HIDE DEF h
  <1>6. s \in States /\ s.t = NoFds /\ s.h = h
    BY <1>3, <1>4, <1>5 DEF States
  <1> HIDE DEF s
  <1>7. Ok(s, a)
    BY <1>4, <1>6 DEF Ok, Once, Held, Files
  <1>8. Kept(Now(a), s, a)
    BY <1>2, <1>5, <1>6 DEF Kept
  <1>9. r \in Processes /\ r.pc = "over"
    <2>1. "over" \in Points /\ -1 \in -1..MaxFd /\ 0 \in Int
      BY FieldValues
    <2> QED BY <1>2, <2>1 DEF Processes
  <1> HIDE DEF r
  <1>10. Stage(r, s.t) /\ ~Installs(r)
    BY <1>9, StageEnd
  <1> QED BY <1>1, <1>6, <1>7, <1>8, <1>9, <1>10, AptOnly

-----------------------------------------------------------------------------
(* Steps of dpkg, started by apt or by hand, and of other tools.           *)

\* A file nobody of apt holds may change hands.
LEMMA TablesKept ==
  ASSUME Tables, NEW f \in Files, \A a \in Apts : holder[f] # <<a>>,
         UNCHANGED fds, \A g \in Files : g # f => holder'[g] = holder[g],
         \A a \in Apts : Stage(apt'[a], fds[a])
  PROVE  Tables'
  <1> SUFFICES ASSUME NEW a \in Apts
               PROVE  Once(fds[a]) /\ Held(fds[a], holder', a) /\ Stage(apt'[a], fds[a])
    BY DEF Tables
  <1>1. Once(fds[a]) /\ Held(fds[a], holder, a)
    BY DEF Tables
  <1>2. Held(fds[a], holder', a)
    BY <1>1 DEF Held
  <1> QED BY <1>1, <1>2

\* dpkg starts only with the lock nobody has, and under the plan of its apt.
LEMMA ChildLockStep ==
  ASSUME Setup, locking = "locks", Parts, NEW a \in Apts, ChildLock(a)
  PROVE  Parts'
  <1> USE DEF Parts
  <1>1. /\ dpkg[a] = "starts" /\ UNCHANGED <<fds, apt, others, dpkg_status, foreign>>
        /\ \/ /\ holder["lock"] = Nobody
              /\ holder' = [holder EXCEPT !["lock"] = <<a, "dpkg">>] /\ dpkg' = [dpkg EXCEPT ![a] = "runs"]
           \/ UNCHANGED holder /\ dpkg' = [dpkg EXCEPT ![a] = "failed"]
        /\ intruded' = IF apt[a].pc = "over" THEN intruded \cup {b \in Apts : holder["lock-frontend"] = <<b>>} ELSE intruded
    BY DEF ChildLock
  <1>2. dpkg \in [Apts -> Childs] /\ holder \in [Files -> Holders] /\ "lock" \in Files /\ "lock-frontend" \in Files
    BY DEF TypeInv, Files
  <1>3. /\ \A b \in Apts \ {a} : dpkg'[b] = dpkg[b]
        /\ dpkg'[a] = "runs" \/ dpkg'[a] = "failed"
        /\ dpkg' \in [Apts -> Childs]
    BY <1>1, <1>2 DEF Childs
  <1>4. \A b \in Apts : Stage(apt[b], fds[b])
    BY DEF Tables
  <1>5. CASE /\ holder["lock"] = Nobody
             /\ holder' = [holder EXCEPT !["lock"] = <<a, "dpkg">>] /\ dpkg' = [dpkg EXCEPT ![a] = "runs"]
    <2>1. holder' \in [Files -> Holders] /\ holder'["lock"] = <<a, "dpkg">> /\ \A f \in Files : f # "lock" => holder'[f] = holder[f]
      <3>1. <<a, "dpkg">> \in Holders
        BY DEF Holders
      <3> QED BY <1>2, <1>5, <3>1
    <2>2. TypeInv'
      BY <1>1, <1>3, <2>1 DEF TypeInv
    <2>3. Tables'
      <3>1. \A b \in Apts : holder["lock"] # <<b>>
        BY <1>5, HoldersDiffer
      <3> QED BY <1>1, <1>2, <1>4, <2>1, <3>1, TablesKept
    <2>4. Children'
      <3> SUFFICES ASSUME NEW b \in Apts
                   PROVE  /\ dpkg'[b] \in {"runs", "wrote"} => holder'["lock"] = <<b, "dpkg">>
                          /\ apt[b].pc \notin {"dpkg", "over"} => dpkg'[b] = "none"
        BY <1>1 DEF Children
      <3>1. CASE b = a
        BY <1>1, <2>1, <3>1 DEF Children
      <3>2. CASE b # a
        <4>1. dpkg'[b] = dpkg[b]
          BY <1>3, <3>2
        <4>2. dpkg[b] \notin {"runs", "wrote"}
          BY <1>5, HoldersDiffer DEF Children
        <4> QED BY <4>1, <4>2 DEF Children
      <3> QED BY <3>1, <3>2
    <2>5. Strangers'
      <3>1. \A o \in {"dpkg", "tool"} : others[o] # "runs"
        BY <1>5, HoldersDiffer DEF Strangers
      <3> QED BY <1>1, <1>2, <2>1, <3>1 DEF Strangers
    <2>6. Fresh'
      <3> SUFFICES ASSUME NEW b \in Apts, Installs(apt[b]), b \notin intruded'
                   PROVE  /\ apt[b].plan = dpkg_status
                          /\ \A c \in Apts \ {b} : dpkg'[c] # "runs"
        BY <1>1 DEF Fresh
      <3>1. b \notin intruded
        BY <1>1
      <3>2. holder["lock-frontend"] = <<b>>
        BY HasFrontend
      <3>3. b = a
        <4>1. apt[a].pc \in {"dpkg", "over"}
          BY <1>1 DEF Children
        <4>2. CASE apt[a].pc = "over"
          BY <1>1, <3>2, <4>2
        <4>3. CASE apt[a].pc = "dpkg"
          <5>1. Installs(apt[a])
            BY <4>3 DEF Installs
          <5>2. holder["lock-frontend"] = <<a>>
            BY <5>1, HasFrontend
          <5> QED BY <3>2, <5>2, HoldersDiffer
        <4> QED BY <4>1, <4>2, <4>3
      <3> QED BY <1>3, <3>1, <3>3 DEF Fresh
    <2> QED BY <2>2, <2>3, <2>4, <2>5, <2>6
  <1>6. CASE UNCHANGED holder /\ dpkg' = [dpkg EXCEPT ![a] = "failed"]
    <2>1. \A b \in Apts : dpkg'[b] = IF b = a THEN "failed" ELSE dpkg[b]
      BY <1>2, <1>6
    <2>2. TypeInv'
      BY <1>1, <1>3, <1>6 DEF TypeInv
    <2>3. Tables'
      BY <1>1, <1>6 DEF Tables, Once, Held
    <2>4. Children'
      BY <1>1, <1>6, <2>1 DEF Children
    <2>5. Strangers'
      BY <1>1, <1>6 DEF Strangers
    <2>6. Fresh'
      BY <1>1, <2>1 DEF Fresh
    <2> QED BY <2>2, <2>3, <2>4, <2>5, <2>6
  <1> QED BY <1>1, <1>5, <1>6

\* Only the plan of the apt whose dpkg writes is as new as the status file.
LEMMA ChildWritesStep ==
  ASSUME Setup, locking = "locks", Parts, NEW a \in Apts, ChildWrites(a)
  PROVE  Parts'
  <1> USE DEF Parts
  <1> DEFINE p == apt[a]
             n == IF p.plan = dpkg_status THEN dpkg_status + 1 ELSE p.plan
             r == [p EXCEPT !.plan = n]
  <1>1. /\ dpkg[a] = "runs" /\ dpkg' = [dpkg EXCEPT ![a] = "wrote"] /\ dpkg_status' = dpkg_status + 1
        /\ UNCHANGED <<fds, holder, others, intruded, foreign>>
    BY DEF ChildWrites
  <1>2. dpkg \in [Apts -> Childs] /\ apt \in [Apts -> Processes] /\ p \in Processes /\ dpkg_status \in Int
    BY DEF TypeInv
  <1>3. apt' = [apt EXCEPT ![a] = r]
    BY <1>2 DEF ChildWrites
  <1>4. n \in Int /\ dpkg_status + 1 \in Int
    BY <1>2 DEF Processes
  <1>5. n = IF p.plan = dpkg_status THEN dpkg_status + 1 ELSE p.plan
    OBVIOUS
  <1> HIDE DEF n
  <1>6. /\ r \in Processes /\ r.pc = p.pc /\ r.cmd = p.cmd /\ r.FrontendLockFD = p.FrontendLockFD /\ r.LockFD = p.LockFD
        /\ r.acqLockFD = p.acqLockFD /\ r.plan = n
    BY <1>2, <1>4 DEF Processes
  <1> HIDE DEF r
  <1>7. /\ \A b \in Apts : apt'[b] = IF b = a THEN r ELSE apt[b]
        /\ \A b \in Apts : dpkg'[b] = IF b = a THEN "wrote" ELSE dpkg[b]
    BY <1>1, <1>2, <1>3
  <1>8. TypeInv'
    BY <1>1, <1>2, <1>3, <1>4, <1>6 DEF TypeInv, Childs
  <1>9. Tables'
    <2> SUFFICES ASSUME NEW b \in Apts
                 PROVE  Once(fds[b]) /\ Held(fds[b], holder, b) /\ Stage(apt'[b], fds[b])
      BY <1>1 DEF Tables
    <2>1. Once(fds[b]) /\ Held(fds[b], holder, b) /\ Stage(apt[b], fds[b])
      BY DEF Tables
    <2> QED BY <1>6, <1>7, <2>1, StageOf
  <1>10. Children'
    BY <1>1, <1>6, <1>7 DEF Children
  <1>11. Strangers'
    BY <1>1 DEF Strangers
  <1>12. Fresh'
    <2> SUFFICES ASSUME NEW b \in Apts, Installs(apt'[b]), b \notin intruded
                 PROVE  /\ apt'[b].plan = dpkg_status + 1
                        /\ \A c \in Apts \ {b} : dpkg'[c] # "runs"
      BY <1>1 DEF Fresh
    <2>1. Installs(apt[b])
      BY <1>6, <1>7 DEF Installs
    <2>2. apt[b].plan = dpkg_status /\ \A c \in Apts \ {b} : dpkg[c] # "runs"
      BY <2>1 DEF Fresh
    <2>3. b = a
      BY <1>1, <2>2
    <2> QED BY <1>5, <1>6, <1>7, <2>2, <2>3
  <1> QED BY <1>8, <1>9, <1>10, <1>11, <1>12

\* dpkg gives its lock up.
LEMMA ChildEndsStep ==
  ASSUME Setup, locking = "locks", Parts, NEW a \in Apts, ChildEnds(a)
  PROVE  Parts'
  <1> USE DEF Parts
  <1>1. dpkg[a] \in {"runs", "wrote"} /\ UNCHANGED <<fds, apt, others, dpkg_status, intruded, foreign>>
    BY DEF ChildEnds
  <1>2. holder["lock"] = <<a, "dpkg">>
    BY <1>1 DEF Children
  <1>3. holder' = [holder EXCEPT !["lock"] = Nobody]
    BY <1>2 DEF ChildEnds
  <1>4. PICK x \in {"failed", "done"} : dpkg' = [dpkg EXCEPT ![a] = x]
    BY DEF ChildEnds
  <1>5. dpkg \in [Apts -> Childs] /\ holder \in [Files -> Holders] /\ "lock" \in Files /\ "lock-frontend" \in Files /\ Nobody \in Holders
    BY DEF TypeInv, Files, Holders
  <1>6. holder' \in [Files -> Holders] /\ \A f \in Files : f # "lock" => holder'[f] = holder[f]
    BY <1>3, <1>5
  <1>7. dpkg' \in [Apts -> Childs] /\ \A b \in Apts : dpkg'[b] = IF b = a THEN x ELSE dpkg[b]
    BY <1>4, <1>5 DEF Childs
  <1>8. TypeInv'
    BY <1>1, <1>6, <1>7 DEF TypeInv
  <1>9. Tables'
    <2>1. \A b \in Apts : holder["lock"] # <<b>> /\ Stage(apt[b], fds[b])
      BY <1>2, HoldersDiffer DEF Tables
    <2> QED BY <1>1, <1>5, <1>6, <2>1, TablesKept
  <1>10. Children'
    <2> SUFFICES ASSUME NEW b \in Apts
                 PROVE  /\ dpkg'[b] \in {"runs", "wrote"} => holder'["lock"] = <<b, "dpkg">>
                        /\ apt[b].pc \notin {"dpkg", "over"} => dpkg'[b] = "none"
      BY <1>1 DEF Children
    <2>1. CASE b = a
      BY <1>1, <1>7, <2>1 DEF Children
    <2>2. CASE b # a
      <3>1. dpkg[b] \notin {"runs", "wrote"}
        BY <1>2, <2>2, HoldersDiffer DEF Children
      <3> QED BY <1>7, <2>2, <3>1 DEF Children
    <2> QED BY <2>1, <2>2
  <1>11. Strangers'
    <2>1. \A o \in {"dpkg", "tool"} : others[o] # "runs"
      BY <1>2, HoldersDiffer DEF Strangers
    <2> QED BY <1>1, <1>5, <1>6, <2>1 DEF Strangers
  <1>12. Fresh'
    BY <1>1, <1>7 DEF Fresh
  <1> QED BY <1>8, <1>9, <1>10, <1>11, <1>12

\* dpkg by hand waits for the frontend lock; a tool that does not is noted in intruded.
LEMMA OtherLocksStep ==
  ASSUME Setup, locking = "locks", Parts, NEW o \in {"dpkg", "tool"}, OtherLocks(o)
  PROVE  Parts'
  <1> USE DEF Parts
  <1>1. UNCHANGED <<fds, apt, dpkg, foreign>>
    BY DEF OtherLocks
  <1>2. /\ others \in [{"dpkg", "tool"} -> {"none", "frontend", "runs"}] /\ holder \in [Files -> Holders] /\ dpkg_status \in Int
        /\ "lock" \in Files /\ "lock-frontend" \in Files /\ <<o>> \in Holders
    BY DEF TypeInv, Files, Holders
  <1>3. CASE /\ o = "dpkg" /\ others[o] = "none" /\ holder["lock-frontend"] = Nobody
             /\ holder' = [holder EXCEPT !["lock-frontend"] = <<o>>] /\ others' = [others EXCEPT ![o] = "frontend"]
             /\ UNCHANGED <<dpkg_status, intruded>>
    <2>1. /\ holder' \in [Files -> Holders] /\ holder'["lock-frontend"] = <<o>>
          /\ \A f \in Files : f # "lock-frontend" => holder'[f] = holder[f]
      BY <1>2, <1>3
    <2>2. /\ others' \in [{"dpkg", "tool"} -> {"none", "frontend", "runs"}]
          /\ others'["dpkg"] = "frontend" /\ others'["tool"] = others["tool"]
      BY <1>2, <1>3
    <2>3. TypeInv'
      BY <1>1, <1>3, <2>1, <2>2 DEF TypeInv
    <2>4. Tables'
      <3>1. \A b \in Apts : holder["lock-frontend"] # <<b>> /\ Stage(apt[b], fds[b])
        BY <1>3, HoldersDiffer DEF Tables
      <3> QED BY <1>1, <1>2, <2>1, <3>1, TablesKept
    <2>5. Children'
      BY <1>1, <1>2, <2>1 DEF Children
    <2>6. Strangers'
      BY <1>2, <1>3, <2>1, <2>2 DEF Strangers
    <2>7. Fresh'
      BY <1>1, <1>3 DEF Fresh
    <2> QED BY <2>3, <2>4, <2>5, <2>6, <2>7
  <1>4. CASE /\ others[o] = (IF o = "dpkg" THEN "frontend" ELSE "none") /\ holder["lock"] = Nobody
             /\ holder' = [holder EXCEPT !["lock"] = <<o>>] /\ others' = [others EXCEPT ![o] = "runs"]
             /\ dpkg_status' = dpkg_status + 1
             /\ intruded' = IF o = "tool" THEN intruded \cup {a \in Apts : holder["lock-frontend"] = <<a>>} ELSE intruded
    <2>1. /\ holder' \in [Files -> Holders] /\ holder'["lock"] = <<o>>
          /\ \A f \in Files : f # "lock" => holder'[f] = holder[f]
      BY <1>2, <1>4
    <2>2. /\ others' \in [{"dpkg", "tool"} -> {"none", "frontend", "runs"}]
          /\ \A x \in {"dpkg", "tool"} : others'[x] = IF x = o THEN "runs" ELSE others[x]
      BY <1>2, <1>4
    <2>3. TypeInv'
      BY <1>1, <1>2, <1>4, <2>1, <2>2 DEF TypeInv
    <2>4. Tables'
      <3>1. \A b \in Apts : holder["lock"] # <<b>> /\ Stage(apt[b], fds[b])
        BY <1>4, HoldersDiffer DEF Tables
      <3> QED BY <1>1, <1>2, <2>1, <3>1, TablesKept
    <2>5. Children'
      <3>1. \A b \in Apts : dpkg[b] \notin {"runs", "wrote"}
        BY <1>4, HoldersDiffer DEF Children
      <3> QED BY <1>1, <3>1 DEF Children
    <2>6. Strangers'
      <3>1. \A x \in {"dpkg", "tool"} : others[x] # "runs"
        BY <1>4, HoldersDiffer DEF Strangers
      <3> QED BY <1>2, <1>4, <2>1, <2>2, <3>1 DEF Strangers
    <2>7. Fresh'
      <3> SUFFICES ASSUME NEW b \in Apts, Installs(apt[b]), b \notin intruded' PROVE FALSE
        BY <1>1 DEF Fresh
      <3>1. holder["lock-frontend"] = <<b>>
        BY HasFrontend
      <3>2. CASE o = "tool"
        BY <1>4, <3>1, <3>2
      <3>3. CASE o = "dpkg"
        <4>1. holder["lock-frontend"] = <<"dpkg">>
          BY <1>4, <3>3 DEF Strangers
        <4> QED BY <3>1, <4>1, HoldersDiffer DEF Setup
      <3> QED BY <3>2, <3>3
    <2> QED BY <2>3, <2>4, <2>5, <2>6, <2>7
  <1> QED BY <1>3, <1>4 DEF OtherLocks

\* dpkg by hand, or the tool, gives up what it holds.
LEMMA OtherEndsStep ==
  ASSUME Setup, locking = "locks", Parts, NEW o \in {"dpkg", "tool"}, OtherEnds(o)
  PROVE  Parts'
  <1> USE DEF Parts
  <1>1. /\ UNCHANGED <<fds, apt, dpkg, dpkg_status, intruded, foreign>> /\ others' = [others EXCEPT ![o] = "none"]
        /\ holder' = [f \in Files |-> IF holder[f] = <<o>> THEN Nobody ELSE holder[f]]
    BY DEF OtherEnds
  <1>2. /\ others \in [{"dpkg", "tool"} -> {"none", "frontend", "runs"}] /\ holder \in [Files -> Holders]
        /\ "lock" \in Files /\ "lock-frontend" \in Files /\ Nobody \in Holders
    BY DEF TypeInv, Files, Holders
  <1>3. holder' \in [Files -> Holders] /\ \A f \in Files : holder'[f] = IF holder[f] = <<o>> THEN Nobody ELSE holder[f]
    BY <1>1, <1>2
  <1>4. /\ others' \in [{"dpkg", "tool"} -> {"none", "frontend", "runs"}]
        /\ \A x \in {"dpkg", "tool"} : others'[x] = IF x = o THEN "none" ELSE others[x]
    BY <1>1, <1>2
  <1>5. \A f \in Files, a \in Apts : /\ holder[f] = <<a>> => holder'[f] = <<a>>
                                     /\ holder[f] = <<a, "dpkg">> => holder'[f] = <<a, "dpkg">>
    BY <1>3, HoldersDiffer DEF Setup
  <1>6. TypeInv'
    BY <1>1, <1>3, <1>4 DEF TypeInv
  <1>7. Tables'
    <2> SUFFICES ASSUME NEW b \in Apts
                 PROVE  Once(fds[b]) /\ Held(fds[b], holder', b) /\ Stage(apt[b], fds[b])
      BY <1>1 DEF Tables
    <2> QED BY <1>5 DEF Tables, Held
  <1>8. Children'
    BY <1>1, <1>2, <1>5 DEF Children
  <1>9. Strangers'
    <2>1. \A x \in {"dpkg", "tool"}, f \in Files : x # o /\ holder[f] = <<x>> => holder'[f] = <<x>>
      BY <1>3, HoldersDiffer
    <2> QED BY <1>2, <1>4, <2>1 DEF Strangers
  <1>10. Fresh'
    BY <1>1 DEF Fresh
  <1> QED BY <1>6, <1>7, <1>8, <1>9, <1>10

-----------------------------------------------------------------------------
(* The specification.                                                      *)

\* At the start nothing is open but stdin, nobody holds a lock and no dpkg runs.
LEMMA Starts ==
  ASSUME Setup, Init
  PROVE  Parts
  <1>1. PICK c \in [Apts -> UNION {Commands[a] : a \in Apts}], t \in [Apts -> UNION {Timeouts[a] : a \in Apts}] :
          /\ \A a \in Apts : c[a] \in Commands[a] /\ t[a] \in Timeouts[a]
          /\ apt = [a \in Apts |-> [pc |-> "start", cmd |-> c[a], FrontendLockFD |-> -1, LockFD |-> -1, LockCount |-> 0,
                                    acqLockFD |-> -1, Timeout |-> t[a], timeout |-> t[a], i |-> 0, slept |-> 0, plan |-> 0,
                                    swaps |-> 0]]
    BY DEF Init
  <1>2. /\ holder = [f \in Files |-> Nobody] /\ fds = [a \in Apts |-> NoFds] /\ dpkg = [a \in Apts |-> "none"]
        /\ others = [o \in {"dpkg", "tool"} |-> "none"] /\ dpkg_status = 0 /\ foreign = FALSE
    BY DEF Init
  <1>3. NoFds \in [Fds -> Things] /\ \A m \in Fds : NoFds[m] = IF m = 0 THEN "stdin" ELSE "none"
    BY DEF NoFds, Fds, Things
  <1>4. \A a \in Apts : apt[a].pc = "start" /\ apt[a].acqLockFD = -1
    BY <1>1
  <1>5. apt \in [Apts -> Processes]
    <2> SUFFICES ASSUME NEW a \in Apts PROVE apt[a] \in Processes
      BY <1>1
    <2>1. "start" \in Points /\ -1 \in -1..MaxFd /\ 0 \in Int
      BY DEF Points, MaxFd
    <2>2. c[a] \in UNION {Commands[b] : b \in Apts} /\ t[a] \in Int
      BY <1>1 DEF Setup
    <2> QED BY <1>1, <2>1, <2>2 DEF Processes
  <1>6. TypeInv
    <2>1. Nobody \in Holders
      BY DEF Holders
    <2>2. "none" \in Childs
      BY DEF Childs
    <2>3. fds \in [Apts -> [Fds -> Things]] /\ holder \in [Files -> Holders]
      BY <1>2, <1>3, <2>1
    <2>4. dpkg \in [Apts -> Childs] /\ others \in [{"dpkg", "tool"} -> {"none", "frontend", "runs"}]
      BY <1>2, <2>2
    <2>5. dpkg_status \in Int
      BY <1>2
    <2>6. foreign \in BOOLEAN
      BY <1>2
    <2> QED BY <1>5, <2>3, <2>4, <2>5, <2>6 DEF TypeInv
  <1>7. Tables
    <2> SUFFICES ASSUME NEW a \in Apts
                 PROVE  Once(fds[a]) /\ Held(fds[a], holder, a) /\ Stage(apt[a], fds[a])
      BY DEF Tables
    <2>1. fds[a] = NoFds
      BY <1>2
    <2>2. Once(fds[a]) /\ Held(fds[a], holder, a)
      BY <1>3, <2>1 DEF Once, Held, Files
    <2>3. Only(fds[a], {"none", "stdin"})
      BY <1>3, <2>1 DEF Only
    <2>4. Stage(apt[a], fds[a])
      BY <1>4, <2>3 DEF Stage, UnderLock, Installs
    <2> QED BY <2>2, <2>4
  <1>8. Children
    BY <1>2 DEF Children
  <1>9. Strangers
    BY <1>2 DEF Strangers
  <1>10. Fresh
    BY <1>4 DEF Fresh, Installs
  <1> QED BY <1>6, <1>7, <1>8, <1>9, <1>10 DEF Parts

\* What the file system does with locks does not change.
LEMMA LockingStays ==
  ASSUME [Next]_lockvars
  PROVE  locking' = locking
  <1>1. CASE UNCHANGED lockvars
    BY <1>1 DEF lockvars
  <1>2. ASSUME NEW a \in Apts,
               \/ LockFrontend(a) \/ LockInner(a) \/ CheckUpdates(a) \/ Plan(a) \/ LockArchives(a) \/ Fetch(a)
               \/ UnLockInner(a) \/ End(a) \/ Update(a) \/ Clean(a) \/ CleanLists(a) \/ AutoClean(a) \/ Killed(a)
        PROVE  locking' = locking
    BY <1>2 DEF Rest, LockFrontend, LockInner, CheckUpdates, Plan, LockArchives, Fetch, UnLockInner, End, Update, Clean,
                CleanLists, AutoClean, Killed
  <1>3. ASSUME NEW a \in Apts, OpenLog(a) \/ ChildLock(a) \/ ChildWrites(a) \/ ChildEnds(a) \/ Installed(a)
        PROVE  locking' = locking
    BY <1>3 DEF OpenLog, ChildLock, ChildWrites, ChildEnds, Installed
  <1>4. ASSUME NEW o \in {"dpkg", "tool"}, OtherLocks(o) \/ OtherEnds(o)
        PROVE  locking' = locking
    BY <1>4 DEF OtherLocks, OtherEnds
  <1> QED BY <1>1, <1>2, <1>3, <1>4 DEF Next

\* Every step keeps the invariant where files can be locked.
LEMMA StepKeeps ==
  ASSUME Setup, locking = "locks", Parts, [Next]_lockvars
  PROVE  Parts'
  <1>1. CASE UNCHANGED lockvars
    BY <1>1 DEF lockvars, Parts, TypeInv, Tables, Children, Strangers, Fresh
  <1>2. ASSUME NEW a \in Apts, LockFrontend(a) \/ LockInner(a) \/ CheckUpdates(a) \/ Plan(a) \/ LockArchives(a) \/ Fetch(a)
        PROVE  Parts'
    BY <1>2, LockFrontendStep, LockInnerStep, CheckUpdatesStep, PlanStep, LockArchivesStep, FetchStep
  <1>3. ASSUME NEW a \in Apts, UnLockInner(a) \/ OpenLog(a) \/ Installed(a) \/ End(a) \/ CleanLists(a) \/ Killed(a)
        PROVE  Parts'
    BY <1>3, UnLockInnerStep, OpenLogStep, InstalledStep, EndStep, CleanListsStep, KilledStep
  <1>4. ASSUME NEW a \in Apts, Update(a) \/ Clean(a) \/ AutoClean(a)
        PROVE  Parts'
    BY <1>4, DirectoryStep
  <1>5. ASSUME NEW a \in Apts, ChildLock(a) \/ ChildWrites(a) \/ ChildEnds(a)
        PROVE  Parts'
    BY <1>5, ChildLockStep, ChildWritesStep, ChildEndsStep
  <1>6. ASSUME NEW o \in {"dpkg", "tool"}, OtherLocks(o) \/ OtherEnds(o)
        PROVE  Parts'
    BY <1>6, OtherLocksStep, OtherEndsStep
  <1> QED BY <1>1, <1>2, <1>3, <1>4, <1>5, <1>6 DEF Next

\* A set whose elements are all the same has at most one.
LEMMA AtMostOne ==
  ASSUME NEW S, \A x, y \in S : x = y
  PROVE  Cardinality(S) <= 1
  <1>1. CASE S = {}
    BY <1>1, FS_EmptySet
  <1>2. CASE S # {}
    <2>1. PICK x : x \in S
      BY <1>2
    <2>2. S = {x}
      BY <2>1
    <2> QED BY <2>2, FS_Singleton
  <1> QED BY <1>1, <1>2

\* The parts of the invariant say what PlanFresh says: who writes holds dpkg's lock, who uses the archives theirs.
LEMMA PartsProtect ==
  ASSUME Setup, Parts
  PROVE  /\ Cardinality(Writers) <= 1
         /\ Cardinality(UsesArchives) <= 1
         /\ \A a \in Apts : dpkg[a] = "runs" /\ apt[a].pc = "dpkg" /\ a \notin intruded => apt[a].plan = dpkg_status
  <1>1. \A x, y \in Writers : x = y
    <2>1. \A x \in Writers : \/ x \in Apts /\ holder["lock"] = <<x, "dpkg">>
                             \/ x \in {"dpkg", "tool"} /\ holder["lock"] = <<x>>
      BY DEF Parts, Writers, Children, Strangers
    <2> QED BY <2>1, HoldersDiffer
  <1>2. ASSUME NEW a \in UsesArchives
        PROVE  holder["archives"] = <<a>>
    <2>1. a \in Apts /\ Once(fds[a]) /\ Held(fds[a], holder, a) /\ Stage(apt[a], fds[a]) /\ apt[a] \in Processes
      BY <1>2 DEF UsesArchives, Parts, Tables, TypeInv
    <2>2. Is(fds[a], apt[a].acqLockFD, "archives")
      <3>1. CASE apt[a].pc \in {"fetch", "unlockinner", "openlog", "dpkg"} /\ apt[a].cmd \in {"install", "download"}
        BY <2>1, <3>1 DEF Stage
      <3>2. CASE apt[a].acqLockFD # -1 /\ fds[a][apt[a].acqLockFD] = "archives"
        BY <2>1, <3>2 DEF Processes, Is, Fds, MaxFd
      <3> QED BY <1>2, <3>1, <3>2 DEF UsesArchives
    <2> QED BY <2>1, <2>2 DEF Is, Held, Files
  <1>3. \A x, y \in UsesArchives : x = y
    BY <1>2, HoldersDiffer
  <1>4. \A a \in Apts : dpkg[a] = "runs" /\ apt[a].pc = "dpkg" /\ a \notin intruded => apt[a].plan = dpkg_status
    BY DEF Parts, Fresh, Installs
  <1> QED BY <1>1, <1>3, <1>4, AtMostOne

(* For any processes, commands and timeouts, where the file system locks:  *)
(* one dpkg writes at a time, one apt uses the directory of the archives,  *)
(* and the status file apt's dpkg starts from is the one of apt's plan     *)
(* (debSystem::Lock, LockInner and UnLockInner, pkgAcquire::GetLock).      *)
THEOREM PlansAreFresh ==
  ASSUME Setup
  PROVE  Spec => []PlanFresh
  <1>1. Init => Inv
    BY Starts DEF Inv, Parts
  <1>2. Inv /\ [Next]_lockvars => Inv'
    BY LockingStays, StepKeeps DEF Inv, Parts
  <1>3. Inv => PlanFresh
    BY PartsProtect DEF Inv, Parts, PlanFresh
  <1> QED BY <1>1, <1>2, <1>3, PTL DEF Spec

-----------------------------------------------------------------------------
(* What apt opens it closes: OwnDescriptors, for every kind of file        *)
(* system.                                                                 *)

\* the locks apt has to give up, and where the numbers it remembers for them lead to
KeepsFrontend(p) == p.LockCount = 1 \/ p.pc \in {"inner", "checkupdates"}
KeepsLock(p) == p.LockCount = 1 \/ p.pc = "checkupdates"
LockIs(pc) ==
  CASE pc = "openlog" -> {"none"} [] pc = "dpkg" -> {"none", "log"} [] pc = "end" -> {"none", "lock", "stdin"}
    [] OTHER -> {"lock", "stdin"}
Directory(p) == IF p.cmd = "update" \/ (p.cmd = "clean" /\ p.pc # "cleaning") THEN "lists" ELSE "archives"
Numbers == 1..MaxFd

\* Each open file has an owner who will close it: a number is closed, a pipe or
\* log, or remembered for what it stands for.
Owners(p, t) ==
  /\ t[0] = "stdin"
  /\ \A n \in Numbers : \/ t[n] \in {"none", "pipe", "log"}
                        \/ n = p.FrontendLockFD /\ KeepsFrontend(p)
                        \/ n = p.LockFD /\ KeepsLock(p)
                        \/ n = p.acqLockFD
Remembered(p, t) ==
  /\ KeepsFrontend(p) => p.FrontendLockFD \in Numbers /\ t[p.FrontendLockFD] \in {"lock-frontend", "stdin"}
  /\ KeepsLock(p) => p.LockFD = -1 \/ (p.LockFD \in Numbers /\ t[p.LockFD] \in LockIs(p.pc))
  /\ p.acqLockFD = -1 \/ (p.acqLockFD \in Numbers /\ t[p.acqLockFD] \in {Directory(p), "stdin"})
OnePlain(p, t) ==
  /\ \A m, n \in Numbers : t[m] = t[n] /\ t[m] \in {"pipe", "log"} => m = n
  /\ \A n \in Numbers : /\ t[n] = "pipe" => p.pc \in {"unlockinner", "openlog", "dpkg", "end"}
                        /\ t[n] = "log" => p.pc = "dpkg"

\* how often the lock is counted at each point, and whose points those are
Control(p) ==
  /\ p.pc \in {"plan", "lockarchives", "unlockinner", "openlog", "dpkg"} => p.LockCount = 1
  /\ p.pc = "fetch" => p.LockCount = IF p.cmd = "install" THEN 1 ELSE 0
  /\ p.pc \in {"start", "inner", "checkupdates", "cleaning", "over"} => p.LockCount = 0
  /\ p.pc = "end" => p.LockCount \in {0, 1}
  /\ p.pc \in {"inner", "checkupdates", "plan", "lockarchives"} => p.cmd \in {"install", "download"}
  /\ p.pc = "fetch" => p.cmd \in {"install", "download", "update"}
  /\ p.pc \in {"unlockinner", "openlog", "dpkg"} => p.cmd = "install"
  /\ p.pc = "cleaning" => p.cmd = "clean"
  /\ p.pc \in {"start", "inner", "checkupdates", "plan", "lockarchives", "over"} => p.acqLockFD = -1

\* what was slept and what may still be
Waited(p) ==
  /\ p.Timeout = 0 => p.timeout = 0 /\ p.slept = 0
  /\ p.Timeout > 0 => p.slept <= p.Timeout
  /\ p.Timeout > 0 /\ p.pc \in {"start", "inner"} => 0 <= p.i /\ p.i < p.timeout /\ p.slept + p.timeout - p.i <= p.Timeout

\* a number is remembered for one thing
Distinct(p) ==
  /\ KeepsLock(p) => p.FrontendLockFD # p.LockFD /\ (p.LockFD # -1 => p.LockFD # p.acqLockFD)
  /\ KeepsFrontend(p) => p.FrontendLockFD # p.acqLockFD

Mine(p, t) == Owners(p, t) /\ Remembered(p, t) /\ OnePlain(p, t) /\ Control(p) /\ Waited(p) /\ Distinct(p)

\* for every kind of file system: what an apt has open it will close
OwnInv ==
  /\ fds \in [Apts -> [Fds -> Things]] /\ apt \in [Apts -> Processes] /\ foreign = FALSE /\ dpkg_status \in Int
  /\ \A a \in Apts : Mine(apt[a], fds[a])

\* a state of descriptors and locks in which no foreign descriptor was closed
Calm(s) == \E t \in [Fds -> Things] : \E h : s = [t |-> t, h |-> h, f |-> FALSE]
Emptied(t, n, u) == \A m \in Fds : u[m] = IF m = n THEN "none" ELSE t[m]
Filled(t, n, what, u) == n \in Numbers /\ t[n] = "none" /\ \A m \in Fds : u[m] = IF m = n THEN what ELSE t[m]
Stripped(t, what, u) == \A m \in Fds : u[m] = IF t[m] = what THEN "none" ELSE t[m]
Room(t) == t[0] = "stdin" /\ \E n \in Numbers : t[n] = "none"

\* Numbers are descriptors.
LEMMA NumbersAre == /\ Numbers \subseteq Fds /\ 0 \in Fds /\ 0 \notin Numbers /\ -1 \notin Fds
                    /\ \A n \in -1..MaxFd : n = -1 \/ n \in Fds
                    /\ \A n \in Fds : n = 0 \/ n \in Numbers
                    /\ \A n \in Numbers : n # -1 /\ n \in -1..MaxFd
  BY DEF Numbers, Fds, MaxFd

\* close() of a number that leads to what is meant, or nowhere, hits nothing else.
LEMMA CloseOwn ==
  ASSUME NEW a, NEW s, Calm(s), NEW n \in -1..MaxFd, NEW what, n = -1 \/ s.t[n] \in {what, "stdin", "none"},
         NEW c, c = Close(s, a, n, what)
  PROVE  Calm(c) /\ Emptied(s.t, n, c.t)
  <1>1. CASE n = -1 \/ s.t[n] = "none"
    <2>1. c = s
      BY <1>1 DEF Close
    <2> QED BY <1>1, <2>1, NumbersAre DEF Emptied
  <1>2. CASE n # -1 /\ s.t[n] # "none"
    <2>1. n \in Fds /\ s.t \in [Fds -> Things] /\ s.f = FALSE
      BY <1>2, NumbersAre DEF Calm
    <2>0. (s.f \/ s.t[n] \notin {what, "stdin"}) = FALSE
      BY <1>2, <2>1
    <2>2. c = [t |-> [s.t EXCEPT ![n] = "none"],
               h |-> [f \in Files |-> IF f = s.t[n] /\ s.h[f] = <<a>> THEN Nobody ELSE s.h[f]],
               f |-> s.f \/ s.t[n] \notin {what, "stdin"}]
      BY <1>2 DEF Close
    <2>3. c = [t |-> [s.t EXCEPT ![n] = "none"],
               h |-> [f \in Files |-> IF f = s.t[n] /\ s.h[f] = <<a>> THEN Nobody ELSE s.h[f]], f |-> FALSE]
      BY <2>0, <2>2
    <2>4. c.t = [s.t EXCEPT ![n] = "none"] /\ "none" \in Things
      BY <2>3 DEF Things
    <2>5. c.t \in [Fds -> Things]
      BY <2>1, <2>4
    <2> QED BY <2>1, <2>3, <2>4, <2>5 DEF Calm, Emptied
  <1> QED BY <1>1, <1>2

\* The lowest free number is one.
LEMMA FreeNumber ==
  ASSUME NEW t, Room(t)
  PROVE  LowestFree(t) \in Numbers /\ t[LowestFree(t)] = "none"
  <1> DEFINE F == {m \in Fds : t[m] = "none"}
  <1>2. F \in SUBSET Nat /\ F # {}
    BY NumbersAre DEF Fds, MaxFd, Room
  <1>3. IsWellFoundedOn(OpToRel(<, Nat), Nat)
    BY NatLessThanWellFounded
  <1>4. PICK x \in F : \A y \in F : ~(<<y, x>> \in OpToRel(<, Nat))
    BY <1>2, <1>3, WFMin
  <1>5. \A y \in F : ~(y < x)
    BY <1>2, <1>4 DEF OpToRel
  <1>6. \A m \in 0..x - 1 : t[m] # "none"
    <2> SUFFICES ASSUME NEW m \in 0..x - 1, t[m] = "none" PROVE FALSE
      OBVIOUS
    <2>1. x \in Fds
      BY <1>4
    <2>2. m \in Fds /\ m < x
      BY <2>1 DEF Fds, MaxFd
    <2> QED BY <1>5, <2>2
  <1>7. LowestFree(t) \in Fds /\ t[LowestFree(t)] = "none"
    BY <1>4, <1>6 DEF LowestFree, Fds
  <1> QED BY <1>7, NumbersAre DEF Room

\* Locks, a pipe and a log are fewer than there are numbers.
LEMMA EnoughNumbers ==
  ASSUME NEW t, t[0] = "stdin", NEW f, NEW l, NEW c,
         \A n \in Numbers : t[n] \in {"none", "pipe", "log"} \/ n = f \/ n = l \/ n = c,
         \A m, n \in Numbers : t[m] = t[n] /\ t[m] \in {"pipe", "log"} => m = n
  PROVE  Room(t)
  <1> SUFFICES ASSUME \A n \in Numbers : t[n] # "none" PROVE FALSE
    BY DEF Room
  <1>1. PICK x : \A n \in Numbers : t[n] = "pipe" => n = x
    OBVIOUS
  <1>2. PICK y : \A n \in Numbers : t[n] = "log" => n = y
    OBVIOUS
  <1>3. \A n \in Numbers : n = f \/ n = l \/ n = c \/ n = x \/ n = y
    BY <1>1, <1>2
  <1>4. 1 \in Numbers /\ 2 \in Numbers /\ 3 \in Numbers /\ 4 \in Numbers /\ 5 \in Numbers /\ 6 \in Numbers
    BY DEF Numbers, MaxFd
  <1>5. \A n \in {1, 2, 3, 4, 5, 6} : n = f \/ n = l \/ n = c \/ n = x \/ n = y
    BY <1>3, <1>4
  <1> QED BY ONLY <1>5

\* A new file takes a number nothing else has.
LEMMA OpenOwn ==
  ASSUME NEW s, Calm(s), Room(s.t), NEW what \in Things, NEW u, u = Opened(s, what)
  PROVE  Calm(u) /\ u.h = s.h /\ Filled(s.t, LowestFree(s.t), what, u.t)
  <1> DEFINE n == LowestFree(s.t)
  <1>1. n \in Numbers /\ s.t[n] = "none" /\ n \in Fds
    BY FreeNumber, NumbersAre
  <1>2. PICK t, h : t \in [Fds -> Things] /\ s = [t |-> t, h |-> h, f |-> FALSE]
    BY DEF Calm
  <1>3. u = [s EXCEPT !.t[n] = what]
    BY DEF Opened
  <1> HIDE DEF n
  <1>4. u = [t |-> [t EXCEPT ![n] = what], h |-> h, f |-> FALSE]
    BY <1>2, <1>3
  <1>5. u.t = [t EXCEPT ![n] = what] /\ u.h = s.h /\ s.t = t
    <2>1. s.t = t /\ s.h = h
      BY <1>2
    <2>2. u.t = [t EXCEPT ![n] = what] /\ u.h = h
      BY <1>4
    <2> QED BY <2>1, <2>2
  <1>6. t \in [Fds -> Things]
    BY <1>2
  <1>7. u.t \in [Fds -> Things]
    BY <1>1, <1>5, <1>6
  <1>8. Filled(s.t, n, what, u.t)
    BY <1>1, <1>5, <1>6 DEF Filled
  <1> QED BY <1>4, <1>5, <1>7, <1>8 DEF Calm, n

\* GetLock changes nothing, or gives a number that leads to the file or to no file at all.
LEMMA LockOwn ==
  ASSUME NEW a, NEW s, Calm(s), Room(s.t), NEW f \in Files, NEW g, g = GetLock(s, a, f)
  PROVE  /\ Calm(g.s)
         /\ \/ g.fd = -1 /\ g.s = s
            \/ g.fd # -1 /\ \E x \in {f, "stdin"} : Filled(s.t, g.fd, x, g.s.t)
  <1>1. f \in Things /\ "stdin" \in Things
    BY DEF Things
  <1>2. CASE g = [s |-> s, fd |-> -1]
    BY <1>2
  <1>3. CASE g = [s |-> Opened(s, "stdin"), fd |-> LowestFree(s.t)]
    <2>1. Calm(Opened(s, "stdin")) /\ Filled(s.t, LowestFree(s.t), "stdin", Opened(s, "stdin").t)
      BY <1>1, OpenOwn
    <2>2. g.s = Opened(s, "stdin") /\ g.fd = LowestFree(s.t) /\ g.fd # -1
      BY <1>3, FreeNumber, NumbersAre
    <2> QED BY <2>1, <2>2
  <1>4. CASE g = [s |-> [Opened(s, f) EXCEPT !.h[f] = <<a>>], fd |-> LowestFree(s.t)]
    <2> DEFINE u == Opened(s, f)
    <2>1. Calm(u) /\ Filled(s.t, LowestFree(s.t), f, u.t)
      BY <1>1, OpenOwn
    <2>2. g.s = [u EXCEPT !.h[f] = <<a>>] /\ g.fd = LowestFree(s.t) /\ g.fd # -1
      BY <1>4, FreeNumber, NumbersAre
    <2> HIDE DEF u
    <2>3. PICK t, h : t \in [Fds -> Things] /\ u = [t |-> t, h |-> h, f |-> FALSE]
      BY <2>1 DEF Calm
    <2>4. g.s = [t |-> t, h |-> [h EXCEPT ![f] = <<a>>], f |-> FALSE]
      BY <2>2, <2>3
    <2>5. g.s.t = u.t
      BY <2>3, <2>4
    <2>6. Calm(g.s)
      <3>1. t \in [Fds -> Things]
        BY <2>3
      <3> QED BY <2>4, <3>1 DEF Calm
    <2> QED BY <2>1, <2>2, <2>5, <2>6
  <1> QED BY <1>2, <1>3, <1>4 DEF GetLock

\* CloseLog and Shutdown close files of their kind only.
LEMMA DropOwn ==
  ASSUME NEW s, Calm(s), NEW what, NEW u, u = Dropped(s, what)
  PROVE  Calm(u) /\ Stripped(s.t, what, u.t)
  <1>1. PICK t, h : t \in [Fds -> Things] /\ s = [t |-> t, h |-> h, f |-> FALSE]
    BY DEF Calm
  <1> DEFINE w == [n \in Fds |-> IF s.t[n] = what THEN "none" ELSE s.t[n]]
  <1>2. w \in [Fds -> Things] /\ Stripped(s.t, what, w)
    <2>1. s.t = t /\ "none" \in Things
      BY <1>1 DEF Things
    <2>2. t \in [Fds -> Things]
      BY <1>1
    <2> QED BY <2>1, <2>2 DEF Stripped
  <1>3. u = [s EXCEPT !.t = w]
    BY DEF Dropped, Fds
  <1> HIDE DEF w
  <1>4. u = [t |-> w, h |-> h, f |-> FALSE] /\ u.t = w
    BY <1>1, <1>3
  <1> QED BY <1>2, <1>4 DEF Calm

\* CloseLog and Shutdown by name.
LEMMA DropNames == \A s : CloseLog(s) = Dropped(s, "log") /\ Shutdown(s) = Dropped(s, "pipe")
  BY DEF CloseLog, Shutdown, Dropped

\* What holds for the process that takes a step.
LEMMA OwnBegin ==
  ASSUME OwnInv, NEW a \in Apts
  PROVE  /\ Calm(Now(a)) /\ Now(a).t = fds[a] /\ fds[a] \in [Fds -> Things] /\ Room(fds[a])
         /\ apt[a] \in Processes /\ Mine(apt[a], fds[a])
  <1>1. fds[a] \in [Fds -> Things] /\ foreign = FALSE /\ apt[a] \in Processes /\ Mine(apt[a], fds[a])
    BY DEF OwnInv
  <1>2. Now(a) = [t |-> fds[a], h |-> holder, f |-> FALSE]
    BY <1>1, Zenon DEF Now
  <1>5. Now(a).t = fds[a]
    BY <1>2
  <1>6. \E t \in [Fds -> Things] : \E h : Now(a) = [t |-> t, h |-> h, f |-> FALSE]
    BY <1>1, <1>2, Zenon
  <1> DEFINE z == Now(a)
  <1>7. \E t \in [Fds -> Things] : \E h : z = [t |-> t, h |-> h, f |-> FALSE]
    BY <1>6
  <1> HIDE DEF z
  <1>8. Calm(z)
    BY <1>7 DEF Calm
  <1>3. Calm(Now(a)) /\ Now(a).t = fds[a]
    BY <1>5, <1>8 DEF z
  <1>9. \A n \in Numbers : \/ fds[a][n] \in {"none", "pipe", "log"}
                           \/ n = apt[a].FrontendLockFD \/ n = apt[a].LockFD \/ n = apt[a].acqLockFD
    BY <1>1 DEF Mine, Owners
  <1>10. fds[a][0] = "stdin" /\ \A m, n \in Numbers : fds[a][m] = fds[a][n] /\ fds[a][m] \in {"pipe", "log"} => m = n
    BY <1>1 DEF Mine, Owners, OnePlain
  <1>4. Room(fds[a])
    <2> DEFINE t == fds[a]
               f == apt[a].FrontendLockFD
               l == apt[a].LockFD
               c == apt[a].acqLockFD
    <2>1. \A n \in Numbers : t[n] \in {"none", "pipe", "log"} \/ n = f \/ n = l \/ n = c
      BY <1>9
    <2>2. t[0] = "stdin" /\ \A m, n \in Numbers : t[m] = t[n] /\ t[m] \in {"pipe", "log"} => m = n
      BY <1>10
    <2> HIDE DEF t, f, l, c
    <2>3. Room(t)
      BY <2>1, <2>2, EnoughNumbers
    <2> QED BY <2>3 DEF t
  <1> QED BY <1>1, <1>3, <1>4

\* A step of one process that leaves it with descriptors of its own.
LEMMA OwnKept ==
  ASSUME OwnInv, NEW a \in Apts, NEW s, Calm(s), Keep(a, s), NEW r \in Processes, Go(a, r), Mine(r, s.t),
         dpkg_status' \in Int
  PROVE  OwnInv'
  <1>1. s.t \in [Fds -> Things] /\ s.f = FALSE
    BY DEF Calm
  <1>2. fds' = [fds EXCEPT ![a] = s.t] /\ foreign' = s.f /\ apt' = [apt EXCEPT ![a] = r]
    BY DEF Keep, Go
  <1>3. fds' \in [Apts -> [Fds -> Things]] /\ apt' \in [Apts -> Processes] /\ foreign' = FALSE
    BY <1>1, <1>2 DEF OwnInv
  <1>4. \A b \in Apts : Mine(apt'[b], fds'[b])
    BY <1>2 DEF OwnInv
  <1> QED BY <1>3, <1>4 DEF OwnInv

\* A step that touches no descriptor.
LEMMA OwnSame ==
  ASSUME OwnInv, NEW a \in Apts, fds' = fds, foreign' = foreign, NEW r \in Processes, Go(a, r), Mine(r, fds[a]),
         dpkg_status' \in Int
  PROVE  OwnInv'
  <1>1. apt' = [apt EXCEPT ![a] = r]
    BY DEF Go
  <1>2. apt' \in [Apts -> Processes]
    BY <1>1 DEF OwnInv
  <1>3. \A b \in Apts : Mine(apt'[b], fds'[b])
    BY <1>1 DEF OwnInv
  <1> QED BY <1>2, <1>3 DEF OwnInv

\* Mine looks at these fields only.
LEMMA MineOf ==
  ASSUME NEW p, NEW q, NEW t, Mine(p, t), q.pc = p.pc, q.cmd = p.cmd, q.FrontendLockFD = p.FrontendLockFD,
         q.LockFD = p.LockFD, q.LockCount = p.LockCount, q.acqLockFD = p.acqLockFD, Waited(q)
  PROVE  Mine(q, t)
  <1>1. KeepsFrontend(q) = KeepsFrontend(p) /\ KeepsLock(q) = KeepsLock(p) /\ Directory(q) = Directory(p) /\ LockIs(q.pc) = LockIs(p.pc)
    BY DEF KeepsFrontend, KeepsLock, Directory
  <1>2. Owners(q, t)
    BY <1>1 DEF Mine, Owners
  <1>3. Remembered(q, t)
    BY <1>1 DEF Mine, Remembered
  <1>4. OnePlain(q, t)
    BY DEF Mine, OnePlain
  <1>5. Control(q)
    BY DEF Mine, Control
  <1>6. Distinct(q)
    BY <1>1 DEF Mine, Distinct
  <1> QED BY <1>2, <1>3, <1>4, <1>5, <1>6 DEF Mine

\* the fields that waiting does not change
SameBut(q, p) ==
  /\ q.pc = p.pc /\ q.cmd = p.cmd /\ q.FrontendLockFD = p.FrontendLockFD /\ q.LockFD = p.LockFD
  /\ q.acqLockFD = p.acqLockFD /\ q.LockCount = p.LockCount /\ q.Timeout = p.Timeout

\* A second slept is one less to wait.
LEMMA Sleeps ==
  ASSUME NEW p \in Processes, Waited(p), p.pc \in {"start", "inner"}, NEW q, q = Slept(p)
  PROVE  /\ q \in Processes /\ SameBut(q, p)
         /\ p.Timeout = 0 => q.timeout = 0 /\ q.slept = 0
         /\ p.Timeout > 0 => q.slept <= q.Timeout
         /\ \A g : Waits(p, g) => Waited(q)
  <1>1. p.Timeout \in Int /\ p.timeout \in Int /\ p.i \in Int /\ p.slept \in Int
    BY DEF Processes
  <1>2. CASE p.timeout <= 0 \/ locking = "denied"
    <2>1. q = p
      BY <1>2 DEF Slept
    <2> QED BY <1>1, <2>1 DEF SameBut, Waited
  <1>3. CASE ~(p.timeout <= 0 \/ locking = "denied")
    <2>1. q = [p EXCEPT !.i = @ + 1, !.slept = @ + 1]
      BY <1>3 DEF Slept
    <2>0. q \in Processes
      BY Counts
    <2>7. SameBut(q, p) /\ q.i = p.i + 1 /\ q.slept = p.slept + 1 /\ q.timeout = p.timeout
      BY <2>1 DEF Processes, SameBut
    <2>2. q \in Processes /\ SameBut(q, p) /\ q.i = p.i + 1 /\ q.slept = p.slept + 1 /\ q.timeout = p.timeout
      BY <2>0, <2>7
    <2>3. p.timeout > 0
      BY <1>1, <1>3
    <2>4. p.Timeout = 0 => q.timeout = 0 /\ q.slept = 0
      BY <2>3 DEF Waited
    <2>5. p.Timeout > 0 => q.slept <= q.Timeout
      BY <1>1, <2>2 DEF Waited, SameBut
    <2>6. ASSUME NEW g, Waits(p, g) PROVE Waited(q)
      <3>1. p.i + 1 < p.timeout
        BY <1>1, <2>3, <2>6 DEF Waits
      <3> QED BY <1>1, <2>2, <2>4, <2>5, <3>1 DEF Waited, SameBut
    <2> QED BY <2>2, <2>4, <2>5, <2>6
  <1> QED BY <1>2, <1>3

\* What is left after the frontend lock is for dpkg's.
LEMMA Leaves ==
  ASSUME NEW p \in Processes, Waited(p), p.pc \in {"start", "inner"}, NEW q, q = Left(p)
  PROVE  q \in Processes /\ SameBut(q, p) /\ Waited(q)
  <1>1. p.Timeout \in Int /\ p.timeout \in Int /\ p.i \in Int /\ p.slept \in Int
    BY DEF Processes
  <1>2. CASE ~(p.timeout > 0)
    <2>1. q = p
      BY <1>2 DEF Left
    <2> QED BY <2>1 DEF SameBut
  <1>3. CASE p.timeout > 0
    <2>1. q = [p EXCEPT !.timeout = @ - p.i, !.i = 0]
      BY <1>3 DEF Left
    <2>0. q \in Processes
      BY Counts
    <2>3. SameBut(q, p) /\ q.i = 0 /\ q.slept = p.slept /\ q.timeout = p.timeout - p.i
      BY <2>1 DEF Processes, SameBut
    <2>2. q \in Processes /\ SameBut(q, p) /\ q.i = 0 /\ q.slept = p.slept /\ q.timeout = p.timeout - p.i
      BY <2>0, <2>3
    <2> QED BY <1>1, <1>3, <2>2 DEF Waited, SameBut
  <1> QED BY <1>2, <1>3

\* The fields of a process that its descriptors depend on.
Fields(r, p, pc, F, L, count, A) ==
  /\ r \in Processes /\ r.pc = pc /\ r.cmd = p.cmd
  /\ r.FrontendLockFD = F /\ r.LockFD = L /\ r.LockCount = count /\ r.acqLockFD = A

\* Past the two waits nothing is slept any more.
LEMMA WaitedOn ==
  ASSUME NEW p, NEW r, Waited(p), r.pc \notin {"start", "inner"},
         r.Timeout = p.Timeout, r.timeout = p.timeout, r.slept = p.slept
  PROVE  Waited(r)
  BY DEF Waited

\* The frontend lock is waited for, given up, or there.
LEMMA LockFrontendOwn ==
  ASSUME OwnInv, NEW a \in Apts, LockFrontend(a)
  PROVE  OwnInv'
  <1>0. dpkg_status' \in Int
    BY DEF OwnInv, LockFrontend, Rest
  <1> DEFINE p == apt[a]
             t == fds[a]
             g == GetLock(Now(a), a, "lock-frontend")
  <1>1. /\ Calm(Now(a)) /\ Now(a).t = t /\ t \in [Fds -> Things] /\ Room(t)
        /\ p \in Processes /\ Mine(p, t)
    BY OwnBegin
  <1>2. /\ p.pc = "start" /\ p.cmd \in {"install", "download"} /\ Keep(a, g.s)
        /\ Go(a, IF Waits(p, g) THEN Slept(p)
                 ELSE IF g.fd = -1 THEN [Slept(p) EXCEPT !.FrontendLockFD = -1, !.pc = "end"]
                 ELSE [Left(p) EXCEPT !.FrontendLockFD = g.fd, !.pc = "inner"])
    BY DEF LockFrontend
  <1>3. /\ Calm(g.s)
        /\ \/ g.fd = -1 /\ g.s = Now(a)
           \/ g.fd # -1 /\ \E x \in {"lock-frontend", "stdin"} : Filled(t, g.fd, x, g.s.t)
    BY <1>1, LockOwn DEF Files
  <1>4. Waited(p) /\ p.LockCount = 0 /\ p.acqLockFD = -1
    BY <1>1, <1>2 DEF Mine, Control
  <1>s. /\ Slept(p) \in Processes /\ SameBut(Slept(p), p)
        /\ p.Timeout = 0 => Slept(p).timeout = 0 /\ Slept(p).slept = 0
        /\ p.Timeout > 0 => Slept(p).slept <= Slept(p).Timeout
        /\ Waits(p, g) => Waited(Slept(p))
    BY <1>1, <1>2, <1>4, Sleeps
  <1>l. Left(p) \in Processes /\ SameBut(Left(p), p) /\ Waited(Left(p))
    BY <1>1, <1>2, <1>4, Leaves
  <1> HIDE DEF p, t, g
  <1>5. CASE Waits(p, g)
    <2>1. g.s.t = t /\ Go(a, Slept(p))
      BY <1>1, <1>2, <1>3, <1>5 DEF Waits
    <2>2. Mine(Slept(p), t)
      BY <1>1, <1>5, <1>s, MineOf DEF SameBut
    <2> QED BY <1>0, <1>2, <1>3, <1>s, <2>1, <2>2, OwnKept
  <1>6. CASE ~Waits(p, g) /\ g.fd = -1
    <2> DEFINE r == [Slept(p) EXCEPT !.FrontendLockFD = -1, !.pc = "end"]
    <2>1. g.s.t = t /\ Go(a, r)
      BY <1>1, <1>2, <1>3, <1>6
    <2>2. Fields(r, p, "end", -1, p.LockFD, 0, -1) /\ r.Timeout = p.Timeout /\ r.timeout = Slept(p).timeout /\ r.slept = Slept(p).slept
      BY <1>4, <1>s, FieldValues DEF Fields, Processes, SameBut
    <2> HIDE DEF r
    <2>3. Waited(r)
      BY <1>s, <2>2 DEF Waited, Fields, SameBut
    <2>4. Mine(r, t)
      <3>1. Owners(r, t)
        BY <1>1, <1>2, <1>4, <2>2 DEF Mine, Owners, Fields, KeepsFrontend, KeepsLock
      <3>2. Remembered(r, t)
        BY <1>1, <1>2, <1>4, <2>2 DEF Mine, Remembered, Fields, KeepsFrontend, KeepsLock
      <3>3. OnePlain(r, t)
        BY <1>1, <1>2, <2>2 DEF Mine, OnePlain, Fields
      <3>4. Control(r)
        BY <1>1, <1>2, <2>2 DEF Mine, Control, Fields
      <3>5. Distinct(r)
        BY <2>2 DEF Distinct, KeepsFrontend, KeepsLock, Fields
      <3> QED BY <2>3, <3>1, <3>2, <3>3, <3>4, <3>5 DEF Mine
    <2>5. r \in Processes
      BY <2>2 DEF Fields
    <2> QED BY <1>0, <1>2, <1>3, <2>1, <2>4, <2>5, OwnKept
  <1>7. CASE ~Waits(p, g) /\ g.fd # -1
    <2> DEFINE r == [Left(p) EXCEPT !.FrontendLockFD = g.fd, !.pc = "inner"]
    <2>1. Go(a, r)
      BY <1>2, <1>7
    <2>2. PICK x \in {"lock-frontend", "stdin"} : Filled(t, g.fd, x, g.s.t)
      BY <1>3, <1>7
    <2>3. g.fd \in Numbers /\ g.fd \in -1..MaxFd
      BY <2>2, NumbersAre DEF Filled
    <2>4. Fields(r, p, "inner", g.fd, p.LockFD, 0, -1) /\ r.Timeout = Left(p).Timeout /\ r.timeout = Left(p).timeout
             /\ r.slept = Left(p).slept /\ r.i = Left(p).i
      BY <1>4, <1>l, <2>3, FieldValues DEF Fields, Processes, SameBut
    <2> HIDE DEF r
    <2>5. Waited(r)
      BY <1>2, <1>l, <2>4 DEF Waited, Fields, SameBut
    <2>6. Mine(r, g.s.t)
      <3>1. Owners(r, g.s.t)
        BY <1>1, <1>2, <1>4, <2>2, <2>4, NumbersAre DEF Mine, Owners, Fields, KeepsFrontend, KeepsLock, Filled
      <3>2. Remembered(r, g.s.t)
        BY <1>1, <1>2, <1>4, <2>2, <2>4, NumbersAre DEF Mine, Remembered, Fields, KeepsFrontend, KeepsLock, Filled
      <3>3. OnePlain(r, g.s.t)
        BY <1>1, <1>2, <2>2, <2>4, NumbersAre DEF Mine, OnePlain, Fields, Filled
      <3>4. Control(r)
        BY <1>1, <1>2, <2>4 DEF Mine, Control, Fields
      <3>5. Distinct(r)
        BY <2>3, <2>4, NumbersAre DEF Distinct, KeepsFrontend, KeepsLock, Fields
      <3> QED BY <2>5, <3>1, <3>2, <3>3, <3>4, <3>5 DEF Mine
    <2>7. r \in Processes
      BY <2>4 DEF Fields
    <2> QED BY <1>0, <1>2, <1>3, <2>1, <2>6, <2>7, OwnKept
  <1> QED BY <1>5, <1>6, <1>7

\* Two numbers are closed that lead to the two locks, or nowhere.
LEMMA CloseBoth ==
  ASSUME NEW a, NEW s, Calm(s), NEW l \in -1..MaxFd, NEW f \in -1..MaxFd,
         l = -1 \/ s.t[l] \in {"lock", "stdin", "none"}, f = -1 \/ s.t[f] \in {"lock-frontend", "stdin", "none"},
         NEW c, c = Close(Close(s, a, l, "lock"), a, f, "lock-frontend")
  PROVE  Calm(c) /\ \A m \in Fds : c.t[m] = IF m = l \/ m = f THEN "none" ELSE s.t[m]
  <1> DEFINE d == Close(s, a, l, "lock")
  <1>1. Calm(d) /\ Emptied(s.t, l, d.t)
    BY CloseOwn
  <1> HIDE DEF d
  <1>2. f = -1 \/ d.t[f] \in {"lock-frontend", "stdin", "none"}
    BY <1>1, NumbersAre DEF Emptied
  <1>3. c = Close(d, a, f, "lock-frontend")
    BY DEF d
  <1>4. Calm(c) /\ Emptied(d.t, f, c.t)
    BY <1>1, <1>2, <1>3, CloseOwn
  <1> QED BY <1>1, <1>4 DEF Emptied

\* What changing the count leaves.
LEMMA Counted ==
  ASSUME NEW p \in Processes, NEW k \in Int, NEW x \in Points, NEW r, r = [p EXCEPT !.LockCount = k, !.pc = x]
  PROVE  Fields(r, p, x, p.FrontendLockFD, p.LockFD, k, p.acqLockFD)
  BY DEF Fields, Processes

\* The same, with the number acquire remembers.
LEMMA CountedTwo ==
  ASSUME NEW p \in Processes, NEW k \in Int, NEW x \in Points, NEW n \in -1..MaxFd,
         NEW r, r = [p EXCEPT !.LockCount = k, !.acqLockFD = n, !.pc = x]
  PROVE  Fields(r, p, x, p.FrontendLockFD, p.LockFD, k, n)
  BY DEF Fields, Processes

\* dpkg's lock is waited for, there, or the frontend lock is given up too.
LEMMA LockInnerOwn ==
  ASSUME OwnInv, NEW a \in Apts, LockInner(a)
  PROVE  OwnInv'
  <1>0. dpkg_status' \in Int
    BY DEF OwnInv, LockInner, Rest
  <1> DEFINE p == apt[a]
             t == fds[a]
  <1>1. /\ Calm(Now(a)) /\ Now(a).t = t /\ t \in [Fds -> Things] /\ Room(t)
        /\ p \in Processes /\ Mine(p, t) /\ Waited(p)
    BY OwnBegin DEF Mine
  <1> DEFINE g == GetLock(Now(a), a, "lock")
  <1>2. /\ p.pc = "inner" /\ Keep(a, IF g.fd # -1 \/ Waits(p, g) THEN g.s ELSE LockInnerFails(a, g.s))
        /\ Go(a, IF Waits(p, g) THEN Slept(p)
                 ELSE IF g.fd = -1 THEN [Slept(p) EXCEPT !.LockFD = -1, !.pc = "end"]
                 ELSE [p EXCEPT !.LockFD = g.fd, !.pc = "checkupdates"])
    BY DEF LockInner
  <1>3. /\ Calm(g.s)
        /\ \/ g.fd = -1 /\ g.s = Now(a)
           \/ g.fd # -1 /\ \E x \in {"lock", "stdin"} : Filled(t, g.fd, x, g.s.t)
    BY <1>1, LockOwn DEF Files
  <1>4. /\ p.LockCount = 0 /\ p.acqLockFD = -1 /\ p.FrontendLockFD \in Numbers
        /\ t[p.FrontendLockFD] \in {"lock-frontend", "stdin"}
    BY <1>1, <1>2 DEF Mine, Control, Remembered, KeepsFrontend
  <1>s. /\ Slept(p) \in Processes /\ SameBut(Slept(p), p)
        /\ p.Timeout = 0 => Slept(p).timeout = 0 /\ Slept(p).slept = 0
        /\ p.Timeout > 0 => Slept(p).slept <= Slept(p).Timeout
        /\ Waits(p, g) => Waited(Slept(p))
    BY <1>1, <1>2, Sleeps
  <1>f. LockInnerFails(a, g.s) = Close(g.s, a, p.FrontendLockFD, "lock-frontend")
    BY DEF LockInnerFails
  <1> HIDE DEF p, t, g
  <1>5. CASE Waits(p, g)
    <2>1. g.s.t = t /\ Go(a, Slept(p)) /\ Keep(a, g.s)
      BY <1>1, <1>2, <1>3, <1>5 DEF Waits
    <2>2. Mine(Slept(p), t)
      BY <1>1, <1>5, <1>s, MineOf DEF SameBut
    <2> QED BY <1>0, <1>3, <1>s, <2>1, <2>2, OwnKept
  <1>6. CASE ~Waits(p, g) /\ g.fd = -1
    <2> DEFINE r == [Slept(p) EXCEPT !.LockFD = -1, !.pc = "end"]
               c == Close(g.s, a, p.FrontendLockFD, "lock-frontend")
    <2>1. g.s.t = t /\ Go(a, r) /\ Keep(a, c)
      BY <1>1, <1>2, <1>3, <1>6, <1>f
    <2>2. Calm(c) /\ Emptied(t, p.FrontendLockFD, c.t)
      BY <1>3, <1>4, <2>1, NumbersAre, CloseOwn
    <2>3. Fields(r, p, "end", p.FrontendLockFD, -1, 0, -1) /\ r.Timeout = p.Timeout /\ r.timeout = Slept(p).timeout
            /\ r.slept = Slept(p).slept
      BY <1>4, <1>s, FieldValues DEF Fields, Processes, SameBut
    <2> HIDE DEF r, c
    <2>4. Waited(r)
      BY <1>s, <2>3 DEF Waited, Fields, SameBut
    <2>5. Mine(r, c.t)
      <3>1. Owners(r, c.t)
        BY <1>1, <1>2, <1>4, <2>2, <2>3, NumbersAre DEF Mine, Owners, Remembered, OnePlain, Control, Distinct, Fields, KeepsFrontend, KeepsLock, Emptied
      <3>2. Remembered(r, c.t)
        BY <1>1, <1>2, <1>4, <2>2, <2>3, NumbersAre DEF Mine, Remembered, OnePlain, Control, Distinct, LockIs, Directory, Fields, KeepsFrontend, KeepsLock, Emptied
      <3>3. OnePlain(r, c.t)
        BY <1>1, <1>2, <1>4, <2>2, <2>3, NumbersAre DEF Mine, OnePlain, Control, Fields, Emptied
      <3>4. Control(r)
        BY <1>1, <1>2, <1>4, <2>2, <2>3, NumbersAre DEF Mine, Control, Fields
      <3>5. Distinct(r)
        BY <1>1, <1>2, <1>4, <2>2, <2>3, NumbersAre DEF Mine, Distinct, Remembered, Control, LockIs, Directory, Fields, KeepsFrontend, KeepsLock, Emptied
      <3> QED BY <2>4, <3>1, <3>2, <3>3, <3>4, <3>5 DEF Mine
    <2>6. r \in Processes
      BY <2>3 DEF Fields
    <2> QED BY <1>0, <2>1, <2>2, <2>5, <2>6, OwnKept
  <1>7. CASE ~Waits(p, g) /\ g.fd # -1
    <2> DEFINE r == [p EXCEPT !.LockFD = g.fd, !.pc = "checkupdates"]
    <2>1. Go(a, r) /\ Keep(a, g.s)
      BY <1>2, <1>7
    <2>2. PICK x \in {"lock", "stdin"} : Filled(t, g.fd, x, g.s.t)
      BY <1>3, <1>7
    <2>3. g.fd \in Numbers /\ g.fd \in -1..MaxFd
      BY <2>2, NumbersAre DEF Filled
    <2>4. Fields(r, p, "checkupdates", p.FrontendLockFD, g.fd, 0, -1) /\ r.Timeout = p.Timeout /\ r.timeout = p.timeout
            /\ r.slept = p.slept
      BY <1>1, <1>4, <2>3, FieldValues DEF Fields, Processes
    <2> HIDE DEF r
    <2>5. Waited(r)
      BY <1>1, <2>4, WaitedOn DEF Fields
    <2>6. Mine(r, g.s.t)
      <3>1. Owners(r, g.s.t)
        BY <1>1, <1>2, <1>4, <2>2, <2>4, NumbersAre DEF Mine, Owners, Remembered, OnePlain, Control, Distinct, Fields, KeepsFrontend, KeepsLock, Filled
      <3>2. Remembered(r, g.s.t)
        BY <1>1, <1>2, <1>4, <2>2, <2>4, NumbersAre DEF Mine, Remembered, OnePlain, Control, Distinct, LockIs, Directory, Fields, KeepsFrontend, KeepsLock, Filled
      <3>3. OnePlain(r, g.s.t)
        BY <1>1, <1>2, <1>4, <2>2, <2>4, NumbersAre DEF Mine, OnePlain, Control, Fields, Filled
      <3>4. Control(r)
        BY <1>1, <1>2, <1>4, <2>2, <2>4, NumbersAre DEF Mine, Control, Fields
      <3>5. Distinct(r)
        BY <1>1, <1>2, <1>4, <2>2, <2>4, NumbersAre DEF Mine, Distinct, Remembered, Control, LockIs, Directory, Fields, KeepsFrontend, KeepsLock, Filled
      <3> QED BY <2>5, <3>1, <3>2, <3>3, <3>4, <3>5 DEF Mine
    <2>7. r \in Processes
      BY <2>4 DEF Fields
    <2> QED BY <1>0, <1>3, <2>1, <2>6, <2>7, OwnKept
  <1> QED BY <1>5, <1>6, <1>7

\* An interrupted dpkg makes Lock give both locks up; otherwise they are counted.
LEMMA CheckUpdatesOwn ==
  ASSUME OwnInv, NEW a \in Apts, CheckUpdates(a)
  PROVE  OwnInv'
  <1>0. dpkg_status' \in Int
    BY DEF OwnInv, CheckUpdates, Rest
  <1> DEFINE p == apt[a]
             t == fds[a]
  <1>1. /\ Calm(Now(a)) /\ Now(a).t = t /\ t \in [Fds -> Things] /\ Room(t)
        /\ p \in Processes /\ Mine(p, t) /\ Waited(p)
    BY OwnBegin DEF Mine
  <1>2. p.pc = "checkupdates"
    BY DEF CheckUpdates
  <1>3. /\ p.LockCount = 0 /\ p.acqLockFD = -1 /\ p.FrontendLockFD \in Numbers /\ t[p.FrontendLockFD] \in {"lock-frontend", "stdin"}
        /\ p.LockFD = -1 \/ (p.LockFD \in Numbers /\ t[p.LockFD] \in {"lock", "stdin"})
        /\ p.LockFD \in -1..MaxFd /\ p.FrontendLockFD \in -1..MaxFd
    BY <1>1, <1>2, NumbersAre, FieldValues DEF Mine, Control, Remembered, KeepsFrontend, KeepsLock, LockIs
  <1> HIDE DEF p, t
  <1>4. CASE journal
    <2> DEFINE c == Close(Close(Now(a), a, p.LockFD, "lock"), a, p.FrontendLockFD, "lock-frontend")
               r == [p EXCEPT !.LockFD = -1, !.FrontendLockFD = -1, !.pc = "end"]
    <2>1. Keep(a, c) /\ Go(a, r)
      BY <1>4 DEF CheckUpdates, p
    <2>2. Calm(c) /\ \A m \in Fds : c.t[m] = IF m = p.LockFD \/ m = p.FrontendLockFD THEN "none" ELSE t[m]
      BY <1>1, <1>3, CloseBoth
    <2>3. Fields(r, p, "end", -1, -1, 0, -1) /\ r.Timeout = p.Timeout /\ r.timeout = p.timeout /\ r.slept = p.slept
      BY <1>1, <1>3, FieldValues DEF Fields, Processes
    <2> HIDE DEF r, c
    <2>4. Waited(r)
      BY <1>1, <2>3, WaitedOn DEF Fields
    <2>5. Mine(r, c.t)
      <3>1. Owners(r, c.t)
        BY <1>1, <1>2, <1>3, <2>2, <2>3, NumbersAre DEF Mine, Owners, Remembered, OnePlain, Control, Distinct, Fields, KeepsFrontend, KeepsLock
      <3>2. Remembered(r, c.t)
        BY <1>1, <1>2, <1>3, <2>2, <2>3, NumbersAre DEF Mine, Remembered, OnePlain, Control, Distinct, LockIs, Directory, Fields, KeepsFrontend, KeepsLock
      <3>3. OnePlain(r, c.t)
        BY <1>1, <1>2, <1>3, <2>2, <2>3, NumbersAre DEF Mine, OnePlain, Control, Fields
      <3>4. Control(r)
        BY <1>1, <1>2, <1>3, <2>2, <2>3, NumbersAre DEF Mine, Control, Fields
      <3>5. Distinct(r)
        BY <1>1, <1>2, <1>3, <2>2, <2>3, NumbersAre DEF Mine, Distinct, Remembered, Control, LockIs, Directory, Fields, KeepsFrontend, KeepsLock
      <3> QED BY <2>4, <3>1, <3>2, <3>3, <3>4, <3>5 DEF Mine
    <2>6. r \in Processes
      BY <2>3 DEF Fields
    <2> QED BY <1>0, <2>1, <2>2, <2>5, <2>6, OwnKept
  <1>5. CASE ~journal
    <2> DEFINE r == [p EXCEPT !.LockCount = 1, !.pc = "plan"]
    <2>1. Go(a, r) /\ fds' = fds /\ foreign' = foreign
      BY <1>3, <1>5 DEF CheckUpdates, p
    <2> HIDE DEF r
    <2>0. r = [p EXCEPT !.LockCount = 1, !.pc = "plan"] /\ 1 \in Int /\ "plan" \in Points /\ p \in Processes
      BY <1>1, FieldValues DEF r
    <2>2. Fields(r, p, "plan", p.FrontendLockFD, p.LockFD, 1, p.acqLockFD) /\ r.Timeout = p.Timeout /\ r.timeout = p.timeout /\ r.slept = p.slept
      <3>1. Fields(r, p, "plan", p.FrontendLockFD, p.LockFD, 1, p.acqLockFD)
        BY <2>0, Counted
      <3>2. r.Timeout = p.Timeout /\ r.timeout = p.timeout /\ r.slept = p.slept
        BY <2>0 DEF Processes
      <3> QED BY <3>1, <3>2
    <2>3. Waited(r)
      BY <1>1, <2>2, WaitedOn DEF Fields
    <2>4. Mine(r, t)
      <3>1. Owners(r, t)
        BY <1>1, <1>2, <1>3, <2>2, NumbersAre DEF Mine, Owners, Remembered, OnePlain, Control, Distinct, Fields, KeepsFrontend, KeepsLock
      <3>2. Remembered(r, t)
        BY <1>1, <1>2, <1>3, <2>2, NumbersAre DEF Mine, Remembered, OnePlain, Control, Distinct, LockIs, Directory, Fields, KeepsFrontend, KeepsLock
      <3>3. OnePlain(r, t)
        BY <1>1, <1>2, <1>3, <2>2, NumbersAre DEF Mine, OnePlain, Control, Fields
      <3>4. Control(r)
        BY <1>1, <1>2, <1>3, <2>2, NumbersAre DEF Mine, Control, Fields
      <3>5. Distinct(r)
        BY <1>1, <1>2, <1>3, <2>2, NumbersAre DEF Mine, Distinct, Remembered, Control, LockIs, Directory, Fields, KeepsFrontend, KeepsLock
      <3> QED BY <2>3, <3>1, <3>2, <3>3, <3>4, <3>5 DEF Mine
    <2>5. r \in Processes
      BY <2>2 DEF Fields
    <2> QED BY <1>0, <2>1, <2>4, <2>5, OwnSame DEF t
  <1> QED BY <1>4, <1>5

\* The plan is made.
LEMMA PlanOwn ==
  ASSUME OwnInv, NEW a \in Apts, Plan(a)
  PROVE  OwnInv'
  <1>0. dpkg_status' \in Int
    BY DEF OwnInv, Plan, Rest
  <1> DEFINE p == apt[a]
             t == fds[a]
  <1>1. /\ Calm(Now(a)) /\ Now(a).t = t /\ t \in [Fds -> Things] /\ Room(t)
        /\ p \in Processes /\ Mine(p, t) /\ Waited(p)
    BY OwnBegin DEF Mine
  <1> DEFINE r == [p EXCEPT !.plan = dpkg_status, !.pc = "lockarchives"]
  <1>2. p.pc = "plan" /\ Go(a, r) /\ fds' = fds /\ foreign' = foreign
    BY DEF Plan
  <1>3. dpkg_status \in Int
    BY DEF OwnInv
  <1> HIDE DEF p, t
  <1>4. Fields(r, p, "lockarchives", p.FrontendLockFD, p.LockFD, p.LockCount, p.acqLockFD) /\ r.Timeout = p.Timeout /\ r.timeout = p.timeout /\ r.slept = p.slept
    BY <1>1, <1>3, FieldValues DEF Fields, Processes
  <1> HIDE DEF r
  <1>5. Waited(r)
    BY <1>1, <1>4, WaitedOn DEF Fields
  <1>6. Mine(r, t)
    <2>1. Owners(r, t)
      BY <1>1, <1>2, <1>4, NumbersAre DEF Mine, Owners, Remembered, OnePlain, Control, Distinct, Fields, KeepsFrontend, KeepsLock
    <2>2. Remembered(r, t)
      BY <1>1, <1>2, <1>4, NumbersAre DEF Mine, Remembered, OnePlain, Control, Distinct, LockIs, Directory, Fields, KeepsFrontend, KeepsLock
    <2>3. OnePlain(r, t)
      BY <1>1, <1>2, <1>4, NumbersAre DEF Mine, OnePlain, Control, Fields
    <2>4. Control(r)
      BY <1>1, <1>2, <1>4, NumbersAre DEF Mine, Control, Fields
    <2>5. Distinct(r)
      BY <1>1, <1>2, <1>4, NumbersAre DEF Mine, Distinct, Remembered, Control, LockIs, Directory, Fields, KeepsFrontend, KeepsLock
    <2> QED BY <1>5, <2>1, <2>2, <2>3, <2>4, <2>5 DEF Mine
  <1>7. r \in Processes
    BY <1>4 DEF Fields
  <1> QED BY <1>0, <1>2, <1>6, <1>7, OwnSame DEF t

\* The archives are locked; download gives the two other locks up.
LEMMA LockArchivesOwn ==
  ASSUME OwnInv, NEW a \in Apts, LockArchives(a)
  PROVE  OwnInv'
  <1>0. dpkg_status' \in Int
    BY DEF OwnInv, LockArchives, Rest
  <1> DEFINE p == apt[a]
             t == fds[a]
  <1>1. /\ Calm(Now(a)) /\ Now(a).t = t /\ t \in [Fds -> Things] /\ Room(t)
        /\ p \in Processes /\ Mine(p, t) /\ Waited(p)
    BY OwnBegin DEF Mine
  <1> DEFINE g == GetLock(Now(a), a, "archives")
  <1>2. p.pc = "lockarchives"
    BY DEF LockArchives
  <1>3. /\ p.LockCount = 1 /\ p.acqLockFD = -1 /\ p.FrontendLockFD \in Numbers /\ t[p.FrontendLockFD] \in {"lock-frontend", "stdin"}
        /\ p.LockFD = -1 \/ (p.LockFD \in Numbers /\ t[p.LockFD] \in {"lock", "stdin"})
        /\ p.LockFD \in -1..MaxFd /\ p.FrontendLockFD \in -1..MaxFd /\ p.cmd \in {"install", "download"}
    BY <1>1, <1>2, NumbersAre, FieldValues DEF Mine, Control, Remembered, KeepsFrontend, KeepsLock, LockIs
  <1>4. AcquireLock(Now(a), a, "archives") = g
    BY <1>3, AcquiredFirst
  <1>5. /\ Calm(g.s)
        /\ \/ g.fd = -1 /\ g.s = Now(a)
           \/ g.fd # -1 /\ \E x \in {"archives", "stdin"} : Filled(t, g.fd, x, g.s.t)
    BY <1>1, LockOwn DEF Files
  <1>6. CASE g.fd = -1
    <2> DEFINE r == [p EXCEPT !.acqLockFD = -1, !.pc = "end"]
    <2>1. Keep(a, g.s) /\ Go(a, r)
      BY <1>4, <1>6 DEF LockArchives
    <2> HIDE DEF p, t, g
    <2>2. g.s.t = t
      BY <1>1, <1>5, <1>6
    <2>3. Fields(r, p, "end", p.FrontendLockFD, p.LockFD, 1, -1) /\ r.Timeout = p.Timeout /\ r.timeout = p.timeout /\ r.slept = p.slept
      BY <1>1, <1>3, FieldValues DEF Fields, Processes
    <2> HIDE DEF r
    <2>4. Waited(r)
      BY <1>1, <2>3, WaitedOn DEF Fields
    <2>5. Mine(r, t)
      <3>1. Owners(r, t)
        BY <1>1, <1>2, <1>3, <2>3, NumbersAre DEF Mine, Owners, Remembered, OnePlain, Control, Distinct, Fields, KeepsFrontend, KeepsLock
      <3>2. Remembered(r, t)
        BY <1>1, <1>2, <1>3, <2>3, NumbersAre DEF Mine, Remembered, OnePlain, Control, Distinct, LockIs, Directory, Fields, KeepsFrontend, KeepsLock
      <3>3. OnePlain(r, t)
        BY <1>1, <1>2, <1>3, <2>3, NumbersAre DEF Mine, OnePlain, Control, Fields
      <3>4. Control(r)
        BY <1>1, <1>2, <1>3, <2>3, NumbersAre DEF Mine, Control, Fields
      <3>5. Distinct(r)
        BY <1>1, <1>2, <1>3, <2>3, NumbersAre DEF Mine, Distinct, Remembered, Control, LockIs, Directory, Fields, KeepsFrontend, KeepsLock
      <3> QED BY <2>4, <3>1, <3>2, <3>3, <3>4, <3>5 DEF Mine
    <2>6. r \in Processes
      BY <2>3 DEF Fields
    <2> QED BY <1>0, <1>5, <2>1, <2>2, <2>5, <2>6, OwnKept
  <1>7. CASE g.fd # -1 /\ p.cmd # "download"
    <2> DEFINE r == [p EXCEPT !.acqLockFD = g.fd, !.pc = "fetch"]
    <2>1. Keep(a, g.s) /\ Go(a, r)
      BY <1>4, <1>7 DEF LockArchives
    <2> HIDE DEF p, t, g
    <2>2. PICK x \in {"archives", "stdin"} : Filled(t, g.fd, x, g.s.t)
      BY <1>5, <1>7
    <2>3. g.fd \in Numbers /\ g.fd \in -1..MaxFd
      BY <2>2, NumbersAre DEF Filled
    <2>4. Fields(r, p, "fetch", p.FrontendLockFD, p.LockFD, 1, g.fd) /\ r.Timeout = p.Timeout /\ r.timeout = p.timeout /\ r.slept = p.slept
      BY <1>1, <1>3, <2>3, FieldValues DEF Fields, Processes
    <2> HIDE DEF r
    <2>5. Waited(r)
      BY <1>1, <2>4, WaitedOn DEF Fields
    <2>6. Mine(r, g.s.t)
      <3>1. Owners(r, g.s.t)
        BY <1>1, <1>2, <1>3, <1>7, <2>2, <2>4, NumbersAre DEF Mine, Owners, Remembered, OnePlain, Control, Distinct, Fields, KeepsFrontend, KeepsLock, Filled
      <3>2. Remembered(r, g.s.t)
        BY <1>1, <1>2, <1>3, <1>7, <2>2, <2>4, NumbersAre DEF Mine, Remembered, OnePlain, Control, Distinct, LockIs, Directory, Fields, KeepsFrontend, KeepsLock, Filled
      <3>3. OnePlain(r, g.s.t)
        BY <1>1, <1>2, <1>3, <1>7, <2>2, <2>4, NumbersAre DEF Mine, OnePlain, Control, Fields, Filled
      <3>4. Control(r)
        BY <1>1, <1>2, <1>3, <1>7, <2>2, <2>4, NumbersAre DEF Mine, Control, Fields
      <3>5. Distinct(r)
        BY <1>1, <1>2, <1>3, <1>7, <2>2, <2>4, NumbersAre DEF Mine, Distinct, Remembered, Control, LockIs, Directory, Fields, KeepsFrontend, KeepsLock, Filled
      <3> QED BY <2>5, <3>1, <3>2, <3>3, <3>4, <3>5 DEF Mine
    <2>7. r \in Processes
      BY <2>4 DEF Fields
    <2> QED BY <1>0, <1>5, <2>1, <2>6, <2>7, OwnKept
  <1>8. CASE g.fd # -1 /\ p.cmd = "download"
    <2> DEFINE r == [p EXCEPT !.LockCount = 0, !.acqLockFD = g.fd, !.pc = "fetch"]
               c == Close(Close(g.s, a, p.LockFD, "lock"), a, p.FrontendLockFD, "lock-frontend")
    <2>1. Keep(a, UnLocked(g.s, a, p)) /\ Go(a, [UnLockCount(p) EXCEPT !.acqLockFD = g.fd, !.pc = "fetch"])
      BY <1>4, <1>8 DEF LockArchives
    <2> HIDE DEF p, t, g
    <2>2. UnLocked(g.s, a, p) = c
      BY <1>3 DEF UnLocked, Last
    <2>3. [UnLockCount(p) EXCEPT !.acqLockFD = g.fd, !.pc = "fetch"] = r
      BY <1>1, <1>3 DEF UnLockCount, Processes
    <2>4. PICK x \in {"archives", "stdin"} : Filled(t, g.fd, x, g.s.t)
      BY <1>5, <1>8
    <2>5. g.fd \in Numbers /\ g.fd \in -1..MaxFd
      BY <2>4, NumbersAre DEF Filled
    <2>6. /\ p.LockFD = -1 \/ g.s.t[p.LockFD] \in {"lock", "stdin", "none"}
          /\ p.FrontendLockFD = -1 \/ g.s.t[p.FrontendLockFD] \in {"lock-frontend", "stdin", "none"}
      BY <1>3, <2>4, NumbersAre DEF Filled
    <2>7. Calm(c) /\ \A m \in Fds : c.t[m] = IF m = p.LockFD \/ m = p.FrontendLockFD THEN "none" ELSE g.s.t[m]
      BY <1>3, <1>5, <2>6, CloseBoth
    <2> HIDE DEF r
    <2>0. r = [p EXCEPT !.LockCount = 0, !.acqLockFD = g.fd, !.pc = "fetch"] /\ 0 \in Int /\ "fetch" \in Points /\ p \in Processes
      BY <1>1, FieldValues DEF r
    <2>8. Fields(r, p, "fetch", p.FrontendLockFD, p.LockFD, 0, g.fd) /\ r.Timeout = p.Timeout /\ r.timeout = p.timeout /\ r.slept = p.slept
      <3>1. Fields(r, p, "fetch", p.FrontendLockFD, p.LockFD, 0, g.fd)
        BY <2>0, <2>5, CountedTwo
      <3>2. r.Timeout = p.Timeout /\ r.timeout = p.timeout /\ r.slept = p.slept
        BY <2>0, <2>5 DEF Processes
      <3> QED BY <3>1, <3>2
    <2>9. Keep(a, c) /\ Go(a, r) /\ r \in Processes
      BY <2>1, <2>2, <2>3, <2>8 DEF Fields
    <2> HIDE DEF r, c
    <2>10. Waited(r)
      BY <1>1, <2>8, WaitedOn DEF Fields
    <2>11. Mine(r, c.t)
      <3>1. Owners(r, c.t)
        BY <1>1, <1>2, <1>3, <1>8, <2>4, <2>7, <2>8, NumbersAre DEF Mine, Owners, Remembered, OnePlain, Control, Distinct, Fields, KeepsFrontend, KeepsLock, Filled
      <3>2. Remembered(r, c.t)
        BY <1>1, <1>2, <1>3, <1>8, <2>4, <2>7, <2>8, NumbersAre DEF Mine, Remembered, OnePlain, Control, Distinct, LockIs, Directory, Fields, KeepsFrontend, KeepsLock, Filled
      <3>3. OnePlain(r, c.t)
        BY <1>1, <1>2, <1>3, <1>8, <2>4, <2>7, <2>8, NumbersAre DEF Mine, OnePlain, Control, Fields, Filled
      <3>4. Control(r)
        BY <1>1, <1>2, <1>3, <1>8, <2>4, <2>7, <2>8, NumbersAre DEF Mine, Control, Fields
      <3>5. Distinct(r)
        BY <1>1, <1>2, <1>3, <1>8, <2>4, <2>7, <2>8, NumbersAre DEF Mine, Distinct, Remembered, Control, LockIs, Directory, Fields, KeepsFrontend, KeepsLock, Filled
      <3> QED BY <2>10, <3>1, <3>2, <3>3, <3>4, <3>5 DEF Mine
    <2> QED BY <1>0, <2>7, <2>9, <2>11, OwnKept
  <1> QED BY <1>6, <1>7, <1>8

\* A method has its pipe.
LEMMA FetchOwn ==
  ASSUME OwnInv, NEW a \in Apts, Fetch(a)
  PROVE  OwnInv'
  <1>0. dpkg_status' \in Int
    BY DEF OwnInv, Fetch, Rest
  <1> DEFINE p == apt[a]
             t == fds[a]
  <1>1. /\ Calm(Now(a)) /\ Now(a).t = t /\ t \in [Fds -> Things] /\ Room(t)
        /\ p \in Processes /\ Mine(p, t) /\ Waited(p)
    BY OwnBegin DEF Mine
  <1> DEFINE u == Opened(Now(a), "pipe")
  <1>2. PICK ok \in BOOLEAN : Go(a, [p EXCEPT !.pc = IF p.cmd = "install" /\ ok THEN "unlockinner" ELSE "end"])
    BY DEF Fetch
  <1>3. p.pc = "fetch" /\ Keep(a, u)
    BY DEF Fetch
  <1> DEFINE to == IF p.cmd = "install" /\ ok THEN "unlockinner" ELSE "end"
             r == [p EXCEPT !.pc = to]
             n == LowestFree(t)
  <1>4. Calm(u) /\ Filled(t, n, "pipe", u.t)
    BY <1>1, OpenOwn DEF Things
  <1>5. Go(a, r) /\ to \in {"unlockinner", "end"} /\ (to = "unlockinner" => p.cmd = "install")
    BY <1>2
  <1> HIDE DEF p, t, u, n, to
  <1>6. Fields(r, p, to, p.FrontendLockFD, p.LockFD, p.LockCount, p.acqLockFD) /\ r.Timeout = p.Timeout /\ r.timeout = p.timeout /\ r.slept = p.slept
    BY <1>1, <1>5, FieldValues DEF Fields, Processes
  <1> HIDE DEF r
  <1>7. Waited(r)
    BY <1>1, <1>5, <1>6, WaitedOn DEF Fields
  <1>8. Mine(r, u.t)
    <2>1. Owners(r, u.t)
      BY <1>1, <1>3, <1>4, <1>5, <1>6, NumbersAre DEF Mine, Owners, Remembered, OnePlain, Control, Distinct, Fields, KeepsFrontend, KeepsLock, Filled
    <2>2. Remembered(r, u.t)
      BY <1>1, <1>3, <1>4, <1>5, <1>6, NumbersAre DEF Mine, Remembered, OnePlain, Control, Distinct, LockIs, Directory, Fields, KeepsFrontend, KeepsLock, Filled
    <2>3. OnePlain(r, u.t)
      BY <1>1, <1>3, <1>4, <1>5, <1>6, NumbersAre DEF Mine, OnePlain, Control, Fields, Filled
    <2>4. Control(r)
      BY <1>1, <1>3, <1>4, <1>5, <1>6, NumbersAre DEF Mine, Control, Fields
    <2>5. Distinct(r)
      BY <1>1, <1>3, <1>4, <1>5, <1>6, NumbersAre DEF Mine, Distinct, Remembered, Control, LockIs, Directory, Fields, KeepsFrontend, KeepsLock, Filled
    <2> QED BY <1>7, <2>1, <2>2, <2>3, <2>4, <2>5 DEF Mine
  <1>9. r \in Processes
    BY <1>6 DEF Fields
  <1> QED BY <1>0, <1>3, <1>4, <1>5, <1>8, <1>9, OwnKept

\* dpkg's lock is given up, its number is remembered.
LEMMA UnLockInnerOwn ==
  ASSUME OwnInv, NEW a \in Apts, UnLockInner(a)
  PROVE  OwnInv'
  <1>0. dpkg_status' \in Int
    BY DEF OwnInv, UnLockInner, Rest
  <1> DEFINE p == apt[a]
             t == fds[a]
  <1>1. /\ Calm(Now(a)) /\ Now(a).t = t /\ t \in [Fds -> Things] /\ Room(t)
        /\ p \in Processes /\ Mine(p, t) /\ Waited(p)
    BY OwnBegin DEF Mine
  <1> DEFINE c == Close(Now(a), a, p.LockFD, "lock")
             r == [p EXCEPT !.pc = "openlog"]
  <1>2. p.pc = "unlockinner" /\ Keep(a, c) /\ Go(a, r)
    BY DEF UnLockInner
  <1>3. /\ p.LockCount = 1 /\ p.FrontendLockFD # p.LockFD /\ p.LockFD \in -1..MaxFd
        /\ p.LockFD = -1 \/ (p.LockFD \in Numbers /\ t[p.LockFD] \in {"lock", "stdin"})
    BY <1>1, <1>2, NumbersAre, FieldValues DEF Mine, Control, Remembered, KeepsLock, LockIs, Distinct
  <1> HIDE DEF p, t
  <1>4. Calm(c) /\ Emptied(t, p.LockFD, c.t)
    BY <1>1, <1>3, CloseOwn
  <1>5. Fields(r, p, "openlog", p.FrontendLockFD, p.LockFD, 1, p.acqLockFD) /\ r.Timeout = p.Timeout /\ r.timeout = p.timeout /\ r.slept = p.slept
    BY <1>1, <1>3, FieldValues DEF Fields, Processes
  <1> HIDE DEF r, c
  <1>6. Waited(r)
    BY <1>1, <1>5, WaitedOn DEF Fields
  <1>7. Mine(r, c.t)
    <2>1. Owners(r, c.t)
      BY <1>1, <1>2, <1>3, <1>4, <1>5, NumbersAre DEF Mine, Owners, Remembered, OnePlain, Control, Distinct, Fields, KeepsFrontend, KeepsLock, Emptied
    <2>2. Remembered(r, c.t)
      BY <1>1, <1>2, <1>3, <1>4, <1>5, NumbersAre DEF Mine, Remembered, OnePlain, Control, Distinct, LockIs, Directory, Fields, KeepsFrontend, KeepsLock, Emptied
    <2>3. OnePlain(r, c.t)
      BY <1>1, <1>2, <1>3, <1>4, <1>5, NumbersAre DEF Mine, OnePlain, Control, Fields, Emptied
    <2>4. Control(r)
      BY <1>1, <1>2, <1>3, <1>4, <1>5, NumbersAre DEF Mine, Control, Fields
    <2>5. Distinct(r)
      BY <1>1, <1>2, <1>3, <1>4, <1>5, NumbersAre DEF Mine, Distinct, Remembered, Control, LockIs, Directory, Fields, KeepsFrontend, KeepsLock, Emptied
    <2> QED BY <1>6, <2>1, <2>2, <2>3, <2>4, <2>5 DEF Mine
  <1>8. r \in Processes
    BY <1>5 DEF Fields
  <1> QED BY <1>0, <1>2, <1>4, <1>7, <1>8, OwnKept

\* The log may take the number of dpkg's lock.
LEMMA OpenLogOwn ==
  ASSUME OwnInv, NEW a \in Apts, OpenLog(a)
  PROVE  OwnInv'
  <1>0. dpkg_status' \in Int
    BY DEF OwnInv, OpenLog, Rest
  <1> DEFINE p == apt[a]
             t == fds[a]
  <1>1. /\ Calm(Now(a)) /\ Now(a).t = t /\ t \in [Fds -> Things] /\ Room(t)
        /\ p \in Processes /\ Mine(p, t) /\ Waited(p)
    BY OwnBegin DEF Mine
  <1> DEFINE u == Opened(Now(a), "log")
             r == [p EXCEPT !.pc = "dpkg"]
             n == LowestFree(t)
  <1>2. p.pc = "openlog" /\ Keep(a, u) /\ Go(a, r)
    BY DEF OpenLog
  <1>3. Calm(u) /\ Filled(t, n, "log", u.t)
    BY <1>1, OpenOwn DEF Things
  <1> HIDE DEF p, t, u, n
  <1>4. Fields(r, p, "dpkg", p.FrontendLockFD, p.LockFD, p.LockCount, p.acqLockFD) /\ r.Timeout = p.Timeout /\ r.timeout = p.timeout /\ r.slept = p.slept
    BY <1>1, FieldValues DEF Fields, Processes
  <1> HIDE DEF r
  <1>5. Waited(r)
    BY <1>1, <1>4, WaitedOn DEF Fields
  <1>6. Mine(r, u.t)
    <2>1. Owners(r, u.t)
      BY <1>1, <1>2, <1>3, <1>4, NumbersAre DEF Mine, Owners, Remembered, OnePlain, Control, Distinct, Fields, KeepsFrontend, KeepsLock, Filled
    <2>2. Remembered(r, u.t)
      BY <1>1, <1>2, <1>3, <1>4, NumbersAre DEF Mine, Remembered, OnePlain, Control, Distinct, LockIs, Directory, Fields, KeepsFrontend, KeepsLock, Filled
    <2>3. OnePlain(r, u.t)
      BY <1>1, <1>2, <1>3, <1>4, NumbersAre DEF Mine, OnePlain, Control, Fields, Filled
    <2>4. Control(r)
      BY <1>1, <1>2, <1>3, <1>4, NumbersAre DEF Mine, Control, Fields
    <2>5. Distinct(r)
      BY <1>1, <1>2, <1>3, <1>4, NumbersAre DEF Mine, Distinct, Remembered, Control, LockIs, Directory, Fields, KeepsFrontend, KeepsLock, Filled
    <2> QED BY <1>5, <2>1, <2>2, <2>3, <2>4, <2>5 DEF Mine
  <1>7. r \in Processes
    BY <1>4 DEF Fields
  <1> QED BY <1>0, <1>2, <1>3, <1>6, <1>7, OwnKept

\* The log is closed first, then the pipe of the last round.
LEMMA InstalledOwn ==
  ASSUME OwnInv, NEW a \in Apts, Installed(a)
  PROVE  OwnInv'
  <1>0. dpkg_status' \in Int
    BY DEF OwnInv, Installed
  <1> DEFINE p == apt[a]
             t == fds[a]
  <1>1. /\ Calm(Now(a)) /\ Now(a).t = t /\ t \in [Fds -> Things] /\ Room(t)
        /\ p \in Processes /\ Mine(p, t) /\ Waited(p)
    BY OwnBegin DEF Mine
  <1> DEFINE l == CloseLog(Now(a))
             g == GetLock(l, a, "lock")
             w == Shutdown(g.s)
             r == [p EXCEPT !.pc = "end"]
             q == [p EXCEPT !.LockFD = g.fd, !.swaps = p.swaps + 1, !.pc = "fetch"]
  <1>2. p.pc = "dpkg" /\ ((Keep(a, l) /\ Go(a, r)) \/ (Keep(a, w) /\ Go(a, q)))
    BY Zenon DEF Installed
  <1>3. /\ p.LockCount = 1 /\ p.FrontendLockFD \in Numbers /\ t[p.FrontendLockFD] \in {"lock-frontend", "stdin"}
        /\ p.LockFD = -1 \/ (p.LockFD \in Numbers /\ t[p.LockFD] \in {"none", "log"})
        /\ p.acqLockFD = -1 \/ (p.acqLockFD \in Numbers /\ t[p.acqLockFD] \in {"archives", "stdin"})
        /\ p.cmd = "install"
    BY <1>1, <1>2 DEF Mine, Control, Remembered, KeepsFrontend, KeepsLock, LockIs, Directory
  <1>4. Calm(l) /\ Stripped(t, "log", l.t)
    BY <1>1, DropNames, DropOwn
  <1>5. Room(l.t)
    BY <1>1, <1>4, NumbersAre DEF Room, Stripped
  <1>6. /\ Calm(g.s)
        /\ \/ g.fd = -1 /\ g.s = l
           \/ g.fd # -1 /\ \E x \in {"lock", "stdin"} : Filled(l.t, g.fd, x, g.s.t)
    BY <1>4, <1>5, LockOwn DEF Files
  <1>7. Calm(w) /\ Stripped(g.s.t, "pipe", w.t)
    BY <1>6, DropNames, DropOwn
  <1> HIDE DEF p, t, l, g, w
  <1>8. CASE Keep(a, l) /\ Go(a, r)
    <2>1. Fields(r, p, "end", p.FrontendLockFD, p.LockFD, 1, p.acqLockFD) /\ r.Timeout = p.Timeout /\ r.timeout = p.timeout /\ r.slept = p.slept
      BY <1>1, <1>3, FieldValues DEF Fields, Processes
    <2> HIDE DEF r
    <2>2. Waited(r)
      BY <1>1, <2>1, WaitedOn DEF Fields
    <2>3. Mine(r, l.t)
      <3>1. Owners(r, l.t)
        BY <1>1, <1>2, <1>3, <1>4, <2>1, NumbersAre DEF Mine, Owners, Remembered, OnePlain, Control, Distinct, Fields, KeepsFrontend, KeepsLock, Stripped
      <3>2. Remembered(r, l.t)
        BY <1>1, <1>2, <1>3, <1>4, <2>1, NumbersAre DEF Mine, Remembered, OnePlain, Control, Distinct, LockIs, Directory, Fields, KeepsFrontend, KeepsLock, Stripped
      <3>3. OnePlain(r, l.t)
        BY <1>1, <1>2, <1>3, <1>4, <2>1, NumbersAre DEF Mine, OnePlain, Control, Fields, Stripped
      <3>4. Control(r)
        BY <1>1, <1>2, <1>3, <1>4, <2>1, NumbersAre DEF Mine, Control, Fields
      <3>5. Distinct(r)
        BY <1>1, <1>2, <1>3, <1>4, <2>1, NumbersAre DEF Mine, Distinct, Remembered, Control, LockIs, Directory, Fields, KeepsFrontend, KeepsLock, Stripped
      <3> QED BY <2>2, <3>1, <3>2, <3>3, <3>4, <3>5 DEF Mine
    <2>4. r \in Processes
      BY <2>1 DEF Fields
    <2> QED BY <1>0, <1>4, <1>8, <2>3, <2>4, OwnKept
  <1>9. CASE Keep(a, w) /\ Go(a, q)
    <2>1. g.fd = -1 \/ g.fd \in Numbers
      BY <1>6 DEF Filled
    <2>2. g.fd \in -1..MaxFd /\ p.swaps + 1 \in Int
      BY <1>1, <2>1, NumbersAre, FieldValues DEF Processes
    <2>3. Fields(q, p, "fetch", p.FrontendLockFD, g.fd, 1, p.acqLockFD) /\ q.Timeout = p.Timeout /\ q.timeout = p.timeout /\ q.slept = p.slept
      BY <1>1, <1>3, <2>2, FieldValues DEF Fields, Processes
    <2> HIDE DEF q
    <2>4. Waited(q)
      BY <1>1, <2>3, WaitedOn DEF Fields
    <2>5. q \in Processes
      BY <2>3 DEF Fields
    <2>6. CASE g.fd = -1
      <3>1. \A m \in Fds : w.t[m] = IF t[m] \in {"log", "pipe"} THEN "none" ELSE t[m]
        BY <1>4, <1>6, <1>7, <2>6 DEF Stripped
      <3>2. Mine(q, w.t)
        <4>1. Owners(q, w.t)
          BY <1>1, <1>2, <1>3, <2>3, <2>6, <3>1, NumbersAre DEF Mine, Owners, Remembered, OnePlain, Control, Distinct, Fields, KeepsFrontend, KeepsLock
        <4>2. Remembered(q, w.t)
          BY <1>1, <1>2, <1>3, <2>3, <2>6, <3>1, NumbersAre DEF Mine, Remembered, OnePlain, Control, Distinct, LockIs, Directory, Fields, KeepsFrontend, KeepsLock
        <4>3. OnePlain(q, w.t)
          BY <1>1, <1>2, <1>3, <2>3, <2>6, <3>1, NumbersAre DEF Mine, OnePlain, Control, Fields
        <4>4. Control(q)
          BY <1>1, <1>2, <1>3, <2>3, <2>6, <3>1, NumbersAre DEF Mine, Control, Fields
        <4>5. Distinct(q)
          BY <1>1, <1>2, <1>3, <2>3, <2>6, <3>1, NumbersAre DEF Mine, Distinct, Remembered, Control, LockIs, Directory, Fields, KeepsFrontend, KeepsLock
        <4> QED BY <2>4, <4>1, <4>2, <4>3, <4>4, <4>5 DEF Mine
      <3> QED BY <1>0, <1>7, <1>9, <2>5, <3>2, OwnKept
    <2>7. CASE g.fd # -1
      <3>1. PICK x \in {"lock", "stdin"} : Filled(l.t, g.fd, x, g.s.t)
        BY <1>6, <2>7
      <3>2. /\ g.fd \in Numbers /\ t[g.fd] \in {"none", "log"}
            /\ \A m \in Fds : w.t[m] = IF m = g.fd THEN x ELSE IF t[m] \in {"log", "pipe"} THEN "none" ELSE t[m]
        BY <1>4, <1>7, <3>1, NumbersAre DEF Stripped, Filled
      <3>3. Mine(q, w.t)
        <4>1. Owners(q, w.t)
          BY <1>1, <1>2, <1>3, <2>3, <3>2, NumbersAre DEF Mine, Owners, Remembered, OnePlain, Control, Distinct, Fields, KeepsFrontend, KeepsLock
        <4>2. Remembered(q, w.t)
          BY <1>1, <1>2, <1>3, <2>3, <3>2, NumbersAre DEF Mine, Remembered, OnePlain, Control, Distinct, LockIs, Directory, Fields, KeepsFrontend, KeepsLock
        <4>3. OnePlain(q, w.t)
          BY <1>1, <1>2, <1>3, <2>3, <3>2, NumbersAre DEF Mine, OnePlain, Control, Fields
        <4>4. Control(q)
          BY <1>1, <1>2, <1>3, <2>3, <3>2, NumbersAre DEF Mine, Control, Fields
        <4>5. Distinct(q)
          BY <1>1, <1>2, <1>3, <2>3, <3>2, NumbersAre DEF Mine, Distinct, Remembered, Control, LockIs, Directory, Fields, KeepsFrontend, KeepsLock
        <4> QED BY <2>4, <4>1, <4>2, <4>3, <4>4, <4>5 DEF Mine
      <3> QED BY <1>0, <1>7, <1>9, <2>5, <3>3, OwnKept
    <2> QED BY <2>6, <2>7
  <1> QED BY <1>2, <1>8, <1>9

\* Everything is closed that is open.
LEMMA EndOwn ==
  ASSUME OwnInv, NEW a \in Apts, End(a)
  PROVE  OwnInv'
  <1>0. dpkg_status' \in Int
    BY DEF OwnInv, End, Rest
  <1> DEFINE p == apt[a]
             t == fds[a]
  <1>1. /\ Calm(Now(a)) /\ Now(a).t = t /\ t \in [Fds -> Things] /\ Room(t)
        /\ p \in Processes /\ Mine(p, t) /\ Waited(p)
    BY OwnBegin DEF Mine
  <1> DEFINE what == IF p.cmd \in {"update", "clean"} THEN "lists" ELSE "archives"
             d == Shutdown(Now(a))
             e == Close(d, a, p.acqLockFD, what)
             c == Close(Close(e, a, p.LockFD, "lock"), a, p.FrontendLockFD, "lock-frontend")
             u == UnLocked(e, a, p)
             r == [p EXCEPT !.LockCount = 0, !.acqLockFD = -1, !.pc = "over"]
  <1>2. p.pc = "end" /\ Keep(a, u) /\ Go(a, [UnLockCount(p) EXCEPT !.acqLockFD = -1, !.pc = "over"])
    BY DEF End, AcquireGone
  <1>3. p.LockCount \in {0, 1} /\ p.acqLockFD \in -1..MaxFd /\ p.LockFD \in -1..MaxFd /\ p.FrontendLockFD \in -1..MaxFd
    BY <1>1, <1>2 DEF Mine, Control, Processes
  <1>4. Go(a, r)
    <2>1. UnLockCount(p) = [p EXCEPT !.LockCount = 0]
      BY <1>3 DEF UnLockCount
    <2>2. [[p EXCEPT !.LockCount = 0] EXCEPT !.acqLockFD = -1, !.pc = "over"] = r
      OBVIOUS
    <2> QED BY <1>2, <2>1, <2>2
  <1>5. /\ p.acqLockFD = -1 \/ (p.acqLockFD \in Numbers /\ t[p.acqLockFD] \in {what, "stdin"})
        /\ p.LockCount = 1 => p.LockFD = -1 \/ (p.LockFD \in Numbers /\ t[p.LockFD] \in {"none", "lock", "stdin"})
        /\ p.LockCount = 1 => p.FrontendLockFD \in Numbers /\ t[p.FrontendLockFD] \in {"lock-frontend", "stdin"}
    BY <1>1, <1>2 DEF Mine, Remembered, KeepsFrontend, KeepsLock, LockIs, Directory
  <1>6. Calm(d) /\ Stripped(t, "pipe", d.t)
    BY <1>1, DropNames, DropOwn
  <1> HIDE DEF p, t, d, r, what, u
  <1>7. p.acqLockFD = -1 \/ d.t[p.acqLockFD] \in {what, "stdin", "none"}
    BY <1>5, <1>6, NumbersAre DEF Stripped
  <1>8. Calm(e) /\ Emptied(d.t, p.acqLockFD, e.t)
    BY <1>3, <1>6, <1>7, CloseOwn
  <1> HIDE DEF e
  <1>9. /\ p.LockCount = 1 => p.LockFD = -1 \/ e.t[p.LockFD] \in {"lock", "stdin", "none"}
        /\ p.LockCount = 1 => p.FrontendLockFD = -1 \/ e.t[p.FrontendLockFD] \in {"lock-frontend", "stdin", "none"}
    BY <1>5, <1>6, <1>8, NumbersAre DEF Stripped, Emptied
  <1>10. /\ Calm(u)
         /\ \A m \in Fds : u.t[m] = IF p.LockCount = 1 /\ (m = p.LockFD \/ m = p.FrontendLockFD) THEN "none" ELSE e.t[m]
    <2>1. CASE p.LockCount = 1
      <3>1. u = c
        BY <2>1 DEF u, UnLocked, Last
      <3>2. Calm(c) /\ \A m \in Fds : c.t[m] = IF m = p.LockFD \/ m = p.FrontendLockFD THEN "none" ELSE e.t[m]
        BY <1>3, <1>8, <1>9, <2>1, CloseBoth
      <3> QED BY <2>1, <3>1, <3>2
    <2>2. CASE p.LockCount # 1
      <3>1. u = e
        BY <2>2 DEF u, UnLocked, Last
      <3> QED BY <1>8, <2>2, <3>1
    <2> QED BY <2>1, <2>2
  <1> HIDE DEF c
  <1>11. \A m \in Numbers : u.t[m] = "none"
    <2> SUFFICES ASSUME NEW m \in Numbers PROVE u.t[m] = "none"
      OBVIOUS
    <2>1. m \in Fds
      BY NumbersAre
    <2>2. \/ t[m] \in {"none", "pipe"} \/ m = p.acqLockFD
          \/ p.LockCount = 1 /\ (m = p.LockFD \/ m = p.FrontendLockFD)
      BY <1>1, <1>2 DEF Mine, Owners, OnePlain, KeepsFrontend, KeepsLock
    <2> QED BY <1>6, <1>8, <1>10, <2>1, <2>2 DEF Stripped, Emptied
  <1>12. u.t[0] = "stdin"
    <2>1. t[0] = "stdin"
      BY <1>1 DEF Mine, Owners
    <2> QED BY <1>5, <1>6, <1>8, <1>10, <2>1, NumbersAre DEF Stripped, Emptied
  <1>r. r = [p EXCEPT !.LockCount = 0, !.acqLockFD = -1, !.pc = "over"] /\ 0 \in Int /\ "over" \in Points /\ -1 \in -1..MaxFd /\ p \in Processes
    BY <1>1, FieldValues DEF r
  <1>13. Fields(r, p, "over", p.FrontendLockFD, p.LockFD, 0, -1) /\ r.Timeout = p.Timeout /\ r.timeout = p.timeout /\ r.slept = p.slept
    <2>1. Fields(r, p, "over", p.FrontendLockFD, p.LockFD, 0, -1)
      BY <1>r, CountedTwo
    <2>2. r.Timeout = p.Timeout /\ r.timeout = p.timeout /\ r.slept = p.slept
      BY <1>r DEF Processes
    <2> QED BY <2>1, <2>2
  <1>14. Waited(r)
    BY <1>1, <1>13, WaitedOn DEF Fields
  <1>15. Mine(r, u.t)
    <2>1. Owners(r, u.t)
      BY <1>11, <1>12, <1>13, NumbersAre DEF Mine, Owners, Remembered, OnePlain, Control, Distinct, Fields, KeepsFrontend, KeepsLock
    <2>2. Remembered(r, u.t)
      BY <1>11, <1>12, <1>13, NumbersAre DEF Mine, Remembered, OnePlain, Control, Distinct, LockIs, Directory, Fields, KeepsFrontend, KeepsLock
    <2>3. OnePlain(r, u.t)
      BY <1>11, <1>12, <1>13, NumbersAre DEF Mine, OnePlain, Control, Fields
    <2>4. Control(r)
      BY <1>11, <1>12, <1>13, NumbersAre DEF Mine, Control, Fields
    <2>5. Distinct(r)
      BY <1>11, <1>12, <1>13, NumbersAre DEF Mine, Distinct, Remembered, Control, LockIs, Directory, Fields, KeepsFrontend, KeepsLock
    <2> QED BY <1>14, <2>1, <2>2, <2>3, <2>4, <2>5 DEF Mine
  <1>16. r \in Processes
    BY <1>13 DEF Fields
  <1> QED BY <1>0, <1>2, <1>4, <1>10, <1>15, <1>16, OwnKept

\* The one directory of update and autoclean, and the first one of clean.
LEMMA FirstOwn ==
  ASSUME OwnInv, NEW a \in Apts, dpkg_status' \in Int, apt[a].pc = "start", NEW f \in Files, NEW x, NEW g,
         g = GetLock(Now(a), a, f), Keep(a, g.s), Go(a, [apt[a] EXCEPT !.acqLockFD = g.fd, !.pc = x]),
         \/ apt[a].cmd = "update" /\ f = "lists" /\ x \in {"fetch", "end"}
         \/ apt[a].cmd = "clean" /\ f = "archives" /\ x = "cleaning"
         \/ apt[a].cmd = "autoclean" /\ f = "archives" /\ x = "end"
  PROVE  OwnInv'
  <1> DEFINE p == apt[a]
             t == fds[a]
  <1>1. /\ Calm(Now(a)) /\ Now(a).t = t /\ t \in [Fds -> Things] /\ Room(t)
        /\ p \in Processes /\ Mine(p, t) /\ Waited(p)
    BY OwnBegin DEF Mine
  <1>2. /\ Calm(g.s)
        /\ \/ g.fd = -1 /\ g.s = Now(a)
           \/ g.fd # -1 /\ \E y \in {f, "stdin"} : Filled(t, g.fd, y, g.s.t)
    BY <1>1, LockOwn
  <1>3. p.pc = "start" /\ p.LockCount = 0
    BY <1>1 DEF Mine, Control
  <1>4. g.fd = -1 \/ g.fd \in Numbers
    BY <1>2 DEF Filled
  <1>5. g.fd \in -1..MaxFd /\ x \in Points /\ x \notin {"start", "inner"}
    BY <1>4, NumbersAre, FieldValues
  <1>6. \/ p.cmd = "update" /\ f = "lists" /\ x \in {"fetch", "end"}
        \/ p.cmd = "clean" /\ f = "archives" /\ x = "cleaning"
        \/ p.cmd = "autoclean" /\ f = "archives" /\ x = "end"
    OBVIOUS
  <1> DEFINE r == [p EXCEPT !.acqLockFD = g.fd, !.pc = x]
  <1>7. Go(a, r)
    OBVIOUS
  <1> HIDE DEF p, t
  <1>8. Fields(r, p, x, p.FrontendLockFD, p.LockFD, 0, g.fd) /\ r.Timeout = p.Timeout /\ r.timeout = p.timeout /\ r.slept = p.slept
    BY <1>1, <1>3, <1>5 DEF Fields, Processes
  <1> HIDE DEF r
  <1>9. Waited(r)
    BY <1>1, <1>5, <1>8, WaitedOn DEF Fields
  <1>10. r \in Processes
    BY <1>8 DEF Fields
  <1>11. CASE g.fd = -1
    <2>1. g.s.t = t
      BY <1>1, <1>2, <1>11
    <2>2. Mine(r, g.s.t)
      <3>1. Owners(r, g.s.t)
        BY <1>1, <1>3, <1>6, <1>8, <1>11, <2>1, NumbersAre DEF Mine, Owners, Remembered, OnePlain, Control, Distinct, Fields, KeepsFrontend, KeepsLock
      <3>2. Remembered(r, g.s.t)
        BY <1>1, <1>3, <1>6, <1>8, <1>11, <2>1, NumbersAre DEF Mine, Remembered, OnePlain, Control, Distinct, LockIs, Directory, Fields, KeepsFrontend, KeepsLock
      <3>3. OnePlain(r, g.s.t)
        BY <1>1, <1>3, <1>6, <1>8, <1>11, <2>1, NumbersAre DEF Mine, OnePlain, Control, Fields
      <3>4. Control(r)
        BY <1>1, <1>3, <1>6, <1>8, <1>11, <2>1, NumbersAre DEF Mine, Control, Fields
      <3>5. Distinct(r)
        BY <1>1, <1>3, <1>6, <1>8, <1>11, <2>1, NumbersAre DEF Mine, Distinct, Remembered, Control, LockIs, Directory, Fields, KeepsFrontend, KeepsLock
      <3> QED BY <1>9, <3>1, <3>2, <3>3, <3>4, <3>5 DEF Mine
    <2> QED BY <1>2, <1>7, <1>10, <2>2, OwnKept
  <1>12. CASE g.fd # -1
    <2>1. PICK y \in {f, "stdin"} : Filled(t, g.fd, y, g.s.t)
      BY <1>2, <1>12
    <2>2. Mine(r, g.s.t)
      <3>1. Owners(r, g.s.t)
        BY <1>1, <1>3, <1>6, <1>8, <1>12, <2>1, NumbersAre DEF Mine, Owners, Remembered, OnePlain, Control, Distinct, Fields, KeepsFrontend, KeepsLock, Filled
      <3>2. Remembered(r, g.s.t)
        BY <1>1, <1>3, <1>6, <1>8, <1>12, <2>1, NumbersAre DEF Mine, Remembered, OnePlain, Control, Distinct, LockIs, Directory, Fields, KeepsFrontend, KeepsLock, Filled
      <3>3. OnePlain(r, g.s.t)
        BY <1>1, <1>3, <1>6, <1>8, <1>12, <2>1, NumbersAre DEF Mine, OnePlain, Control, Fields, Filled
      <3>4. Control(r)
        BY <1>1, <1>3, <1>6, <1>8, <1>12, <2>1, NumbersAre DEF Mine, Control, Fields
      <3>5. Distinct(r)
        BY <1>1, <1>3, <1>6, <1>8, <1>12, <2>1, NumbersAre DEF Mine, Distinct, Remembered, Control, LockIs, Directory, Fields, KeepsFrontend, KeepsLock, Filled
      <3> QED BY <1>9, <3>1, <3>2, <3>3, <3>4, <3>5 DEF Mine
    <2> QED BY <1>2, <1>7, <1>10, <2>2, OwnKept
  <1> QED BY <1>11, <1>12

\* update, clean and autoclean lock their directory.
LEMMA DirectoryOwn ==
  ASSUME OwnInv, NEW a \in Apts, Update(a) \/ Clean(a) \/ AutoClean(a)
  PROVE  OwnInv'
  <1>0. dpkg_status' \in Int
    BY DEF OwnInv, Update, Clean, AutoClean, Rest
  <1>1. apt[a].pc = "start" /\ "lists" \in Files /\ "archives" \in Files
    BY DEF Update, Clean, AutoClean, Files
  <1>2. apt[a].acqLockFD = -1
    BY <1>1, OwnBegin DEF Mine, Control
  <1>3. CASE Update(a)
    <2> DEFINE g == GetLock(Now(a), a, "lists")
               x == IF g.fd = -1 THEN "end" ELSE "fetch"
    <2>1. AcquireLock(Now(a), a, "lists") = g
      BY <1>2, AcquiredFirst
    <2>2. apt[a].cmd = "update" /\ Keep(a, g.s) /\ Go(a, [apt[a] EXCEPT !.acqLockFD = g.fd, !.pc = x])
      BY <1>3, <2>1 DEF Update
    <2>3. x \in {"fetch", "end"}
      OBVIOUS
    <2> HIDE DEF x
    <2> QED BY <1>0, <1>1, <2>2, <2>3, FirstOwn
  <1>4. CASE Clean(a)
    <2> DEFINE g == GetLock(Now(a), a, "archives")
    <2>1. AcquireLock(Now(a), a, "archives") = g
      BY <1>2, AcquiredFirst
    <2>2. apt[a].cmd = "clean" /\ Keep(a, g.s) /\ Go(a, [apt[a] EXCEPT !.acqLockFD = g.fd, !.pc = "cleaning"])
      BY <1>4, <2>1 DEF Clean
    <2> QED BY <1>0, <1>1, <2>2, FirstOwn
  <1>5. CASE AutoClean(a)
    <2> DEFINE g == GetLock(Now(a), a, "archives")
    <2>2. apt[a].cmd = "autoclean" /\ Keep(a, g.s) /\ Go(a, [apt[a] EXCEPT !.acqLockFD = g.fd, !.pc = "end"])
      BY <1>5 DEF AutoClean
    <2> QED BY <1>0, <1>1, <2>2, FirstOwn
  <1> QED BY <1>3, <1>4, <1>5

\* clean leaves the archives for the lists.
LEMMA CleanListsOwn ==
  ASSUME OwnInv, NEW a \in Apts, CleanLists(a)
  PROVE  OwnInv'
  <1>0. dpkg_status' \in Int
    BY DEF OwnInv, CleanLists, Rest
  <1> DEFINE p == apt[a]
             t == fds[a]
  <1>1. /\ Calm(Now(a)) /\ Now(a).t = t /\ t \in [Fds -> Things] /\ Room(t)
        /\ p \in Processes /\ Mine(p, t) /\ Waited(p)
    BY OwnBegin DEF Mine
  <1> DEFINE e == Close(Now(a), a, p.acqLockFD, "archives")
             g == GetLock(e, a, "lists")
             r == [p EXCEPT !.acqLockFD = g.fd, !.pc = "end"]
  <1>2. p.pc = "cleaning" /\ Keep(a, g.s) /\ Go(a, r)
    BY DEF CleanLists, AcquireLock
  <1>3. /\ p.LockCount = 0 /\ p.cmd = "clean" /\ p.acqLockFD \in -1..MaxFd
        /\ p.acqLockFD = -1 \/ (p.acqLockFD \in Numbers /\ t[p.acqLockFD] \in {"archives", "stdin"})
    BY <1>1, <1>2, NumbersAre, FieldValues DEF Mine, Control, Remembered, Directory
  <1> HIDE DEF p, t, r
  <1>4. Calm(e) /\ Emptied(t, p.acqLockFD, e.t)
    BY <1>1, <1>3, CloseOwn
  <1> HIDE DEF e
  <1>5. Room(e.t)
    BY <1>1, <1>3, <1>4, NumbersAre DEF Room, Emptied
  <1>6. /\ Calm(g.s)
        /\ \/ g.fd = -1 /\ g.s = e
           \/ g.fd # -1 /\ \E x \in {"lists", "stdin"} : Filled(e.t, g.fd, x, g.s.t)
    BY <1>4, <1>5, LockOwn DEF Files
  <1> HIDE DEF g
  <1>7. g.fd = -1 \/ g.fd \in Numbers
    BY <1>6 DEF Filled
  <1>8. g.fd \in -1..MaxFd
    BY <1>7, NumbersAre, FieldValues
  <1>9. Fields(r, p, "end", p.FrontendLockFD, p.LockFD, 0, g.fd) /\ r.Timeout = p.Timeout /\ r.timeout = p.timeout /\ r.slept = p.slept
    BY <1>1, <1>3, <1>8, FieldValues DEF Fields, Processes, r
  <1>10. Waited(r)
    BY <1>1, <1>9, WaitedOn DEF Fields
  <1>11. r \in Processes
    BY <1>9 DEF Fields
  <1>12. CASE g.fd = -1
    <2>1. g.s.t = e.t
      BY <1>6, <1>12
    <2>2. Mine(r, g.s.t)
      <3>1. Owners(r, g.s.t)
        BY <1>1, <1>2, <1>3, <1>4, <1>9, <1>12, <2>1, NumbersAre DEF Mine, Owners, Remembered, OnePlain, Control, Distinct, Fields, KeepsFrontend, KeepsLock, Emptied
      <3>2. Remembered(r, g.s.t)
        BY <1>1, <1>2, <1>3, <1>4, <1>9, <1>12, <2>1, NumbersAre DEF Mine, Remembered, OnePlain, Control, Distinct, LockIs, Directory, Fields, KeepsFrontend, KeepsLock, Emptied
      <3>3. OnePlain(r, g.s.t)
        BY <1>1, <1>2, <1>3, <1>4, <1>9, <1>12, <2>1, NumbersAre DEF Mine, OnePlain, Control, Fields, Emptied
      <3>4. Control(r)
        BY <1>1, <1>2, <1>3, <1>4, <1>9, <1>12, <2>1, NumbersAre DEF Mine, Control, Fields
      <3>5. Distinct(r)
        BY <1>1, <1>2, <1>3, <1>4, <1>9, <1>12, <2>1, NumbersAre DEF Mine, Distinct, Remembered, Control, LockIs, Directory, Fields, KeepsFrontend, KeepsLock, Emptied
      <3> QED BY <1>10, <3>1, <3>2, <3>3, <3>4, <3>5 DEF Mine
    <2> QED BY <1>0, <1>2, <1>6, <1>11, <2>2, OwnKept
  <1>13. CASE g.fd # -1
    <2>1. PICK x \in {"lists", "stdin"} : Filled(e.t, g.fd, x, g.s.t)
      BY <1>6, <1>13
    <2>2. Mine(r, g.s.t)
      <3>1. Owners(r, g.s.t)
        BY <1>1, <1>2, <1>3, <1>4, <1>9, <2>1, NumbersAre DEF Mine, Owners, Remembered, OnePlain, Control, Distinct, Fields, KeepsFrontend, KeepsLock, Emptied, Filled
      <3>2. Remembered(r, g.s.t)
        BY <1>1, <1>2, <1>3, <1>4, <1>9, <2>1, NumbersAre DEF Mine, Remembered, OnePlain, Control, Distinct, LockIs, Directory, Fields, KeepsFrontend, KeepsLock, Emptied, Filled
      <3>3. OnePlain(r, g.s.t)
        BY <1>1, <1>2, <1>3, <1>4, <1>9, <2>1, NumbersAre DEF Mine, OnePlain, Control, Fields, Emptied, Filled
      <3>4. Control(r)
        BY <1>1, <1>2, <1>3, <1>4, <1>9, <2>1, NumbersAre DEF Mine, Control, Fields
      <3>5. Distinct(r)
        BY <1>1, <1>2, <1>3, <1>4, <1>9, <2>1, NumbersAre DEF Mine, Distinct, Remembered, Control, LockIs, Directory, Fields, KeepsFrontend, KeepsLock, Emptied, Filled
      <3> QED BY <1>10, <3>1, <3>2, <3>3, <3>4, <3>5 DEF Mine
    <2> QED BY <1>0, <1>2, <1>6, <1>11, <2>2, OwnKept
  <1> QED BY <1>12, <1>13

\* The table of a process that has nothing open.
LEMMA NothingOpen == NoFds \in [Fds -> Things] /\ \A m \in Fds : NoFds[m] = IF m = 0 THEN "stdin" ELSE "none"
  BY DEF NoFds, Fds, Things

\* The kernel closes what a killed process had open.
LEMMA KilledOwn ==
  ASSUME OwnInv, NEW a \in Apts, Killed(a)
  PROVE  OwnInv'
  <1>0. dpkg_status' \in Int
    BY DEF OwnInv, Killed, Rest
  <1> DEFINE p == apt[a]
             t == fds[a]
  <1>1. /\ Calm(Now(a)) /\ Now(a).t = t /\ t \in [Fds -> Things] /\ Room(t)
        /\ p \in Processes /\ Mine(p, t) /\ Waited(p)
    BY OwnBegin DEF Mine
  <1> DEFINE s == [t |-> NoFds, h |-> holder', f |-> FALSE]
             r == [p EXCEPT !.pc = "over", !.FrontendLockFD = -1, !.LockFD = -1, !.LockCount = 0, !.acqLockFD = -1]
  <1>2. fds' = [fds EXCEPT ![a] = NoFds] /\ foreign' = foreign /\ Go(a, r)
    BY DEF Killed
  <1>3. foreign = FALSE
    BY DEF OwnInv
  <1>4. s.t = NoFds /\ Keep(a, s)
    BY <1>2, <1>3 DEF Keep
  <1>5. Calm(s)
    BY NothingOpen DEF Calm
  <1> HIDE DEF p, t, s
  <1>6. 0 \in Int
    OBVIOUS
  <1>7. Fields(r, p, "over", -1, -1, 0, -1) /\ r.Timeout = p.Timeout /\ r.timeout = p.timeout /\ r.slept = p.slept
    BY <1>1, <1>6, FieldValues DEF Fields, Processes
  <1> HIDE DEF r
  <1>8. Waited(r)
    BY <1>1, <1>7, WaitedOn DEF Fields
  <1>9. NoFds[0] = "stdin" /\ \A m \in Numbers : NoFds[m] = "none"
    BY NothingOpen, NumbersAre
  <1>10. Mine(r, NoFds)
    <2>1. Owners(r, NoFds)
      BY <1>7, <1>9, NumbersAre DEF Mine, Owners, Remembered, OnePlain, Control, Distinct, Fields, KeepsFrontend, KeepsLock
    <2>2. Remembered(r, NoFds)
      BY <1>7, <1>9, NumbersAre DEF Mine, Remembered, OnePlain, Control, Distinct, LockIs, Directory, Fields, KeepsFrontend, KeepsLock
    <2>3. OnePlain(r, NoFds)
      BY <1>7, <1>9, NumbersAre DEF Mine, OnePlain, Control, Fields
    <2>4. Control(r)
      BY <1>7, <1>9, NumbersAre DEF Mine, Control, Fields
    <2>5. Distinct(r)
      BY <1>7, <1>9, NumbersAre DEF Mine, Distinct, Remembered, Control, LockIs, Directory, Fields, KeepsFrontend, KeepsLock
    <2> QED BY <1>8, <2>1, <2>2, <2>3, <2>4, <2>5 DEF Mine
  <1>11. r \in Processes
    BY <1>7 DEF Fields
  <1> QED BY <1>0, <1>2, <1>4, <1>5, <1>10, <1>11, OwnKept

\* dpkg writes: only what apt planned is compared.
LEMMA ChildWritesOwn ==
  ASSUME OwnInv, NEW a \in Apts, ChildWrites(a)
  PROVE  OwnInv'
  <1>0. dpkg_status' \in Int /\ dpkg_status \in Int
    BY DEF OwnInv, ChildWrites
  <1> DEFINE p == apt[a]
             t == fds[a]
  <1>1. /\ Calm(Now(a)) /\ Now(a).t = t /\ t \in [Fds -> Things] /\ Room(t)
        /\ p \in Processes /\ Mine(p, t) /\ Waited(p)
    BY OwnBegin DEF Mine
  <1> DEFINE k == IF p.plan = dpkg_status THEN dpkg_status + 1 ELSE p.plan
             r == [p EXCEPT !.plan = k]
  <1>2. Go(a, r) /\ fds' = fds /\ foreign' = foreign
    BY DEF ChildWrites, Go, OwnInv
  <1>3. k \in Int
    BY <1>0, <1>1 DEF Processes
  <1> HIDE DEF p, t, k
  <1>4. Fields(r, p, p.pc, p.FrontendLockFD, p.LockFD, p.LockCount, p.acqLockFD) /\ r.Timeout = p.Timeout /\ r.timeout = p.timeout /\ r.slept = p.slept /\ r.i = p.i
    BY <1>1, <1>3 DEF Fields, Processes
  <1> HIDE DEF r
  <1>5. Waited(r)
    BY <1>1, <1>4 DEF Waited, Fields
  <1>6. Mine(r, t) /\ r \in Processes
    BY <1>1, <1>4, <1>5, MineOf DEF Fields
  <1> QED BY <1>0, <1>2, <1>6, OwnSame DEF t

\* Steps of others touch no descriptor of an apt.
LEMMA OthersOwn ==
  ASSUME OwnInv, UNCHANGED <<fds, apt, foreign>>, dpkg_status' \in Int
  PROVE  OwnInv'
  BY DEF OwnInv

\* At the start nothing is open and nothing was waited for.
LEMMA StartsOwn ==
  ASSUME Setup, Init
  PROVE  OwnInv
  <1>1. PICK c \in [Apts -> UNION {Commands[a] : a \in Apts}], t \in [Apts -> UNION {Timeouts[a] : a \in Apts}] :
          /\ \A a \in Apts : c[a] \in Commands[a] /\ t[a] \in Timeouts[a]
          /\ apt = [a \in Apts |-> [pc |-> "start", cmd |-> c[a], FrontendLockFD |-> -1, LockFD |-> -1, LockCount |-> 0,
                                    acqLockFD |-> -1, Timeout |-> t[a], timeout |-> t[a], i |-> 0, slept |-> 0, plan |-> 0,
                                    swaps |-> 0]]
    BY DEF Init
  <1>2. fds = [a \in Apts |-> NoFds] /\ dpkg_status = 0 /\ foreign = FALSE
    BY DEF Init
  <1>3. fds \in [Apts -> [Fds -> Things]] /\ dpkg_status \in Int
    BY <1>2, NothingOpen
  <1>4. apt \in [Apts -> Processes]
    BY Starts DEF Parts, TypeInv
  <1>5. ASSUME NEW a \in Apts PROVE Mine(apt[a], fds[a])
    <2> DEFINE r == apt[a]
    <2>1. /\ r.pc = "start" /\ r.LockCount = 0 /\ r.acqLockFD = -1 /\ r.Timeout = t[a] /\ r.timeout = t[a]
          /\ r.i = 0 /\ r.slept = 0
      BY <1>1
    <2>2. fds[a] = NoFds /\ NoFds[0] = "stdin" /\ \A m \in Numbers : NoFds[m] = "none"
      BY <1>2, NothingOpen, NumbersAre
    <2>3. t[a] \in Int
      BY <1>1 DEF Setup
    <2> HIDE DEF r
    <2>4. Owners(r, fds[a]) /\ OnePlain(r, fds[a])
      BY <2>2 DEF Owners, OnePlain
    <2>5. Remembered(r, fds[a]) /\ Control(r) /\ Distinct(r)
      BY <2>1 DEF Remembered, Control, Distinct, KeepsFrontend, KeepsLock
    <2>6. Waited(r)
      BY <2>1, <2>3 DEF Waited
    <2> QED BY <2>4, <2>5, <2>6 DEF Mine, r
  <1> QED BY <1>2, <1>3, <1>4, <1>5 DEF OwnInv

\* Every step leaves each process with descriptors of its own.
LEMMA StepOwn ==
  ASSUME OwnInv, [Next]_lockvars
  PROVE  OwnInv'
  <1>0. dpkg_status \in Int
    BY DEF OwnInv
  <1>1. CASE UNCHANGED lockvars
    BY <1>0, <1>1, OthersOwn DEF lockvars
  <1>2. ASSUME NEW a \in Apts, LockFrontend(a) \/ LockInner(a) \/ CheckUpdates(a) \/ Plan(a) \/ LockArchives(a) \/ Fetch(a)
        PROVE  OwnInv'
    BY <1>2, LockFrontendOwn, LockInnerOwn, CheckUpdatesOwn, PlanOwn, LockArchivesOwn, FetchOwn
  <1>3. ASSUME NEW a \in Apts, UnLockInner(a) \/ OpenLog(a) \/ Installed(a) \/ End(a) \/ CleanLists(a) \/ Killed(a)
        PROVE  OwnInv'
    BY <1>3, UnLockInnerOwn, OpenLogOwn, InstalledOwn, EndOwn, CleanListsOwn, KilledOwn
  <1>4. ASSUME NEW a \in Apts, Update(a) \/ Clean(a) \/ AutoClean(a)
        PROVE  OwnInv'
    BY <1>4, DirectoryOwn
  <1>5. ASSUME NEW a \in Apts, ChildLock(a) \/ ChildWrites(a) \/ ChildEnds(a)
        PROVE  OwnInv'
    <2>1. CASE ChildWrites(a)
      BY <2>1, ChildWritesOwn
    <2>2. CASE ChildLock(a) \/ ChildEnds(a)
      <3>1. UNCHANGED <<fds, apt, foreign, dpkg_status>>
        BY <2>2 DEF ChildLock, ChildEnds
      <3> QED BY <1>0, <3>1, OthersOwn
    <2> QED BY <1>5, <2>1, <2>2
  <1>6. ASSUME NEW o \in {"dpkg", "tool"}, OtherLocks(o) \/ OtherEnds(o)
        PROVE  OwnInv'
    <2>1. UNCHANGED <<fds, apt, foreign>>
      BY <1>6 DEF OtherLocks, OtherEnds
    <2>2. dpkg_status' \in {dpkg_status, dpkg_status + 1}
      BY <1>6 DEF OtherLocks, OtherEnds
    <2> QED BY <1>0, <2>1, <2>2, OthersOwn
  <1> QED BY <1>1, <1>2, <1>3, <1>4, <1>5, <1>6 DEF Next

\* What has an owner until it is closed is closed at the end.
LEMMA OwnMeans ==
  ASSUME OwnInv
  PROVE  OwnDescriptors
  <1>1. ~foreign
    BY DEF OwnInv
  <1>2. ASSUME NEW a \in Apts, apt[a].pc = "over" PROVE fds[a] = NoFds
    <2> DEFINE p == apt[a]
               t == fds[a]
    <2>1. t \in [Fds -> Things] /\ Mine(p, t) /\ p.pc = "over"
      BY <1>2 DEF OwnInv
    <2> HIDE DEF p, t
    <2>2. p.LockCount = 0 /\ p.acqLockFD = -1
      BY <2>1 DEF Mine, Control
    <2>3. t[0] = "stdin" /\ \A n \in Numbers : t[n] = "none"
      BY <2>1, <2>2, NumbersAre DEF Mine, Owners, OnePlain, KeepsFrontend, KeepsLock
    <2>4. \A n \in Fds : t[n] = NoFds[n]
      BY <2>3, NumbersAre, NothingOpen
    <2>5. t = NoFds
      BY <2>1, <2>4, NothingOpen
    <2> QED BY <2>5 DEF t
  <1>3. ASSUME NEW a \in Apts, apt[a].Timeout >= 0 PROVE apt[a].slept <= apt[a].Timeout
    <2>1. Waited(apt[a]) /\ apt[a].Timeout \in Int /\ apt[a].slept \in Int
      BY DEF OwnInv, Mine, Processes
    <2> QED BY <1>3, <2>1 DEF Waited
  <1> QED BY <1>1, <1>2, <1>3 DEF OwnDescriptors

\* The locks protect what they are for (PlanFresh), and the lock code closes
\* its own descriptors, all of them and no others, on every kind of file
\* system, although numbers are used again: GetLock, debSystem, pkgAcquire.
\* The two waits of debSystem::Lock together keep to DPkg::Lock::Timeout.
THEOREM LocksAreKept ==
  ASSUME Setup
  PROVE  Spec => []LocksProtect
  <1>1. Init => OwnInv
    BY StartsOwn
  <1>2. OwnInv /\ [Next]_lockvars => OwnInv'
    BY StepOwn
  <1>3. OwnInv => OwnDescriptors
    BY OwnMeans
  <1>4. Spec => []PlanFresh
    BY PlansAreFresh
  <1>5. PlanFresh /\ OwnDescriptors => LocksProtect
    BY DEF LocksProtect
  <1> QED BY <1>1, <1>2, <1>3, <1>4, <1>5, PTL DEF Spec
=============================================================================
