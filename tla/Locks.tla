------------------------------- MODULE Locks --------------------------------
(***************************************************************************)
(* The locks that keep two runs of apt, and apt and dpkg, apart: GetLock   *)
(* (fileutl.cc) takes a file lock of fcntl, debSystem (debsystem.cc) the   *)
(* frontend lock and dpkg's own lock, pkgAcquire (acquire.cc) the lock of  *)
(* the archives or of the lists. InstallPackages (private-install.cc)      *)
(* gives dpkg's lock up, and not the frontend lock, for dpkg to take it,   *)
(* and takes it back for another round when media have to be swapped.      *)
(*                                                                         *)
(* A lock of fcntl belongs to a process and is lost when the process       *)
(* closes ANY descriptor of the file. Descriptors are numbers which are    *)
(* used again: the table of each process is part of the state, with what   *)
(* each number stands for ("pipe": a method, "log": the logs of dpkg).     *)
(***************************************************************************)
EXTENDS Integers, Sequences, FiniteSets

CONSTANTS
  Apts,       \* processes of apt
  Commands,   \* apt -> what it may run: "install", "download", "update", "clean", "autoclean"
  Timeouts,   \* apt -> values of DPkg::Lock::Timeout
  MaxSwaps,   \* rounds of media swapping
  MaxRuns     \* runs of dpkg, and of a tool that knows dpkg's lock only, without apt

VARIABLES
  locking,         \* what the file system does: "locks", "none" (read-only, or nfs without locks), "denied"
  holder,     \* lock file -> who holds it
  fds,        \* apt -> descriptor -> what it is
  apt,        \* apt -> [pc, cmd, FrontendLockFD, LockFD, LockCount, acqLockFD, Timeout, timeout, i, slept, plan, swaps]
  dpkg,       \* apt -> its dpkg: "none", "starts", "runs", "wrote", "done", "failed"
  others,     \* "dpkg", "tool" -> "none", "frontend", "runs"
  runs_left,
  dpkg_status, \* the version of dpkg's status file
  journal,    \* dpkg was interrupted: entries in updates/
  intruded,   \* apts that held the frontend lock while the tool, or the dpkg of a killed apt, began to write
  foreign     \* a close() hit a descriptor of something else

lockvars == <<locking, holder, fds, apt, dpkg, others, runs_left, dpkg_status, journal, intruded, foreign>>

Files == {"lock-frontend", "lock", "archives", "lists"}
Nobody == <<>>
MaxFd == 6
NoFds == [n \in 0..MaxFd |-> IF n = 0 THEN "stdin" ELSE "none"]

Init ==
  /\ locking \in {"locks", "none", "denied"}
  /\ holder = [f \in Files |-> Nobody] /\ fds = [a \in Apts |-> NoFds]
  /\ \E c \in [Apts -> UNION {Commands[a] : a \in Apts}], t \in [Apts -> UNION {Timeouts[a] : a \in Apts}] :
       /\ \A a \in Apts : c[a] \in Commands[a] /\ t[a] \in Timeouts[a]
       /\ apt = [a \in Apts |-> [pc |-> "start", cmd |-> c[a], FrontendLockFD |-> -1, LockFD |-> -1, LockCount |-> 0, acqLockFD |-> -1,
                              Timeout |-> t[a], timeout |-> t[a], i |-> 0, slept |-> 0, plan |-> 0, swaps |-> 0]]
  /\ dpkg = [a \in Apts |-> "none"] /\ others = [o \in {"dpkg", "tool"} |-> "none"] /\ runs_left = MaxRuns
  /\ dpkg_status = 0 /\ journal = FALSE /\ intruded = {} /\ foreign = FALSE

(* A process with the locks: [t: its descriptors, h: holder, f: foreign].  *)
Now(a) == [t |-> fds[a], h |-> holder, f |-> foreign]
Keep(a, s) == fds' = [fds EXCEPT ![a] = s.t] /\ holder' = s.h /\ foreign' = s.f

LowestFree(t) == CHOOSE n \in 0..MaxFd : t[n] = "none" /\ \A m \in 0..n - 1 : t[m] # "none"
Opened(s, what) == [s EXCEPT !.t[LowestFree(s.t)] = what]

(* close(n) by somebody who means `what`; any other number is foreign. The *)
(* descriptor GetLock made up without a lock is a copy of stdin.           *)
Close(s, a, n, what) ==
  IF n = -1 \/ s.t[n] = "none" THEN s
  ELSE [t |-> [s.t EXCEPT ![n] = "none"],
        h |-> [f \in Files |-> IF f = s.t[n] /\ s.h[f] = <<a>> THEN Nobody ELSE s.h[f]],
        f |-> s.f \/ s.t[n] \notin {what, "stdin"}]

(* ::GetLock: [s, fd].                                                     *)
Free(s, a, f) == s.h[f] \in {Nobody, <<a>>}
GetLock(s, a, f) ==
  IF locking = "denied" THEN [s |-> s, fd |-> -1]
  ELSE IF locking = "none" THEN [s |-> Opened(s, "stdin"), fd |-> LowestFree(s.t)]
  ELSE IF ~Free(s, a, f) THEN [s |-> s, fd |-> -1]
  ELSE [s |-> [Opened(s, f) EXCEPT !.h[f] = <<a>>], fd |-> LowestFree(s.t)]

Rest == <<locking, dpkg, others, runs_left, dpkg_status, journal, intruded>>
Go(a, r) == apt' = [apt EXCEPT ![a] = r]

-----------------------------------------------------------------------------
(* debSystem::Lock. A try of GetLockMaybeWait is a step; between two tries *)
(* it sleeps for a second. What is left of the timeout is for dpkg's lock. *)
Waits(p, g) == g.fd = -1 /\ locking # "denied" /\ p.timeout # 0 /\ (p.timeout < 0 \/ p.i + 1 < p.timeout)
Slept(p) == IF p.timeout <= 0 \/ locking = "denied" THEN p ELSE [p EXCEPT !.i = @ + 1, !.slept = @ + 1]
Left(p) == IF p.timeout > 0 THEN [p EXCEPT !.timeout = @ - p.i, !.i = 0] ELSE p

LockFrontend(a) ==
  /\ apt[a].pc = "start" /\ apt[a].cmd \in {"install", "download"}
  /\ \E g \in {GetLock(Now(a), a, "lock-frontend")} :
       /\ Keep(a, g.s)
       /\ Go(a, IF Waits(apt[a], g) THEN Slept(apt[a])
                ELSE IF g.fd = -1 THEN [Slept(apt[a]) EXCEPT !.FrontendLockFD = -1, !.pc = "end"]
                ELSE [Left(apt[a]) EXCEPT !.FrontendLockFD = g.fd, !.pc = "inner"])
  /\ UNCHANGED Rest

LockInnerFails(a, s) == Close(s, a, apt[a].FrontendLockFD, "lock-frontend")
LockInner(a) ==
  /\ apt[a].pc = "inner"
  /\ \E g \in {GetLock(Now(a), a, "lock")} :
       /\ Keep(a, IF g.fd # -1 \/ Waits(apt[a], g) THEN g.s ELSE LockInnerFails(a, g.s))
       /\ Go(a, IF Waits(apt[a], g) THEN Slept(apt[a])
                ELSE IF g.fd = -1 THEN [Slept(apt[a]) EXCEPT !.LockFD = -1, !.pc = "end"]
                ELSE [apt[a] EXCEPT !.LockFD = g.fd, !.pc = "checkupdates"])
  /\ UNCHANGED Rest

CheckUpdates(a) ==
  /\ apt[a].pc = "checkupdates"
  /\ IF journal
     THEN /\ Keep(a, Close(Close(Now(a), a, apt[a].LockFD, "lock"), a, apt[a].FrontendLockFD, "lock-frontend"))
          /\ Go(a, [apt[a] EXCEPT !.LockFD = -1, !.FrontendLockFD = -1, !.pc = "end"])
     ELSE Go(a, [apt[a] EXCEPT !.LockCount = @ + 1, !.pc = "plan"]) /\ UNCHANGED <<fds, holder, foreign>>
  /\ UNCHANGED Rest

(* debSystem::UnLock                                                       *)
Last(p) == p.LockCount = 1
UnLocked(s, a, p) ==
  IF Last(p) THEN Close(Close(s, a, p.LockFD, "lock"), a, p.FrontendLockFD, "lock-frontend") ELSE s
UnLockCount(p) == [p EXCEPT !.LockCount = IF @ = 0 THEN 0 ELSE @ - 1]

-----------------------------------------------------------------------------
(* InstallPackages. The cache is built, and the plan made, under the lock. *)
Plan(a) ==
  /\ apt[a].pc = "plan"
  /\ Go(a, [apt[a] EXCEPT !.plan = dpkg_status, !.pc = "lockarchives"])
  /\ UNCHANGED <<fds, holder, foreign>> /\ UNCHANGED Rest

(* pkgAcquire::GetLock                                                     *)
AcquireLock(s, a, f) == GetLock(Close(s, a, apt[a].acqLockFD, IF f = "lists" THEN "archives" ELSE f), a, f)
LockArchives(a) ==
  /\ apt[a].pc = "lockarchives"
  /\ \E g \in {AcquireLock(Now(a), a, "archives")} :
       IF g.fd = -1 THEN Keep(a, g.s) /\ Go(a, [apt[a] EXCEPT !.acqLockFD = -1, !.pc = "end"])
       ELSE IF apt[a].cmd = "download"
       THEN Keep(a, UnLocked(g.s, a, apt[a])) /\ Go(a, [UnLockCount(apt[a]) EXCEPT !.acqLockFD = g.fd, !.pc = "fetch"])
       ELSE Keep(a, g.s) /\ Go(a, [apt[a] EXCEPT !.acqLockFD = g.fd, !.pc = "fetch"])
  /\ UNCHANGED Rest

(* AcquireRun starts a method, whose pipe stays open until Shutdown.       *)
Fetch(a) ==
  /\ apt[a].pc = "fetch"
  /\ Keep(a, Opened(Now(a), "pipe"))
  /\ \E ok \in BOOLEAN :
       Go(a, [apt[a] EXCEPT !.pc = IF apt[a].cmd = "install" /\ ok THEN "unlockinner" ELSE "end"])
  /\ UNCHANGED Rest

\* mutant: the frontend lock is given up with dpkg's
UnLockInner_Both(a) ==
  /\ apt[a].pc = "unlockinner"
  /\ Keep(a, Close(Close(Now(a), a, apt[a].LockFD, "lock"), a, apt[a].FrontendLockFD, "lock-frontend"))
  /\ Go(a, [apt[a] EXCEPT !.pc = "openlog"])
  /\ UNCHANGED Rest
UnLockInner(a) ==
  /\ apt[a].pc = "unlockinner"
  /\ Keep(a, Close(Now(a), a, apt[a].LockFD, "lock"))
  /\ Go(a, [apt[a] EXCEPT !.pc = "openlog"])
  /\ UNCHANGED Rest

(* pkgDPkgPM::Go with its logs, DPKG_FRONTEND_LOCKED is set for dpkg.      *)
OpenLog(a) ==
  /\ apt[a].pc = "openlog"
  /\ Keep(a, Opened(Now(a), "log"))
  /\ Go(a, [apt[a] EXCEPT !.pc = "dpkg"])
  /\ dpkg' = [dpkg EXCEPT ![a] = "starts"]
  /\ UNCHANGED <<locking, others, runs_left, dpkg_status, journal, intruded>>

(* dpkg, the child: it takes its lock, writes, and ends or is interrupted. *)
ChildLock(a) ==
  /\ dpkg[a] = "starts"
  /\ locking # "denied"
  /\ IF locking = "none" THEN UNCHANGED holder /\ dpkg' = [dpkg EXCEPT ![a] = "runs"]
     ELSE IF holder["lock"] = Nobody
     THEN holder' = [holder EXCEPT !["lock"] = <<a, "dpkg">>] /\ dpkg' = [dpkg EXCEPT ![a] = "runs"]
     ELSE UNCHANGED holder /\ dpkg' = [dpkg EXCEPT ![a] = "failed"]
  /\ intruded' = IF apt[a].pc = "over" THEN intruded \cup {b \in Apts : holder["lock-frontend"] = <<b>>} ELSE intruded
  /\ UNCHANGED <<locking, fds, apt, others, runs_left, dpkg_status, journal, foreign>>
ChildWrites(a) ==
  /\ dpkg[a] = "runs"
  /\ dpkg' = [dpkg EXCEPT ![a] = "wrote"]
  /\ dpkg_status' = dpkg_status + 1
  /\ apt' = [apt EXCEPT ![a].plan = IF @ = dpkg_status THEN dpkg_status + 1 ELSE @]
  /\ UNCHANGED <<locking, holder, fds, others, runs_left, journal, intruded, foreign>>
ChildEnds(a) ==
  /\ dpkg[a] \in {"runs", "wrote"}
  /\ \E interrupted \in BOOLEAN :
       /\ interrupted \/ dpkg[a] = "wrote"
       /\ dpkg' = [dpkg EXCEPT ![a] = IF interrupted THEN "failed" ELSE "done"]
       /\ journal' = (journal \/ interrupted)
  /\ holder' = IF holder["lock"] = <<a, "dpkg">> THEN [holder EXCEPT !["lock"] = Nobody] ELSE holder
  /\ UNCHANGED <<locking, fds, apt, others, runs_left, dpkg_status, intruded, foreign>>

CloseLog(s) == [s EXCEPT !.t = [n \in 0..MaxFd |-> IF s.t[n] = "log" THEN "none" ELSE s.t[n]]]
Shutdown(s) == [s EXCEPT !.t = [n \in 0..MaxFd |-> IF s.t[n] = "pipe" THEN "none" ELSE s.t[n]]]
(* After dpkg: Completed and Failed end the command; for Incomplete the    *)
(* result of LockInner is not looked at and the next archives are fetched. *)
Installed(a) ==
  /\ apt[a].pc = "dpkg" /\ dpkg[a] \in {"done", "failed"}
  /\ dpkg' = [dpkg EXCEPT ![a] = "none"]
  /\ \/ Keep(a, CloseLog(Now(a))) /\ Go(a, [apt[a] EXCEPT !.pc = "end"])
     \/ /\ dpkg[a] = "done" /\ apt[a].swaps < MaxSwaps
        /\ \E g \in {GetLock(CloseLog(Now(a)), a, "lock")} :
             Keep(a, Shutdown(g.s)) /\ Go(a, [apt[a] EXCEPT !.LockFD = g.fd, !.swaps = @ + 1, !.pc = "fetch"])
  /\ UNCHANGED <<locking, others, runs_left, dpkg_status, journal, intruded>>

(* The end of a command: ~pkgAcquire, then ~pkgCacheFile with UnLock(true).*)
AcquireGone(s, a) == Close(Shutdown(s), a, apt[a].acqLockFD, IF apt[a].cmd \in {"update", "clean"} THEN "lists" ELSE "archives")
End(a) ==
  /\ apt[a].pc = "end"
  /\ Keep(a, UnLocked(AcquireGone(Now(a), a), a, apt[a]))
  /\ Go(a, [UnLockCount(apt[a]) EXCEPT !.acqLockFD = -1, !.pc = "over"])
  /\ UNCHANGED Rest

(* ListUpdate.                                                             *)
Update(a) ==
  /\ apt[a].pc = "start" /\ apt[a].cmd = "update"
  /\ \E g \in {AcquireLock(Now(a), a, "lists")} :
       Keep(a, g.s) /\ Go(a, [apt[a] EXCEPT !.acqLockFD = g.fd, !.pc = IF g.fd = -1 THEN "end" ELSE "fetch"])
  /\ UNCHANGED Rest

(* CleanDownloadDirectories: one pkgAcquire for both directories, either   *)
(* may be in use.                                                          *)
Clean(a) ==
  /\ apt[a].pc = "start" /\ apt[a].cmd = "clean"
  /\ \E g \in {AcquireLock(Now(a), a, "archives")} :
       Keep(a, g.s) /\ Go(a, [apt[a] EXCEPT !.acqLockFD = g.fd, !.pc = "cleaning"])
  /\ UNCHANGED Rest
CleanLists(a) ==
  /\ apt[a].pc = "cleaning"
  /\ \E g \in {AcquireLock(Now(a), a, "lists")} :
       Keep(a, g.s) /\ Go(a, [apt[a] EXCEPT !.acqLockFD = g.fd, !.pc = "end"])
  /\ UNCHANGED Rest
(* DoAutoClean                                                             *)
AutoClean(a) ==
  /\ apt[a].pc = "start" /\ apt[a].cmd = "autoclean"
  /\ \E g \in {GetLock(Now(a), a, "archives")} :
       Keep(a, g.s) /\ Go(a, [apt[a] EXCEPT !.acqLockFD = g.fd, !.pc = "end"])
  /\ UNCHANGED Rest

(* A signal ends apt; the dpkg it started goes on.                         *)
Killed(a) ==
  /\ apt[a].pc \notin {"start", "over"}
  /\ fds' = [fds EXCEPT ![a] = NoFds]
  /\ holder' = [f \in Files |-> IF holder[f] = <<a>> THEN Nobody ELSE holder[f]]
  /\ Go(a, [apt[a] EXCEPT !.pc = "over", !.FrontendLockFD = -1, !.LockFD = -1, !.LockCount = 0, !.acqLockFD = -1])
  /\ UNCHANGED Rest /\ UNCHANGED foreign

-----------------------------------------------------------------------------
(* dpkg run by hand takes both locks; a tool which only knows dpkg's lock. *)
OtherLocks(o) ==
  /\ locking = "locks" /\ runs_left > 0
  /\ \/ /\ o = "dpkg" /\ others[o] = "none" /\ holder["lock-frontend"] = Nobody
        /\ holder' = [holder EXCEPT !["lock-frontend"] = <<o>>] /\ others' = [others EXCEPT ![o] = "frontend"]
        /\ UNCHANGED <<dpkg_status, intruded>>
     \/ /\ others[o] = (IF o = "dpkg" THEN "frontend" ELSE "none") /\ holder["lock"] = Nobody
        /\ holder' = [holder EXCEPT !["lock"] = <<o>>] /\ others' = [others EXCEPT ![o] = "runs"]
        /\ dpkg_status' = dpkg_status + 1
        /\ intruded' = IF o = "tool" THEN intruded \cup {a \in Apts : holder["lock-frontend"] = <<a>>} ELSE intruded
  /\ UNCHANGED <<locking, fds, apt, dpkg, runs_left, journal, foreign>>
OtherEnds(o) ==
  /\ others[o] # "none"
  /\ others' = [others EXCEPT ![o] = "none"]
  /\ holder' = [f \in Files |-> IF holder[f] = <<o>> THEN Nobody ELSE holder[f]]
  /\ runs_left' = runs_left - 1
  /\ UNCHANGED <<locking, fds, apt, dpkg, dpkg_status, journal, intruded, foreign>>

Next ==
  \/ \E a \in Apts : \/ LockFrontend(a) \/ LockInner(a) \/ CheckUpdates(a) \/ Plan(a) \/ LockArchives(a) \/ Fetch(a) \/ UnLockInner(a)
                     \/ OpenLog(a) \/ ChildLock(a) \/ ChildWrites(a) \/ ChildEnds(a) \/ Installed(a) \/ End(a)
                     \/ Update(a) \/ Clean(a) \/ CleanLists(a) \/ AutoClean(a) \/ Killed(a)
  \/ \E o \in {"dpkg", "tool"} : OtherLocks(o) \/ OtherEnds(o)

Spec == Init /\ [][Next]_lockvars

-----------------------------------------------------------------------------
Writers == {a \in Apts : dpkg[a] \in {"runs", "wrote"}} \cup {o \in {"dpkg", "tool"} : others[o] = "runs"}
UsesArchives ==
  {a \in Apts : \/ apt[a].pc \in {"fetch", "unlockinner", "openlog", "dpkg"} /\ apt[a].cmd \in {"install", "download"}
                \/ apt[a].pc \in {"cleaning", "end"} /\ apt[a].acqLockFD # -1 /\ fds[a][apt[a].acqLockFD] = "archives"}

(* Where the file system has locks: only one dpkg writes at a time, even   *)
(* when its apt was killed and another one has started; while one apt      *)
(* fetches archives or installs them no other one fetches into, or cleans, *)
(* their directory; and when apt's dpkg starts, the status file still is   *)
(* the one apt made its plan from, although apt gave up dpkg's lock        *)
(* (unless a tool that does not know the frontend lock came in between, or *)
(* a dpkg whose apt was killed before that dpkg had taken its lock).       *)
PlanFresh ==
  locking = "locks" =>
    /\ Cardinality(Writers) <= 1
    /\ Cardinality(UsesArchives) <= 1
    /\ \A a \in Apts : dpkg[a] = "runs" /\ apt[a].pc = "dpkg" /\ a \notin intruded => apt[a].plan = dpkg_status

(* The lock code closes its own descriptors, all of them and no others,    *)
(* although the number of a closed one stays in LockFD and                 *)
(* FrontendLockFD and is given to other files meanwhile; and the two waits *)
(* of Lock together are not longer than DPkg::Lock::Timeout.               *)
OwnDescriptors ==
  /\ ~foreign
  /\ \A a \in Apts : apt[a].pc = "over" => fds[a] = NoFds
  /\ \A a \in Apts : apt[a].Timeout >= 0 => apt[a].slept <= apt[a].Timeout

(* The locks protect what they are for, and are really held meanwhile.     *)
LocksProtect == PlanFresh /\ OwnDescriptors
=============================================================================
