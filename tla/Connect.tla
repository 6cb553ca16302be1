------------------------------ MODULE Connect -------------------------------
(***************************************************************************)
(* Connections of the methods (methods/connect.cc): the cached addresses   *)
(* of the last host, their rotation, addresses known as bad, SRV records,  *)
(* and several attempts under way at once. Resolver and network are        *)
(* external and may answer in any way.                                     *)
(***************************************************************************)
EXTENDS Integers, Sequences, FiniteSets, SequencesExt

CONSTANTS
  Hosts,
  Addresses,   \* host -> sequence of [name, family]
  Srv,         \* host -> set of hosts its SRV records name
  MaxConnects  \* bound: calls of Connect

VARIABLES
  LastHost, LastHostAddr, LastUsed,  \* LastUsed is a position of LastHostAddr, 0 is null
  bad_addr, SrvRecords,
  job,    \* the call of Connect: [pc, host, target, todo, conns, tried, direct]
  calls

vars == <<LastHost, LastHostAddr, LastUsed, bad_addr, SrvRecords, job, calls>>

NoJob == [pc |-> "idle", host |-> "none", target |-> "none", todo |-> <<>>, conns |-> {}, tried |-> {}, direct |-> FALSE]

Init ==
  /\ LastHost = "none" /\ LastHostAddr = <<>> /\ LastUsed = 0 /\ bad_addr = {} /\ SrvRecords = {}
  /\ job = NoJob /\ calls = 0

\* mutant: the list does not wrap around
OrderAddressesNoWrap(addrs, used) ==
  LET start == IF used = 0 THEN 1 ELSE used IN [k \in 1..(Len(addrs) - start + 1) |-> start + k - 1]

\* the cycle that starts with the address used last, alternating between its family and the others
OrderAddresses(addrs, used) ==
  LET n     == Len(addrs)
      start == IF used = 0 THEN 1 ELSE used
      cycle == [k \in 1..n |-> ((start + k - 2) % n) + 1]
      preferred == SelectSeq(cycle, LAMBDA a : addrs[a].family = addrs[start].family)
      other == SelectSeq(cycle, LAMBDA a : addrs[a].family # addrs[start].family)
      both  == IF Len(preferred) < Len(other) THEN Len(preferred) ELSE Len(other)
  IN IF n = 0 THEN <<>>
     ELSE [k \in 1..(2 * both) |-> IF k % 2 = 1 THEN preferred[(k + 1) \div 2] ELSE other[k \div 2]]
          \o SubSeq(preferred, both + 1, Len(preferred)) \o SubSeq(other, both + 1, Len(other))

\* called by the methods after a connection turned out to be no good
RotateDNS ==
  /\ job.pc = "idle"
  /\ LastUsed' = IF LastUsed # 0 /\ LastUsed < Len(LastHostAddr) THEN LastUsed + 1
                 ELSE IF LastHostAddr = <<>> THEN 0 ELSE 1
  /\ UNCHANGED <<LastHost, LastHostAddr, bad_addr, SrvRecords, job, calls>>

Start(h) ==
  /\ job.pc = "idle" /\ calls < MaxConnects /\ calls' = calls + 1
  /\ SrvRecords' = IF LastHost # h THEN Srv[h] ELSE SrvRecords
  /\ job' = [NoJob EXCEPT !.pc = "target", !.host = h]
  /\ UNCHANGED <<LastHost, LastHostAddr, LastUsed, bad_addr>>

\* the SRV records in any order (of one priority), then the host itself
Target ==
  /\ job.pc = "target"
  /\ \/ \E t \in SrvRecords : SrvRecords' = SrvRecords \ {t} /\ job' = [job EXCEPT !.pc = "resolve", !.target = t, !.tried = {}]
     \/ SrvRecords = {} /\ UNCHANGED SrvRecords
        /\ job' = [job EXCEPT !.pc = "resolve", !.target = job.host, !.tried = {}, !.direct = TRUE]
  /\ UNCHANGED <<LastHost, LastHostAddr, LastUsed, bad_addr, calls>>

\* ConnectToHostname returns an error: the next target, or the call is over
Failed(j) == IF j.direct THEN [j EXCEPT !.pc = "failed", !.todo = <<>>, !.conns = {}] ELSE [j EXCEPT !.pc = "target", !.todo = <<>>, !.conns = {}]

Attempts(addrs, used) == [job EXCEPT !.pc = "connect", !.todo = OrderAddresses(addrs, used)]

Cached ==
  /\ job.pc = "resolve" /\ LastHost = job.target
  /\ job' = Attempts(LastHostAddr, LastUsed)
  /\ UNCHANGED <<LastHost, LastHostAddr, LastUsed, bad_addr, SrvRecords, calls>>

\* the old addresses are freed before the new ones are known; LastHost changes only if there are any
Resolve(known) ==
  /\ job.pc = "resolve" /\ LastHost # job.target
  /\ known => job.target \notin bad_addr
  /\ LastHostAddr' = IF known THEN Addresses[job.target] ELSE <<>>
  /\ LastUsed' = 0
  /\ LastHost' = IF known THEN job.target ELSE LastHost
  /\ job' = IF known THEN Attempts(LastHostAddr', 0) ELSE Failed(job)
  /\ \E gone \in IF known THEN {{}} ELSE {{}, {job.target}} : bad_addr' = bad_addr \cup gone
  /\ UNCHANGED <<SrvRecords, calls>>

\* what is the next attempt, after the last one has not succeeded within ConnectionAttemptDelayMsec
DoConnect ==
  /\ job.pc = "connect" /\ job.todo # <<>>
  /\ LET a == job.todo[1]
         rest == [job EXCEPT !.todo = Tail(@), !.tried = @ \cup {a}]
     IN \/ LastHostAddr[a].name \notin bad_addr /\ job' = [rest EXCEPT !.conns = @ \cup {a}]
        \/ job' = rest   \* a bad address, or the attempt cannot even start
  /\ UNCHANGED <<LastHost, LastHostAddr, LastUsed, bad_addr, SrvRecords, calls>>

\* Take
Connected ==
  /\ job.pc = "connect"
  /\ \E a \in job.conns : LastUsed' = a
  /\ job' = [job EXCEPT !.pc = "connected", !.todo = <<>>, !.conns = {}]
  /\ UNCHANGED <<LastHost, LastHostAddr, bad_addr, SrvRecords, calls>>

CheckError ==
  /\ job.pc = "connect"
  /\ \E a \in job.conns : bad_addr' = bad_addr \cup {LastHostAddr[a].name} /\ job' = [job EXCEPT !.conns = @ \ {a}]
  /\ UNCHANGED <<LastHost, LastHostAddr, LastUsed, SrvRecords, calls>>

\* nothing is left to try: every attempt still under way has timed out
GiveUp ==
  /\ job.pc = "connect" /\ job.todo = <<>>
  /\ bad_addr' = bad_addr \cup {LastHostAddr[a].name : a \in job.conns}
  /\ job' = Failed(job)
  /\ UNCHANGED <<LastHost, LastHostAddr, LastUsed, SrvRecords, calls>>

Return == job.pc \in {"connected", "failed"} /\ job' = NoJob /\ UNCHANGED <<LastHost, LastHostAddr, LastUsed, bad_addr, SrvRecords, calls>>

Next ==
  \/ RotateDNS \/ \E h \in Hosts : Start(h)
  \/ Target \/ Cached \/ \E known \in BOOLEAN : Resolve(known)
  \/ DoConnect \/ Connected \/ CheckError \/ GiveUp \/ Return

Spec == Init /\ [][Next]_vars

-----------------------------------------------------------------------------
(* Properties *)

\* AddressesTried: LastUsed never points into freed addresses, the attempts
\* are about the addresses of the target, begin with the one used last, and
\* Connect gives a host up, or has SRV records left, only after every address
\* that the cache holds was tried once (OrderAddresses, ConnectToHostname).
AddressesTried ==
  /\ LastUsed \in 0..Len(LastHostAddr)
  /\ LastHostAddr # <<>> => LastHostAddr = Addresses[LastHost]
  /\ job.pc = "connect" =>
       /\ LastHost = job.target
       /\ ToSet(job.todo) \cap job.tried = {} /\ IsInjective(job.todo)
       /\ job.tried = {} /\ LastUsed # 0 => job.todo[1] = LastUsed
       /\ ToSet(job.todo) \cup job.tried = DOMAIN LastHostAddr
=============================================================================
