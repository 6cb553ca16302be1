----------------------------- MODULE ErrorStack -----------------------------
(***************************************************************************)
(* The list of messages every part of APT reports to (contrib/error.cc):   *)
(* nested calls push it to a stack, and take it back without or with what  *)
(* was reported meanwhile. Messages are numbered; formatting is left out.  *)
(***************************************************************************)
EXTENDS Integers, Sequences, SequencesExt

CONSTANTS
  Types,        \* of messages, as numbers: 50 FATAL, 40 ERROR, 30 WARNING, 20 NOTICE, 10 DEBUG
  MaxMessages,
  MaxStacks

VARIABLES
  Messages,     \* [id, Type]
  PendingFlag,
  Stacks,       \* [Messages, PendingFlag]
  reported      \* the number of messages reported so far

errorvars == <<Messages, PendingFlag, Stacks, reported>>

IsError(m) == m.Type >= 40

Insert(type) ==
  /\ reported < MaxMessages
  /\ reported' = reported + 1
  /\ Messages' = Append(Messages, [id |-> reported + 1, Type |-> type])
  /\ PendingFlag' = (PendingFlag \/ type >= 40)
  /\ UNCHANGED Stacks

PopMessage ==
  /\ Messages # <<>>
  /\ Messages' = Tail(Messages)
  /\ PendingFlag' = (PendingFlag /\ (IsError(Head(Messages)) => \E i \in 2..Len(Messages) : IsError(Messages[i])))
  /\ UNCHANGED <<Stacks, reported>>

Discard == Messages' = <<>> /\ PendingFlag' = FALSE

\* with mergeStack the messages of each list of the stack are put in front, one by one, and stay on the stack
Merged == FoldLeft(LAMBDA list, s : Reverse(s.Messages) \o list, Messages, Reverse(Stacks))
Written(threshold, mergeStack) == SelectSeq(IF mergeStack THEN Merged ELSE Messages, LAMBDA m : m.Type >= threshold)
DumpErrors == Discard /\ UNCHANGED <<Stacks, reported>>

empty(threshold) == ~PendingFlag /\ ~\E i \in DOMAIN Messages : Messages[i].Type >= threshold

PushToStack ==
  /\ Len(Stacks) < MaxStacks
  /\ Stacks' = Append(Stacks, [Messages |-> Messages, PendingFlag |-> PendingFlag])
  /\ Discard /\ UNCHANGED reported

RevertToStack ==
  /\ Stacks # <<>>
  /\ Messages' = Last(Stacks).Messages /\ PendingFlag' = Last(Stacks).PendingFlag /\ Stacks' = Front(Stacks)
  /\ UNCHANGED reported

\* mutant: whether an error was pending before is forgotten
MergeWithStack_Own ==
  /\ Stacks # <<>>
  /\ Messages' = Last(Stacks).Messages \o Messages /\ Stacks' = Front(Stacks)
  /\ UNCHANGED <<PendingFlag, reported>>
MergeWithStack ==
  /\ Stacks # <<>>
  /\ Messages' = Last(Stacks).Messages \o Messages /\ PendingFlag' = (PendingFlag \/ Last(Stacks).PendingFlag) /\ Stacks' = Front(Stacks)
  /\ UNCHANGED reported

Init == Messages = <<>> /\ PendingFlag = FALSE /\ Stacks = <<>> /\ reported = 0

Next ==
  \/ \E t \in Types : Insert(t)
  \/ PopMessage \/ PushToStack \/ RevertToStack \/ MergeWithStack \/ DumpErrors

Spec == Init /\ [][Next]_errorvars

-----------------------------------------------------------------------------
(* However pushes, merges and reverts are nested around the reports: the   *)
(* pending flag, which callers ask instead of the list, says whether there *)
(* is an error in the list; the messages are in the order of the reports,  *)
(* the stack's before the others; and what DumpErrors writes is all that   *)
(* is important enough, in this order if the stack is not merged in (it    *)
(* turns each list of the stack around, error.cc:199).                     *)
InOrder(list) == \A i \in 1..Len(list) - 1 : list[i].id < list[i + 1].id
Everything == FlattenSeq([i \in 1..Len(Stacks) |-> Stacks[i].Messages]) \o Messages
ErrorsExact ==
  /\ PendingFlag = \E i \in DOMAIN Messages : IsError(Messages[i])
  /\ InOrder(Everything)
  /\ \A t \in Types :
       /\ empty(t) => \A i \in DOMAIN Messages : Messages[i].Type < t /\ ~IsError(Messages[i])
       /\ InOrder(Written(t, FALSE))
       /\ ToSet(Written(t, TRUE)) = {m \in ToSet(Everything) : m.Type >= t}
=============================================================================
