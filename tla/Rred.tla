-------------------------------- MODULE Rred --------------------------------
(***************************************************************************)
(* Merging ed patches (methods/rred.cc): the commands of several patches   *)
(* are collected in one list of changes that is then applied to the file   *)
(* in a single pass. A line is a number; the text the same commands give   *)
(* when they are applied one after the other is kept beside the list.      *)
(* Patches whose line numbers do not fit the file are left out: the hashes *)
(* of patch and file rule them out.                                        *)
(***************************************************************************)
EXTENDS Integers, Sequences, SequencesExt, FiniteSetsExt

CONSTANTS
  FileLines,    \* lines of the file
  MaxAdded,     \* bound: lines one command adds
  MaxCommands   \* bound: commands of all patches

VARIABLES
  changes,   \* sequence of [offset, del_cnt, add]
  where, pos,
  chOffset,  \* offset of the last command: the next one of this patch is not behind it
  text,      \* the file after the commands so far
  commands   \* number of commands so far

rvars == <<changes, where, pos, chOffset, text, commands>>

File == [k \in 1..FileLines |-> k]
Unlimited == 1000

Init ==
  /\ changes = <<>> /\ where = 1 /\ pos = 0 /\ chOffset = Unlimited
  /\ text = File /\ commands = 0

FC == [ch |-> changes, w |-> where, pos |-> pos]
Cur(f) == f.ch[f.w]
Span(c) == c.offset + Len(c.add)

Left(f) == [f EXCEPT !.w = @ - 1, !.pos = @ - Span(f.ch[f.w - 1])]
Right(f) == [f EXCEPT !.w = @ + 1, !.pos = @ + Span(Cur(f))]

InsertChange(f, offset) ==
  LET rest == IF f.w > Len(f.ch) THEN f.ch ELSE [f.ch EXCEPT ![f.w].offset = @ - offset]
  IN [f EXCEPT !.ch = InsertAt(rest, f.w, [offset |-> offset, del_cnt |-> 0, add |-> <<>>])]

\* mutant: the rest of a split change keeps its deletions
SplitKeepsDeletions(f, offset) ==
  LET keep == offset - Cur(f).offset
      rest == [f.ch EXCEPT ![f.w].offset = 0, ![f.w].add = SubSeq(@, keep + 1, Len(@))]
  IN [f EXCEPT !.ch = InsertAt(rest, f.w, [Cur(f) EXCEPT !.add = SubSeq(@, 1, keep)])]

Split(f, offset) ==
  LET keep == offset - Cur(f).offset
      rest == [f.ch EXCEPT ![f.w].offset = 0, ![f.w].del_cnt = 0, ![f.w].add = SubSeq(@, keep + 1, Len(@))]
  IN [f EXCEPT !.ch = InsertAt(rest, f.w, [Cur(f) EXCEPT !.add = SubSeq(@, 1, keep)])]

\* the change a line of the patched text belongs to
RECURSIVE GoToChangeFor(_, _)
GoToChangeFor(f, line) ==
  IF f.w > Len(f.ch) THEN InsertChange(f, line - f.pos)
  ELSE IF line < f.pos THEN GoToChangeFor(Left(f), line)
  ELSE IF f.pos + Span(Cur(f)) <= line THEN GoToChangeFor(Right(f), line)
  ELSE IF line < f.pos + Cur(f).offset THEN InsertChange(f, line - f.pos)
  ELSE IF line = f.pos + Cur(f).offset THEN f
  ELSE Right(Split(f, line - f.pos))

\* lines added before are taken back, the others are lines of the file
RECURSIVE DeleteLines(_, _, _)
DeleteLines(f, x, cnt) ==
  IF cnt = 0 THEN f
  ELSE LET undone == Min({Len(f.ch[x].add), cnt})
           left   == cnt - undone
           last   == x = Len(f.ch)
           del    == IF last THEN left ELSE Min({f.ch[x + 1].offset, left})
           ch1    == [f.ch EXCEPT ![x].add = SubSeq(@, undone + 1, Len(@))]
           ch2    == IF last THEN ch1 ELSE [ch1 EXCEPT ![x + 1].offset = @ - del]
       IN DeleteLines([f EXCEPT !.ch = [ch2 EXCEPT ![f.w].del_cnt = @ + del]], x + 1, left - del)

\* changes at the same place become one as far as their texts allow
RECURSIVE MergeLeft(_)
MergeLeft(f) == IF Cur(f).offset = 0 /\ f.w > 1 THEN MergeLeft(Left(f)) ELSE f

RECURSIVE MergeRight(_, _)
MergeRight(f, n) ==
  IF n > Len(f.ch) \/ f.ch[n].offset # 0 THEN f
  ELSE LET ch1 == [f.ch EXCEPT ![f.w].del_cnt = @ + f.ch[n].del_cnt, ![n].del_cnt = 0]
       IN IF f.ch[n].add = <<>> THEN MergeRight([f EXCEPT !.ch = RemoveAt(ch1, n)], n)
          ELSE IF Cur(f).add = <<>> THEN MergeRight([f EXCEPT !.ch = RemoveAt([ch1 EXCEPT ![f.w].add = f.ch[n].add], n)], n)
          ELSE MergeRight([f EXCEPT !.ch = ch1], n + 1)

MergeAt(f) == MergeRight(f, f.w + 1)

\* [ch, w, pos] after the change, or Refused where the code gives up
Refused == [ch |-> <<>>, w |-> 0, pos |-> 0]
AddChange(f, c) ==
  LET g == GoToChangeFor(f, c.offset)
      d == DeleteLines(g, g.w, c.del_cnt)
      n == IF c.add # <<>> /\ Cur(d).add # <<>> THEN InsertChange(d, Cur(d).offset) ELSE d
      a == IF c.add = <<>> THEN n ELSE [n EXCEPT !.ch[n.w].add = c.add]
  IN IF f = Refused \/ g.pos + Cur(g).offset # c.offset \/ d.pos + Cur(d).offset # c.offset THEN Refused
     ELSE MergeAt(MergeLeft(a))

\* read_diff: the text of a command comes in one piece or, at the end of a memory block, in two
Pieces(c) ==
  {<<c>>} \cup {<<[c EXCEPT !.add = SubSeq(@, 1, k)],
                  [offset |-> c.offset + k, del_cnt |-> 0, add |-> SubSeq(c.add, k + 1, Len(c.add))]>> : k \in 1..(Len(c.add) - 1)}

Patched(t, c) == SubSeq(t, 1, c.offset) \o c.add \o SubSeq(t, c.offset + c.del_cnt + 1, Len(t))

\* commands a (add after a line), c (change a range) and d (delete it), with new lines numbered by command
Commands ==
  {[offset |-> s, del_cnt |-> 0, add |-> [k \in 1..n |-> 10 * (commands + 1) + k]] : s \in 0..Len(text), n \in 1..MaxAdded}
  \cup {[offset |-> s - 1, del_cnt |-> n, add |-> [k \in 1..m |-> 10 * (commands + 1) + k]] :
          s \in 1..Len(text), n \in 1..2, m \in 0..MaxAdded}

Command(c) ==
  LET s == IF c.del_cnt = 0 THEN c.offset ELSE c.offset + 1
  IN /\ commands < MaxCommands /\ s <= chOffset /\ c.offset + c.del_cnt <= Len(text)
     /\ \E pieces \in Pieces(c) :
          \E f \in {FoldLeft(AddChange, FC, pieces)} :
            /\ changes' = f.ch /\ where' = f.w /\ pos' = f.pos
            /\ chOffset' = pieces[Len(pieces)].offset
     /\ text' = Patched(text, c) /\ commands' = commands + 1

NextPatch ==
  /\ 0 < commands /\ commands < MaxCommands /\ chOffset # Unlimited /\ chOffset' = Unlimited
  /\ UNCHANGED <<changes, where, pos, text, commands>>

Next == NextPatch \/ \E c \in Commands : Command(c)

Spec == Init /\ [][Next]_rvars

\* one pass over the file: copy, skip, add
ApplyAgainstFile(chs, in) ==
  LET Step(acc, c) == [out  |-> acc.out \o SubSeq(in, acc.at, acc.at + c.offset - 1) \o c.add,
                       at   |-> acc.at + c.offset + c.del_cnt]
      end == FoldLeft(Step, [out |-> <<>>, at |-> 1], chs)
  IN end.out \o SubSeq(in, end.at, Len(in))

\* write_diff: the commands of one patch, last line first. Changes at the same place are written with the one before
\* them; if there is none (lines added before the first line) nothing is written.
RECURSIVE WriteDiff(_, _)
WriteDiff(n, line) ==
  LET idle == {k \in 1..n : \A j \in k..n : changes[j].del_cnt = 0 /\ changes[j].offset = 0}
      k    == n - Cardinality(idle)
      c    == changes[k]
      from == line - c.del_cnt
      lines == FlattenSeq([j \in 1..(n - k + 1) |-> changes[k + j - 1].add])
      command == [offset |-> from, del_cnt |-> c.del_cnt, add |-> IF c.add = <<>> THEN <<>> ELSE lines]
  IN IF k = 0 THEN <<>>
     ELSE (IF c.add = <<>> /\ c.del_cnt = 0 THEN <<>> ELSE <<command>>) \o WriteDiff(k - 1, from - c.offset)

MergedPatch == WriteDiff(Len(changes), FoldLeft(LAMBDA acc, c : acc + c.offset + c.del_cnt, 0, changes))

-----------------------------------------------------------------------------
WrittenPatch == FoldLeft(Patched, File, MergedPatch)

(* Applying the collected changes in one pass gives the text the commands of all patches give
   one after the other, no valid patch is refused, and the line number kept with the iterator
   is the one of its change (rred.cc FileChanges, pos_is_okay; the acquire system relies on it
   when it fetches all patches and applies them at once). The patch written for them does the
   same unless they add lines before the first one. *)
MergedAsSequence ==
  /\ where # 0
  /\ ApplyAgainstFile(changes, File) = text
  /\ pos = FoldLeft(LAMBDA acc, c : acc + Span(c), 0, SubSeq(changes, 1, where - 1))
  /\ changes # <<>> /\ (changes[1].offset > 0 \/ changes[1].del_cnt > 0) => WrittenPatch = text
=============================================================================
