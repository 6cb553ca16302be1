------------------------------- MODULE TagFile ------------------------------
(***************************************************************************)
(* pkgTagFile and pkgTagSection (tagfile.cc): reading records out of a     *)
(* file through a buffer that may end anywhere in a record, which is then  *)
(* topped up, or doubled in size, and scanned from where the last complete *)
(* field began. Comments are cut out of the buffer as they come, the       *)
(* lengths of what stays and of what goes are kept for the file offsets.   *)
(*                                                                         *)
(* Characters: "n" is a newline, "_" a blank, ":" and "#" themselves, any  *)
(* other letter text. Positions count from 0 as in the code.               *)
(***************************************************************************)
EXTENDS Integers, Sequences, FiniteSets, SequencesExt, TLC

CONSTANTS
  Texts,      \* the files, sequences of characters
  InitSizes,  \* the sizes pkgTagFile is opened with
  MaxSize     \* the size at which Resize gives up

VARIABLES
  text_file,  \* the file
  comments,   \* SUPPORT_COMMENTS
  fpos,       \* read position of the FileFd
  buf, start, \* the buffer up to End, and Start in it
  Size, Done, isCommentedLine, chunks, iOffset,
  kept, actual, \* EndSize and Actual of the Fill that is going on
  Tags,       \* the StartTags of the section
  scan,       \* "" between the calls, "fill", or the scan that comes next
  after,      \* the scan that follows the fill
  got,        \* sections the Steps have returned: [offset, text, fields]
  call,       \* the call that is made or was made last, see Call
  over        \* what it returned: "" a section, "end" or "failed" false, "error"

(* A call: the Offset() its caller has seen before it, which of the        *)
(* sections got it jumps to, 0 if it is one of the first Steps, and what   *)
(* the Jump, and then a Step after it, has returned.                       *)
Call(offset, to, found) == [offset |-> offset, to |-> to, found |-> found]

bufvars == <<fpos, buf, start, Size, Done, isCommentedLine, chunks>>
tfvars == <<text_file, comments, bufvars, iOffset, kept, actual, Tags, scan, after, got, call, over>>

LineBegin(s, i) == i = 1 \/ s[i - 1] = "n"

Init ==
  /\ text_file \in Texts /\ comments \in BOOLEAN
  /\ comments \/ \A i \in 1..Len(text_file) : text_file[i] = "#" => ~LineBegin(text_file, i)
  /\ \E n \in InitSizes : Size = n + 4
  /\ fpos = 0 /\ buf = <<>> /\ start = 0 /\ Done = FALSE /\ isCommentedLine = FALSE /\ chunks = <<>>
  /\ iOffset = 0 /\ kept = 0 /\ actual = 0 /\ Tags = <<>> /\ scan = "fill" /\ after = "" /\ got = <<>> /\ call = Call(0, 0, <<>>) /\ over = ""

-----------------------------------------------------------------------------
(* Fill. What was not used yet is moved to the front and the rest of the   *)
(* buffer is read, in several rounds if comments make room again.          *)
Rest == SubSeq(buf, start + 1, Len(buf))

BeginFill(then) ==
  /\ buf' = Rest /\ start' = Len(buf) - start /\ kept' = Len(buf) - start /\ actual' = 0
  /\ scan' = "fill" /\ after' = then
  /\ UNCHANGED <<fpos, Size, Done, isCommentedLine, chunks, iOffset, got, call, over>>

(* RemoveCommentsFromBuffer, for what was read last, p. A comment begins   *)
(* with # at the start of a line and may go on over the next read.         *)
LineStart(p, i) == IF i = 1 THEN start = 0 \/ buf[start] = "n" ELSE p[i - 1] = "n"
Commented(p) ==
  LET c[i \in 0..Len(p)] ==
        IF i = 0 THEN isCommentedLine
        ELSE IF i = 1 /\ isCommentedLine THEN TRUE
        ELSE IF LineStart(p, i) THEN p[i] = "#" ELSE c[i - 1]
  IN c
RECURSIVE Runs(_, _, _)
Runs(c, i, n) ==
  IF i > n THEN <<>>
  ELSE LET ends == {j \in i..n : j = n \/ c[j + 1] # c[i]}
           e == CHOOSE j \in ends : \A k \in ends : j <= k
       IN <<[good |-> ~c[i], length |-> e - i + 1]>> \o Runs(c, e + 1, n)
Kept(p, c) ==
  LET good == {i \in 1..Len(p) : ~c[i]}
  IN [i \in 1..Cardinality(good) |-> p[CHOOSE k \in good : Cardinality({j \in good : j <= k}) = i]]

RemoveCommentsFromBuffer(p) ==
  \E c \in {Commented(p)} : \E good \in {Kept(p, c)} :
    /\ buf' = buf \o good /\ start' = Len(buf) + Len(good)
    /\ chunks' = chunks \o Runs(c, 1, Len(p))
    /\ isCommentedLine' = (c[Len(p)] /\ (p = <<>> \/ Last(p) # "n"))

(* FillBuffer. A round that reads less than asked for has seen the end.    *)
FillBuffer(want, left) ==
  /\ Done' = (left < want)
  /\ fpos' = fpos + (IF want < left THEN want ELSE left)
  /\ \E p \in {SubSeq(text_file, fpos + 1, fpos')} :
       \/ comments /\ RemoveCommentsFromBuffer(p)
       \/ ~comments /\ buf' = buf \o p /\ UNCHANGED <<start, chunks, isCommentedLine>>
FillRound ==
  /\ scan = "fill" /\ ~Done /\ Size > actual + 1
  /\ FillBuffer(Size - (Len(buf) + 1), Len(text_file) - fpos)
  /\ actual' = Len(buf')
  /\ UNCHANGED <<text_file, comments, Size, iOffset, kept, Tags, scan, after, got, call, over>>

(* At the end of the file two newlines are made sure of, if there is room. *)
(* With nothing left Fill fails, and the call with it. The constructor     *)
(* does not look at what its Fill returns.                                 *)
Jumping == call.to # 0 /\ call.found = <<>>
Exhausted == Done /\ kept <= 3 /\ actual = 0
Newlines == LET n == {k \in 0..Len(buf) : \A i \in 1..k : buf[Len(buf) + 1 - i] = "n"} IN CHOOSE k \in n : \A j \in n : j <= k
FillEnd ==
  /\ scan = "fill" /\ (Done \/ Size <= actual + 1)
  /\ start' = 0
  /\ \/ Exhausted /\ over' = (IF after = "" THEN "" ELSE IF Jumping THEN "failed" ELSE "end") /\ scan' = "" /\ UNCHANGED buf
     \/ /\ ~Exhausted /\ scan' = after /\ UNCHANGED over
        /\ buf' = IF Done /\ Size - Len(buf) >= 4 /\ Newlines < 2 THEN buf \o SubSeq(<<"n", "n">>, Newlines + 1, 2) ELSE buf
  /\ UNCHANGED <<text_file, comments, fpos, Size, Done, isCommentedLine, chunks, iOffset, kept, actual, Tags, after, got, call>>

-----------------------------------------------------------------------------
(* Scan: the section s from position at, with the StartTags found before.  *)
(* open is the StartTag of a field that was begun and not ended, -1 before *)
(* the first one. The colon of a field is the next one wherever it is.     *)
First(hits) == CHOOSE i \in hits : \A j \in hits : i <= j
From(s, p, ch) == LET hits == {i \in p..Len(s) - 1 : s[i + 1] = ch} IN IF hits = {} THEN -1 ELSE First(hits)
Space(ch) == ch \in {"n", "_"}
Push(tags, open) == IF open = -1 THEN tags ELSE Append(tags, open)
Failed(tags) == [ok |-> FALSE, tags |-> tags, stop |-> 0]

ValueStart(s, p) ==
  First({i \in p..Len(s) : i = Len(s) \/ ~Space(s[i + 1]) \/ (s[i + 1] = "n" /\ (i + 2 > Len(s) \/ s[i + 2] # "_"))})
EndOfRecord(s, p) == First({i \in p..Len(s) : i = Len(s) \/ s[i + 1] # "n"})

RECURSIVE ScanFrom(_, _, _, _), ScanLine(_, _, _, _)
ScanLine(s, nl, tags, open) ==
  IF nl = -1 THEN Failed(tags)
  ELSE IF nl + 1 < Len(s) /\ s[nl + 2] = "n" THEN [ok |-> TRUE, tags |-> Append(Push(tags, open), nl), stop |-> EndOfRecord(s, nl)]
  ELSE ScanFrom(s, nl + 1, tags, open)
ScanTag(s, at, tags, value) == IF value >= Len(s) THEN Failed(tags) ELSE ScanLine(s, From(s, value, "n"), tags, at)
ScanFrom(s, at, tags, open) ==
  IF at >= Len(s) THEN Failed(tags)
  ELSE IF Space(s[at + 1]) THEN ScanLine(s, From(s, at, "n"), tags, open)
  ELSE ScanTag(s, at, Push(tags, open), IF From(s, at, ":") = -1 THEN Len(s) ELSE ValueStart(s, From(s, at, ":") + 1))

(* Without a restart the scan goes on behind the first line of the last    *)
(* field that was complete.                                                *)
\* mutant: it goes on at the last field itself
ContinueAt(s, tags) == IF tags = <<>> THEN 0 ELSE Last(tags)
Continue(s, tags) ==
  IF tags = <<>> THEN 0
  ELSE IF Len(s) <= Last(tags) \/ From(s, Last(tags), "n") = -1 THEN Len(s)
  ELSE From(s, Last(tags), "n") + 1
Scanned(s, tags) == ScanFrom(s, Continue(s, tags), tags, -1)

(* The offset in the file, past the section and the comments before and    *)
(* behind it.                                                              *)
RECURSIVE Consume(_, _, _)
Consume(cs, n, off) ==
  IF cs = <<>> THEN [chunks |-> <<>>, offset |-> off]
  ELSE IF ~cs[1].good THEN Consume(Tail(cs), n, off + cs[1].length)
  ELSE IF n < cs[1].length THEN [chunks |-> [cs EXCEPT ![1].length = @ - n], offset |-> off + n]
  ELSE Consume(Tail(cs), n - cs[1].length, off + cs[1].length)

Section(r) == [offset |-> call.offset, text |-> SubSeq(Rest, r.tags[1] + 1, Last(r.tags)), fields |-> Len(r.tags) - 1]
Return(r) ==
  /\ scan' = "" /\ UNCHANGED over
  /\ \/ call.to = 0 /\ got' = Append(got, Section(r)) /\ UNCHANGED call
     \/ call.to # 0 /\ call' = [call EXCEPT !.found = Append(@, Section(r))] /\ UNCHANGED got

(* What Step does with a section: its caller gets it, or the search goes   *)
(* on behind it if comments are supported and it has no fields.            *)
Found(r) ==
  /\ start' = start + r.stop
  /\ \E c \in {IF comments THEN Consume(chunks, r.stop, iOffset) ELSE [chunks |-> chunks, offset |-> iOffset + r.stop]} :
       chunks' = c.chunks /\ iOffset' = c.offset
  /\ \/ (~comments \/ Len(r.tags) > 1) /\ Return(r)
     \/ comments /\ Len(r.tags) = 1 /\ scan' = "step" /\ UNCHANGED <<got, call, over>>
  /\ UNCHANGED <<fpos, buf, Size, Done, isCommentedLine, kept, actual, after>>
InPlace(r) == Return(r) /\ UNCHANGED <<bufvars, iOffset, kept, actual, after>>
GiveUp(result) == over' = result /\ scan' = "" /\ UNCHANGED <<bufvars, iOffset, kept, actual, after, got, call>>

(* Resize, and once more the scan that has just failed. *)
Resize ==
  /\ buf' = Rest /\ start' = Len(buf) - start /\ kept' = Len(buf) - start /\ actual' = 0 /\ Size' = 2 * Size
  /\ scan' = "fill" /\ after' = "refilled"
  /\ UNCHANGED <<fpos, Done, isCommentedLine, chunks, iOffset, got, call, over>>

(* Step: scan, fill and scan, resize and fill and scan until there is a    *)
(* section. Jump: scan in the buffer, or scan, and fill and scan.          *)
Scan ==
  /\ scan \notin {"", "fill"}
  /\ \E r \in {Scanned(Rest, IF scan \in {"refilled", "jump2"} THEN Tags ELSE <<>>)} :
       /\ Tags' = r.tags
       /\ \/ scan \in {"step", "refilled"} /\ r.ok /\ Found(r)
          \/ scan = "step" /\ ~r.ok /\ BeginFill("refilled")
          \/ scan = "refilled" /\ ~r.ok /\ Size <= MaxSize /\ Resize
          \/ scan = "refilled" /\ ~r.ok /\ Size > MaxSize /\ GiveUp("error")
          \/ scan \in {"once", "jump", "jump2"} /\ r.ok /\ InPlace(r)
          \/ scan = "once" /\ ~r.ok /\ GiveUp("failed")
          \/ scan = "jump" /\ ~r.ok /\ BeginFill("jump2")
          \/ scan = "jump2" /\ ~r.ok /\ GiveUp("error")
  /\ UNCHANGED <<text_file, comments>>

(* A Step: the next section, until there is none or somebody jumps, and    *)
(* one after a Jump (debSrcRecordParser::Restart is a Jump, to 0).         *)
Step ==
  /\ scan = "" /\ over = "" /\ (call.to = 0 \/ Len(call.found) = 1)
  /\ scan' = "step" /\ call' = [call EXCEPT !.offset = iOffset]
  /\ UNCHANGED <<text_file, comments, bufvars, iOffset, kept, actual, Tags, after, got, over>>

(* Jump to the offset of a section. In the buffer it is a scan if the end  *)
(* of the file was seen, and a Step, which goes past the section, if not;  *)
(* else the buffer is filled again from there and does not grow.           *)
InBuffer(off) == ~comments /\ off >= iOffset - start /\ iOffset - start + Len(buf) > off
Jump(k) ==
  /\ scan = "" /\ k \in 1..Len(got) /\ over' = ""
  /\ call' = Call(got[k].offset, k, <<>>) /\ iOffset' = got[k].offset
  /\ \/ /\ InBuffer(got[k].offset) /\ start' = got[k].offset - (iOffset - start) /\ scan' = IF Done THEN "once" ELSE "step"
        /\ UNCHANGED <<fpos, buf, Done, isCommentedLine, chunks, kept, actual, after>>
     \/ /\ ~InBuffer(got[k].offset) /\ fpos' = got[k].offset /\ buf' = <<>> /\ start' = 0 /\ Done' = FALSE
        /\ isCommentedLine' = FALSE /\ chunks' = <<>> /\ kept' = 0 /\ actual' = 0 /\ scan' = "fill" /\ after' = "jump"
  /\ UNCHANGED <<text_file, comments, Size, Tags, got>>

Next == FillRound \/ FillEnd \/ Scan \/ Step \/ \E k \in 1..Len(got) : Jump(k)

Spec == Init /\ [][Next]_tfvars

-----------------------------------------------------------------------------
(* The records of a text, with all of it in sight: the lines, less the     *)
(* comments, in groups between empty lines.                                *)
Ends(s) == {i \in 1..Len(s) : s[i] = "n" \/ i = Len(s)}
LineAt(s, i) == SubSeq(s, i, CHOOSE e \in Ends(s) : e >= i /\ \A d \in Ends(s) : d >= i => e <= d)
Lines(s) ==
  LET begins == {i \in 1..Len(s) : LineBegin(s, i) /\ ~(comments /\ s[i] = "#")}
  IN [k \in 1..Cardinality(begins) |-> LineAt(s, CHOOSE i \in begins : Cardinality({j \in begins : j <= i}) = k)]
Blank(l) == l = <<"n">>
Records(s) ==
  LET ls == Lines(s)
      firsts == {i \in 1..Len(ls) : ~Blank(ls[i]) /\ (i = 1 \/ Blank(ls[i - 1]))}
      Group(i) == SubSeq(ls, i, CHOOSE e \in i..Len(ls) : (e = Len(ls) \/ Blank(ls[e + 1])) /\ \A d \in i..e : ~Blank(ls[d]))
      NoNewline(t) == IF Last(t) = "n" THEN Front(t) ELSE t
      Rec(i) == [text |-> NoNewline(FlattenSeq(Group(i))), fields |-> Cardinality({k \in 1..Len(Group(i)) : ~Space(Group(i)[k][1])})]
  IN [k \in 1..Cardinality(firsts) |-> Rec(CHOOSE i \in firsts : Cardinality({j \in firsts : j <= i}) = k)]

Content(g) == [text |-> g.text, fields |-> g.fields]
TextFrom(off) == SubSeq(text_file, off + 1, Len(text_file))
RecordAt(off) == Records(TextFrom(off))[1]

(* Without comments blank lines in front of a record, at the beginning of  *)
(* the file or where the buffer ended in the blank lines after a record,   *)
(* are a section of their own, an empty one. With comments Step looks      *)
(* further and Jump does not.                                              *)
BlankAt(off) == LET l == Lines(TextFrom(off)) IN l # <<>> /\ Blank(l[1]) /\ (Len(l) = 1 \/ Blank(l[2]))
Returned(g) == IF g.fields = 0 THEN BlankAt(g.offset) ELSE Content(g) = RecordAt(g.offset)
AgainOrNext(g) == LET rs == Records(TextFrom(g.offset)) IN {rs[i] : i \in {j \in {1, 2} : j <= Len(rs)}}
(* A Jump in the buffer may not see the end of the last record of a file   *)
(* that does not end in an empty line: the buffer was full but for the     *)
(* room for the newlines, and is not filled again.                         *)
NoNewlines(g) == Done /\ Size - Len(buf) < 4 /\ Newlines < 2 /\ Len(Records(TextFrom(g.offset))) <= 1

(* Whatever the size of the buffer is and wherever a read ends - within a  *)
(* field, between the newlines that end a record, within a comment - the   *)
(* sections Step returns that have fields are the records of the file,     *)
(* each once, complete and in order. What its caller took for the offset   *)
(* is where the record is found again: by a Jump from wherever the reading *)
(* is, which only fails for want of room for the newlines. A Step never    *)
(* fails but at the end. The Step after a Jump returns that record once    *)
(* more, or, if the Jump was made in the buffer before the end of the file *)
(* was seen, the one after it.                                             *)
RecordsExact ==
  LET records == [i \in 1..Len(SelectSeq(got, LAMBDA g : g.fields > 0)) |-> Content(SelectSeq(got, LAMBDA g : g.fields > 0)[i])] IN
  /\ IF call.to = 0 /\ over = "end" THEN records = Records(text_file) ELSE records = SubSeq(Records(text_file), 1, Len(records))
  /\ \A i \in 1..Len(got) : (comments => got[i].fields > 0) /\ Returned(got[i])
  /\ call.found # <<>> => Returned(call.found[1]) /\ (~comments => Content(call.found[1]) = Content(got[call.to]))
  /\ Len(call.found) = 2 => Returned(call.found[2]) /\ (call.found[2].fields > 0 => Content(call.found[2]) \in AgainOrNext(call.found[1]))
  /\ call.to # 0 /\ over = "end" => Len(Records(TextFrom(got[call.to].offset))) <= 1
  /\ over # "error"
  /\ over = "failed" => Jumping /\ NoNewlines(got[call.to])
=============================================================================
