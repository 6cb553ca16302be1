--------------------------- MODULE Configuration ----------------------------
(***************************************************************************)
(* The configuration (contrib/configuration.cc): a tree of items with a    *)
(* tag and a value each, read from files (ReadConfigFile), changed by Set, *)
(* CndSet, Clear and MoveSubTree, written by Dump.                         *)
(*                                                                         *)
(* A line of a file is a sequence of tokens: words, quotes, the marks of   *)
(* comments, braces and semicolons, directives. A value is the sequence of *)
(* tokens between two quotes. Quotes are closed on their line, as          *)
(* apt.conf(5) asks for. Tags differ in more than their case.              *)
(***************************************************************************)
EXTENDS Integers, Sequences, FiniteSets, SequencesExt

CONSTANTS
  Lines,        \* the lines a file may have
  MaxLines,
  Included,     \* the name of a file -> its lines
  Split,        \* a word -> the tags it is made of: "a::b" is <<"a", "b">>, "a::" is <<"a", "">>
  Sectional,    \* values of AsSectional
  Moves,        \* set of <<old root, new root>>; the new root <<>> is the whole tree
  SetPaths, SetValues

VARIABLES
  conf_file,    \* the lines of the file
  sectional,    \* AsSectional
  ctree,         \* the tree under Root
  conf_before,  \* the tree before the last change
  conf_op,      \* the last change: <<operation, arguments>>
  conf_read     \* "", "ok" or "failed"

confvars == <<conf_file, sectional, ctree, conf_before, conf_op, conf_read>>

Quote == "\""
Leaf(tag) == [Tag |-> tag, Value |-> <<>>, Child |-> <<>>]
Root == Leaf("")

-----------------------------------------------------------------------------
(* Lookup of one tag: the item's place, 0 for none. The empty tag matches  *)
(* nothing: each is a new item of a list.                                  *)
LookupTag(item, tag) ==
  IF tag # "" /\ \E i \in 1..Len(item.Child) : item.Child[i].Tag = tag
  THEN CHOOSE i \in 1..Len(item.Child) : item.Child[i].Tag = tag /\ \A j \in 1..i - 1 : item.Child[j].Tag # tag ELSE 0

(* Lookup of a name: the items found, one or none.                         *)
Lookup(top, path) ==
  FoldLeft(LAMBDA found, tag : UNION {IF LookupTag(i, tag) = 0 THEN {} ELSE {i.Child[LookupTag(i, tag)]} : i \in found}, {top}, path)

(* What an operation does to the item it names.                            *)
Apply(item, op, value) ==
  CASE op = "Set" -> [item EXCEPT !.Value = value]
    [] op = "CndSet" -> [item EXCEPT !.Value = IF @ = <<>> THEN value ELSE @]
    [] op = "Clear" -> [item EXCEPT !.Value = <<>>, !.Child = <<>>]
    [] op = "ClearValue" -> [item EXCEPT !.Child = SelectSeq(@, LAMBDA i : i.Value # value)]

(* The tree with that done at a path, whose items are created where they   *)
(* are missing.                                                            *)
RECURSIVE At(_, _, _, _)
At(item, path, op, value) ==
  IF path = <<>> THEN Apply(item, op, value)
  ELSE LET i == LookupTag(item, Head(path))
       IN [item EXCEPT !.Child = IF i = 0 THEN Append(@, At(Leaf(Head(path)), Tail(path), op, value))
                                 ELSE [@ EXCEPT ![i] = At(@, Tail(path), op, value)]]
Set(top, path, value) == At(top, path, "Set", value)
CndSet(top, path, value) == At(top, path, "CndSet", value)

(* Clear: of a tree, which leaves its top without a value, and of a value  *)
(* in a list. Nothing is created.                                          *)
Clear(top, path) == IF Lookup(top, path) = {} THEN top ELSE At(top, path, "Clear", <<>>)
ClearValue(top, path, value) == IF Lookup(top, path) = {} THEN top ELSE At(top, path, "ClearValue", value)

(* The items below an item as <<path, value>>, parents before their        *)
(* children or after them.                                                 *)
RECURSIVE Preorder(_, _), Postorder(_, _)
Preorder(item, path) ==
  FoldLeft(LAMBDA s, i : s \o <<[path |-> Append(path, i.Tag), value |-> i.Value]>> \o Preorder(i, Append(path, i.Tag)), <<>>, item.Child)
Postorder(item, path) ==
  FoldLeft(LAMBDA s, i : s \o Postorder(i, Append(path, i.Tag)) \o <<[path |-> Append(path, i.Tag), value |-> i.Value]>>, <<>>, item.Child)

(* MoveSubTree sets each item again below the new root, an item without a  *)
(* value as well, and leaves the old root empty.                           *)
MoveSubTree(top, old, new, overwrite) ==
  IF Lookup(top, old) = {} \/ old = new \/ (Len(old) < Len(new) /\ SubSeq(new, 1, Len(old)) = old) THEN top
  ELSE FoldLeft(LAMBDA t, i : IF overwrite THEN Set(t, new \o i.path, i.value) ELSE CndSet(t, new \o i.path, i.value), Clear(top, old),
                Postorder(CHOOSE i \in Lookup(top, old) : TRUE, <<>>))

(* Dump with "%F \"%v\";\n": a line for each item, parents first.           *)
Join(path) == CHOOSE w \in DOMAIN Split : Split[w] = path
Dump(top) ==
  LET items == Preorder(top, <<>>)
  IN [n \in 1..Len(items) |-> <<Join(items[n].path), Quote>> \o items[n].value \o <<Quote, ";">>]

-----------------------------------------------------------------------------
(* ReadConfigFile, the comments of a line. What is in quotes is counted by *)
(* the quotes before it on the line.                                       *)
InQuotes(line, i) == Cardinality({j \in 1..i - 1 : line[j] = Quote}) % 2 # 0
Cut_Blind(line, mark) ==  \* mutant: a mark in quotes begins a comment
  LET at == {i \in 1..Len(line) : line[i] = mark}
  IN IF at = {} THEN line ELSE SubSeq(line, 1, (CHOOSE i \in at : \A j \in at : i <= j) - 1)
Cut(line, mark) ==
  LET at == {i \in 1..Len(line) : line[i] = mark /\ ~InQuotes(line, i)}
  IN IF at = {} THEN line ELSE SubSeq(line, 1, (CHOOSE i \in at : \A j \in at : i <= j) - 1)
After(line, mark) ==
  LET at == {i \in 1..Len(line) : line[i] = mark}
  IN IF at = {} THEN <<>> ELSE SubSeq(line, (CHOOSE i \in at : \A j \in at : i <= j) + 1, Len(line))

(* The fragment of a line with the comments on several lines taken out:    *)
(* [text, open].                                                           *)
RECURSIVE Fragment(_)
Fragment(line) ==
  LET before == Cut(line, "/*")
      rest == SubSeq(line, Len(before) + 2, Len(line))
  IN IF before = line THEN [text |-> line, open |-> FALSE]
     ELSE IF "*/" \notin ToSet(rest) THEN [text |-> before, open |-> TRUE]
     ELSE LET f == Fragment(After(rest, "*/")) IN [f EXCEPT !.text = before \o @]
Strip(line, InComment) ==
  IF InComment /\ "*/" \notin ToSet(line) THEN [text |-> <<>>, open |-> TRUE]
  ELSE Fragment(Cut(Cut(IF InComment THEN After(line, "*/") ELSE line, "//"), "#"))

(* The words of a buffer: [quoted, text].                                  *)
WordStep(s, token) ==
  IF token = Quote THEN [s EXCEPT !.open = ~@, !.words = IF s.open THEN @ ELSE Append(@, [quoted |-> TRUE, text |-> <<>>])]
  ELSE IF s.open THEN [s EXCEPT !.words[Len(s.words)].text = Append(@, token)]
  ELSE [s EXCEPT !.words = Append(@, [quoted |-> FALSE, text |-> <<token>>])]
WordsOf(buffer) == FoldLeft(WordStep, [open |-> FALSE, words |-> <<>>], buffer).words

(* ParseQuoteWord for the tag, ParseCWord or ParseQuoteWord for the value: *)
(* a series of quoted strings is put together.                             *)
Parse(words, term) ==
  LET rest == Tail(words)
      value == FlattenSeq([i \in 1..Len(rest) |-> rest[i].text])
  IN IF rest = <<>> /\ term # "{" THEN [Tag |-> <<>>, Word |-> words[1].text, NoWord |-> FALSE, junk |-> FALSE]
     ELSE [Tag |-> words[1].text, Word |-> value, NoWord |-> rest = <<>>,
           junk |-> Len(rest) > 1 /\ \E i \in 1..Len(rest) : ~rest[i].quoted]
Path(text) == IF text = <<>> THEN <<"">> ELSE IF text[1] \in DOMAIN Split THEN Split[text[1]] ELSE <<text[1]>>

LeaveCurrentScope(s) ==
  IF s.Stack = <<>> THEN [s EXCEPT !.ParentTag = <<>>] ELSE [s EXCEPT !.ParentTag = Last(s.Stack), !.Stack = Front(@)]

RECURSIVE ReadConfigFile(_, _, _, _)

(* The directives, at the top level only.                                  *)
Directive(s, p, sect, depth) ==
  IF s.ParentTag # <<>> THEN [s EXCEPT !.failed = TRUE]
  ELSE CASE p.Tag = <<"#clear">> -> [s EXCEPT !.top = Clear(@, Path(p.Word))]
         [] p.Tag = <<"#include">> ->
              IF depth > 10 THEN [s EXCEPT !.failed = TRUE]
              ELSE LET r == ReadConfigFile(s.top, Included[p.Word[1]], sect, depth + 1)
                   IN [s EXCEPT !.top = r.top, !.failed = r.failed]
         [] OTHER -> [s EXCEPT !.failed = TRUE]

(* A construct ends with a brace or a semicolon.                           *)
Down(s, p, sect) ==
  [s EXCEPT !.Stack = Append(@, s.ParentTag),
            !.ParentTag = @ \o Path(p.Tag) \o (IF sect /\ p.Word # <<>> THEN Path(p.Word) ELSE <<>>)]
Construct(s, p, term, sect, depth) ==
  IF p.junk THEN [s EXCEPT !.failed = TRUE]
  ELSE IF term = "{"
  THEN LET d == Down(s, p, sect)
       IN IF p.NoWord THEN d ELSE [d EXCEPT !.top = Set(@, d.ParentTag, IF sect THEN <<>> ELSE p.Word)]
  ELSE IF p.Tag # <<>> /\ p.Tag[1] \in {"#clear", "#include", "#other"} THEN Directive(s, p, sect, depth)
  ELSE IF p.Tag = <<>> /\ p.Word = <<"#clear">> THEN [s EXCEPT !.failed = TRUE]
  ELSE [s EXCEPT !.top = Set(@, s.ParentTag \o Path(p.Tag), p.Word)]
Terminate(s, term, sect, depth) ==
  LET words == WordsOf(s.LineBuffer)
      done == IF words = <<>> THEN [s EXCEPT !.failed = term = "{"] ELSE Construct(s, Parse(words, term), term, sect, depth)
      empty == [done EXCEPT !.LineBuffer = <<>>]
  IN IF term = "}" /\ ~done.failed THEN LeaveCurrentScope(empty) ELSE empty
Token(s, token, sect, depth) ==
  IF s.failed THEN s
  ELSE IF ~s.InQuote /\ token \in {"{", ";", "}"} THEN Terminate(s, token, sect, depth)
  ELSE [s EXCEPT !.LineBuffer = Append(@, token), !.InQuote = IF token = Quote THEN ~@ ELSE @]
Line(s, line, sect, depth) ==
  LET f == Strip(line, s.InComment)
  IN [FoldLeft(LAMBDA t, token : Token(t, token, sect, depth), [s EXCEPT !.InQuote = FALSE], f.text) EXCEPT !.InComment = f.open]
ReadConfigFile(top, lines, sect, depth) ==
  LET s == FoldLeft(LAMBDA t, line : Line(t, line, sect, depth),
                    [top |-> top, LineBuffer |-> <<>>, Stack |-> <<>>, ParentTag |-> <<>>, InComment |-> FALSE, InQuote |-> FALSE, failed |-> FALSE],
                    lines)
  IN [top |-> s.top, failed |-> s.failed \/ s.LineBuffer # <<>>]

-----------------------------------------------------------------------------
Init ==
  /\ \E n \in 0..MaxLines : conf_file \in [1..n -> Lines]
  /\ sectional \in Sectional /\ ctree = Root /\ conf_before = Root /\ conf_op = <<"none">> /\ conf_read = ""

Read ==
  /\ conf_read = ""
  /\ \E r \in {ReadConfigFile(Root, conf_file, sectional, 0)} : ctree' = r.top /\ conf_read' = IF r.failed THEN "failed" ELSE "ok"
  /\ UNCHANGED <<conf_file, sectional, conf_before, conf_op>>

Change(op, top) ==
  /\ conf_read = "ok" /\ conf_op = <<"none">>
  /\ ctree' = top /\ conf_before' = ctree /\ conf_op' = op /\ UNCHANGED <<conf_file, sectional, conf_read>>

DoSet == \E p \in SetPaths, v \in SetValues : Change(<<"set", p, v>>, Set(ctree, p, v))
DoCndSet == \E p \in SetPaths, v \in SetValues : Change(<<"cndset", p, v>>, CndSet(ctree, p, v))
DoClear == \E p \in SetPaths : Change(<<"clear", p>>, Clear(ctree, p))
DoClearValue == \E p \in SetPaths, v \in SetValues : Change(<<"clearvalue", p, v>>, ClearValue(ctree, p, v))
DoMove == \E m \in Moves, over \in BOOLEAN : Change(<<"move", m[1], m[2], over>>, MoveSubTree(ctree, m[1], m[2], over))

Next == Read \/ DoSet \/ DoCndSet \/ DoClear \/ DoClearValue \/ DoMove

Spec == Init /\ [][Next]_confvars

-----------------------------------------------------------------------------
(* What apt.conf(5) says of a file, token by token: text between quotes is *)
(* kept, // and # end a line, /* and */ enclose a comment. mixed: // or #  *)
(* in a comment that begins on the line, which ends the comment's line too *)
(* early.                                                                  *)
LexStep(s, token) ==
  CASE token = "\n" -> IF s.in = "block" THEN [s EXCEPT !.fresh = FALSE] ELSE [s EXCEPT !.in = "code"]
    [] token # "\n" /\ s.in = "line" -> s
    [] token # "\n" /\ s.in = "block" ->
         IF token = "*/" THEN [s EXCEPT !.in = "code"] ELSE [s EXCEPT !.mixed = @ \/ (s.fresh /\ token \in {"//", "#"})]
    [] token # "\n" /\ s.in = "quote" -> [s EXCEPT !.out = Append(@, token), !.in = IF token = Quote THEN "code" ELSE @]
    [] token # "\n" /\ s.in = "code" ->
         CASE token \in {"//", "#"} -> [s EXCEPT !.in = "line"]
           [] token = "/*" -> [s EXCEPT !.in = "block", !.fresh = TRUE]
           [] token = Quote -> [s EXCEPT !.in = "quote", !.out = Append(@, token)]
           [] OTHER -> [s EXCEPT !.out = Append(@, token)]
Lex(lines) ==
  FoldLeft(LexStep, [in |-> "code", fresh |-> FALSE, mixed |-> FALSE, out |-> <<>>],
           FlattenSeq([i \in 1..Len(lines) |-> Append(lines[i], "\n")]))

(* The constructs of a text: where they end, what is in them, and the      *)
(* braces still open there.                                                *)
Ends(text) == {i \in 1..Len(text) : text[i] \in {"{", ";", "}"} /\ ~InQuotes(text, i)}
InOrder(text, set) == SelectSeq([i \in 1..Len(text) |-> i], LAMBDA i : i \in set)
Inside(text, e) ==
  LET before == {i \in Ends(text) : i < e}
      from == IF before = {} THEN 0 ELSE CHOOSE i \in before : \A j \in before : j <= i
  IN WordsOf(SubSeq(text, from + 1, e - 1))
Depth(text, i, j) ==
  Cardinality({k \in Ends(text) : i <= k /\ k <= j /\ text[k] = "{"}) - Cardinality({k \in Ends(text) : i <= k /\ k <= j /\ text[k] = "}"})
OpenAt(text, e) ==
  {b \in Ends(text) : text[b] = "{" /\ b < e /\ \A j \in b..e - 1 : Depth(text, b, j) > 0}
Scope(text, e) ==
  LET open == InOrder(text, OpenAt(text, e))
  IN FlattenSeq([i \in 1..Len(open) |->
       LET p == Parse(Inside(text, open[i]), "{") IN Path(p.Tag) \o (IF sectional /\ p.Word # <<>> THEN Path(p.Word) ELSE <<>>)])

(* A text is read as its constructs in their order, for texts without      *)
(* directives other than #clear.                                           *)
Simple(text) == ToSet(text) \cap {"#include", "#other"} = {}
Meant(top, text, e) ==
  LET words == Inside(text, e)
      p == Parse(words, text[e])
  IN IF words = <<>> \/ (text[e] = "{" /\ p.NoWord) THEN top
     ELSE IF text[e] = "{" THEN Set(top, Scope(text, e + 1), IF sectional THEN <<>> ELSE p.Word)
     ELSE IF p.Tag = <<"#clear">> THEN Clear(top, Path(p.Word))
     ELSE Set(top, Scope(text, e) \o Path(p.Tag), p.Word)
Meaning(text) == FoldLeft(LAMBDA top, e : Meant(top, text, e), Root, InOrder(text, Ends(text)))

(* A file that was read is in the tree as it was written, comments,        *)
(* quotes and scopes taken as apt.conf(5) describes them.                  *)
ReadAsWritten ==
  conf_read = "ok" /\ conf_op = <<"none">> =>
    LET l == Lex(conf_file) IN l.mixed \/ ~Simple(l.out) \/ ctree = Meaning(l.out)

(* What Dump writes gives the same tree when it is read.                   *)
DumpRestores ==
  (conf_read = "ok" /\ {Preorder(ctree, <<>>)[i].path : i \in DOMAIN Preorder(ctree, <<>>)} \subseteq Range(Split))
    => ReadConfigFile(Root, Dump(ctree), FALSE, 0) = [top |-> ctree, failed |-> FALSE]

(* The values a tree has under the names that are no lists.                *)
Find(top, path) == IF Lookup(top, path) = {} THEN <<>> ELSE (CHOOSE i \in Lookup(top, path) : TRUE).Value
PathsOf(top) == {p \in {Preorder(top, <<>>)[i].path : i \in 1..Len(Preorder(top, <<>>))} : "" \notin ToSet(p)}
ListOf(top, path) ==
  IF Lookup(top, path) = {} THEN <<>>
  ELSE LET items == SelectSeq((CHOOSE i \in Lookup(top, path) : TRUE).Child, LAMBDA i : i.Tag = "") IN [n \in 1..Len(items) |-> items[n].Value]
Below(path, top) == Len(top) <= Len(path) /\ SubSeq(path, 1, Len(top)) = top
Rest(path, top) == SubSeq(path, Len(top) + 1, Len(path))

(* Moving a tree keeps every value and every list of it under the new      *)
(* root, where a value moved over another one wins or yields as asked,     *)
(* leaves nothing below the old root and touches nothing else.             *)
MoveExact ==
  (conf_op[1] = "move" /\ Lookup(conf_before, conf_op[2]) # {} /\ ~Below(conf_op[3], conf_op[2]) /\ ~Below(conf_op[2], conf_op[3])) =>
    LET old == conf_op[2]
        new == conf_op[3]
    IN \A p \in PathsOf(ctree) \cup PathsOf(conf_before) :
         LET was == Find(conf_before, p)
             moved == old \o Rest(p, new)
         IN IF Below(p, old) THEN Find(ctree, p) = <<>> /\ ListOf(ctree, p) = <<>>
            ELSE IF Below(p, new) /\ p # new /\ Lookup(conf_before, moved) # {}
            THEN /\ Find(ctree, p) = IF conf_op[4] \/ was = <<>> THEN Find(conf_before, moved) ELSE was
                 /\ ListOf(ctree, p) = ListOf(conf_before, p) \o ListOf(conf_before, moved)
            ELSE p # new => Find(ctree, p) = was /\ ListOf(ctree, p) = ListOf(conf_before, p)

(* Reading, dumping and moving a tree loses and invents nothing.           *)
TreeExact == ReadAsWritten /\ DumpRestores /\ MoveExact
=============================================================================
