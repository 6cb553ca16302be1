---------------------------- MODULE FileFdProofs ----------------------------
(***************************************************************************)
(* PositionExact of FileFd, for every length of the file, every set of     *)
(* newlines, every size of the buffer and any number of calls.             *)
(*                                                                         *)
(* As long as nothing failed and no stream was asked for a position with   *)
(* part of a line buffered (Good): the descriptor is ahead of the caller   *)
(* by exactly what is buffered; gzip, which has ReadLine of its own,       *)
(* buffers nothing; and the counter of a stream is where its decoder is.   *)
(***************************************************************************)
EXTENDS FileFd, TLAPS, WellFoundedInduction

\* bounds of the model; ReadLine's buffer takes at least a byte
Sizes == FileLength \in Nat /\ BufferSize \in Nat \ {0} /\ Newlines \subseteq Nat

Good ==
  /\ off \in Int /\ buffered \in Int /\ seekpos \in Int /\ caller \in Int
  /\ 0 <= buffered /\ buffered <= off /\ off <= FileLength
  /\ off - buffered = caller
  /\ class = "gzip" => buffered = 0
  /\ class = "stream" => seekpos = off
  /\ told \in [at : Int, size : Int, was : Int] /\ told.at = told.was /\ told.size = FileLength

Inv ==
  /\ class \in {"direct", "gzip", "stream"}
  /\ Fail \in BOOLEAN /\ mixed \in BOOLEAN
  /\ ~Fail /\ ~mixed => Good

-----------------------------------------------------------------------------
\* The least and the greatest of two numbers.
LEMMA MinOfTwo ==
  ASSUME NEW m \in Int, NEW n \in Int
  PROVE  Min({m, n}) = IF m <= n THEN m ELSE n
  <1>1. \E x \in {m, n} : \A y \in {m, n} : x <= y
    <2>1. CASE m <= n
      BY <2>1
    <2>2. CASE ~(m <= n)
      BY <2>2
    <2> QED BY <2>1, <2>2
  <1>2. Min({m, n}) \in {m, n} /\ \A y \in {m, n} : Min({m, n}) <= y
    BY <1>1 DEF Min
  <1> QED BY <1>2

LEMMA MaxOfTwo ==
  ASSUME NEW m \in Int, NEW n \in Int
  PROVE  Max({m, n}) = IF m >= n THEN m ELSE n
  <1>1. \E x \in {m, n} : \A y \in {m, n} : x >= y
    <2>1. CASE m >= n
      BY <2>1
    <2>2. CASE ~(m >= n)
      BY <2>2
    <2> QED BY <2>1, <2>2
  <1>2. Max({m, n}) \in {m, n} /\ \A y \in {m, n} : Max({m, n}) >= y
    BY <1>1 DEF Max
  <1> QED BY <1>2

\* A set of natural numbers has a least one, and Lowest finds it.
LEMMA LowestIs ==
  ASSUME NEW T \in SUBSET Nat, T # {}
  PROVE  Lowest(T) \in T /\ \A y \in T : Lowest(T) <= y
  <1>1. IsWellFoundedOn(OpToRel(<, Nat), Nat)
    BY NatLessThanWellFounded
  <1>2. PICK x \in T : \A y \in T : ~(<<y, x>> \in OpToRel(<, Nat))
    BY <1>1, WFMin
  <1>3. \A y \in T : ~(y < x)
    BY <1>2 DEF OpToRel
  <1>4. \A y \in T : x <= y
    <2> TAKE y \in T
    <2>1. x \in Nat /\ y \in Nat
      BY <1>2
    <2> QED BY <1>3, <2>1
  <1> QED BY <1>2, <1>4 DEF Lowest

-----------------------------------------------------------------------------
\* where a position p is after n more bytes
Ahead(p, n) == IF p + n <= FileLength THEN p + n ELSE FileLength

\* What Read does with the position: it moves on by n bytes, or to the end.
LEMMA AdvanceMoves ==
  ASSUME Sizes, NEW o \in Int, NEW b \in Int, NEW s \in Int, NEW n \in Nat,
         0 <= b, b <= o, o <= FileLength
  PROVE  LET f == [off |-> o, buffered |-> b, seekpos |-> s]
             g == Advance(f, n)
         IN /\ g.off \in Int /\ g.buffered \in Int /\ g.seekpos \in Int
            /\ 0 <= g.buffered /\ g.buffered <= g.off /\ g.off <= FileLength
            /\ g.off - g.buffered = Ahead(o - b, n)
            /\ g.seekpos = s + Ahead(o - b, n) - (o - b)
            /\ g.short <=> o - b + n > FileLength
            /\ b = 0 => g.buffered = 0
  <1> DEFINE got == IF n <= FileLength - o + b THEN n ELSE FileLength - o + b
             f == [off |-> o, buffered |-> b, seekpos |-> s]
  <1>1. got = Min({n, FileLength - o + b}) /\ got \in Nat
    <2>1. FileLength - o + b \in Int /\ FileLength \in Nat
      BY DEF Sizes
    <2> QED BY <2>1, MinOfTwo DEF Sizes
  <1>2. Advance(f, n) = [off |-> Max({o, o - b + got}), buffered |-> Max({0, b - got}),
                         seekpos |-> s + got, short |-> got < n]
    <2> HIDE DEF got
    <2> QED BY <1>1 DEF Advance
  <1>3. Max({o, o - b + got}) = IF o >= o - b + got THEN o ELSE o - b + got
    <2>1. o - b + got \in Int
      BY <1>1
    <2> HIDE DEF got
    <2> QED BY <2>1, MaxOfTwo
  <1>4. Max({0, b - got}) = IF 0 >= b - got THEN 0 ELSE b - got
    <2>1. b - got \in Int
      BY <1>1
    <2> HIDE DEF got
    <2> QED BY <2>1, MaxOfTwo
  <1>5. Advance(f, n).off = Max({o, o - b + got}) /\ Advance(f, n).buffered = Max({0, b - got})
        /\ Advance(f, n).seekpos = s + got /\ Advance(f, n).short = (got < n)
    BY <1>2
  <1>6. FileLength \in Nat
    BY DEF Sizes
  <1> DEFINE go == Advance(f, n).off
             gb == Advance(f, n).buffered
             gs == Advance(f, n).seekpos
  <1>7. /\ go = IF o >= o - b + got THEN o ELSE o - b + got
        /\ gb = IF 0 >= b - got THEN 0 ELSE b - got
        /\ gs = s + got
    BY <1>3, <1>4, <1>5
  <1>8. got = Ahead(o - b, n) - (o - b) /\ (got < n <=> o - b + n > FileLength)
    BY <1>6 DEF Ahead
  <1>9. o - b + got <= FileLength
    BY <1>6
  <1> HIDE DEF go, gb, gs, got, f
  <1>10. Ahead(o - b, n) \in Int
    BY <1>6 DEF Ahead
  <1>11. /\ go \in Int /\ gb \in Int /\ gs \in Int /\ 0 <= gb /\ gb <= go /\ go <= FileLength
         /\ go - gb = Ahead(o - b, n) /\ gs = s + Ahead(o - b, n) - (o - b)
         /\ b = 0 => gb = 0
    BY <1>1, <1>6, <1>7, <1>8, <1>9, <1>10
  <1>12. Advance(f, n).short <=> o - b + n > FileLength
    BY <1>5, <1>8
  <1> QED BY <1>11, <1>12 DEF go, gb, gs, f

-----------------------------------------------------------------------------
\* What remains to be shown of a step that leaves a good file: the calls are made only on files
\* that have not failed, and a file that was mixed up stays so.
LEMMA StepFrom ==
  ASSUME Inv, ~Fail, UNCHANGED class, Fail' \in BOOLEAN, mixed' \in BOOLEAN, mixed => mixed',
         Good /\ ~mixed /\ ~Fail' /\ ~mixed' => Good'
  PROVE  Inv'
  BY DEF Inv

\* A call that asks for a position leaves the file unmixed only if a stream has nothing buffered.
LEMMA MixesIs ==
  ASSUME Inv, Mixes
  PROVE  mixed' \in BOOLEAN /\ (mixed => mixed') /\ (~mixed' /\ class = "stream" => ~(buffered > 0))
  BY DEF Inv, Mixes

LEMMA InitInv == ASSUME Sizes, Init PROVE Inv
  <1>1. FileLength \in Nat
    BY DEF Sizes
  <1>2. Good
    BY <1>1 DEF Init, Good
  <1> QED BY <1>2 DEF Init, Inv

LEMMA ReadInv ==
  ASSUME Sizes, Inv, NEW n \in 1..FileLength, NEW actual \in BOOLEAN, Read(n, actual)
  PROVE  Inv'
  <1> DEFINE f == Advance(Position, n)
  <1>1. PICK error \in BOOLEAN :
          /\ SetPosition(f)
          /\ Fail' = (error \/ (f.short /\ ~actual))
          /\ caller' = Min({caller + n, FileLength})
    BY DEF Read
  <1>2. ~Fail /\ UNCHANGED <<class, told>> /\ Mixes /\ FileLength \in Nat /\ n \in Nat
    BY DEF Read, Call, Sizes
  <1>3. Fail' \in BOOLEAN
    BY <1>1
  <1>4. mixed' \in BOOLEAN /\ (mixed => mixed') /\ (~mixed' /\ class = "stream" => ~(buffered > 0))
    BY <1>2, MixesIs
  <1>5. ASSUME Good, ~mixed' PROVE Good'
    <2>1. /\ f.off \in Int /\ f.buffered \in Int /\ f.seekpos \in Int
          /\ 0 <= f.buffered /\ f.buffered <= f.off /\ f.off <= FileLength
          /\ f.off - f.buffered = Ahead(off - buffered, n)
          /\ f.seekpos = seekpos + Ahead(off - buffered, n) - (off - buffered)
          /\ buffered = 0 => f.buffered = 0
      BY <1>2, <1>5, AdvanceMoves DEF Good, Position
    <2>2. off' = f.off /\ buffered' = f.buffered /\ seekpos' = f.seekpos
      BY <1>1 DEF SetPosition
    <2>3. caller' = Ahead(caller, n) /\ caller' \in Int
      BY <1>1, <1>2, <1>5, MinOfTwo DEF Good, Ahead
    <2>4. class = "stream" => buffered = 0
      BY <1>4, <1>5 DEF Good
    <2> HIDE DEF f
    <2>5. class' = "stream" => seekpos' = off'
      BY <1>2, <1>5, <2>1, <2>2, <2>3, <2>4 DEF Good
    <2> QED BY <1>2, <1>5, <2>1, <2>2, <2>3, <2>5 DEF Good
  <1> QED BY <1>2, <1>3, <1>4, <1>5, StepFrom

LEMMA TellInv == ASSUME Sizes, Inv, Tell PROVE Inv'
  <1>1. /\ ~Fail /\ UNCHANGED <<class, Fail, caller>> /\ Mixes
        /\ told' = [told EXCEPT !.at = InternalTell(Position), !.was = caller]
        /\ SetPosition(Told(Position))
    BY DEF Tell, Call
  <1>2. mixed' \in BOOLEAN /\ (mixed => mixed') /\ (~mixed' /\ class = "stream" => ~(buffered > 0))
    BY <1>1, MixesIs
  <1>3. ASSUME Good, ~mixed' PROVE Good'
    <2>1. class = "stream" => buffered = 0
      BY <1>2, <1>3 DEF Good
    <2>2. InternalTell(Position) = caller
      BY <1>3, <2>1 DEF Good, InternalTell, Position
    <2>3. off' = off /\ buffered' = buffered /\ seekpos' = caller
      BY <1>1, <2>2 DEF SetPosition, Told, Position
    <2>4. caller \in Int /\ caller' = caller
      BY <1>1, <1>3 DEF Good
    <2>5. told' \in [at : Int, size : Int, was : Int] /\ told'.at = told'.was /\ told'.size = told.size
      <3>1. told' = [told EXCEPT !.at = caller, !.was = caller] /\ told \in [at : Int, size : Int, was : Int]
        BY <1>1, <1>3, <2>2 DEF Good
      <3> QED BY <2>4, <3>1
    <2>6. class' = "stream" => seekpos' = off'
      BY <1>1, <1>3, <2>1, <2>3 DEF Good
    <2> QED BY <1>1, <1>3, <2>3, <2>4, <2>5, <2>6 DEF Good
  <1> QED BY <1>1, <1>2, <1>3, StepFrom DEF Inv

LEMMA SkipInv == ASSUME Sizes, Inv, NEW over \in 0..FileLength, Skip(over) PROVE Inv'
  <1> DEFINE f == Advance(Position, over)
  <1>1. /\ ~Fail /\ UNCHANGED <<class, told>> /\ Mixes /\ over + caller <= FileLength /\ caller' = caller + over
        /\ class = "stream" => SetPosition(f) /\ Fail' = f.short
        /\ class # "stream" => SetPosition(InternalSkip(Position, over)) /\ Fail' = Fail
    BY DEF Skip, Call
  <1>2. mixed' \in BOOLEAN /\ (mixed => mixed') /\ (~mixed' /\ class = "stream" => ~(buffered > 0))
    BY <1>1, MixesIs
  <1>3. Fail' \in BOOLEAN
    <2>1. f.short \in BOOLEAN
      BY DEF Advance
    <2> QED BY <1>1, <2>1 DEF Inv
  <1>4. ASSUME Good, ~mixed' PROVE Good'
    <2>1. FileLength \in Nat /\ over \in Nat
      BY DEF Sizes
    <2>2. CASE class = "stream"
      <3>1. /\ f.off \in Int /\ f.buffered \in Int /\ f.seekpos \in Int
            /\ 0 <= f.buffered /\ f.buffered <= f.off /\ f.off <= FileLength
            /\ f.off - f.buffered = Ahead(off - buffered, over)
            /\ f.seekpos = seekpos + Ahead(off - buffered, over) - (off - buffered)
            /\ buffered = 0 => f.buffered = 0
        BY <1>4, <2>1, AdvanceMoves DEF Good, Position
      <3>2. off' = f.off /\ buffered' = f.buffered /\ seekpos' = f.seekpos
        BY <1>1, <2>2 DEF SetPosition
      <3>3. buffered = 0
        BY <1>2, <1>4, <2>2 DEF Good
      <3>4. Ahead(off - buffered, over) = caller + over
        BY <1>1, <1>4, <2>1 DEF Good, Ahead
      <3> HIDE DEF f
      <3> QED BY <1>1, <1>4, <2>1, <2>2, <3>1, <3>2, <3>3, <3>4 DEF Good
    <2>3. CASE class # "stream" /\ over < buffered
      <3>1. off' = off /\ buffered' = buffered - over /\ seekpos' = seekpos
        BY <1>1, <2>3 DEF SetPosition, InternalSkip, Position
      <3> QED BY <1>1, <1>4, <2>1, <2>3, <3>1 DEF Good
    <2>4. CASE class # "stream" /\ ~(over < buffered)
      <3>1. off' = off + (over - buffered) /\ buffered' = 0 /\ seekpos' \in {seekpos, off + (over - buffered)}
        BY <1>1, <2>4 DEF SetPosition, InternalSkip, Position
      <3> QED BY <1>1, <1>4, <2>1, <2>4, <3>1 DEF Good
    <2> QED BY <2>2, <2>3, <2>4
  <1> QED BY <1>1, <1>2, <1>3, <1>4, StepFrom

-----------------------------------------------------------------------------
\* The end of a line is not before its start and in the file.
LEMMA LineEndIs ==
  ASSUME Sizes, NEW start \in Nat, start <= FileLength, NEW size \in Nat, size >= 2
  PROVE  LineEnd(start, size) \in Nat /\ start <= LineEnd(start, size) /\ LineEnd(start, size) <= FileLength
  <1> DEFINE T == {b \in Newlines : b > start} \cup {start + size - 1, FileLength}
  <1>1. T \in SUBSET Nat /\ FileLength \in T /\ \A y \in T : start <= y
    <2>1. start + size - 1 \in Nat /\ start <= start + size - 1 /\ FileLength \in Nat
      BY DEF Sizes
    <2>2. \A b \in Newlines : b \in Nat /\ (b > start => start <= b)
      BY DEF Sizes
    <2> QED BY <2>1, <2>2
  <1>2. LineEnd(start, size) = Lowest(T)
    BY DEF LineEnd
  <1> HIDE DEF T
  <1>3. Lowest(T) \in T /\ \A y \in T : Lowest(T) <= y
    BY <1>1, LowestIs
  <1> QED BY <1>1, <1>2, <1>3

\* The buffer is filled until it reaches the end of the line.
LEMMA FilledIs ==
  ASSUME Sizes, Good, NEW end \in Nat, end <= FileLength
  PROVE  Filled(end) \in Nat /\ end <= Filled(end) /\ Filled(end) <= FileLength
  <1> DEFINE U == {Min({off + k * BufferSize, FileLength}) : k \in 0..FileLength}
             T == {o \in U : o >= end}
  <1>1. FileLength \in Nat /\ BufferSize \in Nat /\ BufferSize >= 1 /\ off \in Nat
    BY DEF Sizes, Good
  <1>2. ASSUME NEW k \in 0..FileLength
        PROVE  Min({off + k * BufferSize, FileLength}) \in Nat /\ Min({off + k * BufferSize, FileLength}) <= FileLength
    <2>1. k * BufferSize \in Nat
      BY <1>1
    <2>2. off + k * BufferSize \in Nat
      BY <1>1, <2>1
    <2> QED BY <1>1, <2>2, MinOfTwo
  <1>3. FileLength \in T
    <2>1. FileLength * BufferSize >= FileLength /\ FileLength * BufferSize \in Nat
      BY <1>1
    <2>2. off + FileLength * BufferSize >= FileLength /\ off + FileLength * BufferSize \in Int
      BY <1>1, <2>1
    <2>3. Min({off + FileLength * BufferSize, FileLength}) = FileLength
      BY <1>1, <2>2, MinOfTwo
    <2>4. FileLength \in 0..FileLength
      BY <1>1
    <2> QED BY <1>1, <2>3, <2>4
  <1>4. T \in SUBSET Nat /\ \A y \in T : end <= y /\ y <= FileLength
    BY <1>1, <1>2
  <1>5. Filled(end) = Lowest(T)
    BY DEF Filled
  <1> HIDE DEF T
  <1>6. Lowest(T) \in T
    BY <1>3, <1>4, LowestIs
  <1> QED BY <1>4, <1>5, <1>6

LEMMA ReadLineInv == ASSUME Sizes, Inv, NEW size \in 2..FileLength, ReadLine(size) PROVE Inv'
  <1> DEFINE start == off - buffered
             end == LineEnd(start, size)
  <1>1. PICK error \in BOOLEAN :
          /\ caller' = LineEnd(caller, size) /\ Fail' = error
          /\ class = "gzip" => off' = end /\ UNCHANGED <<buffered, seekpos>>
          /\ class # "gzip" => off' = Filled(end) /\ buffered' = off' - end /\ seekpos' = seekpos + off' - off
    BY DEF ReadLine
  <1>2. ~Fail /\ UNCHANGED <<class, told, mixed>>
    BY DEF ReadLine, Call
  <1>3. ASSUME Good PROVE Good'
    <2>1. start \in Nat /\ start = caller /\ start <= FileLength /\ size \in Nat /\ size >= 2 /\ FileLength \in Nat
      BY <1>3 DEF Good, Sizes
    <2>2. end \in Nat /\ end <= FileLength
      BY <2>1, LineEndIs
    <2>3. caller' = end
      BY <1>1, <2>1
    <2>4. told' \in [at : Int, size : Int, was : Int] /\ told'.at = told'.was /\ told'.size = FileLength
      BY <1>2, <1>3 DEF Good
    <2> HIDE DEF end
    <2>5. CASE class = "gzip"
      BY <1>1, <1>2, <1>3, <2>1, <2>2, <2>3, <2>4, <2>5 DEF Good
    <2>6. CASE class # "gzip"
      <3>1. Filled(end) \in Nat /\ end <= Filled(end) /\ Filled(end) <= FileLength
        BY <1>3, <2>2, FilledIs
      <3> QED BY <1>1, <1>2, <1>3, <2>1, <2>2, <2>3, <2>4, <2>6, <3>1 DEF Good
    <2> QED BY <2>5, <2>6
  <1> QED BY <1>1, <1>2, <1>3, StepFrom DEF Inv

-----------------------------------------------------------------------------
\* a position f that is where the file is, with nothing buffered that InternalSeek would lose count of
Settled(f, p) ==
  /\ f = [off |-> f.off, buffered |-> f.buffered, seekpos |-> f.seekpos]
  /\ f.off \in Int /\ f.buffered \in Int /\ f.seekpos \in Int
  /\ 0 <= f.buffered /\ f.buffered <= f.off /\ f.off <= FileLength
  /\ f.off - f.buffered = p
  /\ class \in {"gzip", "stream"} => f.buffered = 0
  /\ class = "stream" => f.seekpos = p

\* Where a stream is moved to after it was told to go on, or to start again.
LEMMA AdvanceSettles ==
  ASSUME Sizes, NEW o \in Int, NEW s \in Int, NEW n \in Nat, 0 <= o, o + n <= FileLength, class = "stream" => s = o
  PROVE  LET g == Advance([off |-> o, buffered |-> 0, seekpos |-> s], n)
         IN Settled(Kept(g), o + n) /\ g.short = FALSE
  <1> DEFINE g == Advance([off |-> o, buffered |-> 0, seekpos |-> s], n)
  <1>1. FileLength \in Nat /\ o - 0 = o /\ Ahead(o, n) = o + n /\ o <= FileLength
    BY DEF Sizes, Ahead
  <1>2. /\ g.off \in Int /\ g.buffered \in Int /\ g.seekpos \in Int
        /\ 0 <= g.buffered /\ g.buffered <= g.off /\ g.off <= FileLength
        /\ g.off - g.buffered = Ahead(o, n)
        /\ g.seekpos = s + Ahead(o, n) - o
        /\ g.short <=> o + n > FileLength
        /\ g.buffered = 0
    BY <1>1, AdvanceMoves
  <1>3. g.short \in BOOLEAN
    BY DEF Advance
  <1> HIDE DEF g
  <1>4. g.short = FALSE
    BY <1>1, <1>2, <1>3
  <1>5. /\ Kept(g) = [off |-> g.off, buffered |-> g.buffered, seekpos |-> g.seekpos]
        /\ Kept(g).off = g.off /\ Kept(g).buffered = g.buffered /\ Kept(g).seekpos = g.seekpos
    BY DEF Kept
  <1>6. Settled(Kept(g), o + n)
    BY <1>1, <1>2, <1>5 DEF Settled
  <1> QED BY <1>4, <1>6 DEF g

\* InternalSeek puts the file where it is asked to, or fails.
LEMMA InternalSeekSettles ==
  ASSUME Sizes, NEW f, NEW p \in Int, class = "stream" => Settled(f, p), NEW to \in Nat, to <= FileLength
  PROVE  LET r == InternalSeek(f, to)
         IN r.fails \in BOOLEAN /\ (~r.fails => Settled(r.f, to))
  <1>1. FileLength \in Nat
    BY DEF Sizes
  <1>2. CASE class # "stream"
    BY <1>1, <1>2 DEF InternalSeek, Settled
  <1>3. CASE class = "stream"
    <2> DEFINE o == f.off
    <2>1. f = [off |-> o, buffered |-> 0, seekpos |-> o] /\ o = p /\ 0 <= o /\ o <= FileLength /\ o \in Int
      BY <1>3 DEF Settled
    <2>2. InternalTell(f) = o /\ Told(f) = [off |-> o, buffered |-> 0, seekpos |-> o]
      <3> HIDE DEF o
      <3> QED BY <1>3, <2>1 DEF InternalTell, Told
    <2> HIDE DEF o
    <2>3. CASE o = to
      <3>1. InternalSeek(f, to) = [f |-> Told(f), fails |-> FALSE]
        BY <1>3, <2>2, <2>3 DEF InternalSeek, StreamSeek
      <3>2. Settled(Told(f), to)
        BY <1>1, <2>1, <2>2, <2>3 DEF Settled
      <3> QED BY <3>1, <3>2
    <2>4. CASE o < to
      <3> DEFINE h == Advance([off |-> o, buffered |-> 0, seekpos |-> o], to - o)
      <3>1. InternalSeek(f, to) = [f |-> Kept(h), fails |-> h.short]
        BY <1>3, <2>1, <2>2, <2>4 DEF InternalSeek, StreamSeek
      <3>2. to - o \in Nat /\ o + (to - o) = to
        BY <2>1, <2>4
      <3>3. Settled(Kept(h), to) /\ h.short = FALSE
        BY <2>1, <3>2, AdvanceSettles
      <3> HIDE DEF h
      <3>4. InternalSeek(f, to).f = Kept(h) /\ InternalSeek(f, to).fails = FALSE
        BY <3>1, <3>3
      <3> QED BY <3>3, <3>4
    <2>5. CASE ~(o = to) /\ ~(o < to) /\ ~named
      <3>1. InternalSeek(f, to) = [f |-> Reopened, fails |-> TRUE]
        BY <1>3, <2>2, <2>5 DEF InternalSeek, StreamSeek
      <3> QED BY <3>1
    <2>6. CASE ~(o = to) /\ ~(o < to) /\ ~~named
      <3> DEFINE h == Advance([off |-> 0, buffered |-> 0, seekpos |-> 0], to)
      <3>1. InternalSeek(f, to) = [f |-> Kept(h), fails |-> h.short]
        BY <1>3, <2>2, <2>6 DEF InternalSeek, StreamSeek, Reopened
      <3>2. 0 + to = to
        OBVIOUS
      <3>3. Settled(Kept(h), to) /\ h.short = FALSE
        <4>0. 0 \in Int /\ 0 <= 0 /\ 0 + to <= FileLength
          BY <3>2
        <4>1. Settled(Kept(h), 0 + to) /\ h.short = FALSE
          BY <4>0, AdvanceSettles, Zenon
        <4> QED BY <3>2, <4>1
      <3> HIDE DEF h
      <3>4. InternalSeek(f, to).f = Kept(h) /\ InternalSeek(f, to).fails = FALSE
        BY <3>1, <3>3
      <3> QED BY <3>3, <3>4
    <2> QED BY <2>3, <2>4, <2>5, <2>6
  <1> QED BY <1>2, <1>3

LEMMA SeekInv == ASSUME Sizes, Inv, NEW to \in 0..FileLength, Seek(to) PROVE Inv'
  <1> DEFINE r == InternalSeek(Position, to)
  <1>1. /\ ~Fail /\ UNCHANGED <<class, told>> /\ Mixes /\ caller' = to
        /\ SetPosition(r.f) /\ Fail' = r.fails
    BY DEF Seek, Call
  <1>2. mixed' \in BOOLEAN /\ (mixed => mixed') /\ (~mixed' /\ class = "stream" => ~(buffered > 0))
    BY <1>1, MixesIs
  <1>3. to \in Nat /\ to <= FileLength /\ FileLength \in Nat
    BY DEF Sizes
  <1>4. Fail' \in BOOLEAN
    <2>1. \A f, n : Advance(f, n).short \in BOOLEAN
      BY DEF Advance
    <2>2. r.fails \in BOOLEAN
      BY <2>1 DEF InternalSeek, StreamSeek
    <2> QED BY <1>1, <2>2
  <1>5. ASSUME Good, ~mixed', ~Fail' PROVE Good'
    <2>1. caller \in Int /\ (class = "stream" => Settled(Position, caller))
      BY <1>2, <1>5 DEF Good, Settled, Position
    <2>2. Settled(r.f, to)
      BY <1>1, <1>3, <1>5, <2>1, InternalSeekSettles
    <2> HIDE DEF r
    <2>3. off' = r.f.off /\ buffered' = r.f.buffered /\ seekpos' = r.f.seekpos
      BY <1>1 DEF SetPosition
    <2> QED BY <1>1, <1>3, <1>5, <2>2, <2>3 DEF Good, Settled
  <1> QED BY <1>1, <1>2, <1>4, <1>5, StepFrom

LEMMA SizeInv == ASSUME Sizes, Inv, Size PROVE Inv'
  <1> DEFINE a == Advance(Told(Position), 2 * FileLength)
             e == Told(Kept(a))
             r == InternalSeek(e, InternalTell(Position))
  <1>1. /\ ~Fail /\ UNCHANGED <<class, caller>> /\ Mixes
        /\ class = "direct" => told' = [told EXCEPT !.size = FileLength] /\ UNCHANGED <<off, buffered, seekpos, Fail>>
        /\ class # "direct" => /\ told' = [told EXCEPT !.size = IF class = "gzip" THEN FileLength ELSE e.seekpos]
                               /\ SetPosition(r.f) /\ Fail' = r.fails
    BY DEF Size, Call
  <1>2. mixed' \in BOOLEAN /\ (mixed => mixed') /\ (~mixed' /\ class = "stream" => ~(buffered > 0))
    BY <1>1, MixesIs
  <1>3. Fail' \in BOOLEAN
    <2>1. \A f, n : Advance(f, n).short \in BOOLEAN
      BY DEF Advance
    <2>2. r.fails \in BOOLEAN
      <3> HIDE DEF e
      <3> QED BY <2>1 DEF InternalSeek, StreamSeek
    <2> QED BY <1>1, <2>2 DEF Inv
  <1>4. FileLength \in Nat
    BY DEF Sizes
  <1>5. ASSUME Good, ~mixed', ~Fail' PROVE Good'
    <2>1. CASE class = "direct"
      <3>1. told' \in [at : Int, size : Int, was : Int] /\ told'.at = told'.was /\ told'.size = FileLength
        BY <1>1, <1>4, <1>5, <2>1 DEF Good
      <3> QED BY <1>1, <1>4, <1>5, <2>1, <3>1 DEF Good
    <2>2. CASE class # "direct"
      <3>1. buffered = 0 /\ off = caller /\ caller \in Nat /\ caller <= FileLength
        BY <1>2, <1>4, <1>5, <2>2 DEF Good, Inv
      <3>2. InternalTell(Position) = caller
        BY <1>5, <3>1 DEF Good, InternalTell, Position
      <3>3. Told(Position) = [off |-> caller, buffered |-> 0, seekpos |-> caller]
        BY <3>1, <3>2 DEF Told, Position
      \* reading on to the end leaves the decoder and its counter there
      <3>4. a.off = FileLength /\ a.buffered = 0 /\ a.seekpos = FileLength
        <4>1. 2 * FileLength \in Nat /\ caller - 0 = caller /\ Ahead(caller, 2 * FileLength) = FileLength
          BY <1>4, <3>1 DEF Ahead
        <4>2. /\ a.off \in Int /\ a.buffered \in Int /\ a.seekpos \in Int
              /\ a.off - a.buffered = Ahead(caller, 2 * FileLength)
              /\ a.seekpos = caller + Ahead(caller, 2 * FileLength) - caller
              /\ a.buffered = 0
          BY <1>4, <3>1, <3>3, <4>1, AdvanceMoves
        <4> HIDE DEF a
        <4> QED BY <1>4, <3>1, <4>1, <4>2
      <3>5. e = [off |-> FileLength, buffered |-> 0, seekpos |-> FileLength]
        <4> HIDE DEF a
        <4> QED BY <1>4, <3>4 DEF Told, Kept, InternalTell
      <3>6. Settled(e, FileLength)
        <4> HIDE DEF e
        <4> QED BY <1>4, <3>5 DEF Settled
      <3>7. Settled(r.f, caller)
        <4> HIDE DEF e
        <4> QED BY <1>1, <1>4, <1>5, <2>2, <3>1, <3>2, <3>6, InternalSeekSettles
      <3>8. told' = [told EXCEPT !.size = FileLength]
        <4> HIDE DEF e
        <4> QED BY <1>1, <2>2, <3>5
      <3>9. told' \in [at : Int, size : Int, was : Int] /\ told'.at = told'.was /\ told'.size = FileLength
        BY <1>4, <1>5, <3>8 DEF Good
      <3> HIDE DEF r
      <3>10. off' = r.f.off /\ buffered' = r.f.buffered /\ seekpos' = r.f.seekpos
        BY <1>1, <2>2 DEF SetPosition
      <3> QED BY <1>1, <1>4, <1>5, <3>1, <3>7, <3>9, <3>10 DEF Good, Settled
    <2> QED BY <2>1, <2>2
  <1> QED BY <1>1, <1>2, <1>3, <1>5, StepFrom

-----------------------------------------------------------------------------
\* Each call keeps the invariant.
LEMMA StepInv == ASSUME Sizes, Inv, [Next]_ffvars PROVE Inv'
  <1>1. ASSUME NEW n \in 1..FileLength, NEW actual \in BOOLEAN, Read(n, actual) PROVE Inv'
    BY <1>1, ReadInv
  <1>2. ASSUME NEW size \in 2..FileLength, ReadLine(size) PROVE Inv'
    BY <1>2, ReadLineInv
  <1>3. CASE Tell
    BY <1>3, TellInv
  <1>4. ASSUME NEW n \in 0..FileLength, Skip(n) PROVE Inv'
    BY <1>4, SkipInv
  <1>5. ASSUME NEW n \in 0..FileLength, Seek(n) PROVE Inv'
    BY <1>5, SeekInv
  <1>6. CASE Size
    BY <1>6, SizeInv
  <1>7. CASE UNCHANGED ffvars
    BY <1>7 DEF ffvars, Inv, Good
  <1> QED BY <1>1, <1>2, <1>3, <1>4, <1>5, <1>6, <1>7 DEF Next

\* Whatever mixture of Read, ReadLine, Skip, Seek, Tell and Size is called, a file that has not
\* failed stands where the calls put it and has told its position and size truly, except a stream
\* that was asked for a position with part of a line buffered (FileFd in fileutl.cc): for every
\* file, every size of the line buffer and any number of calls.
THEOREM PositionIsExact ==
  ASSUME Sizes
  PROVE  Spec => []PositionExact
  <1>1. Init => Inv
    BY InitInv
  <1>2. Inv /\ [Next]_ffvars => Inv'
    BY StepInv
  <1>3. Inv => PositionExact
    BY DEF Inv, Good, PositionExact
  <1> QED BY <1>1, <1>2, <1>3, PTL DEF Spec
=============================================================================
