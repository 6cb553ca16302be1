------------------------- MODULE FileReplaceProofs --------------------------
(***************************************************************************)
(* ReplaceSafe of FileReplace, for every number of blocks, every size of   *)
(* the buffer, every amount of space on the disk and every mode.           *)
(*                                                                         *)
(* Until something fails no block is lost on its way: what is on the disk, *)
(* what the compressor holds, what is in the buffer and what is left of    *)
(* the call add up to what the caller handed over (NothingLost).           *)
(***************************************************************************)
EXTENDS FileReplace, TLAPS

\* bounds of the model: the caller writes a number of blocks, the buffer takes some
Sizes == Blocks \in Nat /\ WriteBuffer \in Nat

Modes == [atomic : BOOLEAN, exclusive : BOOLEAN, empty : BOOLEAN, buffered : BOOLEAN,
          class : Classes, erase : BOOLEAN]

TypeInv ==
  /\ mode \in Modes /\ Space \in Nat /\ Space <= Blocks
  /\ fname \in Int /\ tmp \in Int /\ inner \in Nat /\ todo \in Nat
  /\ writebuffer \in Nat /\ writebuffer <= WriteBuffer
  /\ written \in Nat /\ written <= Blocks
  /\ failed \in BOOLEAN
  /\ at \in {"closed", "open", "closing", "done", "failed", "dead"}
  /\ at = "closed" => inner = 0 /\ writebuffer = 0 /\ todo = 0 /\ written = 0 /\ ~failed
                    /\ fname \in {Old, Gone}

Opened == at \in {"open", "closing"}

\* the file under its name is a new one, or none has been begun
Truncated == mode.atomic \/ mode.exclusive \/ mode.empty

\* the file being written fits on the disk
OnDisk ==
  Opened => /\ Taken \in Nat /\ Taken <= Space
            /\ Truncated /\ ~mode.atomic => fname # Old

NothingLost ==
  /\ Opened /\ ~failed /\ Truncated => Taken + inner + writebuffer + todo = written
  /\ mode.class = "direct" => inner = 0

\* nobody sees the new file before it is complete
NotYet == mode.atomic /\ at \in {"closed", "open", "closing", "dead"} => fname \in {Old, Gone}

Inv == TypeInv /\ OnDisk /\ NothingLost /\ NotYet /\ ReplaceSafe

-----------------------------------------------------------------------------
\* What Min gives for two numbers.
LEMMA MinOfTwo ==
  ASSUME NEW m \in Int, NEW n \in Int
  PROVE  Min({m, n}) \in {m, n} /\ Min({m, n}) <= m /\ Min({m, n}) <= n
  <1>1. \E x \in {m, n} : \A y \in {m, n} : x <= y
    <2>1. CASE m <= n
      BY <2>1
    <2>2. CASE ~(m <= n)
      BY <2>2
    <2> QED BY <2>1, <2>2
  <1>2. Min({m, n}) \in {m, n} /\ \A y \in {m, n} : Min({m, n}) <= y
    BY <1>1 DEF Min
  <1> QED BY <1>2

\* Blocks that fit reach the file that is being written and no other one.
LEMMA ToDiskAdds ==
  ASSUME TypeInv, OnDisk, Opened, NEW n \in Nat, n <= Room, ToDisk(n), UNCHANGED <<mode, Space>>
  PROVE  /\ fname' \in Int /\ tmp' \in Int
         /\ Taken' = Taken + n /\ Taken' \in Nat /\ Taken' <= Space
         /\ mode.atomic => fname' = fname
         /\ ~mode.atomic => fname' # Old
  <1>1. CASE mode.atomic
    BY <1>1 DEF TypeInv, OnDisk, ToDisk, Taken, Room
  <1>2. CASE ~mode.atomic
    <2>1. Taken \in Nat /\ Space \in Nat /\ Taken + n <= Space
      BY DEF TypeInv, OnDisk, Room
    <2>2. fname' = Taken + n /\ tmp' = tmp /\ mode' = mode
      BY <1>2 DEF ToDisk
    <2>3. fname' \in Nat /\ fname' # Old
      BY <2>1, <2>2 DEF Old
    <2>4. Taken' = fname'
      BY <1>2, <2>2, <2>3 DEF Taken
    <2> QED BY <1>2, <2>1, <2>2, <2>3, <2>4 DEF TypeInv
  <1> QED BY <1>1, <1>2

\* A write passes on as many blocks as it says, or fails.
LEMMA InternalWriteMoves ==
  ASSUME Inv, Opened, NEW n \in Nat, n > 0, NEW k \in Int, InternalWrite(n, k), UNCHANGED <<mode, Space>>
  PROVE  /\ fname' \in Int /\ tmp' \in Int /\ inner' \in Nat
         /\ Taken' \in Nat /\ Taken' <= Space
         /\ mode.atomic => fname' = fname
         /\ Truncated /\ ~mode.atomic => fname' # Old
         /\ mode.class = "direct" => inner' = 0
         /\ k # -1 => k \in 1..n /\ Taken' + inner' = Taken + inner + k
  <1>1. Taken \in Nat /\ Room \in Nat /\ inner \in Nat /\ fname \in Int /\ tmp \in Int
    BY DEF Inv, OnDisk, TypeInv, Room
  <1>2. CASE mode.class = "direct" /\ k \in 1..Min({n, Room}) /\ ToDisk(k) /\ UNCHANGED inner
    <2>1. Min({n, Room}) <= n /\ Min({n, Room}) <= Room /\ Min({n, Room}) \in Int
      BY <1>1, MinOfTwo
    <2>2. k \in Nat /\ k <= Room /\ k <= n /\ k >= 1
      BY <1>1, <1>2, <2>1
    <2> HIDE DEF Room
    <2>3. /\ fname' \in Int /\ tmp' \in Int /\ Taken' = Taken + k /\ Taken' \in Nat /\ Taken' <= Space
          /\ mode.atomic => fname' = fname
          /\ ~mode.atomic => fname' # Old
      BY <1>2, <2>2, ToDiskAdds DEF Inv
    <2> QED BY <1>1, <1>2, <2>2, <2>3 DEF Inv, NothingLost
  <1>3. CASE mode.class = "direct" /\ k = -1 /\ Room = 0 /\ UNCHANGED <<fname, tmp, inner>>
    BY <1>1, <1>3 DEF Inv, NothingLost, OnDisk, Taken, TypeInv
  <1>4. CASE mode.class # "direct" /\ k = n /\ inner + n - 1 <= Room /\ ToDisk(inner + n - 1) /\ inner' = 1
    <2>1. inner + n - 1 \in Nat
      BY <1>1
    <2>2. /\ fname' \in Int /\ tmp' \in Int
          /\ Taken' = Taken + (inner + n - 1) /\ Taken' \in Nat /\ Taken' <= Space
          /\ mode.atomic => fname' = fname
          /\ ~mode.atomic => fname' # Old
      BY <1>4, <2>1, ToDiskAdds DEF Inv
    <2> QED BY <1>1, <1>4, <2>2
  <1>5. CASE mode.class # "direct" /\ k = -1 /\ inner + n - 1 > Room /\ ToDisk(Room) /\ inner' = inner
    <2>1. /\ fname' \in Int /\ tmp' \in Int /\ Taken' \in Nat /\ Taken' <= Space
          /\ mode.atomic => fname' = fname
          /\ ~mode.atomic => fname' # Old
      BY <1>1, <1>5, ToDiskAdds DEF Inv
    <2> QED BY <1>1, <1>5, <2>1
  <1> QED BY <1>2, <1>3, <1>4, <1>5 DEF InternalWrite, DirectWrite, CompressorWrite

-----------------------------------------------------------------------------
\* While the file is not closed ReplaceSafe says no more than NotYet.
LEMMA StillSafe ==
  ASSUME NotYet', at' \in {"open", "closing", "dead"}
  PROVE  ReplaceSafe'
  BY DEF NotYet, ReplaceSafe, OldOrNew, SuccessIsTrue

LEMMA InitInv == ASSUME Sizes, Init PROVE Inv
  <1>1. TypeInv
    <2>1. mode \in Modes
      BY DEF Init, Modes
    <2>2. Space \in Nat /\ Space <= Blocks
      BY DEF Init, Sizes
    <2>3. fname \in Int /\ tmp \in Int
      BY DEF Init, Old, Gone
    <2>4. inner = 0 /\ writebuffer = 0 /\ todo = 0 /\ written = 0 /\ at = "closed" /\ fname \in {Old, Gone}
      BY DEF Init
    <2>5. failed = FALSE
      BY DEF Init
    <2>6. writebuffer <= WriteBuffer /\ written <= Blocks
      BY <2>4 DEF Sizes
    <2> QED BY <2>1, <2>2, <2>3, <2>4, <2>5, <2>6 DEF TypeInv
  <1>2. OnDisk /\ NothingLost /\ NotYet
    BY DEF Init, OnDisk, NothingLost, NotYet, Opened
  <1>3. ReplaceSafe
    BY DEF Init, ReplaceSafe, OldOrNew, SuccessIsTrue
  <1> QED BY <1>1, <1>2, <1>3 DEF Inv

LEMMA OpenFileInv == ASSUME Inv, OpenFile PROVE Inv'
  <1> USE DEF OpenFile
  <1>1. TypeInv'
    BY DEF Inv, TypeInv
  <1>2. fname \in {Old, Gone} /\ inner = 0 /\ writebuffer = 0 /\ todo = 0 /\ written = 0
    BY DEF Inv, TypeInv
  <1>3. Taken' = 0 /\ (Truncated /\ ~mode.atomic => fname' # Old)
    BY <1>2 DEF Taken, Truncated, Old, Gone
  <1>4. OnDisk'
    BY <1>3 DEF Inv, TypeInv, OnDisk, Truncated
  <1>5. NothingLost'
    BY <1>2, <1>3 DEF NothingLost
  <1>6. NotYet'
    BY <1>2 DEF NotYet
  <1> QED BY <1>1, <1>4, <1>5, <1>6, StillSafe DEF Inv

\* Handing over blocks, giving up, beginning to close and dying write nothing.
LEMMA NothingWritten ==
  ASSUME Inv, Opened, UNCHANGED <<mode, Space, fname, tmp, inner, writebuffer>>,
         todo' \in Nat, written' \in Nat, written' <= Blocks, todo' - todo = written' - written,
         failed' \in BOOLEAN, failed => failed', at' \in {"open", "closing", "dead"}
  PROVE  Inv'
  <1>1. TypeInv'
    BY DEF Inv, TypeInv
  <1>2. Taken' = Taken
    BY DEF Taken
  <1>3. OnDisk'
    BY <1>2 DEF Inv, OnDisk, Opened, Truncated
  <1>4. NothingLost'
    BY <1>2 DEF Inv, TypeInv, OnDisk, NothingLost, Opened, Truncated
  <1>5. NotYet'
    BY DEF Inv, NotYet, Opened
  <1> QED BY <1>1, <1>3, <1>4, <1>5, StillSafe DEF Inv

\* What InternalWrite took out of the call (d) or the buffer (b) is on its way to the disk.
LEMMA SomethingWritten ==
  ASSUME Inv, Opened, ~failed, NEW n \in Nat, n > 0, NEW k \in Int, InternalWrite(n, k),
         UNCHANGED <<mode, Space, written, at>>,
         todo' \in Nat, writebuffer' \in Nat, writebuffer' <= WriteBuffer, failed' \in BOOLEAN, failed' \/ k # -1,
         k # -1 => todo' + writebuffer' = todo + writebuffer - k
  PROVE  Inv'
  <1>1. /\ fname' \in Int /\ tmp' \in Int /\ inner' \in Nat
        /\ Taken' \in Nat /\ Taken' <= Space
        /\ mode.atomic => fname' = fname
        /\ Truncated /\ ~mode.atomic => fname' # Old
        /\ mode.class = "direct" => inner' = 0
        /\ k # -1 => k \in 1..n /\ Taken' + inner' = Taken + inner + k
    BY InternalWriteMoves
  <1>2. TypeInv'
    BY <1>1 DEF Inv, TypeInv, Opened
  <1>3. OnDisk'
    BY <1>1 DEF Inv, OnDisk, Opened, Truncated
  <1>4. NothingLost'
    <2>1. ASSUME ~failed', Truncated PROVE (Taken + inner + writebuffer + todo)' = written'
      <3>1. Taken + inner + writebuffer + todo = written
        BY <2>1 DEF Inv, NothingLost
      <3>2. k # -1
        BY <2>1
      <3>3. Taken \in Nat /\ inner \in Nat /\ writebuffer \in Nat /\ todo \in Nat /\ written \in Nat
        BY DEF Inv, TypeInv, OnDisk
      <3>4. Taken' + inner' = Taken + inner + k /\ todo' + writebuffer' = todo + writebuffer - k
        BY <1>1, <3>2
      <3>5. Taken' \in Int /\ inner' \in Int /\ written' = written /\ writebuffer' \in Int /\ todo' \in Int
        BY <1>1
      <3>6. Taken \in Int /\ inner \in Int /\ writebuffer \in Int /\ todo \in Int /\ written \in Int
        BY <3>3
      <3>7. Taken' + inner' + writebuffer' + todo' = written
        <4>1. Taken' + inner' + writebuffer' + todo' = (Taken' + inner') + (todo' + writebuffer')
          BY <3>5
        <4>2. @ = (Taken + inner + k) + (todo + writebuffer - k)
          BY <3>4
        <4>3. @ = Taken + inner + writebuffer + todo
          BY <3>6
        <4> QED BY <4>1, <4>2, <4>3, <3>1
      <3> QED BY <3>5, <3>7
    <2> QED BY <1>1, <2>1 DEF NothingLost, Truncated
  <1>5. NotYet'
    BY <1>1 DEF Inv, NotYet
  <1> QED BY <1>2, <1>3, <1>4, <1>5, StillSafe DEF Inv, Opened

LEMMA WriteStepInv == ASSUME Sizes, Inv, WriteStep PROVE Inv'
  <1>1. /\ Opened /\ ~failed /\ todo > 0 /\ UNCHANGED <<mode, Space, written, at>>
        /\ todo \in Nat /\ writebuffer \in Nat /\ writebuffer <= WriteBuffer /\ WriteBuffer \in Nat
    BY DEF WriteStep, Opened, Sizes, Inv, TypeInv
  <1>2. ASSUME NEW k, k = Min({todo, WriteBuffer - writebuffer}),
               writebuffer' = writebuffer + k, todo' = todo - k,
               UNCHANGED <<fname, tmp, inner, failed>>
        PROVE  Inv'
    <2> DEFINE free == WriteBuffer - writebuffer
    <2>a. free \in Nat /\ todo \in Int
      BY <1>1
    <2>b. k = Min({todo, free})
      BY <1>2
    <2> HIDE DEF free
    <2>c. k \in {todo, free} /\ k <= todo /\ k <= free
      BY <2>a, <2>b, MinOfTwo
    <2>1. k \in Nat /\ k <= todo /\ k <= WriteBuffer - writebuffer
      BY <1>1, <2>a, <2>c DEF free
    <2>2. TypeInv'
      BY <1>1, <1>2, <2>1 DEF Inv, TypeInv
    <2>3. Taken' = Taken
      BY <1>1, <1>2 DEF Taken
    <2>4. OnDisk' /\ NotYet'
      BY <1>1, <1>2, <2>3 DEF Inv, OnDisk, NotYet, Opened, Truncated
    <2>5. NothingLost'
      BY <1>1, <1>2, <2>1, <2>3 DEF Inv, TypeInv, OnDisk, NothingLost, Opened, Truncated
    <2> QED BY <1>1, <2>2, <2>4, <2>5, StillSafe DEF Inv, Opened
  <1>3. ASSUME NEW k \in -1..todo, InternalWrite(todo, k), todo' = (IF k = -1 THEN 0 ELSE todo - k),
               failed' = (k = -1), UNCHANGED writebuffer
        PROVE  Inv'
    <2>1. k \in Int /\ todo' \in Nat /\ (k # -1 => todo' + writebuffer' = todo + writebuffer - k)
      BY <1>1, <1>3
    <2> QED BY <1>1, <1>3, <2>1, SomethingWritten
  <1> QED BY <1>2, <1>3 DEF WriteStep

LEMMA WriteFlushInv == ASSUME Sizes, Inv, WriteFlush PROVE Inv'
  <1>1. /\ Opened /\ ~failed /\ writebuffer > 0 /\ UNCHANGED <<mode, Space, written, at>>
        /\ todo \in Nat /\ writebuffer \in Nat /\ writebuffer <= WriteBuffer /\ WriteBuffer \in Nat
    BY DEF WriteFlush, Flushing, Opened, Sizes, Inv, TypeInv
  <1>2. PICK k \in -1..writebuffer :
          /\ InternalWrite(writebuffer, k)
          /\ writebuffer' = IF k = -1 THEN writebuffer ELSE writebuffer - k
          /\ failed' = (k = -1)
    BY DEF WriteFlush, FlushStep
  <1>3. todo' = IF failed' THEN 0 ELSE todo
    BY DEF WriteFlush
  <1>4. /\ k \in Int /\ todo' \in Nat /\ writebuffer' \in Nat /\ writebuffer' <= WriteBuffer
        /\ k # -1 => todo' + writebuffer' = todo + writebuffer - k
    <2>1. CASE k = -1
      BY <1>1, <1>2, <1>3, <2>1
    <2>2. CASE k # -1
      <3>1. ~failed' /\ writebuffer' = writebuffer - k
        BY <1>2, <2>2
      <3> QED BY <1>1, <1>2, <1>3, <2>2, <3>1
    <2> QED BY <2>1, <2>2
  <1> QED BY <1>1, <1>2, <1>4, SomethingWritten

-----------------------------------------------------------------------------
\* A compressor writes all that it holds when it is closed, or nothing. If the file has not failed
\* it writes it when there is room, and what it says of it is true, except of bzip2 and xz.
LEMMA InternalCloseSays ==
  ASSUME Inv
  PROVE  LET d == InternalClose(mode.class) IN
         /\ d.last \in {0, inner}
         /\ ~failed /\ Fits => d.last = inner
         /\ ~failed /\ d.says /\ mode.class \notin {"bzip2", "xz", "direct"} => Fits
  <1>1. mode.class \in Classes
    BY DEF Inv, TypeInv, Modes
  <1>2. mode.class = "direct" => inner = 0
    BY DEF Inv, NothingLost
  <1> QED BY <1>1, <1>2, Zenon DEF InternalClose, Classes, Closing, DirectClose, GzipClose, Bz2Close,
               LzmaClose, Lz4Close, ZstdClose, PipedClose

LEMMA CloseInv == ASSUME Sizes, Inv, NEW res \in BOOLEAN, NEW renamed \in BOOLEAN, Close(res, renamed) PROVE Inv'
  <1> DEFINE d == InternalClose(mode.class)
             target == Taken + d.last
             ok == res /\ d.says /\ (Renames => renamed)
             left == IF failed /\ mode.erase THEN Gone
                     ELSE IF ~mode.atomic /\ fname = Old /\ d.last = 0 THEN Old ELSE target
  <1>1. /\ Opened /\ todo = 0 /\ (failed \/ writebuffer = 0)
        /\ inner' = 0 /\ UNCHANGED <<mode, Space, writebuffer, todo, written>>
    BY DEF Close, Opened
  <1>2. /\ mode.atomic /\ ~failed /\ renamed => fname' = target /\ tmp' = Gone
        /\ mode.atomic /\ (failed \/ ~renamed) => tmp' = left /\ fname' = fname
        /\ ~mode.atomic => fname' = left /\ tmp' = tmp
        /\ failed' = (failed \/ ~ok)
        /\ at' = IF failed \/ ~ok THEN "failed" ELSE "done"
    BY DEF Close, Renames
  <1>3. /\ d.last \in {0, inner}
        /\ ~failed /\ Fits => d.last = inner
        /\ ~failed /\ d.says /\ mode.class \notin {"bzip2", "xz", "direct"} => Fits
    BY InternalCloseSays
  <1> HIDE DEF d
  <1>4. Taken \in Nat /\ Taken <= Space /\ Space \in Nat /\ inner \in Nat /\ written \in Nat
    BY <1>1 DEF Inv, TypeInv, OnDisk
  <1>5. target \in Int /\ left \in Int
    BY <1>3, <1>4 DEF Gone, Old
  <1>6. fname' \in Int /\ tmp' \in Int
    <2> HIDE DEF target, left
    <2> QED BY <1>2, <1>5 DEF Inv, TypeInv, Old, Gone
  <1>7. at' \in {"done", "failed"} /\ failed' \in BOOLEAN
    <2> HIDE DEF ok
    <2>1. (failed \/ ~ok) \in BOOLEAN
      OBVIOUS
    <2> QED BY <1>2, <2>1, Zenon
  <1>8. TypeInv'
    BY <1>1, <1>6, <1>7 DEF Inv, TypeInv
  <1>9. OnDisk' /\ NotYet' /\ NothingLost'
    BY <1>1, <1>7 DEF OnDisk, NotYet, NothingLost, Opened
  \* a complete file: no block is left on the way
  <1>10. ASSUME ~failed, Truncated, Fits PROVE target = written
    <2>1. Taken + inner + writebuffer + todo = written /\ todo = 0 /\ writebuffer = 0
      BY <1>1, <1>10 DEF Inv, NothingLost
    <2> QED BY <1>3, <1>4, <1>10, <2>1
  <1>11. OldOrNew'
    <2> SUFFICES ASSUME mode.atomic, ~Late PROVE fname' \in {Old, Gone, written}
      BY <1>1 DEF OldOrNew, Late
    <2>1. CASE failed \/ ~renamed
      BY <1>1, <1>2, <2>1 DEF Inv, NotYet, Opened
    <2>2. CASE ~failed /\ renamed
      <3>1. Taken + inner + writebuffer + todo = written /\ todo = 0 /\ writebuffer = 0
        BY <1>1, <2>2 DEF Inv, NothingLost, Truncated
      <3>2. Fits
        <4>1. Blocks \in Nat /\ Space <= Blocks /\ written <= Blocks
          BY DEF Sizes, Inv, TypeInv
        <4>2. CASE mode.class = "direct"
          BY <1>4, <4>2 DEF Inv, NothingLost, Fits, Room
        <4>3. CASE ~(Space < Blocks)
          <5>1. Taken + inner = written
            BY <1>4, <3>1
          <5> QED BY <1>4, <4>1, <4>3, <5>1 DEF Fits, Room
        <4> QED BY <4>2, <4>3 DEF Late
      <3>3. fname' = target /\ target = written
        BY <1>2, <1>10, <2>2, <3>2 DEF Truncated
      <3> QED BY <3>3
    <2> QED BY <2>1, <2>2
  <1>12. SuccessIsTrue'
    <2> SUFFICES ASSUME at' = "done", mode.class \notin {"bzip2", "xz"}, Truncated PROVE fname' = written
      BY <1>1 DEF SuccessIsTrue, Truncated
    <2>1. ~failed /\ d.says /\ (mode.atomic => renamed)
      BY <1>2 DEF Renames
    <2>2. Fits
      BY <1>3, <1>4, <2>1 DEF Inv, NothingLost, Fits, Room
    <2>3. target = written
      BY <1>10, <2>1, <2>2
    <2>4. mode.atomic \/ fname # Old
      BY <1>1 DEF Inv, OnDisk
    <2>5. fname' = target
      <3>1. CASE mode.atomic
        BY <1>2, <2>1, <3>1
      <3>2. CASE ~mode.atomic
        BY <1>2, <2>1, <2>4, <3>2
      <3> QED BY <3>1, <3>2
    <2> QED BY <2>3, <2>5
  <1> QED BY <1>8, <1>9, <1>11, <1>12 DEF Inv, ReplaceSafe

-----------------------------------------------------------------------------
\* Each step keeps the invariant.
LEMMA StepInv == ASSUME Sizes, Inv, [Next]_frvars PROVE Inv'
  <1>1. CASE OpenFile
    BY <1>1, OpenFileInv
  <1>2. ASSUME NEW n \in 1..Blocks, Write(n) PROVE Inv'
    <2>1. /\ todo' = n /\ todo = 0 /\ written' = written + n /\ written + n <= Blocks /\ n \in Nat
          /\ written \in Nat
      BY <1>2 DEF Write, Inv, TypeInv, Sizes
    <2>2. todo' \in Nat /\ written' \in Nat /\ written' <= Blocks /\ todo' - todo = written' - written
      BY <2>1
    <2> QED BY <1>2, <2>2, NothingWritten DEF Write, Inv, TypeInv, Opened
  <1>3. CASE WriteStep
    BY <1>3, WriteStepInv
  <1>4. CASE WriteFlush
    BY <1>4, WriteFlushInv
  <1>5. CASE OpFail \/ CloseFlush \/ Killed
    <2>1. /\ Opened /\ UNCHANGED <<mode, Space, fname, tmp, inner, writebuffer, todo, written>>
          /\ at' \in {"open", "closing", "dead"}
      BY <1>5 DEF OpFail, CloseFlush, Killed, Opened
    <2>2. failed' \in BOOLEAN /\ (failed => failed')
      BY <1>5 DEF OpFail, CloseFlush, Killed, Inv, TypeInv
    <2>3. todo' \in Nat /\ written' \in Nat /\ written' <= Blocks /\ todo' - todo = written' - written
      BY <2>1 DEF Inv, TypeInv
    <2> QED BY <2>1, <2>2, <2>3, NothingWritten
  <1>6. ASSUME NEW res \in BOOLEAN, NEW renamed \in BOOLEAN, Close(res, renamed) PROVE Inv'
    BY <1>6, CloseInv
  <1>7. CASE UNCHANGED frvars
    BY <1>7 DEF frvars, Inv, TypeInv, OnDisk, NothingLost, NotYet, ReplaceSafe, OldOrNew, SuccessIsTrue,
                Opened, Truncated, Taken, Late
  <1> QED BY <1>1, <1>2, <1>3, <1>4, <1>5, <1>6, <1>7 DEF Next

\* Whatever fails and whenever the program dies, a file written in Atomic mode is the old one or
\* all that the caller wrote, but for an error in the last block of a compressor, and a Close that
\* succeeds, of any class but bzip2 and xz, has written all of it (FileFd::Open, Write, Flush and
\* Close in fileutl.cc): for every number of blocks, size of the buffer, space and mode.
THEOREM ReplacedSafely ==
  ASSUME Sizes
  PROVE  Spec => []ReplaceSafe
  <1>1. Init => Inv
    BY InitInv
  <1>2. Inv /\ [Next]_frvars => Inv'
    BY StepInv
  <1>3. Inv => ReplaceSafe
    BY DEF Inv
  <1> QED BY <1>1, <1>2, <1>3, PTL DEF Spec
=============================================================================
