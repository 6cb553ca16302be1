---------------------------- MODULE FileReplace -----------------------------
(***************************************************************************)
(* Writing a file through FileFd (fileutl.cc): Open in its modes, Write    *)
(* with and without BufferedWrite, Flush, Close and the destructor. In     *)
(* Atomic mode the data goes to a temporary file that Close renames over   *)
(* the old one unless something failed.                                    *)
(*                                                                         *)
(* The caller writes Blocks blocks and closes the file; a file is the      *)
(* number of them it holds. The disk has room for Space of them: the next  *)
(* write fails. A compressor keeps the last block to itself until it is    *)
(* closed. The program may also be killed at any time.                     *)
(***************************************************************************)
EXTENDS Integers, FiniteSetsExt

CONSTANTS
  Blocks,       \* blocks the caller means to write
  WriteBuffer   \* blocks the buffer of BufferedWrite takes

VARIABLES
  mode,         \* [atomic, exclusive, empty, buffered, class, erase]
  Space,        \* blocks that fit on the disk
  fname,        \* blocks under FileName, or Old, or Gone
  tmp,          \* blocks under TemporaryFileName, or Gone
  inner,        \* blocks the compressor holds
  writebuffer,  \* blocks in the buffer of BufferedWrite
  todo,         \* what is left of the Write call
  written,      \* blocks the caller has handed over
  failed,       \* the flag Fail
  at            \* "closed", "open", "closing", "done", "failed" or "dead"

frvars == <<mode, Space, fname, tmp, inner, writebuffer, todo, written, failed, at>>

Old == -1
Gone == -2
Classes == {"direct", "gzip", "bzip2", "xz", "lz4", "zstd", "pipe"}

Init ==
  /\ mode \in [atomic : BOOLEAN, exclusive : BOOLEAN, empty : BOOLEAN, buffered : BOOLEAN,
               class : Classes, erase : BOOLEAN]
  /\ Space \in 0..Blocks
  /\ fname \in {Old, Gone} /\ tmp = Gone
  /\ inner = 0 /\ writebuffer = 0 /\ todo = 0 /\ written = 0
  /\ failed = FALSE /\ at = "closed"

(* Without Atomic, Exclusive|Create removes the file that is there, and    *)
(* Empty truncates it.                                                     *)
OpenFile ==
  /\ at = "closed" /\ at' = "open"
  /\ IF mode.atomic THEN tmp' = 0 /\ UNCHANGED fname
     ELSE /\ fname' = IF mode.exclusive \/ mode.empty \/ fname = Gone THEN 0 ELSE fname
          /\ UNCHANGED tmp
  /\ UNCHANGED <<mode, Space, inner, writebuffer, todo, written, failed>>

(* The file being written, and a write of n blocks to it: it takes what    *)
(* fits. A file that was not truncated is overwritten from its start.      *)
Taken == IF mode.atomic THEN tmp ELSE IF fname = Old THEN 0 ELSE fname
Room == Space - Taken
ToDisk(n) == IF mode.atomic THEN tmp' = tmp + n /\ UNCHANGED fname
             ELSE fname' = Taken + n /\ UNCHANGED tmp

(* InternalWrite: a direct file takes at least one block or fails; a       *)
(* compressor takes all of them and passes on what it held before. k is    *)
(* the number of blocks it took, -1 an error.                              *)
DirectWrite(n, k) ==
  \/ k \in 1..Min({n, Room}) /\ ToDisk(k) /\ UNCHANGED inner
  \/ k = -1 /\ Room = 0 /\ UNCHANGED <<fname, tmp, inner>>

CompressorWrite(n, k) ==
  \/ k = n /\ inner + n - 1 <= Room /\ ToDisk(inner + n - 1) /\ inner' = 1
  \/ k = -1 /\ inner + n - 1 > Room /\ ToDisk(Room) /\ inner' = inner

InternalWrite(n, k) ==
  \/ mode.class = "direct" /\ DirectWrite(n, k)
  \/ mode.class # "direct" /\ CompressorWrite(n, k)

(* InternalFlush writes until the buffer is empty.                         *)
FlushStep ==
  \E k \in -1..writebuffer :
    /\ InternalWrite(writebuffer, k)
    /\ writebuffer' = IF k = -1 THEN writebuffer ELSE writebuffer - k
    /\ failed' = (k = -1)

(* The caller asks for n blocks to be written; the loop of Write hands     *)
(* them to InternalWrite, of which the buffer takes what fits and is       *)
(* written out when it is full. A full buffer seen here is one whose       *)
(* flushing is not over. Write fails as soon as a write does.              *)
Write(n) ==
  /\ at = "open" /\ ~failed /\ todo = 0 /\ written + n <= Blocks
  /\ todo' = n /\ written' = written + n
  /\ UNCHANGED <<mode, Space, fname, tmp, inner, writebuffer, failed, at>>

Flushing == writebuffer > 0 /\ (writebuffer = WriteBuffer \/ at = "closing")

WriteStep ==
  /\ at = "open" /\ ~failed /\ todo > 0 /\ ~Flushing
  /\ IF mode.buffered /\ ~(writebuffer = 0 /\ todo >= WriteBuffer)
     THEN \E k \in {Min({todo, WriteBuffer - writebuffer})} :
            /\ writebuffer' = writebuffer + k /\ todo' = todo - k
            /\ UNCHANGED <<fname, tmp, inner, failed>>
     ELSE \E k \in -1..todo :
            /\ InternalWrite(todo, k)
            /\ todo' = IF k = -1 THEN 0 ELSE todo - k
            /\ failed' = (k = -1)
            /\ UNCHANGED writebuffer
  /\ UNCHANGED <<mode, Space, written, at>>

WriteFlush ==
  /\ at \in {"open", "closing"} /\ ~failed /\ Flushing
  /\ FlushStep
  /\ todo' = IF failed' THEN 0 ELSE todo
  /\ UNCHANGED <<mode, Space, written, at>>

(* The caller gives up (OpFail), which sets the flag Fail.                 *)
OpFail ==
  /\ at = "open" /\ ~failed /\ todo = 0 /\ failed' = TRUE
  /\ UNCHANGED <<mode, Space, fname, tmp, inner, writebuffer, todo, written, at>>

(* Close flushes first unless the file has failed. When that does not work *)
(* it returns and leaves the rest to the destructor.                       *)
CloseFlush ==
  /\ at = "open" /\ ~failed /\ todo = 0 /\ writebuffer > 0 /\ at' = "closing"
  /\ UNCHANGED <<mode, Space, fname, tmp, inner, writebuffer, todo, written, failed>>

(* What the classes write when they are closed, and what they say of it:   *)
(* gzip, bzip2 and an external compressor write the block they hold        *)
(* whatever happened before, xz, lz4 and zstd only without a failure.      *)
(* bzip2 and xz keep an error to themselves, and none sets the flag Fail.  *)
Fits == inner <= Room
Closing(says, last) == [says |-> says, last |-> IF Fits THEN last ELSE 0]
DirectClose == Closing(TRUE, 0)
GzipClose == Closing(Fits, inner)
Bz2Close == Closing(TRUE, inner)
LzmaClose == Closing(TRUE, IF failed THEN 0 ELSE inner)
Lz4Close == Closing(failed \/ Fits, IF failed THEN 0 ELSE inner)
ZstdClose == Closing(failed \/ Fits, IF failed THEN 0 ELSE inner)
PipedClose == Closing(Fits, inner)

\* mutant: what closing the compressor says is not looked at
InternalCloseIgnored(class) == Closing(TRUE, inner)
InternalClose(class) ==
  CASE class = "direct" -> DirectClose [] class = "gzip" -> GzipClose [] class = "bzip2" -> Bz2Close
    [] class = "xz" -> LzmaClose [] class = "lz4" -> Lz4Close [] class = "zstd" -> ZstdClose
    [] class = "pipe" -> PipedClose

Renames == mode.atomic /\ ~failed

(* The rest of Close: close the descriptor, close the compressor, rename   *)
(* or not, remove what was written when asked to, which a rename that      *)
(* fails comes too late for. res and renamed are what close() and rename() *)
(* said.                                                                   *)
Close(res, renamed) ==
  /\ at \in {"open", "closing"} /\ todo = 0 /\ (failed \/ writebuffer = 0)
  /\ \E d \in {InternalClose(mode.class)} :
     LET target == Taken + d.last
         ok == res /\ d.says /\ (Renames => renamed)
         left == IF failed /\ mode.erase THEN Gone
                 ELSE IF ~mode.atomic /\ fname = Old /\ d.last = 0 THEN Old ELSE target
     IN /\ IF mode.atomic
           THEN IF Renames /\ renamed THEN fname' = target /\ tmp' = Gone
                ELSE tmp' = left /\ UNCHANGED fname
           ELSE fname' = left /\ UNCHANGED tmp
        /\ failed' = (failed \/ ~ok)
        /\ at' = IF failed \/ ~ok THEN "failed" ELSE "done"
  /\ inner' = 0
  /\ UNCHANGED <<mode, Space, writebuffer, todo, written>>

Killed ==
  /\ at \in {"open", "closing"} /\ at' = "dead"
  /\ UNCHANGED <<mode, Space, fname, tmp, inner, writebuffer, todo, written, failed>>

Next ==
  \/ OpenFile
  \/ \E n \in 1..Blocks : Write(n)
  \/ WriteStep
  \/ WriteFlush
  \/ OpFail
  \/ CloseFlush
  \/ \E res, renamed \in BOOLEAN : Close(res, renamed)
  \/ Killed

Spec == Init /\ [][Next]_frvars

-----------------------------------------------------------------------------
(* Whatever fails and whenever the program dies, a file that is written    *)
(* in Atomic mode is either the one that was there or all that the caller  *)
(* wrote, except that an error in the last block of a compressed file      *)
(* comes too late to be noticed before the rename: it does not set the     *)
(* flag Fail (fileutl.cc:3009, 1571, 1628).                                *)
Late == Space < Blocks /\ mode.class # "direct"
OldOrNew == mode.atomic /\ ~Late => fname \in {Old, Gone, written}

(* A Close that succeeds means that the file is there with all that was    *)
(* written to it, whatever the mode. bzip2 and xz swallow the error of     *)
(* their last write.                                                       *)
SuccessIsTrue ==
  at = "done" /\ mode.class \notin {"bzip2", "xz"} /\ (mode.atomic \/ mode.exclusive \/ mode.empty) => fname = written

(* A reader sees the old or the new file, and the writer is told which.    *)
ReplaceSafe == OldOrNew /\ SuccessIsTrue
=============================================================================
