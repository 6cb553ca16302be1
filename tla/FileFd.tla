------------------------------- MODULE FileFd -------------------------------
(***************************************************************************)
(* Reading through FileFd (fileutl.cc). A file is uncompressed ("direct"), *)
(* read with zlib ("gzip", which is also asked for uncompressed files), or *)
(* read by a class that can only go forward ("stream": bzip2, xz, lzma,    *)
(* lz4, zstd and pipes from an external program), which seeks by skipping  *)
(* ahead or by opening the file again and which has nothing but its own    *)
(* counter, seekpos, to tell where it is. ReadLine reads a buffer ahead.   *)
(*                                                                         *)
(* Bytes are numbered, so "the next byte" is a number: off bytes were      *)
(* taken from the file, the last buffered of them wait in the buffer.      *)
(* The caller's idea of where it is, from the calls it made, is caller.    *)
(***************************************************************************)
EXTENDS Integers, FiniteSets, FiniteSetsExt

CONSTANTS
  FileLength,   \* bytes of the uncompressed content
  Newlines,     \* the bytes that end a line
  BufferSize,   \* bytes ReadLine reads ahead
  MaxCalls      \* bound: calls of a behaviour

VARIABLES
  class,      \* "direct", "gzip" or "stream"
  named,      \* opened by name, not by descriptor
  off,        \* position of the descriptor, of gztell or of the decoder
  buffered,   \* buffer.size()
  seekpos,    \* FileFdPrivate::seekpos
  Fail,       \* the flag Fail
  HitEof,     \* the flag HitEof
  told,       \* what Tell and Size answered last: [at, size, was]
  caller,     \* where the caller is
  mixed,      \* a stream was asked for more than lines with a line buffered
  nr          \* calls so far

ffvars == <<class, named, off, buffered, seekpos, Fail, HitEof, told, caller, mixed, nr>>

Lowest(S) == CHOOSE x \in S : \A y \in S : x <= y

Init ==
  /\ class \in {"direct", "gzip", "stream"}
  /\ named \in BOOLEAN
  /\ off = 0 /\ buffered = 0 /\ seekpos = 0 /\ caller = 0 /\ nr = 0
  /\ Fail = FALSE /\ HitEof = FALSE /\ mixed = FALSE
  /\ told = [at |-> 0, size |-> FileLength, was |-> 0]

TypeOK ==
  /\ {off, caller} \subseteq 0..FileLength
  /\ buffered \in 0..BufferSize /\ buffered <= off
  /\ {Fail, HitEof, mixed, named} \subseteq BOOLEAN

Call == nr < MaxCalls /\ nr' = nr + 1 /\ UNCHANGED <<class, named>>

(* Every call but ReadLine on a stream that has part of a line buffered    *)
(* makes seekpos wrong: Read counts the bytes of the buffer again and Tell *)
(* stores a position that already leaves the buffer out.                   *)
Mixes == mixed' = (mixed \/ (class = "stream" /\ buffered > 0))

(* FileFd::Read without the flags: the buffer is drained, then the file is *)
(* read; all the bytes are added to seekpos. f holds the position.         *)
Advance(f, n) ==
  LET got == Min({n, FileLength - f.off + f.buffered})
  IN [off |-> Max({f.off, f.off - f.buffered + got}), buffered |-> Max({0, f.buffered - got}),
      seekpos |-> f.seekpos + got, short |-> got < n]

Position == [off |-> off, buffered |-> buffered, seekpos |-> seekpos]
SetPosition(f) == off' = f.off /\ buffered' = f.buffered /\ seekpos' = f.seekpos

(* A caller that passes Actual takes what there is, one that does not gets *)
(* an error, and with it a file that answers no more calls, when the file  *)
(* is too short; a read error does the same.                               *)
Read(n, actual) ==
  /\ Call /\ ~Fail /\ n > 0 /\ Mixes /\ UNCHANGED told
  /\ \E f \in {Advance(Position, n)}, error \in BOOLEAN :
       /\ SetPosition(f)
       /\ Fail' = (error \/ (f.short /\ ~actual))
       /\ HitEof' = (HitEof \/ (f.short /\ actual))
       /\ caller' = Min({caller + n, FileLength})

(* Up to the newline, size - 1 bytes or the end of the file.               *)
LineEnd(start, size) ==
  Lowest({b \in Newlines : b > start} \cup {start + size - 1, FileLength})

(* The buffer is filled as often as the line needs it.                     *)
Filled(end) == Lowest({o \in {Min({off + k * BufferSize, FileLength}) : k \in 0..FileLength} : o >= end})

ReadLine(size) ==
  /\ Call /\ ~Fail /\ UNCHANGED <<told, mixed>>
  /\ \E start \in {off - buffered}, error \in BOOLEAN :
     \E end \in {LineEnd(start, size)} :
       /\ caller' = LineEnd(caller, size)
       /\ Fail' = error
       /\ IF class = "gzip"
          THEN off' = end /\ UNCHANGED <<buffered, seekpos, HitEof>>
          ELSE /\ off' = Filled(end)
               /\ buffered' = off' - end
               /\ seekpos' = seekpos + off' - off
               /\ HitEof' = IF end < start + size - 1 /\ end \notin Newlines THEN TRUE
                            ELSE HitEof /\ off' = off

(* Tell of a stream is the counter less the buffer, for the others it is   *)
(* the position of the descriptor less the buffer. FileFd::Tell keeps the  *)
(* answer in seekpos.                                                      *)
InternalTell(f) == (IF class = "stream" THEN f.seekpos ELSE f.off) - f.buffered
Told(f) == [f EXCEPT !.seekpos = InternalTell(f)]

Tell ==
  /\ Call /\ ~Fail /\ Mixes /\ UNCHANGED <<Fail, HitEof, caller>>
  /\ told' = [told EXCEPT !.at = InternalTell(Position), !.was = caller]
  /\ SetPosition(Told(Position))

(* Skip drops what it can from the buffer and seeks over the rest.         *)
\* mutant: what is still buffered is skipped as well as the distance
SkipOnTop(f, over) == [f EXCEPT !.buffered = 0, !.off = Min({@ + over, FileLength})]

InternalSkip(f, over) ==
  IF over < f.buffered THEN [f EXCEPT !.buffered = @ - over]
  ELSE LET rest == over - f.buffered IN
       [f EXCEPT !.buffered = 0, !.off = @ + rest,
                 !.seekpos = IF rest = 0 THEN @ ELSE f.off + rest]

Kept(f) == [off |-> f.off, buffered |-> f.buffered, seekpos |-> f.seekpos]

Skip(over) ==
  /\ Call /\ ~Fail /\ over + caller <= FileLength /\ UNCHANGED <<HitEof, told>> /\ Mixes
  /\ caller' = caller + over
  /\ IF class = "stream"
     THEN \E f \in {Advance(Position, over)} : SetPosition(f) /\ Fail' = f.short
     ELSE SetPosition(InternalSkip(Position, over)) /\ UNCHANGED Fail

(* A stream asks where it is, skips ahead or starts again from the front,  *)
(* which it can do only with a name to open.                               *)
Reopened == [off |-> 0, buffered |-> 0, seekpos |-> 0]
StreamSeek(f, to) ==
  LET at == InternalTell(f)
      g == Told(f)
  IN IF at = to THEN [f |-> g, fails |-> FALSE]
     ELSE IF at < to THEN LET h == Advance(g, to - at) IN [f |-> Kept(h), fails |-> h.short]
     ELSE IF ~named THEN [f |-> Reopened, fails |-> TRUE]
     ELSE LET h == Advance(Reopened, to) IN [f |-> Kept(h), fails |-> h.short]

InternalSeek(f, to) ==
  IF class = "stream" THEN StreamSeek(f, to)
  ELSE [f |-> [off |-> to, buffered |-> 0, seekpos |-> to], fails |-> FALSE]

Seek(to) ==
  /\ Call /\ ~Fail /\ Mixes /\ UNCHANGED told
  /\ \E r \in {InternalSeek(Position, to)} : SetPosition(r.f) /\ Fail' = r.fails
  /\ HitEof' = FALSE
  /\ caller' = to

(* The size of a compressed file is found by reading to its end and        *)
(* seeking back to where Tell said the file was; gzip then believes the    *)
(* last four bytes of the file.                                            *)
Size ==
  /\ Call /\ ~Fail /\ Mixes /\ UNCHANGED caller
  /\ IF class = "direct"
     THEN told' = [told EXCEPT !.size = FileLength] /\ UNCHANGED <<off, buffered, seekpos, Fail, HitEof>>
     ELSE \E e \in {Told(Kept(Advance(Told(Position), 2 * FileLength)))} :
          \E r \in {InternalSeek(e, InternalTell(Position))} :
            /\ told' = [told EXCEPT !.size = IF class = "gzip" THEN FileLength ELSE e.seekpos]
            /\ SetPosition(r.f) /\ Fail' = r.fails /\ HitEof' = FALSE

Next ==
  \/ \E n \in 1..FileLength, actual \in BOOLEAN : Read(n, actual)
  \/ \E size \in 2..FileLength : ReadLine(size)
  \/ Tell
  \/ \E n \in 0..FileLength : Skip(n)
  \/ \E n \in 0..FileLength : Seek(n)
  \/ Size

Spec == Init /\ [][Next]_ffvars

-----------------------------------------------------------------------------
(* The file stands where the sequence of calls put it, and Tell and Size   *)
(* answered the truth, whatever mixture of Read, ReadLine, Skip, Seek,     *)
(* Tell and Size was called: what a caller reads next is what it asked     *)
(* for. For streams this holds only as long as they are not asked for a    *)
(* position with part of a line buffered (fileutl.cc:1288, 2747, 2930).    *)
PositionExact ==
  ~Fail /\ ~mixed =>
    /\ off - buffered = caller
    /\ told.at = told.was
    /\ told.size = FileLength
=============================================================================
