----------------------------- MODULE HttpMethod -----------------------------
(***************************************************************************)
(* The http method (methods/basehttp.cc, methods/http.cc) between apt and  *)
(* a server: the queue of requests and its pipeline, the answers of the    *)
(* server as a stream of headers and data, partial files, ranges, retries. *)
(* A file is a sequence of blocks and its hash is that sequence. The       *)
(* server is external: it may answer any request in the ways HTTP knows,   *)
(* in the wrong order too, and the connection may break at any point.      *)
(***************************************************************************)
EXTENDS Integers, Sequences, FiniteSets, SequencesExt

CONSTANTS
  Items,         \* the files there are
  Wishes,        \* sequences of files apt may ask for
  Size,          \* item -> its number of blocks
  Hashed,        \* the items whose hashes apt knows
  Known,         \* the items apt has an older version of (LastModified)
  Parts,         \* item -> the partial files that may be there at the start
  PipelineDepth, \* Acquire::http::Pipeline-Depth
  Proxy, Tls,    \* kind of the proxy ("none", "socks5h", "http", "https", "other"), whether the server speaks https
  MaxRedirects,  \* bound: redirections the server sends
  Disorder       \* {FALSE}, or BOOLEAN if the server, or a proxy, may mix up the answers of a pipeline

VARIABLES
  stdin,             \* what apt asks for and the method has not read
  Queue, QueueBack,  \* the method's requests; the position of the first one that is not sent
  Server,            \* ServerState, and whether its connection is open
  conn,              \* the connection: [pending, in, closed] requests to answer, stream to the method, closed by the server
  Req,               \* RequestState
  FailCounter,
  files,             \* item -> the blocks of its DestFile
  answers,           \* item -> the final messages sent to apt
  redirects,
  setup,             \* constant: the files and the wish at the start, whether the server mixes up its answers
  pc                 \* "loop", "headers", "data", "finish"

mvars == <<Queue, QueueBack, Server, Req, FailCounter, files, answers, pc>>
vars  == <<stdin, conn, redirects, setup, mvars>>

ASSUME HttpAssumption ==
  /\ PipelineDepth \in Nat /\ MaxRedirects \in Nat /\ Disorder \subseteq BOOLEAN
  /\ \A i \in Items : Size[i] \in Nat \ {0}

Its(i)   == [k \in 1..Size[i] |-> [of |-> i, nr |-> k]]
Junk     == [of |-> "page", nr |-> 0]
Zero     == [of |-> "hole", nr |-> 0]
Usable(i) == i \in Hashed

NoConn == [pending |-> <<>>, in |-> <<>>, closed |-> FALSE]
NoServer ==
  [here |-> FALSE, open |-> FALSE, Persistent |-> FALSE, Pipeline |-> FALSE, PipelineAllowed |-> TRUE,
   PipelineAnswersReceived |-> 0, RangesAllowed |-> TRUE]
\* after a first answer, which allows the pipeline
InUse == [NoServer EXCEPT !.here = TRUE, !.open = TRUE, !.Persistent = TRUE, !.Pipeline = TRUE, !.PipelineAnswersReceived = 1]
NewReq == [Result |-> 0, left |-> 0, enc |-> "Closes", to |-> "none", hash |-> <<>>, then |-> "none", result |-> "none", max |-> 0]

Init ==
  /\ stdin \in Wishes /\ Queue = <<>> /\ QueueBack = 1 /\ conn = NoConn
  /\ Req = NewReq /\ FailCounter = 0 /\ answers = [i \in Items |-> <<>>] /\ redirects = 0 /\ pc = "loop"
  /\ files \in {f \in [Items -> UNION {Parts[i] : i \in Items}] : \A i \in Items : f[i] \in Parts[i]}
  /\ setup \in [files : {files}, wish : {stdin}, mixes : Disorder]
  /\ Server = IF setup.mixes THEN InUse ELSE NoServer

-----------------------------------------------------------------------------
(* The server (external) *)

Header(code, enc, len, body) ==
  [code |-> code, enc |-> enc, len |-> len, start |-> 0, have |-> IF body = <<>> THEN "FALSE" ELSE "TRUE",
   close |-> FALSE, continue |-> FALSE, http10 |-> FALSE, noranges |-> FALSE, body |-> body]

\* what may be said to a request [item, start, ims]; len is Content-Length, or 0 without one
Replies(r) ==
  LET data == Its(r.item)
      n    == Size[r.item]
      full == Header(200, "Stream", n, data)
  IN {full, [full EXCEPT !.close = TRUE], [full EXCEPT !.continue = TRUE], [full EXCEPT !.http10 = TRUE, !.close = TRUE],
      Header(200, "Chunked", 0, data),
      [Header(200, "Closes", 0, data) EXCEPT !.close = TRUE],
      Header(404, "Stream", 0, <<>>), Header(503, "Stream", 1, <<Junk>>)}
     \cup (IF r.start \in 1..(n - 1)
           THEN LET part == [Header(206, "Stream", n - r.start, SubSeq(data, r.start + 1, n)) EXCEPT !.start = r.start]
                IN {part, [part EXCEPT !.noranges = TRUE]} ELSE {})
     \cup (IF r.start >= n THEN {Header(416, "Stream", 1, <<Junk>>), [Header(416, "Stream", 0, <<>>) EXCEPT !.noranges = TRUE]} ELSE {})
     \cup (IF r.ims THEN {Header(304, "Stream", 0, <<>>)} ELSE {})
     \cup (IF redirects < MaxRedirects THEN {Header(302, "Stream", 1, <<Junk>>)} ELSE {})

HeaderToken(h, i) == [t |-> "header", h |-> h, b |-> Zero, of |-> i]
Token(kind, b, i) == [t |-> kind, h |-> NoConn, b |-> b, of |-> i]

\* "100 Continue" may come before an answer
Tokens(h, i) ==
  (IF h.continue THEN <<HeaderToken([h EXCEPT !.code = 100], i)>> ELSE <<>>) \o <<HeaderToken(h, i)>> \o [k \in DOMAIN h.body |-> Token("data", h.body[k], i)]
  \o (IF h.enc = "Chunked" THEN <<Token("end", Zero, i)>> ELSE <<>>)

ServerAnswers ==
  /\ Server.open /\ ~conn.closed /\ conn.pending # <<>>
  /\ \E j \in {k \in 1..2 : k <= Len(conn.pending) /\ (k = 1 \/ setup.mixes)} : \E h \in Replies(conn.pending[j]) :
       /\ conn' = [pending |-> RemoveAt(conn.pending, j), in |-> conn.in \o Tokens(h, conn.pending[j].item), closed |-> h.close]
       /\ redirects' = redirects + (IF h.code = 302 THEN 1 ELSE 0)
  /\ UNCHANGED <<stdin, setup, mvars>>

\* the connection breaks; what has not been read may be lost
Break ==
  /\ Server.open /\ ~conn.closed
  /\ \E k \in 0..Len(conn.in) : conn' = [pending |-> <<>>, in |-> SubSeq(conn.in, 1, k), closed |-> TRUE]
  /\ UNCHANGED <<stdin, redirects, setup, mvars>>

-----------------------------------------------------------------------------
(* The queue. s carries what Fetch changes: [q, back, pending, files, answers, depth, stop] *)

Final(kind, i, h, f, transient) == [kind |-> kind, hash |-> h, file |-> f, transient |-> transient]

\* SendReq: a partial file is asked to be continued
Request(s, i) ==
  LET part == Server.RangesAllowed /\ s.files[i] # <<>>
  IN [item |-> i, start |-> IF part THEN Len(s.files[i]) ELSE 0, ims |-> ~part /\ i \in Known]

SendReq(s, i) == [s EXCEPT !.pending = Append(@, Request(s, i)), !.back = @ + 1, !.depth = @ + 1]

\* a file that is already there is done at once: it is moved to the front, where URIDone dequeues it
AlreadyThere(s, i) ==
  [s EXCEPT !.q = RemoveAt(@, s.back), !.answers[i] = Append(@, Final("done", i, s.files[i], s.files[i], FALSE))]

FetchOne(s) ==
  LET i == s.q[s.back]
  IN IF s.depth # 0 /\ ~Usable(i) THEN [s EXCEPT !.stop = TRUE]
     ELSE IF Usable(i) /\ Len(s.files[i]) = Size[i]
          THEN IF s.files[i] = Its(i) THEN AlreadyThere(s, i) ELSE SendReq([s EXCEPT !.files[i] = <<>>], i)
     ELSE SendReq(s, i)

AllowedDepth(sv) == IF sv.Pipeline THEN PipelineDepth ELSE 0

FetchStart(q, back, pending) ==
  [q |-> q, back |-> back, pending |-> pending, files |-> files, answers |-> answers, depth |-> back - 1, stop |-> FALSE]

Fetch(s, sv) ==
  FoldLeft(LAMBDA acc, k : IF acc.stop \/ acc.depth > AllowedDepth(sv) \/ acc.back > Len(acc.q) THEN acc ELSE FetchOne(acc),
           s, s.q)

Fetched(s) == Queue' = s.q /\ QueueBack' = s.back /\ files' = s.files /\ answers' = s.answers

\* pkgAcqMethod::Run(true) reads a 600 message; Go() does so in the middle of a transfer as well
Run ==
  /\ pc # "finish" /\ stdin # <<>> /\ stdin' = Tail(stdin)
  /\ \E s \in {FetchStart(Append(Queue, stdin[1]), QueueBack, conn.pending)} :
       \E r \in {IF Server.here THEN Fetch(s, Server) ELSE s} :
         Fetched(r) /\ conn' = [conn EXCEPT !.pending = r.pending]
  /\ UNCHANGED <<redirects, setup, Server, Req, FailCounter, pc>>

\* a final message for the first request, which leaves the queue
Answer(a) ==
  /\ answers' = [answers EXCEPT ![Queue[1]] = Append(@, a)]
  /\ Queue' = Tail(Queue) /\ QueueBack' = IF QueueBack = 1 THEN 1 ELSE QueueBack - 1

Fail(transient) == Answer(Final("fail", Queue[1], <<>>, <<>>, transient))

-----------------------------------------------------------------------------
(* Loop *)

\* a server that said it closes is closed here; Open() starts with empty buffers
Ready(sv) == [sv EXCEPT !.open = @ /\ sv.Persistent, !.here = TRUE,
                        !.PipelineAnswersReceived = IF sv.open /\ sv.Persistent THEN @ ELSE 0]

\* fills the pipeline, and waits for headers even if every file was there already
\* mutant: the requests sent on the lost connection are not sent again
LoopKeepsQueueBack ==
  /\ pc = "loop" /\ Queue # <<>>
  /\ \E sv \in {[Ready(Server) EXCEPT !.open = TRUE, !.Persistent = TRUE]} :
       \E r \in {Fetch(FetchStart(Queue, QueueBack, IF Ready(Server).open THEN conn.pending ELSE <<>>), sv)} :
         /\ Server' = sv /\ Fetched(r)
         /\ conn' = IF Ready(Server).open THEN [conn EXCEPT !.pending = r.pending] ELSE [NoConn EXCEPT !.pending = r.pending]
  /\ pc' = "headers"
  /\ UNCHANGED <<stdin, redirects, setup, Req, FailCounter>>

Loop ==
  /\ pc = "loop" /\ Queue # <<>>
  /\ \E sv \in {[Ready(Server) EXCEPT !.open = TRUE, !.Persistent = TRUE]} :
       \E r \in {Fetch(FetchStart(Queue, IF Ready(Server).open THEN QueueBack ELSE 1,
                                  IF Ready(Server).open THEN conn.pending ELSE <<>>), sv)} :
         /\ Server' = sv /\ Fetched(r)
         /\ conn' = IF Ready(Server).open THEN [conn EXCEPT !.pending = r.pending] ELSE [NoConn EXCEPT !.pending = r.pending]
  /\ pc' = "headers"
  /\ UNCHANGED <<stdin, redirects, setup, Req, FailCounter>>

\* the steps of Open(), and the errors each may return
OpenSteps ==
  (IF Proxy = "socks5h" THEN {"Connect", "UnwrapSocks"}
   ELSE IF Proxy = "other" THEN {"Unsupported"}
   ELSE {"Connect"} \cup (IF Proxy = "https" THEN {"UnwrapTLS"} ELSE {})
                    \cup (IF Proxy \in {"http", "https"} /\ Tls THEN {"UnwrapHTTPConnect"} ELSE {}))
  \cup (IF Tls THEN {"UnwrapTLS"} ELSE {})

OpenErrors(step) ==
  IF step = "UnwrapHTTPConnect" THEN {"TRANSIENT_ERROR"}
  ELSE IF step = "Unsupported" THEN {"FATAL_ERROR"} ELSE {"TRANSIENT_ERROR", "FATAL_ERROR"}

CannotConnect ==
  /\ pc = "loop" /\ Queue # <<>> /\ ~Ready(Server).open
  /\ \E step \in OpenSteps : \E error \in OpenErrors(step) :
       answers' = [answers EXCEPT ![Queue[1]] = Append(@, Final("fail", Queue[1], <<>>, <<>>, error = "TRANSIENT_ERROR"))]
  /\ Queue' = Tail(Queue) /\ QueueBack' = 1 /\ Server' = NoServer /\ conn' = NoConn
  /\ UNCHANGED <<stdin, redirects, setup, Req, FailCounter, files, pc>>

-----------------------------------------------------------------------------
(* RunHeaders and HeaderLine *)

Closed(sv) == [sv EXCEPT !.open = FALSE]

\* the status line, then the header fields
HeaderLines(sv, h) ==
  LET status == [sv EXCEPT !.Persistent = ~h.http10, !.Pipeline = IF ~h.http10 /\ sv.PipelineAllowed THEN TRUE ELSE @]
      few    == h.code \in 200..299 /\ sv.PipelineAnswersReceived < 3
      closes == IF h.close
                THEN [status EXCEPT !.Persistent = FALSE, !.Pipeline = FALSE, !.PipelineAllowed = @ /\ ~few,
                                    !.PipelineAnswersReceived = IF few THEN 0 ELSE @]
                ELSE status
      ranges == [closes EXCEPT !.RangesAllowed = @ /\ ~h.noranges]
  IN IF h.enc = "Closes" /\ h.have = "TRUE" THEN [ranges EXCEPT !.Persistent = FALSE] ELSE ranges

\* after "100 Continue" the next status line is not taken for one, as Result is set
Continue ==
  /\ pc = "headers" /\ Queue # <<>> /\ conn.in # <<>> /\ conn.in[1].t = "header" /\ conn.in[1].h.code = 100 /\ Req.Result = 0
  /\ Req' = [Req EXCEPT !.Result = 100] /\ conn' = [conn EXCEPT !.in = Tail(@)]
  /\ UNCHANGED <<stdin, redirects, setup, Queue, QueueBack, Server, FailCounter, files, answers, pc>>

\* bytes that are no header: the rest of an answer that was not read
BadHeader ==
  /\ pc = "headers" /\ Queue # <<>> /\ conn.in # <<>> /\ (conn.in[1].t # "header" \/ Req.Result # 0)
  /\ Fail(TRUE) /\ Server' = Closed(Server) /\ conn' = NoConn /\ Req' = NewReq /\ pc' = "loop"
  /\ UNCHANGED <<stdin, redirects, setup, FailCounter, files>>

\* nothing comes in time, or the server has closed the connection; without a request the failure is about <UNKNOWN>
\* mutant: lost connections are not counted
NoHeadersForever ==
  /\ pc = "headers" /\ (conn.closed => conn.in = <<>>)
  /\ Server' = [Closed(Server) EXCEPT !.Pipeline = FALSE, !.PipelineAllowed = FALSE]
  /\ conn' = NoConn /\ Req' = NewReq /\ pc' = "loop"
  /\ UNCHANGED <<stdin, redirects, setup, files, FailCounter, answers, Queue, QueueBack>>

NoHeaders ==
  /\ pc = "headers" /\ (conn.closed => conn.in = <<>>)
  /\ FailCounter' = (FailCounter + 1) % 2
  /\ IF FailCounter' = 0 /\ Queue # <<>> THEN Fail(TRUE) ELSE UNCHANGED <<answers, Queue, QueueBack>>
  /\ Server' = [Closed(Server) EXCEPT !.Pipeline = FALSE, !.PipelineAllowed = FALSE]
  /\ conn' = NoConn /\ Req' = NewReq /\ pc' = "loop"
  /\ UNCHANGED <<stdin, redirects, setup, files>>

-----------------------------------------------------------------------------
(* DealWithHeaders *)

\* FindMaximumObjectSizeInQueue: 0 if there is no limit
MaximumSize ==
  LET sent == {Queue[k] : k \in 1..(QueueBack - 1)}
  IN IF \E i \in sent : ~Usable(i) THEN 0 ELSE CHOOSE m \in {Size[i] : i \in sent} : \A i \in sent : Size[i] <= m

\* ftruncate: a file that is shorter gets a hole
Truncated(f, n) == [k \in 1..n |-> IF k <= Len(f) THEN f[k] ELSE Zero]

\* the data goes to "file", or to "null" before the message then is sent
Reads(h, to, then) ==
  [NewReq EXCEPT !.Result = h.code, !.left = h.len, !.enc = h.enc, !.to = to, !.then = then, !.max = IF to = "file" THEN MaximumSize ELSE 0]

\* no request in the pipeline can be answered by this size
Unexpected(h) ==
  /\ h.len > 0
  /\ \A k \in 1..(QueueBack - 1) : Usable(Queue[k]) /\ Size[Queue[k]] # h.start + h.len

Transient(code) == code = 503

\* a page is flushed only if the connection goes on
Page(h, then) ==
  Req' = IF h.have = "TRUE" /\ Server'.Persistent THEN Reads(h, "null", then) ELSE [Reads(h, "null", then) EXCEPT !.result = "SUCCESSFUL"]

Headers ==
  /\ pc = "headers" /\ Queue # <<>> /\ conn.in # <<>> /\ conn.in[1].t = "header" /\ conn.in[1].h.code # 100 /\ Req.Result = 0
  /\ Server' = HeaderLines(Server, conn.in[1].h)
  /\ conn' = [conn EXCEPT !.in = Tail(@)]
  /\ LET h == conn.in[1].h
         i == Queue[1]
         retry == (~Server'.RangesAllowed /\ h.code \in {416, 206}) \/ (h.code = 416 /\ files[i] # <<>> /\ Usable(i) /\ files[i] # Its(i))
                  \/ (h.code = 416 /\ files[i] # <<>> /\ ~Usable(i) /\ Len(files[i]) # Size[i])
         there == h.code = 416 /\ ~retry /\ files[i] # <<>>
     IN \/ /\ h.code = 304 /\ Req' = [NewReq EXCEPT !.then = "ims", !.result = "SUCCESSFUL"] /\ files' = [files EXCEPT ![i] = <<>>]
        \/ h.code = 302 /\ Page(h, "redirect") /\ UNCHANGED files
        \/ retry /\ Page(h, "redirect") /\ files' = [files EXCEPT ![i] = <<>>]
        \* the file was complete already
        \/ /\ there /\ Req' = (IF h.have = "TRUE" /\ Server'.Persistent THEN [Reads(h, "null", "file") EXCEPT !.hash = files[i]]
                               ELSE [Reads(h, "null", "file") EXCEPT !.hash = files[i], !.result = "SUCCESSFUL"])
           /\ UNCHANGED files
        \/ /\ h.code \in {404, 503} \/ (h.code = 416 /\ ~retry /\ ~there)
           /\ Page(h, IF h.have = "TRUE" /\ Transient(h.code) THEN "transient" ELSE "fatal") /\ UNCHANGED files
        \/ /\ h.code \in {200, 206} /\ ~retry
           /\ files' = [files EXCEPT ![i] = Truncated(@, h.start)]
           /\ Req' = IF Unexpected(h) \/ (h.len > 0 /\ MaximumSize # 0 /\ h.len > MaximumSize)
                     THEN [Reads(h, "file", "file") EXCEPT !.result = "FATAL_ERROR"]
                     ELSE [Reads(h, "file", "file") EXCEPT !.hash = files'[i]]
  /\ pc' = IF Req'.result = "none" THEN "data" ELSE "finish"
  /\ UNCHANGED <<stdin, redirects, setup, Queue, QueueBack, FailCounter, answers>>

\* ERROR_NOT_FROM_SERVER: the file cannot be opened
CannotOpen ==
  /\ pc = "headers" /\ Queue # <<>> /\ conn.in # <<>> /\ conn.in[1].t = "header" /\ conn.in[1].h.code = 200 /\ Req.Result = 0
  /\ Fail(FALSE) /\ Server' = Closed(HeaderLines(Server, conn.in[1].h)) /\ conn' = NoConn
  /\ FailCounter' = 0 /\ Req' = NewReq /\ pc' = "loop"
  /\ UNCHANGED <<stdin, redirects, setup, files>>

-----------------------------------------------------------------------------
(* RunData *)

Ended(result) == Req' = [Req EXCEPT !.result = result] /\ pc' = "finish"

\* a block is written to the file and hashed on the way
Data ==
  /\ pc = "data" /\ conn.in # <<>> /\ conn.in[1].t = "data" /\ conn' = [conn EXCEPT !.in = Tail(@)]
  /\ files' = IF Req.to = "file" THEN [files EXCEPT ![Queue[1]] = Append(@, conn.in[1].b)] ELSE files
  /\ LET done == Req.enc = "Stream" /\ Req.left = 1
         big  == Req.to = "file" /\ Req.max # 0 /\ Len(files'[Queue[1]]) > Req.max
     IN /\ Req' = [Req EXCEPT !.hash = IF Req.to = "file" THEN Append(@, conn.in[1].b) ELSE @,
                              !.left = IF Req.enc = "Stream" THEN @ - 1 ELSE @,
                              !.result = IF big THEN "FATAL_ERROR" ELSE IF done THEN "SUCCESSFUL" ELSE "none"]
        /\ pc' = IF big \/ done THEN "finish" ELSE "data"
  /\ UNCHANGED <<stdin, redirects, setup, Queue, QueueBack, Server, FailCounter, answers>>

ChunksEnd ==
  /\ pc = "data" /\ conn.in # <<>> /\ conn.in[1].t = "end" /\ conn' = [conn EXCEPT !.in = Tail(@)] /\ Ended("SUCCESSFUL")
  /\ UNCHANGED <<stdin, redirects, setup, Queue, QueueBack, Server, FailCounter, files, answers>>

\* Die(): the loss of the connection ends RunData, one more Go() says with which result
Die ==
  /\ pc = "data" /\ conn.in = <<>> /\ conn.closed /\ Ended("TRANSIENT_ERROR")
  /\ Server' = Closed(Server) /\ conn' = NoConn
  /\ UNCHANGED <<stdin, redirects, setup, Queue, QueueBack, FailCounter, files, answers>>

\* the next bytes are late; the connection stays open
TimedOut ==
  /\ pc = "data" /\ ~conn.closed /\ Ended("TRANSIENT_ERROR")
  /\ UNCHANGED <<stdin, redirects, setup, conn, Queue, QueueBack, Server, FailCounter, files, answers>>

-----------------------------------------------------------------------------
(* The rest of Loop: what is said to apt *)

\* the request behind it that these data are the answer to, 0 if there is none
Meant(hash) ==
  LET ks == {k \in 2..(QueueBack - 1) : Usable(Queue[k]) /\ Its(Queue[k]) = hash}
  IN IF PipelineDepth = 0 \/ ~Usable(Queue[1]) \/ Its(Queue[1]) = hash \/ ks = {} THEN 0
     ELSE CHOOSE k \in ks : \A j \in ks : k <= j

\* the server messed up the pipeline: the file is given to that request, which comes first now
Moved(k) ==
  /\ files' = [files EXCEPT ![Queue[k]] = files[Queue[1]], ![Queue[1]] = <<>>]
  /\ answers' = [answers EXCEPT ![Queue[k]] = Append(@, Final("done", Queue[k], Req.hash, files[Queue[1]], FALSE))]
  /\ Queue' = RemoveAt(Queue, k) /\ QueueBack' = QueueBack - 1

FileDone ==
  /\ pc = "finish" /\ Req.then = "file" /\ (Req.result = "SUCCESSFUL" \/ Req.to = "null")
  /\ \E k \in {Meant(Req.hash)} :
       /\ IF k = 0 THEN Answer(Final("done", Queue[1], Req.hash, files[Queue[1]], FALSE)) /\ UNCHANGED files ELSE Moved(k)
       /\ Server' = IF k # 0 /\ Server.Pipeline THEN [Server EXCEPT !.Pipeline = FALSE, !.PipelineAllowed = FALSE]
                    ELSE [Server EXCEPT !.PipelineAnswersReceived = IF Server.Pipeline /\ @ < 3 THEN @ + 1 ELSE @]
  /\ FailCounter' = 0 /\ Req' = NewReq /\ pc' = "loop"
  /\ UNCHANGED <<stdin, redirects, setup, conn>>

FileFails ==
  /\ pc = "finish" /\ Req.then = "file" /\ Req.result # "SUCCESSFUL" /\ Req.to = "file"
  /\ Answer(Final("fail", Queue[1], <<>>, <<>>, Req.result = "TRANSIENT_ERROR"))
  /\ Server' = [Closed(Server) EXCEPT !.PipelineAnswersReceived = IF Server.open THEN @ ELSE 0]
  /\ conn' = NoConn /\ FailCounter' = 0 /\ Req' = NewReq /\ pc' = "loop"
  /\ UNCHANGED <<stdin, redirects, setup, files>>

\* apt asks again for what was redirected. IMS_HIT, the errors with or without a page, TRY_AGAIN_OR_REDIRECT; the result of flushing the page is not looked at
OtherDone ==
  /\ pc = "finish" /\ Req.then # "file"
  /\ Answer(Final(IF Req.then \in {"transient", "fatal"} THEN "fail" ELSE Req.then, Queue[1], <<>>, <<>>, Req.then = "transient"))
  /\ stdin' = IF Req.then = "redirect" THEN Append(stdin, Queue[1]) ELSE stdin
  /\ FailCounter' = 0 /\ Req' = NewReq /\ pc' = "loop"
  /\ UNCHANGED <<redirects, setup, conn, Server, files>>

Method ==
  \/ Run \/ Loop \/ CannotConnect \/ Continue \/ BadHeader \/ NoHeaders \/ Headers \/ CannotOpen
  \/ Data \/ ChunksEnd \/ Die \/ TimedOut \/ FileDone \/ FileFails \/ OtherDone

\* nothing is left to fetch, and apt closes the method's stdin
Idle == stdin = <<>> /\ Queue = <<>> /\ UNCHANGED vars

Next == ServerAnswers \/ Break \/ Method \/ Idle

\* the server and the network owe nothing: timeouts are part of the method
Spec == Init /\ [][Next]_vars /\ WF_vars(Method)

-----------------------------------------------------------------------------
(* Properties *)

AnswersFor(i, kinds) == SelectSeq(answers[i], LAMBDA a : a.kind \in kinds)

\* PipelineAligned: while the method waits for headers on an open connection
\* (RunHeaders), the answers still to come on it are exactly those to the
\* requests before QueueBack, so the next header belongs to a request of the
\* pipeline whatever was retried, moved, failed or done without being sent.
PipelineAligned ==
  (pc = "headers" /\ Server.open /\ ~conn.closed) =>
    QueueBack - 1 = Len(conn.pending) + Len(SelectSeq(conn.in, LAMBDA t : t.t = "header" /\ t.h.code # 100))

\* whether a mistake of the network or an old partial file can be excluded, or is repaired by the method
Repairable ==
  IF setup.mixes
  THEN \A i \in ToSet(setup.wish) : i \in Hashed /\ setup.files[i] = <<>> /\ AnswersFor(i, {"fail", "redirect", "ims"}) = <<>>
  ELSE \A i \in Items : IsPrefix(setup.files[i], Its(i))

\* DoneIsRight: what URIDone reports as hash is what is in the file; and a
\* file with known hashes is reported as done only with the right data, if
\* its partial files were good or, where the server or a proxy mixes up the
\* answers of the pipeline (the fixup in Loop), there were none, every
\* request has hashes and none was answered in another way.
DoneIsRight ==
  \A i \in Items : \A k \in DOMAIN answers[i] :
    answers[i][k].kind = "done" =>
      /\ answers[i][k].hash = answers[i][k].file
      /\ i \in Hashed /\ Repairable => answers[i][k].hash = Its(i)

\* AllAnswered: every request gets one answer that is not a redirection, and
\* never a second one, with lost connections, timeouts, servers that close
\* after each answer and requests that are sent again (Loop, Fetch).
AllAnswered ==
  \A i \in Items :
    /\ [](Len(AnswersFor(i, {"done", "fail", "ims"})) <= 1)
    /\ <>(i \in ToSet(setup.wish) => Len(AnswersFor(i, {"done", "fail", "ims"})) = 1)

\* Each answer of a pipeline, retried, resumed or mixed up as it may be, ends up
\* in the file of its request.
AnswersMatch == PipelineAligned /\ DoneIsRight
=============================================================================
