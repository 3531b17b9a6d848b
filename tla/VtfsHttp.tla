------------------------------ MODULE VtfsHttp ------------------------------
(***************************************************************************)
(* Calls of vtfs_http_call, one after the other: the client with its       *)
(* socket and its buffers, the server, and the connection between them,    *)
(* which brings the answer in pieces and can end or break at any moment.   *)
(* Of an answer only its status and the lengths of head and body count; of *)
(* a request, what encode and the formats of modes do to what it says.     *)
(***************************************************************************)
EXTENDS Integers, VtfsCodec

CONSTANTS Word,         \* sizeof(int64_t): every body begins with an error code
          Buffer,       \* buffer_size: what the caller gives for the body
          Slack,        \* what the raw buffer has on top of it, for the head
          Answers,      \* answers: records of status, head and body lengths
          Bytes,        \* byte values that programs write
          MaxLen,       \* BOUND: bytes of one write
          Behind,       \* what may lie in memory behind the copy of a write
          Modes         \* mode bits that programs give to files and directories

\* An answer has lengths; a file's mode keeps its nine lowest bits (mode & 0777).
ASSUME SizesAssumption   == /\ Word \in Nat \ {0} /\ Buffer \in Nat /\ Slack \in Nat
                            /\ MaxLen \in Nat
ASSUME AnswersAssumption == Answers \subseteq [status : Nat, head : Nat \ {0}, body : Nat]
ASSUME BytesAssumption   == Bytes \subseteq 0 .. 255
ASSUME ModesAssumption   == Modes \subseteq 0 .. 511

VARIABLES pc,           \* what the client does next
          sock, request, raw,  \* its resources: "none", "held" or "released"
          sent,         \* what the request says, until it is released
          read,         \* bytes that receive_all has put into the raw buffer
          ret,          \* what vtfs_http_call returns
          delivered,    \* the whole request has reached the server
          answer,       \* the answer of the server, once its transaction is done
          arrived,      \* bytes of it that have come through the connection
          line          \* the connection: "open", "closed" or "reset"

client == <<pc, sock, request, raw, sent, read, ret>>
server == <<delivered, answer, arrived, line>>
vars   == <<client, server>>

ENOMEM == -12
ENOSPC == -28
NoRequest == [kind |-> "none"]
Nothing == [status |-> 0, head |-> 0, body |-> 0]
States == {"none", "held", "released"}
Steps  == {"create", "connect", "fill", "send", "alloc", "receive", "shutdown", "parse",
           "done", "oops"}

Init == /\ pc = "create"
        /\ sock = "none" /\ request = "none" /\ raw = "none"
        /\ sent = NoRequest /\ read = 0 /\ ret = 0
        /\ delivered = FALSE /\ answer = Nothing /\ arrived = 0 /\ line = "open"

Total == answer.head + answer.body

-----------------------------------------------------------------------------
(* vtfs_http_call *)

\* Fault: a call that is not connected tries again.
Fail_Retries(code) ==
  IF code = -2 THEN pc' = "create" /\ ret' = 0 ELSE pc' = "done" /\ ret' = code

Fail(code) == pc' = "done" /\ ret' = code

CreateSocket ==
  /\ pc = "create"
  /\ \/ pc' = "connect" /\ sock' = "held" /\ UNCHANGED ret
     \/ Fail(-1) /\ UNCHANGED sock
  /\ UNCHANGED <<request, raw, sent, read, server>>

Connect ==
  /\ pc = "connect"
  /\ \/ pc' = "fill" /\ UNCHANGED <<sock, ret>>
     \/ Fail(-2) /\ sock' = "released"
  /\ UNCHANGED <<request, raw, sent, read, server>>

\* What a request says, in the form it has in the URL: the data of a write or the
\* mode of a file or directory to be made.  encode gets no length: it goes on
\* behind the copy that vtfs_write has made, until a zero byte.
Encoding(s, z) == Encode(CString(s \o <<z, 0>>))

Writes == UNION {[1 .. n -> Bytes] : n \in 1 .. MaxLen}

WriteRequests ==
  {[kind |-> "write", bytes |-> s, behind |-> z, data |-> Encoding(s, z)] :
     s \in Writes, z \in Behind}

CreateRequests ==
  {[kind |-> "create", dir |-> isDir, mode |-> m, text |-> AsDecimal(m)] : m \in Modes, isDir \in BOOLEAN}

FillRequest ==
  /\ pc = "fill"
  /\ \/ /\ pc' = "send" /\ request' = "held"
        /\ sent' \in WriteRequests \cup CreateRequests
        /\ UNCHANGED <<sock, ret>>
     \/ Fail(ENOMEM) /\ sock' = "released" /\ UNCHANGED <<request, sent>>
  /\ UNCHANGED <<raw, read, server>>

\* Fault: the request is freed only when it could not be sent.
Send_KeepsRequest ==
  /\ pc = "send"
  /\ \/ /\ pc' = "alloc"
        /\ delivered' \in BOOLEAN
        /\ UNCHANGED <<sock, request, ret>>
     \/ /\ Fail(-3)
        /\ sock' = "released" /\ request' = "released"
        /\ UNCHANGED delivered
  /\ UNCHANGED <<raw, sent, read, answer, arrived, line>>

\* kernel_sendmsg may send a part only, and that is not an error.
Send ==
  /\ pc = "send"
  /\ request' = "released" /\ sent' = NoRequest
  /\ \/ /\ pc' = "alloc"
        /\ delivered' \in BOOLEAN
        /\ UNCHANGED <<sock, ret>>
     \/ Fail(-3) /\ sock' = "released" /\ UNCHANGED delivered
  /\ UNCHANGED <<raw, read, answer, arrived, line>>

AllocRaw ==
  /\ pc = "alloc"
  /\ \/ pc' = "receive" /\ raw' = "held" /\ UNCHANGED <<sock, ret>>
     \/ Fail(ENOMEM) /\ sock' = "released" /\ UNCHANGED raw
  /\ UNCHANGED <<request, sent, read, server>>

\* Fault: no room for the head.
RawSize_NoSlack == Buffer

RawSize == Buffer + Slack

\* Fault: every call of kernel_recvmsg is offered the whole buffer's length.
Limit_Whole == IF arrived < read + RawSize THEN arrived ELSE read + RawSize

\* As much as one call of kernel_recvmsg can bring read to.
Limit == IF arrived < RawSize THEN arrived ELSE RawSize

\* kernel_recvmsg returns 0.
AtEnd == line = "closed" /\ read = arrived

\* receive_all: a call of kernel_recvmsg that returns some bytes, or the end of
\* the loop.  A broken connection loses what has not been read.  A call may fail
\* at any time (no memory, a signal while it waits), and with it all that was read.
Receive ==
  /\ pc = "receive"
  /\ \/ /\ read < RawSize /\ read < arrived /\ line # "reset"
        /\ read' \in read + 1 .. Limit
        /\ UNCHANGED <<pc, ret>>
     \/ /\ read = RawSize \/ AtEnd
        /\ pc' = "shutdown"
        /\ UNCHANGED <<read, ret>>
     \/ /\ read < RawSize
        /\ pc' = "shutdown" /\ ret' = -4
        /\ UNCHANGED read
  /\ UNCHANGED <<sock, request, raw, sent, server>>

Shutdown ==
  /\ pc = "shutdown"
  /\ sock' = "released"
  /\ IF ret < 0 THEN pc' = "done" /\ raw' = "released"
     ELSE pc' = "parse" /\ UNCHANGED raw
  /\ UNCHANGED <<request, sent, read, ret, server>>

\* Where parse_http_response is when strsep meets a zero byte and not the end of a
\* line: it takes the NULL for the end of a head and goes on at NULL + 1.
Null == -1

\* What parse_http_response finds in a raw buffer with k bytes of the answer: a
\* length of -1 is none.  When the head is not complete it goes on into what an
\* earlier answer, or anything else, has left in the memory behind them: it may
\* find the end of a head there, or a zero byte behind the end of a line, and
\* before them a length, or none.
HeadsIn(k) ==
  IF answer # Nothing /\ k >= answer.head
  THEN {[status |-> answer.status, end |-> answer.head, body |-> answer.body]}
  ELSE [status : {0, 200}, end : {Null} \cup (k + 1 .. RawSize + 1), body : -1 .. RawSize + Word]

\* A body at NULL + 1 lies before the end of every buffer.
Missing(h, k) == h.end # Null /\ h.end + h.body > k

\* Fault: the body need not have arrived.
Result_Partial(h, k) ==
  IF h.status # 200 THEN -5
  ELSE IF h.body = -1 THEN -6
  ELSE IF h.body < Word THEN -7
  ELSE IF h.body - Word > Buffer THEN ENOSPC
  ELSE h.body

\* The checks of parse_http_response: bytes to copy to the caller, or an error
Result(h, k) ==
  IF h.status # 200 THEN -5
  ELSE IF h.body = -1 \/ Missing(h, k) THEN -6
  ELSE IF h.body < Word THEN -7
  ELSE IF h.body - Word > Buffer THEN ENOSPC
  ELSE h.body

\* A copy from NULL + 1 is an oops: the thread goes no further.
Parse ==
  /\ pc = "parse"
  /\ \E h \in HeadsIn(read) :
       IF h.end = Null /\ Result(h, read) >= 0
       THEN pc' = "oops" /\ UNCHANGED <<raw, ret>>
       ELSE Fail(Result(h, read)) /\ raw' = "released"
  /\ UNCHANGED <<sock, request, sent, read, server>>

Client == CreateSocket \/ Connect \/ FillRequest \/ Send \/ AllocRaw \/ Receive \/ Shutdown \/ Parse

-----------------------------------------------------------------------------
(* The server and the connection *)

Serve ==
  /\ delivered /\ answer = Nothing /\ line = "open"
  /\ answer' \in Answers
  /\ UNCHANGED <<client, delivered, arrived, line>>

Arrive ==
  /\ line = "open" /\ arrived < Total
  /\ arrived' \in arrived + 1 .. Total
  /\ UNCHANGED <<client, delivered, answer, line>>

\* After its answer, as the request asks, or when it gives up; or it breaks.
Hangup ==
  /\ line = "open" /\ pc \in {"alloc", "receive", "shutdown", "parse"}
  /\ line' \in {"closed", "reset"}
  /\ UNCHANGED <<client, delivered, answer, arrived>>

Server == Serve \/ Arrive \/ Hangup

\* The next call of a handler, by another thread after an oops.
NextCall ==
  /\ pc \in {"done", "oops"}
  /\ pc' = "create"
  /\ sock' = "none" /\ request' = "none" /\ raw' = "none"
  /\ sent' = NoRequest /\ read' = 0 /\ ret' = 0
  /\ delivered' = FALSE /\ answer' = Nothing /\ arrived' = 0 /\ line' = "open"

Next == Client \/ Server \/ NextCall

Spec == Init /\ [][Next]_vars

\* The kernel goes on with a call; a server that runs answers and closes, and it
\* drops a connection on which no whole request comes.
FairSpec == Spec /\ WF_vars(Client) /\ WF_vars(Server)
-----------------------------------------------------------------------------
(* Properties *)

\* Type invariant.
TypeOK ==
  /\ pc \in Steps /\ {sock, request, raw} \subseteq States
  /\ sent.kind \in {"none", "write", "create"} /\ (sent # NoRequest => request = "held")
  /\ read \in 0 .. RawSize
  /\ ret \in {-1, -2, -3, -4, -5, -6, -7, ENOMEM, ENOSPC} \cup Nat
  /\ delivered \in BOOLEAN /\ answer \in Answers \cup {Nothing}
  /\ arrived \in 0 .. Total /\ line \in {"open", "closed", "reset"}

\* However a call returns, it leaves no socket and no buffer behind.
NothingHeld == pc = "done" => "held" \notin {sock, request, raw}

\* A result is given to the caller only when the transaction was carried out and
\* the whole body is there, wherever the connection ended and whatever earlier
\* answers have left in the memory behind the bytes received.  What is not so is
\* refused, or, when it was cut inside the head, may end the thread.
AcceptedIsWhole ==
  /\ pc = "done" /\ ret >= 0 =>
       answer # Nothing /\ answer.status = 200 /\ ret = answer.body /\ read >= Total
  /\ pc = "oops" => answer = Nothing \/ read < answer.head

\* An answer with a body that fits the caller's buffer, under a head that fits the
\* rest of the raw one, is never refused for what it says, nor cut short, when all
\* of it has come: only a call of kernel_recvmsg that fails loses it.
WholeIsAccepted ==
  /\ pc = "oops" \/ (pc = "done" /\ raw = "released")
  /\ answer.status = 200 /\ arrived = Total
  /\ answer.head <= Slack /\ answer.body \in Word .. Buffer
  => pc = "done" /\ ret \in {answer.body, -4}

\* Every call comes to an end, whatever the connection does: it returns, or its
\* thread has died in the parser.
CallEnds == pc \notin {"done", "oops"} ~> pc \in {"done", "oops"}

\* Bytes without a zero that a zero happens to follow, and whose encoding needs no
\* plus sign, reach the server as they are, whatever their number is modulo three.
\* No write of other bytes is promised that.
DecodesBack ==
  /\ sent.kind = "write"
  /\ \A i \in DOMAIN sent.bytes : sent.bytes[i] # 0
  /\ sent.behind = 0
  /\ \A j \in DOMAIN sent.data : sent.data[j] # Plus
  => Decode(InQuery(sent.data)) = sent.bytes

\* A directory is loaded as a directory and a file as a file, whatever becomes of
\* the mode bits on the way: no file's mode reaches the bit of directories.
KindSurvives ==
  sent.kind = "create" => (LoadedAsDir(Stored(sent.text, sent.dir)) <=> sent.dir)
=============================================================================
