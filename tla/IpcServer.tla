------------------------------ MODULE IpcServer ------------------------------
(***************************************************************************)
(* The hive's IPC server: lib/ipc/src/server.c with the callbacks that     *)
(* cmd/hive/main.c installs, run by one libuv loop.  Every callback is one *)
(* action.  The Unix sockets, libuv's streams and the peers are the        *)
(* environment: a peer may connect, write any documents of PeerDocuments   *)
(* in pieces and back to back, read or not read, and leave at any moment.  *)
(*                                                                         *)
(* A socket carries bytes, not messages: a document is as many segments as *)
(* the writes of a peer may be cut into, and one read takes what has       *)
(* arrived, up to the ReadMax segments of AllocBuffer's buffer.            *)
(***************************************************************************)
EXTENDS IpcMessage, Integers, FiniteSets

CONSTANTS
  Conns,          \* the connections that are ever made, one per peer
  PeerDocuments,  \* what peers may write
  Segments,       \* segments that a document with a given body takes
  ReadMax,        \* segments that fit in one read
  Backlog,        \* connections the kernel holds for accept (uv_listen's 128)
  SockRoom,       \* replies the kernel holds for a peer that does not read
  SigPipe,        \* the disposition the process was started with: nothing in
                  \* src/ changes it, and libuv writes with plain write(2)
  MaxMsgs,        \* bound: documents a peer writes
  MaxStray        \* bound: accept errors whose handles are closing at once

ASSUME IpcServerAssumption ==
  /\ PeerDocuments \subseteq Documents
  /\ Segments \in [Bodies -> Nat \ {0}]
  /\ {ReadMax, Backlog, SockRoom, MaxMsgs} \subseteq Nat \ {0}
  /\ SigPipe \in {"default", "ignored"}
  /\ MaxStray \in Nat

VARIABLES
  hive,      \* "up", or "exited" by exit(1) or by SIGPIPE
  backlog,   \* connections waiting for OnNewConnection, first come first
  stray,     \* handles closing that never got a connection
  peer,      \* a peer's end: "idle", "open" or "closed"
  sent,      \* the documents a peer has begun to write
  unsent,    \* segments of the last one that it has not written yet
  handle,    \* the IpcServerClient: "none", "reading", "closing", "freed"
  received,  \* the messages handed to OnPing or OnEvent, as decoded
  wq,        \* pongs given to uv_write that the kernel has not taken
  written,   \* write requests that succeeded, OnWrite still to be called
  failed,    \* write requests that failed, OnWrite still to be called
  leaked,    \* write requests that OnWrite gave up without freeing them
  replies,   \* the pongs the kernel has taken, in order
  taken      \* how many of them the peer has read

peerVars   == <<peer, sent, unsent, taken>>
acceptVars == <<hive, backlog, stray>>
writeVars  == <<wq, written, failed, leaked, replies>>
vars == <<acceptVars, peerVars, handle, received, writeVars>>

(* What a message callback gets to see of the decoded Message.              *)
Dispatched == [kind : {kPingKind, kEventKind}, body : Bodies]
Pong(body) == WriteMessage(InitPongMessage(body))
Pongs      == {Pong(body) : body \in Bodies}

TypeOK ==
  /\ hive \in {"up", "exited"}
  /\ backlog \in Seq(Conns)
  /\ stray \in Nat
  /\ peer \in [Conns -> {"idle", "open", "closed"}]
  /\ sent \in [Conns -> Seq(PeerDocuments)]
  /\ unsent \in [Conns -> Nat]
  /\ handle \in [Conns -> {"none", "reading", "closing", "freed"}]
  /\ received \in [Conns -> Seq(Dispatched)]
  /\ wq \in [Conns -> Seq(Pongs)]
  /\ written \in [Conns -> Nat]
  /\ failed \in [Conns -> Nat]
  /\ leaked \in [Conns -> Nat]
  /\ replies \in [Conns -> Seq(Pongs)]
  /\ taken \in [Conns -> Nat]

Init ==
  /\ hive = "up"
  /\ backlog = << >>
  /\ stray = 0
  /\ peer = [c \in Conns |-> "idle"]
  /\ sent = [c \in Conns |-> << >>]
  /\ unsent = [c \in Conns |-> 0]
  /\ handle = [c \in Conns |-> "none"]
  /\ received = [c \in Conns |-> << >>]
  /\ wq = [c \in Conns |-> << >>]
  /\ written = [c \in Conns |-> 0]
  /\ failed = [c \in Conns |-> 0]
  /\ leaked = [c \in Conns |-> 0]
  /\ replies = [c \in Conns |-> << >>]
  /\ taken = [c \in Conns |-> 0]

-----------------------------------------------------------------------------
(* The peers and the kernel between them and the hive.                      *)

SegmentsOf(doc) == Segments[DocumentBody(doc)]

(* The hive's end exists: a write reaches a buffer that may yet be read.    *)
Connected(c) == hive = "up" /\ peer[c] = "open" /\ handle[c] \in {"none", "reading"}

PeerConnect(c) ==
  /\ hive = "up"
  /\ peer[c] = "idle"
  /\ Len(backlog) < Backlog
  /\ peer' = [peer EXCEPT ![c] = "open"]
  /\ backlog' = Append(backlog, c)
  /\ UNCHANGED <<hive, stray, sent, unsent, taken, handle, received, writeVars>>

PeerWrite(c, doc) ==
  /\ Connected(c)
  /\ unsent[c] = 0
  /\ Len(sent[c]) < MaxMsgs
  /\ sent' = [sent EXCEPT ![c] = Append(@, doc)]
  /\ unsent' = [unsent EXCEPT ![c] = SegmentsOf(doc) - 1]
  /\ UNCHANGED <<acceptVars, peer, taken, handle, received, writeVars>>

PeerWriteMore(c) ==
  /\ Connected(c)
  /\ unsent[c] > 0
  /\ unsent' = [unsent EXCEPT ![c] = @ - 1]
  /\ UNCHANGED <<acceptVars, peer, sent, taken, handle, received, writeVars>>

(* What the kernel took stays readable after the hive closed or exited.     *)
PeerRead(c) ==
  /\ peer[c] = "open"
  /\ taken[c] < Len(replies[c])
  /\ taken' = [taken EXCEPT ![c] = @ + 1]
  /\ UNCHANGED <<acceptVars, peer, sent, unsent, handle, received, writeVars>>

PeerClose(c) ==
  /\ peer[c] = "open"
  /\ peer' = [peer EXCEPT ![c] = "closed"]
  /\ UNCHANGED <<acceptVars, sent, unsent, taken, handle, received, writeVars>>

-----------------------------------------------------------------------------
(* Accepting.                                                               *)

(* ClientInit, uv_accept and uv_read_start.                                 *)
OnNewConnection ==
  /\ hive = "up"
  /\ backlog /= << >>
  /\ handle' = [handle EXCEPT ![Head(backlog)] = "reading"]
  /\ backlog' = Tail(backlog)
  /\ UNCHANGED <<hive, stray, peerVars, received, writeVars>>

(* uv_accept cannot open the stream and drops the connection: CloseClient.  *)
OnNewConnectionDropped ==
  /\ hive = "up"
  /\ backlog /= << >>
  /\ handle' = [handle EXCEPT ![Head(backlog)] = "closing"]
  /\ backlog' = Tail(backlog)
  /\ UNCHANGED <<hive, stray, peerVars, received, writeVars>>

(* status < 0 is logged and no more: a client is allocated, uv_accept has   *)
(* no connection to give it, and CloseClient closes it again.               *)
OnNewConnectionError ==
  /\ hive = "up"
  /\ stray < MaxStray
  /\ stray' = stray + 1
  /\ UNCHANGED <<hive, backlog, peerVars, handle, received, writeVars>>

OnCloseStray ==
  /\ hive = "up"
  /\ stray > 0
  /\ stray' = stray - 1
  /\ UNCHANGED <<hive, backlog, peerVars, handle, received, writeVars>>

-----------------------------------------------------------------------------
(* Reading.                                                                 *)

Unread(c)    == Len(sent[c]) - Len(received[c])
(* Mutant: what is parsed is the document at the end of what has arrived.   *)
NextUnreadLatest(c) == sent[c][Len(sent[c])]
NextUnread(c) == sent[c][Len(received[c]) + 1]

(* Mutant: a document has to fill the buffer of the read.                   *)
ReadsFullBuffer(c) == unsent[c] = 0 /\ SegmentsOf(NextUnread(c)) = ReadMax

(* bson_init_static accepts the bytes of a read only if they are exactly    *)
(* one document: all of it, and nothing of the document after it.           *)
ReadsOneDocument(c) ==
  IF Unread(c) = 1
    THEN unsent[c] = 0 /\ SegmentsOf(NextUnread(c)) <= ReadMax
    ELSE SegmentsOf(NextUnread(c)) = ReadMax

(* Mutant: reading waits for the end of a document.                         *)
ReadableWhole(c) ==
  hive = "up" /\ handle[c] = "reading" /\ Unread(c) > 0 /\ (Unread(c) = 1 => unsent[c] = 0)

Readable(c) == hive = "up" /\ handle[c] = "reading" /\ Unread(c) > 0

(* One attempt of libuv to hand a pong to the kernel.  To write to a peer   *)
(* that has left is EPIPE, and death by SIGPIPE where that is not ignored.  *)
MayWrite(c) == peer[c] = "closed" \/ Len(replies[c]) - taken[c] < SockRoom

TryWrite(c, pong) ==
  /\ MayWrite(c)
  /\ IF peer[c] = "open"
       THEN /\ replies' = [replies EXCEPT ![c] = Append(@, pong)]
            /\ written' = [written EXCEPT ![c] = @ + 1]
            /\ UNCHANGED <<hive, failed>>
       ELSE /\ failed' = [failed EXCEPT ![c] = @ + 1]
            /\ hive' = IF SigPipe = "default" THEN "exited" ELSE hive
            /\ UNCHANGED <<replies, written>>

(* Mutants: the ping itself is sent back; a pong overtakes the queue.       *)
OnPingSendsPing(c, digest) ==
  LET ping == WriteMessage([kind |-> kPingKind, timestamp |-> 1337, body |-> digest]) IN
  IF wq[c] = << >> /\ MayWrite(c)
    THEN TryWrite(c, ping) /\ UNCHANGED wq
    ELSE /\ wq' = [wq EXCEPT ![c] = Append(@, ping)]
         /\ UNCHANGED <<hive, replies, written, failed>>

OnPingOvertakes(c, digest) ==
  IF MayWrite(c)
    THEN TryWrite(c, Pong(digest)) /\ UNCHANGED wq
    ELSE /\ wq' = [wq EXCEPT ![c] = Append(@, Pong(digest))]
         /\ UNCHANGED <<hive, replies, written, failed>>

(* OnPing: IpcServerClientWrite, whose uv_write tries at once if nothing is *)
(* queued before it, and queues the pong otherwise.                         *)
OnPing(c, digest) ==
  IF wq[c] = << >> /\ MayWrite(c)
    THEN TryWrite(c, Pong(digest)) /\ UNCHANGED wq
    ELSE /\ wq' = [wq EXCEPT ![c] = Append(@, Pong(digest))]
         /\ UNCHANGED <<hive, replies, written, failed>>

(* Mutant: the case of a ping in OnRead's switch falls through to the next. *)
DispatchFallsThrough(c, m) ==
  /\ received' = [received EXCEPT ![c] = @ \o
       (IF m.kind = kPingKind THEN << [kind |-> kPingKind, body |-> m.body] >> ELSE << >>)
       \o << [kind |-> kEventKind, body |-> m.body] >>]
  /\ IF m.kind = kPingKind THEN OnPing(c, m.body)
                           ELSE UNCHANGED <<hive, wq, replies, written, failed>>
  /\ UNCHANGED leaked

(* OnEvent only logs the topic.                                             *)
Dispatch(c, m) ==
  /\ received' = [received EXCEPT ![c] = Append(@, [kind |-> m.kind, body |-> m.body])]
  /\ IF m.kind = kPingKind THEN OnPing(c, m.body)
                           ELSE UNCHANGED <<hive, wq, replies, written, failed>>
  /\ UNCHANGED leaked

(* OnRead with nread > 0.  A read that is not one document, and a message   *)
(* of a kind without a callback, end the process.                           *)
OnRead(c) ==
  /\ Readable(c)
  /\ \E mem \in Memory :
       LET m == ReadMessage(NextUnread(c), mem) IN
       IF ReadsOneDocument(c) /\ m.kind \in {kPingKind, kEventKind}
         THEN Dispatch(c, m)
         ELSE hive' = "exited" /\ UNCHANGED <<received, writeVars>>
  /\ UNCHANGED <<backlog, stray, peerVars, handle>>

(* Mutants of OnReadEof: it ends the process; it closes before all is read; *)
(* it spares clients that wrote nothing.                                    *)
OnReadEofExits(c) ==
  /\ hive = "up" /\ handle[c] = "reading" /\ peer[c] = "closed" /\ Unread(c) = 0
  /\ hive' = "exited"
  /\ UNCHANGED <<backlog, stray, handle, peerVars, received, writeVars>>

OnReadEofEarly(c) ==
  /\ hive = "up" /\ handle[c] = "reading" /\ peer[c] = "closed"
  /\ handle' = [handle EXCEPT ![c] = "closing"]
  /\ UNCHANGED <<acceptVars, peerVars, received, writeVars>>

OnReadEofOfWriters(c) ==
  /\ hive = "up" /\ handle[c] = "reading" /\ peer[c] = "closed" /\ Unread(c) = 0
  /\ received[c] /= << >>
  /\ handle' = [handle EXCEPT ![c] = "closing"]
  /\ UNCHANGED <<acceptVars, peerVars, received, writeVars>>

(* OnRead with nread < 0: the peer is gone and all it wrote has been read.  *)
OnReadEof(c) ==
  /\ hive = "up"
  /\ handle[c] = "reading"
  /\ peer[c] = "closed"
  /\ Unread(c) = 0
  /\ handle' = [handle EXCEPT ![c] = "closing"]
  /\ UNCHANGED <<acceptVars, peerVars, received, writeVars>>

-----------------------------------------------------------------------------
(* Writing and closing.                                                     *)

(* The socket has become writable, or its peer has left: uv__write.         *)
UvWrite(c) ==
  /\ hive = "up"
  /\ handle[c] = "reading"
  /\ wq[c] /= << >>
  /\ TryWrite(c, Head(wq[c]))
  /\ wq' = [wq EXCEPT ![c] = Tail(@)]
  /\ UNCHANGED <<backlog, stray, peerVars, handle, received, leaked>>

(* Mutant: OnWrite returns early on success too.                            *)
OnWrittenLeaks(c) ==
  /\ hive = "up" /\ handle[c] /= "freed" /\ written[c] > 0
  /\ written' = [written EXCEPT ![c] = @ - 1]
  /\ leaked' = [leaked EXCEPT ![c] = @ + 1]
  /\ UNCHANGED <<acceptVars, peerVars, handle, received, wq, failed, replies>>

(* OnWrite frees the request of a successful write ...                      *)
OnWritten(c) ==
  /\ hive = "up"
  /\ handle[c] /= "freed"
  /\ written[c] > 0
  /\ written' = [written EXCEPT ![c] = @ - 1]
  /\ UNCHANGED <<acceptVars, peerVars, handle, received, wq, failed, leaked, replies>>

(* ... and returns early on a failed one, which nothing else frees.         *)
OnWriteFailed(c) ==
  /\ hive = "up"
  /\ handle[c] /= "freed"
  /\ failed[c] > 0
  /\ failed' = [failed EXCEPT ![c] = @ - 1]
  /\ leaked' = [leaked EXCEPT ![c] = @ + 1]
  /\ UNCHANGED <<acceptVars, peerVars, handle, received, wq, written, replies>>

(* Mutant: the client is freed while callbacks that use it are pending.     *)
OnCloseClientFirst(c) ==
  /\ hive = "up" /\ handle[c] = "closing"
  /\ handle' = [handle EXCEPT ![c] = "freed"]
  /\ UNCHANGED <<acceptVars, peerVars, received, writeVars>>

(* libuv ends a closing handle: what is still queued is cancelled, OnWrite  *)
(* is called for every request left, then OnCloseClient frees the client.   *)
OnCloseClient(c) ==
  /\ hive = "up"
  /\ handle[c] = "closing"
  /\ leaked' = [leaked EXCEPT ![c] = @ + failed[c] + Len(wq[c])]
  /\ wq' = [wq EXCEPT ![c] = << >>]
  /\ written' = [written EXCEPT ![c] = 0]
  /\ failed' = [failed EXCEPT ![c] = 0]
  /\ handle' = [handle EXCEPT ![c] = "freed"]
  /\ UNCHANGED <<acceptVars, peerVars, received, replies>>

-----------------------------------------------------------------------------
PeerStep(c) ==
  \/ PeerConnect(c)
  \/ \E doc \in PeerDocuments : PeerWrite(c, doc)
  \/ PeerWriteMore(c)
  \/ PeerRead(c)
  \/ PeerClose(c)

AcceptStep == OnNewConnection \/ OnNewConnectionDropped \/ OnNewConnectionError \/ OnCloseStray

HiveStep(c) ==
  \/ OnRead(c)
  \/ OnReadEof(c)
  \/ UvWrite(c)
  \/ OnWritten(c)
  \/ OnWriteFailed(c)
  \/ OnCloseClient(c)

Next == AcceptStep \/ \E c \in Conns : PeerStep(c) \/ HiveStep(c)

(* The loop serves whatever is ready; peers may stop at any point.          *)
Fairness ==
  /\ WF_vars(OnNewConnection)
  /\ WF_vars(OnCloseStray)
  /\ \A c \in Conns :
       /\ WF_vars(OnRead(c))
       /\ WF_vars(OnReadEof(c))
       /\ WF_vars(UvWrite(c))
       /\ WF_vars(OnWritten(c))
       /\ WF_vars(OnWriteFailed(c))
       /\ WF_vars(OnCloseClient(c))

Spec == Init /\ [][Next]_vars /\ Fairness

-----------------------------------------------------------------------------
(* How many of the first n messages are pings.                              *)
Pings(messages, n) == Cardinality({i \in 1..n : messages[i].kind = kPingKind})

(* Whatever is dispatched is what the peer wrote, message by message and in *)
(* its order, although the stream has no message boundaries.                *)
InOrderDispatch ==
  \A c \in Conns :
    /\ Len(received[c]) <= Len(sent[c])
    /\ \A i \in DOMAIN received[c] :
         received[c][i] = [kind |-> DocumentKind(sent[c][i]), body |-> DocumentBody(sent[c][i])]

(* Each pong the kernel took or libuv holds answers a ping of the same      *)
(* connection, in the order of the pings; none is answered twice, and the   *)
(* pings without a pong are those whose write request failed.               *)
EchoInOrder ==
  \A c \in Conns :
    LET pings    == Pings(received[c], Len(received[c]))
        dequeued == pings - Len(wq[c])
    IN  /\ pings = Len(replies[c]) + Len(wq[c]) + failed[c] + leaked[c]
        /\ \A i \in DOMAIN received[c] :
             LET k == Pings(received[c], i) IN
             received[c][i].kind = kPingKind =>
               /\ k <= Len(replies[c]) => replies[c][k] = Pong(received[c][i].body)
               /\ handle[c] = "reading" /\ k > dequeued =>
                    wq[c][k - dequeued] = Pong(received[c][i].body)

(* Only a peer that writes a message of an unexpected kind, one too long    *)
(* for a single write, or a message before it has read the pong to its last *)
(* one, or that leaves before it has read the pong to a ping while SIGPIPE  *)
(* kills, can make the hive exit.                                           *)
Disciplined(c) ==
  LET n == Len(sent[c]) IN
  /\ \A i \in 1..n : /\ DocumentKind(sent[c][i]) \in {kPingKind, kEventKind}
                     /\ SegmentsOf(sent[c][i]) = 1
  /\ n <= taken[c] + 1
  /\ SigPipe = "default" /\ peer[c] = "closed" /\ n > 0
       => DocumentKind(sent[c][n]) = kEventKind \/ taken[c] = n

OnlyUndisciplinedPeersEndIt ==
  hive = "exited" => \E c \in Conns : ~Disciplined(c)

(* A write request is leaked only after its peer had left.                  *)
LeaksOnlyForLeavers ==
  \A c \in Conns : leaked[c] + failed[c] > 0 => peer[c] = "closed"

(* Once CloseClient has run, nothing is read from or written to that        *)
(* connection and it is never accepted again; once the client is freed no   *)
(* OnWrite for it is pending.                                               *)
ClosedIsFinal ==
  [][\A c \in Conns :
       handle[c] \in {"closing", "freed"} =>
         /\ handle'[c] = handle[c] \/ handle'[c] = "freed"
         /\ received'[c] = received[c] /\ replies'[c] = replies[c]
         /\ handle'[c] = "freed" => wq'[c] = << >> /\ written'[c] + failed'[c] = 0]_vars

(* A client whose peer has left is freed in the end, unless the hive exits. *)
LeaversAreFreed ==
  \A c \in Conns :
    handle[c] \in {"reading", "closing"} /\ peer[c] = "closed"
      ~> handle[c] = "freed" \/ hive = "exited"

(* Whatever a peer wrote in full is dispatched, or the connection was       *)
(* dropped by accept, or the hive exits.                                    *)
WritesAreRead ==
  \A c \in Conns :
    Unread(c) > 0 ~> Unread(c) = 0 \/ handle[c] \in {"closing", "freed"} \/ hive = "exited"
=============================================================================
