-------------------------- MODULE HiveSystemProofs --------------------------
(***************************************************************************)
(* Proofs about HiveSystem, for any number of processes, any commands and  *)
(* arguments, and any bounds: what is proved of the server with arbitrary  *)
(* peers holds with these, what a process is told is true, who can end the *)
(* hive, and that every step is one of HiveService or none.                *)
(***************************************************************************)
EXTENDS HiveSystem, IpcServerProofs

(* An IpcClient has no argument.                                            *)
CliTyped ==
  /\ command \in Mixes
  /\ arg \in [Conns -> Arguments]
  /\ \A c \in Conns : command[c] = "hello" => arg[c] = EmptyBody
  /\ phase \in [Conns -> {"start"} \cup Running \cup Outcomes]

(* What a process writes, if it writes at all.                              *)
Asked(c) == Sendable(c) /\ sent[c] = << Request(c) >>

SentAsRequested(c) ==
  /\ sent[c] = << >> \/ Asked(c)
  /\ phase[c] \in {"start", "connected", "refused", "usage"} => sent[c] = << >>
  /\ phase[c] \in {"writing", "awaiting", "listening"} => Asked(c)
  /\ phase[c] \in {"awaiting", "listening"} => unsent[c] = 0

OpenWhileRunning(c) ==
  /\ phase[c] \in Running => peer[c] = "open"
  /\ peer[c] = "closed" => phase[c] \in Outcomes

(* The hive closes a connection that it has heard only when its peer left.  *)
HeardLeft(c) ==
  handle[c] \in {"closing", "freed"} /\ received[c] # << >> => peer[c] = "closed"

Unheard(c) ==
  \/ sent[c] = << >>
  \/ hive = "exited"
  \/ handle[c] \in {"closing", "freed"} /\ received[c] = << >>

(* What each outcome says of the connection.                                *)
OutcomeTrue(c) ==
  /\ phase[c] = "awaiting" => command[c] = "ping"
  /\ phase[c] = "listening" => command[c] = "hello"
  /\ phase[c] \notin {"badkind", "mismatch"}
  /\ phase[c] = "ok" /\ command[c] = "ping" => taken[c] >= 1
  /\ phase[c] = "eof" => hive = "exited" \/ handle[c] \in {"closing", "freed"}
  /\ phase[c] = "ioerror" => sent[c] = << >> \/ Segments[Body(c)] > 1
  /\ command[c] = "hello" /\ phase[c] \in {"ok", "refused", "ioerror"} => Unheard(c)

-----------------------------------------------------------------------------
(* Commands, arguments and the documents made of them.                      *)
LEMMA CommandTyped ==
  CliTyped => \A c \in Conns : command[c] \in Commands /\ arg[c] \in Bodies \cup {EmptyBody}
  BY HiveSystemAssumption DEF CliTyped

LEMMA BodyTyped ==
  ASSUME CliTyped, NEW c \in Conns
  PROVE  /\ Body(c) \in Bodies \cup {EmptyBody}
         /\ Sendable(c) => Body(c) \in Bodies
         /\ command[c] \in {"ping", "hello"} => Body(c) = Digest(c)
         /\ command[c] = "hello" => Body(c) = HelloWorld
  BY CommandTyped, HiveSystemAssumption DEF Body, Digest, Sendable, CliTyped

(* A request says what the command was given.                               *)
LEMMA RequestSays ==
  ASSUME CliTyped, NEW c \in Conns, Sendable(c)
  PROVE  /\ Request(c) \in PeerDocuments
         /\ DocumentKind(Request(c)) = IF command[c] = "ping" THEN kPingKind ELSE kEventKind
         /\ DocumentBody(Request(c)) = Body(c)
<1>1. Body(c) \in Bodies /\ command[c] \in {"ping", "publish", "hello"}
  BY BodyTyped DEF Sendable
<1>2. CASE command[c] = "hello"
  <2>1. Request(c) = WriteMessage(InitEventMessage(HelloWorld)) /\ Body(c) = HelloWorld
    BY <1>2, BodyTyped DEF Request, HelloEvent
  <2>2. /\ DocumentKind(WriteMessage(InitEventMessage(HelloWorld))) = kEventKind
        /\ DocumentBody(WriteMessage(InitEventMessage(HelloWorld))) = HelloWorld
    BY KindsDiffer
       DEF WriteMessage, WritePayload, InitEventMessage, DocumentKind, DocumentBody, Field
  <2>. QED
    BY <1>2, <2>1, <2>2, HiveSystemAssumption
<1>3. CASE command[c] # "hello"
  <2>. DEFINE k == IF command[c] = "ping" THEN kPingKind ELSE kEventKind
  <2>1. Request(c) = CliDocument(k, Body(c)) /\ k \in {kPingKind, kEventKind}
    BY <1>3 DEF Request
  <2>2. CliDocument(k, Body(c)) \in PeerDocuments
    BY <1>1, <2>1, HiveSystemAssumption
  <2>3. DocumentKind(CliDocument(k, Body(c))) = k /\ DocumentBody(CliDocument(k, Body(c))) = Body(c)
    BY <2>1, KindsDiffer DEF CliDocument, DocumentKind, DocumentBody, Field
  <2>. QED
    BY <2>1, <2>2, <2>3
<1>. QED
  BY <1>2, <1>3

(* What the command line makes of a pong.                                   *)
LEMMA PongRead ==
  ASSUME NEW body \in Bodies
  PROVE  CliReadKind(Pong(body)) = kPongKind /\ CliReadDigest(Pong(body)) = body
<1>. DEFINE data == << Field("digest", "binary", body) >>
            doc  == << Field("kind", "int32", kPongKind), Field("timestamp", "int64", 12937),
                       Field("data", "document", data) >>
<1>1. Pong(body) = doc
  BY KindsDiffer DEF Pong, WriteMessage, WritePayload, InitPongMessage
<1>2. CliField(doc, "kind") = kPongKind
  <2>1. {i \in DOMAIN doc : doc[i].key = "kind"} = {1} /\ doc[1].value = kPongKind
    BY DEF Field
  <2>2. (CHOOSE i \in DOMAIN doc : doc[i].key = "kind") = 1
    BY <2>1
  <2>. QED
    BY <2>1, <2>2 DEF CliField
<1>3. CliField(doc, "data") = data
  <2>1. {i \in DOMAIN doc : doc[i].key = "data"} = {3} /\ doc[3].value = data
    BY DEF Field
  <2>2. (CHOOSE i \in DOMAIN doc : doc[i].key = "data") = 3
    BY <2>1
  <2>. QED
    BY <2>1, <2>2 DEF CliField
<1>4. CliField(data, "digest") = body
  <2>1. {i \in DOMAIN data : data[i].key = "digest"} = {1} /\ data[1].value = body
    BY DEF Field
  <2>2. (CHOOSE i \in DOMAIN data : data[i].key = "digest") = 1
    BY <2>1
  <2>. QED
    BY <2>1, <2>2 DEF CliField
<1>. QED
  BY <1>1, <1>2, <1>3, <1>4 DEF CliReadKind, CliReadDigest

-----------------------------------------------------------------------------
(* What any step may do.                                                    *)
LEMMA CliSide ==
  ASSUME TypeOK, CliTyped, NEW c \in Conns, CliStep(c)
  PROVE  /\ UNCHANGED <<hive, stray, handle, received, wq, written, failed, leaked, replies>>
         /\ UNCHANGED <<command, arg>>
         /\ \A d \in Conns : d # c => /\ phase'[d] = phase[d] /\ peer'[d] = peer[d]
                                      /\ sent'[d] = sent[d] /\ unsent'[d] = unsent[d]
                                      /\ taken'[d] = taken[d]
<1>. USE DEF vars, acceptVars, peerVars, writeVars, cliVars, Advance, TypeOK, CliTyped
<1>1. CASE InvalidCommand(c) \/ BadUsage(c) \/ DialRefused(c) \/ Kill(c)
  BY <1>1 DEF InvalidCommand, BadUsage, DialRefused, Kill
<1>2. CASE Dial(c) \/ IpcClientInit(c)
  BY <1>2 DEF Dial, IpcClientInit, PeerConnect
<1>3. CASE Send(c) \/ SendMore(c)
  BY <1>3 DEF Send, SendMore, PeerWrite, PeerWriteMore
<1>4. CASE Sent(c) \/ OnMessageSent(c) \/ SendFails(c) \/ ReceiveEof(c) \/ LoopEnds(c)
             \/ Deadline(c)
  BY <1>4 DEF Sent, OnMessageSent, SendFails, ReceiveEof, LoopEnds, Deadline
<1>5. CASE Receive(c)
  BY <1>5 DEF Receive, PeerRead
<1>6. CASE Exit(c)
  BY <1>6 DEF Exit, PeerClose
<1>. QED
  BY <1>1, <1>2, <1>3, <1>4, <1>5, <1>6 DEF CliStep, CliProgress

LEMMA HiveSide ==
  ASSUME [SystemNext]_systemVars
  PROVE  \/ \E c \in Conns : CliStep(c)
         \/ UNCHANGED <<command, arg, phase, peer, sent, unsent, taken>>
<1>. USE DEF peerVars, cliVars
<1>1. CASE UNCHANGED systemVars
  BY <1>1 DEF systemVars, vars
<1>2. CASE AcceptStep /\ UNCHANGED cliVars
  BY <1>2 DEF AcceptStep, OnNewConnection, OnNewConnectionDropped, OnNewConnectionError,
              OnCloseStray
<1>3. ASSUME NEW c \in Conns, HiveStep(c) /\ UNCHANGED cliVars
      PROVE  UNCHANGED <<command, arg, phase, peer, sent, unsent, taken>>
  BY <1>3 DEF HiveStep, OnRead, OnReadEof, UvWrite, OnWritten, OnWriteFailed, OnCloseClient
<1>. QED
  BY <1>1, <1>2, <1>3 DEF SystemNext

(* The processes are peers that the server allows for.                      *)
LEMMA StepsOfServer ==
  ASSUME CliTyped, [SystemNext]_systemVars
  PROVE  [Next]_vars
<1>1. CASE UNCHANGED systemVars
  BY <1>1 DEF systemVars
<1>2. CASE AcceptStep
  BY <1>2 DEF Next
<1>3. ASSUME NEW c \in Conns, HiveStep(c)
      PROVE  Next
  BY <1>3 DEF Next
<1>4. ASSUME NEW c \in Conns, CliStep(c)
      PROVE  PeerStep(c) \/ UNCHANGED vars
  <2>1. CASE Dial(c) \/ IpcClientInit(c)
    BY <2>1 DEF Dial, IpcClientInit, PeerStep
  <2>2. CASE Send(c)
    <3>1. PeerWrite(c, Request(c)) /\ Request(c) \in PeerDocuments
      BY <2>2, RequestSays DEF Send
    <3>. QED
      BY <3>1 DEF PeerStep
  <2>3. CASE SendMore(c) \/ Receive(c) \/ Exit(c)
    BY <2>3 DEF SendMore, Receive, Exit, PeerStep
  <2>4. CASE \/ InvalidCommand(c) \/ BadUsage(c) \/ DialRefused(c) \/ Kill(c) \/ Sent(c)
             \/ OnMessageSent(c) \/ SendFails(c) \/ ReceiveEof(c) \/ LoopEnds(c) \/ Deadline(c)
    BY <2>4 DEF InvalidCommand, BadUsage, DialRefused, Kill, Sent, OnMessageSent, SendFails,
                ReceiveEof, LoopEnds, Deadline
  <2>. QED
    BY <1>4, <2>1, <2>2, <2>3, <2>4 DEF CliStep, CliProgress
<1>. QED
  BY <1>1, <1>2, <1>3, <1>4 DEF SystemNext, Next

LEMMA CliTypedStep ==
  ASSUME TypeOK, CliTyped, [SystemNext]_systemVars
  PROVE  CliTyped'
<1>1. ASSUME NEW c \in Conns, CliStep(c)
      PROVE  CliTyped'
  <2>1. UNCHANGED <<command, arg>>
    BY <1>1, CliSide
  <2>2. \E to \in {"start"} \cup Running \cup Outcomes : phase' = [phase EXCEPT ![c] = to]
    <3>1. CASE Exit(c) \/ SendMore(c)
      <4>1. phase' = [phase EXCEPT ![c] = phase[c]]
        BY <3>1 DEF Exit, SendMore, cliVars, CliTyped
      <4>. QED
        BY <4>1 DEF CliTyped
    <3>2. CASE ~(Exit(c) \/ SendMore(c))
      BY <1>1, <3>2 DEF CliStep, CliProgress, InvalidCommand, BadUsage, DialRefused, Kill, Sent,
        OnMessageSent, SendFails, ReceiveEof, LoopEnds, Deadline, Dial, IpcClientInit, Send,
        Receive, Advance, Running, Outcomes
    <3>. QED
      BY <3>1, <3>2
  <2>. QED
    BY <2>1, <2>2 DEF CliTyped
<1>2. CASE UNCHANGED <<command, arg, phase>>
  BY <1>2 DEF CliTyped
<1>. QED
  BY <1>1, <1>2, HiveSide

(* A process that has an outcome keeps it.                                   *)
LEMMA OutcomeFinal ==
  ASSUME TypeOK, CliTyped, [SystemNext]_systemVars, NEW d \in Conns, phase[d] \in Outcomes
  PROVE  phase'[d] = phase[d]
<1>1. ASSUME NEW c \in Conns, CliStep(c), c = d
      PROVE  phase'[d] = phase[d]
  BY <1>1 DEF CliStep, CliProgress, InvalidCommand, BadUsage, DialRefused, Kill, Sent,
    OnMessageSent, SendFails, StillWriting, ReceiveEof, LoopEnds, Deadline, Dial, IpcClientInit,
    Send, SendMore, Receive, Exit, Advance, Running, Outcomes, cliVars
<1>. QED
  BY <1>1, CliSide, HiveSide

-----------------------------------------------------------------------------
(* One request for each process.                                            *)
LEMMA SameRequest ==
  ASSUME UNCHANGED <<command, arg>>, NEW c \in Conns
  PROVE  /\ Sendable(c)' <=> Sendable(c)
         /\ Request(c)' = Request(c) /\ Body(c)' = Body(c) /\ Digest(c)' = Digest(c)
  BY DEF Sendable, Request, Body, Digest

LEMMA SentStep ==
  ASSUME TypeOK, CliTyped, \A c \in Conns : SentAsRequested(c), [SystemNext]_systemVars,
         NEW d \in Conns
  PROVE  SentAsRequested(d)'
<1>. USE DEF SentAsRequested, Asked
<1>1. ASSUME NEW c \in Conns, CliStep(c), c # d
      PROVE  SentAsRequested(d)'
  BY <1>1, CliSide, SameRequest
<1>2. CASE UNCHANGED <<command, arg, phase, peer, sent, unsent, taken>>
  BY <1>2, SameRequest
<1>3. CASE CliStep(d)
  <2>. USE DEF Advance, CliTyped
  <2>1. /\ Sendable(d)' <=> Sendable(d)
        /\ Request(d)' = Request(d)
    BY <1>3, CliSide, SameRequest
  <2>2. CASE InvalidCommand(d) \/ DialRefused(d) \/ BadUsage(d)
    BY <2>1, <2>2 DEF InvalidCommand, DialRefused, BadUsage, vars, peerVars
  <2>3. CASE Dial(d) \/ IpcClientInit(d)
    BY <2>1, <2>3 DEF Dial, IpcClientInit, PeerConnect
  <2>4. CASE Send(d)
    <3>1. /\ phase[d] = "connected" /\ phase'[d] = "writing" /\ Sendable(d)
          /\ sent' = [sent EXCEPT ![d] = Append(@, Request(d))]
      BY <2>4 DEF Send, PeerWrite
    <3>2. sent'[d] = Append(<< >>, Request(d))
      <4>1. sent[d] = << >>
        BY <3>1
      <4>2. sent'[d] = Append(sent[d], Request(d))
        BY <3>1 DEF TypeOK
      <4>. QED
        BY <4>1, <4>2
    <3>3. Append(<< >>, Request(d)) = << Request(d) >>
      OBVIOUS
    <3>. QED
      BY <2>1, <3>1, <3>2, <3>3
  <2>5. CASE SendMore(d)
    BY <2>1, <2>5 DEF SendMore, PeerWriteMore, cliVars
  <2>6. CASE Sent(d) \/ OnMessageSent(d)
    <3>1. /\ UNCHANGED <<sent, unsent>> /\ unsent[d] = 0 /\ phase[d] = "writing"
          /\ phase'[d] \in {"awaiting", "listening", "ok"}
      BY <2>6 DEF Sent, OnMessageSent, vars, peerVars
    <3>. QED
      BY <2>1, <3>1
  <2>7. CASE Receive(d) \/ SendFails(d) \/ ReceiveEof(d) \/ LoopEnds(d) \/ Deadline(d) \/ Kill(d)
    <3>1. /\ sent' = sent
          /\ phase'[d] \in {"ok", "badkind", "mismatch", "ioerror", "eof", "timeout", "killed"}
      BY <2>7 DEF Receive, SendFails, ReceiveEof, LoopEnds, Deadline, Kill, PeerRead, vars, peerVars
    <3>. QED
      BY <2>1, <3>1
  <2>8. CASE Exit(d)
    BY <2>1, <2>8 DEF Exit, PeerClose, cliVars
  <2>. QED
    BY <1>3, <2>2, <2>3, <2>4, <2>5, <2>6, <2>7, <2>8 DEF CliStep, CliProgress
<1>. QED
  BY <1>1, <1>2, <1>3, HiveSide

LEMMA OpenStep ==
  ASSUME TypeOK, CliTyped, \A c \in Conns : OpenWhileRunning(c), [SystemNext]_systemVars,
         NEW d \in Conns
  PROVE  OpenWhileRunning(d)'
<1>. USE DEF OpenWhileRunning
<1>1. ASSUME NEW c \in Conns, CliStep(c), c # d
      PROVE  OpenWhileRunning(d)'
  BY <1>1, CliSide
<1>2. CASE UNCHANGED <<command, arg, phase, peer, sent, unsent, taken>>
  BY <1>2
<1>3. CASE CliStep(d)
  <2>0. \A p \in Running : p \notin Outcomes
    BY DEF Running, Outcomes
  <2>1. CASE Dial(d) \/ IpcClientInit(d)
    <3>1. peer'[d] = "open"
      BY <2>1 DEF Dial, IpcClientInit, PeerConnect, TypeOK
    <3>. QED
      BY <3>1
  <2>2. CASE Exit(d)
    BY <2>0, <2>2 DEF Exit, PeerClose, cliVars
  <2>3. CASE peer' = peer /\ (phase'[d] \in Running => phase[d] \in Running)
    BY <2>3, OutcomeFinal
  <2>4. \/ peer' = peer /\ (phase'[d] \in Running => phase[d] \in Running)
        \/ Dial(d) \/ IpcClientInit(d) \/ Exit(d)
    BY <1>3 DEF CliStep, CliProgress, InvalidCommand, BadUsage, DialRefused, Kill, Sent,
      OnMessageSent, SendFails, ReceiveEof, LoopEnds, Deadline, Send, SendMore, Receive,
      Advance, Running, PeerWrite, PeerWriteMore, PeerRead, vars, peerVars, cliVars, CliTyped
  <2>. QED
    BY <2>1, <2>2, <2>3, <2>4
<1>. QED
  BY <1>1, <1>2, <1>3, HiveSide

LEMMA HeardStep ==
  ASSUME TypeOK, FreshUntilAccepted, \A c \in Conns : HeardLeft(c), [Next]_vars, NEW d \in Conns
  PROVE  HeardLeft(d)'
<1>. USE DEF HeardLeft, peerVars, acceptVars, writeVars
<1>1. CASE OnNewConnection \/ OnNewConnectionDropped
  <2>1. /\ backlog # << >> /\ UNCHANGED <<peer, received>>
        /\ \E state \in {"reading", "closing"} :
             handle' = [handle EXCEPT ![Head(backlog)] = state]
    BY <1>1 DEF OnNewConnection, OnNewConnectionDropped
  <2>2. CASE d # Head(backlog)
    BY <2>1, <2>2 DEF TypeOK
  <2>3. CASE d = Head(backlog)
    <3>1. backlog \in Seq(Conns)
      BY DEF TypeOK
    <3>2. 1 \in 1..Len(backlog) /\ d = backlog[1]
      BY <2>1, <2>3, <3>1, HeadAndTail
    <3>3. received[d] = << >>
      BY <3>2 DEF FreshUntilAccepted
    <3>. QED
      BY <2>1, <3>3
  <2>. QED
    BY <2>2, <2>3
<1>2. ASSUME NEW c \in Conns, OnRead(c)
      PROVE  HeardLeft(d)'
  <2>1. UNCHANGED <<peer, handle>> /\ handle[c] = "reading"
    BY <1>2 DEF OnRead, Readable
  <2>2. c # d => received'[d] = received[d]
    BY <1>2 DEF OnRead, Dispatch, TypeOK
  <2>. QED
    BY <2>1, <2>2
<1>3. ASSUME NEW c \in Conns, OnReadEof(c)
      PROVE  HeardLeft(d)'
  BY <1>3 DEF OnReadEof, TypeOK
<1>4. ASSUME NEW c \in Conns, OnCloseClient(c)
      PROVE  HeardLeft(d)'
  BY <1>4 DEF OnCloseClient, TypeOK
<1>5. ASSUME NEW c \in Conns, PeerConnect(c) \/ PeerClose(c)
      PROVE  HeardLeft(d)'
  <2>1. /\ UNCHANGED <<handle, received>>
        /\ \/ peer[c] = "idle" /\ peer' = [peer EXCEPT ![c] = "open"]
           \/ peer' = [peer EXCEPT ![c] = "closed"]
    BY <1>5 DEF PeerConnect, PeerClose
  <2>2. peer[d] = "closed" => peer'[d] = "closed"
    BY <2>1 DEF TypeOK
  <2>. QED
    BY <2>1, <2>2
<1>6. CASE UNCHANGED <<peer, handle, received>>
  BY <1>6
<1>7. \/ OnNewConnection \/ OnNewConnectionDropped
      \/ \E c \in Conns : \/ OnRead(c) \/ OnReadEof(c) \/ OnCloseClient(c)
                         \/ PeerConnect(c) \/ PeerClose(c)
      \/ UNCHANGED <<peer, handle, received>>
  BY DEF Next, vars, AcceptStep, PeerStep, HiveStep, OnNewConnectionError, OnCloseStray,
         PeerWrite, PeerWriteMore, PeerRead, UvWrite, OnWritten, OnWriteFailed
<1>. QED
  BY <1>1, <1>2, <1>3, <1>4, <1>5, <1>6, <1>7

(* At most one message, and at most one pong, of its own digest.            *)
LEMMA OneMessage ==
  ASSUME IInv, CliTyped, NEW c \in Conns, SentAsRequested(c)
  PROVE  /\ Len(sent[c]) \in {0, 1} /\ Len(received[c]) \in {0, 1}
         /\ Len(received[c]) = 1 =>
              Asked(c) /\ received[c][1].kind = DocumentKind(Request(c))
                       /\ received[c][1].body = Body(c)
         /\ taken[c] \in Nat /\ taken[c] <= Len(replies[c])
         /\ Len(replies[c]) \in {0, 1}
         /\ Len(replies[c]) = 1 => /\ Asked(c) /\ command[c] = "ping" /\ Body(c) \in Bodies
                                   /\ Len(received[c]) = 1
                                   /\ replies[c][1] = Pong(Body(c))
<1>0. TypeOK /\ InOrder(c) /\ Paired(c) /\ Echoed(c)
  BY DEF IInv
<1>1. /\ taken[c] \in Nat /\ Replied(c) \in Nat /\ Queued(c) \in Nat /\ Lost(c) \in Nat
      /\ Made(c) \in Nat /\ Answers(c) \in Nat
      /\ Len(sent[c]) \in Nat /\ Len(received[c]) \in Nat
  BY <1>0, CountsTyped
<1>2. Len(sent[c]) \in {0, 1} /\ (Len(sent[c]) # 0 => Asked(c) /\ sent[c][1] = Request(c))
  <2>1. CASE sent[c] = << >>
    BY <2>1
  <2>2. CASE Asked(c)
    <3>1. sent[c] = << Request(c) >>
      BY <2>2 DEF Asked
    <3>2. Len(<< Request(c) >>) = 1 /\ << Request(c) >>[1] = Request(c)
      OBVIOUS
    <3>. QED
      BY <2>2, <3>1, <3>2
  <2>. QED
    BY <2>1, <2>2 DEF SentAsRequested
<1>3. Len(received[c]) \in {0, 1} /\ Len(received[c]) <= Len(sent[c])
  BY <1>0, <1>1, <1>2 DEF InOrder
<1>4. ASSUME Len(received[c]) = 1
      PROVE  /\ Asked(c) /\ received[c][1].kind = DocumentKind(Request(c))
             /\ received[c][1].body = Body(c)
  <2>1. Asked(c) /\ sent[c][1] = Request(c)
    BY <1>2, <1>3, <1>4
  <2>2. received[c][1] = [kind |-> DocumentKind(sent[c][1]), body |-> DocumentBody(sent[c][1])]
    BY <1>0, <1>4 DEF InOrder
  <2>3. DocumentBody(Request(c)) = Body(c)
    BY <2>1, RequestSays DEF Asked
  <2>. QED
    BY <2>1, <2>2, <2>3
<1>5. Replied(c) <= Answers(c) /\ Answers(c) <= Len(received[c]) /\ taken[c] <= Replied(c)
  BY <1>0, <1>1 DEF Paired, Answers, Made
<1>6. ASSUME Replied(c) = 1
      PROVE  /\ Asked(c) /\ command[c] = "ping" /\ Body(c) \in Bodies /\ Len(received[c]) = 1
             /\ replies[c][1] = Pong(Body(c))
  <2>1. Len(received[c]) = 1 /\ Answers(c) = 1
    <3>. DEFINE n == Len(received[c])
    <3>1. n \in {0, 1} /\ Answers(c) <= n /\ Replied(c) <= Answers(c)
      BY <1>3, <1>5
    <3>. HIDE DEF n
    <3>2. n = 1 /\ Answers(c) = 1
      BY <1>1, <1>6, <3>1
    <3>. QED
      BY <3>2 DEF n
  <2>2. Asked(c) /\ received[c][1].kind = DocumentKind(Request(c)) /\ received[c][1].body = Body(c)
    BY <1>4, <2>1
  <2>3. received[c][1].kind # kEventKind
    BY <1>0, <2>1 DEF Paired
  <2>4. Sendable(c)
    BY <2>2 DEF Asked
  <2>5. command[c] = "ping" /\ received[c][1].kind = kPingKind
    BY <2>2, <2>3, <2>4, RequestSays
  <2>6. Pings(received[c], 1) = 1
    BY <1>0, <2>1 DEF Echoed, EchoCounted
  <2>7. replies[c][1] = Pong(received[c][1].body)
    BY <1>0, <1>6, <2>1, <2>5, <2>6 DEF Echoed, EchoReplied
  <2>. QED
    BY <2>1, <2>2, <2>4, <2>5, <2>7, BodyTyped
<1>7. Replied(c) \in {0, 1}
  <2>. DEFINE n == Len(received[c])
  <2>1. n \in {0, 1} /\ Answers(c) <= n /\ Replied(c) <= Answers(c)
    BY <1>3, <1>5
  <2>. HIDE DEF n
  <2>. QED
    BY <1>1, <2>1
<1>8. Replied(c) = Len(replies[c])
  BY DEF Replied
<1>9. taken[c] \in Nat /\ taken[c] <= Len(replies[c]) /\ Len(replies[c]) \in {0, 1}
  BY <1>1, <1>5, <1>7, <1>8
<1>. QED
  BY <1>2, <1>3, <1>4, <1>6, <1>8, <1>9

-----------------------------------------------------------------------------
(* The hive's end, and the end of a connection, are final.                  *)
LEMMA HiveExits ==
  ASSUME TypeOK, [Next]_vars
  PROVE  /\ hive = "exited" => hive' = "exited"
         /\ hive = "up" /\ hive' # "up" => \E c \in Conns : OnRead(c) \/ UvWrite(c)
<1>1. hive = "exited" => hive' = "exited"
  BY DEF Next, vars, AcceptStep, PeerStep, HiveStep, OnNewConnection, OnNewConnectionDropped,
         OnNewConnectionError, OnCloseStray, PeerConnect, PeerWrite, PeerWriteMore, PeerRead,
         PeerClose, OnRead, Readable, OnReadEof, UvWrite, OnWritten, OnWriteFailed,
         OnCloseClient, acceptVars
<1>2. hive = "up" /\ hive' # "up" => \E c \in Conns : OnRead(c) \/ UvWrite(c)
  BY DEF Next, vars, AcceptStep, PeerStep, HiveStep, OnNewConnection, OnNewConnectionDropped,
         OnNewConnectionError, OnCloseStray, PeerConnect, PeerWrite, PeerWriteMore, PeerRead,
         PeerClose, OnReadEof, OnWritten, OnWriteFailed, OnCloseClient, acceptVars
<1>. QED
  BY <1>1, <1>2

LEMMA ClosedFinal ==
  ASSUME IInv, FreedIsEmpty, [Next]_vars, NEW c \in Conns, handle[c] \in {"closing", "freed"}
  PROVE  handle'[c] \in {"closing", "freed"} /\ received'[c] = received[c]
  BY ClosedStep DEF ClosedStays

-----------------------------------------------------------------------------
(* Outcomes.                                                                *)
LEMMA OutcomeKept ==
  ASSUME IInv, FreedIsEmpty, CliTyped, [Next]_vars, NEW d \in Conns, OutcomeTrue(d),
         UNCHANGED <<command, arg>>,
         phase'[d] = phase[d], sent'[d] = sent[d], taken'[d] = taken[d]
  PROVE  OutcomeTrue(d)'
<1>1. Body(d)' = Body(d)
  BY SameRequest
<1>2. TypeOK
  BY DEF IInv
<1>3. /\ hive = "exited" => hive' = "exited"
      /\ handle[d] \in {"closing", "freed"} =>
           handle'[d] \in {"closing", "freed"} /\ received'[d] = received[d]
  BY <1>2, HiveExits, ClosedFinal
<1>4. Unheard(d) => Unheard(d)'
  BY <1>3 DEF Unheard
<1>. QED
  BY <1>1, <1>3, <1>4 DEF OutcomeTrue

(* A write that cannot go on is of a request of several segments, or of a   *)
(* process that has sent nothing.                                           *)
LEMMA WriteFails ==
  ASSUME TypeOK, CliTyped, NEW c \in Conns, StillWriting(c), SentAsRequested(c), PartOfLast(c)
  PROVE  sent[c] = << >> \/ Segments[Body(c)] > 1
<1>1. CASE phase[c] = "connected"
  BY <1>1 DEF SentAsRequested
<1>2. CASE phase[c] = "writing" /\ unsent[c] > 0
  <2>1. Sendable(c) /\ sent[c] = << Request(c) >>
    BY <1>2 DEF SentAsRequested, Asked
  <2>2. Len(<< Request(c) >>) = 1 /\ << Request(c) >>[1] = Request(c)
    OBVIOUS
  <2>3. SegmentsOf(Request(c)) > 1
    BY <1>2, <2>1, <2>2 DEF PartOfLast
  <2>. QED
    BY <2>1, <2>3, RequestSays DEF SegmentsOf
<1>. QED
  BY <1>1, <1>2 DEF StillWriting

(* A process that runs while the hive has closed its connection was not     *)
(* heard.                                                                   *)
LEMMA ClosedUnheard ==
  ASSUME NEW c \in Conns, phase[c] \in Running, OpenWhileRunning(c), HeardLeft(c),
         hive = "exited" \/ handle[c] \in {"closing", "freed"}
  PROVE  Unheard(c)
  BY DEF OpenWhileRunning, HeardLeft, Unheard

LEMMA OutcomeCli ==
  ASSUME IInv, FreedIsEmpty, CliTyped, NEW d \in Conns, CliStep(d), [Next]_vars,
         SentAsRequested(d), OpenWhileRunning(d), HeardLeft(d), OutcomeTrue(d)
  PROVE  OutcomeTrue(d)'
<1>0. TypeOK /\ PartOfLast(d)
  BY DEF IInv
<1>1. UNCHANGED <<hive, handle, received, replies, command, arg>>
  BY <1>0, CliSide
<1>2. Body(d)' = Body(d) /\ command'[d] = command[d]
  BY <1>1, SameRequest
<1>. USE DEF OutcomeTrue, Advance, CliTyped
<1>3. CASE InvalidCommand(d) \/ BadUsage(d) \/ Dial(d) \/ IpcClientInit(d) \/ Send(d)
  BY <1>3 DEF InvalidCommand, BadUsage, Dial, IpcClientInit, Send
<1>4. CASE DialRefused(d)
  <2>1. phase[d] = "start" /\ phase'[d] = "refused" /\ sent' = sent
    BY <1>4 DEF DialRefused, vars, peerVars
  <2>2. Unheard(d)'
    BY <2>1 DEF SentAsRequested, Unheard
  <2>. QED
    BY <2>1, <2>2
<1>5. CASE SendMore(d) \/ Exit(d)
  <2>1. /\ phase'[d] = phase[d] /\ sent'[d] = sent[d] /\ taken'[d] = taken[d]
    BY <1>5 DEF SendMore, Exit, PeerWriteMore, PeerClose, cliVars, peerVars
  <2>. QED
    BY <1>1, <2>1, OutcomeKept
<1>6. CASE Sent(d)
  BY <1>1, <1>6 DEF Sent
<1>7. CASE OnMessageSent(d)
  BY <1>1, <1>7 DEF OnMessageSent
<1>8. CASE SendFails(d)
  <2>1. /\ StillWriting(d) /\ ~Connected(d) /\ phase'[d] = "ioerror" /\ sent' = sent
    BY <1>8 DEF SendFails, vars, peerVars
  <2>2. sent[d] = << >> \/ Segments[Body(d)] > 1
    BY <1>0, <2>1, WriteFails
  <2>3. phase[d] \in Running /\ peer[d] = "open"
    BY <2>1 DEF StillWriting, Running, OpenWhileRunning
  <2>4. hive = "exited" \/ handle[d] \in {"closing", "freed"}
    BY <1>0, <2>1, <2>3 DEF Connected, TypeOK
  <2>5. Unheard(d)
    BY <2>3, <2>4, ClosedUnheard
  <2>6. Unheard(d)'
    BY <1>1, <2>1, <2>5 DEF Unheard
  <2>. QED
    BY <1>2, <2>1, <2>2, <2>6
<1>9. CASE Receive(d)
  <2>1. /\ phase[d] = "awaiting" /\ command[d] = "ping"
        /\ taken[d] < Len(replies[d]) /\ taken'[d] = taken[d] + 1
    BY <1>0, <1>9 DEF Receive, PeerRead, TypeOK
  <2>2. /\ taken[d] \in Nat /\ Len(replies[d]) \in {0, 1}
        /\ Len(replies[d]) = 1 => Body(d) \in Bodies /\ replies[d][1] = Pong(Body(d))
    BY OneMessage
  <2>3. taken[d] = 0 /\ Len(replies[d]) = 1
    <3>. DEFINE n == Len(replies[d])
    <3>1. n \in {0, 1} /\ taken[d] \in Nat /\ taken[d] < n
      BY <2>1, <2>2
    <3>. HIDE DEF n
    <3>2. taken[d] = 0 /\ n = 1
      BY <3>1
    <3>. QED
      BY <3>2 DEF n
  <2>4. replies[d][taken[d] + 1] = Pong(Body(d)) /\ Body(d) = Digest(d)
    BY <2>1, <2>2, <2>3, BodyTyped
  <2>5. /\ CliReadKind(replies[d][taken[d] + 1]) = kPongKind
        /\ CliReadDigest(replies[d][taken[d] + 1]) = Digest(d)
    BY <2>2, <2>3, <2>4, PongRead
  <2>6. phase'[d] = "ok"
    BY <1>9, <2>5 DEF Receive
  <2>. QED
    BY <1>2, <2>1, <2>3, <2>6
<1>10. CASE ReceiveEof(d)
  BY <1>1, <1>10 DEF ReceiveEof
<1>11. CASE LoopEnds(d)
  <2>1. /\ phase[d] = "listening" /\ phase'[d] = "ok" /\ sent' = sent
        /\ hive = "exited" \/ handle[d] \in {"closing", "freed"}
    BY <1>11 DEF LoopEnds, vars, peerVars
  <2>2. Unheard(d)
    BY <2>1, ClosedUnheard DEF Running
  <2>3. Unheard(d)'
    BY <1>1, <2>1, <2>2 DEF Unheard
  <2>. QED
    BY <1>2, <2>1, <2>3
<1>12. CASE Deadline(d) \/ Kill(d)
  BY <1>12 DEF Deadline, Kill
<1>. QED
  BY <1>3, <1>4, <1>5, <1>6, <1>7, <1>8, <1>9, <1>10, <1>11, <1>12 DEF CliStep, CliProgress

LEMMA OutcomeStep ==
  ASSUME IInv, FreedIsEmpty, CliTyped, [SystemNext]_systemVars, NEW d \in Conns,
         SentAsRequested(d), OpenWhileRunning(d), HeardLeft(d), OutcomeTrue(d)
  PROVE  OutcomeTrue(d)'
<1>0. TypeOK /\ [Next]_vars
  BY StepsOfServer DEF IInv
<1>1. ASSUME NEW c \in Conns, CliStep(c), c # d
      PROVE  OutcomeTrue(d)'
  <2>1. /\ UNCHANGED <<command, arg>>
        /\ phase'[d] = phase[d] /\ sent'[d] = sent[d] /\ taken'[d] = taken[d]
    BY <1>0, <1>1, CliSide
  <2>. QED
    BY <1>0, <2>1, OutcomeKept
<1>2. CASE UNCHANGED <<command, arg, phase, peer, sent, unsent, taken>>
  BY <1>0, <1>2, OutcomeKept
<1>3. CASE CliStep(d)
  BY <1>0, <1>3, OutcomeCli
<1>. QED
  BY <1>1, <1>2, <1>3, HiveSide

-----------------------------------------------------------------------------
(* Who ends the hive.                                                       *)
Guilty(c) ==
  \/ Sendable(c) /\ Segments[Body(c)] > 1
  \/ SigPipe = "default" /\ command[c] = "ping" /\ phase[c] \in {"timeout", "killed"}

(* A culprit of the server with one request is guilty: if the pong is not   *)
(* taken and the connection neither closed nor dropped by the hive, a ping  *)
(* ends in no other way.                                                    *)
LEMMA CulpritIsGuilty ==
  ASSUME IInv, CliTyped, NEW c \in Conns, Culprit(c), hive = "up", handle[c] = "reading",
         SentAsRequested(c), OpenWhileRunning(c), OutcomeTrue(c)
  PROVE  Guilty(c)
<1>0. TypeOK
  BY DEF IInv
<1>1. /\ Len(sent[c]) \in {0, 1} /\ Len(replies[c]) \in {0, 1}
      /\ taken[c] \in Nat /\ taken[c] <= Len(replies[c])
  BY OneMessage
<1>2. CASE sent[c] = << >>
  <2>1. Len(sent[c]) = 0
    BY <1>2
  <2>. QED
    BY <1>1, <2>1 DEF Culprit
<1>3. CASE sent[c] # << >>
  <2>1. Sendable(c) /\ sent[c] = << Request(c) >>
    BY <1>3 DEF SentAsRequested, Asked
  <2>2. Len(<< Request(c) >>) = 1 /\ << Request(c) >>[1] = Request(c)
    OBVIOUS
  <2>3. /\ Request(c) \in PeerDocuments
        /\ DocumentKind(Request(c)) = IF command[c] = "ping" THEN kPingKind ELSE kEventKind
        /\ SegmentsOf(Request(c)) = Segments[Body(c)]
    BY <2>1, RequestSays DEF SegmentsOf
  <2>4. SegmentsOf(Request(c)) \in Nat \ {0}
    BY <2>3, SegmentsTyped
  <2>5. CASE SegmentsOf(Request(c)) # 1
    BY <2>1, <2>3, <2>4, <2>5 DEF Guilty
  <2>6. CASE SegmentsOf(Request(c)) = 1
    <3>1. /\ SigPipe = "default" /\ peer[c] = "closed"
          /\ Len(replies[c]) < 1 /\ DocumentKind(Request(c)) # kEventKind
      BY <1>1, <2>1, <2>2, <2>3, <2>6 DEF Culprit
    <3>2. command[c] = "ping" /\ phase[c] \in Outcomes
      BY <2>3, <3>1 DEF OpenWhileRunning
    <3>3. ~(taken[c] >= 1)
      BY <1>1, <3>1
    <3>4. phase[c] \notin {"ok", "usage", "refused", "ioerror", "eof", "badkind", "mismatch"}
      BY <1>3, <2>3, <2>6, <3>2, <3>3 DEF OutcomeTrue, SentAsRequested
    <3>. QED
      BY <3>1, <3>2, <3>4 DEF Guilty, Outcomes
  <2>. QED
    BY <2>5, <2>6
<1>. QED
  BY <1>2, <1>3

LEMMA GuiltyStays ==
  ASSUME TypeOK, CliTyped, [SystemNext]_systemVars, NEW c \in Conns, Guilty(c)
  PROVE  Guilty(c)'
<1>1. UNCHANGED <<command, arg>>
  BY CliSide, HiveSide
<1>2. phase[c] \in {"timeout", "killed"} => phase'[c] = phase[c]
  BY OutcomeFinal DEF Outcomes
<1>. QED
  BY <1>1, <1>2, SameRequest DEF Guilty

-----------------------------------------------------------------------------
(* The inductive invariant of the system.                                   *)
SystemIInv ==
  /\ IInv
  /\ FreedIsEmpty
  /\ CliTyped
  /\ \A c \in Conns : SentAsRequested(c) /\ OpenWhileRunning(c) /\ HeardLeft(c) /\ OutcomeTrue(c)
  /\ hive = "exited" => \E c \in Conns : Guilty(c)

LEMMA SystemIInvInit == SystemInit => SystemIInv
<1>. SUFFICES ASSUME SystemInit PROVE SystemIInv
  OBVIOUS
<1>1. Init /\ IInv
  BY IInvInit DEF SystemInit
<1>2. FreedIsEmpty /\ hive = "up"
  BY <1>1 DEF Init, FreedIsEmpty
<1>3. CliTyped
  BY DEF SystemInit, CliTyped
<1>4. ASSUME NEW c \in Conns
      PROVE  SentAsRequested(c) /\ OpenWhileRunning(c) /\ HeardLeft(c) /\ OutcomeTrue(c)
  <2>1. /\ phase[c] = "start" /\ sent[c] = << >> /\ peer[c] = "idle" /\ handle[c] = "none"
    BY <1>1 DEF Init, SystemInit
  <2>. QED
    BY <2>1 DEF SentAsRequested, OpenWhileRunning, HeardLeft, OutcomeTrue, Running
<1>. QED
  BY <1>1, <1>2, <1>3, <1>4 DEF SystemIInv

LEMMA SystemIInvStep == SystemIInv /\ [SystemNext]_systemVars => SystemIInv'
<1>. SUFFICES ASSUME SystemIInv, [SystemNext]_systemVars PROVE SystemIInv'
  OBVIOUS
<1>1. /\ IInv /\ FreedIsEmpty /\ CliTyped
      /\ \A c \in Conns : /\ SentAsRequested(c) /\ OpenWhileRunning(c)
                          /\ HeardLeft(c) /\ OutcomeTrue(c)
      /\ hive = "exited" => \E c \in Conns : Guilty(c)
  BY DEF SystemIInv
<1>2. [Next]_vars
  BY <1>1, StepsOfServer
<1>3. /\ TypeOK /\ FreshUntilAccepted
      /\ \A c \in Conns : InOrder(c) /\ Paired(c) /\ PartOfLast(c)
  BY <1>1 DEF IInv
<1>4. IInv' /\ CliTyped'
  BY <1>1, <1>2, <1>3, IInvStep, CliTypedStep
<1>5. FreedIsEmpty'
  BY <1>1, <1>2, ClosedStep DEF ClosedStays, FreedIsEmpty
<1>6. \A d \in Conns : /\ SentAsRequested(d)' /\ OpenWhileRunning(d)'
                       /\ HeardLeft(d)' /\ OutcomeTrue(d)'
  <2>1. \A d \in Conns : SentAsRequested(d)'
    BY <1>1, <1>3, SentStep
  <2>2. \A d \in Conns : OpenWhileRunning(d)'
    BY <1>1, <1>3, OpenStep
  <2>3. \A d \in Conns : HeardLeft(d)'
    BY <1>1, <1>2, <1>3, HeardStep
  <2>4. \A d \in Conns : OutcomeTrue(d)'
    BY <1>1, OutcomeStep
  <2>. QED
    BY <2>1, <2>2, <2>3, <2>4
<1>7. ASSUME hive' = "exited"
      PROVE  \E c \in Conns : Guilty(c)'
  <2>1. \E c \in Conns : Guilty(c)
    <3>1. CASE hive = "exited"
      BY <1>1, <3>1
    <3>2. CASE hive = "up"
      <4>1. PICK c \in Conns : OnRead(c) \/ UvWrite(c)
        BY <1>2, <1>3, <1>7, <3>2, HiveExits
      <4>2. Culprit(c) /\ handle[c] = "reading"
        BY <1>3, <1>7, <4>1, CulpritByRead, CulpritByWrite DEF OnRead, Readable, UvWrite
      <4>. QED
        BY <1>1, <3>2, <4>2, CulpritIsGuilty
    <3>. QED
      BY <1>3, <3>1, <3>2 DEF TypeOK
  <2>. QED
    BY <1>1, <1>3, <2>1, GuiltyStays
<1>. QED
  BY <1>4, <1>5, <1>6, <1>7 DEF SystemIInv

LEMMA SystemInvariant == SystemSpec => []SystemIInv
  BY SystemIInvInit, SystemIInvStep, PTL DEF SystemSpec

(* The hive with its processes is the server with peers, fairness included: *)
(* what the server promises to arbitrary peers it promises to these.        *)
THEOREM SystemRunsTheServer == SystemSpec => Spec
<1>1. SystemInit => Init
  BY DEF SystemInit
<1>2. SystemIInv /\ [SystemNext]_systemVars => [Next]_vars
  BY StepsOfServer DEF SystemIInv
<1>. QED
  BY <1>1, <1>2, SystemInvariant, PTL DEF SystemSpec, Spec

(* So whatever command lines and C clients there are, their messages are    *)
(* dispatched in order and answered in order, a write is lost only to one   *)
(* that left, and a connection that was closed stays closed.                *)
THEOREM SystemKeepsServerPromises ==
  SystemSpec => /\ [](InOrderDispatch /\ EchoInOrder /\ LeaksOnlyForLeavers)
                /\ []OnlyUndisciplinedPeersEndIt
                /\ ClosedIsFinal
  BY SystemRunsTheServer, DispatchInOrder, EchoesInOrder, LeaksBlamed, ExitsAreBlamed,
     ClosedForGood, PTL

(* Every variable of the hive and of its processes keeps its type.          *)
THEOREM SystemTypeCorrect == SystemSpec => []SystemTypeOK
<1>1. SystemIInv => SystemTypeOK
  BY DEF SystemIInv, IInv, CliTyped, SystemTypeOK
<1>. QED
  BY <1>1, SystemInvariant, PTL

(* The two sanity checks of ping never fire: whatever a ping reads is the   *)
(* pong of its own digest, with any number of processes, however they end.  *)
THEOREM PongsAreMine == SystemSpec => []PongIsMine
<1>1. SystemIInv => PongIsMine
  BY DEF SystemIInv, OutcomeTrue, PongIsMine
<1>. QED
  BY <1>1, SystemInvariant, PTL

(* IpcClientRun returns true, while the hive is up, only to a client whose  *)
(* event was never dispatched.                                              *)
THEOREM TrueIsUnheard == SystemSpec => []TrueMeansUnheard
<1>1. SystemIInv => TrueMeansUnheard
  <2>. SUFFICES ASSUME SystemIInv, NEW c \in Conns, command[c] = "hello", hive = "up",
                       phase[c] \in {"ok", "refused", "ioerror"}
                PROVE  received[c] = << >>
    BY DEF TrueMeansUnheard
  <2>1. Unheard(c)
    BY DEF SystemIInv, OutcomeTrue
  <2>2. CASE sent[c] = << >>
    <3>1. Len(received[c]) <= 0 /\ received[c] \in Seq(Dispatched)
      <4>1. Len(received[c]) <= Len(sent[c]) /\ received[c] \in Seq(Dispatched)
        BY DEF SystemIInv, IInv, InOrder, TypeOK
      <4>. QED
        BY <2>2, <4>1
    <3>. QED
      BY <3>1
  <2>. QED
    BY <2>1, <2>2 DEF Unheard
<1>. QED
  BY <1>1, SystemInvariant, PTL

(* The hive exits only by a request that needs more than one write or, if   *)
(* SIGPIPE kills, by a ping that was killed or timed out before its pong.   *)
THEOREM ShortArgumentsAreSafe == SystemSpec => []ShortArgumentsKeepItUp
<1>1. SystemIInv => ShortArgumentsKeepItUp
  BY DEF SystemIInv, Guilty, ShortArgumentsKeepItUp
<1>. QED
  BY <1>1, SystemInvariant, PTL

-----------------------------------------------------------------------------
(* The refinement of HiveService, step by step.                             *)

(* What the service sees of a process, without the codec.                   *)
Answered(c) == IF phase[c] = "ok" /\ command[c] = "ping" THEN Body(c) ELSE EmptyBody

LEMMA AnswerRead ==
  ASSUME SystemIInv, NEW c \in Conns
  PROVE  (IF phase[c] = "ok" /\ command[c] = "ping"
            THEN CliReadDigest(replies[c][taken[c]]) ELSE EmptyBody) = Answered(c)
<1>1. CASE phase[c] = "ok" /\ command[c] = "ping"
  <2>1. taken[c] >= 1 /\ CliTyped /\ IInv /\ SentAsRequested(c)
    BY <1>1 DEF SystemIInv, OutcomeTrue
  <2>2. /\ taken[c] \in Nat /\ taken[c] <= Len(replies[c]) /\ Len(replies[c]) \in {0, 1}
        /\ Len(replies[c]) = 1 => Body(c) \in Bodies /\ replies[c][1] = Pong(Body(c))
    BY <2>1, OneMessage
  <2>3. taken[c] = 1 /\ Len(replies[c]) = 1
    <3>. DEFINE n == Len(replies[c])
    <3>1. n \in {0, 1} /\ taken[c] \in Nat /\ taken[c] >= 1 /\ taken[c] <= n
      BY <2>1, <2>2
    <3>. HIDE DEF n
    <3>2. taken[c] = 1 /\ n = 1
      BY <3>1
    <3>. QED
      BY <3>2 DEF n
  <2>. QED
    BY <1>1, <2>2, <2>3, PongRead DEF Answered
<1>2. CASE ~(phase[c] = "ok" /\ command[c] = "ping")
  BY <1>2 DEF Answered
<1>. QED
  BY <1>1, <1>2

(* A connection that nothing happened to looks the same to the service.     *)
LEMMA SameService ==
  ASSUME UNCHANGED <<command, arg>>, NEW d \in Conns, phase'[d] = phase[d],
         sent'[d] = sent[d], unsent'[d] = unsent[d]
  PROVE  ServiceState(d)' = ServiceState(d) /\ Answered(d)' = Answered(d)
  BY SameRequest DEF ServiceState, Answered

(* ServiceState, phase by phase.                                            *)
ServiceStateOf(c) ==
  /\ phase[c] \in {"start", "connected"} => ServiceState(c) = "idle"
  /\ phase[c] \in {"writing", "awaiting"} => ServiceState(c) = "asking"
  /\ phase[c] \in {"ok", "listening"} => ServiceState(c) = "done"
  /\ phase[c] = "killed" =>
       ServiceState(c) = IF command[c] = "hello" /\ sent[c] # << >> /\ unsent[c] = 0
                           THEN "done" ELSE "failed"
  /\ phase[c] \in {"refused", "usage", "ioerror", "eof", "timeout", "badkind", "mismatch"}
       => ServiceState(c) = "failed"

LEMMA ServiceStates ==
  ASSUME NEW c \in Conns
  PROVE  ServiceStateOf(c) /\ ServiceStateOf(c)'
<1>1. ServiceStateOf(c)
  BY DEF ServiceState, ServiceStateOf
<1>2. ServiceStateOf(c)'
  BY DEF ServiceState, ServiceStateOf
<1>. QED
  BY <1>1, <1>2

(* What a step of a process is to the service.                              *)
LEMMA CliServes ==
  ASSUME SystemIInv, NEW c \in Conns, CliStep(c), [SystemNext]_systemVars
  PROVE  \/ ServiceState(c)' = ServiceState(c) /\ Answered(c)' = Answered(c)
         \/ /\ ServiceState(c) = "idle" /\ ServiceState(c)' = "asking"
            /\ Answered(c)' = Answered(c)
         \/ /\ ServiceState(c) = "asking" /\ ServiceState(c)' = "done"
            /\ command[c] = "ping" /\ Len(received[c]) = 1 /\ Answered(c)' = Body(c)
         \/ /\ ServiceState(c) = "asking" /\ ServiceState(c)' = "done"
            /\ command[c] # "ping" /\ Answered(c)' = Answered(c)
         \/ /\ ServiceState(c) \in {"idle", "asking"} /\ ServiceState(c)' = "failed"
            /\ Answered(c)' = Answered(c)
<1>0. /\ IInv /\ TypeOK /\ CliTyped /\ PartOfLast(c)
      /\ SentAsRequested(c) /\ OpenWhileRunning(c) /\ HeardLeft(c) /\ OutcomeTrue(c)
  BY DEF SystemIInv, IInv
<1>1. UNCHANGED <<received, replies, command, arg>> /\ OutcomeTrue(c)'
  BY <1>0, CliSide, SystemIInvStep DEF SystemIInv
<1>2. command'[c] = command[c] /\ Body(c)' = Body(c)
  BY <1>1, SameRequest
<1>3. phase'[c] # "ok" /\ phase[c] # "ok" => Answered(c)' = Answered(c)
  BY DEF Answered
<1>4. command[c] # "ping" => Answered(c)' = Answered(c)
  BY <1>2 DEF Answered
<1>. USE DEF Advance, CliTyped
<1>5. CASE InvalidCommand(c) \/ DialRefused(c) \/ BadUsage(c)
  <2>1. phase[c] \in {"start", "connected"} /\ phase'[c] \in {"usage", "refused"}
    BY <1>0, <1>5 DEF InvalidCommand, DialRefused, BadUsage
  <2>. QED
    BY <1>3, <2>1, ServiceStates DEF ServiceStateOf
<1>6. CASE Dial(c) \/ IpcClientInit(c)
  <2>1. phase[c] = "start" /\ phase'[c] = "connected"
    BY <1>0, <1>6 DEF Dial, IpcClientInit
  <2>. QED
    BY <1>3, <2>1, ServiceStates DEF ServiceStateOf
<1>7. CASE Send(c)
  <2>1. phase[c] = "connected" /\ phase'[c] = "writing"
    BY <1>0, <1>7 DEF Send
  <2>. QED
    BY <1>3, <2>1, ServiceStates DEF ServiceStateOf
<1>8. CASE SendMore(c)
  <2>1. phase[c] = "writing" /\ phase'[c] = "writing"
    BY <1>0, <1>8 DEF SendMore, cliVars
  <2>. QED
    BY <1>3, <2>1, ServiceStates DEF ServiceStateOf
<1>9. CASE Sent(c)
  <2>1. /\ phase[c] = "writing"
        /\ phase'[c] = "awaiting" \/ (phase'[c] = "ok" /\ command[c] # "ping")
    BY <1>0, <1>9 DEF Sent
  <2>. QED
    BY <1>3, <1>4, <2>1, ServiceStates DEF ServiceStateOf
<1>10. CASE OnMessageSent(c)
  <2>1. phase[c] = "writing" /\ phase'[c] = "listening" /\ command[c] = "hello"
    BY <1>0, <1>10 DEF OnMessageSent
  <2>. QED
    BY <1>3, <2>1, ServiceStates DEF ServiceStateOf
<1>11. CASE SendFails(c)
  <2>1. phase[c] \in {"connected", "writing"} /\ phase'[c] = "ioerror"
    BY <1>0, <1>11 DEF SendFails, StillWriting
  <2>. QED
    BY <1>3, <2>1, ServiceStates DEF ServiceStateOf
<1>12. CASE Receive(c)
  <2>1. /\ phase[c] = "awaiting" /\ command[c] = "ping"
        /\ taken[c] < Len(replies[c])
        /\ phase'[c] \in {"ok", "badkind", "mismatch"}
    BY <1>0, <1>12 DEF Receive, PeerRead, OutcomeTrue
  <2>2. phase'[c] = "ok"
    BY <1>1, <2>1 DEF OutcomeTrue
  <2>3. Len(received[c]) = 1
    <3>. DEFINE n == Len(replies[c])
    <3>1. n \in {0, 1} /\ taken[c] \in Nat /\ taken[c] < n /\ (n = 1 => Len(received[c]) = 1)
      BY <1>0, <2>1, OneMessage
    <3>. HIDE DEF n
    <3>. QED
      BY <3>1
  <2>4. Answered(c)' = Body(c)
    BY <1>2, <2>1, <2>2 DEF Answered
  <2>. QED
    BY <2>1, <2>2, <2>3, <2>4, ServiceStates DEF ServiceStateOf
<1>13. CASE ReceiveEof(c) \/ Deadline(c)
  <2>1. phase[c] \in {"connected", "writing", "awaiting"} /\ phase'[c] \in {"eof", "timeout"}
    BY <1>0, <1>13 DEF ReceiveEof, Deadline, StillWriting
  <2>. QED
    BY <1>3, <2>1, ServiceStates DEF ServiceStateOf
<1>14. CASE LoopEnds(c)
  <2>1. phase[c] = "listening" /\ phase'[c] = "ok" /\ command[c] = "hello"
    BY <1>0, <1>14 DEF LoopEnds, OutcomeTrue
  <2>. QED
    BY <1>4, <2>1, ServiceStates DEF ServiceStateOf
<1>15. CASE Kill(c)
  <2>1. phase[c] \in Running /\ phase'[c] = "killed" /\ UNCHANGED <<sent, unsent>>
    BY <1>0, <1>15 DEF Kill, vars, peerVars
  <2>2. Answered(c)' = Answered(c)
    BY <1>3, <2>1 DEF Running
  <2>3. ServiceState(c)' = IF command[c] = "hello" /\ sent[c] # << >> /\ unsent[c] = 0
                             THEN "done" ELSE "failed"
    BY <1>2, <2>1, ServiceStates DEF ServiceStateOf
  <2>4. CASE phase[c] = "connected"
    <3>1. sent[c] = << >>
      BY <1>0, <2>4 DEF SentAsRequested
    <3>. QED
      BY <2>2, <2>3, <2>4, <3>1, ServiceStates DEF ServiceStateOf
  <2>5. CASE phase[c] = "writing"
    BY <2>2, <2>3, <2>5, ServiceStates DEF ServiceStateOf
  <2>6. CASE phase[c] = "awaiting"
    <3>1. command[c] = "ping"
      BY <1>0, <2>6 DEF OutcomeTrue
    <3>. QED
      BY <2>2, <2>3, <2>6, <3>1, ServiceStates DEF ServiceStateOf
  <2>7. CASE phase[c] = "listening"
    <3>1. command[c] = "hello" /\ sent[c] # << >> /\ unsent[c] = 0
      <4>1. sent[c] = << Request(c) >> /\ unsent[c] = 0
        BY <1>0, <2>7 DEF SentAsRequested, Asked
      <4>. QED
        BY <1>0, <2>7, <4>1 DEF OutcomeTrue
    <3>. QED
      BY <2>2, <2>3, <2>7, <3>1, ServiceStates DEF ServiceStateOf
  <2>. QED
    BY <2>1, <2>4, <2>5, <2>6, <2>7 DEF Running
<1>16. CASE Exit(c)
  <2>1. phase'[c] = phase[c] /\ sent'[c] = sent[c] /\ unsent'[c] = unsent[c]
    BY <1>16 DEF Exit, PeerClose, cliVars
  <2>. QED
    BY <1>1, <2>1, SameService
<1>. QED
  BY <1>5, <1>6, <1>7, <1>8, <1>9, <1>10, <1>11, <1>12, <1>13, <1>14, <1>15, <1>16
     DEF CliStep, CliProgress

(* What a step of the hive is to the service: it dispatches a request that  *)
(* was made and had not been dispatched, or nothing.                        *)
LEMMA HiveServes ==
  ASSUME SystemIInv, [SystemNext]_systemVars, UNCHANGED <<phase, sent>>
  PROVE  \/ received' = received
         \/ \E c \in Conns :
              /\ ServiceState(c) # "idle"
              /\ Len(received[c]) = 0 /\ Len(received'[c]) = 1
              /\ \A d \in Conns : d # c => received'[d] = received[d]
<1>0. /\ IInv /\ TypeOK /\ CliTyped
      /\ \A c \in Conns : SentAsRequested(c) /\ InOrder(c)
  BY DEF SystemIInv, IInv
<1>1. ASSUME NEW c \in Conns, OnRead(c)
      PROVE  \/ received' = received
             \/ /\ ServiceState(c) # "idle"
                /\ Len(received[c]) = 0 /\ Len(received'[c]) = 1
                /\ \A d \in Conns : d # c => received'[d] = received[d]
  <2>. DEFINE doc == NextUnread(c)
              m   == [kind |-> DocumentKind(doc), body |-> DocumentBody(doc)]
  <2>1. /\ Len(received[c]) + 1 \in 1..Len(sent[c])
        /\ DocumentBody(doc) \in Bodies
        /\ \/ received' = received
           \/ DocumentKind(doc) \in {kPingKind, kEventKind} /\ Dispatch(c, m)
    BY <1>0, <1>1, OnReadEffect
  <2>2. CASE DocumentKind(doc) \in {kPingKind, kEventKind} /\ Dispatch(c, m)
    <3>1. received' = [received EXCEPT ![c] = Append(@, m)]
      BY <1>0, <2>1, <2>2, DispatchEffect
    <3>2. Len(sent[c]) \in {0, 1} /\ Len(received[c]) \in {0, 1}
      BY <1>0, OneMessage
    <3>3. Len(received[c]) = 0 /\ Len(sent[c]) = 1
      BY <2>1, <3>2
    <3>4. received'[c] = Append(received[c], m) /\ received[c] \in Seq(Dispatched)
      BY <1>0, <3>1 DEF TypeOK
    <3>5. Len(received'[c]) = 1
      BY <3>3, <3>4
    <3>6. phase[c] \notin {"start", "connected"}
      <4>1. sent[c] # << >>
        <5>. SUFFICES ASSUME sent[c] = << >> PROVE FALSE
          OBVIOUS
        <5>1. Len(sent[c]) = 0
          OBVIOUS
        <5>. QED
          BY <3>3, <5>1
      <4>. QED
        BY <1>0, <4>1 DEF SentAsRequested
    <3>7. ServiceState(c) # "idle"
      BY <3>6 DEF ServiceState
    <3>8. \A d \in Conns : d # c => received'[d] = received[d]
      BY <1>0, <3>1 DEF TypeOK
    <3>. QED
      BY <3>3, <3>5, <3>7, <3>8
  <2>. QED
    BY <2>1, <2>2
<1>2. [Next]_vars
  BY <1>0, StepsOfServer
<1>3. ASSUME NEW c \in Conns, NEW doc \in PeerDocuments, PeerWrite(c, doc)
      PROVE  FALSE
  <2>1. sent'[c] = Append(sent[c], doc) /\ sent[c] \in Seq(PeerDocuments)
    BY <1>0, <1>3 DEF PeerWrite, TypeOK
  <2>2. Len(sent'[c]) = Len(sent[c]) + 1 /\ Len(sent[c]) \in Nat
    BY <2>1
  <2>. QED
    BY <2>2
<1>. QED
  BY <1>1, <1>2, <1>3, SentReceivedFrame

(* The service's variables, as functions of the processes.                  *)
Wants    == [c \in Conns |-> IF command[c] = "ping" THEN "ping" ELSE "publish"]
Requests == [c \in Conns |-> Body(c)]
States   == [c \in Conns |-> ServiceState(c)]
Serves   == [c \in Conns |-> Len(received[c])]

(* What they were told, as HiveSystem says it, and as it is.                *)
ToldRead == [c \in Conns |-> IF phase[c] = "ok" /\ command[c] = "ping"
                               THEN CliReadDigest(replies[c][taken[c]]) ELSE EmptyBody]
Told     == [c \in Conns |-> Answered(c)]

LEMMA ToldAsRead == SystemIInv => ToldRead = Told
  BY AnswerRead DEF ToldRead, Told

LEMMA ServiceInit == SystemInit => Service!Init
<1>. SUFFICES ASSUME SystemInit PROVE Service!Init
  OBVIOUS
<1>1. SystemIInv
  BY SystemIInvInit
<1>2. CliTyped
  BY <1>1 DEF SystemIInv
<1>3. \A c \in Conns : phase[c] = "start" /\ Len(received[c]) = 0
  BY DEF SystemInit, Init
<1>4. States = [c \in Conns |-> "idle"] /\ Told = [c \in Conns |-> EmptyBody]
  BY <1>3 DEF States, Told, ServiceState, Answered
<1>5. Serves = [c \in Conns |-> 0]
  BY <1>3 DEF Serves
<1>6. Requests \in [Conns -> Bodies \cup {EmptyBody}] /\ Wants \in [Conns -> {"ping", "publish"}]
  BY <1>2, BodyTyped DEF Requests, Wants
<1>. QED
  BY <1>1, <1>4, <1>5, <1>6, ToldAsRead
     DEF Service!Init, Wants, Requests, States, Serves, ToldRead

LEMMA ServiceStep ==
  SystemIInv /\ [SystemNext]_systemVars => [Service!Next]_(Service!vars)
<1>. SUFFICES ASSUME SystemIInv, [SystemNext]_systemVars
     PROVE  [Service!Next]_(Service!vars)
  OBVIOUS
<1>1. SystemIInv'
  BY SystemIInvStep
<1>2. (SystemIInv => ToldRead = Told)'
  BY ToldAsRead, PTL
<1>3. ToldRead = Told /\ ToldRead' = Told'
  BY <1>1, <1>2, ToldAsRead
<1>4. TypeOK /\ CliTyped /\ UNCHANGED <<command, arg>>
  <2>1. TypeOK /\ CliTyped
    BY DEF SystemIInv, IInv
  <2>. QED
    BY <2>1, CliSide, HiveSide
<1>5. Wants' = Wants /\ Requests' = Requests
  BY <1>4, SameRequest DEF Wants, Requests
<1>6. ASSUME UNCHANGED <<Wants, Requests, States, Serves, ToldRead>>
      PROVE  UNCHANGED Service!vars
  BY <1>6 DEF Service!vars, Wants, Requests, States, Serves, ToldRead
<1>7. ASSUME NEW c \in Conns, CliStep(c)
      PROVE  [Service!Next]_(Service!vars)
  <2>1. /\ received' = received
        /\ \A d \in Conns : d # c => /\ ServiceState(d)' = ServiceState(d)
                                     /\ Answered(d)' = Answered(d)
    BY <1>4, <1>7, CliSide, SameService
  <2>2. /\ Serves' = Serves
        /\ States' = [States EXCEPT ![c] = ServiceState(c)']
        /\ ToldRead' = [ToldRead EXCEPT ![c] = Answered(c)']
    <3>1. Serves' = Serves /\ States' = [States EXCEPT ![c] = ServiceState(c)']
      BY <2>1 DEF Serves, States
    <3>2. Told' = [Told EXCEPT ![c] = Answered(c)']
      BY <2>1 DEF Told
    <3>. QED
      BY <1>3, <3>1, <3>2
  <2>3. ASSUME Answered(c)' = Answered(c)
        PROVE  ToldRead' = ToldRead
    BY <1>3, <2>2, <2>3 DEF Told
  <2>4. States[c] = ServiceState(c) /\ Wants[c] = (IF command[c] = "ping" THEN "ping" ELSE "publish")
        /\ Requests[c] = Body(c) /\ Serves[c] = Len(received[c])
    BY DEF States, Wants, Requests, Serves
  <2>5. CASE ServiceState(c)' = ServiceState(c) /\ Answered(c)' = Answered(c)
    <3>1. States' = States
      BY <2>2, <2>5 DEF States
    <3>. QED
      BY <1>5, <1>6, <2>2, <2>3, <2>5, <3>1
  <2>6. CASE /\ ServiceState(c) = "idle" /\ ServiceState(c)' = "asking"
             /\ Answered(c)' = Answered(c)
    <3>1. Service!Ask(c)
      BY <1>5, <2>2, <2>3, <2>4, <2>6 DEF Service!Ask, Wants, Requests, States, Serves, ToldRead
    <3>. QED
      BY <3>1 DEF Service!Next
  <2>7. CASE /\ ServiceState(c) = "asking" /\ ServiceState(c)' = "done"
             /\ command[c] = "ping" /\ Len(received[c]) = 1 /\ Answered(c)' = Body(c)
    <3>1. Service!Answer(c)
      BY <1>5, <2>2, <2>4, <2>7 DEF Service!Answer, Wants, Requests, States, Serves, ToldRead
    <3>. QED
      BY <3>1 DEF Service!Next
  <2>8. CASE /\ ServiceState(c) = "asking" /\ ServiceState(c)' = "done"
             /\ command[c] # "ping" /\ Answered(c)' = Answered(c)
    <3>1. Service!Published(c)
      BY <1>5, <2>2, <2>3, <2>4, <2>8
         DEF Service!Published, Wants, Requests, States, Serves, ToldRead
    <3>. QED
      BY <3>1 DEF Service!Next
  <2>9. CASE /\ ServiceState(c) \in {"idle", "asking"} /\ ServiceState(c)' = "failed"
             /\ Answered(c)' = Answered(c)
    <3>1. Service!Fail(c)
      BY <1>5, <2>2, <2>3, <2>4, <2>9 DEF Service!Fail, Wants, Requests, States, Serves, ToldRead
    <3>. QED
      BY <3>1 DEF Service!Next
  <2>. QED
    BY <1>7, <2>5, <2>6, <2>7, <2>8, <2>9, CliServes
<1>8. CASE UNCHANGED <<command, arg, phase, peer, sent, unsent, taken>>
  <2>1. States' = States /\ Told' = Told
    BY <1>8, SameService DEF States, Told
  <2>2. ToldRead' = ToldRead
    BY <1>3, <2>1
  <2>3. CASE received' = received
    <3>1. Serves' = Serves
      BY <2>3 DEF Serves
    <3>. QED
      BY <1>5, <1>6, <2>1, <2>2, <3>1
  <2>4. CASE \E c \in Conns :
               /\ ServiceState(c) # "idle"
               /\ Len(received[c]) = 0 /\ Len(received'[c]) = 1
               /\ \A d \in Conns : d # c => received'[d] = received[d]
    <3>1. PICK c \in Conns :
               /\ ServiceState(c) # "idle"
               /\ Len(received[c]) = 0 /\ Len(received'[c]) = 1
               /\ \A d \in Conns : d # c => received'[d] = received[d]
      BY <2>4
    <3>2. Serves' = [Serves EXCEPT ![c] = 1] /\ Serves[c] = 0 /\ States[c] # "idle"
      BY <3>1 DEF Serves, States
    <3>3. Service!Serve(c)
      BY <1>5, <2>1, <2>2, <3>2 DEF Service!Serve, Wants, Requests, States, Serves, ToldRead
    <3>. QED
      BY <3>3 DEF Service!Next
  <2>. QED
    BY <1>8, <2>3, <2>4, HiveServes
<1>. QED
  BY <1>7, <1>8, HiveSide

(* The hive and its processes do what HiveService promises: each request is *)
(* dispatched at most once, a ping is told its own digest and only after    *)
(* the hive dispatched it, and no other answer is ever given.               *)
THEOREM SystemImplementsService == SystemSpec => Service!Safety
  BY ServiceInit, ServiceStep, SystemInvariant, PTL DEF SystemSpec, Service!Safety
=============================================================================
