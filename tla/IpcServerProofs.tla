-------------------------- MODULE IpcServerProofs --------------------------
(***************************************************************************)
(* Proofs about IpcServer, for any peers, documents, buffer sizes and      *)
(* bounds: types, the order of dispatch and of the echoes, that no ping is *)
(* answered more than once, which peers can end the hive, and which can    *)
(* make it leak.                                                           *)
(***************************************************************************)
EXTENDS IpcServer, IpcMessageProofs, FiniteSetTheorems

(* Messages are dispatched in the order, and as, they were written.         *)
InOrder(c) ==
  /\ Len(received[c]) <= Len(sent[c])
  /\ \A i \in 1..Len(received[c]) :
       received[c][i] = [kind |-> DocumentKind(sent[c][i]), body |-> DocumentBody(sent[c][i])]

(* Every pong has a ping to itself, which an event is not.                  *)
Replied(c) == Len(replies[c])
Queued(c)  == Len(wq[c])
Made(c)    == Replied(c) + Queued(c)
Lost(c)    == failed[c] + leaked[c]
Answers(c) == Made(c) + Lost(c)

Paired(c) ==
  /\ taken[c] <= Replied(c)
  /\ Answers(c) <= Len(received[c])
  /\ Len(received[c]) > 0 /\ received[c][Len(received[c])].kind = kEventKind
       => Answers(c) < Len(received[c])

-----------------------------------------------------------------------------
(* Changing a queue or a counter of one connection.                         *)
LEMMA AppendTyped ==
  ASSUME NEW S, NEW T, NEW f \in [S -> Seq(T)], NEW x \in S, NEW v \in T
  PROVE  [f EXCEPT ![x] = Append(@, v)] \in [S -> Seq(T)]
  OBVIOUS

LEMMA TailTyped ==
  ASSUME NEW S, NEW T, NEW f \in [S -> Seq(T)], NEW x \in S, f[x] # << >>
  PROVE  [f EXCEPT ![x] = Tail(@)] \in [S -> Seq(T)] /\ Head(f[x]) \in T
<1>1. f[x] \in Seq(T)
  OBVIOUS
<1>2. Tail(f[x]) \in Seq(T) /\ Head(f[x]) \in T
  BY <1>1
<1>. QED
  BY <1>2

LEMMA CountTyped ==
  ASSUME NEW S, NEW f \in [S -> Nat], NEW x \in S, NEW n \in Nat
  PROVE  /\ [f EXCEPT ![x] = n] \in [S -> Nat]
         /\ [f EXCEPT ![x] = @ + 1] \in [S -> Nat]
         /\ f[x] > 0 => [f EXCEPT ![x] = @ - 1] \in [S -> Nat]
  OBVIOUS

(* What OnRead does, said of the document instead of the decoded message.   *)
LEMMA OnReadEffect ==
  ASSUME TypeOK, NEW c \in Conns, OnRead(c)
  PROVE  LET doc == NextUnread(c) IN
         /\ hive = "up" /\ handle[c] = "reading"
         /\ Len(received[c]) + 1 \in 1..Len(sent[c])
         /\ doc \in PeerDocuments
         /\ DocumentKind(doc) \in MessageKinds /\ DocumentBody(doc) \in Bodies
         /\ UNCHANGED <<backlog, stray, peer, sent, unsent, taken, handle>>
         /\ \/ /\ ~(ReadsOneDocument(c) /\ DocumentKind(doc) \in {kPingKind, kEventKind})
               /\ hive' = "exited"
               /\ UNCHANGED <<received, wq, written, failed, leaked, replies>>
            \/ /\ DocumentKind(doc) \in {kPingKind, kEventKind}
               /\ Dispatch(c, [kind |-> DocumentKind(doc), body |-> DocumentBody(doc)])
<1>. DEFINE doc == NextUnread(c)
<1>1. Len(received[c]) + 1 \in 1..Len(sent[c])
  BY DEF OnRead, Readable, Unread, TypeOK
<1>2. doc \in PeerDocuments
  BY <1>1 DEF NextUnread, TypeOK
<1>3. doc \in Documents
  BY <1>2, IpcServerAssumption
<1>4. PICK mem \in Memory :
        LET m == ReadMessage(doc, mem) IN
        IF ReadsOneDocument(c) /\ m.kind \in {kPingKind, kEventKind}
          THEN Dispatch(c, m)
          ELSE hive' = "exited" /\ UNCHANGED <<received, writeVars>>
  BY DEF OnRead
<1>5. LET m == ReadMessage(doc, mem) IN
      /\ m.kind = DocumentKind(doc)
      /\ DocumentKind(doc) \in MessageKinds
      /\ DocumentBody(doc) \in Bodies
      /\ DocumentKind(doc) \in {kPingKind, kEventKind} => m.body = DocumentBody(doc)
  BY <1>3, DecodeDocument
<1>6. ASSUME DocumentKind(doc) \in {kPingKind, kEventKind}, Dispatch(c, ReadMessage(doc, mem))
      PROVE  Dispatch(c, [kind |-> DocumentKind(doc), body |-> DocumentBody(doc)])
  BY <1>5, <1>6 DEF Dispatch
<1>. QED
  BY <1>1, <1>2, <1>4, <1>5, <1>6 DEF OnRead, Readable, peerVars, writeVars

(* What becomes of the pong, one way or another.                            *)
LEMMA DispatchEffect ==
  ASSUME TypeOK, NEW c \in Conns, NEW k \in {kPingKind, kEventKind}, NEW body \in Bodies,
         Dispatch(c, [kind |-> k, body |-> body])
  PROVE  /\ received' = [received EXCEPT ![c] = Append(@, [kind |-> k, body |-> body])]
         /\ leaked' = leaked
         /\ \/ k = kEventKind /\ UNCHANGED <<hive, wq, replies, written, failed>>
            \/ /\ k = kPingKind
               /\ wq' = [wq EXCEPT ![c] = Append(@, Pong(body))]
               /\ UNCHANGED <<hive, replies, written, failed>>
            \/ /\ k = kPingKind
               /\ UNCHANGED wq
               /\ wq[c] = << >>
               /\ TryWrite(c, Pong(body))
  BY KindsDiffer DEF Dispatch, OnPing

LEMMA PongTyped == \A body \in Bodies : Pong(body) \in Pongs
  BY DEF Pongs

LEMMA TryWriteTyped ==
  ASSUME TypeOK, NEW c \in Conns, NEW pong \in Pongs, TryWrite(c, pong)
  PROVE  /\ hive' \in {"up", "exited"}
         /\ replies' \in [Conns -> Seq(Pongs)]
         /\ written' \in [Conns -> Nat]
         /\ failed' \in [Conns -> Nat]
<1>1. /\ hive \in {"up", "exited"}
      /\ replies \in [Conns -> Seq(Pongs)]
      /\ written \in [Conns -> Nat]
      /\ failed \in [Conns -> Nat]
  BY DEF TypeOK
<1>2. CASE /\ replies' = [replies EXCEPT ![c] = Append(@, pong)]
           /\ written' = [written EXCEPT ![c] = @ + 1]
           /\ UNCHANGED <<hive, failed>>
  <2>1. replies' \in [Conns -> Seq(Pongs)]
    BY <1>1, <1>2, AppendTyped
  <2>2. written' \in [Conns -> Nat]
    BY <1>1, <1>2, CountTyped
  <2>. QED
    BY <1>1, <1>2, <2>1, <2>2
<1>3. CASE /\ failed' = [failed EXCEPT ![c] = @ + 1]
           /\ hive' = IF SigPipe = "default" THEN "exited" ELSE hive
           /\ UNCHANGED <<replies, written>>
  <2>1. failed' \in [Conns -> Nat]
    BY <1>1, <1>3, CountTyped
  <2>. QED
    BY <1>1, <1>3, <2>1
<1>. QED
  BY <1>2, <1>3 DEF TryWrite

-----------------------------------------------------------------------------
LEMMA TypeInit == Init => TypeOK
<1>. SUFFICES ASSUME Init PROVE TypeOK
  OBVIOUS
<1>1. hive \in {"up", "exited"} /\ backlog \in Seq(Conns) /\ stray \in Nat
  BY DEF Init
<1>2. /\ peer \in [Conns -> {"idle", "open", "closed"}]
      /\ sent \in [Conns -> Seq(PeerDocuments)]
      /\ unsent \in [Conns -> Nat]
      /\ taken \in [Conns -> Nat]
  BY DEF Init
<1>3. /\ handle \in [Conns -> {"none", "reading", "closing", "freed"}]
      /\ received \in [Conns -> Seq(Dispatched)]
  BY DEF Init
<1>4. /\ wq \in [Conns -> Seq(Pongs)]
      /\ written \in [Conns -> Nat]
      /\ failed \in [Conns -> Nat]
      /\ leaked \in [Conns -> Nat]
      /\ replies \in [Conns -> Seq(Pongs)]
  BY DEF Init
<1>. QED
  BY <1>1, <1>2, <1>3, <1>4 DEF TypeOK

LEMMA TypePeer ==
  ASSUME TypeOK, NEW c \in Conns, PeerStep(c)
  PROVE  TypeOK'
<1>. USE DEF TypeOK, acceptVars, writeVars
<1>1. CASE PeerConnect(c)
  BY <1>1 DEF PeerConnect
<1>2. ASSUME NEW doc \in PeerDocuments, PeerWrite(c, doc)
      PROVE  TypeOK'
  <2>1. SegmentsOf(doc) \in Nat \ {0}
    <3>1. doc \in Documents
      BY IpcServerAssumption
    <3>2. DocumentBody(doc) \in Bodies
      BY <3>1, DocumentShape
    <3>. QED
      BY <3>2, IpcServerAssumption DEF SegmentsOf
  <2>2. sent' \in [Conns -> Seq(PeerDocuments)]
    BY <1>2, AppendTyped DEF PeerWrite
  <2>3. unsent' \in [Conns -> Nat]
    BY <1>2, <2>1, CountTyped DEF PeerWrite
  <2>. QED
    BY <1>2, <2>2, <2>3 DEF PeerWrite
<1>3. CASE PeerWriteMore(c)
  BY <1>3, CountTyped DEF PeerWriteMore
<1>4. CASE PeerRead(c)
  BY <1>4, CountTyped DEF PeerRead
<1>5. CASE PeerClose(c)
  BY <1>5 DEF PeerClose
<1>. QED
  BY <1>1, <1>2, <1>3, <1>4, <1>5 DEF PeerStep

LEMMA TypeAccept ==
  ASSUME TypeOK, AcceptStep
  PROVE  TypeOK'
<1>. USE DEF TypeOK, peerVars, writeVars
<1>1. CASE OnNewConnection \/ OnNewConnectionDropped
  <2>1. Head(backlog) \in Conns /\ Tail(backlog) \in Seq(Conns)
    BY <1>1 DEF OnNewConnection, OnNewConnectionDropped
  <2>. QED
    BY <1>1, <2>1 DEF OnNewConnection, OnNewConnectionDropped
<1>2. CASE OnNewConnectionError \/ OnCloseStray
  BY <1>2 DEF OnNewConnectionError, OnCloseStray
<1>. QED
  BY <1>1, <1>2 DEF AcceptStep

LEMMA TypeOnRead ==
  ASSUME TypeOK, NEW c \in Conns, OnRead(c)
  PROVE  TypeOK'
<1>. DEFINE doc == NextUnread(c)
            m   == [kind |-> DocumentKind(doc), body |-> DocumentBody(doc)]
<1>1. /\ DocumentBody(doc) \in Bodies
      /\ UNCHANGED <<backlog, stray, peer, sent, unsent, taken, handle>>
      /\ \/ hive' = "exited" /\ UNCHANGED <<received, wq, written, failed, leaked, replies>>
         \/ DocumentKind(doc) \in {kPingKind, kEventKind} /\ Dispatch(c, m)
  BY OnReadEffect
<1>2. CASE hive' = "exited" /\ UNCHANGED <<received, wq, written, failed, leaked, replies>>
  BY <1>1, <1>2 DEF TypeOK
<1>3. CASE DocumentKind(doc) \in {kPingKind, kEventKind} /\ Dispatch(c, m)
  <2>1. m \in Dispatched /\ Pong(DocumentBody(doc)) \in Pongs
    BY <1>1, <1>3, PongTyped DEF Dispatched
  <2>2. received' = [received EXCEPT ![c] = Append(@, m)] /\ leaked' = leaked
    BY <1>1, <1>3, DispatchEffect
  <2>3. received' \in [Conns -> Seq(Dispatched)] /\ leaked' \in [Conns -> Nat]
    BY <2>1, <2>2, AppendTyped DEF TypeOK
  <2>4. CASE UNCHANGED <<hive, wq, replies, written, failed>>
    BY <1>1, <2>3, <2>4 DEF TypeOK
  <2>5. CASE /\ wq' = [wq EXCEPT ![c] = Append(@, Pong(DocumentBody(doc)))]
             /\ UNCHANGED <<hive, replies, written, failed>>
    <3>1. wq' \in [Conns -> Seq(Pongs)]
      BY <2>1, <2>5, AppendTyped DEF TypeOK
    <3>. QED
      BY <1>1, <2>3, <2>5, <3>1 DEF TypeOK
  <2>6. CASE TryWrite(c, Pong(DocumentBody(doc))) /\ UNCHANGED wq
    <3>1. /\ hive' \in {"up", "exited"}
          /\ replies' \in [Conns -> Seq(Pongs)]
          /\ written' \in [Conns -> Nat]
          /\ failed' \in [Conns -> Nat]
      BY <2>1, <2>6, TryWriteTyped
    <3>. QED
      BY <1>1, <2>3, <2>6, <3>1 DEF TypeOK
  <2>. QED
    BY <1>1, <1>3, <2>4, <2>5, <2>6, DispatchEffect
<1>. QED
  BY <1>1, <1>2, <1>3

LEMMA TypeHive ==
  ASSUME TypeOK, NEW c \in Conns, HiveStep(c)
  PROVE  TypeOK'
<1>1. CASE OnRead(c)
  BY <1>1, TypeOnRead
<1>2. CASE OnReadEof(c)
  BY <1>2 DEF TypeOK, OnReadEof, acceptVars, peerVars, writeVars
<1>3. CASE UvWrite(c)
  <2>1. Head(wq[c]) \in Pongs /\ wq' \in [Conns -> Seq(Pongs)]
    BY <1>3, TailTyped DEF UvWrite, TypeOK
  <2>2. /\ hive' \in {"up", "exited"}
        /\ replies' \in [Conns -> Seq(Pongs)]
        /\ written' \in [Conns -> Nat]
        /\ failed' \in [Conns -> Nat]
    BY <1>3, <2>1, TryWriteTyped DEF UvWrite
  <2>. QED
    BY <1>3, <2>1, <2>2 DEF TypeOK, UvWrite, peerVars
<1>4. CASE OnWritten(c)
  <2>1. written' \in [Conns -> Nat]
    BY <1>4, CountTyped DEF TypeOK, OnWritten
  <2>. QED
    BY <1>4, <2>1 DEF TypeOK, OnWritten, acceptVars, peerVars
<1>5. CASE OnWriteFailed(c)
  <2>1. failed' \in [Conns -> Nat] /\ leaked' \in [Conns -> Nat]
    BY <1>5, CountTyped DEF TypeOK, OnWriteFailed
  <2>. QED
    BY <1>5, <2>1 DEF TypeOK, OnWriteFailed, acceptVars, peerVars
<1>6. CASE OnCloseClient(c)
  <2>1. leaked[c] + failed[c] + Len(wq[c]) \in Nat
    BY DEF TypeOK
  <2>2. leaked' \in [Conns -> Nat] /\ written' \in [Conns -> Nat] /\ failed' \in [Conns -> Nat]
    BY <1>6, <2>1, CountTyped DEF TypeOK, OnCloseClient
  <2>3. wq' \in [Conns -> Seq(Pongs)]
    <3>1. << >> \in Seq(Pongs)
      OBVIOUS
    <3>. QED
      BY <1>6, <3>1 DEF TypeOK, OnCloseClient
  <2>4. handle' \in [Conns -> {"none", "reading", "closing", "freed"}]
    BY <1>6 DEF TypeOK, OnCloseClient
  <2>. QED
    BY <1>6, <2>2, <2>3, <2>4 DEF TypeOK, OnCloseClient, acceptVars, peerVars
<1>. QED
  BY <1>1, <1>2, <1>3, <1>4, <1>5, <1>6 DEF HiveStep

LEMMA TypeStep == TypeOK /\ [Next]_vars => TypeOK'
<1>. SUFFICES ASSUME TypeOK, [Next]_vars PROVE TypeOK'
  OBVIOUS
<1>1. CASE UNCHANGED vars
  BY <1>1 DEF TypeOK, vars, acceptVars, peerVars, writeVars
<1>2. CASE Next
  BY <1>2, TypeAccept, TypePeer, TypeHive DEF Next
<1>. QED
  BY <1>1, <1>2

(* Every variable of the server and of its environment keeps its type.      *)
THEOREM TypeCorrect == Spec => []TypeOK
  BY TypeInit, TypeStep, PTL DEF Spec

-----------------------------------------------------------------------------
(* Which steps touch what.                                                  *)
LEMMA SentReceivedFrame ==
  ASSUME [Next]_vars
  PROVE  \/ \E c \in Conns, doc \in PeerDocuments : PeerWrite(c, doc)
         \/ \E c \in Conns : OnRead(c)
         \/ UNCHANGED <<sent, received>>
BY DEF Next, vars, AcceptStep, PeerStep, HiveStep, OnNewConnection, OnNewConnectionDropped,
       OnNewConnectionError, OnCloseStray, PeerConnect, PeerWriteMore, PeerRead, PeerClose,
       OnReadEof, UvWrite, OnWritten, OnWriteFailed, OnCloseClient, peerVars

LEMMA InOrderStep ==
  ASSUME TypeOK, \A c \in Conns : InOrder(c), [Next]_vars, NEW d \in Conns
  PROVE  InOrder(d)'
<1>1. ASSUME NEW c \in Conns, NEW doc \in PeerDocuments, PeerWrite(c, doc)
      PROVE  InOrder(d)'
  <2>1. received' = received /\ sent' = [sent EXCEPT ![c] = Append(@, doc)]
    BY <1>1 DEF PeerWrite
  <2>2. CASE d # c
    BY <2>1, <2>2 DEF InOrder, TypeOK
  <2>3. CASE d = c
    <3>1. /\ Len(sent'[d]) = Len(sent[d]) + 1
          /\ \A i \in 1..Len(sent[d]) : sent'[d][i] = sent[d][i]
      BY <2>1, <2>3 DEF TypeOK
    <3>2. Len(received[d]) \in Nat /\ Len(sent[d]) \in Nat
      BY DEF TypeOK
    <3>. QED
      BY <2>1, <3>1, <3>2 DEF InOrder
  <2>. QED
    BY <2>2, <2>3
<1>2. ASSUME NEW c \in Conns, OnRead(c)
      PROVE  InOrder(d)'
  <2>. DEFINE doc == NextUnread(c)
              m   == [kind |-> DocumentKind(doc), body |-> DocumentBody(doc)]
  <2>1. /\ sent' = sent
        /\ Len(received[c]) + 1 \in 1..Len(sent[c])
        /\ DocumentBody(doc) \in Bodies
        /\ \/ received' = received
           \/ DocumentKind(doc) \in {kPingKind, kEventKind} /\ Dispatch(c, m)
    BY <1>2, OnReadEffect
  <2>2. CASE received' = received
    BY <2>1, <2>2 DEF InOrder
  <2>3. CASE DocumentKind(doc) \in {kPingKind, kEventKind} /\ Dispatch(c, m)
    <3>1. received' = [received EXCEPT ![c] = Append(@, m)]
      BY <2>1, <2>3, DispatchEffect
    <3>2. CASE d # c
      BY <2>1, <3>1, <3>2 DEF InOrder, TypeOK
    <3>3. CASE d = c
      <4>1. received[c] \in Seq(Dispatched) /\ Len(sent[c]) \in Nat
        BY DEF TypeOK
      <4>2. /\ received'[c] = Append(received[c], m)
            /\ Len(received'[c]) = Len(received[c]) + 1
            /\ received'[c][Len(received[c]) + 1] = m
            /\ \A i \in 1..Len(received[c]) : received'[c][i] = received[c][i]
        BY <3>1, <4>1 DEF TypeOK
      <4>3. m = [kind |-> DocumentKind(sent[c][Len(received[c]) + 1]),
                 body |-> DocumentBody(sent[c][Len(received[c]) + 1])]
        BY DEF NextUnread
      <4>. QED
        BY <2>1, <3>3, <4>1, <4>2, <4>3 DEF InOrder
    <3>. QED
      BY <3>2, <3>3
  <2>. QED
    BY <2>1, <2>2, <2>3
<1>3. CASE UNCHANGED <<sent, received>>
  BY <1>3 DEF InOrder
<1>. QED
  BY <1>1, <1>2, <1>3, SentReceivedFrame

LEMMA InOrderInit == Init => \A c \in Conns : InOrder(c)
  BY DEF Init, InOrder

(* The messages that reach OnPing and OnEvent are, one by one, those that   *)
(* the peer wrote: none is cut, merged, skipped or mixed up with another    *)
(* connection's.                                                            *)
THEOREM DispatchInOrder == Spec => []InOrderDispatch
<1>. DEFINE I == TypeOK /\ \A c \in Conns : InOrder(c)
<1>1. Init => I
  BY TypeInit, InOrderInit
<1>2. I /\ [Next]_vars => I'
  <2>. SUFFICES ASSUME I, [Next]_vars PROVE I'
    OBVIOUS
  <2>1. \A d \in Conns : InOrder(d)'
    BY InOrderStep
  <2>. QED
    BY <2>1, TypeStep
<1>3. I => InOrderDispatch
  <2>. SUFFICES ASSUME I PROVE InOrderDispatch
    OBVIOUS
  <2>1. \A c \in Conns : DOMAIN received[c] = 1..Len(received[c])
    BY DEF TypeOK
  <2>. QED
    BY <2>1 DEF InOrder, InOrderDispatch
<1>. QED
  BY <1>1, <1>2, <1>3, PTL DEF Spec

-----------------------------------------------------------------------------
LEMMA AnswersFrame ==
  ASSUME [Next]_vars
  PROVE  \/ \E c \in Conns : PeerRead(c) \/ OnRead(c) \/ UvWrite(c) \/ OnWriteFailed(c)
                               \/ OnCloseClient(c)
         \/ UNCHANGED <<taken, replies, wq, failed, leaked, received>>
BY DEF Next, vars, AcceptStep, PeerStep, HiveStep, OnNewConnection, OnNewConnectionDropped,
       OnNewConnectionError, OnCloseStray, PeerConnect, PeerWrite, PeerWriteMore, PeerClose,
       OnReadEof, OnWritten, peerVars, writeVars

LEMMA CountsTyped ==
  TypeOK => \A d \in Conns :
    /\ taken[d] \in Nat /\ failed[d] \in Nat /\ leaked[d] \in Nat
    /\ Len(received[d]) \in Nat /\ Len(sent[d]) \in Nat
    /\ Replied(d) \in Nat /\ Queued(d) \in Nat
    /\ Made(d) \in Nat /\ Lost(d) \in Nat /\ Answers(d) \in Nat
<1>. SUFFICES ASSUME TypeOK, NEW d \in Conns
     PROVE  /\ taken[d] \in Nat /\ failed[d] \in Nat /\ leaked[d] \in Nat
            /\ Len(received[d]) \in Nat /\ Len(sent[d]) \in Nat
            /\ Replied(d) \in Nat /\ Queued(d) \in Nat
            /\ Made(d) \in Nat /\ Lost(d) \in Nat /\ Answers(d) \in Nat
  OBVIOUS
<1>1. taken[d] \in Nat /\ failed[d] \in Nat /\ leaked[d] \in Nat
  BY DEF TypeOK
<1>2. Len(received[d]) \in Nat /\ Len(sent[d]) \in Nat
  BY DEF TypeOK
<1>3. Replied(d) \in Nat /\ Queued(d) \in Nat
  BY DEF TypeOK, Replied, Queued
<1>4. Made(d) \in Nat /\ Lost(d) \in Nat
  BY <1>1, <1>3 DEF Made, Lost
<1>5. Answers(d) \in Nat
  BY <1>4 DEF Answers
<1>. QED
  BY <1>1, <1>2, <1>3, <1>4, <1>5

(* A write attempt makes one more reply or one more failure.                *)
LEMMA TryWriteCounts ==
  ASSUME TypeOK, NEW c \in Conns, NEW pong \in Pongs, TryWrite(c, pong), NEW d \in Conns
  PROVE  /\ d # c => Replied(d)' = Replied(d) /\ failed'[d] = failed[d]
         /\ \/ Replied(c)' = Replied(c) + 1 /\ failed'[c] = failed[c]
            \/ Replied(c)' = Replied(c) /\ failed'[c] = failed[c] + 1
<1>1. replies[c] \in Seq(Pongs)
  BY DEF TypeOK
<1>2. Len(Append(replies[c], pong)) = Len(replies[c]) + 1
  BY <1>1
<1>3. CASE replies' = [replies EXCEPT ![c] = Append(@, pong)] /\ failed' = failed
  BY <1>2, <1>3 DEF TypeOK, Replied
<1>4. CASE failed' = [failed EXCEPT ![c] = @ + 1] /\ replies' = replies
  BY <1>4 DEF TypeOK, Replied
<1>. QED
  BY <1>3, <1>4 DEF TryWrite

(* An event adds to the messages, a ping to the messages and the answers.   *)
LEMMA PairedOnRead ==
  ASSUME TypeOK, NEW c \in Conns, Paired(c), OnRead(c), NEW d \in Conns, Paired(d)
  PROVE  Paired(d)'
<1>. DEFINE doc == NextUnread(c)
            m   == [kind |-> DocumentKind(doc), body |-> DocumentBody(doc)]
<1>1. /\ taken' = taken
      /\ DocumentBody(doc) \in Bodies
      /\ \/ UNCHANGED <<received, wq, failed, leaked, replies>>
         \/ DocumentKind(doc) \in {kPingKind, kEventKind} /\ Dispatch(c, m)
  BY OnReadEffect
<1>2. CASE UNCHANGED <<received, wq, failed, leaked, replies>>
  BY <1>1, <1>2 DEF Paired, Answers, Made, Lost, Replied, Queued
<1>3. CASE DocumentKind(doc) \in {kPingKind, kEventKind} /\ Dispatch(c, m)
  <2>1. /\ received' = [received EXCEPT ![c] = Append(@, m)]
        /\ leaked' = leaked
        /\ \/ m.kind = kEventKind /\ UNCHANGED <<wq, replies, failed>>
           \/ /\ m.kind = kPingKind
              /\ wq' = [wq EXCEPT ![c] = Append(@, Pong(m.body))]
              /\ UNCHANGED <<replies, failed>>
           \/ m.kind = kPingKind /\ UNCHANGED wq /\ TryWrite(c, Pong(m.body))
    BY <1>1, <1>3, DispatchEffect
  <2>2. Pong(m.body) \in Pongs
    BY <1>1, PongTyped
  <2>3. CASE d # c
    <3>1. received'[d] = received[d] /\ leaked'[d] = leaked[d] /\ wq'[d] = wq[d]
      BY <2>1, <2>3 DEF TypeOK
    <3>2. Replied(d)' = Replied(d) /\ failed'[d] = failed[d]
      BY <2>1, <2>2, <2>3, TryWriteCounts DEF Replied
    <3>. QED
      BY <1>1, <3>1, <3>2 DEF Paired, Answers, Made, Lost, Queued
  <2>4. CASE d = c
    <3>0. /\ taken[c] \in Nat /\ Replied(c) \in Nat /\ Len(received[c]) \in Nat
          /\ Answers(c) \in Nat
      BY CountsTyped
    <3>1. /\ Replied(c) \in Nat /\ Queued(c) \in Nat /\ Made(c) \in Nat
          /\ failed[c] \in Nat /\ leaked[c] \in Nat /\ Lost(c) \in Nat
      BY CountsTyped
    <3>2. leaked'[c] = leaked[c]
      BY <2>1
    <3>3. Len(received'[c]) = Len(received[c]) + 1 /\ received'[c][Len(received[c]) + 1] = m
      BY <2>1 DEF TypeOK
    <3>4. CASE m.kind = kEventKind /\ UNCHANGED <<wq, replies, failed>>
      <4>1. Answers(c)' = Answers(c) /\ Replied(c)' = Replied(c)
        BY <3>2, <3>4 DEF Answers, Made, Lost, Replied, Queued
      <4>. QED
        BY <1>1, <2>4, <3>0, <3>3, <4>1 DEF Paired
    <3>5. CASE /\ m.kind = kPingKind
               /\ \/ Made(c)' = Made(c) + 1 /\ Lost(c)' = Lost(c)
                  \/ Made(c)' = Made(c) /\ Lost(c)' = Lost(c) + 1
               /\ Replied(c)' \in {Replied(c), Replied(c) + 1}
      <4>1. Answers(c)' = Answers(c) + 1
        BY <3>1, <3>5 DEF Answers
      <4>2. taken'[c] <= Replied(c)'
        BY <1>1, <3>0, <3>5 DEF Paired
      <4>. QED
        BY <2>4, <3>0, <3>3, <3>5, <4>1, <4>2, KindsDiffer DEF Paired
    <3>6. CASE m.kind = kPingKind /\ wq' = [wq EXCEPT ![c] = Append(@, Pong(m.body))]
                 /\ UNCHANGED <<replies, failed>>
      <4>1. Queued(c)' = Queued(c) + 1
        BY <2>2, <3>6 DEF TypeOK, Queued
      <4>2. Replied(c)' = Replied(c)
        BY <3>6 DEF Replied
      <4>. QED
        BY <3>1, <3>2, <3>5, <3>6, <4>1, <4>2 DEF Made, Lost
    <3>7. CASE m.kind = kPingKind /\ UNCHANGED wq /\ TryWrite(c, Pong(m.body))
      <4>1. \/ Replied(c)' = Replied(c) + 1 /\ failed'[c] = failed[c]
            \/ Replied(c)' = Replied(c) /\ failed'[c] = failed[c] + 1
        BY <2>2, <3>7, TryWriteCounts
      <4>2. Queued(c)' = Queued(c)
        BY <3>7 DEF Queued
      <4>. QED
        BY <3>1, <3>2, <3>5, <3>7, <4>1, <4>2 DEF Made, Lost
    <3>. QED
      BY <2>1, <3>4, <3>6, <3>7
  <2>. QED
    BY <2>3, <2>4
<1>. QED
  BY <1>1, <1>2, <1>3

LEMMA PairedStep ==
  ASSUME TypeOK, \A c \in Conns : Paired(c), [Next]_vars, NEW d \in Conns
  PROVE  Paired(d)'
<1>0. /\ taken[d] \in Nat /\ failed[d] \in Nat /\ leaked[d] \in Nat
      /\ Replied(d) \in Nat /\ Queued(d) \in Nat
      /\ Made(d) \in Nat /\ Lost(d) \in Nat
  BY CountsTyped
<1>1. ASSUME NEW c \in Conns, PeerRead(c)
      PROVE  Paired(d)'
  <2>1. /\ taken[c] < Replied(c)
        /\ taken' = [taken EXCEPT ![c] = @ + 1]
        /\ UNCHANGED <<replies, wq, failed, leaked, received>>
    BY <1>1 DEF PeerRead, writeVars, Replied
  <2>2. taken'[d] <= Replied(d)
    BY <1>0, <2>1 DEF Paired, TypeOK
  <2>. QED
    BY <2>1, <2>2 DEF Paired, Answers, Made, Lost, Replied, Queued
<1>2. ASSUME NEW c \in Conns, OnRead(c)
      PROVE  Paired(d)'
  BY <1>2, PairedOnRead
<1>3. ASSUME NEW c \in Conns, UvWrite(c)
      PROVE  Paired(d)'
  <2>1. /\ UNCHANGED <<taken, leaked, received>>
        /\ wq' = [wq EXCEPT ![c] = Tail(@)]
        /\ wq[c] # << >>
        /\ TryWrite(c, Head(wq[c]))
    BY <1>3 DEF UvWrite, peerVars
  <2>2. Len(Tail(wq[c])) = Len(wq[c]) - 1 /\ Head(wq[c]) \in Pongs
    <3>1. wq[c] \in Seq(Pongs)
      BY DEF TypeOK
    <3>. QED
      BY <2>1, <3>1
  <2>3. \/ d # c /\ Replied(d)' = Replied(d) /\ failed'[d] = failed[d]
        \/ d = c /\ Replied(d)' = Replied(d) + 1 /\ failed'[d] = failed[d]
        \/ d = c /\ Replied(d)' = Replied(d) /\ failed'[d] = failed[d] + 1
    BY <2>1, <2>2, TryWriteCounts
  <2>4. /\ d = c => Queued(d)' = Queued(d) - 1
        /\ d # c => Queued(d)' = Queued(d)
    BY <2>1, <2>2 DEF TypeOK, Queued
  <2>5. leaked'[d] = leaked[d] /\ taken'[d] = taken[d] /\ received'[d] = received[d]
    BY <2>1
  <2>6. \/ Made(d)' = Made(d) /\ Lost(d)' = Lost(d)
        \/ Made(d)' = Made(d) - 1 /\ Lost(d)' = Lost(d) + 1
    BY <1>0, <2>3, <2>4, <2>5 DEF Made, Lost
  <2>7. Answers(d)' = Answers(d)
    BY <1>0, <2>6 DEF Answers
  <2>8. taken'[d] <= Replied(d)'
    BY <1>0, <2>3, <2>5 DEF Paired
  <2>. QED
    BY <2>5, <2>7, <2>8 DEF Paired
<1>4. ASSUME NEW c \in Conns, OnWriteFailed(c)
      PROVE  Paired(d)'
  <2>1. /\ UNCHANGED <<taken, replies, wq, received>>
        /\ failed' = [failed EXCEPT ![c] = @ - 1]
        /\ leaked' = [leaked EXCEPT ![c] = @ + 1]
    BY <1>4 DEF OnWriteFailed, peerVars
  <2>2. \/ failed'[d] = failed[d] /\ leaked'[d] = leaked[d]
        \/ failed'[d] = failed[d] - 1 /\ leaked'[d] = leaked[d] + 1
    BY <2>1 DEF TypeOK
  <2>3. Lost(d)' = Lost(d)
    BY <1>0, <2>2 DEF Lost
  <2>. QED
    BY <2>1, <2>3 DEF Paired, Answers, Made, Replied, Queued
<1>5. ASSUME NEW c \in Conns, OnCloseClient(c)
      PROVE  Paired(d)'
  <2>1. /\ UNCHANGED <<taken, replies, received>>
        /\ leaked' = [leaked EXCEPT ![c] = @ + failed[c] + Queued(c)]
        /\ wq' = [wq EXCEPT ![c] = << >>]
        /\ failed' = [failed EXCEPT ![c] = 0]
    BY <1>5 DEF OnCloseClient, peerVars, Queued
  <2>2. \/ failed'[d] = failed[d] /\ leaked'[d] = leaked[d] /\ Queued(d)' = Queued(d)
        \/ /\ failed'[d] = 0
           /\ leaked'[d] = leaked[d] + failed[d] + Queued(d)
           /\ Queued(d)' = 0
    BY <2>1 DEF TypeOK, Queued
  <2>3. Replied(d)' = Replied(d) /\ taken'[d] = taken[d] /\ received'[d] = received[d]
    BY <2>1 DEF Replied
  <2>4. \/ Made(d)' = Made(d) /\ Lost(d)' = Lost(d)
        \/ Made(d)' = Made(d) - Queued(d) /\ Lost(d)' = Lost(d) + Queued(d)
    BY <1>0, <2>2, <2>3 DEF Made, Lost
  <2>5. Answers(d)' = Answers(d)
    BY <1>0, <2>4 DEF Answers
  <2>. QED
    BY <2>3, <2>5 DEF Paired
<1>6. CASE UNCHANGED <<taken, replies, wq, failed, leaked, received>>
  BY <1>6 DEF Paired, Answers, Made, Lost, Replied, Queued
<1>. QED
  BY <1>1, <1>2, <1>3, <1>4, <1>5, <1>6, AnswersFrame

LEMMA PairedInit == Init => \A c \in Conns : Paired(c)
  BY DEF Init, Paired, Answers, Made, Lost, Replied, Queued

-----------------------------------------------------------------------------
(* Only a document of several segments is ever written in part.             *)
PartOfLast(c) ==
  unsent[c] > 0 => Len(sent[c]) > 0 /\ SegmentsOf(sent[c][Len(sent[c])]) > 1

(* A peer that has not connected has written nothing.  Connections wait for *)
(* OnNewConnection once, and nothing is read before they are accepted.      *)
FreshUntilAccepted ==
  /\ \A c \in Conns : /\ peer[c] = "idle" => handle[c] = "none" /\ sent[c] = << >>
                      /\ handle[c] = "none" => received[c] = << >>
  /\ \A i \in 1..Len(backlog) : handle[backlog[i]] = "none" /\ peer[backlog[i]] # "idle"
  /\ \A i, j \in 1..Len(backlog) : backlog[i] = backlog[j] => i = j

(* Writes fail, and queued ones are cancelled, only for peers that left.    *)
LeaversOnly(c) ==
  /\ leaked[c] + failed[c] > 0 => peer[c] = "closed"
  /\ handle[c] = "closing" /\ wq[c] # << >> => peer[c] = "closed"

(* What stays true of a connection that has made the hive exit, whatever    *)
(* its peer does afterwards.                                                *)
Culprit(c) ==
  \/ \E i \in 1..Len(sent[c]) :
       DocumentKind(sent[c][i]) \notin {kPingKind, kEventKind} \/ SegmentsOf(sent[c][i]) # 1
  \/ Len(sent[c]) > Len(replies[c]) + 1
  \/ /\ SigPipe = "default" /\ peer[c] = "closed"
     /\ Len(replies[c]) < Len(sent[c])
     /\ DocumentKind(sent[c][Len(sent[c])]) # kEventKind

Blamed == hive = "exited" => \E c \in Conns : Culprit(c)

-----------------------------------------------------------------------------
(* Connections before they are accepted.                                    *)
LEMMA HeadAndTail ==
  ASSUME NEW S, NEW q \in Seq(S), q # << >>
  PROVE  /\ Len(q) \in Nat \ {0} /\ Head(q) = q[1] /\ Head(q) \in S
         /\ Len(Tail(q)) = Len(q) - 1
         /\ \A i \in 1..Len(Tail(q)) : i + 1 \in 1..Len(q) /\ Tail(q)[i] = q[i + 1]
  OBVIOUS

LEMMA FreshAccept ==
  ASSUME TypeOK, FreshUntilAccepted, backlog # << >>, NEW state \in {"reading", "closing"},
         handle' = [handle EXCEPT ![Head(backlog)] = state], backlog' = Tail(backlog),
         UNCHANGED <<peer, sent, received>>
  PROVE  FreshUntilAccepted'
<1>1. backlog \in Seq(Conns)
  BY DEF TypeOK
<1>2. /\ Len(backlog) \in Nat \ {0} /\ Head(backlog) = backlog[1] /\ Head(backlog) \in Conns
      /\ \A i \in 1..Len(backlog') : i + 1 \in 1..Len(backlog) /\ backlog'[i] = backlog[i + 1]
  BY <1>1, HeadAndTail
<1>3. peer[Head(backlog)] # "idle"
  BY <1>2 DEF FreshUntilAccepted
<1>4. ASSUME NEW i \in 1..Len(backlog')
      PROVE  handle'[backlog'[i]] = "none" /\ peer'[backlog'[i]] # "idle"
  <2>1. i + 1 \in 1..Len(backlog) /\ i + 1 # 1 /\ 1 \in 1..Len(backlog)
    BY <1>2
  <2>2. backlog[i + 1] # Head(backlog) /\ backlog[i + 1] \in Conns
    BY <1>1, <1>2, <2>1 DEF FreshUntilAccepted
  <2>. QED
    BY <1>2, <2>1, <2>2 DEF FreshUntilAccepted, TypeOK
<1>5. ASSUME NEW i \in 1..Len(backlog'), NEW j \in 1..Len(backlog'), backlog'[i] = backlog'[j]
      PROVE  i = j
  <2>1. i + 1 = j + 1
    BY <1>2, <1>5 DEF FreshUntilAccepted
  <2>. QED
    BY <2>1
<1>6. ASSUME NEW c \in Conns
      PROVE  /\ peer'[c] = "idle" => handle'[c] = "none" /\ sent'[c] = << >>
             /\ handle'[c] = "none" => received'[c] = << >>
  BY <1>2, <1>3 DEF FreshUntilAccepted, TypeOK
<1>. QED
  BY <1>4, <1>5, <1>6 DEF FreshUntilAccepted

LEMMA FreshConnect ==
  ASSUME TypeOK, FreshUntilAccepted, NEW c \in Conns, PeerConnect(c)
  PROVE  FreshUntilAccepted'
<1>1. /\ backlog' = Append(backlog, c) /\ peer' = [peer EXCEPT ![c] = "open"]
      /\ peer[c] = "idle" /\ UNCHANGED <<handle, sent, received>>
  BY DEF PeerConnect
<1>2. /\ Len(backlog) \in Nat /\ Len(backlog') = Len(backlog) + 1
      /\ backlog'[Len(backlog) + 1] = c
      /\ \A i \in 1..Len(backlog) : backlog'[i] = backlog[i] /\ backlog[i] \in Conns
  BY <1>1 DEF TypeOK
<1>3. \A i \in 1..Len(backlog) : backlog'[i] # c
  BY <1>1, <1>2 DEF FreshUntilAccepted
<1>4. \A i \in 1..Len(backlog') : i \in 1..Len(backlog) \/ i = Len(backlog) + 1
  BY <1>2
<1>5. ASSUME NEW i \in 1..Len(backlog')
      PROVE  handle'[backlog'[i]] = "none" /\ peer'[backlog'[i]] # "idle"
  <2>1. CASE i \in 1..Len(backlog)
    <3>1. backlog'[i] = backlog[i] /\ backlog[i] # c /\ backlog[i] \in Conns
      BY <1>2, <1>3, <2>1
    <3>2. handle[backlog[i]] = "none" /\ peer[backlog[i]] # "idle"
      BY <2>1 DEF FreshUntilAccepted
    <3>. QED
      BY <1>1, <3>1, <3>2 DEF TypeOK
  <2>2. CASE i = Len(backlog) + 1
    <3>1. handle[c] = "none" /\ peer'[c] = "open"
      BY <1>1 DEF FreshUntilAccepted, TypeOK
    <3>. QED
      BY <1>1, <1>2, <2>2, <3>1
  <2>. QED
    BY <1>4, <2>1, <2>2
<1>6. \A i, j \in 1..Len(backlog') : backlog'[i] = backlog'[j] => i = j
  BY <1>2, <1>3, <1>4 DEF FreshUntilAccepted
<1>7. \A d \in Conns : /\ peer'[d] = "idle" => handle'[d] = "none" /\ sent'[d] = << >>
                       /\ handle'[d] = "none" => received'[d] = << >>
  BY <1>1 DEF FreshUntilAccepted, TypeOK
<1>. QED
  BY <1>5, <1>6, <1>7 DEF FreshUntilAccepted

LEMMA FreshStep ==
  ASSUME TypeOK, FreshUntilAccepted, [Next]_vars
  PROVE  FreshUntilAccepted'
<1>1. CASE OnNewConnection \/ OnNewConnectionDropped
  BY <1>1, FreshAccept DEF OnNewConnection, OnNewConnectionDropped, peerVars
<1>2. ASSUME NEW c \in Conns, PeerConnect(c)
      PROVE  FreshUntilAccepted'
  BY <1>2, FreshConnect
<1>3. ASSUME NEW c \in Conns, NEW doc \in PeerDocuments, PeerWrite(c, doc)
      PROVE  FreshUntilAccepted'
  <2>1. UNCHANGED <<backlog, peer, handle, received>> /\ sent' = [sent EXCEPT ![c] = Append(@, doc)]
        /\ peer[c] = "open"
    BY <1>3 DEF PeerWrite, Connected, acceptVars
  <2>. QED
    BY <2>1 DEF FreshUntilAccepted, TypeOK
<1>4. ASSUME NEW c \in Conns, PeerClose(c)
      PROVE  FreshUntilAccepted'
  <2>1. UNCHANGED <<backlog, sent, handle, received>> /\ peer' = [peer EXCEPT ![c] = "closed"]
        /\ peer[c] = "open"
    BY <1>4 DEF PeerClose, acceptVars
  <2>2. \A d \in Conns : peer'[d] = "idle" <=> peer[d] = "idle"
    BY <2>1 DEF TypeOK
  <2>3. \A i \in 1..Len(backlog) : backlog[i] \in Conns
    BY DEF TypeOK
  <2>. QED
    BY <2>1, <2>2, <2>3 DEF FreshUntilAccepted
<1>5. ASSUME NEW c \in Conns, OnRead(c)
      PROVE  FreshUntilAccepted'
  <2>. DEFINE doc == NextUnread(c)
              m   == [kind |-> DocumentKind(doc), body |-> DocumentBody(doc)]
  <2>1. /\ UNCHANGED <<backlog, sent, peer, handle>>
        /\ handle[c] = "reading"
        /\ DocumentBody(doc) \in Bodies
        /\ \/ received' = received
           \/ DocumentKind(doc) \in {kPingKind, kEventKind} /\ Dispatch(c, m)
    BY <1>5, OnReadEffect
  <2>2. received' = received \/ received' = [received EXCEPT ![c] = Append(@, m)]
    BY <2>1, DispatchEffect
  <2>3. \A d \in Conns : d # c => received'[d] = received[d]
    BY <2>2 DEF TypeOK
  <2>4. \A i \in 1..Len(backlog) : backlog[i] \in Conns
    BY DEF TypeOK
  <2>. QED
    BY <2>1, <2>3, <2>4 DEF FreshUntilAccepted
<1>6. ASSUME NEW c \in Conns, OnReadEof(c) \/ OnCloseClient(c)
      PROVE  FreshUntilAccepted'
  <2>1. /\ UNCHANGED <<backlog, sent, peer, received>>
        /\ handle[c] \in {"reading", "closing"}
        /\ \E state \in {"closing", "freed"} : handle' = [handle EXCEPT ![c] = state]
    BY <1>6 DEF OnReadEof, OnCloseClient, acceptVars, peerVars
  <2>2. \A d \in Conns : handle[d] = "none" <=> handle'[d] = "none"
    BY <2>1 DEF TypeOK
  <2>3. \A i \in 1..Len(backlog) : backlog[i] \in Conns
    BY DEF TypeOK
  <2>. QED
    BY <2>1, <2>2, <2>3 DEF FreshUntilAccepted
<1>7. CASE UNCHANGED <<backlog, sent, peer, handle, received>>
  BY <1>7 DEF FreshUntilAccepted
<1>8. \/ OnNewConnection \/ OnNewConnectionDropped
      \/ \E c \in Conns : \/ PeerConnect(c) \/ \E doc \in PeerDocuments : PeerWrite(c, doc)
                         \/ PeerClose(c) \/ OnRead(c) \/ OnReadEof(c) \/ OnCloseClient(c)
      \/ UNCHANGED <<backlog, sent, peer, handle, received>>
  BY DEF Next, vars, AcceptStep, PeerStep, HiveStep, OnNewConnectionError, OnCloseStray,
         PeerWriteMore, PeerRead, UvWrite, OnWritten, OnWriteFailed, acceptVars, peerVars
<1>. QED
  BY <1>1, <1>2, <1>3, <1>4, <1>5, <1>6, <1>7, <1>8

LEMMA FreshInit == Init => FreshUntilAccepted
  BY DEF Init, FreshUntilAccepted

-----------------------------------------------------------------------------
(* Parts of documents.                                                      *)
LEMMA SegmentsTyped ==
  \A doc \in PeerDocuments : SegmentsOf(doc) \in Nat \ {0}
<1>. SUFFICES ASSUME NEW doc \in PeerDocuments PROVE SegmentsOf(doc) \in Nat \ {0}
  OBVIOUS
<1>1. DocumentBody(doc) \in Bodies
  BY DocumentShape, IpcServerAssumption
<1>. QED
  BY <1>1, IpcServerAssumption DEF SegmentsOf

LEMMA PartStep ==
  ASSUME TypeOK, \A c \in Conns : PartOfLast(c), [Next]_vars, NEW d \in Conns
  PROVE  PartOfLast(d)'
<1>1. ASSUME NEW c \in Conns, NEW doc \in PeerDocuments, PeerWrite(c, doc)
      PROVE  PartOfLast(d)'
  <2>1. /\ sent' = [sent EXCEPT ![c] = Append(@, doc)]
        /\ unsent' = [unsent EXCEPT ![c] = SegmentsOf(doc) - 1]
    BY <1>1 DEF PeerWrite
  <2>2. CASE d # c
    BY <2>1, <2>2 DEF PartOfLast, TypeOK
  <2>3. CASE d = c
    <3>1. sent'[c] = Append(sent[c], doc) /\ sent[c] \in Seq(PeerDocuments)
      BY <2>1 DEF TypeOK
    <3>2. Len(sent'[c]) > 0 /\ sent'[c][Len(sent'[c])] = doc
      BY <3>1
    <3>3. unsent'[c] = SegmentsOf(doc) - 1 /\ SegmentsOf(doc) \in Nat
      BY <2>1, SegmentsTyped DEF TypeOK
    <3>. QED
      BY <2>3, <3>2, <3>3 DEF PartOfLast, SegmentsOf
  <2>. QED
    BY <2>2, <2>3
<1>2. ASSUME NEW c \in Conns, PeerWriteMore(c)
      PROVE  PartOfLast(d)'
  <2>1. sent' = sent /\ unsent[c] > 0 /\ unsent' = [unsent EXCEPT ![c] = @ - 1]
    BY <1>2 DEF PeerWriteMore
  <2>2. unsent'[d] > 0 => unsent[d] > 0
    BY <2>1 DEF TypeOK
  <2>. QED
    BY <2>1, <2>2 DEF PartOfLast, SegmentsOf
<1>3. CASE UNCHANGED <<sent, unsent>>
  BY <1>3 DEF PartOfLast, SegmentsOf
<1>4. \/ \E c \in Conns : PeerWriteMore(c) \/ \E doc \in PeerDocuments : PeerWrite(c, doc)
      \/ UNCHANGED <<sent, unsent>>
  BY DEF Next, vars, AcceptStep, PeerStep, HiveStep, OnNewConnection, OnNewConnectionDropped,
         OnNewConnectionError, OnCloseStray, PeerConnect, PeerRead, PeerClose, OnRead,
         OnReadEof, UvWrite, OnWritten, OnWriteFailed, OnCloseClient, peerVars
<1>. QED
  BY <1>1, <1>2, <1>3, <1>4

-----------------------------------------------------------------------------
(* Whose writes fail.                                                       *)

(* A connection with a pong to write has a peer that wrote.                 *)
LEMMA WroteOnce ==
  ASSUME TypeOK, NEW c \in Conns, InOrder(c), Paired(c), wq[c] # << >>
  PROVE  Len(sent[c]) > 0
<1>1. Queued(c) > 0
  BY DEF Queued, TypeOK
<1>2. /\ Replied(c) \in Nat /\ Queued(c) \in Nat /\ Lost(c) \in Nat
      /\ Len(received[c]) \in Nat /\ Len(sent[c]) \in Nat
  BY CountsTyped
<1>3. Answers(c) > 0
  BY <1>1, <1>2 DEF Answers, Made
<1>4. Answers(c) <= Len(received[c]) /\ Len(received[c]) <= Len(sent[c])
  BY DEF Paired, InOrder
<1>. QED
  BY <1>2, <1>3, <1>4, CountsTyped

(* An attempt to write that fails has a peer that left.                     *)
LEMMA FailsForLeavers ==
  ASSUME TypeOK, FreshUntilAccepted, NEW c \in Conns, NEW pong, TryWrite(c, pong),
         Len(sent[c]) > 0
  PROVE  \/ failed' = failed /\ hive' = hive
         \/ /\ peer[c] = "closed" /\ replies' = replies
            /\ failed' = [failed EXCEPT ![c] = @ + 1]
            /\ hive' = hive \/ SigPipe = "default"
<1>1. peer[c] # "idle" /\ peer[c] \in {"idle", "open", "closed"}
  BY DEF FreshUntilAccepted, TypeOK
<1>. QED
  BY <1>1 DEF TryWrite

LEMMA LeaversStep ==
  ASSUME TypeOK, FreshUntilAccepted, [Next]_vars,
         \A c \in Conns : InOrder(c) /\ Paired(c) /\ LeaversOnly(c),
         NEW d \in Conns
  PROVE  LeaversOnly(d)'
<1>0. /\ leaked[d] \in Nat /\ failed[d] \in Nat /\ peer[d] \in {"idle", "open", "closed"}
      /\ wq[d] \in Seq(Pongs)
  BY DEF TypeOK
<1>1. CASE OnNewConnection \/ OnNewConnectionDropped
  <2>1. /\ backlog # << >> /\ UNCHANGED <<peer, wq, leaked, failed>>
        /\ \E state \in {"reading", "closing"} :
             handle' = [handle EXCEPT ![Head(backlog)] = state]
    BY <1>1 DEF OnNewConnection, OnNewConnectionDropped, peerVars, writeVars
  <2>2. CASE d # Head(backlog)
    BY <2>1, <2>2 DEF LeaversOnly, TypeOK
  <2>3. CASE d = Head(backlog)
    <3>1. handle[d] = "none"
      <4>1. backlog \in Seq(Conns)
        BY DEF TypeOK
      <4>2. 1 \in 1..Len(backlog) /\ d = backlog[1]
        BY <2>1, <2>3, <4>1, HeadAndTail
      <4>. QED
        BY <4>2 DEF FreshUntilAccepted
    <3>2. received[d] = << >>
      BY <3>1 DEF FreshUntilAccepted
    <3>3. Answers(d) = 0
      BY <3>2, CountsTyped DEF Paired
    <3>4. Queued(d) = 0
      BY <3>3, CountsTyped DEF Answers, Made
    <3>5. wq[d] = << >>
      BY <1>0, <3>4 DEF Queued
    <3>. QED
      BY <2>1, <3>5 DEF LeaversOnly
  <2>. QED
    BY <2>2, <2>3
<1>2. ASSUME NEW c \in Conns, OnRead(c)
      PROVE  LeaversOnly(d)'
  <2>. DEFINE doc == NextUnread(c)
              m   == [kind |-> DocumentKind(doc), body |-> DocumentBody(doc)]
  <2>1. /\ UNCHANGED <<peer, handle>>
        /\ handle[c] = "reading"
        /\ Len(received[c]) + 1 \in 1..Len(sent[c])
        /\ DocumentBody(doc) \in Bodies
        /\ \/ UNCHANGED <<wq, failed, leaked>>
           \/ DocumentKind(doc) \in {kPingKind, kEventKind} /\ Dispatch(c, m)
    BY <1>2, OnReadEffect
  <2>2. CASE UNCHANGED <<wq, failed, leaked>>
    BY <2>1, <2>2 DEF LeaversOnly
  <2>3. CASE DocumentKind(doc) \in {kPingKind, kEventKind} /\ Dispatch(c, m)
    <3>1. /\ leaked' = leaked
          /\ \/ UNCHANGED <<wq, failed>>
             \/ wq' = [wq EXCEPT ![c] = Append(@, Pong(m.body))] /\ failed' = failed
             \/ UNCHANGED wq /\ TryWrite(c, Pong(m.body))
      BY <2>1, <2>3, DispatchEffect
    <3>2. CASE UNCHANGED <<wq, failed>>
      BY <2>1, <3>1, <3>2 DEF LeaversOnly
    <3>3. CASE wq' = [wq EXCEPT ![c] = Append(@, Pong(m.body))] /\ failed' = failed
      <4>1. d # c => wq'[d] = wq[d]
        BY <3>3 DEF TypeOK
      <4>. QED
        BY <2>1, <3>1, <3>3, <4>1 DEF LeaversOnly
    <3>4. CASE UNCHANGED wq /\ TryWrite(c, Pong(m.body))
      <4>1. Len(sent[c]) > 0
        BY <2>1 DEF TypeOK
      <4>2. failed' = failed \/ (peer[c] = "closed" /\ failed' = [failed EXCEPT ![c] = @ + 1])
        BY <3>4, <4>1, FailsForLeavers
      <4>3. failed'[d] = failed[d] \/ peer[d] = "closed"
        BY <4>2 DEF TypeOK
      <4>. QED
        BY <2>1, <3>1, <3>4, <4>3 DEF LeaversOnly
    <3>. QED
      BY <3>1, <3>2, <3>3, <3>4
  <2>. QED
    BY <2>1, <2>2, <2>3
<1>3. ASSUME NEW c \in Conns, UvWrite(c)
      PROVE  LeaversOnly(d)'
  <2>1. /\ UNCHANGED <<peer, handle, leaked>>
        /\ handle[c] = "reading" /\ wq[c] # << >>
        /\ wq' = [wq EXCEPT ![c] = Tail(@)]
        /\ TryWrite(c, Head(wq[c]))
    BY <1>3 DEF UvWrite, peerVars
  <2>2. failed' = failed \/ (peer[c] = "closed" /\ failed' = [failed EXCEPT ![c] = @ + 1])
    BY <2>1, WroteOnce, FailsForLeavers
  <2>3. failed'[d] = failed[d] \/ peer[d] = "closed"
    BY <2>2 DEF TypeOK
  <2>4. d # c => wq'[d] = wq[d]
    BY <2>1 DEF TypeOK
  <2>. QED
    BY <2>1, <2>3, <2>4 DEF LeaversOnly
<1>4. ASSUME NEW c \in Conns, OnWriteFailed(c)
      PROVE  LeaversOnly(d)'
  <2>1. /\ UNCHANGED <<peer, handle, wq>> /\ failed[c] > 0
        /\ failed' = [failed EXCEPT ![c] = @ - 1]
        /\ leaked' = [leaked EXCEPT ![c] = @ + 1]
    BY <1>4 DEF OnWriteFailed, peerVars
  <2>2. leaked'[d] + failed'[d] = leaked[d] + failed[d]
    BY <2>1 DEF TypeOK
  <2>. QED
    BY <2>1, <2>2 DEF LeaversOnly
<1>5. ASSUME NEW c \in Conns, OnCloseClient(c)
      PROVE  LeaversOnly(d)'
  <2>1. /\ UNCHANGED peer /\ handle[c] = "closing"
        /\ leaked' = [leaked EXCEPT ![c] = @ + failed[c] + Len(wq[c])]
        /\ failed' = [failed EXCEPT ![c] = 0]
        /\ wq' = [wq EXCEPT ![c] = << >>]
        /\ handle' = [handle EXCEPT ![c] = "freed"]
    BY <1>5 DEF OnCloseClient, peerVars
  <2>2. CASE d # c
    BY <2>1, <2>2 DEF LeaversOnly, TypeOK
  <2>3. CASE d = c
    <3>1. /\ leaked'[d] = leaked[d] + failed[d] + Len(wq[d]) /\ failed'[d] = 0
          /\ handle'[d] = "freed"
      BY <2>1, <2>3 DEF TypeOK
    <3>2. Len(wq[d]) > 0 => wq[d] # << >>
      BY <1>0
    <3>3. leaked'[d] + failed'[d] > 0 => leaked[d] + failed[d] > 0 \/ Len(wq[d]) > 0
      BY <1>0, <3>1
    <3>. QED
      BY <2>1, <2>3, <3>1, <3>2, <3>3 DEF LeaversOnly
  <2>. QED
    BY <2>2, <2>3
<1>6. ASSUME NEW c \in Conns, OnReadEof(c)
      PROVE  LeaversOnly(d)'
  <2>1. /\ UNCHANGED <<peer, wq, failed, leaked>> /\ peer[c] = "closed"
        /\ handle' = [handle EXCEPT ![c] = "closing"]
    BY <1>6 DEF OnReadEof, peerVars, writeVars
  <2>. QED
    BY <2>1 DEF LeaversOnly, TypeOK
<1>7. ASSUME NEW c \in Conns, PeerConnect(c) \/ PeerClose(c)
      PROVE  LeaversOnly(d)'
  <2>1. /\ UNCHANGED <<wq, failed, leaked, handle>>
        /\ \/ peer[c] = "idle" /\ peer' = [peer EXCEPT ![c] = "open"]
           \/ peer' = [peer EXCEPT ![c] = "closed"]
    BY <1>7 DEF PeerConnect, PeerClose, writeVars
  <2>2. peer[d] = "closed" => peer'[d] = "closed"
    BY <2>1 DEF TypeOK
  <2>. QED
    BY <2>1, <2>2 DEF LeaversOnly
<1>8. CASE UNCHANGED <<peer, handle, wq, failed, leaked>>
  BY <1>8 DEF LeaversOnly
<1>9. \/ OnNewConnection \/ OnNewConnectionDropped
      \/ \E c \in Conns : \/ OnRead(c) \/ UvWrite(c) \/ OnWriteFailed(c) \/ OnCloseClient(c)
                         \/ OnReadEof(c) \/ PeerConnect(c) \/ PeerClose(c)
      \/ UNCHANGED <<peer, handle, wq, failed, leaked>>
  BY DEF Next, vars, AcceptStep, PeerStep, HiveStep, OnNewConnectionError, OnCloseStray,
         PeerWrite, PeerWriteMore, PeerRead, OnWritten, acceptVars, peerVars, writeVars
<1>. QED
  BY <1>1, <1>2, <1>3, <1>4, <1>5, <1>6, <1>7, <1>8, <1>9

LEMMA LeaversInit == Init => \A c \in Conns : LeaversOnly(c)
  BY DEF Init, LeaversOnly

-----------------------------------------------------------------------------
(* Who makes the hive exit.                                                 *)

(* The message that is not answered yet is the last one, or there are two.  *)
LEMMA OneUnanswered ==
  ASSUME TypeOK, NEW c \in Conns, SigPipe = "default", peer[c] = "closed",
         Len(replies[c]) < Len(sent[c]),
         \/ Len(sent[c]) > Len(replies[c]) + 1
         \/ DocumentKind(sent[c][Len(sent[c])]) # kEventKind
  PROVE  Culprit(c)
  BY DEF Culprit

LEMMA CulpritByRead ==
  ASSUME TypeOK, FreshUntilAccepted, NEW c \in Conns, InOrder(c), Paired(c), PartOfLast(c),
         OnRead(c), hive' # "up"
  PROVE  Culprit(c)
<1>. DEFINE doc == NextUnread(c)
            m   == [kind |-> DocumentKind(doc), body |-> DocumentBody(doc)]
<1>0. /\ Replied(c) \in Nat /\ Answers(c) \in Nat /\ Queued(c) \in Nat /\ Lost(c) \in Nat
      /\ Len(received[c]) \in Nat /\ Len(sent[c]) \in Nat /\ unsent[c] \in Nat
  BY CountsTyped DEF TypeOK
<1>1. /\ hive = "up"
      /\ Len(received[c]) + 1 \in 1..Len(sent[c])
      /\ doc \in PeerDocuments
      /\ DocumentBody(doc) \in Bodies
      /\ \/ ~(ReadsOneDocument(c) /\ DocumentKind(doc) \in {kPingKind, kEventKind})
         \/ DocumentKind(doc) \in {kPingKind, kEventKind} /\ Dispatch(c, m)
  BY OnReadEffect
<1>2. Replied(c) <= Len(received[c])
  BY <1>0 DEF Answers, Made, Paired
<1>3. doc = sent[c][Len(received[c]) + 1]
  BY DEF NextUnread
<1>4. CASE Unread(c) # 1
  <2>1. Len(sent[c]) > Replied(c) + 1
    BY <1>0, <1>1, <1>2, <1>4 DEF Unread
  <2>. QED
    BY <2>1 DEF Culprit, Replied
<1>5. CASE Unread(c) = 1
  <2>1. Len(sent[c]) = Len(received[c]) + 1 /\ doc = sent[c][Len(sent[c])]
    BY <1>0, <1>3, <1>5 DEF Unread
  <2>2. Len(sent[c]) \in 1..Len(sent[c])
    BY <1>0, <2>1
  <2>3. CASE DocumentKind(doc) \notin {kPingKind, kEventKind}
    BY <2>1, <2>2, <2>3 DEF Culprit
  <2>4. CASE ~ReadsOneDocument(c)
    <3>1. SegmentsOf(doc) \in Nat /\ ReadMax \in Nat \ {0}
      BY <1>1, SegmentsTyped, IpcServerAssumption
    <3>2. unsent[c] > 0 \/ SegmentsOf(doc) > ReadMax
      BY <1>0, <1>5, <2>4, <3>1 DEF ReadsOneDocument
    <3>3. SegmentsOf(doc) # 1
      BY <2>1, <3>1, <3>2 DEF PartOfLast
    <3>. QED
      BY <2>1, <2>2, <3>3 DEF Culprit
  <2>5. CASE DocumentKind(doc) \in {kPingKind, kEventKind} /\ Dispatch(c, m)
    <3>1. DocumentKind(doc) = kPingKind /\ TryWrite(c, Pong(m.body))
      BY <1>1, <2>5, DispatchEffect
    <3>2. peer[c] = "closed" /\ SigPipe = "default"
      BY <1>0, <1>1, <2>1, <3>1, FailsForLeavers
    <3>3. DocumentKind(sent[c][Len(sent[c])]) # kEventKind
      BY <2>1, <3>1, KindsDiffer
    <3>4. Len(replies[c]) < Len(sent[c])
      BY <1>0, <1>2, <2>1 DEF Replied
    <3>. QED
      BY <3>2, <3>3, <3>4, OneUnanswered
  <2>. QED
    BY <1>1, <2>3, <2>4, <2>5
<1>. QED
  BY <1>4, <1>5

LEMMA CulpritByWrite ==
  ASSUME TypeOK, FreshUntilAccepted, NEW c \in Conns, InOrder(c), Paired(c),
         UvWrite(c), hive' # "up"
  PROVE  Culprit(c)
<1>0. /\ Replied(c) \in Nat /\ Answers(c) \in Nat /\ Queued(c) \in Nat /\ Lost(c) \in Nat
      /\ Len(received[c]) \in Nat /\ Len(sent[c]) \in Nat
  BY CountsTyped
<1>1. hive = "up" /\ wq[c] # << >> /\ TryWrite(c, Head(wq[c]))
  BY DEF UvWrite
<1>2. peer[c] = "closed" /\ SigPipe = "default"
  BY <1>1, WroteOnce, FailsForLeavers
<1>3. Queued(c) > 0
  BY <1>1 DEF Queued, TypeOK
<1>4. Replied(c) + 1 <= Answers(c) /\ Answers(c) <= Len(received[c])
      /\ Len(received[c]) <= Len(sent[c])
  BY <1>0, <1>3 DEF Answers, Made, Paired, InOrder
<1>5. CASE Len(sent[c]) = Replied(c) + 1
  <2>1. /\ Len(received[c]) = Len(sent[c]) /\ Answers(c) = Len(received[c])
        /\ Len(received[c]) > 0 /\ Len(received[c]) \in 1..Len(received[c])
    BY <1>0, <1>4, <1>5
  <2>2. received[c][Len(received[c])].kind # kEventKind
    BY <2>1 DEF Paired
  <2>3. received[c][Len(received[c])] = [kind |-> DocumentKind(sent[c][Len(sent[c])]),
                                         body |-> DocumentBody(sent[c][Len(sent[c])])]
    <3>. DEFINE n == Len(received[c])
    <3>1. received[c][n] = [kind |-> DocumentKind(sent[c][n]), body |-> DocumentBody(sent[c][n])]
      BY <2>1 DEF InOrder
    <3>. QED
      BY <2>1, <3>1
  <2>. QED
    BY <1>0, <1>2, <1>5, <2>2, <2>3, OneUnanswered DEF Replied
<1>6. CASE Len(sent[c]) > Replied(c) + 1
  BY <1>6 DEF Culprit, Replied
<1>. QED
  BY <1>0, <1>4, <1>5, <1>6

(* A step that ends the hive, and every step after it, leaves the documents *)
(* and the pongs alone; the peers that have left stay away.                 *)
LEMMA CulpritStays ==
  ASSUME TypeOK, NEW c \in Conns, Culprit(c),
         UNCHANGED <<sent, replies>>, peer[c] = "closed" => peer'[c] = "closed"
  PROVE  Culprit(c)'
  BY DEF Culprit, SegmentsOf

LEMMA ExitStep ==
  ASSUME TypeOK, NEW c \in Conns, OnRead(c) \/ UvWrite(c), hive' # "up"
  PROVE  UNCHANGED <<sent, replies, peer>>
<1>. DEFINE doc == NextUnread(c)
            m   == [kind |-> DocumentKind(doc), body |-> DocumentBody(doc)]
<1>1. CASE OnRead(c)
  <2>1. /\ UNCHANGED <<sent, peer>> /\ hive = "up"
        /\ DocumentBody(doc) \in Bodies
        /\ \/ replies' = replies
           \/ DocumentKind(doc) \in {kPingKind, kEventKind} /\ Dispatch(c, m)
    BY <1>1, OnReadEffect
  <2>2. CASE DocumentKind(doc) \in {kPingKind, kEventKind} /\ Dispatch(c, m)
    <3>1. hive' = hive \/ TryWrite(c, Pong(m.body))
      BY <2>1, <2>2, DispatchEffect
    <3>. QED
      BY <2>1, <3>1 DEF TryWrite
  <2>. QED
    BY <2>1, <2>2
<1>2. CASE UvWrite(c)
  BY <1>2 DEF UvWrite, TryWrite, peerVars
<1>. QED
  BY <1>1, <1>2

LEMMA BlamedStep ==
  ASSUME TypeOK, FreshUntilAccepted, Blamed, [Next]_vars,
         \A c \in Conns : InOrder(c) /\ Paired(c) /\ PartOfLast(c)
  PROVE  Blamed'
<1>. SUFFICES ASSUME hive' = "exited" PROVE \E c \in Conns : Culprit(c)'
  BY DEF Blamed
<1>1. CASE hive = "exited"
  <2>1. PICK c \in Conns : Culprit(c)
    BY <1>1 DEF Blamed
  <2>2. \/ \E d \in Conns : PeerRead(d) \/ PeerClose(d) \/ OnWritten(d)
        \/ UNCHANGED vars
    BY <1>1 DEF Next, AcceptStep, PeerStep, HiveStep, OnNewConnection, OnNewConnectionDropped,
                OnNewConnectionError, OnCloseStray, PeerConnect, PeerWrite, PeerWriteMore,
                Connected, OnRead, Readable, OnReadEof, UvWrite, OnWriteFailed, OnCloseClient
  <2>3. UNCHANGED <<sent, replies>> /\ (peer[c] = "closed" => peer'[c] = "closed")
    <3>1. CASE UNCHANGED vars
      BY <3>1 DEF vars, peerVars, writeVars
    <3>2. ASSUME NEW d \in Conns, PeerRead(d) \/ PeerClose(d) \/ OnWritten(d)
          PROVE  UNCHANGED <<sent, replies>> /\ (peer[c] = "closed" => peer'[c] = "closed")
      BY <3>2 DEF PeerRead, PeerClose, OnWritten, peerVars, writeVars, TypeOK
    <3>. QED
      BY <2>2, <3>1, <3>2
  <2>. QED
    BY <2>1, <2>3, CulpritStays
<1>2. CASE hive = "up"
  <2>1. PICK c \in Conns : OnRead(c) \/ UvWrite(c)
    BY <1>2 DEF Next, vars, AcceptStep, PeerStep, HiveStep, OnNewConnection,
                OnNewConnectionDropped, OnNewConnectionError, OnCloseStray, PeerConnect,
                PeerWrite, PeerWriteMore, PeerRead, PeerClose, OnReadEof, OnWritten,
                OnWriteFailed, OnCloseClient, acceptVars
  <2>2. Culprit(c)
    BY <2>1, CulpritByRead, CulpritByWrite
  <2>3. UNCHANGED <<sent, replies, peer>>
    BY <2>1, ExitStep
  <2>. QED
    BY <2>2, <2>3, CulpritStays
<1>. QED
  BY <1>1, <1>2 DEF TypeOK

LEMMA CulpritIsUndisciplined ==
  ASSUME TypeOK, NEW c \in Conns, Paired(c), Culprit(c)
  PROVE  ~Disciplined(c)
<1>1. Len(sent[c]) \in Nat /\ Len(replies[c]) \in Nat /\ taken[c] \in Nat
  BY DEF TypeOK
<1>2. taken[c] <= Len(replies[c])
  BY DEF Paired, Replied
<1>. QED
  BY <1>1, <1>2 DEF Culprit, Disciplined

-----------------------------------------------------------------------------
(* The order of the echoes.                                                 *)

(* Counting pings along a sequence of messages.                             *)
LEMMA PingsCount ==
  ASSUME NEW S, NEW q \in Seq(S)
  PROVE  /\ \A n \in 0..Len(q) : Pings(q, n) \in Nat /\ Pings(q, n) <= Pings(q, Len(q))
         /\ Pings(q, 0) = 0
         /\ \A i \in 1..Len(q) : q[i].kind = kPingKind => Pings(q, i) >= 1
<1>. DEFINE P(n) == {i \in 1..n : q[i].kind = kPingKind}
<1>0. Len(q) \in Nat
  OBVIOUS
<1>1. \A n \in 0..Len(q) : IsFiniteSet(P(n)) /\ Cardinality(P(n)) \in Nat
  <2>. SUFFICES ASSUME NEW n \in 0..Len(q)
       PROVE  IsFiniteSet(P(n)) /\ Cardinality(P(n)) \in Nat
    OBVIOUS
  <2>1. IsFiniteSet(1..n) /\ P(n) \subseteq 1..n
    BY FS_Interval
  <2>. QED
    BY <2>1, FS_Subset, FS_CardinalityType
<1>2. \A n \in 0..Len(q) : Cardinality(P(n)) <= Cardinality(P(Len(q)))
  <2>. SUFFICES ASSUME NEW n \in 0..Len(q)
       PROVE  Cardinality(P(n)) <= Cardinality(P(Len(q)))
    OBVIOUS
  <2>1. P(n) \subseteq P(Len(q)) /\ IsFiniteSet(P(Len(q)))
    BY <1>0, <1>1
  <2>. QED
    BY <2>1, FS_Subset
<1>3. Cardinality(P(0)) = 0
  <2>1. P(0) = {}
    OBVIOUS
  <2>. QED
    BY <2>1, FS_EmptySet
<1>4. ASSUME NEW i \in 1..Len(q), q[i].kind = kPingKind
      PROVE  Cardinality(P(i)) >= 1
  <2>1. i \in P(i) /\ IsFiniteSet(P(i)) /\ Cardinality(P(i)) \in Nat
    BY <1>0, <1>1, <1>4
  <2>2. Cardinality(P(i)) # 0
    BY <2>1, FS_EmptySet
  <2>. QED
    BY <2>1, <2>2
<1>. QED
  BY <1>1, <1>2, <1>3, <1>4 DEF Pings

LEMMA PingsAppend ==
  ASSUME NEW S, NEW q \in Seq(S), NEW m \in S
  PROVE  /\ \A n \in 0..Len(q) : Pings(Append(q, m), n) = Pings(q, n)
         /\ m.kind = kPingKind => Pings(Append(q, m), Len(q) + 1) = Pings(q, Len(q)) + 1
         /\ m.kind # kPingKind => Pings(Append(q, m), Len(q) + 1) = Pings(q, Len(q))
<1>. DEFINE r == Append(q, m)
            L == Len(q)
            P(s, n) == {i \in 1..n : s[i].kind = kPingKind}
<1>1. L \in Nat /\ Len(r) = L + 1 /\ r[L + 1] = m /\ \A i \in 1..L : r[i] = q[i]
  OBVIOUS
<1>2. ASSUME NEW n \in 0..L
      PROVE  P(r, n) = P(q, n)
  BY <1>1
<1>3. IsFiniteSet(P(q, L))
  <2>1. IsFiniteSet(1..L) /\ P(q, L) \subseteq 1..L
    BY <1>1, FS_Interval
  <2>. QED
    BY <2>1, FS_Subset
<1>4. CASE m.kind = kPingKind
  <2>1. P(r, L + 1) = P(q, L) \cup {L + 1} /\ L + 1 \notin P(q, L)
    BY <1>1, <1>4
  <2>2. Cardinality(P(r, L + 1)) = Cardinality(P(q, L)) + 1
    BY <1>3, <2>1, FS_AddElement
  <2>. QED
    BY <1>2, <1>4, <2>2 DEF Pings
<1>5. CASE m.kind # kPingKind
  <2>1. P(r, L + 1) = P(q, L)
    BY <1>1, <1>5
  <2>. QED
    BY <1>2, <1>5, <2>1 DEF Pings
<1>. QED
  BY <1>4, <1>5

(* EchoInOrder, connection by connection.  The pings before the queue are   *)
(* those that were answered and those whose write request was lost.         *)
Dequeued(c) == Replied(c) + Lost(c)

EchoCounted(c) == Pings(received[c], Len(received[c])) = Answers(c)

EchoReplied(c) ==
  \A i \in 1..Len(received[c]) :
    received[c][i].kind = kPingKind /\ Pings(received[c], i) <= Replied(c)
      => replies[c][Pings(received[c], i)] = Pong(received[c][i].body)

EchoQueued(c) ==
  handle[c] = "reading" =>
    \A i \in 1..Len(received[c]) :
      received[c][i].kind = kPingKind /\ Pings(received[c], i) > Dequeued(c)
        => wq[c][Pings(received[c], i) - Dequeued(c)] = Pong(received[c][i].body)

Echoed(c) == EchoCounted(c) /\ EchoReplied(c) /\ EchoQueued(c)

LEMMA EchoSame ==
  ASSUME NEW d \in Conns, Echoed(d),
         received'[d] = received[d], wq'[d] = wq[d], replies'[d] = replies[d],
         failed'[d] = failed[d], leaked'[d] = leaked[d],
         handle'[d] = "reading" => handle[d] = "reading"
  PROVE  Echoed(d)'
<1>1. /\ Replied(d)' = Replied(d) /\ Lost(d)' = Lost(d) /\ Dequeued(d)' = Dequeued(d)
      /\ Answers(d)' = Answers(d)
  BY DEF Replied, Lost, Dequeued, Answers, Made, Queued
<1>2. EchoCounted(d)' /\ EchoReplied(d)'
  BY <1>1 DEF Echoed, EchoCounted, EchoReplied, Pings
<1>3. EchoQueued(d)'
  BY <1>1 DEF Echoed, EchoQueued, Pings
<1>. QED
  BY <1>2, <1>3 DEF Echoed

(* A message adds nothing to the pings before it; a pong made of a ping is  *)
(* the last one, in the queue if anything is queued.                        *)
LEMMA EchoOnRead ==
  ASSUME TypeOK, FreshUntilAccepted, NEW c \in Conns, OnRead(c),
         InOrder(c), Paired(c), LeaversOnly(c), Echoed(c)
  PROVE  Echoed(c)'
<1>. DEFINE doc == NextUnread(c)
            m   == [kind |-> DocumentKind(doc), body |-> DocumentBody(doc)]
            q   == received[c]
            n   == Len(received[c])
<1>0. /\ Replied(c) \in Nat /\ Answers(c) \in Nat /\ Queued(c) \in Nat /\ Lost(c) \in Nat
      /\ Made(c) \in Nat /\ n \in Nat /\ failed[c] \in Nat /\ leaked[c] \in Nat
  BY CountsTyped
<1>1. /\ UNCHANGED <<peer, handle>>
      /\ Len(received[c]) + 1 \in 1..Len(sent[c])
      /\ DocumentBody(doc) \in Bodies
      /\ \/ UNCHANGED <<received, wq, failed, leaked, replies>>
         \/ DocumentKind(doc) \in {kPingKind, kEventKind} /\ Dispatch(c, m)
  BY OnReadEffect
<1>2. CASE UNCHANGED <<received, wq, failed, leaked, replies>>
  BY <1>1, <1>2, EchoSame
<1>3. CASE DocumentKind(doc) \in {kPingKind, kEventKind} /\ Dispatch(c, m)
  <2>1. /\ received' = [received EXCEPT ![c] = Append(@, m)]
        /\ leaked' = leaked
        /\ \/ m.kind = kEventKind /\ UNCHANGED <<wq, replies, failed>>
           \/ /\ m.kind = kPingKind
              /\ wq' = [wq EXCEPT ![c] = Append(@, Pong(m.body))]
              /\ UNCHANGED <<replies, failed>>
           \/ /\ m.kind = kPingKind /\ UNCHANGED wq /\ wq[c] = << >>
              /\ TryWrite(c, Pong(m.body))
    BY <1>1, <1>3, DispatchEffect
  <2>2. m \in Dispatched /\ Pong(m.body) \in Pongs
    BY <1>1, <1>3, PongTyped DEF Dispatched
  <2>. HIDE DEF m
  <2>3. /\ q \in Seq(Dispatched) /\ wq[c] \in Seq(Pongs) /\ replies[c] \in Seq(Pongs)
        /\ received'[c] = Append(q, m)
    BY <2>1 DEF TypeOK
  <2>4. /\ Len(received'[c]) = n + 1 /\ received'[c][n + 1] = m
        /\ \A i \in 1..n : received'[c][i] = q[i]
    BY <2>2, <2>3
  <2>5. /\ \A i \in 1..n : Pings(received'[c], i) = Pings(q, i)
        /\ m.kind = kPingKind => Pings(received'[c], n + 1) = Pings(q, n) + 1
        /\ m.kind # kPingKind => Pings(received'[c], n + 1) = Pings(q, n)
    BY <1>0, <2>2, <2>3, PingsAppend
  <2>6. /\ Pings(q, n) \in Nat
        /\ \A i \in 1..n : Pings(q, i) \in Nat /\ Pings(q, i) <= Pings(q, n)
        /\ \A i \in 1..n : q[i].kind = kPingKind => Pings(q, i) >= 1
    BY <1>0, <2>3, PingsCount
  <2>7. Pings(q, n) = Answers(c)
    BY DEF Echoed, EchoCounted
  <2>8. \A i \in 1..(n + 1) : i \in 1..n \/ i = n + 1
    BY <1>0
  <2>9. CASE m.kind = kEventKind /\ UNCHANGED <<wq, replies, failed>>
    <3>0. m.kind # kPingKind
      BY <2>9, KindsDiffer
    <3>1. /\ Replied(c)' = Replied(c) /\ Dequeued(c)' = Dequeued(c) /\ Answers(c)' = Answers(c)
          /\ wq'[c] = wq[c] /\ replies'[c] = replies[c] /\ handle'[c] = handle[c]
      BY <1>1, <2>1, <2>9 DEF Replied, Dequeued, Lost, Answers, Made, Queued
    <3>2. EchoCounted(c)'
      BY <2>4, <2>5, <2>7, <3>0, <3>1 DEF EchoCounted
    <3>3. EchoReplied(c)'
      BY <2>4, <2>5, <2>8, <3>0, <3>1 DEF Echoed, EchoReplied
    <3>4. EchoQueued(c)'
      BY <2>4, <2>5, <2>8, <3>0, <3>1 DEF Echoed, EchoQueued
    <3>. QED
      BY <3>2, <3>3, <3>4 DEF Echoed
  <2>10. CASE /\ m.kind = kPingKind
              /\ wq' = [wq EXCEPT ![c] = Append(@, Pong(m.body))]
              /\ UNCHANGED <<replies, failed>>
    <3>1. /\ Replied(c)' = Replied(c) /\ Lost(c)' = Lost(c) /\ Dequeued(c)' = Dequeued(c)
          /\ replies'[c] = replies[c] /\ handle'[c] = handle[c]
      BY <1>1, <2>1, <2>10 DEF Replied, Dequeued, Lost
    <3>2. /\ wq'[c] = Append(wq[c], Pong(m.body)) /\ Queued(c)' = Queued(c) + 1
          /\ wq'[c][Queued(c) + 1] = Pong(m.body)
          /\ \A j \in 1..Queued(c) : wq'[c][j] = wq[c][j]
      BY <2>2, <2>3, <2>10 DEF TypeOK, Queued
    <3>3. Answers(c)' = Answers(c) + 1
      BY <1>0, <3>1, <3>2 DEF Answers, Made
    <3>4. Answers(c) = Dequeued(c) + Queued(c) /\ Dequeued(c) \in Nat /\ Replied(c) <= Dequeued(c)
      BY <1>0 DEF Answers, Made, Dequeued
    <3>5. EchoCounted(c)'
      BY <2>4, <2>5, <2>7, <2>10, <3>3 DEF EchoCounted
    <3>6. EchoReplied(c)'
      <4>1. ~(Pings(received'[c], n + 1) <= Replied(c))
        BY <1>0, <2>5, <2>7, <2>10, <3>4
      <4>2. EchoReplied(c)
        BY DEF Echoed
      <4>. QED
        BY <1>0, <2>4, <2>5, <2>8, <3>1, <4>1, <4>2 DEF EchoReplied
    <3>7. EchoQueued(c)'
      <4>. SUFFICES ASSUME handle[c] = "reading", NEW i \in 1..(n + 1),
                           received'[c][i].kind = kPingKind,
                           Pings(received'[c], i) > Dequeued(c)
                    PROVE  wq'[c][Pings(received'[c], i) - Dequeued(c)]
                             = Pong(received'[c][i].body)
        BY <2>4, <3>1 DEF EchoQueued
      <4>1. CASE i \in 1..n
        <5>1. /\ wq[c][Pings(q, i) - Dequeued(c)] = Pong(q[i].body)
              /\ Pings(q, i) > Dequeued(c)
          BY <2>4, <2>5, <4>1 DEF Echoed, EchoQueued
        <5>2. Pings(q, i) - Dequeued(c) \in 1..Queued(c)
          BY <1>0, <2>6, <2>7, <3>4, <4>1, <5>1
        <5>. QED
          BY <2>4, <2>5, <3>2, <4>1, <5>1, <5>2
      <4>2. CASE i = n + 1
        <5>1. Pings(received'[c], i) - Dequeued(c) = Queued(c) + 1
          BY <1>0, <2>5, <2>7, <2>10, <3>4, <4>2
        <5>. QED
          BY <2>4, <3>2, <4>2, <5>1
      <4>. QED
        BY <2>8, <4>1, <4>2
    <3>. QED
      BY <3>5, <3>6, <3>7 DEF Echoed
  <2>11. CASE /\ m.kind = kPingKind /\ UNCHANGED wq /\ wq[c] = << >>
              /\ TryWrite(c, Pong(m.body))
    <3>1. Queued(c) = 0 /\ Queued(c)' = 0 /\ handle'[c] = handle[c]
      BY <1>1, <2>11 DEF Queued
    <3>2. Answers(c) = Dequeued(c) /\ Dequeued(c) \in Nat
      BY <1>0, <3>1 DEF Answers, Made, Dequeued
    <3>3. \/ /\ peer[c] = "open"
             /\ replies' = [replies EXCEPT ![c] = Append(@, Pong(m.body))]
             /\ failed' = failed
          \/ replies' = replies /\ failed' = [failed EXCEPT ![c] = @ + 1]
      BY <2>11 DEF TryWrite
    <3>4. CASE replies' = replies /\ failed' = [failed EXCEPT ![c] = @ + 1]
      <4>1. /\ Replied(c)' = Replied(c) /\ replies'[c] = replies[c]
            /\ failed'[c] = failed[c] + 1 /\ leaked'[c] = leaked[c]
        BY <2>1, <3>4 DEF Replied, TypeOK
      <4>2. Lost(c)' = Lost(c) + 1
        BY <1>0, <4>1 DEF Lost
      <4>3. Answers(c)' = Answers(c) + 1 /\ Dequeued(c)' = Dequeued(c) + 1
        BY <1>0, <3>1, <4>1, <4>2 DEF Answers, Made, Dequeued
      <4>4. EchoCounted(c)'
        BY <2>4, <2>5, <2>7, <2>11, <4>3 DEF EchoCounted
      <4>5. EchoReplied(c)'
        <5>1. ~(Pings(received'[c], n + 1) <= Replied(c))
          BY <1>0, <2>5, <2>7, <2>11, <3>2 DEF Dequeued
        <5>2. EchoReplied(c)
          BY DEF Echoed
        <5>. QED
          BY <1>0, <2>4, <2>5, <2>8, <4>1, <5>1, <5>2 DEF EchoReplied
      <4>6. EchoQueued(c)'
        <5>1. \A i \in 1..(n + 1) : ~(Pings(received'[c], i) > Dequeued(c)')
          BY <1>0, <2>5, <2>6, <2>7, <2>8, <2>11, <3>2, <4>3
        <5>. QED
          BY <2>4, <5>1 DEF EchoQueued
      <4>. QED
        BY <4>4, <4>5, <4>6 DEF Echoed
    <3>5. CASE /\ peer[c] = "open"
               /\ replies' = [replies EXCEPT ![c] = Append(@, Pong(m.body))]
               /\ failed' = failed
      <4>1. /\ replies'[c] = Append(replies[c], Pong(m.body))
            /\ failed'[c] = failed[c] /\ leaked'[c] = leaked[c]
        BY <2>1, <3>5 DEF TypeOK
      <4>2. /\ Replied(c)' = Replied(c) + 1
            /\ replies'[c][Replied(c) + 1] = Pong(m.body)
            /\ \A j \in 1..Replied(c) : replies'[c][j] = replies[c][j]
        BY <2>2, <2>3, <4>1 DEF Replied
      <4>3. Lost(c) = 0
        BY <1>0, <3>5 DEF LeaversOnly, Lost
      <4>4. Lost(c)' = Lost(c)
        BY <4>1 DEF Lost
      <4>5. Answers(c)' = Answers(c) + 1 /\ Dequeued(c)' = Dequeued(c) + 1 /\ Answers(c) = Replied(c)
        BY <1>0, <3>1, <3>2, <4>2, <4>3, <4>4 DEF Answers, Made, Dequeued
      <4>6. EchoCounted(c)'
        BY <2>4, <2>5, <2>7, <2>11, <4>5 DEF EchoCounted
      <4>7. EchoReplied(c)'
        <5>. SUFFICES ASSUME NEW i \in 1..(n + 1), received'[c][i].kind = kPingKind
                      PROVE  replies'[c][Pings(received'[c], i)] = Pong(received'[c][i].body)
          BY <2>4 DEF EchoReplied
        <5>1. CASE i \in 1..n
          <6>0. q[i].kind = kPingKind
            BY <2>4, <5>1
          <6>1. Pings(q, i) \in 1..Replied(c)
            <7>1. Pings(q, i) \in Nat /\ Pings(q, i) >= 1 /\ Pings(q, i) <= Answers(c)
              BY <2>6, <2>7, <5>1, <6>0
            <7>. QED
              BY <1>0, <4>5, <7>1
          <6>2. replies[c][Pings(q, i)] = Pong(q[i].body)
            BY <2>4, <5>1, <6>1 DEF Echoed, EchoReplied
          <6>. QED
            BY <2>4, <2>5, <4>2, <5>1, <6>1, <6>2
        <5>2. CASE i = n + 1
          BY <2>4, <2>5, <2>7, <2>11, <4>2, <4>5, <5>2
        <5>. QED
          BY <2>8, <5>1, <5>2
      <4>8. EchoQueued(c)'
        <5>1. \A i \in 1..(n + 1) : ~(Pings(received'[c], i) > Dequeued(c)')
          BY <1>0, <2>5, <2>6, <2>7, <2>8, <2>11, <3>2, <4>5
        <5>. QED
          BY <2>4, <5>1 DEF EchoQueued
      <4>. QED
        BY <4>6, <4>7, <4>8 DEF Echoed
    <3>. QED
      BY <3>3, <3>4, <3>5
  <2>. QED
    BY <2>1, <2>9, <2>10, <2>11
<1>. QED
  BY <1>1, <1>2, <1>3

(* The head of the queue is the pong of the first ping that waits for one.  *)
LEMMA EchoUvWrite ==
  ASSUME TypeOK, FreshUntilAccepted, NEW c \in Conns, UvWrite(c),
         InOrder(c), Paired(c), LeaversOnly(c), Echoed(c)
  PROVE  Echoed(c)'
<1>. DEFINE q == received[c]
            n == Len(received[c])
<1>0. /\ Replied(c) \in Nat /\ Answers(c) \in Nat /\ Queued(c) \in Nat /\ Lost(c) \in Nat
      /\ Made(c) \in Nat /\ n \in Nat /\ failed[c] \in Nat /\ leaked[c] \in Nat
      /\ q \in Seq(Dispatched)
  BY CountsTyped DEF TypeOK
<1>1. /\ UNCHANGED <<peer, handle, received, leaked>>
      /\ wq' = [wq EXCEPT ![c] = Tail(@)]
      /\ wq[c] # << >> /\ handle[c] = "reading"
      /\ TryWrite(c, Head(wq[c]))
  BY DEF UvWrite, peerVars
<1>2. /\ wq'[c] = Tail(wq[c]) /\ wq[c] \in Seq(Pongs) /\ replies[c] \in Seq(Pongs)
      /\ Queued(c) > 0 /\ Queued(c)' = Queued(c) - 1 /\ Head(wq[c]) = wq[c][1]
      /\ Head(wq[c]) \in Pongs
      /\ \A j \in 1..(Queued(c) - 1) : wq'[c][j] = wq[c][j + 1]
  <2>1. wq'[c] = Tail(wq[c]) /\ wq[c] \in Seq(Pongs) /\ replies[c] \in Seq(Pongs)
    BY <1>1 DEF TypeOK
  <2>2. /\ Len(wq[c]) \in Nat \ {0} /\ Head(wq[c]) = wq[c][1] /\ Head(wq[c]) \in Pongs
        /\ Len(Tail(wq[c])) = Len(wq[c]) - 1
        /\ \A i \in 1..Len(Tail(wq[c])) : Tail(wq[c])[i] = wq[c][i + 1]
    BY <1>1, <2>1, HeadAndTail
  <2>3. Queued(c) = Len(wq[c]) /\ Queued(c)' = Len(Tail(wq[c]))
    BY <2>1 DEF Queued
  <2>. QED
    BY <2>1, <2>2, <2>3
<1>3. /\ \A i \in 1..n : Pings(q, i) \in Nat /\ Pings(q, i) <= Pings(q, n)
      /\ Pings(q, n) = Answers(c)
  BY <1>0, PingsCount DEF Echoed, EchoCounted
<1>4. Answers(c) = Dequeued(c) + Queued(c) /\ Dequeued(c) \in Nat
  BY <1>0 DEF Answers, Made, Dequeued
<1>5. \A i \in 1..n : q[i].kind = kPingKind /\ Pings(q, i) > Dequeued(c)
                        => wq[c][Pings(q, i) - Dequeued(c)] = Pong(q[i].body)
  BY <1>1 DEF Echoed, EchoQueued
<1>6. ASSUME Dequeued(c)' = Dequeued(c) + 1
      PROVE  EchoCounted(c)' /\ EchoQueued(c)'
  <2>1. Answers(c)' = Answers(c)
    <3>1. Answers(c)' = Dequeued(c)' + Queued(c)'
      <4>1. Replied(c)' \in Nat /\ Lost(c)' \in Nat /\ Queued(c)' \in Nat
        <5>1. TypeOK'
          <6>1. HiveStep(c)
            BY DEF HiveStep
          <6>. QED
            BY <6>1, TypeHive
        <5>2. /\ replies'[c] \in Seq(Pongs) /\ wq'[c] \in Seq(Pongs)
              /\ failed'[c] \in Nat /\ leaked'[c] \in Nat
          BY <5>1 DEF TypeOK
        <5>. QED
          BY <5>2 DEF Replied, Lost, Queued
      <4>. QED
        BY <4>1 DEF Answers, Made, Dequeued
    <3>. QED
      BY <1>2, <1>4, <1>6, <3>1, <1>0
  <2>2. EchoCounted(c)'
    BY <1>1, <1>3, <2>1 DEF EchoCounted
  <2>3. EchoQueued(c)'
    <3>. SUFFICES ASSUME NEW i \in 1..n, q[i].kind = kPingKind,
                         Pings(q, i) > Dequeued(c) + 1
                  PROVE  wq'[c][Pings(q, i) - (Dequeued(c) + 1)] = Pong(q[i].body)
      BY <1>1, <1>6 DEF EchoQueued
    <3>1. wq[c][Pings(q, i) - Dequeued(c)] = Pong(q[i].body)
      BY <1>3, <1>4, <1>5
    <3>2. /\ Pings(q, i) - (Dequeued(c) + 1) \in 1..(Queued(c) - 1)
          /\ Pings(q, i) - (Dequeued(c) + 1) + 1 = Pings(q, i) - Dequeued(c)
      BY <1>0, <1>3, <1>4
    <3>. QED
      BY <1>2, <3>1, <3>2
  <2>. QED
    BY <2>2, <2>3
<1>7. CASE /\ peer[c] = "open"
           /\ replies' = [replies EXCEPT ![c] = Append(@, Head(wq[c]))]
           /\ failed' = failed
  <2>1. replies'[c] = Append(replies[c], Head(wq[c])) /\ failed'[c] = failed[c]
    BY <1>7 DEF TypeOK
  <2>2. /\ Replied(c)' = Replied(c) + 1
        /\ replies'[c][Replied(c) + 1] = Head(wq[c])
        /\ \A j \in 1..Replied(c) : replies'[c][j] = replies[c][j]
    BY <1>2, <2>1 DEF Replied
  <2>3. Lost(c) = 0 /\ Lost(c)' = Lost(c)
    BY <1>0, <1>1, <1>7, <2>1 DEF LeaversOnly, Lost
  <2>4. Dequeued(c)' = Dequeued(c) + 1 /\ Dequeued(c) = Replied(c)
    BY <1>0, <2>2, <2>3 DEF Dequeued
  <2>5. EchoReplied(c)'
    <3>. SUFFICES ASSUME NEW i \in 1..n, q[i].kind = kPingKind,
                         Pings(q, i) <= Replied(c) + 1
                  PROVE  replies'[c][Pings(q, i)] = Pong(q[i].body)
      BY <1>1, <2>2 DEF EchoReplied
    <3>1. CASE Pings(q, i) <= Replied(c)
      <4>1. replies[c][Pings(q, i)] = Pong(q[i].body)
        BY <3>1 DEF Echoed, EchoReplied
      <4>2. Pings(q, i) \in 1..Replied(c)
        BY <1>0, <3>1, PingsCount
      <4>. QED
        BY <2>2, <4>1, <4>2
    <3>2. CASE Pings(q, i) = Replied(c) + 1
      <4>0. Pings(q, i) > Dequeued(c)
        BY <1>0, <2>4, <3>2
      <4>1. wq[c][Pings(q, i) - Dequeued(c)] = Pong(q[i].body)
        BY <1>5, <4>0
      <4>2. Pings(q, i) - Dequeued(c) = 1
        BY <1>0, <2>4, <3>2
      <4>. QED
        BY <1>2, <2>2, <3>2, <4>1, <4>2
    <3>. QED
      BY <1>0, <1>3, <3>1, <3>2
  <2>. QED
    BY <1>6, <2>4, <2>5 DEF Echoed
<1>8. CASE replies' = replies /\ failed' = [failed EXCEPT ![c] = @ + 1]
  <2>1. Replied(c)' = Replied(c) /\ failed'[c] = failed[c] + 1
    BY <1>8 DEF Replied, TypeOK
  <2>2. Lost(c)' = Lost(c) + 1
    BY <1>0, <1>1, <2>1 DEF Lost
  <2>3. Dequeued(c)' = Dequeued(c) + 1
    BY <1>0, <2>1, <2>2 DEF Dequeued
  <2>4. EchoReplied(c)'
    BY <1>1, <1>8, <2>1 DEF Echoed, EchoReplied
  <2>. QED
    BY <1>6, <2>3, <2>4 DEF Echoed
<1>. QED
  BY <1>1, <1>7, <1>8 DEF TryWrite

LEMMA EchoStep ==
  ASSUME TypeOK, FreshUntilAccepted, [Next]_vars,
         \A c \in Conns : InOrder(c) /\ Paired(c) /\ LeaversOnly(c) /\ Echoed(c),
         NEW d \in Conns
  PROVE  Echoed(d)'
<1>0. /\ failed[d] \in Nat /\ leaked[d] \in Nat /\ Queued(d) \in Nat /\ Replied(d) \in Nat
      /\ Made(d) \in Nat /\ Lost(d) \in Nat
  BY CountsTyped
<1>1. CASE OnNewConnection \/ OnNewConnectionDropped
  <2>1. /\ backlog # << >> /\ UNCHANGED <<received, wq, replies, failed, leaked>>
        /\ \E state \in {"reading", "closing"} :
             handle' = [handle EXCEPT ![Head(backlog)] = state]
    BY <1>1 DEF OnNewConnection, OnNewConnectionDropped, writeVars
  <2>2. CASE d # Head(backlog)
    <3>1. handle'[d] = handle[d]
      BY <2>1, <2>2 DEF TypeOK
    <3>. QED
      BY <2>1, <3>1, EchoSame
  <2>3. CASE d = Head(backlog)
    <3>1. received[d] = << >>
      <4>1. backlog \in Seq(Conns)
        BY DEF TypeOK
      <4>2. 1 \in 1..Len(backlog) /\ d = backlog[1]
        BY <2>1, <2>3, <4>1, HeadAndTail
      <4>. QED
        BY <4>2 DEF FreshUntilAccepted
    <3>2. Answers(d)' = Answers(d) /\ Len(received[d]) = 0
      BY <2>1, <3>1 DEF Answers, Made, Lost, Replied, Queued
    <3>. QED
      BY <2>1, <3>2 DEF Echoed, EchoCounted, EchoReplied, EchoQueued
  <2>. QED
    BY <2>2, <2>3
<1>2. ASSUME NEW c \in Conns, OnRead(c)
      PROVE  Echoed(d)'
  <2>1. CASE d = c
    BY <1>2, <2>1, EchoOnRead
  <2>2. CASE d # c
    <3>1. /\ received'[d] = received[d] /\ replies'[d] = replies[d] /\ handle'[d] = handle[d]
          /\ wq'[d] = wq[d] /\ failed'[d] = failed[d] /\ leaked'[d] = leaked[d]
      BY <1>2, <2>2 DEF OnRead, Dispatch, OnPing, TryWrite, TypeOK, writeVars
    <3>. QED
      BY <3>1, EchoSame
  <2>. QED
    BY <2>1, <2>2
<1>3. ASSUME NEW c \in Conns, UvWrite(c)
      PROVE  Echoed(d)'
  <2>1. CASE d = c
    BY <1>3, <2>1, EchoUvWrite
  <2>2. CASE d # c
    <3>1. /\ received'[d] = received[d] /\ replies'[d] = replies[d] /\ handle'[d] = handle[d]
          /\ wq'[d] = wq[d] /\ failed'[d] = failed[d] /\ leaked'[d] = leaked[d]
      BY <1>3, <2>2 DEF UvWrite, TryWrite, TypeOK
    <3>. QED
      BY <3>1, EchoSame
  <2>. QED
    BY <2>1, <2>2
<1>4. ASSUME NEW c \in Conns, OnWriteFailed(c)
      PROVE  Echoed(d)'
  <2>1. /\ UNCHANGED <<replies, wq, received, handle>> /\ failed[c] > 0
        /\ failed' = [failed EXCEPT ![c] = @ - 1]
        /\ leaked' = [leaked EXCEPT ![c] = @ + 1]
    BY <1>4 DEF OnWriteFailed
  <2>2. Lost(d)' = Lost(d)
    <3>1. \/ failed'[d] = failed[d] /\ leaked'[d] = leaked[d]
          \/ failed'[d] = failed[d] - 1 /\ leaked'[d] = leaked[d] + 1
      BY <2>1 DEF TypeOK
    <3>. QED
      BY <1>0, <3>1 DEF Lost
  <2>3. Replied(d)' = Replied(d) /\ Answers(d)' = Answers(d) /\ Dequeued(d)' = Dequeued(d)
    BY <2>1, <2>2 DEF Answers, Made, Dequeued, Replied, Queued
  <2>. QED
    BY <2>1, <2>3 DEF Echoed, EchoCounted, EchoReplied, EchoQueued
<1>5. ASSUME NEW c \in Conns, OnCloseClient(c)
      PROVE  Echoed(d)'
  <2>1. /\ UNCHANGED <<replies, received>>
        /\ leaked' = [leaked EXCEPT ![c] = @ + failed[c] + Queued(c)]
        /\ wq' = [wq EXCEPT ![c] = << >>]
        /\ failed' = [failed EXCEPT ![c] = 0]
        /\ handle' = [handle EXCEPT ![c] = "freed"]
    BY <1>5 DEF OnCloseClient, Queued
  <2>2. CASE d # c
    <3>1. /\ received'[d] = received[d] /\ replies'[d] = replies[d] /\ handle'[d] = handle[d]
          /\ wq'[d] = wq[d] /\ failed'[d] = failed[d] /\ leaked'[d] = leaked[d]
      BY <2>1, <2>2 DEF TypeOK
    <3>. QED
      BY <3>1, EchoSame
  <2>3. CASE d = c
    <3>1. /\ handle'[d] = "freed" /\ Queued(d)' = 0 /\ failed'[d] = 0
          /\ leaked'[d] = leaked[d] + failed[d] + Queued(d) /\ Replied(d)' = Replied(d)
      BY <2>1, <2>3 DEF TypeOK, Queued, Replied
    <3>2. Lost(d)' = Lost(d) + Queued(d) /\ Made(d)' = Replied(d)
      BY <1>0, <3>1 DEF Lost, Made
    <3>3. Answers(d)' = Answers(d)
      BY <1>0, <3>2 DEF Answers, Made
    <3>. QED
      BY <2>1, <3>1, <3>3 DEF Echoed, EchoCounted, EchoReplied, EchoQueued
  <2>. QED
    BY <2>2, <2>3
<1>6. ASSUME NEW c \in Conns, OnReadEof(c)
      PROVE  Echoed(d)'
  <2>1. /\ UNCHANGED <<received, wq, replies, failed, leaked>>
        /\ handle' = [handle EXCEPT ![c] = "closing"]
    BY <1>6 DEF OnReadEof, writeVars
  <2>2. handle'[d] = "reading" => handle[d] = "reading"
    BY <2>1 DEF TypeOK
  <2>. QED
    BY <2>1, <2>2, EchoSame
<1>7. CASE UNCHANGED <<handle, received, wq, replies, failed, leaked>>
  BY <1>7, EchoSame
<1>8. \/ OnNewConnection \/ OnNewConnectionDropped
      \/ \E c \in Conns : \/ OnRead(c) \/ UvWrite(c) \/ OnWriteFailed(c) \/ OnCloseClient(c)
                         \/ OnReadEof(c)
      \/ UNCHANGED <<handle, received, wq, replies, failed, leaked>>
  BY DEF Next, vars, AcceptStep, PeerStep, HiveStep, OnNewConnectionError, OnCloseStray,
         PeerConnect, PeerWrite, PeerWriteMore, PeerRead, PeerClose, OnWritten, writeVars
<1>. QED
  BY <1>1, <1>2, <1>3, <1>4, <1>5, <1>6, <1>7, <1>8

LEMMA AnswersSum ==
  ASSUME TypeOK, NEW c \in Conns
  PROVE  /\ Answers(c) = Replied(c) + Queued(c) + failed[c] + leaked[c]
         /\ Answers(c) - Queued(c) = Dequeued(c)
<1>1. /\ failed[c] \in Nat /\ leaked[c] \in Nat /\ Replied(c) \in Nat /\ Queued(c) \in Nat
      /\ Lost(c) \in Nat
  BY CountsTyped
<1>2. /\ Answers(c) = (Replied(c) + Queued(c)) + Lost(c) /\ Lost(c) = failed[c] + leaked[c]
      /\ Dequeued(c) = Replied(c) + Lost(c)
  BY DEF Answers, Made, Lost, Dequeued
<1>. QED
  BY <1>1, <1>2

LEMMA EchoInit == Init => \A c \in Conns : Echoed(c)
<1>. SUFFICES ASSUME Init, NEW c \in Conns PROVE Echoed(c)
  OBVIOUS
<1>1. received[c] = << >> /\ Len(received[c]) = 0
  BY DEF Init
<1>2. Pings(received[c], 0) = 0
  <2>1. received[c] \in Seq(Dispatched) /\ Len(received[c]) = 0
    BY <1>1
  <2>. QED
    BY <2>1, PingsCount
<1>3. Answers(c) = 0
  BY DEF Init, Answers, Made, Lost, Replied, Queued
<1>. QED
  BY <1>1, <1>2, <1>3 DEF Echoed, EchoCounted, EchoReplied, EchoQueued

-----------------------------------------------------------------------------
(* The inductive invariant: every part is needed to keep another one.       *)
IInv ==
  /\ TypeOK
  /\ FreshUntilAccepted
  /\ Blamed
  /\ \A c \in Conns : InOrder(c) /\ Paired(c) /\ PartOfLast(c) /\ LeaversOnly(c) /\ Echoed(c)

LEMMA IInvInit == Init => IInv
<1>. SUFFICES ASSUME Init PROVE IInv
  OBVIOUS
<1>1. Blamed /\ \A c \in Conns : PartOfLast(c)
  BY DEF Init, Blamed, PartOfLast
<1>. QED
  BY <1>1, TypeInit, FreshInit, InOrderInit, PairedInit, LeaversInit, EchoInit DEF IInv

LEMMA IInvStep == IInv /\ [Next]_vars => IInv'
<1>. SUFFICES ASSUME IInv, [Next]_vars PROVE IInv'
  OBVIOUS
<1>1. /\ TypeOK /\ FreshUntilAccepted /\ Blamed
      /\ \A c \in Conns : InOrder(c) /\ Paired(c) /\ PartOfLast(c) /\ LeaversOnly(c) /\ Echoed(c)
  BY DEF IInv
<1>2. TypeOK' /\ FreshUntilAccepted' /\ Blamed'
  BY <1>1, TypeStep, FreshStep, BlamedStep
<1>3. \A d \in Conns : InOrder(d)' /\ Paired(d)' /\ PartOfLast(d)' /\ LeaversOnly(d)' /\ Echoed(d)'
  BY <1>1, InOrderStep, PairedStep, PartStep, LeaversStep, EchoStep
<1>. QED
  BY <1>2, <1>3 DEF IInv

(* The hive is never ended by peers that keep to single, expected messages, *)
(* one at a time, and wait for the pong to a ping before they leave.        *)
THEOREM ExitsAreBlamed == Spec => []OnlyUndisciplinedPeersEndIt
<1>1. IInv => OnlyUndisciplinedPeersEndIt
  BY CulpritIsUndisciplined DEF IInv, Blamed, OnlyUndisciplinedPeersEndIt
<1>. QED
  BY <1>1, IInvInit, IInvStep, PTL DEF Spec

(* A write request that OnWrite gives up was to a peer that had left: what  *)
(* stays at the server never costs it memory.                               *)
THEOREM LeaksBlamed == Spec => []LeaksOnlyForLeavers
<1>1. IInv => LeaksOnlyForLeavers
  BY DEF IInv, LeaversOnly, LeaksOnlyForLeavers
<1>. QED
  BY <1>1, IInvInit, IInvStep, PTL DEF Spec

(* The pongs of a connection, those the kernel took and those that wait,    *)
(* answer its pings one for one and in their order, whatever was queued,    *)
(* lost or cancelled in between and whichever connections come and go.      *)
THEOREM EchoesInOrder == Spec => []EchoInOrder
<1>1. IInv => EchoInOrder
  <2>. SUFFICES ASSUME IInv, NEW c \in Conns
       PROVE  LET pings    == Pings(received[c], Len(received[c]))
                  dequeued == pings - Len(wq[c])
              IN  /\ pings = Len(replies[c]) + Len(wq[c]) + failed[c] + leaked[c]
                  /\ \A i \in DOMAIN received[c] :
                       LET k == Pings(received[c], i) IN
                       received[c][i].kind = kPingKind =>
                         /\ k <= Len(replies[c]) => replies[c][k] = Pong(received[c][i].body)
                         /\ handle[c] = "reading" /\ k > dequeued =>
                              wq[c][k - dequeued] = Pong(received[c][i].body)
    BY DEF EchoInOrder
  <2>0. TypeOK /\ Echoed(c)
    BY DEF IInv
  <2>1. /\ DOMAIN received[c] = 1..Len(received[c])
        /\ failed[c] \in Nat /\ leaked[c] \in Nat /\ Replied(c) \in Nat /\ Queued(c) \in Nat
        /\ Replied(c) = Len(replies[c]) /\ Queued(c) = Len(wq[c])
    BY <2>0, CountsTyped DEF TypeOK, Replied, Queued
  <2>2. /\ Answers(c) = Replied(c) + Queued(c) + failed[c] + leaked[c]
        /\ Answers(c) - Queued(c) = Dequeued(c)
    BY <2>0, AnswersSum
  <2>4. Pings(received[c], Len(received[c])) = Answers(c)
    BY <2>0 DEF Echoed, EchoCounted
  <2>. QED
    BY <2>0, <2>1, <2>2, <2>4 DEF Echoed, EchoReplied, EchoQueued
<1>. QED
  BY <1>1, IInvInit, IInvStep, PTL DEF Spec

-----------------------------------------------------------------------------
(* A client that is freed has no request left for OnWrite to be called of.  *)
FreedIsEmpty ==
  \A c \in Conns : handle[c] = "freed" => wq[c] = << >> /\ written[c] = 0 /\ failed[c] = 0

(* What any step may do to a connection that is closing or freed, and how   *)
(* one becomes freed.                                                       *)
ClosedStays(c) ==
  /\ handle[c] \in {"closing", "freed"} =>
       /\ handle'[c] = handle[c] \/ handle'[c] = "freed"
       /\ received'[c] = received[c] /\ replies'[c] = replies[c]
       /\ handle'[c] = "freed" => wq'[c] = << >> /\ written'[c] = 0 /\ failed'[c] = 0
  /\ handle'[c] = "freed" => handle[c] \in {"closing", "freed"}

LEMMA ClosedStep ==
  ASSUME IInv, FreedIsEmpty, [Next]_vars, NEW c \in Conns
  PROVE  ClosedStays(c)
<1>. USE DEF IInv, FreedIsEmpty, ClosedStays, peerVars, writeVars, acceptVars
<1>1. CASE UNCHANGED vars
  BY <1>1 DEF vars
<1>2. ASSUME UNCHANGED <<handle, received, writeVars>> PROVE ClosedStays(c)
  BY <1>2
<1>3. CASE OnNewConnection \/ OnNewConnectionDropped
  <2>1. PICK state \in {"reading", "closing"} :
          /\ backlog # << >>
          /\ handle' = [handle EXCEPT ![Head(backlog)] = state]
          /\ UNCHANGED <<received, writeVars>>
    BY <1>3 DEF OnNewConnection, OnNewConnectionDropped
  <2>2. Head(backlog) \in Conns /\ handle[Head(backlog)] = "none"
    <3>1. backlog \in Seq(Conns) /\ \A i \in 1..Len(backlog) : handle[backlog[i]] = "none"
      BY DEF TypeOK, FreshUntilAccepted
    <3>2. Len(backlog) \in Nat \ {0} /\ Head(backlog) = backlog[1] /\ Head(backlog) \in Conns
      BY <2>1, <3>1, HeadAndTail
    <3>. QED
      BY <3>1, <3>2
  <2>. QED
    BY <2>1, <2>2 DEF TypeOK
<1>4. ASSUME NEW d \in Conns, OnRead(d) PROVE ClosedStays(c)
  <2>1. handle[d] = "reading" /\ UNCHANGED handle
    BY <1>4, OnReadEffect
  <2>2. c # d => /\ received'[c] = received[c] /\ replies'[c] = replies[c]
                 /\ wq'[c] = wq[c] /\ written'[c] = written[c] /\ failed'[c] = failed[c]
    BY <1>4 DEF OnRead, Dispatch, OnPing, TryWrite, TypeOK
  <2>. QED
    BY <2>1, <2>2
<1>5. ASSUME NEW d \in Conns, OnReadEof(d) PROVE ClosedStays(c)
  BY <1>5 DEF OnReadEof, TypeOK
<1>6. ASSUME NEW d \in Conns, UvWrite(d) PROVE ClosedStays(c)
  <2>1. handle[d] = "reading" /\ UNCHANGED <<handle, received>>
    BY <1>6 DEF UvWrite
  <2>2. c # d => /\ replies'[c] = replies[c] /\ wq'[c] = wq[c]
                 /\ written'[c] = written[c] /\ failed'[c] = failed[c]
    BY <1>6 DEF UvWrite, TryWrite, TypeOK
  <2>. QED
    BY <2>1, <2>2
<1>7. ASSUME NEW d \in Conns, OnWritten(d) \/ OnWriteFailed(d) PROVE ClosedStays(c)
  BY <1>7 DEF OnWritten, OnWriteFailed, TypeOK
<1>8. ASSUME NEW d \in Conns, OnCloseClient(d) PROVE ClosedStays(c)
  BY <1>8 DEF OnCloseClient, TypeOK
<1>. QED
  BY <1>1, <1>2, <1>3, <1>4, <1>5, <1>6, <1>7, <1>8
     DEF Next, AcceptStep, PeerStep, HiveStep, OnNewConnectionError, OnCloseStray,
         PeerConnect, PeerWrite, PeerWriteMore, PeerRead, PeerClose

(* After CloseClient nothing is read from, written to or accepted on that   *)
(* connection, and after OnCloseClient no OnWrite of it is pending.         *)
THEOREM ClosedForGood == Spec => ClosedIsFinal
<1>. DEFINE Final(c) ==
       handle[c] \in {"closing", "freed"} =>
         /\ handle'[c] = handle[c] \/ handle'[c] = "freed"
         /\ received'[c] = received[c] /\ replies'[c] = replies[c]
         /\ handle'[c] = "freed" => wq'[c] = << >> /\ written'[c] + failed'[c] = 0
<1>1. Init => FreedIsEmpty
  BY DEF Init, FreedIsEmpty
<1>2. IInv /\ FreedIsEmpty /\ [Next]_vars => FreedIsEmpty'
  BY ClosedStep DEF ClosedStays, FreedIsEmpty
<1>3. IInv /\ FreedIsEmpty /\ [Next]_vars => [\A c \in Conns : Final(c)]_vars
  BY ClosedStep DEF ClosedStays
<1>. QED
  BY <1>1, <1>2, <1>3, IInvInit, IInvStep, PTL DEF Spec, ClosedIsFinal
=============================================================================
