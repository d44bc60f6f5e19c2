----------------------------- MODULE HiveSystem -----------------------------
(***************************************************************************)
(* The hive with its real peers: on each connection a vespa command line   *)
(* process (cmd/cli/cmd/vespa/main.go), which runs one command with one    *)
(* argument against the server of IpcServer, or an IpcClient of lib/ipc    *)
(* ("hello"), which sends its one event and stays.  A process decides its  *)
(* outcome first; its exit then closes the connection.                     *)
(***************************************************************************)
EXTENDS IpcServer

CONSTANTS
  Mixes,       \* the commands that the processes may run, one for each
  Arguments,   \* the digests and topics users give, EmptyBody for none
  HelloWorld   \* what ping sends when it is given none, and IpcClient always

Commands == {"ping", "publish", "apply", "unknown", "hello"}

ASSUME HiveSystemAssumption ==
  /\ Mixes \subseteq [Conns -> Commands]
  /\ Arguments \subseteq Bodies \cup {EmptyBody}
  /\ HelloWorld \in Bodies
  /\ EmptyBody \notin Bodies
  /\ {CliDocument(k, body) : k \in {kPingKind, kEventKind}, body \in Bodies} \subseteq PeerDocuments
  /\ WriteMessage(InitEventMessage(HelloWorld)) \in PeerDocuments

VARIABLES
  command,  \* the command of each process
  arg,      \* the --digest or --topic of each, EmptyBody when left out
  phase     \* how far main has come, or its outcome

cliVars    == <<command, arg, phase>>
systemVars == <<vars, cliVars>>

Running  == {"connected", "writing", "awaiting", "listening"}
Outcomes == {"ok", "usage", "refused", "ioerror", "eof", "timeout", "killed",
             "badkind", "mismatch"}

SystemTypeOK ==
  /\ TypeOK
  /\ command \in Mixes
  /\ arg \in [Conns -> Arguments]
  /\ phase \in [Conns -> {"start"} \cup Running \cup Outcomes]

SystemInit ==
  /\ Init
  /\ command \in Mixes
  /\ arg \in [Conns -> Arguments]
  /\ \A c \in Conns : command[c] \in {"unknown", "apply", "hello"} => arg[c] = EmptyBody
  /\ phase = [c \in Conns |-> "start"]

-----------------------------------------------------------------------------
Digest(c)  == IF arg[c] = EmptyBody THEN HelloWorld ELSE arg[c]
Body(c)    == IF command[c] \in {"ping", "hello"} THEN Digest(c) ELSE arg[c]

(* What IpcClient's on_connect writes.                                      *)
HelloEvent == WriteMessage(InitEventMessage(HelloWorld))

Request(c) ==
  IF command[c] = "hello" THEN HelloEvent
    ELSE CliDocument(IF command[c] = "ping" THEN kPingKind ELSE kEventKind, Body(c))

(* apply has no case in main's second switch, and a topic may not be empty. *)
Sendable(c) ==
  command[c] \in {"ping", "hello"} \/ (command[c] = "publish" /\ arg[c] /= EmptyBody)

Advance(c, from, to) ==
  /\ phase[c] = from
  /\ phase' = [phase EXCEPT ![c] = to]
  /\ UNCHANGED <<command, arg>>

InvalidCommand(c) ==
  /\ command[c] = "unknown"
  /\ Advance(c, "start", "usage")
  /\ UNCHANGED vars

Dial(c) ==
  /\ command[c] \notin {"unknown", "hello"}
  /\ Advance(c, "start", "connected")
  /\ PeerConnect(c)

IpcClientInit(c) ==
  /\ command[c] = "hello"
  /\ Advance(c, "start", "connected")
  /\ PeerConnect(c)

DialRefused(c) ==
  /\ command[c] /= "unknown"
  /\ hive = "exited" \/ Len(backlog) >= Backlog
  /\ Advance(c, "start", "refused")
  /\ UNCHANGED vars

BadUsage(c) ==
  /\ ~Sendable(c)
  /\ Advance(c, "connected", "usage")
  /\ UNCHANGED vars

Send(c) ==
  /\ Sendable(c)
  /\ Advance(c, "connected", "writing")
  /\ PeerWrite(c, Request(c))

SendMore(c) ==
  /\ phase[c] = "writing"
  /\ PeerWriteMore(c)
  /\ UNCHANGED cliVars

(* The write is over: ping goes on to read, publish is done.                *)
Sent(c) ==
  /\ command[c] /= "hello"
  /\ unsent[c] = 0
  /\ Advance(c, "writing", IF command[c] = "ping" THEN "awaiting" ELSE "ok")
  /\ UNCHANGED vars

(* IpcClient's on_write frees the request and leaves the client in its loop. *)
OnMessageSent(c) ==
  /\ command[c] = "hello"
  /\ unsent[c] = 0
  /\ Advance(c, "writing", "listening")
  /\ UNCHANGED vars

StillWriting(c) ==
  \/ phase[c] = "connected" /\ Sendable(c)
  \/ phase[c] = "writing" /\ unsent[c] > 0

SendFails(c) ==
  /\ StillWriting(c)
  /\ ~Connected(c)
  /\ Advance(c, phase[c], "ioerror")
  /\ UNCHANGED vars

(* Mutant: the digest is compared with the flag, not with what was sent.    *)
ReceiveForFlag(c) ==
  LET doc == replies[c][taken[c] + 1] IN
  /\ PeerRead(c)
  /\ Advance(c, "awaiting",
       IF CliReadKind(doc) /= kPongKind THEN "badkind"
       ELSE IF CliReadDigest(doc) /= arg[c] THEN "mismatch" ELSE "ok")

(* readMessage takes one whole document, however it arrives; decodePong and *)
(* ping check its kind and its digest.                                      *)
Receive(c) ==
  LET doc == replies[c][taken[c] + 1] IN
  /\ PeerRead(c)
  /\ Advance(c, "awaiting",
       IF CliReadKind(doc) /= kPongKind THEN "badkind"
       ELSE IF CliReadDigest(doc) /= Digest(c) THEN "mismatch" ELSE "ok")

ReceiveEof(c) ==
  /\ taken[c] = Len(replies[c])
  /\ hive = "exited" \/ handle[c] \in {"closing", "freed"}
  /\ Advance(c, "awaiting", "eof")
  /\ UNCHANGED vars

(* Mutant: the loop of IpcClientRun ends when on_write has been called.     *)
LoopEndsWhenSent(c) ==
  /\ phase[c] = "listening"
  /\ Advance(c, "listening", "ok")
  /\ UNCHANGED vars

(* IpcClient's OnRead ignores what it is given.  The end of the connection  *)
(* leaves nothing active in its loop, and IpcClientRun returns true; so it  *)
(* does after a connect or a write that failed, which it only logs.         *)
LoopEnds(c) ==
  /\ hive = "exited" \/ handle[c] \in {"closing", "freed"}
  /\ Advance(c, "listening", "ok")
  /\ UNCHANGED vars

(* The five seconds since the dial are over: reads and writes fail.         *)
Deadline(c) ==
  /\ command[c] /= "hello"
  /\ StillWriting(c) \/ phase[c] = "awaiting"
  /\ Advance(c, phase[c], "timeout")
  /\ UNCHANGED vars

Kill(c) ==
  /\ phase[c] \in Running
  /\ Advance(c, phase[c], "killed")
  /\ UNCHANGED vars

Exit(c) ==
  /\ phase[c] \in Outcomes
  /\ PeerClose(c)
  /\ UNCHANGED cliVars

-----------------------------------------------------------------------------
CliProgress(c) ==
  \/ BadUsage(c)
  \/ Send(c)
  \/ SendMore(c)
  \/ Sent(c)
  \/ OnMessageSent(c)
  \/ SendFails(c)
  \/ Receive(c)
  \/ ReceiveEof(c)
  \/ LoopEnds(c)
  \/ Deadline(c)
  \/ Exit(c)

CliStep(c) ==
  \/ InvalidCommand(c)
  \/ Dial(c) \/ IpcClientInit(c) \/ DialRefused(c)
  \/ Kill(c)
  \/ CliProgress(c)

SystemNext ==
  \/ AcceptStep /\ UNCHANGED cliVars
  \/ \E c \in Conns : CliStep(c) \/ (HiveStep(c) /\ UNCHANGED cliVars)

(* A process that runs goes on, and its deadline passes whatever the hive   *)
(* does; nothing makes a user start a command or kill one.                  *)
SystemSpec ==
  /\ SystemInit
  /\ [][SystemNext]_systemVars
  /\ Fairness
  /\ \A c \in Conns : WF_systemVars(CliProgress(c))

-----------------------------------------------------------------------------
(* ping's two sanity checks never fire: with any number of clients, early   *)
(* exits and cancelled writes, the document a ping reads is the pong of its *)
(* own digest.                                                              *)
PongIsMine == \A c \in Conns : phase[c] \notin {"badkind", "mismatch"}

(* Commands with arguments that fit one write never end the hive, unless    *)
(* SIGPIPE kills and a ping was killed or timed out before its pong came.   *)
ShortArgumentsKeepItUp ==
  hive = "exited" =>
    \E c \in Conns :
      \/ Sendable(c) /\ Segments[Body(c)] > 1
      \/ SigPipe = "default" /\ command[c] = "ping" /\ phase[c] \in {"timeout", "killed"}

(* What is published, and confirmed with "published event", or sent by an   *)
(* IpcClient, reaches OnEvent once its connection is accepted, although the *)
(* client may have closed it long before, and it is accepted or dropped by  *)
(* accept, unless the hive exits.                                           *)
PublishedArrives ==
  \A c \in Conns :
    LET Confirmed == \/ phase[c] = "ok" /\ command[c] = "publish"
                     \/ phase[c] = "listening" IN
    /\ Confirmed /\ handle[c] = "none" ~> hive = "exited" \/ handle[c] /= "none"
    /\ Confirmed /\ handle[c] = "reading" ~>
         hive = "exited" \/ received[c] = << [kind |-> kEventKind, body |-> Body(c)] >>

(* IpcClientRun returns true while the hive is up only to a client that the *)
(* hive never heard: one that was refused, could not write or was dropped   *)
(* by accept.  Whoever was heard waits in the loop as long as the hive is   *)
(* up.                                                                      *)
TrueMeansUnheard ==
  \A c \in Conns :
    command[c] = "hello" /\ phase[c] \in {"ok", "refused", "ioerror"} /\ hive = "up"
      => received[c] = << >>

(* The hive, its command lines and IpcClients implement HiveService.        *)
ServiceState(c) ==
  CASE phase[c] \in {"start", "connected"} -> "idle"
    [] phase[c] \in {"writing", "awaiting"} -> "asking"
    [] phase[c] \in {"ok", "listening"} -> "done"
    [] phase[c] = "killed" /\ command[c] = "hello" /\ sent[c] /= << >> /\ unsent[c] = 0
         -> "done"
    [] OTHER -> "failed"

Service == INSTANCE HiveService WITH
  Clients <- Conns,
  Digests <- Bodies \cup {EmptyBody},
  Nothing <- EmptyBody,
  wants   <- [c \in Conns |-> IF command[c] = "ping" THEN "ping" ELSE "publish"],
  request <- [c \in Conns |-> Body(c)],
  state   <- [c \in Conns |-> ServiceState(c)],
  served  <- [c \in Conns |-> Len(received[c])],
  answer  <- [c \in Conns |-> IF phase[c] = "ok" /\ command[c] = "ping"
                                THEN CliReadDigest(replies[c][taken[c]]) ELSE EmptyBody]

ImplementsService == Service!Spec
=============================================================================
