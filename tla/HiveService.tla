----------------------------- MODULE HiveService -----------------------------
(***************************************************************************)
(* What the hive promises to its command line, without sockets, segments,  *)
(* queues or codecs.  A client holds one request.  A ping is answered with *)
(* its own digest, and only after the hive has dispatched it; a publish is *)
(* never answered.  The hive dispatches a request at most once, possibly   *)
(* after the client has given up.  Every client ends.                      *)
(***************************************************************************)
EXTENDS Naturals

CONSTANTS
  Clients,
  Digests,
  Nothing   \* the answer of a client that has none

VARIABLES
  wants,    \* what each client wants, "ping" or "publish"
  request,  \* the digest or topic of each client
  state,    \* "idle", "asking", "done" or "failed"
  served,   \* how often the hive has dispatched its request
  answer    \* what the client was told

vars == <<wants, request, state, served, answer>>

Init ==
  /\ wants \in [Clients -> {"ping", "publish"}]
  /\ request \in [Clients -> Digests]
  /\ state = [c \in Clients |-> "idle"]
  /\ served = [c \in Clients |-> 0]
  /\ answer = [c \in Clients |-> Nothing]

Ask(c) ==
  /\ state[c] = "idle"
  /\ state' = [state EXCEPT ![c] = "asking"]
  /\ UNCHANGED <<wants, request, served, answer>>

Serve(c) ==
  /\ state[c] /= "idle"
  /\ served[c] = 0
  /\ served' = [served EXCEPT ![c] = 1]
  /\ UNCHANGED <<wants, request, state, answer>>

Answer(c) ==
  /\ wants[c] = "ping"
  /\ state[c] = "asking"
  /\ served[c] = 1
  /\ state' = [state EXCEPT ![c] = "done"]
  /\ answer' = [answer EXCEPT ![c] = request[c]]
  /\ UNCHANGED <<wants, request, served>>

Published(c) ==
  /\ wants[c] = "publish"
  /\ state[c] = "asking"
  /\ state' = [state EXCEPT ![c] = "done"]
  /\ UNCHANGED <<wants, request, served, answer>>

Fail(c) ==
  /\ state[c] \in {"idle", "asking"}
  /\ state' = [state EXCEPT ![c] = "failed"]
  /\ UNCHANGED <<wants, request, served, answer>>

Next == \E c \in Clients : Ask(c) \/ Serve(c) \/ Answer(c) \/ Published(c) \/ Fail(c)

Safety == Init /\ [][Next]_vars

(* A client that has asked does not wait for ever.                          *)
End(c) == state[c] = "asking" /\ (Answer(c) \/ Published(c) \/ Fail(c))

Spec == Safety /\ \A c \in Clients : WF_vars(End(c))
=============================================================================
