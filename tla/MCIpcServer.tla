---------------------------- MODULE MCIpcServer ----------------------------
(***************************************************************************)
(* IpcServer for TLC.  With ReadMax = 2, a document with body b takes two  *)
(* segments: a read may find half of it, or all of it and nothing of the   *)
(* next one.  One with body d takes three and cannot be read in one piece. *)
(***************************************************************************)
EXTENDS IpcServer, TLC

CONSTANTS a, b, d, empty, garbage, c1, c2

MCBodies      == {a, b, d}
MCMemoryKinds == {kInvalidMessage, kPongKind}
MCTwoConns    == {c1, c2}
MCOneConn     == {c1}
MCSegments    == (a :> 1) @@ (b :> 2) @@ (d :> 3)

MCDocuments ==
  { CliDocument(kPingKind, a), CliDocument(kPingKind, b), CliDocument(kEventKind, a),
    CliDocument(kEventKind, d), Pong(a) }

(* For the queue: what keeps the hive up, if it is read in time.            *)
MCQueueDocuments ==
  {CliDocument(kPingKind, a), CliDocument(kPingKind, b), CliDocument(kEventKind, a)}

MCSymmetry == Permutations(MCTwoConns)
=============================================================================
