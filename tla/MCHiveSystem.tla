---------------------------- MODULE MCHiveSystem ----------------------------
(***************************************************************************)
(* HiveSystem for TLC: two or three commands at the same hive, each with   *)
(* an argument that is short (a), takes two segments (b) or is left out.   *)
(***************************************************************************)
EXTENDS HiveSystem, TLC

CONSTANTS a, b, empty, garbage, c1, c2, c3

MCBodies      == {a, b}
MCMemoryKinds == {kInvalidMessage}
MCSegments    == (a :> 1) @@ (b :> 2)
MCDocuments   ==
  {CliDocument(k, body) : k \in {kPingKind, kEventKind}, body \in MCBodies}
    \cup {WriteMessage(InitEventMessage(a))}

MCAllArguments  == {a, b, empty}
MCLongOrNone    == {b, empty}
MCThreeConns    == {c1, c2, c3}
MCTwoPings      == { (c1 :> "ping") @@ (c2 :> "ping") @@ (c3 :> "unknown"),
                     (c1 :> "ping") @@ (c2 :> "hello") @@ (c3 :> "apply") }
MCTwoConns      == {c1, c2}
MCPingAndOne    == { (c1 :> "ping") @@ (c2 :> "publish"),
                     (c1 :> "ping") @@ (c2 :> "hello") }
=============================================================================
