---------------------------- MODULE MCRenderArray ----------------------------
(* Instances of RenderArray for TLC.                                        *)
EXTENDS RenderArray, TLC

CONSTANTS a1, a2, a3, p1, p2, long, short

TwoByOne   == (a1 :> p1) @@ (a2 :> p1) @@ (a3 :> p2)
FirstByte  == (long :> short) @@ (short :> short)
=============================================================================
