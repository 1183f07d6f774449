--------------------------- MODULE MCPointLocal ---------------------------
(***************************************************************************)
(* Three frames, so that an inter patch may be the match of another; sizes *)
(* below, at and above the thresholds; a byte of 8 values, so that a       *)
(* patchSize may be larger than it.                                        *)
(***************************************************************************)
EXTENDS PointLocal

MCShapes == {[size |-> <<1, 1>>, owned |-> {0}], [size |-> <<2, 1>>, owned |-> {0, 1}],
             [size |-> <<2, 2>>, owned |-> {0, 2, 3}]}
MCMaxPatches == <<2, 2, 1>>
MCOutcomes == {[b \in 0 .. 3 |-> (b + 1) % 3], [b \in 0 .. 3 |-> 2 - (b % 3)]}
=============================================================================
