------------------------------ MODULE MCPacking ------------------------------
(***************************************************************************)
(* Small instances of Packing.  Four shapes: a block, a wide one, one with *)
(* a hole in its box, and a tall one of another view.                      *)
(***************************************************************************)
EXTENDS Packing

Full(w, h) == (0 .. w - 1) \X (0 .. h - 1)
Shape(w, h, occ, view, at) ==
  [w |-> w, h |-> h, occ |-> occ, view |-> view, at |-> at]

Dot == Shape(1, 1, Full(1, 1), 0, 0)
Wide == Shape(2, 1, Full(2, 1), 0, 1)
Hook == Shape(2, 2, Full(2, 2) \ {<<1, 0>>}, 0, 1)
Tall == Shape(1, 3, Full(1, 3), 1, 0)
FourShapes == {Dot, Wide, Hook, Tall}

\* Overlaps in tenths.
Overlaps == [a, b \in 0 .. 1 |-> IF a = b THEN 9 ELSE 2 + a]

Missed == {<<3, 9>>}

Way(strategy, constrained, eight, separate, guard) ==
  [strategy |-> strategy, constrained |-> constrained, eight |-> eight,
   separate |-> separate, guard |-> guard]
Ways ==
  {Way(0, TRUE, FALSE, FALSE, 0), Way(0, FALSE, FALSE, TRUE, 1),
   Way(1, TRUE, TRUE, FALSE, 0), Way(1, TRUE, FALSE, FALSE, 1),
   Way(2, TRUE, FALSE, TRUE, 0)}

(***************************************************************************)
(* The loop of the spiral search, to which SpiralStep is compared.         *)
(***************************************************************************)
RECURSIVE SpiralLoop(_, _, _)
SpiralLoop(x, y, i) ==
  /\ SpiralStep(x, y) = i
  /\ i < 120 =>
       IF AbsOf(x) <= AbsOf(y) /\ (x # y \/ x >= 0)
       THEN SpiralLoop(x + (IF y >= 0 THEN 1 ELSE -1), y, i + 1)
       ELSE SpiralLoop(x, y + (IF x >= 0 THEN -1 ELSE 1), i + 1)

ASSUME SpiralAgrees == SpiralLoop(0, 0, 0)
=============================================================================
