--------------------------- MODULE MCGlobalPatch ---------------------------
(***************************************************************************)
(* Small instances of GlobalPatch.                                         *)
(***************************************************************************)
EXTENDS GlobalPatch

Full(w, h) == (0 .. w - 1) \X (0 .. h - 1)
Shape(w, h, occ, view, at_) ==
  [w |-> w, h |-> h, occ |-> occ, view |-> view, at |-> at_]

Bar == Shape(3, 1, Full(3, 1), 0, 1)
Hook == Shape(2, 2, Full(2, 2) \ {<<1, 0>>}, 1, 1)
Tower == Shape(1, 5, Full(1, 5), 0, 0)
ThreeShapes == {Bar, Hook, Tower}

\* Overlaps in tenths.
Overlaps == [a, b \in 0 .. 1 |-> IF a = b THEN 9 ELSE 2 + a]

OneMissed == {<<9>>}

Way(strategy, constrained, eight, separate, guard) ==
  [strategy |-> strategy, constrained |-> constrained, eight |-> eight,
   separate |-> separate, guard |-> guard]
RandomAccess == {Way(1, TRUE, FALSE, FALSE, 0)}
Unconstrained == {Way(1, FALSE, FALSE, FALSE, 0)}
=============================================================================
