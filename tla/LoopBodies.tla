----------------------------- MODULE LoopBodies -----------------------------
(***************************************************************************)
(* What one point's share of each pass over a cloud computes from what it  *)
(* read: the orientation it is projected to, its smoothed position and its *)
(* smoothed colour.                                                        *)
(***************************************************************************)
EXTENDS Integers, FiniteSets, FiniteSetsExt

CONSTANTS
  Points,      \* indices of the points
  Orients,     \* indices of the orientations a point may be projected to
  Iterations,  \* iterationCountRefineSegmentation
  Weight,      \* of a neighbour's orientation against the normal
  Radius,      \* of the neighbourhood that is smoothed over
  Threshold,   \* thresholdSmoothing and thresholdColorSmoothing
  MaxTones,    \* a neighbourhood of more tones is texture, not an edge
  Red,         \* the colour of a point that smoothing moved
  Inputs       \* normals, adjacency, rebuilt points and colours

IsArray(a) == a = [i \in Points |-> a[i]]

ASSUME LoopAssumption ==
  /\ IsFiniteSet(Points) /\ Points # {}
  /\ Orients \in SUBSET Nat /\ IsFiniteSet(Orients) /\ 0 \in Orients
  /\ Iterations \in Nat
  /\ \A x \in Inputs :
       /\ x.adj \in [Points -> SUBSET Points]
       /\ \A a \in {x.position, x.boundary, x.color, x.transferred, x.decoded} :
            IsArray(a)

Dist(a, b) == IF a < b THEN b - a ELSE a - b
Sum(got) == MapThenSumSet(LAMBDA n : got[n], DOMAIN got)
Mean(got) ==
  (Sum(got) + Cardinality(DOMAIN got) \div 2) \div Cardinality(DOMAIN got)
Near(pos, i) == {n \in Points : Dist(pos[n], pos[i]) <= Radius}
OtherPatch(x, near, i) == \E n \in near : x.patch[n] # x.patch[i]
LeastOf(S) == CHOOSE j \in S : \A k \in S : j <= k

(***************************************************************************)
(* Segmentation.  Among equal scores the first orientation wins.           *)
(***************************************************************************)
First(x, i) ==
  LeastOf({j \in Orients :
             \A k \in Orients : x.normal[i][k] <= x.normal[i][j]})

Counts(x, part, i) ==
  [j \in Orients |-> Cardinality({n \in x.adj[i] : part[n] = j})]

\* A point without a positive score stays where it is.
Choice(x, i, old, counts) ==
  LET score(j) == x.normal[i][j] + Weight * counts[j]
      best == {j \in Orients : /\ score(j) > 0
                               /\ \A k \in Orients : score(k) <= score(j)}
  IN  IF best = {} THEN old ELSE LeastOf(best)

(***************************************************************************)
(* Smoothing: got holds what was read of the neighbours.                   *)
(***************************************************************************)
Far(got, old) ==
  LET n == Cardinality(DOMAIN got)
      off == Sum(got) - n * old
  IN  off * off + n \div 2 >= Threshold * n

Moves(x, i, got, old) == OtherPatch(x, DOMAIN got, i) /\ Far(got, old)
Moved(x, i, got, old) == IF Moves(x, i, got, old) THEN Mean(got) ELSE old
Marked(x, i, got, old) ==
  IF OtherPatch(x, DOMAIN got, i) /\ old = 1 THEN 2 ELSE old
Reddened(x, i, got, old, col) == IF Moves(x, i, got, old) THEN Red ELSE col

\* For the texture the encoder blends the points that smoothing marked; both
\* sides blend the other border points that are next to another patch.
Wanted(stage) == IF stage = "presmooth" THEN 2 ELSE 1

Blended(x, stage, i, got, old) ==
  IF /\ DOMAIN got # {}
     /\ stage = "presmooth" \/ OtherPatch(x, DOMAIN got, i)
     /\ Dist(Mean(got), old) >= Threshold
     /\ Cardinality({got[n] : n \in DOMAIN got}) <= MaxTones
  THEN Mean(got)
  ELSE old

\* The neighbours whose colours are read, and the colours as they are now.
Seen(stage, pos, bound, i) ==
  IF bound[i] = Wanted(stage) THEN Near(pos, i) ELSE {}
Values(array, S) == [n \in S |-> array[n]]

\* The decoder neither segments nor makes textures.
FirstPass(x) == IF x.encoder THEN "initial" ELSE "smooth"
AfterSmooth(x) == IF x.encoder THEN "transfer" ELSE "decode"
=============================================================================
