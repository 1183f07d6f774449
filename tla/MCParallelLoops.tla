-------------------------- MODULE MCParallelLoops --------------------------
(***************************************************************************)
(* Three points, two orientations, two threads.  The clouds differ in what *)
(* the normals prefer, in who is whose neighbour, and in positions close   *)
(* enough that a point that moves changes what others read.                *)
(***************************************************************************)
EXTENDS ParallelLoops, TLC

MCPoints == 1 .. 3
MCOrients == {0, 1}
MCRed == 9

Line == [i \in MCPoints |-> {n \in MCPoints : n - i \in -1 .. 1}]
Circle == [i \in MCPoints |-> MCPoints]
Preferring(sides) == [i \in MCPoints |-> [j \in MCOrients |->
                        IF j \in sides[i] THEN 1 ELSE -1]]

Cloud(encoder, normal, adj, pos, bound, col) ==
  [encoder |-> encoder, normal |-> normal, adj |-> adj,
   patch |-> <<1, 1, 2>>, position |-> pos, boundary |-> bound,
   color |-> <<0, 0, 0>>, transferred |-> col, decoded |-> <<6, 3, 0>>]

MCInputs ==
  {Cloud(TRUE, Preferring(sides), adj, <<0, 2, 4>>, <<0, 1, 1>>, <<6, 0, 3>>) :
     sides \in [MCPoints -> {{0}, {1}}], adj \in {Line, Circle}}
  \union
  {Cloud(FALSE, Preferring(<<{}, {}, {}>>), Line, pos, bound, <<0, 0, 0>>) :
     pos \in {<<0, 2, 4>>, <<0, 3, 5>>, <<2, 0, 2>>},
     bound \in {<<1, 1, 1>>, <<0, 1, 1>>}}
=============================================================================
