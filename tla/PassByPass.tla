----------------------------- MODULE PassByPass -----------------------------
(***************************************************************************)
(* What the parallel loops over the points of a cloud promise: each pass   *)
(* acts as one step that reads the cloud as the pass before left it, so    *)
(* the outcome depends neither on the number of threads nor on their       *)
(* order.  A cloud is segmented (first by normals, then refined) and, once *)
(* rebuilt, smoothed in place, painted with the transferred colours,       *)
(* smoothed in colour for the texture, painted with the colours of the     *)
(* video and smoothed in colour again.  A decoder's cloud starts rebuilt   *)
(* and skips the texture.                                                  *)
(***************************************************************************)
EXTENDS LoopBodies

VARIABLES
  in,         \* the input of this cloud, constant
  pass,       \* the pass that is next
  round,      \* iterations of the refinement done
  partition,  \* orientation of each point
  position,   \* of each rebuilt point
  boundary,   \* 0 inside a patch, 1 at its border, 2 also moved or near others
  color       \* of each rebuilt point

vars == <<in, pass, round, partition, position, boundary, color>>

-----------------------------------------------------------------------------
Init ==
  /\ in \in Inputs
  /\ pass = FirstPass(in) /\ round = 0
  /\ partition = [i \in Points |-> 0]
  /\ position = in.position /\ boundary = in.boundary /\ color = in.color

Segment ==
  /\ pass = "initial"
  /\ partition' = [i \in Points |-> First(in, i)]
  /\ pass' = "refine"
  /\ UNCHANGED <<in, round, position, boundary, color>>

Refine ==
  /\ pass = "refine" /\ round < Iterations
  /\ partition' = [i \in Points |->
                     Choice(in, i, partition[i], Counts(in, partition, i))]
  /\ round' = round + 1
  /\ UNCHANGED <<in, pass, position, boundary, color>>

Rebuild ==
  /\ pass = "refine" /\ round = Iterations
  /\ pass' = "smooth"
  /\ UNCHANGED <<in, round, partition, position, boundary, color>>

Smooth ==
  /\ pass = "smooth"
  /\ LET got == [i \in Points |-> Values(position, Near(position, i))]
     IN  /\ position' = [i \in Points |-> Moved(in, i, got[i], position[i])]
         /\ boundary' = [i \in Points |-> Marked(in, i, got[i], boundary[i])]
         /\ color' = [i \in Points |->
                        Reddened(in, i, got[i], position[i], color[i])]
  /\ pass' = AfterSmooth(in)
  /\ UNCHANGED <<in, round, partition>>

Recolor(from, given, to) ==
  /\ pass = from
  /\ color' = given
  /\ pass' = to
  /\ UNCHANGED <<in, round, partition, position, boundary>>

SmoothColor(stage, to) ==
  /\ pass = stage
  /\ color' = [i \in Points |->
       Blended(in, stage, i,
               Values(color, Seen(stage, position, boundary, i)),
               color[i])]
  /\ pass' = to
  /\ UNCHANGED <<in, round, partition, position, boundary>>

Next ==
  \/ Segment \/ Refine \/ Rebuild \/ Smooth
  \/ Recolor("transfer", in.transferred, "presmooth")
  \/ SmoothColor("presmooth", "decode")
  \/ Recolor("decode", in.decoded, "color")
  \/ SmoothColor("color", "done")

Steps == Init /\ [][Next]_vars
Spec == Steps /\ WF_vars(Next)
=============================================================================
