--------------------------- MODULE PatchTransfer ---------------------------
(***************************************************************************)
(* What the patch metadata coder promises: the decoder gets the frames the *)
(* encoder packed, unchanged, each once and in the order they were packed. *)
(***************************************************************************)
EXTENDS Naturals, Sequences

CONSTANTS
  Frames,      \* what a frame may carry
  GroupSize    \* frames of a group

VARIABLES
  packed,     \* frames given to the encoder
  delivered   \* frames got from the decoder

Init == packed = <<>> /\ delivered = <<>>

PackOne ==
  /\ Len(packed) < GroupSize
  /\ \E frame \in Frames : packed' = Append(packed, frame)
  /\ UNCHANGED delivered

DeliverOne ==
  /\ Len(packed) = GroupSize
  /\ Len(delivered) < GroupSize
  /\ delivered' = Append(delivered, packed[Len(delivered) + 1])
  /\ UNCHANGED packed

Next == PackOne \/ DeliverOne

vars == <<packed, delivered>>

\* What may happen, and that it does.
Steps == Init /\ [][Next]_vars
Spec == Steps /\ WF_vars(Next)
=============================================================================
