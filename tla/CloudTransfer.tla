--------------------------- MODULE CloudTransfer ---------------------------
(***************************************************************************)
(* What the two applications promise of a sequence of clouds: they are     *)
(* made group by group, stored when all are made and not before, and what  *)
(* is given out is always a beginning of what was stored.                  *)
(***************************************************************************)
EXTENDS Naturals, Sequences

CONSTANTS FrameCount, GroupSize

VARIABLES
  made,     \* clouds made so far
  stored,   \* they can be read
  got       \* clouds given out

vars == <<made, stored, got>>

Init == made = <<>> /\ stored = FALSE /\ got = <<>>

MakeGroup ==
  /\ ~stored
  /\ Len(made') \in Len(made) + 1 .. Len(made) + GroupSize
  /\ SubSeq(made', 1, Len(made)) = made
  /\ UNCHANGED <<stored, got>>

Store ==
  /\ ~stored
  /\ Len(made) = FrameCount
  /\ stored' = TRUE
  /\ UNCHANGED <<made, got>>

GiveGroup ==
  /\ stored
  /\ \E n \in 1 .. GroupSize :
       /\ Len(got) + n <= Len(made)
       /\ got' = SubSeq(made, 1, Len(got) + n)
  /\ UNCHANGED <<made, stored>>

Next == MakeGroup \/ Store \/ GiveGroup

\* What is stored is given out to the last cloud.
Spec == Init /\ [][Next]_vars /\ WF_vars(GiveGroup)
=============================================================================
