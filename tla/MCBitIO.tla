------------------------------ MODULE MCBitIO ------------------------------
(***************************************************************************)
(* A word of 16 bits and a page of 32 bytes.  Fields of each code that end *)
(* within a byte, at its border and across it; videos of a byte and of one *)
(* byte less than a page, the size that leaves the buffer fullest.         *)
(***************************************************************************)
EXTENDS BitIO

MCMaxFields == <<1, 2>>
MCFields == {Item("u", 5, 21), Item("s", 16, -3), Item("ue", 0, 0), Item("ue", 0, 6),
             Item("se", 0, -2), Item("se", 0, 2)}
MCVideos == {[size |-> n, ones |-> {0, 8 * n - 1}] : n \in {1, 31}}
=============================================================================
