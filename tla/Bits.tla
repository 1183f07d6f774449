-------------------------------- MODULE Bits --------------------------------
(***************************************************************************)
(* Numbers and their bits, highest first, as fields of a fixed number of   *)
(* bits are written and read.  The functions are recursive, so that proofs *)
(* can unfold them.                                                        *)
(***************************************************************************)
EXTENDS Integers, Sequences

\* 1 << n.
Pow2[n \in Nat] == IF n = 0 THEN 1 ELSE 2 * Pow2[n - 1]

\* The low n bits of a value.
Field(v, n) == [i \in 1 .. n |-> (v \div Pow2[n - i]) % 2]

\* The value of a sequence of bits.
Value(bits) ==
  LET upTo[i \in 0 .. Len(bits)] ==
        IF i = 0 THEN 0 ELSE 2 * upTo[i - 1] + bits[i]
  IN  upTo[Len(bits)]
=============================================================================
