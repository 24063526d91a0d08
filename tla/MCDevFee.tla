------------------------------- MODULE MCDevFee -------------------------------
(* Small instances of DevFee: two millisats to the sat, so that a remainder   *)
(* stays behind, and a cap of two sats a day against payouts of one or two.   *)
EXTENDS DevFee, TLC

Symmetry == Permutations(Invoices) \cup Permutations(Tasks)
=============================================================================
