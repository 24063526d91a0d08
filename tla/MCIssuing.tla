------------------------------ MODULE MCIssuing ------------------------------
(* Small instances of Issuing; the receipt schedule plays no part here and is *)
(* one offset and one backoff step.                                           *)
EXTENDS Issuing, TLC

MCOffsets == <<1>>
Symmetry == Permutations(Invoices) \cup Permutations(Events) \cup Permutations(Payers)
=============================================================================
