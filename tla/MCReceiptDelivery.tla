-------------------------- MODULE MCReceiptDelivery --------------------------
(* A small instance of ReceiptDelivery: the code's three scales (schedule,    *)
(* fast-retry window, hourly interval) keep their order at a few ticks each.  *)
EXTENDS ReceiptDelivery, TLC

\* One re-broadcast after the first send, and one backoff step.
MCResendOffsets == <<1>>
MCBackoff == <<1>>
\* Two re-broadcasts and two backoff steps, for a single invoice.
MCLongOffsets == <<1, 2>>
MCLongBackoff == <<1, 2>>

Symmetry == Permutations(Invoices)
=============================================================================
