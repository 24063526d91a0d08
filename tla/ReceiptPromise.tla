---------------------------- MODULE ReceiptPromise ----------------------------
(***************************************************************************)
(* What the plugin promises about one payment receipt, without relays,     *)
(* task groups, timers or storage: an invoice is remembered, it is owed    *)
(* from its payment on, and what is owed is closed only after the whole    *)
(* broadcast schedule was acknowledged or when it is too late.             *)
(* ReceiptDelivery implements this module.                                 *)
(***************************************************************************)
EXTENDS Naturals

CONSTANTS Invoices, TotalSends

VARIABLES stage,   \* where the promise of an invoice stands
          acks,    \* broadcasts acknowledged so far
          late     \* RETRY_MAX_SEC have passed since the payment

promiseVars == <<stage, acks, late>>

Init ==
  /\ stage = [r \in Invoices |-> "idle"]
  /\ acks = [r \in Invoices |-> 0]
  /\ late = [r \in Invoices |-> FALSE]

Unmoved(r) == stage'[r] = stage[r]
Promise(r) == stage[r] = "idle" /\ stage'[r] \in {"awaiting", "closed"}
Owe(r)     == stage[r] = "awaiting" /\ stage'[r] = "owed"
Lapse(r)   == stage[r] = "awaiting" /\ stage'[r] = "closed"
Serve(r)   == stage[r] = "owed" /\ stage'[r] = "closed" /\ acks'[r] >= TotalSends
Abandon(r) == stage[r] = "owed" /\ stage'[r] = "closed" /\ late[r]

\* Acknowledgements only add up, one at a time, and only once a receipt is owed.
Acknowledge(r) ==
  \/ acks'[r] = acks[r]
  \/ acks'[r] = acks[r] + 1 /\ stage[r] \in {"owed", "closed"}

\* Lateness is reached while owed, never by a receipt that is not.
GrowLate(r) == late'[r] # late[r] => stage[r] = "owed"

\* One step may move several invoices: a sweep closes all that have lapsed.
Move ==
  \A r \in Invoices :
    /\ Unmoved(r) \/ Promise(r) \/ Owe(r) \/ Lapse(r) \/ Serve(r) \/ Abandon(r)
    /\ Acknowledge(r) /\ GrowLate(r)

Spec == Init /\ [][Move]_promiseVars
=============================================================================
