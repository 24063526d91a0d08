-------------------------------- MODULE DevFee --------------------------------
(***************************************************************************)
(* The dev fee: the persisted ledger of src/clink/devfee.py and the payout *)
(* coroutine maybe_pay_devfee of src/clink/clink_plugin.py that reads it,  *)
(* pays over Lightning and writes it back.                                 *)
(*                                                                         *)
(* A payout is started by the paid-invoice callback and by the manual      *)
(* "pay now" command, which belong to no task group, and by the startup    *)
(* check, a child of the listener's task group that dies with it.  A lock  *)
(* serialises the payouts of ONE server object; a wallet that is disabled  *)
(* and enabled again gets a new object, hence a new lock, over the same    *)
(* ledger.  Each server of the wallet is a generation here.                *)
(*                                                                         *)
(* The ledger counts millisats; Sat of them make a sat.  The 24 h window   *)
(* and the attempt gate are kept as ages, up to Day.                       *)
(***************************************************************************)
EXTENDS Integers, Sequences, FiniteSets, Functions

CONSTANTS Invoices,     \* payment hashes issued for offers
          Fees,         \* millisats a payment accrues: amount and rate
          Sat,          \* 1000
          MinPayout,    \* MIN_PAYOUT_SAT
          DailyCap,     \* DAILY_CAP_SAT
          Day,          \* ATTEMPT_INTERVAL_SEC
          PendingMax,   \* PENDING_MAX
          Tasks,        \* payout coroutines alive at once: a bound
          Generations,  \* servers the wallet has had: a bound
          MaxPaidOut    \* no stray payment settles beyond this: a bound

ASSUME DevFeeAssumption ==
  /\ Fees \subseteq Nat
  /\ Sat \in Nat \ {0} /\ MinPayout \in Nat \ {0} /\ DailyCap \in Nat
  /\ Day \in Nat \ {0} /\ PendingMax \in Nat \ {0}
  /\ Generations \in Nat \ {0} /\ MaxPaidOut \in Nat

VARIABLES accrued,      \* devfee_accrued_msat
          pending,      \* devfee_pending, oldest first
          payments,     \* devfee_payments: sats recorded at each age below Day
          lastAttempt,  \* age of devfee_last_attempt_ts
          enabled,      \* the devfee_enabled setting
          server,       \* the wallet's servers
          group,        \* generations whose task group is alive
          tasks,        \* payout coroutines
          invoice,      \* Electrum's view of each invoice
          charged,      \* history: times a fee was accrued for an invoice
          fees,         \* history: millisats accrued so far
          cut,          \* history: a payout was cut off or outlived its server
          paidOut,      \* history: sats that left the wallet
          outflow       \* history: the same, by age, within the last Day

ledger == <<accrued, pending, payments, lastAttempt>>
history == <<charged, fees, paidOut, outflow>>
vars == <<ledger, enabled, server, group, tasks, invoice, cut, history>>

Gens == 1..Generations
Window == [0..Day - 1 -> Nat]
Empty == [a \in 0..Day - 1 |-> 0]
Total(w) == FoldFunction(LAMBDA x, y : x + y, 0, w)

\* "adrift": the coroutine is gone, its Lightning payment is still in flight.
Pcs == {"idle", "waiting", "resolving", "paying", "adrift"}
Payout == [pc : Pcs, gen : Gens, child : BOOLEAN, force : BOOLEAN, amount : Nat]
Idle == [pc |-> "idle", gen |-> 1, child |-> FALSE, force |-> FALSE, amount |-> 0]

Init ==
  /\ accrued = 0 /\ pending = <<>> /\ payments = Empty /\ lastAttempt = Day
  /\ enabled = TRUE
  /\ server = [g \in Gens |-> IF g = 1 THEN "running" ELSE "unborn"]
  /\ group = {}
  /\ tasks = [t \in Tasks |-> Idle]
  /\ invoice = [r \in Invoices |-> "none"]
  /\ charged = [r \in Invoices |-> 0]
  /\ fees = 0 /\ paidOut = 0 /\ outflow = Empty /\ cut = FALSE

-----------------------------------------------------------------------------
(* The ledger's operations.                                                *)

\* mark_issued: remember the hash, drop the oldest beyond PENDING_MAX.
MarkIssued(r) ==
  pending' = IF Len(pending) < PendingMax THEN Append(pending, r)
             ELSE Append(Tail(pending), r)

IsPending(r) == \E i \in 1..Len(pending) : pending[i] = r
\* Mutation of Taken: the hash is not consumed.
TakenNot(i) == pending
Taken(i) == SubSeq(pending, 1, i - 1) \o SubSeq(pending, i + 1, Len(pending))

OwedSat == accrued \div Sat

\* a = payable_sat(): what is owed, clamped to what is left of the 24 h cap.
IsPayable(a) ==
  LET left == DailyCap - Total(payments) IN
  /\ a \in 0..OwedSat
  /\ a = OwedSat \/ a = left
  /\ a <= left

\* Mutation of MayAttempt: the 24 h cap is not part of the decision.
MayAttemptUncapped(force, payable) ==
  /\ enabled /\ payable = OwedSat /\ payable >= MinPayout
  /\ force \/ lastAttempt = Day

\* should_attempt, with the payable amount it found.
MayAttempt(force, payable) ==
  /\ enabled
  /\ OwedSat >= MinPayout
  /\ force \/ lastAttempt = Day
  /\ IsPayable(payable) /\ payable >= MinPayout

\* Mutation of Debited: the setter does not stop at zero.
DebitedUnclamped(a) == accrued - a * Sat
Debited(a) == IF accrued > a * Sat THEN accrued - a * Sat ELSE 0
Added(w, a) == [w EXCEPT ![0] = @ + a]

\* Mutation of RecordSuccess: the payout is not logged in the 24 h window.
RecordSuccessUnlogged(a) ==
  /\ accrued' = Debited(a) /\ payments' = payments /\ lastAttempt' = 0

RecordSuccess(a) ==
  /\ accrued' = Debited(a)
  /\ payments' = Added(payments, a)
  /\ lastAttempt' = 0

\* Mutation of RecordFailure: the balance is written off with the attempt.
RecordFailureForgives == accrued' = 0 /\ lastAttempt' = 0 /\ UNCHANGED payments

RecordFailure == lastAttempt' = 0 /\ UNCHANGED <<accrued, payments>>

\* The wallet parted with a sats.
Spent(a) == paidOut' = paidOut + a /\ outflow' = Added(outflow, a)

-----------------------------------------------------------------------------
(* Invoices.                                                               *)

Issue(r) ==
  /\ invoice[r] = "none" /\ group # {}
  /\ invoice' = [invoice EXCEPT ![r] = "unpaid"]
  /\ MarkIssued(r)
  /\ UNCHANGED <<accrued, payments, lastAttempt, enabled, server, group, tasks, history>>

Started(t, g, child, force) ==
  /\ tasks[t].pc = "idle"
  /\ tasks' = [tasks EXCEPT ![t] = [pc |-> "waiting", gen |-> g, child |-> child,
                                    force |-> force, amount |-> 0]]

\* on_event_request_status(PR_PAID), once more for an invoice already paid too:
\* accrue if the hash was pending, and see whether a payout is due.
Paid(r, fee, g, t) ==
  /\ invoice[r] \in {"unpaid", "paid"} /\ server[g] = "running"
  /\ invoice' = [invoice EXCEPT ![r] = "paid"]
  /\ IF IsPending(r)
     THEN /\ \E i \in 1..Len(pending) : pending[i] = r /\ pending' = Taken(i)
          /\ accrued' = IF enabled THEN accrued + fee ELSE accrued
          /\ fees' = IF enabled THEN fees + fee ELSE fees
          /\ charged' = [charged EXCEPT ![r] = @ + 1]
          /\ Started(t, g, FALSE, FALSE)
     ELSE UNCHANGED <<pending, accrued, fees, charged, tasks>>
  /\ UNCHANGED <<payments, lastAttempt, enabled, server, group, paidOut, outflow>>

-----------------------------------------------------------------------------
(* maybe_pay_devfee.                                                       *)

Free(t) == tasks' = [tasks EXCEPT ![t] = Idle]
Holds(t) == tasks[t].pc \in {"resolving", "paying"}
\* Mutation of LockFree: the payouts of a server are not serialised.
LockFreeAlways(g) == TRUE
LockFree(g) == \A t \in Tasks : Holds(t) => tasks[t].gen # g

ManualPay(t, g) ==
  /\ server[g] = "running" /\ Started(t, g, FALSE, TRUE)
  /\ UNCHANGED <<ledger, enabled, server, group, invoice, history>>

\* The lock is taken; the decision and payable_sat are made before any await.
Attempt(t) ==
  /\ tasks[t].pc = "waiting" /\ LockFree(tasks[t].gen)
  /\ \E payable \in 0..OwedSat :
       /\ MayAttempt(tasks[t].force, payable)
       /\ tasks' = [tasks EXCEPT ![t].pc = "resolving", ![t].amount = payable]
  /\ UNCHANGED <<ledger, enabled, server, group, invoice, history>>

\* Not due, or no destination configured.
Declined(t) ==
  /\ tasks[t].pc = "waiting" /\ LockFree(tasks[t].gen) /\ Free(t)
  /\ UNCHANGED <<ledger, enabled, server, group, invoice, history>>

\* The endpoint's range and invoice are in: pay what is payable, or its maximum.
Prepared(t, amount) ==
  /\ tasks[t].pc = "resolving" /\ amount \in MinPayout..tasks[t].amount
  /\ tasks' = [tasks EXCEPT ![t].pc = "paying", ![t].amount = amount]
  /\ UNCHANGED <<ledger, enabled, server, group, invoice, history>>

\* The endpoint cannot take an amount in our range: no attempt is burnt.
OutOfRange(t) ==
  /\ tasks[t].pc = "resolving" /\ Free(t)
  /\ UNCHANGED <<ledger, enabled, server, group, invoice, history>>

\* Preparing failed, or the payment did.
AttemptFails(t) ==
  /\ Holds(t) /\ Free(t) /\ RecordFailure
  /\ UNCHANGED <<pending, enabled, server, group, invoice, history>>

PaymentClears(t) ==
  /\ tasks[t].pc = "paying" /\ Free(t)
  /\ RecordSuccess(tasks[t].amount)
  /\ Spent(tasks[t].amount)
  /\ UNCHANGED <<pending, enabled, server, group, invoice, charged, fees>>

\* A payment nobody waits for any more settles all the same, or fails.
AdriftSettles(t) ==
  /\ tasks[t].pc = "adrift" /\ paidOut < MaxPaidOut /\ Free(t)
  /\ Spent(tasks[t].amount)
  /\ UNCHANGED <<ledger, enabled, server, group, invoice, charged, fees>>
AdriftFails(t) ==
  /\ tasks[t].pc = "adrift" /\ Free(t)
  /\ UNCHANGED <<ledger, enabled, server, group, invoice, history>>

-----------------------------------------------------------------------------
(* The servers.                                                            *)

Cancelled(task) == CASE task.pc = "paying" -> [task EXCEPT !.pc = "adrift"]
                     [] task.pc = "adrift" -> task
                     [] OTHER -> Idle
CancelChildren(g) ==
  tasks' = [t \in Tasks |-> IF tasks[t].gen = g /\ tasks[t].child
                            THEN Cancelled(tasks[t]) ELSE tasks[t]]

\* The task group comes up with the startup check in it.
GroupStarts(g, t) ==
  /\ server[g] = "running" /\ g \notin group
  /\ group' = group \cup {g} /\ Started(t, g, TRUE, FALSE)
  /\ UNCHANGED <<ledger, enabled, server, invoice, history>>

GroupEnds(g) ==
  /\ g \in group /\ group' = group \ {g} /\ CancelChildren(g)
  /\ cut' = (cut \/ \E t \in Tasks : tasks[t].gen = g /\ tasks[t].child /\ tasks[t].pc = "paying")
  /\ UNCHANGED <<ledger, enabled, server, invoice, history>>

\* _stop_server: the group is cancelled only after the manager was closed.
Stop(g) ==
  /\ server[g] = "running" /\ server' = [server EXCEPT ![g] = "stopped"]
  /\ UNCHANGED <<ledger, enabled, group, tasks, invoice, history>>

\* start_plugin: a fresh server, with its own lock, on the same ledger.
Start(g) ==
  /\ g > 1 /\ server[g - 1] = "stopped" /\ server[g] = "unborn"
  /\ server' = [server EXCEPT ![g] = "running"]
  /\ cut' = (cut \/ \E t \in Tasks : tasks[t].pc # "idle")
  /\ UNCHANGED <<ledger, enabled, group, tasks, invoice, history>>

Crash ==
  /\ server' = [g \in Gens |-> IF server[g] = "running" THEN "stopped" ELSE server[g]]
  /\ group' = {}
  /\ tasks' = [t \in Tasks |-> Cancelled(tasks[t])]
  /\ cut' = (cut \/ \E t \in Tasks : tasks[t].pc = "paying")
  /\ UNCHANGED <<ledger, enabled, invoice, history>>

Toggle ==
  /\ enabled' = ~enabled
  /\ UNCHANGED <<ledger, server, group, tasks, invoice, history>>

Older(w) == [a \in 0..Day - 1 |-> IF a = 0 THEN 0 ELSE w[a - 1]]
Tick ==
  /\ payments' = Older(payments) /\ outflow' = Older(outflow)
  /\ lastAttempt' = IF lastAttempt < Day THEN lastAttempt + 1 ELSE Day
  /\ UNCHANGED <<accrued, pending, enabled, server, group, tasks, invoice,
                 charged, fees, paidOut>>

-----------------------------------------------------------------------------
\* What happens in a running server ...
Work ==
  \/ \E r \in Invoices : Issue(r)
  \/ \E r \in Invoices, fee \in Fees, g \in Gens, t \in Tasks : Paid(r, fee, g, t)
  \/ \E g \in Gens, t \in Tasks : GroupStarts(g, t) \/ ManualPay(t, g)
  \/ \E t \in Tasks : \/ Attempt(t) \/ Declined(t) \/ OutOfRange(t)
                      \/ AttemptFails(t) \/ PaymentClears(t)
                      \/ \E amount \in 0..tasks[t].amount : Prepared(t, amount)
  \/ \E t \in Tasks : AdriftSettles(t) \/ AdriftFails(t)
  \/ (\E g \in Gens : Stop(g)) \/ Toggle \/ Tick
\* ... and what may cut a payout off, or leave it behind.
Next ==
  \/ Work /\ UNCHANGED cut
  \/ \E g \in Gens : GroupEnds(g) \/ Start(g)
  \/ Crash

Spec == Init /\ [][Next]_vars

-----------------------------------------------------------------------------
(* Properties.                                                             *)

TypeOK ==
  /\ accrued \in Nat /\ pending \in Seq(Invoices) /\ payments \in Window
  /\ lastAttempt \in 0..Day /\ enabled \in BOOLEAN
  /\ server \in [Gens -> {"unborn", "running", "stopped"}] /\ group \subseteq Gens
  /\ tasks \in [Tasks -> Payout]
  /\ invoice \in [Invoices -> {"none", "unpaid", "paid"}] /\ cut \in BOOLEAN
  /\ charged \in [Invoices -> Nat] /\ fees \in Nat /\ paidOut \in Nat
  /\ outflow \in Window

\* Every millisat accrued is either still owed or was paid out: through restarts
\* and crashes, the ledger and the wallet agree until a payout is cut off with its
\* payment in flight, or still runs when the wallet's next server starts.
BooksBalance == ~cut => accrued + Sat * paidOut = fees

\* "Never forward more than this within any rolling 24h window" ...
DailyCapAlwaysHeld == Total(outflow) <= DailyCap

\* ... which holds until a payout is cut off or outlives its server.
DailyCapHeld == ~cut => Total(outflow) <= DailyCap

\* Whatever is cancelled or lost, no fee is written off that was not paid.
NothingForgotten == accrued + Sat * paidOut >= fees

\* The fee of an invoice is accrued once, however often it is reported paid.
FeeOncePerInvoice == \A r \in Invoices : charged[r] <= 1
=============================================================================
