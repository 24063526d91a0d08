----------------------------- MODULE DevFeeProofs -----------------------------
(***************************************************************************)
(* Theorems about DevFee for every fee, threshold, cap, window and number  *)
(* of invoices, payouts and servers.                                       *)
(***************************************************************************)
EXTENDS DevFee, Sums, SequenceTheorems, TLAPS

-----------------------------------------------------------------------------
(* Types of the pieces.                                                    *)

\* A window stays one when a payout is added and when it ages.
LEMMA WindowType ==
  ASSUME NEW w \in Window, NEW a \in Nat
  PROVE  Added(w, a) \in Window /\ Older(w) \in Window /\ Empty \in Window
<1>1. Day \in Nat \ {0} /\ 0 \in 0..Day - 1
  BY DevFeeAssumption
<1>2. Added(w, a) \in Window
  BY <1>1 DEF Added, Window
<1>3. Older(w) \in Window /\ Empty \in Window
  BY <1>1 DEF Older, Window, Empty
<1>. QED
  BY <1>2, <1>3

\* What is owed and what is left of it after a payout are natural numbers; the
\* debit is exact for an amount that is covered.
LEMMA OwedType ==
  ASSUME accrued \in Nat, NEW a \in Nat
  PROVE  /\ OwedSat \in Nat
         /\ a <= OwedSat => a * Sat <= accrued
         /\ a * Sat \in Nat
         /\ Debited(a) \in Nat /\ Debited(a) + a * Sat >= accrued
         /\ a * Sat <= accrued => Debited(a) + a * Sat = accrued
<1>1. Sat \in Nat \ {0}
  BY DevFeeAssumption
<1>2. OwedSat \in Nat /\ OwedSat * Sat <= accrued
  BY <1>1 DEF OwedSat
<1>3. a * Sat \in Nat /\ (a <= OwedSat => a * Sat <= OwedSat * Sat)
  BY <1>1, <1>2
<1>4. /\ Debited(a) \in Nat /\ Debited(a) + a * Sat >= accrued
      /\ a * Sat <= accrued => Debited(a) + a * Sat = accrued
  BY <1>3 DEF Debited
<1>5. a <= OwedSat => a * Sat <= accrued
  <2>1. OwedSat * Sat \in Nat
    BY <1>1, <1>2
  <2>. QED
    BY <1>2, <1>3, <2>1
<1>. QED
  BY <1>2, <1>3, <1>4, <1>5

\* The pending list stays a sequence of hashes, and an entry taken out of it is
\* one of the old ones.
LEMMA PendingType ==
  ASSUME pending \in Seq(Invoices), NEW i \in 1..Len(pending)
  PROVE  /\ Taken(i) \in Seq(Invoices)
         /\ Len(Taken(i)) = Len(pending) - 1
         /\ \A j \in 1..Len(pending) - 1 :
              Taken(i)[j] = IF j < i THEN pending[j] ELSE pending[j + 1]
<1>. DEFINE s1 == SubSeq(pending, 1, i - 1)
            s2 == SubSeq(pending, i + 1, Len(pending))
<1>1. /\ s1 \in Seq(Invoices) /\ Len(s1) = i - 1
      /\ \A j \in 1..i - 1 : s1[j] = pending[j]
  BY SubSeqProperties
<1>2. /\ s2 \in Seq(Invoices) /\ Len(s2) = Len(pending) - i
      /\ \A j \in 1..Len(pending) - i : s2[j] = pending[j + i]
  BY SubSeqProperties
<1>. HIDE DEF s1, s2
<1>3. /\ s1 \o s2 \in Seq(Invoices) /\ Len(s1 \o s2) = Len(s1) + Len(s2)
      /\ \A j \in 1..Len(s1) + Len(s2) :
           (s1 \o s2)[j] = IF j <= Len(s1) THEN s1[j] ELSE s2[j - Len(s1)]
  BY <1>1, <1>2, ConcatProperties
<1>. DEFINE s3 == s1 \o s2
<1>. HIDE DEF s3
<1>4. Len(pending) \in Nat /\ Len(s1) + Len(s2) = Len(pending) - 1
  BY <1>1, <1>2
<1>5. /\ s3 \in Seq(Invoices) /\ Len(s3) = Len(pending) - 1
      /\ \A j \in 1..Len(pending) - 1 :
           s3[j] = IF j <= i - 1 THEN s1[j] ELSE s2[j - (i - 1)]
  BY <1>1, <1>3, <1>4 DEF s3
<1>6. ASSUME NEW j \in 1..Len(pending) - 1
      PROVE  s3[j] = IF j < i THEN pending[j] ELSE pending[j + 1]
  <2>1. CASE j < i
    BY <1>1, <1>5, <2>1
  <2>2. CASE ~(j < i)
    <3>1. j - (i - 1) \in 1..Len(pending) - i /\ j - (i - 1) + i = j + 1
      BY <1>4, <2>2
    <3>2. s3[j] = s2[j - (i - 1)]
      BY <1>5, <2>2
    <3>. QED
      BY <1>2, <2>2, <3>1, <3>2
  <2>. QED
    BY <2>1, <2>2
<1>. QED
  BY <1>5, <1>6 DEF Taken, s1, s2, s3

\* Remembering a hash keeps the others in their order, the oldest one perhaps
\* excepted: k of them are dropped.
LEMMA IssuedType ==
  ASSUME pending \in Seq(Invoices), NEW r \in Invoices, MarkIssued(r)
  PROVE  /\ pending' \in Seq(Invoices)
         /\ \E k \in 0..Len(pending) :
              /\ Len(pending') = Len(pending) - k + 1
              /\ \A i \in 1..Len(pending) - k : pending'[i] = pending[i + k]
              /\ pending'[Len(pending) - k + 1] = r
<1>. DEFINE Dropped(k) == /\ Len(pending') = Len(pending) - k + 1
                         /\ \A i \in 1..Len(pending) - k : pending'[i] = pending[i + k]
                         /\ pending'[Len(pending) - k + 1] = r
<1>. Len(pending) \in Nat
  OBVIOUS
<1>1. CASE Len(pending) < PendingMax
  <2>1. pending' = Append(pending, r)
    BY <1>1 DEF MarkIssued
  <2>2. /\ pending' \in Seq(Invoices) /\ Len(pending') = Len(pending) + 1
        /\ \A i \in 1..Len(pending) : pending'[i] = pending[i]
        /\ pending'[Len(pending) + 1] = r
    BY <2>1, AppendProperties
  <2>3. Dropped(0) /\ 0 \in 0..Len(pending)
    BY <2>2
  <2>. QED
    BY <2>2, <2>3
<1>2. CASE ~(Len(pending) < PendingMax)
  <2>1. pending # <<>> /\ Len(pending) >= 1
    BY <1>2, DevFeeAssumption
  <2>. DEFINE rest == Tail(pending)
  <2>2. /\ rest \in Seq(Invoices) /\ Len(rest) = Len(pending) - 1
        /\ \A i \in 1..Len(rest) : rest[i] = pending[i + 1]
    BY <2>1, HeadTailProperties
  <2>3. pending' = Append(rest, r)
    BY <1>2 DEF MarkIssued
  <2>. HIDE DEF rest
  <2>4. /\ pending' \in Seq(Invoices) /\ Len(pending') = Len(rest) + 1
        /\ \A i \in 1..Len(rest) : pending'[i] = rest[i]
        /\ pending'[Len(rest) + 1] = r
    BY <2>2, <2>3, AppendProperties
  <2>5. 1 \in 0..Len(pending) /\ Len(rest) = Len(pending) - 1
    BY <2>1, <2>2
  <2>6. Dropped(1)
    BY <2>2, <2>4, <2>5
  <2>. QED
    BY <2>4, <2>5, <2>6
<1>. QED
  BY <1>1, <1>2

\* A task that is done, and one whose coroutine was cancelled.
LEMMA TaskType ==
  /\ Idle \in Payout
  /\ \A task \in Payout : Cancelled(task) \in Payout
<1>1. Idle \in Payout
  BY DevFeeAssumption DEF Idle, Payout, Pcs, Gens
<1>2. ASSUME NEW task \in Payout
      PROVE  Cancelled(task) \in Payout
  BY <1>1 DEF Cancelled, Payout, Pcs
<1>. QED
  BY <1>1, <1>2

\* A payout coroutine that has just been started.
LEMMA StartedType ==
  ASSUME TypeOK, NEW t \in Tasks, NEW g \in Gens, NEW child \in BOOLEAN,
         NEW force \in BOOLEAN, Started(t, g, child, force)
  PROVE  tasks' \in [Tasks -> Payout]
<1>. DEFINE new == [pc |-> "waiting", gen |-> g, child |-> child, force |-> force,
                    amount |-> 0]
<1>1. new \in Payout
  BY DEF Payout, Pcs
<1>2. tasks' = [tasks EXCEPT ![t] = new]
  BY DEF Started
<1>. HIDE DEF new
<1>. QED
  BY <1>1, <1>2 DEF TypeOK

\* A coroutine that moves on with an amount.
LEMMA MovedType ==
  ASSUME TypeOK, NEW t \in Tasks, NEW pc \in Pcs, NEW a \in Nat,
         tasks' = [tasks EXCEPT ![t].pc = pc, ![t].amount = a]
  PROVE  /\ tasks' \in [Tasks -> Payout]
         /\ tasks'[t] = [tasks[t] EXCEPT !.pc = pc, !.amount = a]
         /\ \A u \in Tasks \ {t} : tasks'[u] = tasks[u]
<1>. DEFINE new == [tasks[t] EXCEPT !.pc = pc, !.amount = a]
<1>1. tasks[t] \in Payout
  BY DEF TypeOK
<1>2. new \in Payout
  BY <1>1 DEF Payout
<1>3. tasks' = [tasks EXCEPT ![t] = new]
  BY DEF TypeOK
<1>. HIDE DEF new
<1>4. tasks' \in [Tasks -> Payout] /\ tasks'[t] = new
      /\ \A u \in Tasks \ {t} : tasks'[u] = tasks[u]
  BY <1>2, <1>3, ZenonT(60) DEF TypeOK
<1>. QED
  BY <1>4 DEF new

-----------------------------------------------------------------------------
(* Type correctness.                                                       *)

\* Every step keeps the types.
LEMMA TypeStep == TypeOK /\ [Next]_vars => TypeOK'
<1>. SUFFICES ASSUME TypeOK, [Next]_vars PROVE TypeOK'
  OBVIOUS
<1>. USE DEF TypeOK, ledger, history
<1>. cut' \in BOOLEAN
  BY DEF Next, vars, GroupEnds, Start, Crash
<1>1. ASSUME NEW r \in Invoices, Issue(r)
      PROVE  TypeOK'
  BY <1>1, IssuedType DEF Issue
<1>2. ASSUME NEW r \in Invoices, NEW fee \in Fees, NEW g \in Gens, NEW t \in Tasks,
             Paid(r, fee, g, t)
      PROVE  TypeOK'
  <2>1. CASE IsPending(r)
    <3>1. fee \in Nat
      BY DevFeeAssumption
    <3>2. accrued' \in Nat /\ fees' \in Nat
      BY <1>2, <2>1, <3>1 DEF Paid
    <3>3. pending' \in Seq(Invoices)
      BY <1>2, <2>1, PendingType DEF Paid
    <3>4. tasks' \in [Tasks -> Payout]
      BY <1>2, <2>1, StartedType DEF Paid
    <3>5. charged' \in [Invoices -> Nat]
      BY <1>2, <2>1 DEF Paid
    <3>. QED
      BY <1>2, <3>2, <3>3, <3>4, <3>5 DEF Paid
  <2>2. CASE ~IsPending(r)
    BY <1>2, <2>2 DEF Paid
  <2>. QED
    BY <2>1, <2>2
<1>3. ASSUME NEW g \in Gens, NEW t \in Tasks, GroupStarts(g, t) \/ ManualPay(t, g)
      PROVE  TypeOK'
  <2>1. tasks' \in [Tasks -> Payout]
    BY <1>3, StartedType DEF GroupStarts, ManualPay
  <2>. QED
    BY <1>3, <2>1 DEF GroupStarts, ManualPay
<1>4. ASSUME NEW t \in Tasks, Attempt(t)
      PROVE  TypeOK'
  <2>1. OwedSat \in Nat
    BY OwedType
  <2>2. PICK payable \in 0..OwedSat :
          tasks' = [tasks EXCEPT ![t].pc = "resolving", ![t].amount = payable]
    BY <1>4 DEF Attempt
  <2>3. tasks' \in [Tasks -> Payout]
    <3>1. payable \in Nat /\ "resolving" \in Pcs
      BY <2>1 DEF Pcs
    <3>. QED
      BY <2>2, <3>1, MovedType
  <2>. QED
    BY <1>4, <2>3 DEF Attempt
<1>5. ASSUME NEW t \in Tasks, NEW amount \in 0..tasks[t].amount, Prepared(t, amount)
      PROVE  TypeOK'
  <2>1. amount \in Nat
    BY DEF Payout
  <2>2. tasks' \in [Tasks -> Payout]
    BY <1>5, <2>1, MovedType DEF Prepared, Pcs
  <2>. QED
    BY <1>5, <2>2 DEF Prepared
<1>6. ASSUME NEW t \in Tasks, Declined(t) \/ OutOfRange(t) \/ AdriftFails(t)
      PROVE  TypeOK'
  BY <1>6, TaskType DEF Declined, OutOfRange, AdriftFails, Free
<1>7. ASSUME NEW t \in Tasks, AttemptFails(t)
      PROVE  TypeOK'
  BY <1>7, TaskType, DevFeeAssumption DEF AttemptFails, RecordFailure, Free
<1>8. ASSUME NEW t \in Tasks, PaymentClears(t) \/ AdriftSettles(t)
      PROVE  TypeOK'
  <2>1. tasks[t].amount \in Nat /\ tasks' \in [Tasks -> Payout]
    BY <1>8, TaskType DEF PaymentClears, AdriftSettles, Free, Payout
  <2>2. Debited(tasks[t].amount) \in Nat
    BY <2>1, OwedType
  <2>3. Added(payments, tasks[t].amount) \in Window /\ Added(outflow, tasks[t].amount) \in Window
    BY <2>1, WindowType
  <2>4. 0 \in 0..Day
    BY DevFeeAssumption
  <2>. QED
    BY <1>8, <2>1, <2>2, <2>3, <2>4 DEF PaymentClears, AdriftSettles, RecordSuccess, Spent
<1>9. ASSUME NEW g \in Gens, GroupEnds(g) \/ Stop(g) \/ Start(g)
      PROVE  TypeOK'
  <2>1. tasks' \in [Tasks -> Payout]
    BY <1>9, TaskType DEF GroupEnds, Stop, Start, CancelChildren
  <2>. QED
    BY <1>9, <2>1 DEF GroupEnds, Stop, Start
<1>10. CASE Crash
  BY <1>10, TaskType DEF Crash
<1>11. CASE Toggle
  BY <1>11 DEF Toggle
<1>12. CASE Tick
  <2>1. Older(payments) \in Window /\ Older(outflow) \in Window
    BY WindowType
  <2>2. lastAttempt' \in 0..Day
    BY <1>12, DevFeeAssumption DEF Tick
  <2>. QED
    BY <1>12, <2>1, <2>2 DEF Tick
<1>13. CASE UNCHANGED vars
  BY <1>13 DEF vars
<1>. QED
  BY <1>1, <1>2, <1>3, <1>4, <1>5, <1>6, <1>7, <1>8, <1>9, <1>10, <1>11, <1>12,
     <1>13 DEF Next, Work

\* Every variable keeps its type: the balance in particular never goes below
\* zero, although a payout may be debited twice.
THEOREM TypeCorrect == Spec => []TypeOK
<1>1. Init => TypeOK
  <2>. SUFFICES ASSUME Init PROVE TypeOK
    OBVIOUS
  <2>1. cut \in BOOLEAN /\ enabled \in BOOLEAN
    BY DEF Init
  <2>2. Empty \in Window /\ Idle \in Payout
    BY WindowType, TaskType, DevFeeAssumption DEF Empty, Window
  <2>3. lastAttempt \in 0..Day
    BY DevFeeAssumption DEF Init
  <2>. QED
    BY <2>1, <2>2, <2>3, DevFeeAssumption DEF Init, TypeOK, Gens
<1>. QED
  BY <1>1, TypeStep, PTL DEF Spec

-----------------------------------------------------------------------------
(* The books.                                                              *)

\* Sats in millisats.
LEMMA SatTimes ==
  ASSUME NEW n \in Nat
  PROVE  Sat * n \in Nat
<1>1. Sat \in Nat
  BY DevFeeAssumption
<1>. QED
  BY <1>1

\* A payment of a sats is a * Sat millisats of what was paid out.
LEMMA PaidOutGrows ==
  ASSUME paidOut \in Nat, NEW a \in Nat
  PROVE  /\ Sat * (paidOut + a) = Sat * paidOut + a * Sat
         /\ Sat * paidOut \in Nat /\ a * Sat \in Nat
  BY DevFeeAssumption

\* What the balance is after a payout was debited in full or in part.
LEMMA PayoutBooks ==
  ASSUME TypeOK, NEW t \in Tasks, PaymentClears(t)
  PROVE  /\ accrued' + Sat * paidOut' >= accrued + Sat * paidOut
         /\ tasks[t].amount * Sat <= accrued =>
              accrued' + Sat * paidOut' = accrued + Sat * paidOut
         /\ fees' = fees
<1>. DEFINE a == tasks[t].amount
<1>1. a \in Nat
  BY DEF TypeOK, Payout
<1>2. accrued' = Debited(a) /\ paidOut' = paidOut + a /\ fees' = fees
  BY DEF PaymentClears, RecordSuccess, Spent
<1>. HIDE DEF a
<1>3. /\ Debited(a) \in Nat /\ Debited(a) + a * Sat >= accrued
      /\ a * Sat <= accrued => Debited(a) + a * Sat = accrued
  BY <1>1, OwedType DEF TypeOK
<1>4. /\ Sat * paidOut' = Sat * paidOut + a * Sat
      /\ Sat * paidOut \in Nat /\ a * Sat \in Nat
  BY <1>1, <1>2, PaidOutGrows DEF TypeOK
<1>5. /\ accrued' + Sat * paidOut' >= accrued + Sat * paidOut
      /\ a * Sat <= accrued => accrued' + Sat * paidOut' = accrued + Sat * paidOut
  BY <1>2, <1>3, <1>4 DEF TypeOK
<1>. QED
  BY <1>2, <1>5 DEF a

\* A fee is added to the balance and to the total alike.
LEMMA PaidBooks ==
  ASSUME TypeOK, NEW r \in Invoices, NEW fee \in Fees, NEW g \in Gens,
         NEW t \in Tasks, Paid(r, fee, g, t)
  PROVE  /\ paidOut' = paidOut /\ accrued' >= accrued
         /\ accrued' - accrued = fees' - fees
<1>1. fee \in Nat
  BY DevFeeAssumption
<1>2. /\ paidOut' = paidOut
      /\ \/ accrued' = accrued + fee /\ fees' = fees + fee
         \/ accrued' = accrued /\ fees' = fees
  BY DEF Paid
<1>. QED
  BY <1>1, <1>2 DEF TypeOK

\* No millisat accrued is written off unpaid, through every restart and crash.
THEOREM NothingIsForgotten == Spec => []NothingForgotten
<1>1. Init => NothingForgotten
  BY DevFeeAssumption DEF Init, NothingForgotten
<1>2. TypeOK /\ TypeOK' /\ NothingForgotten /\ [Next]_vars => NothingForgotten'
  <2>. SUFFICES ASSUME TypeOK, TypeOK', NothingForgotten, [Next]_vars
                PROVE  NothingForgotten'
    OBVIOUS
  <2>. USE DEF NothingForgotten
  <2>. /\ accrued \in Nat /\ paidOut \in Nat /\ fees \in Nat
       /\ accrued' \in Nat /\ paidOut' \in Nat /\ fees' \in Nat
    BY DEF TypeOK
  <2>0. Sat * paidOut \in Nat /\ Sat * paidOut' \in Nat
    BY SatTimes
  <2>1. ASSUME NEW r \in Invoices, NEW fee \in Fees, NEW g \in Gens, NEW t \in Tasks,
               Paid(r, fee, g, t)
        PROVE  NothingForgotten'
    <3>1. paidOut' = paidOut /\ accrued' - accrued = fees' - fees
      BY <2>1, PaidBooks
    <3>2. Sat * paidOut' = Sat * paidOut
      BY <3>1
    <3>. QED
      BY <2>0, <3>1, <3>2, SMTT(30) DEF TypeOK
  <2>2. ASSUME NEW t \in Tasks, PaymentClears(t)
        PROVE  NothingForgotten'
    <3>1. accrued' + Sat * paidOut' >= accrued + Sat * paidOut /\ fees' = fees
      BY <2>2, PayoutBooks
    <3>. QED
      BY <2>0, <3>1 DEF TypeOK
  <2>3. ASSUME NEW t \in Tasks, AdriftSettles(t)
        PROVE  NothingForgotten'
    <3>1. tasks[t].amount \in Nat
      BY DEF TypeOK, Payout
    <3>2. /\ accrued' = accrued /\ fees' = fees
          /\ paidOut' = paidOut + tasks[t].amount
      BY <2>3 DEF AdriftSettles, Spent, ledger
    <3>3. Sat * paidOut' >= Sat * paidOut
      <4>. DEFINE a == tasks[t].amount
      <4>. HIDE DEF a
      <4>1. Sat * (paidOut + a) = Sat * paidOut + a * Sat /\ a * Sat \in Nat
        BY <3>1, PaidOutGrows DEF a
      <4>2. paidOut' = paidOut + a
        BY <3>2 DEF a
      <4>. QED
        BY <2>0, <4>1, <4>2
    <3>. QED
      BY <2>0, <3>2, <3>3
  <2>4. CASE UNCHANGED <<accrued, fees, paidOut>>
    BY <2>4
  <2>. QED
    BY <2>1, <2>2, <2>3, <2>4
       DEF Next, Work, vars, ledger, history, Issue, GroupStarts, ManualPay, Attempt,
           Declined, OutOfRange, AttemptFails, RecordFailure, Prepared, Toggle, Tick,
           GroupEnds, Stop, Start, AdriftFails, Crash
<1>. QED
  BY <1>1, <1>2, TypeCorrect, PTL DEF Spec

\* A server starts only when every earlier one has stopped.
Order == \A g, h \in Gens : g < h /\ server[h] # "unborn" => server[g] = "stopped"

\* Until a payout is cut off or outlives its server, whatever runs belongs to the
\* running server, and its lock admits one payout at a time, whose amount is still
\* covered by the balance when the payment clears.
Serial ==
  /\ \A t \in Tasks : tasks[t].pc # "adrift"
  /\ \A t, u \in Tasks : tasks[t].pc # "idle" /\ tasks[u].pc # "idle" => tasks[t].gen = tasks[u].gen
  /\ \A t \in Tasks, g \in Gens :
       tasks[t].pc # "idle" /\ server[g] = "running" => tasks[t].gen = g
  /\ \A t, u \in Tasks : Holds(t) /\ Holds(u) => t = u
  /\ \A t \in Tasks : Holds(t) => tasks[t].amount * Sat <= accrued

Balanced == accrued + Sat * paidOut = fees

BooksInv == Order /\ (~cut => Serial /\ Balanced)

\* Servers start one after another.
LEMMA OrderStep == TypeOK /\ Order /\ [Next]_vars => Order'
<1>. SUFFICES ASSUME TypeOK, Order, [Next]_vars PROVE Order'
  OBVIOUS
<1>. server \in [Gens -> {"unborn", "running", "stopped"}]
  BY DEF TypeOK
<1>1. CASE UNCHANGED server
  BY <1>1 DEF Order
<1>2. ASSUME NEW g \in Gens, Stop(g)
      PROVE  Order'
  BY <1>2 DEF Order, Stop
<1>3. ASSUME NEW g \in Gens, Start(g)
      PROVE  Order'
  <2>1. /\ server' = [server EXCEPT ![g] = "running"] /\ server[g] = "unborn"
        /\ g > 1 /\ server[g - 1] = "stopped" /\ g - 1 \in Gens
    BY <1>3, DevFeeAssumption DEF Start, Gens
  <2>2. \A h \in Gens : h < g => server[h] = "stopped"
    <3>1. \A h \in Gens : h < g => h = g - 1 \/ h < g - 1
      BY DevFeeAssumption DEF Gens
    <3>. QED
      BY <2>1, <3>1 DEF Order
  <2>3. \A h \in Gens : g < h => server[h] = "unborn"
    BY <2>1 DEF Order
  <2>. QED
    BY <2>1, <2>2, <2>3, DevFeeAssumption DEF Order, Gens
<1>4. CASE Crash
  BY <1>4 DEF Crash, Order
<1>. QED
  BY <1>1, <1>2, <1>3, <1>4
     DEF Next, Work, vars, Issue, Paid, GroupStarts, ManualPay, Attempt, Declined,
         OutOfRange, AttemptFails, Prepared, PaymentClears, AdriftSettles, AdriftFails,
         Toggle, Tick, GroupEnds

\* The invariant the books and the daily cap rest on.
LEMMA BooksInvariant == Spec => []BooksInv
<1>1. Init => BooksInv
  <2>1. Init => Order
    BY DEF Init, Order, Gens
  <2>2. Init => Serial
    BY DEF Init, Serial, Idle, Holds
  <2>3. Init => Balanced
    BY DevFeeAssumption DEF Init, Balanced
  <2>. QED
    BY <2>1, <2>2, <2>3 DEF BooksInv
<1>2. TypeOK /\ TypeOK' /\ BooksInv /\ [Next]_vars => BooksInv'
  <2>. SUFFICES ASSUME TypeOK, TypeOK', Order, Order', [Next]_vars, ~cut',
                       ~cut => Serial /\ Balanced
                PROVE  Serial' /\ Balanced'
    BY OrderStep DEF BooksInv
  <2>. ~cut
    BY DEF Next, vars, GroupEnds, Start, Crash
  <2>. Serial /\ Balanced
    OBVIOUS
  <2>. /\ accrued \in Nat /\ paidOut \in Nat /\ fees \in Nat
       /\ accrued' \in Nat /\ paidOut' \in Nat /\ fees' \in Nat
    BY DEF TypeOK
  <2>. \A t \in Tasks : tasks[t] \in Payout
    BY DEF TypeOK
  <2>0. Sat * paidOut \in Nat /\ \A t \in Tasks : tasks[t].amount * Sat \in Nat
    <3>1. \A t \in Tasks : tasks[t].amount \in Nat
      BY DEF Payout
    <3>. QED
      BY <3>1, SatTimes, OwedType
  <2>1. ASSUME NEW t \in Tasks, NEW g \in Gens, NEW child, NEW force,
               Started(t, g, child, force), server[g] = "running",
               UNCHANGED server, accrued' >= accrued
        PROVE  Serial'
    <3>1. \A h \in Gens : server[h] = "running" => h = g
      BY <2>1, DevFeeAssumption DEF Order, Gens
    <3>2. /\ tasks'[t].gen = g /\ tasks'[t].pc = "waiting"
          /\ \A u \in Tasks \ {t} : tasks'[u] = tasks[u]
      BY <2>1 DEF Started, TypeOK
    <3>3. \A u \in Tasks : Holds(u)' => Holds(u) /\ tasks'[u] = tasks[u]
      BY <3>2 DEF Holds
    <3>4. \A u \in Tasks : Holds(u)' => tasks'[u].amount * Sat <= accrued'
      BY <2>0, <2>1, <3>3 DEF Serial
    <3>5. \A u \in Tasks : tasks'[u].pc # "idle" => tasks'[u].gen = g
      BY <2>1, <3>2 DEF Serial
    <3>. QED
      BY <2>1, <3>1, <3>2, <3>3, <3>4, <3>5 DEF Serial
  <2>2. ASSUME NEW t \in Tasks, Free(t), UNCHANGED server,
               accrued' = accrued \/ Holds(t)
        PROVE  Serial'
    <3>1. /\ tasks'[t] = Idle /\ \A u \in Tasks \ {t} : tasks'[u] = tasks[u]
      BY <2>2 DEF Free, TypeOK
    <3>2. \A u \in Tasks : Holds(u)' => Holds(u) /\ u # t /\ tasks'[u] = tasks[u]
      BY <3>1 DEF Holds, Idle
    <3>3. \A u \in Tasks : Holds(u)' => tasks'[u].amount * Sat <= accrued'
      BY <2>2, <3>2 DEF Serial
    <3>. QED
      BY <2>2, <3>1, <3>2, <3>3 DEF Serial, Idle
  <2>15. ASSUME NEW t \in Tasks, UNCHANGED server,
                tasks'[t].gen = tasks[t].gen, tasks[t].pc # "idle", Holds(t)',
                \A u \in Tasks \ {t} : tasks'[u] = tasks[u] /\ ~Holds(u)',
                tasks'[t].amount * Sat <= accrued'
         PROVE  Serial'
    <3>1. \A u \in Tasks : /\ tasks'[u].gen = tasks[u].gen /\ tasks'[u].pc # "adrift"
                           /\ tasks'[u].pc # "idle" => tasks[u].pc # "idle"
      BY <2>15 DEF Serial, Holds
    <3>2. \A u \in Tasks : Holds(u)' => u = t
      BY <2>15
    <3>. QED
      BY <2>15, <3>1, <3>2 DEF Serial
  <2>3. ASSUME NEW r \in Invoices, NEW fee \in Fees, NEW g \in Gens, NEW t \in Tasks,
               Paid(r, fee, g, t)
        PROVE  Serial' /\ Balanced'
    <3>1. paidOut' = paidOut /\ accrued' >= accrued /\ accrued' - accrued = fees' - fees
      BY <2>3, PaidBooks
    <3>2. Balanced'
      BY <2>0, <3>1 DEF Balanced
    <3>3. CASE Started(t, g, FALSE, FALSE)
      BY <2>1, <2>3, <3>1, <3>2, <3>3 DEF Paid
    <3>4. CASE UNCHANGED tasks
      <4>1. \A u \in Tasks : Holds(u)' => tasks'[u].amount * Sat <= accrued'
        BY <2>0, <3>1, <3>4 DEF Serial, Holds
      <4>. QED
        BY <2>3, <3>2, <3>4, <4>1 DEF Paid, Serial, Holds
    <3>. QED
      BY <2>3, <3>3, <3>4 DEF Paid
  <2>4. ASSUME NEW t \in Tasks, PaymentClears(t)
        PROVE  Serial' /\ Balanced'
    <3>1. Holds(t) /\ tasks[t].amount * Sat <= accrued
      BY <2>4 DEF PaymentClears, Holds, Serial
    <3>2. accrued' + Sat * paidOut' = accrued + Sat * paidOut /\ fees' = fees
      BY <2>4, <3>1, PayoutBooks
    <3>. QED
      BY <2>2, <2>4, <3>1, <3>2 DEF PaymentClears, Balanced
  <2>5. ASSUME NEW t \in Tasks, Attempt(t)
        PROVE  Serial' /\ Balanced'
    <3>1. PICK a \in 0..OwedSat :
            tasks' = [tasks EXCEPT ![t].pc = "resolving", ![t].amount = a]
      BY <2>5 DEF Attempt
    <3>2. OwedSat \in Nat
      BY OwedType
    <3>3. a \in Nat /\ a <= OwedSat /\ "resolving" \in Pcs
      BY <3>2 DEF Pcs
    <3>4. a * Sat <= accrued
      BY <3>3, OwedType
    <3>5. /\ tasks'[t] = [tasks[t] EXCEPT !.pc = "resolving", !.amount = a]
          /\ \A u \in Tasks \ {t} : tasks'[u] = tasks[u]
      BY <3>1, <3>3, MovedType
    <3>10. tasks[t].pc = "waiting"
      BY <2>5 DEF Attempt
    <3>6. /\ tasks'[t].gen = tasks[t].gen /\ tasks'[t].amount = a
          /\ tasks'[t].pc = "resolving" /\ tasks[t].pc = "waiting"
      BY <3>5, <3>10 DEF Payout
    <3>7. \A u \in Tasks \ {t} : ~Holds(u) /\ ~Holds(u)'
      <4>1. \A u \in Tasks \ {t} : Holds(u) => tasks[u].gen = tasks[t].gen
        BY <3>6 DEF Serial, Holds
      <4>2. \A u \in Tasks \ {t} : ~Holds(u)
        BY <2>5, <4>1 DEF Attempt, LockFree
      <4>. QED
        BY <3>5, <4>2 DEF Holds
    <3>8. accrued' = accrued /\ server' = server /\ UNCHANGED <<fees, paidOut>>
      BY <2>5 DEF Attempt, ledger, history
    <3>9. Serial'
      BY <2>15, <3>4, <3>5, <3>6, <3>7, <3>8 DEF Holds
    <3>. QED
      BY <3>8, <3>9 DEF Balanced
  <2>6. ASSUME NEW t \in Tasks, NEW amount \in 0..tasks[t].amount, Prepared(t, amount)
        PROVE  Serial' /\ Balanced'
    <3>1. /\ amount \in Nat /\ tasks[t].amount \in Nat /\ amount <= tasks[t].amount
          /\ "paying" \in Pcs
      BY DEF Payout, Pcs
    <3>2. amount * Sat <= accrued
      <4>1. Holds(t) /\ tasks[t].amount * Sat <= accrued
        BY <2>6 DEF Prepared, Holds, Serial
      <4>2. amount * Sat <= tasks[t].amount * Sat
        BY <3>1, DevFeeAssumption
      <4>3. amount * Sat \in Nat
        BY <3>1, OwedType
      <4>. QED
        BY <2>0, <4>1, <4>2, <4>3
    <3>3. tasks' = [tasks EXCEPT ![t].pc = "paying", ![t].amount = amount]
      BY <2>6 DEF Prepared
    <3>4. /\ tasks'[t] = [tasks[t] EXCEPT !.pc = "paying", !.amount = amount]
          /\ \A u \in Tasks \ {t} : tasks'[u] = tasks[u]
      BY <3>1, <3>3, MovedType
    <3>5. /\ tasks'[t].gen = tasks[t].gen /\ tasks'[t].amount = amount
          /\ tasks'[t].pc = "paying"
      BY <3>4 DEF Payout
    <3>9. tasks[t].pc = "resolving"
      BY <2>6 DEF Prepared
    <3>6. \A u \in Tasks \ {t} : ~Holds(u)'
      BY <2>6, <3>4 DEF Prepared, Holds, Serial
    <3>7. accrued' = accrued /\ server' = server /\ UNCHANGED <<fees, paidOut>>
      BY <2>6 DEF Prepared, ledger, history
    <3>8. Serial'
      BY <2>15, <3>2, <3>4, <3>5, <3>6, <3>7, <3>9 DEF Holds
    <3>. QED
      BY <3>7, <3>8 DEF Balanced
  <2>7. ASSUME NEW t \in Tasks, Declined(t) \/ OutOfRange(t) \/ AttemptFails(t)
        PROVE  Serial' /\ Balanced'
    BY <2>2, <2>7 DEF Declined, OutOfRange, AttemptFails, RecordFailure, ledger, history,
                      Balanced
  <2>8. ASSUME NEW g \in Gens, NEW t \in Tasks, GroupStarts(g, t) \/ ManualPay(t, g)
        PROVE  Serial' /\ Balanced'
    <3>1. /\ UNCHANGED <<accrued, fees, paidOut, server>> /\ server[g] = "running"
          /\ \E child, force \in BOOLEAN : Started(t, g, child, force)
      BY <2>8 DEF GroupStarts, ManualPay, ledger, history
    <3>. QED
      BY <2>1, <3>1 DEF Balanced
  <2>9. ASSUME NEW g \in Gens, GroupEnds(g)
        PROVE  Serial' /\ Balanced'
    <3>1. \A t \in Tasks : \/ tasks'[t] = tasks[t]
                          \/ tasks'[t] = Idle
      BY <2>9 DEF GroupEnds, CancelChildren, Cancelled, TypeOK, Serial
    <3>2. UNCHANGED <<accrued, fees, paidOut, server>>
      BY <2>9 DEF GroupEnds, ledger, history
    <3>. QED
      BY <3>1, <3>2 DEF Serial, Balanced, Holds, Idle
  <2>10. CASE Crash
    <3>1. \A t \in Tasks : tasks'[t] = Idle
      BY <2>10 DEF Crash, Cancelled, Serial
    <3>2. UNCHANGED <<accrued, fees, paidOut>>
      BY <2>10 DEF Crash, ledger, history
    <3>. QED
      BY <3>1, <3>2 DEF Serial, Balanced, Holds, Idle
  <2>11. ASSUME NEW g \in Gens, Start(g)
        PROVE  Serial' /\ Balanced'
    <3>1. \A t \in Tasks : tasks[t].pc = "idle" /\ tasks'[t].pc = "idle"
      BY <2>11 DEF Start
    <3>2. UNCHANGED <<accrued, fees, paidOut, tasks>>
      BY <2>11 DEF Start, ledger, history
    <3>. QED
      BY <3>1, <3>2 DEF Serial, Balanced, Holds
  <2>12. ASSUME NEW g \in Gens, Stop(g)
        PROVE  Serial' /\ Balanced'
    <3>1. UNCHANGED <<accrued, fees, paidOut, tasks>>
      BY <2>12 DEF Stop, ledger, history
    <3>2. \A h \in Gens : server'[h] = "running" => server[h] = "running"
      BY <2>12 DEF Stop, TypeOK
    <3>. QED
      BY <3>1, <3>2 DEF Serial, Balanced, Holds
  <2>13. ASSUME NEW t \in Tasks, AdriftSettles(t) \/ AdriftFails(t)
        PROVE  FALSE
    BY <2>13 DEF AdriftSettles, AdriftFails, Serial
  <2>14. CASE UNCHANGED <<accrued, fees, paidOut, server, tasks>>
    BY <2>14 DEF Serial, Balanced, Holds
  <2>. QED
    BY <2>3, <2>4, <2>5, <2>6, <2>7, <2>8, <2>9, <2>10, <2>11, <2>12, <2>13, <2>14
       DEF Next, Work, vars, ledger, history, Issue, Toggle, Tick
<1>. QED
  BY <1>1, <1>2, TypeCorrect, PTL DEF Spec

\* Through restarts and crashes the balance and what was paid out add up to the
\* fees accrued, until a payout is cut off or outlives its server: none is lost,
\* doubled or debited from the wrong balance.
THEOREM BooksAlwaysBalance == Spec => []BooksBalance
<1>1. BooksInv => BooksBalance
  BY DEF BooksInv, BooksBalance, Balanced
<1>. QED
  BY <1>1, BooksInvariant, PTL

-----------------------------------------------------------------------------
(* The daily cap.                                                          *)

\* What a window totals, and how an addition changes it.
LEMMA TotalAdded ==
  ASSUME NEW w \in Window, NEW a \in Nat
  PROVE  Total(w) \in Nat /\ Total(Added(w, a)) = Total(w) + a
<1>. DEFINE S == 0..Day - 1
            v == Added(w, a)
<1>1. IsFiniteSet(S) /\ 0 \in S
  BY DevFeeAssumption, FS_Interval
<1>2. /\ DOMAIN w = S /\ DOMAIN v = S
      /\ \A i \in S : w[i] \in Nat /\ v[i] \in Nat
      /\ v[0] = w[0] + a /\ \A i \in S \ {0} : v[i] = w[i]
  BY <1>1, WindowType DEF Window, Added
<1>. HIDE DEF S, v
<1>3. Total(w) = Sum(w, S) /\ Total(v) = Sum(v, S)
  BY <1>2 DEF Total, FoldFunction, Sum
<1>4. Sum(w, S) \in Nat
  BY <1>1, <1>2, SumSubset
<1>5. Sum(v, S) = Sum(w, S) + (v[0] - w[0])
  BY <1>1, <1>2, SumChange
<1>6. v[0] - w[0] = a
  BY <1>1, <1>2
<1>. QED
  BY <1>3, <1>4, <1>5, <1>6 DEF v

\* A window that ages forgets its oldest entry and nothing else.
LEMMA TotalOlder ==
  ASSUME NEW w \in Window
  PROVE  Total(Older(w)) <= Total(w)
<1>. DEFINE v == Older(w)
            N == {n \in Nat : n < Day => Sum(v, 0..n) = Sum(w, 0..n - 1)}
<1>1. Day \in Nat \ {0}
  BY DevFeeAssumption
<1>2. v \in Window /\ v[0] = 0 /\ \A i \in 1..Day - 1 : v[i] = w[i - 1]
  BY <1>1, WindowType DEF Older
<1>3. /\ DOMAIN w = 0..Day - 1 /\ DOMAIN v = 0..Day - 1
      /\ \A i \in 0..Day - 1 : w[i] \in Nat /\ v[i] \in Nat
  BY <1>2 DEF Window
<1>. HIDE DEF v
<1>4. 0 \in N
  <2>1. Sum(v, {0}) = 0
    BY <1>2, SumZero, FS_Singleton
  <2>2. Sum(w, {}) = 0
    BY SumZero, FS_EmptySet
  <2>3. 0..0 = {0} /\ 0..0 - 1 = {}
    OBVIOUS
  <2>4. Sum(v, 0..0) = Sum(w, 0..0 - 1)
    BY <2>1, <2>2, <2>3
  <2>. QED
    BY <2>4
<1>5. ASSUME NEW n \in Nat, n \in N
      PROVE  n + 1 \in N
  <2>. SUFFICES ASSUME n + 1 < Day
                PROVE  Sum(v, 0..n + 1) = Sum(w, 0..n)
    OBVIOUS
  <2>1. 0..n + 1 = (0..n) \cup {n + 1} /\ 0..n = (0..n - 1) \cup {n}
    OBVIOUS
  <2>2. IsFiniteSet(0..n) /\ IsFiniteSet(0..n - 1)
    BY FS_Interval
  <2>3. /\ n + 1 \notin 0..n /\ n \notin 0..n - 1
        /\ \A i \in (0..n) \cup {n + 1} : v[i] \in Int
        /\ \A i \in (0..n - 1) \cup {n} : w[i] \in Int
    BY <1>1, <1>3
  <2>4. Sum(v, (0..n) \cup {n + 1}) = v[n + 1] + Sum(v, 0..n)
    BY <2>2, <2>3, SumInsert
  <2>5. Sum(w, (0..n - 1) \cup {n}) = w[n] + Sum(w, 0..n - 1)
    BY <2>2, <2>3, SumInsert
  <2>6. v[n + 1] = w[n]
    BY <1>1, <1>2
  <2>7. Sum(v, 0..n) = Sum(w, 0..n - 1)
    BY <1>5, <1>1
  <2>. QED
    BY <2>1, <2>4, <2>5, <2>6, <2>7
<1>6. Nat \subseteq N
  BY <1>4, <1>5, NatSetInduction
<1>7. Sum(v, 0..Day - 1) = Sum(w, 0..(Day - 1) - 1)
  <2>1. Day - 1 \in N /\ Day - 1 < Day
    BY <1>1, <1>6
  <2>. QED
    BY <2>1
<1>8. Sum(w, 0..(Day - 1) - 1) <= Sum(w, 0..Day - 1)
  <2>1. IsFiniteSet(0..Day - 1) /\ 0..(Day - 1) - 1 \subseteq 0..Day - 1
    BY <1>1, FS_Interval
  <2>. QED
    BY <1>3, <2>1, SumSubset
<1>9. Total(w) = Sum(w, 0..Day - 1) /\ Total(v) = Sum(v, 0..Day - 1)
  BY <1>3 DEF Total, FoldFunction, Sum
<1>. QED
  BY <1>7, <1>8, <1>9 DEF v

\* While no payout was cut off or outlived its server, the log of the payouts is
\* what left the wallet, and what is being paid still fits under the cap.
CapInv ==
  ~cut => /\ outflow = payments /\ Total(payments) <= DailyCap
          /\ \A t \in Tasks : Holds(t) => Total(payments) + tasks[t].amount <= DailyCap

\* An attempt is made for no more than the cap has left.
LEMMA AttemptFits ==
  ASSUME TypeOK, NEW force, NEW a \in Nat, MayAttempt(force, a)
  PROVE  Total(payments) + a <= DailyCap
<1>1. Total(payments) \in Nat
  BY TotalAdded DEF TypeOK
<1>2. a <= DailyCap - Total(payments)
  BY DEF MayAttempt, IsPayable
<1>. QED
  BY <1>1, <1>2, DevFeeAssumption

\* A step that neither pays nor starts an attempt leaves the cap alone.
LEMMA CapUntouched ==
  ASSUME TypeOK, CapInv, ~cut, UNCHANGED <<payments, outflow>>,
         \A t \in Tasks : Holds(t)' => Holds(t) /\ tasks'[t].amount = tasks[t].amount
  PROVE  CapInv'
<1>1. outflow' = payments' /\ Total(payments') = Total(payments)
  BY DEF CapInv
<1>2. \A t \in Tasks : Holds(t)' => Total(payments') + tasks'[t].amount <= DailyCap
  BY <1>1 DEF CapInv
<1>. QED
  BY <1>1, <1>2 DEF CapInv

\* Each step keeps to the cap, from a state of the books' invariant.
LEMMA CapStep ==
  ASSUME TypeOK, TypeOK', BooksInv, CapInv, [Next]_vars
  PROVE  CapInv'
<1>. SUFFICES ASSUME ~cut' PROVE CapInv'
  BY DEF CapInv
<1>. ~cut
  BY DEF Next, vars, GroupEnds, Start, Crash
<1>. Serial
  BY DEF BooksInv
<1>. USE DEF Holds
<1>. /\ \A t \in Tasks : tasks[t] \in Payout
     /\ payments \in Window /\ Total(payments) \in Nat
     /\ \A t \in Tasks : tasks[t].amount \in Nat
  BY TotalAdded DEF TypeOK, Payout
<1>1. ASSUME NEW t \in Tasks, NEW g \in Gens, NEW child, NEW force,
             Started(t, g, child, force), UNCHANGED <<payments, outflow>>
      PROVE  CapInv'
  <2>1. tasks'[t].pc = "waiting" /\ \A u \in Tasks \ {t} : tasks'[u] = tasks[u]
    BY <1>1 DEF Started, TypeOK
  <2>. QED
    BY <1>1, <2>1, CapUntouched
<1>2. ASSUME NEW t \in Tasks, Free(t), UNCHANGED <<payments, outflow>>
      PROVE  CapInv'
  <2>1. tasks'[t] = Idle /\ \A u \in Tasks \ {t} : tasks'[u] = tasks[u]
    BY <1>2 DEF Free, TypeOK
  <2>. QED
    BY <1>2, <2>1, CapUntouched DEF Idle
<1>3. CASE UNCHANGED <<payments, outflow, tasks>>
  BY <1>3, CapUntouched
<1>4. ASSUME NEW t \in Tasks, Attempt(t)
      PROVE  CapInv'
  <2>1. PICK a \in 0..OwedSat :
          /\ MayAttempt(tasks[t].force, a)
          /\ tasks' = [tasks EXCEPT ![t].pc = "resolving", ![t].amount = a]
    BY <1>4 DEF Attempt
  <2>2. a \in Nat
    BY OwedType DEF TypeOK
  <2>3. Total(payments) + a <= DailyCap
    BY <2>1, <2>2, AttemptFits
  <2>4. tasks'[t].amount = a /\ \A u \in Tasks \ {t} : tasks'[u] = tasks[u]
    <3>1. "resolving" \in Pcs
      BY DEF Pcs
    <3>. QED
      BY <2>1, <2>2, <3>1, MovedType, ZenonT(30) DEF Payout
  <2>5. UNCHANGED <<payments, outflow>>
    BY <1>4 DEF Attempt, ledger, history
  <2>6. Total(payments') = Total(payments)
    BY <2>5
  <2>. QED
    BY <2>3, <2>4, <2>5, <2>6 DEF CapInv
<1>5. ASSUME NEW t \in Tasks, NEW amount \in 0..tasks[t].amount, Prepared(t, amount)
      PROVE  CapInv'
  <2>1. /\ amount \in Nat /\ amount <= tasks[t].amount /\ "paying" \in Pcs
        /\ tasks[t].pc = "resolving"
    BY <1>5 DEF Prepared, Pcs
  <2>2. Total(payments) + amount <= DailyCap
    BY <2>1, DevFeeAssumption DEF CapInv
  <2>6. tasks' = [tasks EXCEPT ![t].pc = "paying", ![t].amount = amount]
    BY <1>5 DEF Prepared
  <2>7. /\ tasks'[t] = [tasks[t] EXCEPT !.pc = "paying", !.amount = amount]
        /\ \A u \in Tasks \ {t} : tasks'[u] = tasks[u]
    BY <2>1, <2>6, MovedType
  <2>3. tasks'[t].amount = amount /\ \A u \in Tasks \ {t} : tasks'[u] = tasks[u]
    BY <2>7 DEF Payout
  <2>4. UNCHANGED <<payments, outflow>>
    BY <1>5 DEF Prepared, ledger, history
  <2>5. Total(payments') = Total(payments)
    BY <2>4
  <2>. QED
    BY <2>2, <2>3, <2>4, <2>5 DEF CapInv
<1>6. ASSUME NEW t \in Tasks, PaymentClears(t)
      PROVE  CapInv'
  <2>1. /\ tasks[t].pc = "paying" /\ Free(t)
        /\ payments' = Added(payments, tasks[t].amount)
        /\ outflow' = Added(outflow, tasks[t].amount)
    BY <1>6 DEF PaymentClears, RecordSuccess, Spent
  <2>2. Total(payments') = Total(payments) + tasks[t].amount
    BY <2>1, TotalAdded
  <2>3. Total(payments) + tasks[t].amount <= DailyCap
    BY <2>1 DEF CapInv
  <2>4. \A u \in Tasks : u # t => ~Holds(u)
    BY <2>1 DEF Serial
  <2>5. \A u \in Tasks : ~Holds(u)'
    BY <2>1, <2>4 DEF Free, TypeOK, Idle
  <2>. QED
    BY <2>1, <2>2, <2>3, <2>5 DEF CapInv
<1>7. CASE Tick
  <2>1. /\ payments' = Older(payments) /\ outflow' = Older(outflow)
        /\ UNCHANGED tasks
    BY <1>7 DEF Tick
  <2>2. Total(payments') <= Total(payments) /\ Total(payments') \in Nat
    BY <2>1, TotalOlder, TotalAdded DEF TypeOK
  <2>3. \A t \in Tasks : Holds(t)' => Total(payments') + tasks'[t].amount <= DailyCap
    BY <2>1, <2>2, DevFeeAssumption DEF CapInv
  <2>4. Total(payments') <= DailyCap
    BY <2>2, DevFeeAssumption DEF CapInv
  <2>. QED
    BY <2>1, <2>3, <2>4 DEF CapInv
<1>8. ASSUME NEW g \in Gens, GroupEnds(g)
      PROVE  CapInv'
  <2>1. \A t \in Tasks : tasks'[t] = tasks[t] \/ tasks'[t] = Idle
    BY <1>8 DEF GroupEnds, CancelChildren, Cancelled, TypeOK, Serial
  <2>2. UNCHANGED <<payments, outflow>>
    BY <1>8 DEF GroupEnds, ledger, history
  <2>. QED
    BY <2>1, <2>2, CapUntouched DEF Idle
<1>9. CASE Crash
  <2>1. \A t \in Tasks : tasks'[t] = Idle
    BY <1>9 DEF Crash, Cancelled, Serial
  <2>2. UNCHANGED <<payments, outflow>>
    BY <1>9 DEF Crash, ledger, history
  <2>. QED
    BY <2>1, <2>2, CapUntouched DEF Idle
<1>10. ASSUME NEW t \in Tasks, Declined(t) \/ OutOfRange(t) \/ AttemptFails(t)
       PROVE  CapInv'
  BY <1>2, <1>10 DEF Declined, OutOfRange, AttemptFails, RecordFailure, ledger, history
<1>11. ASSUME NEW g \in Gens, NEW t \in Tasks, GroupStarts(g, t) \/ ManualPay(t, g)
       PROVE  CapInv'
  BY <1>1, <1>11 DEF GroupStarts, ManualPay, ledger, history
<1>12. ASSUME NEW r \in Invoices, NEW fee \in Fees, NEW g \in Gens, NEW t \in Tasks,
              Paid(r, fee, g, t)
       PROVE  CapInv'
  <2>1. UNCHANGED <<payments, outflow>> /\ (Started(t, g, FALSE, FALSE) \/ UNCHANGED tasks)
    BY <1>12 DEF Paid
  <2>. QED
    BY <1>1, <1>3, <2>1
<1>13. ASSUME NEW t \in Tasks, AdriftSettles(t) \/ AdriftFails(t)
       PROVE  FALSE
  BY <1>13 DEF AdriftSettles, AdriftFails, Serial
<1>. QED
  BY <1>3, <1>4, <1>5, <1>6, <1>7, <1>8, <1>9, <1>10, <1>11, <1>12, <1>13
     DEF Next, Work, vars, ledger, history, Issue, Toggle, Stop, Start

\* Within any day no more than the cap leaves the wallet, until a payout is cut off
\* or outlives its server: the decision is made once, before the awaits, but the
\* lock and the log keep it true when the payment clears.
THEOREM DailyCapIsHeld == Spec => []DailyCapHeld
<1>1. Init => CapInv
  <2>. SUFFICES ASSUME Init PROVE CapInv
    OBVIOUS
  <2>1. Total(Empty) = 0
    <3>1. /\ DOMAIN Empty = 0..Day - 1 /\ IsFiniteSet(0..Day - 1)
          /\ \A i \in 0..Day - 1 : Empty[i] = 0
      BY DevFeeAssumption, FS_Interval DEF Empty
    <3>2. Total(Empty) = Sum(Empty, 0..Day - 1)
      BY <3>1 DEF Total, FoldFunction, Sum
    <3>. QED
      BY <3>1, <3>2, SumZero
  <2>2. outflow = Empty /\ payments = Empty /\ \A t \in Tasks : ~Holds(t)
    BY DEF Init, Holds, Idle
  <2>3. Total(payments) = 0
    BY <2>1, <2>2
  <2>. QED
    BY <2>2, <2>3, DevFeeAssumption DEF CapInv
<1>2. TypeOK /\ CapInv => DailyCapHeld
  BY DEF CapInv, DailyCapHeld
<1>. QED
  BY <1>1, <1>2, CapStep, TypeCorrect, BooksInvariant, PTL DEF Spec

-----------------------------------------------------------------------------
(* One fee per invoice.                                                    *)

\* A hash is in the pending list once, and only until its fee was accrued.
PendingOnce ==
  /\ \A i, j \in 1..Len(pending) : pending[i] = pending[j] => i = j
  /\ \A i \in 1..Len(pending) : charged[pending[i]] = 0 /\ invoice[pending[i]] # "none"
  /\ \A r \in Invoices : invoice[r] = "none" => charged[r] = 0

\* The fee of an invoice is accrued at most once, however often and in whatever
\* session Electrum reports it paid.
THEOREM OneFeePerInvoice == Spec => []FeeOncePerInvoice
<1>. DEFINE Inv == PendingOnce /\ FeeOncePerInvoice
<1>1. Init => Inv
  BY DEF Init, PendingOnce, FeeOncePerInvoice
<1>2. TypeOK /\ Inv /\ [Next]_vars => Inv'
  <2>. SUFFICES ASSUME TypeOK, PendingOnce, FeeOncePerInvoice, [Next]_vars PROVE Inv'
    OBVIOUS
  <2>. /\ pending \in Seq(Invoices) /\ Len(pending) \in Nat
       /\ charged \in [Invoices -> Nat]
       /\ invoice \in [Invoices -> {"none", "unpaid", "paid"}]
    BY DEF TypeOK
  <2>. \A i \in 1..Len(pending) : pending[i] \in Invoices
    OBVIOUS
  <2>1. ASSUME NEW r \in Invoices, Issue(r)
        PROVE  Inv'
    <3>1. PICK k \in 0..Len(pending) :
            /\ Len(pending') = Len(pending) - k + 1
            /\ \A i \in 1..Len(pending) - k : pending'[i] = pending[i + k]
            /\ pending'[Len(pending) - k + 1] = r
      BY <2>1, IssuedType DEF Issue
    <3>. DEFINE n == Len(pending) - k
    <3>2. /\ n \in Nat /\ Len(pending') = n + 1 /\ pending'[n + 1] = r
          /\ \A i \in 1..n : i + k \in 1..Len(pending) /\ pending'[i] = pending[i + k]
      BY <3>1
    <3>3. /\ invoice[r] = "none" /\ charged' = charged
          /\ invoice' = [invoice EXCEPT ![r] = "unpaid"]
      BY <2>1 DEF Issue, history
    <3>. HIDE DEF n
    <3>4. \A i \in 1..Len(pending') : i \in 1..n \/ i = n + 1
      BY <3>2
    <3>5. \A i \in 1..n : /\ pending'[i] # r /\ pending'[i] \in Invoices
                         /\ charged[pending'[i]] = 0 /\ invoice[pending'[i]] # "none"
      <4>. SUFFICES ASSUME NEW i \in 1..n
                    PROVE  /\ pending'[i] # r /\ pending'[i] \in Invoices
                           /\ charged[pending'[i]] = 0 /\ invoice[pending'[i]] # "none"
        OBVIOUS
      <4>1. i + k \in 1..Len(pending) /\ pending'[i] = pending[i + k]
        BY <3>2
      <4>2. /\ pending[i + k] \in Invoices /\ charged[pending[i + k]] = 0
            /\ invoice[pending[i + k]] # "none"
        BY <4>1 DEF PendingOnce
      <4>. QED
        BY <3>3, <4>1, <4>2
    <3>6. \A i, j \in 1..n : pending'[i] = pending'[j] => i = j
      <4>. SUFFICES ASSUME NEW i \in 1..n, NEW j \in 1..n, pending'[i] = pending'[j]
                    PROVE  i = j
        OBVIOUS
      <4>1. i + k = j + k
        BY <3>2 DEF PendingOnce
      <4>. QED
        BY <3>2, <4>1
    <3>7. \A i, j \in 1..Len(pending') : pending'[i] = pending'[j] => i = j
      BY <3>2, <3>4, <3>5, <3>6
    <3>8. \A i \in 1..Len(pending') :
             charged'[pending'[i]] = 0 /\ invoice'[pending'[i]] # "none"
      BY <3>2, <3>3, <3>4, <3>5 DEF PendingOnce
    <3>9. \A x \in Invoices : invoice'[x] = "none" => charged'[x] = 0
      BY <3>3 DEF PendingOnce
    <3>. QED
      BY <3>3, <3>7, <3>8, <3>9 DEF PendingOnce, FeeOncePerInvoice
  <2>2. ASSUME NEW r \in Invoices, NEW fee \in Fees, NEW g \in Gens, NEW t \in Tasks,
               Paid(r, fee, g, t)
        PROVE  Inv'
    <3>1. CASE IsPending(r)
      <4>1. PICK k \in 1..Len(pending) : pending[k] = r /\ pending' = Taken(k)
        BY <2>2, <3>1 DEF Paid
      <4>2. /\ Len(pending') = Len(pending) - 1
            /\ \A j \in 1..Len(pending) - 1 :
                 pending'[j] = IF j < k THEN pending[j] ELSE pending[j + 1]
        BY <4>1, PendingType
      <4>. DEFINE old(j) == IF j < k THEN j ELSE j + 1
      <4>3. \A j \in 1..Len(pending') : /\ old(j) \in 1..Len(pending) /\ old(j) # k
                                        /\ pending'[j] = pending[old(j)]
        BY <4>2
      <4>4. \A i, j \in 1..Len(pending') : old(i) = old(j) => i = j
        BY <4>2
      <4>5. /\ charged' = [charged EXCEPT ![r] = charged[r] + 1]
            /\ invoice' = [invoice EXCEPT ![r] = "paid"]
        BY <2>2, <3>1 DEF Paid
      <4>6. charged[r] = 0
        BY <4>1 DEF PendingOnce
      <4>. HIDE DEF old
      <4>7. \A i, j \in 1..Len(pending') : pending'[i] = pending'[j] => i = j
        <5>. SUFFICES ASSUME NEW i \in 1..Len(pending'), NEW j \in 1..Len(pending'),
                             pending'[i] = pending'[j]
                      PROVE  i = j
          OBVIOUS
        <5>1. old(i) \in 1..Len(pending) /\ old(j) \in 1..Len(pending)
          BY <4>3
        <5>2. pending[old(i)] = pending[old(j)]
          BY <4>3
        <5>3. old(i) = old(j)
          BY <5>1, <5>2 DEF PendingOnce
        <5>. QED
          BY <4>4, <5>3
      <4>8. \A i \in 1..Len(pending') : /\ pending'[i] # r /\ pending'[i] \in Invoices
                                        /\ charged[pending'[i]] = 0
                                        /\ invoice[pending'[i]] # "none"
        BY <4>1, <4>3 DEF PendingOnce
      <4>9. \A i \in 1..Len(pending') :
               charged'[pending'[i]] = 0 /\ invoice'[pending'[i]] # "none"
        BY <4>5, <4>8
      <4>10. \A x \in Invoices : invoice'[x] = "none" => charged'[x] = 0
        BY <4>5 DEF PendingOnce
      <4>11. FeeOncePerInvoice'
        BY <4>5, <4>6 DEF FeeOncePerInvoice
      <4>. QED
        BY <4>7, <4>9, <4>10, <4>11 DEF PendingOnce
    <3>2. CASE ~IsPending(r)
      <4>1. UNCHANGED <<pending, charged>> /\ invoice' = [invoice EXCEPT ![r] = "paid"]
        BY <2>2, <3>2 DEF Paid
      <4>. QED
        BY <4>1 DEF PendingOnce, FeeOncePerInvoice
    <3>. QED
      BY <3>1, <3>2
  <2>3. CASE UNCHANGED <<pending, charged, invoice>>
    BY <2>3 DEF PendingOnce, FeeOncePerInvoice
  <2>. QED
    BY <2>1, <2>2, <2>3
       DEF Next, Work, vars, ledger, history, GroupStarts, ManualPay, Attempt, Declined,
           OutOfRange, AttemptFails, RecordFailure, Prepared, PaymentClears, AdriftSettles,
           RecordSuccess, Spent, Toggle, Tick, GroupEnds, Stop, Start, AdriftFails, Crash
<1>3. TypeOK /\ Inv => FeeOncePerInvoice
  OBVIOUS
<1>. QED
  BY <1>1, <1>2, <1>3, TypeCorrect, PTL DEF Spec
=============================================================================
