------------------------ MODULE ReceiptDeliveryProofs ------------------------
(***************************************************************************)
(* Theorems about ReceiptDelivery for every set of invoices, schedule,     *)
(* backoff table, window, interval and cap.  The inductive invariant IInv  *)
(* adds to the properties what they lean on: whatever is being published   *)
(* or waits in the loop's list belongs to a paid invoice whose entry, if   *)
(* still there, is owed.                                                   *)
(***************************************************************************)
EXTENDS ReceiptDelivery, ReceiptRegistryProofs, FiniteSetTheorems, TLAPS

-----------------------------------------------------------------------------
(* Type correctness.                                                       *)

\* The shared pieces keep the type of the variables they assign.
LEMMA ScheduleTailType ==
  ASSUME TypeOK, NEW r \in Invoices, NEW by, NEW delay \in Nat \cup {NoDelay},
         NEW k \in Streaks, ScheduleTail(r, by, delay, k)
  PROVE  receiptTails' \subseteq Invoices /\ tail' \in [Invoices -> TailTask]
<1>1. CASE UNCHANGED <<receiptTails, tail>>
  BY <1>1 DEF TypeOK
<1>2. CASE ~ UNCHANGED <<receiptTails, tail>>
  <2>1. delay \in Nat
    BY <1>2 DEF ScheduleTail
  <2>2. [sleeping |-> TRUE, left |-> delay, streak |-> k, fresh |-> TRUE] \in TailTask
    BY <2>1 DEF TailTask, Delays
  <2>. QED
    BY <1>2, <2>2 DEF ScheduleTail, TypeOK
<1>. QED
  BY <1>1, <1>2

LEMMA DeliverType ==
  ASSUME TypeOK, NEW es, IsRegistry(es), NEW r \in Invoices,
         NEW by \in Origins, NEW k \in Streaks, Deliver(es, r, by, k)
  PROVE  IsRegistry(entries') /\ flights' \subseteq Flight
<1>1. IsRegistry(entries')
  BY AttemptType DEF Deliver
<1>2. flights' \subseteq Flight
  BY DEF Deliver, Flight, TypeOK
<1>. QED
  BY <1>1, <1>2

\* The states of a task that does not run, and of a loop about to run.
LEMMA IdleType ==
  /\ 0 \in Streaks /\ NoTail \in TailTask
  /\ NoLoop \in LoopTask /\ [NoLoop EXCEPT !.pc = "sleep"] \in LoopTask
<1>1. 0 \in Streaks /\ 0 \in 0..RetryInterval
  BY RegistryAssumption DEF Streaks
<1>2. NoTail \in TailTask
  BY <1>1 DEF NoTail, TailTask, Delays
<1>3. NoLoop \in LoopTask /\ [NoLoop EXCEPT !.pc = "sleep"] \in LoopTask
  BY <1>1 DEF NoLoop, LoopTask
<1>. QED
  BY <1>1, <1>2, <1>3

\* Every variable keeps its type for ever.
THEOREM TypeCorrect == Spec => []TypeOK
<1>1. Init => TypeOK
  BY RegistryAssumption DEF Init, TypeOK, IsRegistry, NoTail, TailTask,
     Delays, Streaks, NoLoop, LoopTask, MaxAcked, TotalSends
<1>2. TypeOK /\ [Next]_vars => TypeOK'
  <2>. SUFFICES ASSUME TypeOK, [Next]_vars PROVE TypeOK'
    OBVIOUS
  <2>1. ASSUME NEW r \in Invoices, NEW p \in Payers, NEW ttl \in Expiries,
               Issue(r, p, ttl)
        PROVE  TypeOK'
    <3>. DEFINE es == Remembered(entries, r, p, ttl)
    <3>1. IsRegistry(es)
      BY RememberedType, DeliveryAssumption DEF TypeOK
    <3>2. PICK S \in Evictions(es) :
            /\ entries' = Without(es, S)
            /\ requests' = Collected([requests EXCEPT ![r] = "unpaid"], S)
      BY <2>1 DEF Issue
    <3>3. IsRegistry(entries')
      BY <3>1, <3>2, WithoutType
    <3>4. requests' \in [Invoices -> {"none", "unpaid", "paid", "deleted"}]
      BY <3>2 DEF TypeOK, Collected
    <3>. QED
      BY <2>1, <3>3, <3>4 DEF Issue, TypeOK
  <2>2. ASSUME NEW r \in Invoices, Pay(r)
        PROVE  TypeOK'
    <3>1. IsRegistry(entries') /\ flights' \subseteq Flight
      <4>1. CASE r \in DOMAIN entries
        BY <2>2, <4>1, MarkDueType, DeliverType DEF Pay, TypeOK, Origins, Streaks
      <4>2. CASE r \notin DOMAIN entries
        BY <2>2, <4>2 DEF Pay, TypeOK
      <4>. QED
        BY <4>1, <4>2
    <3>. QED
      BY <2>2, <3>1 DEF Pay, TypeOK
  <2>3. ASSUME NEW r \in Invoices, PayUnheard(r)
        PROVE  TypeOK'
    BY <2>3 DEF PayUnheard, TypeOK
  <2>4. ASSUME NEW r \in Invoices, TailFires(r)
        PROVE  TypeOK'
    <3>1. tail[r].streak \in Streaks /\ NoTail \in TailTask
      BY IdleType DEF TypeOK, TailTask
    <3>2. IsRegistry(entries') /\ flights' \subseteq Flight
      BY <2>4, <3>1, DeliverType DEF TailFires, TypeOK, Origins
    <3>. QED
      BY <2>4, <3>1, <3>2 DEF TailFires, TypeOK
  <2>5. ASSUME NEW r \in Invoices, LoopDelivers(r)
        PROVE  TypeOK'
    <3>1. IsRegistry(entries') /\ flights' \subseteq Flight
      BY <2>5, DeliverType DEF LoopDelivers, TypeOK, Origins, Streaks
    <3>. QED
      BY <2>5, <3>1 DEF LoopDelivers, TypeOK, LoopTask
  <2>6. ASSUME NEW f \in Flight, FlightAccepted(f)
        PROVE  TypeOK'
    <3>1. f.rhash \in Invoices /\ 0 \in Streaks
      BY RegistryAssumption DEF Flight, Streaks
    <3>2. NextSendDelay(entries, f.rhash) \in Nat \cup {NoDelay}
      BY <3>1, DelayType DEF TypeOK
    <3>3. receiptTails' \subseteq Invoices /\ tail' \in [Invoices -> TailTask]
      BY <2>6, <3>1, <3>2, ScheduleTailType DEF FlightAccepted
    <3>4. IsRegistry(entries')
      BY <2>6, <3>1, SendType DEF FlightAccepted, TypeOK
    <3>5. acked' \in [Invoices -> 0..MaxAcked]
      BY <2>6, <3>1, RegistryAssumption
         DEF FlightAccepted, TypeOK, Grow, MaxAcked, TotalSends
    <3>. QED
      BY <2>6, <3>3, <3>4, <3>5 DEF FlightAccepted, LoopAfter, TypeOK, LoopTask
  <2>7. ASSUME NEW f \in Flight, FlightFailed(f)
        PROVE  TypeOK'
    <3>. DEFINE k == IF f.streak < Len(FailRetryBackoff) THEN f.streak + 1 ELSE f.streak
    <3>1. f.rhash \in Invoices /\ k \in Streaks /\ f.streak + 1 \in Nat \ {0}
      BY RegistryAssumption DEF Flight, Streaks
    <3>2. FailRetryDelay(entries, f.rhash, f.streak + 1) \in Nat \cup {NoDelay}
      BY <3>1, DelayType DEF TypeOK
    <3>3. ScheduleTail(f.rhash, f.by, FailRetryDelay(entries, f.rhash, f.streak + 1), k)
      BY <2>7 DEF FlightFailed
    <3>4. receiptTails' \subseteq Invoices /\ tail' \in [Invoices -> TailTask]
      BY <3>1, <3>2, <3>3, ScheduleTailType
    <3>. QED
      BY <2>7, <3>4 DEF FlightFailed, LoopAfter, TypeOK, LoopTask
  <2>8. CASE LoopPass
    <3>1. IsRegistry(entries')
      BY <2>8, WithoutType DEF LoopPass, Swept, TypeOK
    <3>2. DueTargets(entries) \subseteq Invoices
      BY DEF DueTargets, Swept, Without, TypeOK, IsRegistry
    <3>3. requests' \in [Invoices -> {"none", "unpaid", "paid", "deleted"}]
      BY <2>8 DEF LoopPass, Collected, TypeOK
    <3>. QED
      BY <2>8, <3>1, <3>2, <3>3, RegistryAssumption DEF LoopPass, TypeOK, LoopTask
  <2>9. CASE LoopSleeps
    <3>1. RetryInterval \in 0..RetryInterval
      BY RegistryAssumption
    <3>2. loop' \in LoopTask
      BY <2>9, <3>1 DEF LoopSleeps, TypeOK, LoopTask
    <3>. QED
      BY <2>9, <3>2 DEF LoopSleeps, TypeOK
  <2>10. CASE GroupStarts \/ ManagerBuilt \/ BetweenGroups \/ Start
    <3>2. loop' \in LoopTask
      BY <2>10, IdleType DEF GroupStarts, ManagerBuilt, BetweenGroups, Start, TypeOK
    <3>3. listener' \in {"off", "down", "rebuilding", "up", "closing", "backoff"}
      BY <2>10 DEF GroupStarts, ManagerBuilt, BetweenGroups, Start
    <3>4. UNCHANGED <<entries, requests, receiptTails, tail, flights, acked>>
      BY <2>10 DEF GroupStarts, ManagerBuilt, BetweenGroups, Start
    <3>. QED
      BY <3>2, <3>3, <3>4 DEF TypeOK
  <2>11. CASE GroupEnds \/ Stop \/ Crash
    <3>1. NoTail \in TailTask /\ NoLoop \in LoopTask
      BY IdleType
    <3>2. flights' \subseteq Flight
      <4>1. ASSUME NEW f \in Flight
            PROVE  [f EXCEPT !.by = "orphan"] \in Flight
        BY DEF Flight, Origins
      <4>. QED
        BY <2>11, <4>1 DEF GroupEnds, CancelGroup, Stop, Crash, TypeOK
    <3>3. tail' \in [Invoices -> TailTask] /\ loop' \in LoopTask
      BY <2>11, <3>1 DEF GroupEnds, CancelGroup, Stop, Crash
    <3>4. receiptTails' \subseteq Invoices /\ UNCHANGED <<entries, requests, acked>>
      BY <2>11 DEF GroupEnds, Stop, Crash, TypeOK
    <3>5. listener' \in {"off", "down", "rebuilding", "up", "closing", "backoff"}
      BY <2>11 DEF GroupEnds, Stop, Crash
    <3>. QED
      BY <3>2, <3>3, <3>4, <3>5 DEF TypeOK
  <2>12. CASE Tick
    <3>1. IsRegistry(entries')
      BY <2>12, AgedType DEF Tick, TypeOK
    <3>2. tail' \in [Invoices -> TailTask]
      <4>1. ASSUME NEW t \in TailTask
            PROVE  [t EXCEPT !.left = Shrink(t.left), !.fresh = FALSE] \in TailTask
        <5>1. Shrink(t.left) \in Delays
          BY DEF TailTask, Delays, Shrink
        <5>. QED
          BY <5>1 DEF TailTask
      <4>. QED
        BY <2>12, <4>1 DEF Tick, TypeOK
    <3>3. Shrink(loop.left) \in 0..RetryInterval
      BY RegistryAssumption DEF TypeOK, LoopTask, Shrink
    <3>. QED
      BY <2>12, <3>1, <3>2, <3>3 DEF Tick, TypeOK, LoopTask
  <2>13. CASE UNCHANGED vars
    BY <2>13 DEF vars, TypeOK
  <2>. QED
    BY <2>1, <2>2, <2>3, <2>4, <2>5, <2>6, <2>7, <2>8, <2>9, <2>10, <2>11, <2>12,
       <2>13 DEF Next
<1>. QED
  BY <1>1, <1>2, PTL DEF Spec

-----------------------------------------------------------------------------
(* The inductive invariant.                                                *)

\* r was paid, and if the registry still knows it, as owed.
PaidKnown(r) == requests[r] = "paid" /\ (r \in DOMAIN entries => entries[r].due)

FlightsKnown == \A f \in flights : PaidKnown(f.rhash)
QueueKnown   == \A r \in loop.queue : PaidKnown(r)
IssuedKnown  == \A r \in DOMAIN entries : requests[r] # "none"

IInv == /\ NoOrphanRequest
        /\ OwedIsPaid
        /\ FlightsKnown
        /\ QueueKnown
        /\ IssuedKnown

\* Publishes and the loop's list only ever concern paid invoices, no unpaid
\* request is forgotten, and an entry's sends never exceed the verdicts.
THEOREM InductiveInvariant == Spec => []IInv
<1>1. Init => IInv
  BY DEF Init, IInv, NoOrphanRequest, OwedIsPaid, FlightsKnown, QueueKnown,
         IssuedKnown, NoLoop
<1>2. TypeOK /\ IInv /\ [Next]_vars => IInv'
  <2>. SUFFICES ASSUME TypeOK, IInv, [Next]_vars PROVE IInv'
    OBVIOUS
  <2>. USE DEF IInv, PaidKnown
  <2>1. ASSUME NEW r \in Invoices, NEW p \in Payers, NEW ttl \in Expiries,
               Issue(r, p, ttl)
        PROVE  IInv'
    <3>. DEFINE es == Remembered(entries, r, p, ttl)
    <3>1. PICK S \in Evictions(es) :
            /\ entries' = Without(es, S)
            /\ requests' = Collected([requests EXCEPT ![r] = "unpaid"], S)
      BY <2>1 DEF Issue
    <3>2. /\ IsRegistry(es) /\ DOMAIN es = DOMAIN entries \cup {r}
          /\ r \in UnOwed(es)
      BY RememberedType, DeliveryAssumption, ZenonT(30) DEF TypeOK
    <3>3. S \subseteq UnOwed(es)
      BY DEF Evictions
    <3>4. /\ requests[r] = "none" /\ r \notin DOMAIN entries
          /\ UNCHANGED <<flights, loop, acked>>
      BY <2>1 DEF Issue, IssuedKnown
    <3>5. es[r].sends = 0 /\ \A x \in DOMAIN entries : es[x] = entries[x]
      BY <3>2, <3>4 DEF Remembered, FreshEntry
    <3>6. \A x \in DOMAIN entries' : entries'[x] = es[x] /\ x \in DOMAIN es /\ x \notin S
      BY <3>1 DEF Without
    <3>7. \A x \in DOMAIN es \ S : x \in DOMAIN entries'
      BY <3>1 DEF Without
    <3>8. \A x \in Invoices : requests'[x] =
             IF x = r THEN IF x \in S THEN "deleted" ELSE "unpaid"
             ELSE IF x \in S /\ requests[x] = "unpaid" THEN "deleted" ELSE requests[x]
      BY <3>1 DEF Collected, TypeOK
    <3>9. NoOrphanRequest'
      BY <3>2, <3>4, <3>5, <3>6, <3>7, <3>8 DEF NoOrphanRequest, UnOwed
    <3>10. OwedIsPaid'
      BY <3>2, <3>4, <3>5, <3>6, <3>8 DEF OwedIsPaid, UnOwed, TypeOK, IsRegistry
    <3>11. FlightsKnown' /\ QueueKnown'
      BY <3>2, <3>4, <3>5, <3>6, <3>8
         DEF FlightsKnown, QueueKnown, TypeOK, LoopTask, Flight
    <3>12. IssuedKnown'
      BY <3>2, <3>4, <3>5, <3>6, <3>8 DEF IssuedKnown, TypeOK, IsRegistry
    <3>. QED
      BY <3>9, <3>10, <3>11, <3>12
  <2>2. ASSUME NEW r \in Invoices, Pay(r)
        PROVE  IInv'
    <3>1. /\ requests' = [requests EXCEPT ![r] = "paid"]
          /\ requests[r] \in {"unpaid", "paid"}
          /\ UNCHANGED <<loop, acked>>
      BY <2>2 DEF Pay
    <3>2. /\ DOMAIN entries' = DOMAIN entries
          /\ \A x \in DOMAIN entries : entries'[x].sends = entries[x].sends
          /\ \A x \in DOMAIN entries \ {r} : entries'[x].due = entries[x].due
          /\ r \in DOMAIN entries => entries'[r].due
          /\ flights' \subseteq flights \cup {f \in Flight : f.rhash = r}
      <4>1. CASE r \in DOMAIN entries
        <5>1. Deliver(MarkDue(entries, r), r, "event", 0)
          BY <2>2, <4>1 DEF Pay
        <5>2. IsRegistry(MarkDue(entries, r)) /\ DOMAIN MarkDue(entries, r) = DOMAIN entries
          BY MarkDueType DEF TypeOK
        <5>3. 0 \in Streaks
          BY RegistryAssumption DEF Streaks
        <5>4. flights' \subseteq flights \cup {f \in Flight : f.rhash = r}
          BY <5>1, <5>3 DEF Deliver, Flight, Origins
        <5>. DEFINE marked == MarkDue(entries, r)
        <5>5. /\ DOMAIN marked = DOMAIN entries /\ marked[r].due
              /\ \A x \in DOMAIN entries : marked[x].sends = entries[x].sends
              /\ \A x \in DOMAIN entries \ {r} : marked[x].due = entries[x].due
          BY <4>1, <5>2, MarkDueKeeps DEF TypeOK
        <5>6. entries' = RecordAttempt(marked, r)
          BY <5>1 DEF Deliver
        <5>. HIDE DEF marked
        <5>7. IsRegistry(marked)
          BY <5>2 DEF marked
        <5>8. /\ DOMAIN entries' = DOMAIN marked
              /\ \A x \in DOMAIN marked : /\ entries'[x].due = marked[x].due
                                         /\ entries'[x].sends = marked[x].sends
          BY <5>6, <5>7, AttemptType, AttemptKeeps
        <5>. QED
          BY <4>1, <5>4, <5>5, <5>8
      <4>2. CASE r \notin DOMAIN entries
        BY <2>2, <4>2 DEF Pay
      <4>. QED
        BY <4>1, <4>2
    <3>3. NoOrphanRequest' /\ OwedIsPaid' /\ IssuedKnown'
      BY <3>1, <3>2 DEF NoOrphanRequest, OwedIsPaid, IssuedKnown, UnOwed, TypeOK, IsRegistry
    <3>4. FlightsKnown' /\ QueueKnown'
      BY <3>1, <3>2 DEF FlightsKnown, QueueKnown, TypeOK, Flight, LoopTask
    <3>. QED
      BY <3>3, <3>4
  <2>3. ASSUME NEW r \in Invoices, PayUnheard(r)
        PROVE  IInv'
    BY <2>3 DEF PayUnheard, NoOrphanRequest, OwedIsPaid, FlightsKnown, QueueKnown,
                IssuedKnown, UnOwed, TypeOK, IsRegistry, Flight, LoopTask
  <2>4. ASSUME NEW r \in Invoices, TailFires(r)
        PROVE  IInv'
    <3>1. /\ DOMAIN entries' = DOMAIN entries
          /\ \A x \in DOMAIN entries : /\ entries'[x].sends = entries[x].sends
                                       /\ entries'[x].due = entries[x].due
          /\ \A f \in flights' : f \in flights \/ (f.rhash = r /\ IsOwed(entries, r))
      BY <2>4, AttemptType, AttemptKeeps DEF TailFires, Deliver, TypeOK
    <3>2. UNCHANGED <<requests, loop, acked>>
      BY <2>4 DEF TailFires
    <3>. QED
      BY <3>1, <3>2 DEF NoOrphanRequest, OwedIsPaid, FlightsKnown, QueueKnown,
         IssuedKnown, UnOwed, IsOwed
  <2>5. ASSUME NEW r \in Invoices, LoopDelivers(r)
        PROVE  IInv'
    <3>1. /\ DOMAIN entries' = DOMAIN entries
          /\ \A x \in DOMAIN entries : /\ entries'[x].sends = entries[x].sends
                                       /\ entries'[x].due = entries[x].due
          /\ \A f \in flights' : f \in flights \/ (f.rhash = r /\ r \in loop.queue)
      BY <2>5, AttemptType, AttemptKeeps DEF LoopDelivers, Deliver, TypeOK
    <3>2. UNCHANGED <<requests, acked>> /\ loop'.queue \subseteq loop.queue
      BY <2>5 DEF LoopDelivers, TypeOK, LoopTask
    <3>. QED
      BY <3>1, <3>2 DEF NoOrphanRequest, OwedIsPaid, FlightsKnown, QueueKnown,
         IssuedKnown, UnOwed
  <2>6. ASSUME NEW f \in Flight, FlightAccepted(f)
        PROVE  IInv'
    <3>. DEFINE r == f.rhash
    <3>1. /\ r \in Invoices /\ PaidKnown(r)
          /\ flights' \subseteq flights /\ requests' = requests
          /\ loop'.queue = loop.queue
          /\ entries' = RecordSend(entries, r)
          /\ acked' = [acked EXCEPT ![r] = Grow(acked[r], MaxAcked)]
      BY <2>6 DEF FlightAccepted, FlightsKnown, LoopAfter, TypeOK, LoopTask, Flight
    <3>2. /\ DOMAIN entries' \subseteq DOMAIN entries
          /\ DOMAIN entries \ {r} \subseteq DOMAIN entries'
          /\ \A x \in DOMAIN entries' \ {r} : entries'[x] = entries[x]
          /\ r \in DOMAIN entries' => /\ entries'[r].due = entries[r].due
                                      /\ entries'[r].sends = entries[r].sends + 1
                                      /\ entries'[r].sends <= Len(ResendOffsets)
      <4>1. CASE r \in DOMAIN entries
        <5>1. r \in DOMAIN entries' => entries'[r].sends <= Len(ResendOffsets)
          <6>1. IsRegistry(entries')
            BY <3>1, SendType DEF TypeOK
          <6>. QED
            BY <6>1, RegistryAssumption DEF IsRegistry, Entry
        <5>2. IsRegistry(entries)
          BY DEF TypeOK
        <5>3. /\ DOMAIN entries' \subseteq DOMAIN entries
              /\ DOMAIN entries \ {r} \subseteq DOMAIN entries'
              /\ \A x \in DOMAIN entries' \ {r} : entries'[x] = entries[x]
              /\ r \in DOMAIN entries' => /\ entries'[r].sends = entries[r].sends + 1
                                          /\ entries'[r].due = entries[r].due
          BY <3>1, <4>1, <5>2, SendKeeps
        <5>. QED
          BY <5>1, <5>3
      <4>2. CASE r \notin DOMAIN entries
        BY <3>1, <4>2 DEF RecordSend
      <4>. QED
        BY <4>1, <4>2
    <3>3. NoOrphanRequest' /\ IssuedKnown' /\ FlightsKnown' /\ QueueKnown'
      BY <3>1, <3>2 DEF NoOrphanRequest, IssuedKnown, FlightsKnown, QueueKnown,
         UnOwed, TypeOK, IsRegistry
    <3>4. OwedIsPaid'
      <4>1. acked'[r] >= acked[r] /\ (acked'[r] = acked[r] + 1 \/ acked'[r] = MaxAcked)
        BY <3>1 DEF TypeOK, Grow, MaxAcked, TotalSends
      <4>2. r \in DOMAIN entries' => entries'[r].sends <= acked'[r]
        BY <3>1, <3>2, <4>1, RegistryAssumption, SMTT(30)
           DEF OwedIsPaid, TypeOK, MaxAcked, TotalSends, IsRegistry, Entry
      <4>3. \A x \in Invoices \ {r} : acked'[x] = acked[x]
        BY <3>1 DEF TypeOK
      <4>. QED
        BY <3>1, <3>2, <4>2, <4>3 DEF OwedIsPaid, TypeOK, IsRegistry
    <3>. QED
      BY <3>3, <3>4
  <2>7. ASSUME NEW f \in Flight, FlightFailed(f)
        PROVE  IInv'
    <3>1. /\ UNCHANGED <<entries, requests, acked>> /\ flights' \subseteq flights
          /\ loop'.queue = loop.queue
      BY <2>7 DEF FlightFailed, LoopAfter, TypeOK, LoopTask
    <3>. QED
      BY <3>1 DEF NoOrphanRequest, OwedIsPaid, FlightsKnown, QueueKnown, IssuedKnown, UnOwed
  <2>8. CASE LoopPass
    <3>1. /\ entries' = Swept(entries) /\ UNCHANGED <<flights, acked>>
          /\ requests' = Collected(requests, ExpiredUnpaid(entries))
          /\ loop'.queue = DueTargets(entries)
      BY <2>8 DEF LoopPass
    <3>2. /\ \A x \in DOMAIN entries' : x \in DOMAIN entries /\ entries'[x] = entries[x]
          /\ \A x \in UnOwed(entries) \ ExpiredUnpaid(entries) : x \in DOMAIN entries'
          /\ \A x \in ExpiredUnpaid(entries) : x \notin DOMAIN entries'
      BY <3>1 DEF Swept, Without, UnOwed, Abandoned
    <3>3. \A x \in Invoices :
            requests'[x] = IF x \in ExpiredUnpaid(entries) /\ requests[x] = "unpaid"
                           THEN "deleted" ELSE requests[x]
      BY <3>1 DEF Collected
    <3>4. \A x \in DueTargets(entries) : x \in DOMAIN entries /\ entries[x].due
      BY DEF DueTargets, Swept, Without
    <3>5. NoOrphanRequest'
      BY <3>2, <3>3 DEF NoOrphanRequest, UnOwed
    <3>6. OwedIsPaid' /\ IssuedKnown'
      BY <3>1, <3>2, <3>3 DEF OwedIsPaid, IssuedKnown, TypeOK, IsRegistry
    <3>7. FlightsKnown' /\ QueueKnown'
      BY <3>1, <3>2, <3>3, <3>4
         DEF FlightsKnown, QueueKnown, OwedIsPaid, TypeOK, IsRegistry, Flight
    <3>. QED
      BY <3>5, <3>6, <3>7
  <2>9. CASE LoopSleeps \/ GroupStarts \/ ManagerBuilt \/ BetweenGroups \/ Start
    <3>1. /\ UNCHANGED <<entries, requests, acked, flights>>
          /\ loop'.queue = loop.queue \/ loop'.queue = {}
      BY <2>9 DEF LoopSleeps, GroupStarts, ManagerBuilt, BetweenGroups, Start, NoLoop,
         TypeOK, LoopTask
    <3>. QED
      BY <3>1 DEF NoOrphanRequest, OwedIsPaid, FlightsKnown, QueueKnown, IssuedKnown, UnOwed
  <2>10. CASE GroupEnds \/ Stop \/ Crash
    <3>1. /\ UNCHANGED <<entries, requests, acked>> /\ loop'.queue = {}
          /\ \A f \in flights' : \E g \in flights : f.rhash = g.rhash
      BY <2>10 DEF GroupEnds, CancelGroup, Stop, Crash, NoLoop, TypeOK, Flight
    <3>. QED
      BY <3>1 DEF NoOrphanRequest, OwedIsPaid, FlightsKnown, QueueKnown, IssuedKnown, UnOwed
  <2>11. CASE Tick
    <3>1. /\ DOMAIN entries' = DOMAIN entries
          /\ \A x \in DOMAIN entries : /\ entries'[x].sends = entries[x].sends
                                       /\ entries'[x].due = entries[x].due
      BY <2>11, AgedType, AgedKeeps DEF Tick, TypeOK
    <3>2. UNCHANGED <<requests, flights, acked>> /\ loop'.queue = loop.queue
      BY <2>11 DEF Tick, TypeOK, LoopTask
    <3>. QED
      BY <3>1, <3>2 DEF NoOrphanRequest, OwedIsPaid, FlightsKnown, QueueKnown,
         IssuedKnown, UnOwed
  <2>12. CASE UNCHANGED vars
    BY <2>12 DEF vars, NoOrphanRequest, OwedIsPaid, FlightsKnown, QueueKnown,
                 IssuedKnown, UnOwed
  <2>. QED
    BY <2>1, <2>2, <2>3, <2>4, <2>5, <2>6, <2>7, <2>8, <2>9, <2>10, <2>11, <2>12
       DEF Next
<1>. QED
  BY <1>1, <1>2, TypeCorrect, PTL DEF Spec

\* No receipt is published for an invoice that was not paid.
THEOREM FalseReceiptNever == Spec => []NoFalseReceipt
<1>1. IInv => NoFalseReceipt
  BY DEF IInv, FlightsKnown, PaidKnown, NoFalseReceipt
<1>. QED
  BY <1>1, InductiveInvariant, PTL

\* Every unpaid wallet request stays known to the registry.
THEOREM OrphansNever == Spec => []NoOrphanRequest
<1>1. IInv => NoOrphanRequest
  BY DEF IInv
<1>. QED
  BY <1>1, InductiveInvariant, PTL

\* Only paid invoices are owed, and an entry's sends were all acknowledged.
THEOREM OwedArePaid == Spec => []OwedIsPaid
<1>1. IInv => OwedIsPaid
  BY DEF IInv
<1>. QED
  BY <1>1, InductiveInvariant, PTL
-----------------------------------------------------------------------------
(* The cap.                                                                *)

\* Issuing an invoice is the only step that adds an entry.
LEMMA OnlyIssueAdds ==
  ASSUME TypeOK, [Next]_vars,
         ~ \E r \in Invoices, p \in Payers, ttl \in Expiries : Issue(r, p, ttl)
  PROVE  DOMAIN entries' \subseteq DOMAIN entries
<1>0. IsRegistry(entries)
  BY DEF TypeOK
<1>1. ASSUME NEW r \in Invoices, Pay(r) \/ PayUnheard(r) \/ TailFires(r) \/ LoopDelivers(r)
      PROVE  DOMAIN entries' \subseteq DOMAIN entries
  <2>1. entries' = entries \/ entries' = RecordAttempt(entries, r)
        \/ entries' = RecordAttempt(MarkDue(entries, r), r)
    BY <1>1 DEF Pay, PayUnheard, TailFires, LoopDelivers, Deliver
  <2>. QED
    BY <1>0, <2>1, AttemptType, MarkDueType
<1>2. ASSUME NEW f \in Flight, FlightAccepted(f) \/ FlightFailed(f)
      PROVE  DOMAIN entries' \subseteq DOMAIN entries
  <2>1. entries' = entries \/ entries' = RecordSend(entries, f.rhash)
    BY <1>2 DEF FlightAccepted, FlightFailed
  <2>2. CASE f.rhash \in DOMAIN entries
    BY <1>0, <2>1, <2>2, SendKeeps
  <2>3. CASE f.rhash \notin DOMAIN entries
    BY <2>1, <2>3 DEF RecordSend
  <2>. QED
    BY <2>2, <2>3
<1>3. CASE LoopPass \/ Tick
  BY <1>0, <1>3, AgedType DEF LoopPass, Tick, Swept, Without
<1>4. CASE LoopSleeps \/ GroupStarts \/ ManagerBuilt \/ GroupEnds \/ BetweenGroups
           \/ Stop \/ Crash \/ Start \/ UNCHANGED vars
  BY <1>4 DEF LoopSleeps, GroupStarts, ManagerBuilt, GroupEnds, BetweenGroups,
              Stop, Crash, Start, vars
<1>. QED
  BY <1>1, <1>2, <1>3, <1>4 DEF Next

\* The registry never outgrows its cap, although an owed entry is never evicted:
\* the invoice just remembered is un-owed, so there is always an entry to drop.
THEOREM CapIsHeld == Spec => []CapHeld
<1>1. Init => CapHeld
  BY FS_EmptySet, RegistryAssumption DEF Init, CapHeld
<1>2. TypeOK /\ CapHeld /\ [Next]_vars => CapHeld'
  <2>. SUFFICES ASSUME TypeOK, CapHeld, [Next]_vars PROVE CapHeld'
    OBVIOUS
  <2>1. /\ IsRegistry(entries) /\ IsFiniteSet(DOMAIN entries)
        /\ Cardinality(DOMAIN entries) \in Nat /\ MaxPending \in Nat
    BY RegistryAssumption, FS_Subset, FS_CardinalityType DEF TypeOK, IsRegistry
  <2>2. ASSUME NEW r \in Invoices, NEW p \in Payers, NEW ttl \in Expiries,
               Issue(r, p, ttl)
        PROVE  CapHeld'
    <3>. DEFINE es == Remembered(entries, r, p, ttl)
    <3>1. PICK S \in Evictions(es) : entries' = Without(es, S)
      BY <2>2 DEF Issue
    <3>2. /\ IsRegistry(es) /\ DOMAIN es = DOMAIN entries \cup {r}
          /\ r \in UnOwed(es)
      BY <2>1, RememberedType, DeliveryAssumption
    <3>3. Cardinality(DOMAIN es) <= MaxPending + 1
      <4>1. \/ Cardinality(DOMAIN es) = Cardinality(DOMAIN entries)
            \/ Cardinality(DOMAIN es) = Cardinality(DOMAIN entries) + 1
        BY <2>1, <3>2, FS_AddElement
      <4>. QED
        BY <2>1, <4>1 DEF CapHeld
    <3>4. UnOwed(es) # {}
      BY <3>2
    <3>. HIDE DEF es
    <3>. QED
      BY <3>1, <3>2, <3>3, <3>4, EvictionsMakeRoom DEF CapHeld
  <2>3. CASE ~ \E r \in Invoices, p \in Payers, ttl \in Expiries : Issue(r, p, ttl)
    <3>1. DOMAIN entries' \subseteq DOMAIN entries
      BY <2>3, OnlyIssueAdds
    <3>2. /\ Cardinality(DOMAIN entries') <= Cardinality(DOMAIN entries)
          /\ Cardinality(DOMAIN entries') \in Nat
      BY <2>1, <3>1, FS_Subset, FS_CardinalityType
    <3>. QED
      BY <2>1, <3>2 DEF CapHeld
  <2>. QED
    BY <2>2, <2>3
<1>. QED
  BY <1>1, <1>2, TypeCorrect, PTL DEF Spec

-----------------------------------------------------------------------------
(* The fast-retry window.                                                  *)

\* Whenever a tail goes to sleep, a publish of its receipt has just ended.
SleepsAnew(r) == ~tail[r].sleeping /\ tail'[r].sleeping

LEMMA TailsStartAtVerdicts ==
  ASSUME TypeOK, [Next]_vars, NEW r \in Invoices, SleepsAnew(r)
  PROVE  \E f \in Flight : f.rhash = r /\ (FlightAccepted(f) \/ FlightFailed(f))
<1>1. ASSUME NEW f \in Flight, FlightAccepted(f) \/ FlightFailed(f)
      PROVE  f.rhash = r
  <2>1. \A x \in Invoices \ {f.rhash} : tail'[x] = tail[x]
    BY <1>1 DEF FlightAccepted, FlightFailed, ScheduleTail, TypeOK
  <2>. QED
    BY <2>1 DEF SleepsAnew
<1>2. ASSUME NEW x \in Invoices, TailFires(x)
      PROVE  FALSE
  BY <1>2 DEF TailFires, SleepsAnew, TypeOK, NoTail
<1>3. CASE GroupEnds \/ Stop \/ Crash
  BY <1>3 DEF GroupEnds, CancelGroup, Stop, Crash, SleepsAnew, NoTail
<1>4. CASE Tick
  <2>1. tail[r] \in TailTask
    BY DEF TypeOK
  <2>2. tail'[r] = [tail[r] EXCEPT !.left = Shrink(@), !.fresh = FALSE]
    BY <1>4 DEF Tick
  <2>. QED
    BY <2>1, <2>2 DEF SleepsAnew, TailTask
<1>5. CASE tail' = tail
  BY <1>5 DEF SleepsAnew
<1>6. ASSUME NEW x \in Invoices, Pay(x) \/ PayUnheard(x) \/ LoopDelivers(x)
      PROVE  tail' = tail
  BY <1>6 DEF Pay, PayUnheard, LoopDelivers
<1>7. ASSUME NEW x \in Invoices, NEW p \in Payers, NEW ttl \in Expiries, Issue(x, p, ttl)
      PROVE  tail' = tail
  BY <1>7 DEF Issue
<1>8. CASE LoopPass \/ LoopSleeps \/ GroupStarts \/ ManagerBuilt \/ BetweenGroups
           \/ Start \/ UNCHANGED vars
  BY <1>5, <1>8 DEF LoopPass, LoopSleeps, GroupStarts, ManagerBuilt, BetweenGroups,
                    Start, vars
<1>. QED
  BY <1>1, <1>2, <1>3, <1>4, <1>5, <1>6, <1>7, <1>8 DEF Next

\* Once the fast-retry window of an owed receipt has closed, no failed publish
\* starts a tail for it: only an accepted one does, for the next offset.
THEOREM HammeringNever == Spec => NoHammering
<1>. DEFINE Closed(r) == IsOwed(entries, r) /\ Anchor(entries[r]) >= FastRetryWindow
            Calm == \A r \in Invoices :
                      (/\ IsOwed(entries, r) /\ Anchor(entries[r]) >= FastRetryWindow
                       /\ ~tail[r].sleeping /\ tail'[r].sleeping)
                      => acked'[r] # acked[r] \/ acked[r] = MaxAcked
<1>1. TypeOK /\ [Next]_vars => Calm
  <2>. SUFFICES ASSUME TypeOK, [Next]_vars, NEW r \in Invoices, Closed(r),
                       SleepsAnew(r)
                PROVE  acked'[r] # acked[r] \/ acked[r] = MaxAcked
    BY DEF SleepsAnew
  <2>1. PICK f \in Flight : f.rhash = r /\ (FlightAccepted(f) \/ FlightFailed(f))
    BY TailsStartAtVerdicts
  <2>2. CASE FlightAccepted(f)
    <3>1. acked'[r] = Grow(acked[r], MaxAcked) /\ acked[r] \in 0..MaxAcked
      BY <2>1, <2>2 DEF FlightAccepted, TypeOK
    <3>2. MaxAcked \in Nat
      BY RegistryAssumption DEF MaxAcked, TotalSends
    <3>. QED
      BY <3>1, <3>2 DEF Grow
  <2>3. CASE FlightFailed(f)
    <3>1. entries[r] \in Entry
      BY DEF TypeOK, IsRegistry, IsOwed
    <3>2. ~(Anchor(entries[r]) < FastRetryWindow)
      BY <3>1, RegistryAssumption DEF Anchor, Entry
    <3>3. FailRetryDelay(entries, r, f.streak + 1) = NoDelay
      BY <3>2 DEF FailRetryDelay
    <3>4. tail' = tail
      BY <2>1, <2>3, <3>3 DEF FlightFailed, ScheduleTail
    <3>. QED
      BY <3>4 DEF SleepsAnew
  <2>. QED
    BY <2>1, <2>2, <2>3
<1>. QED
  BY <1>1, TypeCorrect, PTL DEF Spec, NoHammering
-----------------------------------------------------------------------------
(* The refinement: every step keeps the promise of every invoice.          *)

\* The mapping, on any registry and wallet.
StageIn(es, reqs, r) == IF IsOwed(es, r) THEN "owed"
                        ELSE IF r \in UnOwed(es) THEN "awaiting"
                        ELSE IF reqs[r] = "none" THEN "idle" ELSE "closed"
LateIn(es, r) == IsOwed(es, r) /\ es[r].dueAge = RetryMax

\* What one step may do to one invoice, on the mapping.
PromiseStep(r) ==
  LET old == StageIn(entries, requests, r)
      new == StageIn(entries', requests', r) IN
  /\ \/ new = old
     \/ old = "idle" /\ new \in {"awaiting", "closed"}
     \/ old = "awaiting" /\ new \in {"owed", "closed"}
     \/ old = "owed" /\ new = "closed" /\ acked'[r] >= TotalSends
     \/ old = "owed" /\ new = "closed" /\ LateIn(entries, r)
  /\ \/ acked'[r] = acked[r]
     \/ acked'[r] = acked[r] + 1 /\ old \in {"owed", "closed"}
  /\ (LateIn(entries', r) <=> LateIn(entries, r)) \/ old = "owed"

\* The CASE of the mapping has one branch that holds.
LEMMA StageValue ==
  ASSUME NEW r
  PROVE  /\ Stage(r) = StageIn(entries, requests, r)
         /\ Stage(r)' = StageIn(entries', requests', r)
<1>1. ASSUME NEW es, NEW reqs
      PROVE  (CASE IsOwed(es, r) -> "owed"
                [] r \in UnOwed(es) -> "awaiting"
                [] r \notin DOMAIN es /\ reqs[r] = "none" -> "idle"
                [] OTHER -> "closed") = StageIn(es, reqs, r)
  <2>1. CASE IsOwed(es, r)
    <3>1. r \notin UnOwed(es) /\ r \in DOMAIN es
      BY <2>1 DEF IsOwed, UnOwed
    <3>. QED
      BY <2>1, <3>1 DEF StageIn
  <2>2. CASE r \in UnOwed(es)
    <3>1. ~IsOwed(es, r) /\ r \in DOMAIN es
      BY <2>2 DEF IsOwed, UnOwed
    <3>. QED
      BY <2>2, <3>1 DEF StageIn
  <2>3. CASE ~IsOwed(es, r) /\ r \notin UnOwed(es)
    <3>1. r \notin DOMAIN es
      BY <2>3 DEF IsOwed, UnOwed
    <3>. QED
      BY <2>3, <3>1 DEF StageIn
  <2>. QED
    BY <2>1, <2>2, <2>3
<1>2. Stage(r) = StageIn(entries, requests, r)
  BY <1>1 DEF Stage, Unissued
<1>3. Stage(r)' = StageIn(entries', requests', r)
  BY <1>1 DEF Stage, Unissued
<1>. QED
  BY <1>2, <1>3

\* Steps that keep every invoice's promise are steps of ReceiptPromise.
LEMMA PromiseMoves ==
  ASSUME \A r \in Invoices : PromiseStep(r)
  PROVE  Promised!Move
<1>. SUFFICES ASSUME NEW r \in Invoices
              PROVE  /\ \/ Promised!Unmoved(r) \/ Promised!Promise(r) \/ Promised!Owe(r)
                        \/ Promised!Lapse(r) \/ Promised!Serve(r) \/ Promised!Abandon(r)
                     /\ Promised!Acknowledge(r) /\ Promised!GrowLate(r)
  BY DEF Promised!Move
<1>. DEFINE old == StageIn(entries, requests, r)
            new == StageIn(entries', requests', r)
            stage == [x \in Invoices |-> Stage(x)]
            late == [x \in Invoices |-> IsOwed(entries, x) /\ entries[x].dueAge = RetryMax]
<1>1. stage[r] = old /\ stage'[r] = new
  BY StageValue
<1>2. (late[r] <=> LateIn(entries, r)) /\ (late'[r] <=> LateIn(entries', r))
  BY DEF LateIn
<1>3. PromiseStep(r)
  OBVIOUS
<1>. HIDE DEF old, new
<1>4. \/ Promised!Unmoved(r) \/ Promised!Promise(r) \/ Promised!Owe(r)
      \/ Promised!Lapse(r) \/ Promised!Serve(r) \/ Promised!Abandon(r)
  BY <1>1, <1>2, <1>3 DEF PromiseStep, old, new, Promised!Unmoved, Promised!Promise,
     Promised!Owe, Promised!Lapse, Promised!Serve, Promised!Abandon
<1>5. Promised!Acknowledge(r)
  BY <1>1, <1>3 DEF PromiseStep, old, new, Promised!Acknowledge
<1>6. Promised!GrowLate(r)
  BY <1>1, <1>2, <1>3 DEF PromiseStep, old, new, Promised!GrowLate
<1>. QED
  BY <1>4, <1>5, <1>6

\* An invoice whose entry keeps its flags, or stays unknown, keeps its promise.
Untouched(r) ==
  /\ r \in DOMAIN entries' <=> r \in DOMAIN entries
  /\ r \in DOMAIN entries => /\ entries'[r].due = entries[r].due
                             /\ entries'[r].dueAge = entries[r].dueAge
  /\ requests'[r] = "none" <=> requests[r] = "none"

LEMMA UntouchedKeeps ==
  ASSUME NEW r, Untouched(r),
         \/ acked'[r] = acked[r]
         \/ acked'[r] = acked[r] + 1 /\ StageIn(entries, requests, r) \in {"owed", "closed"}
  PROVE  PromiseStep(r)
  BY DEF Untouched, PromiseStep, StageIn, LateIn, IsOwed, UnOwed
\* A new invoice is promised a receipt, or evicted at once; those evicted for it
\* lapse, and all were un-owed.
LEMMA IssuePromises ==
  ASSUME TypeOK, IInv, NEW r \in Invoices, NEW p \in Payers, NEW ttl \in Expiries,
         Issue(r, p, ttl), NEW x \in Invoices
  PROVE  PromiseStep(x)
<1>. DEFINE es == Remembered(entries, r, p, ttl)
<1>1. PICK S \in Evictions(es) :
        /\ entries' = Without(es, S)
        /\ requests' = Collected([requests EXCEPT ![r] = "unpaid"], S)
  BY DEF Issue
<1>2. /\ requests[r] = "none" /\ r \notin DOMAIN entries /\ acked' = acked
  BY DEF Issue, IInv, IssuedKnown
<1>3. /\ DOMAIN es = DOMAIN entries \cup {r} /\ r \in UnOwed(es)
      /\ \A y \in DOMAIN entries : es[y] = entries[y]
  BY <1>2, RememberedType, DeliveryAssumption DEF TypeOK, Remembered
<1>4. S \subseteq UnOwed(es)
  BY DEF Evictions
<1>. HIDE DEF es
<1>5. /\ DOMAIN entries' = (DOMAIN entries \cup {r}) \ S
      /\ \A y \in DOMAIN entries' : entries'[y] = es[y]
  BY <1>1, <1>3 DEF Without
<1>6. requests'[x] = "none" <=> (x # r /\ requests[x] = "none")
  BY <1>1 DEF Collected, TypeOK
<1>7. CASE x = r
  BY <1>2, <1>3, <1>4, <1>5, <1>6, <1>7
     DEF PromiseStep, StageIn, LateIn, IsOwed, UnOwed
<1>8. CASE x # r /\ x \notin S
  <2>1. Untouched(x)
    BY <1>3, <1>5, <1>6, <1>8 DEF Untouched
  <2>. QED
    BY <1>2, <2>1, UntouchedKeeps
<1>9. CASE x # r /\ x \in S
  <2>1. x \in UnOwed(entries) /\ requests[x] # "none"
    BY <1>3, <1>4, <1>9 DEF UnOwed, IInv, IssuedKnown
  <2>2. x \notin DOMAIN entries'
    BY <1>5, <1>9
  <2>. QED
    BY <1>2, <1>6, <2>1, <2>2 DEF PromiseStep, StageIn, LateIn, IsOwed, UnOwed
<1>. QED
  BY <1>7, <1>8, <1>9

\* A payment makes an awaited receipt owed, and tells nothing new of any other.
LEMMA PaymentOwes ==
  ASSUME TypeOK, IInv, NEW r \in Invoices, Pay(r) \/ PayUnheard(r), NEW x \in Invoices
  PROVE  PromiseStep(x)
<1>1. /\ requests' = [requests EXCEPT ![r] = "paid"] /\ requests[r] # "none"
      /\ acked' = acked
  BY DEF Pay, PayUnheard
<1>2. requests'[x] = "none" <=> requests[x] = "none"
  BY <1>1 DEF TypeOK
<1>3. CASE entries' = entries
  BY <1>1, <1>2, <1>3, UntouchedKeeps DEF Untouched
<1>4. CASE r \in DOMAIN entries /\ entries' = RecordAttempt(MarkDue(entries, r), r)
  <2>. DEFINE marked == MarkDue(entries, r)
  <2>1. /\ IsRegistry(marked) /\ DOMAIN marked = DOMAIN entries /\ marked[r].due
        /\ \A y \in DOMAIN entries \ {r} : marked[y] = entries[y]
        /\ marked[r].dueAge = IF entries[r].due THEN entries[r].dueAge ELSE 0
    BY <1>4, MarkDueType, MarkDueKeeps, MarkDueClock DEF TypeOK
  <2>. HIDE DEF marked
  <2>2. /\ DOMAIN entries' = DOMAIN marked
        /\ \A y \in DOMAIN marked : /\ entries'[y].due = marked[y].due
                                    /\ entries'[y].dueAge = marked[y].dueAge
    BY <1>4, <2>1, AttemptType, AttemptKeeps DEF marked
  <2>3. CASE x # r \/ entries[r].due
    <3>1. Untouched(x)
      BY <1>2, <1>4, <2>1, <2>2, <2>3, SMTT(40) DEF Untouched, TypeOK, IsRegistry, Entry
    <3>. QED
      BY <1>1, <3>1, UntouchedKeeps
  <2>4. CASE x = r /\ ~entries[r].due
    <3>1. entries'[r].due /\ entries'[r].dueAge # RetryMax
      BY <1>4, <2>1, <2>2, <2>4, RegistryAssumption
    <3>. QED
      BY <1>1, <1>4, <2>1, <2>2, <2>4, <3>1 DEF PromiseStep, StageIn, LateIn, IsOwed, UnOwed
  <2>. QED
    BY <2>3, <2>4
<1>. QED
  BY <1>3, <1>4 DEF Pay, PayUnheard, Deliver

\* An accepted broadcast counts once, and closes a receipt only when it is the
\* last of the schedule.
LEMMA AcceptedServes ==
  ASSUME TypeOK, IInv, NEW f \in Flight, FlightAccepted(f), NEW x \in Invoices
  PROVE  PromiseStep(x)
<1>. DEFINE r == f.rhash
<1>1. /\ r \in Invoices /\ PaidKnown(r) /\ requests' = requests
      /\ entries' = RecordSend(entries, r)
      /\ acked' = [acked EXCEPT ![r] = Grow(acked[r], MaxAcked)]
  BY DEF FlightAccepted, IInv, FlightsKnown, Flight
<1>2. /\ IsRegistry(entries) /\ MaxAcked \in Nat /\ acked[r] \in 0..MaxAcked
      /\ MaxAcked = TotalSends + 1 /\ TotalSends = Len(ResendOffsets) + 1
      /\ Len(ResendOffsets) \in Nat
  BY <1>1, RegistryAssumption DEF TypeOK, MaxAcked, TotalSends
<1>3. acked'[r] = acked[r] \/ acked'[r] = acked[r] + 1
  BY <1>1, <1>2 DEF TypeOK, Grow
<1>4. StageIn(entries, requests, r) \in {"owed", "closed"}
  BY <1>1 DEF PaidKnown, StageIn, IsOwed, UnOwed
<1>5. CASE x # r
  <2>1. acked'[x] = acked[x]
    BY <1>1, <1>5 DEF TypeOK
  <2>2. CASE r \in DOMAIN entries
    <3>1. /\ DOMAIN entries' \subseteq DOMAIN entries
          /\ DOMAIN entries \ {r} \subseteq DOMAIN entries'
          /\ \A y \in DOMAIN entries' \ {r} : entries'[y] = entries[y]
      BY <1>1, <1>2, <2>2, SendKeeps
    <3>2. Untouched(x)
      BY <1>1, <1>5, <3>1 DEF Untouched
    <3>. QED
      BY <2>1, <3>2, UntouchedKeeps
  <2>3. CASE r \notin DOMAIN entries
    <3>1. Untouched(x)
      BY <1>1, <2>3 DEF RecordSend, Untouched
    <3>. QED
      BY <2>1, <3>1, UntouchedKeeps
  <2>. QED
    BY <2>2, <2>3
<1>6. CASE x = r /\ (r \in DOMAIN entries => r \in DOMAIN entries')
  <2>1. Untouched(x)
    <3>1. CASE r \in DOMAIN entries
      <4>1. entries'[r].due = entries[r].due /\ entries'[r].dueAge = entries[r].dueAge
        BY <1>1, <1>2, <1>6, <3>1, SendKeeps
      <4>. QED
        BY <1>1, <1>6, <3>1, <4>1 DEF Untouched
    <3>2. CASE r \notin DOMAIN entries
      BY <1>1, <1>6, <3>2 DEF RecordSend, Untouched
    <3>. QED
      BY <3>1, <3>2
  <2>. QED
    BY <1>3, <1>4, <1>6, <2>1, UntouchedKeeps
<1>7. CASE x = r /\ r \in DOMAIN entries /\ r \notin DOMAIN entries'
  <2>1. entries[r].sends = Len(ResendOffsets) /\ entries[r].due
    BY <1>1, <1>2, <1>7, SendKeeps DEF PaidKnown
  <2>2. acked[r] >= Len(ResendOffsets)
    BY <1>7, <2>1 DEF IInv, OwedIsPaid
  <2>3. acked'[r] >= TotalSends
    BY <1>1, <1>2, <2>2 DEF TypeOK, Grow
  <2>4. StageIn(entries, requests, r) = "owed"
    BY <1>7, <2>1 DEF StageIn, IsOwed
  <2>5. StageIn(entries', requests', r) = "closed"
    BY <1>1, <1>7 DEF StageIn, IsOwed, UnOwed, PaidKnown
  <2>. QED
    BY <1>3, <1>7, <2>3, <2>4, <2>5 DEF PromiseStep
<1>. QED
  BY <1>5, <1>6, <1>7

\* The sweep closes what is too late or was never paid, and nothing else.
LEMMA SweepLapses ==
  ASSUME TypeOK, IInv, LoopPass, NEW x \in Invoices
  PROVE  PromiseStep(x)
<1>1. /\ entries' = Swept(entries) /\ acked' = acked
      /\ requests' = Collected(requests, ExpiredUnpaid(entries))
  BY DEF LoopPass
<1>2. requests'[x] = "none" <=> requests[x] = "none"
  BY <1>1 DEF Collected, TypeOK
<1>3. CASE x \in Abandoned(entries)
  <2>1. IsOwed(entries, x) /\ LateIn(entries, x) /\ requests[x] # "none"
    BY <1>3, RegistryAssumption
       DEF Abandoned, LateIn, IsOwed, IInv, IssuedKnown, TypeOK, IsRegistry, Entry
  <2>2. x \notin DOMAIN entries'
    BY <1>1, <1>3 DEF Swept, Without
  <2>3. StageIn(entries, requests, x) = "owed"
    BY <2>1 DEF StageIn
  <2>4. StageIn(entries', requests', x) = "closed"
    BY <1>2, <2>1, <2>2 DEF StageIn, IsOwed, UnOwed
  <2>. QED
    BY <1>1, <2>1, <2>3, <2>4 DEF PromiseStep
<1>4. CASE x \in ExpiredUnpaid(entries)
  <2>1. x \in UnOwed(entries) /\ requests[x] # "none" /\ ~IsOwed(entries, x)
    BY <1>4 DEF ExpiredUnpaid, UnOwed, IsOwed, IInv, IssuedKnown
  <2>2. x \notin DOMAIN entries'
    BY <1>1, <1>4 DEF Swept, Without
  <2>3. StageIn(entries, requests, x) = "awaiting"
    BY <2>1 DEF StageIn
  <2>4. StageIn(entries', requests', x) = "closed"
    BY <1>2, <2>1, <2>2 DEF StageIn, IsOwed, UnOwed
  <2>5. ~LateIn(entries, x) /\ ~LateIn(entries', x)
    BY <2>1, <2>2 DEF LateIn, IsOwed
  <2>. QED
    BY <1>1, <2>3, <2>4, <2>5 DEF PromiseStep
<1>5. CASE x \notin Abandoned(entries) \cup ExpiredUnpaid(entries)
  <2>1. Untouched(x)
    BY <1>1, <1>2, <1>5 DEF Swept, Without, Untouched
  <2>. QED
    BY <1>1, <2>1, UntouchedKeeps
<1>. QED
  BY <1>3, <1>4, <1>5

\* Time makes a receipt late only while it is owed.
LEMMA TimeKeeps ==
  ASSUME TypeOK, Tick, NEW x \in Invoices
  PROVE  PromiseStep(x)
<1>1. /\ entries' = Aged(entries) /\ requests' = requests /\ acked' = acked
      /\ IsRegistry(entries)
  BY DEF Tick, TypeOK
<1>2. /\ DOMAIN entries' = DOMAIN entries
      /\ \A y \in DOMAIN entries : /\ entries'[y].due = entries[y].due
                                   /\ ~entries[y].due => entries'[y].dueAge = entries[y].dueAge
  BY <1>1, AgedType, AgedKeeps, AgedLeavesUnowed
<1>3. StageIn(entries', requests', x) = StageIn(entries, requests, x)
  BY <1>1, <1>2 DEF StageIn, IsOwed, UnOwed
<1>4. (LateIn(entries', x) <=> LateIn(entries, x)) \/ StageIn(entries, requests, x) = "owed"
  BY <1>2 DEF LateIn, StageIn, IsOwed
<1>. QED
  BY <1>1, <1>3, <1>4 DEF PromiseStep

\* Whatever is evicted, swept, cancelled, restarted or lost in between, every
\* step keeps the promise of every invoice: an owed receipt leaves the registry
\* only after its whole schedule was acknowledged or RETRY_MAX_SEC after the
\* payment, and never becomes un-owed again.
THEOREM PromiseIsKept == Spec => PromiseKept
<1>1. Init => Promised!Init
  <2>1. ASSUME Init, NEW r \in Invoices
        PROVE  Stage(r) = "idle" /\ ~IsOwed(entries, r)
    <3>1. StageIn(entries, requests, r) = "idle" /\ ~IsOwed(entries, r)
      BY <2>1 DEF Init, StageIn, IsOwed, UnOwed
    <3>. QED
      BY <3>1, StageValue
  <2>. QED
    BY <2>1 DEF Init, Promised!Init
<1>2. TypeOK /\ IInv /\ [Next]_vars => Promised!Move
  <2>. SUFFICES ASSUME TypeOK, IInv, [Next]_vars, NEW x \in Invoices
                PROVE  PromiseStep(x)
    BY PromiseMoves
  <2>1. ASSUME NEW r \in Invoices, NEW p \in Payers, NEW ttl \in Expiries,
               Issue(r, p, ttl)
        PROVE  PromiseStep(x)
    BY <2>1, IssuePromises
  <2>2. ASSUME NEW r \in Invoices, Pay(r) \/ PayUnheard(r)
        PROVE  PromiseStep(x)
    BY <2>2, PaymentOwes
  <2>3. ASSUME NEW r \in Invoices, TailFires(r) \/ LoopDelivers(r)
        PROVE  PromiseStep(x)
    <3>1. /\ entries' = entries \/ entries' = RecordAttempt(entries, r)
          /\ requests' = requests /\ acked' = acked
      BY <2>3 DEF TailFires, LoopDelivers, Deliver
    <3>2. Untouched(x)
      BY <3>1, AttemptType, AttemptKeeps DEF Untouched, TypeOK
    <3>. QED
      BY <3>1, <3>2, UntouchedKeeps
  <2>4. ASSUME NEW f \in Flight, FlightAccepted(f)
        PROVE  PromiseStep(x)
    BY <2>4, AcceptedServes
  <2>5. ASSUME UNCHANGED <<entries, requests, acked>>
        PROVE  PromiseStep(x)
    BY <2>5, UntouchedKeeps DEF Untouched
  <2>6. ASSUME NEW f \in Flight, FlightFailed(f)
        PROVE  PromiseStep(x)
    BY <2>5, <2>6 DEF FlightFailed
  <2>7. CASE LoopPass
    BY <2>7, SweepLapses
  <2>8. CASE Tick
    BY <2>8, TimeKeeps
  <2>9. CASE LoopSleeps \/ GroupStarts \/ ManagerBuilt \/ GroupEnds \/ BetweenGroups
             \/ Stop \/ Crash \/ Start \/ UNCHANGED vars
    BY <2>5, <2>9 DEF LoopSleeps, GroupStarts, ManagerBuilt, GroupEnds, BetweenGroups,
                      Stop, Crash, Start, vars
  <2>. QED
    BY <2>1, <2>2, <2>3, <2>4, <2>6, <2>7, <2>8, <2>9 DEF Next
<1>. QED
  BY <1>1, <1>2, TypeCorrect, InductiveInvariant, PTL DEF Spec, PromiseKept, Promised!Spec
=============================================================================
