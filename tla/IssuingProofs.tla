---------------------------- MODULE IssuingProofs ----------------------------
(***************************************************************************)
(* Theorems about Issuing for every set of events, invoices, payers,       *)
(* amounts and expiries, every cap and every number of sessions.           *)
(***************************************************************************)
EXTENDS Issuing, ReceiptRegistryProofs, Sums, SequenceTheorems

-----------------------------------------------------------------------------
(* Type correctness.                                                       *)

\* A request's record and an invoice's record.
Request == [payer : Payers \cup {SelfTester}, amount : {0} \cup Amounts,
            age : -MaxClockSkew..MaxRequestAge + 1]
InvoiceRec == [status : {"none", "unpaid", "paid", "deleted", "stray"},
               amount : {0} \cup Amounts, left : 0..MaxExpiry]
Hold == [amount : Nat, left : 0..MaxExpiry]

\* Putting an id into the seen cache keeps it a bounded sequence of events.
LEMMA SeenType ==
  ASSUME TypeOK, NEW e \in Events
  PROVE  SeenWith(e) \in Seq(Events) /\ Len(SeenWith(e)) <= SeenMax
<1>. DEFINE longer == Append(seen, e)
<1>1. /\ longer \in Seq(Events) /\ Len(longer) = Len(seen) + 1
      /\ Len(seen) \in Nat /\ Len(seen) <= SeenMax /\ SeenMax \in Nat \ {0}
  BY IssuingAssumption, AppendProperties DEF TypeOK
<1>2. CASE Len(longer) > SeenMax
  <2>1. longer # << >>
    BY <1>1
  <2>2. Tail(longer) \in Seq(Events) /\ Len(Tail(longer)) = Len(longer) - 1
    BY <1>1, <2>1, HeadTailProperties
  <2>3. Len(Tail(longer)) <= SeenMax
    BY <1>1, <2>2
  <2>. QED
    BY <1>2, <2>2, <2>3 DEF SeenWith
<1>3. CASE ~(Len(longer) > SeenMax)
  BY <1>1, <1>3 DEF SeenWith
<1>. QED
  BY <1>2, <1>3

\* What every accepted request does to the guard.
LEMMA NotedType ==
  ASSUME TypeOK, NEW e \in Events, Noted(e)
  PROVE  /\ seen' \in Seq(Events) /\ Len(seen') <= SeenMax
         /\ since' \in [Events -> SUBSET Events]
         /\ request[e].payer \in Payers \cup {SelfTester}
         /\ request[e].amount \in Amounts
<1>1. seen' \in Seq(Events) /\ Len(seen') <= SeenMax
  BY SeenType DEF Noted
<1>2. since' \in [Events -> SUBSET Events]
  BY DEF Noted, TypeOK
<1>3. request[e].payer \in Payers \cup {SelfTester} /\ request[e].amount \in Amounts
  BY DEF Noted, Fresh, TypeOK
<1>. QED
  BY <1>1, <1>2, <1>3

\* Collecting requests keeps their type.
LEMMA CollectedType ==
  ASSUME NEW inv \in [Invoices -> InvoiceRec], NEW S
  PROVE  Collected(inv, S) \in [Invoices -> InvoiceRec]
<1>. SUFFICES ASSUME NEW r \in Invoices
              PROVE  [inv[r] EXCEPT !.status = "deleted"] \in InvoiceRec
  BY DEF Collected
<1>. QED
  BY DEF InvoiceRec

\* Every variable keeps its type, the seen cache its bound, for ever.
THEOREM TypeCorrect == Spec => []TypeOK
<1>. USE DEF Request, InvoiceRec, Hold
<1>1. Init => TypeOK
  <2>. SUFFICES ASSUME Init PROVE TypeOK
    OBVIOUS
  <2>1. /\ MaxRequestAge \in Nat /\ MaxClockSkew \in Nat /\ MaxExpiry \in Nat
        /\ SeenMax \in Nat \ {0} /\ Sessions \in Nat \ {0} /\ Capacity \in Nat
    BY IssuingAssumption, RegistryAssumption
  <2>2. Unsent \in Request
    BY <2>1 DEF Unsent
  <2>3. NoInvoice \in InvoiceRec
    BY <2>1 DEF NoInvoice
  <2>4. IsRegistry(entries)
    BY DEF Init, IsRegistry
  <2>5. seen \in Seq(Events) /\ Len(seen) <= SeenMax
    BY <2>1 DEF Init
  <2>6. DOMAIN reserved \subseteq Invoices /\ reserved \in [DOMAIN reserved -> Hold]
    BY DEF Init
  <2>. QED
    BY <2>1, <2>2, <2>3, <2>4, <2>5, <2>6 DEF Init, TypeOK
<1>2. TypeOK /\ [Next]_vars => TypeOK'
  <2>. SUFFICES ASSUME TypeOK, [Next]_vars PROVE TypeOK'
    OBVIOUS
  <2>0. /\ MaxRequestAge \in Nat /\ MaxClockSkew \in Nat /\ MaxExpiry \in Nat
        /\ SeenMax \in Nat \ {0} /\ Sessions \in Nat \ {0} /\ Capacity \in Nat
        /\ Amounts \subseteq Nat \ {0} /\ Expiries \subseteq 1..MaxExpiry
    BY IssuingAssumption, RegistryAssumption
  <2>1. ASSUME NEW e \in Events, NEW p \in Payers \cup {SelfTester}, NEW a \in Amounts,
               NEW age \in -MaxClockSkew..0, Publish(e, p, a, age)
        PROVE  TypeOK'
    <3>1. [payer |-> p, amount |-> a, age |-> age] \in Request
      BY <2>0
    <3>. QED
      BY <2>1, <3>1 DEF Publish, TypeOK
  <2>2. ASSUME NEW e \in Events, NEW active \in BOOLEAN, Refuse(e, active)
        PROVE  TypeOK'
    <3>1. Noted(e)
      BY <2>2 DEF Refuse
    <3>. QED
      BY <2>2, <3>1, NotedType DEF Refuse, TypeOK
  <2>3. ASSUME NEW e \in Events, NEW r \in Invoices, NEW ttl \in Expiries,
               CreateFails(e, r, ttl)
        PROVE  TypeOK'
    <3>1. Noted(e)
      BY <2>3 DEF CreateFails
    <3>2. [status |-> "stray", amount |-> request[e].amount, left |-> ttl] \in InvoiceRec
      BY <2>0, <3>1, NotedType
    <3>. QED
      BY <2>3, <3>1, <3>2, NotedType DEF CreateFails, TypeOK
  <2>4. ASSUME NEW e \in Events, NEW r \in Invoices, NEW ttl \in Expiries, Issue(e, r, ttl)
        PROVE  TypeOK'
    <3>. DEFINE p == request[e].payer
                es == Remembered(entries, r, p, ttl)
                rec == [status |-> "unpaid", amount |-> request[e].amount, left |-> ttl]
                created == [invoice EXCEPT ![r] = rec]
    <3>1. /\ Noted(e) /\ p \in Payers /\ request[e].amount \in Amounts
          /\ ttl \in 0..MaxExpiry
      BY <2>0, <2>4, NotedType DEF Issue
    <3>2. IsRegistry(es)
      BY <3>1, RememberedType DEF TypeOK
    <3>3. created \in [Invoices -> InvoiceRec]
      <4>1. rec \in InvoiceRec
        BY <3>1
      <4>. QED
        BY <4>1 DEF TypeOK
    <3>4. PICK S : entries' = Without(es, S) /\ invoice' = Collected(created, S)
      BY <2>4 DEF Issue
    <3>. HIDE DEF es, created
    <3>5. IsRegistry(entries') /\ invoice' \in [Invoices -> InvoiceRec]
      BY <3>2, <3>3, <3>4, WithoutType, CollectedType
    <3>6. /\ DOMAIN reserved' \subseteq Invoices
          /\ reserved' \in [DOMAIN reserved' -> Hold]
      <4>1. reserved' = [x \in LiveReservations \cup {r} |->
                           IF x = r THEN [amount |-> request[e].amount, left |-> ttl]
                           ELSE reserved[x]]
        BY <2>4 DEF Issue
      <4>2. [amount |-> request[e].amount, left |-> ttl] \in Hold
        BY <2>0, <3>1
      <4>3. LiveReservations \subseteq DOMAIN reserved
        BY DEF LiveReservations
      <4>4. DOMAIN reserved \subseteq Invoices /\ reserved \in [DOMAIN reserved -> Hold]
        BY DEF TypeOK
      <4>. HIDE DEF Hold
      <4>. QED
        BY <4>1, <4>2, <4>3, <4>4
    <3>7. minted' \in [Events -> Nat]
      BY <2>4 DEF Issue, TypeOK
    <3>8. UNCHANGED <<request, capacity, session>>
      BY <2>4 DEF Issue
    <3>. QED
      BY <3>1, <3>5, <3>6, <3>7, <3>8, NotedType DEF TypeOK
  <2>5. ASSUME NEW e \in Events, NEW r \in Invoices, SelfTest(e, r)
        PROVE  TypeOK'
    <3>1. Noted(e)
      BY <2>5 DEF SelfTest
    <3>2. invoice' \in [Invoices -> InvoiceRec]
      <4>1. [invoice[r] EXCEPT !.status = "deleted"] \in InvoiceRec
        BY DEF TypeOK
      <4>2. invoice' = [invoice EXCEPT ![r] = [invoice[r] EXCEPT !.status = "deleted"]]
        BY <2>5 DEF SelfTest
      <4>. QED
        BY <4>1, <4>2 DEF TypeOK
    <3>3. minted' \in [Events -> Nat]
      BY <2>5 DEF SelfTest, TypeOK
    <3>4. UNCHANGED <<request, reserved, entries, capacity, session>>
      BY <2>5 DEF SelfTest
    <3>. QED
      BY <3>1, <3>2, <3>3, <3>4, NotedType DEF TypeOK
  <2>6. ASSUME NEW r \in Invoices, Pay(r) PROVE TypeOK'
    <3>1. IsRegistry(entries')
      BY <2>6, MarkDueType DEF Pay, TypeOK
    <3>2. invoice[r].amount \in Nat /\ capacity \in 0..Capacity
      BY <2>0 DEF TypeOK
    <3>3. capacity' \in 0..Capacity
      BY <2>0, <2>6, <3>2 DEF Pay
    <3>4. DOMAIN reserved' \subseteq Invoices /\ reserved' \in [DOMAIN reserved' -> Hold]
      BY <2>6 DEF Pay, TypeOK
    <3>. QED
      BY <2>6, <3>1, <3>3, <3>4 DEF Pay, TypeOK
  <2>7. ASSUME NEW r \in Invoices, ReceiptServed(r) PROVE TypeOK'
    BY <2>7, WithoutType DEF ReceiptServed, TypeOK
  <2>8. CASE Sweep
    <3>1. IsRegistry(entries') /\ invoice' \in [Invoices -> InvoiceRec]
      BY <2>8, WithoutType, CollectedType DEF Sweep, Swept, TypeOK
    <3>. QED
      BY <2>8, <3>1 DEF Sweep, TypeOK
  <2>9. ASSUME NEW n \in 0..Capacity, Drift(n) PROVE TypeOK'
    BY <2>9 DEF Drift, TypeOK
  <2>10. CASE Restart
    <3>1. seen' \in Seq(Events) /\ Len(seen') <= SeenMax
      BY <2>0, <2>10 DEF Restart
    <3>2. session' \in 1..Sessions
      BY <2>0, <2>10 DEF Restart, TypeOK
    <3>. QED
      BY <2>10, <3>1, <3>2 DEF Restart, TypeOK
  <2>11. CASE Tick
    <3>1. IsRegistry(entries')
      BY <2>11, AgedType DEF Tick, TypeOK
    <3>2. request' \in [Events -> Request]
      <4>. SUFFICES ASSUME NEW e \in Events
                    PROVE  [request[e] EXCEPT !.age = IF @ <= MaxRequestAge
                                                      THEN @ + 1 ELSE @] \in Request
        BY <2>11 DEF Tick
      <4>1. request[e] \in Request
        BY DEF TypeOK
      <4>. QED
        BY <2>0, <4>1
    <3>3. reserved' \in [DOMAIN reserved' -> Hold] /\ DOMAIN reserved' = DOMAIN reserved
      <4>1. ASSUME NEW r \in DOMAIN reserved
            PROVE  [reserved[r] EXCEPT !.left = Shrink(@)] \in Hold
        <5>1. reserved[r] \in Hold
          BY <4>1 DEF TypeOK
        <5>. QED
          BY <2>0, <5>1, GrowType
      <4>. QED
        BY <2>11, <4>1 DEF Tick
    <3>4. invoice' \in [Invoices -> InvoiceRec]
      <4>. SUFFICES ASSUME NEW r \in Invoices
                    PROVE  [invoice[r] EXCEPT !.left = Shrink(@)] \in InvoiceRec
        BY <2>11 DEF Tick
      <4>1. invoice[r] \in InvoiceRec
        BY DEF TypeOK
      <4>. QED
        BY <2>0, <4>1, GrowType
    <3>. QED
      BY <2>11, <3>1, <3>2, <3>3, <3>4 DEF Tick, TypeOK
  <2>12. CASE UNCHANGED vars
    BY <2>12 DEF vars, TypeOK
  <2>. QED
    BY <2>1, <2>2, <2>3, <2>4, <2>5, <2>6, <2>7, <2>8, <2>9, <2>10, <2>11, <2>12 DEF Next
<1>. QED
  BY <1>1, <1>2, PTL DEF Spec

-----------------------------------------------------------------------------
(* The wallet's unpaid requests are in the registry.                       *)

\* Only listed requests are collected, and those that are collected are not unpaid.
LEMMA CollectedUnpaid ==
  ASSUME NEW inv \in [Invoices -> InvoiceRec], NEW S, NEW r \in Invoices,
         Collected(inv, S)[r].status = "unpaid"
  PROVE  inv[r].status = "unpaid" /\ r \notin S
  BY DEF Collected, InvoiceRec

\* What RequestsTracked leans on: a receipt is owed of paid invoices only, so
\* giving one up, or completing it, forgets no unpaid request.
OwedIsPaid == \A x \in DOMAIN entries : entries[x].due => invoice[x].status = "paid"

\* No step leaves an unpaid request in the wallet that the registry forgot.
THEOREM RequestsAreTracked == Spec => []RequestsTracked
<1>. DEFINE IInv == RequestsTracked /\ OwedIsPaid
<1>1. Init => IInv
  BY DEF Init, NoInvoice, RequestsTracked, OwedIsPaid
<1>2. TypeOK /\ IInv /\ [Next]_vars => IInv'
  <2>. SUFFICES ASSUME TypeOK, RequestsTracked, OwedIsPaid, [Next]_vars
                PROVE  RequestsTracked' /\ OwedIsPaid'
    OBVIOUS
  <2>0. /\ invoice \in [Invoices -> InvoiceRec]
        /\ IsRegistry(entries) /\ DOMAIN entries \subseteq Invoices
    BY DEF TypeOK, InvoiceRec, IsRegistry
  <2>1. CASE UNCHANGED <<entries, invoice>>
    BY <2>1 DEF RequestsTracked, OwedIsPaid
  <2>2. ASSUME NEW e \in Events, NEW x \in Invoices, NEW ttl \in Expiries,
               CreateFails(e, x, ttl)
        PROVE  RequestsTracked' /\ OwedIsPaid'
    <3>1. /\ invoice[x].status = "none" /\ UNCHANGED entries
          /\ \A r \in Invoices : r # x => invoice'[r] = invoice[r]
          /\ invoice'[x].status = "stray"
      BY <2>0, <2>2 DEF CreateFails
    <3>. QED
      BY <2>0, <3>1 DEF RequestsTracked, OwedIsPaid
  <2>3. ASSUME NEW e \in Events, NEW x \in Invoices, NEW ttl \in Expiries, Issue(e, x, ttl)
        PROVE  RequestsTracked' /\ OwedIsPaid'
    <3>. DEFINE p == request[e].payer
                es == Remembered(entries, x, p, ttl)
                rec == [status |-> "unpaid", amount |-> request[e].amount, left |-> ttl]
                created == [invoice EXCEPT ![x] = rec]
    <3>1. PICK S : entries' = Without(es, S) /\ invoice' = Collected(created, S)
      BY <2>3 DEF Issue
    <3>2. rec \in InvoiceRec /\ invoice[x].status = "none"
      BY <2>3, IssuingAssumption, NotedType DEF Issue, InvoiceRec
    <3>3. /\ created \in [Invoices -> InvoiceRec]
          /\ created[x] = rec /\ \A r \in Invoices \ {x} : created[r] = invoice[r]
      BY <2>0, <3>2
    <3>4. /\ DOMAIN es = DOMAIN entries \cup {x} /\ ~es[x].due
          /\ \A r \in DOMAIN entries \ {x} : es[r] = entries[r]
      BY DEF Remembered, FreshEntry
    <3>. HIDE DEF created, es
    <3>5. ASSUME NEW r \in Invoices, invoice'[r].status = "unpaid"
          PROVE  r \in DOMAIN entries'
      <4>1. created[r].status = "unpaid" /\ r \notin S
        BY <3>1, <3>3, <3>5, CollectedUnpaid
      <4>2. r \in DOMAIN es
        BY <3>3, <3>4, <4>1 DEF RequestsTracked
      <4>. QED
        BY <3>1, <4>1, <4>2 DEF Without
    <3>6. ASSUME NEW r \in DOMAIN entries', entries'[r].due
          PROVE  invoice'[r].status = "paid"
      <4>1. r \in DOMAIN es /\ es[r].due
        BY <3>1, <3>6 DEF Without
      <4>2. r # x /\ r \in DOMAIN entries /\ entries[r].due
        BY <3>4, <4>1
      <4>3. r \in Invoices /\ created[r].status = "paid"
        BY <2>0, <3>3, <4>2 DEF OwedIsPaid
      <4>. QED
        BY <3>1, <4>3 DEF Collected
    <3>. QED
      BY <3>5, <3>6 DEF RequestsTracked, OwedIsPaid
  <2>4. ASSUME NEW e \in Events, NEW x \in Invoices, SelfTest(e, x)
        PROVE  RequestsTracked' /\ OwedIsPaid'
    <3>1. /\ invoice[x].status = "none" /\ UNCHANGED entries
          /\ \A r \in Invoices : r # x => invoice'[r] = invoice[r]
          /\ invoice'[x].status = "deleted"
      BY <2>0, <2>4 DEF SelfTest, InvoiceRec
    <3>. QED
      BY <2>0, <3>1 DEF RequestsTracked, OwedIsPaid
  <2>5. ASSUME NEW x \in Invoices, Pay(x) PROVE RequestsTracked' /\ OwedIsPaid'
    <3>1. /\ \A r \in Invoices : r # x => invoice'[r] = invoice[r]
          /\ invoice'[x].status = "paid"
      BY <2>0, <2>5 DEF Pay, InvoiceRec
    <3>2. DOMAIN entries' = DOMAIN entries
      BY <2>0, <2>5, MarkDueType DEF Pay
    <3>3. \A r \in DOMAIN entries \ {x} : entries'[r] = entries[r]
      BY <2>0, <2>5 DEF Pay, MarkDue
    <3>. QED
      BY <2>0, <3>1, <3>2, <3>3 DEF RequestsTracked, OwedIsPaid
  <2>6. ASSUME NEW x \in Invoices, ReceiptServed(x) PROVE RequestsTracked' /\ OwedIsPaid'
    <3>1. /\ invoice[x].status = "paid" /\ UNCHANGED invoice
          /\ entries' = Without(entries, {x})
      BY <2>6 DEF ReceiptServed, IsOwed, OwedIsPaid
    <3>. QED
      BY <3>1 DEF RequestsTracked, OwedIsPaid, Without
  <2>7. CASE Sweep
    <3>1. /\ entries' = Without(entries, Abandoned(entries) \cup ExpiredUnpaid(entries))
          /\ invoice' = Collected(invoice, ExpiredUnpaid(entries))
      BY <2>7 DEF Sweep, Swept
    <3>2. \A r \in Abandoned(entries) : invoice[r].status = "paid"
      BY DEF Abandoned, OwedIsPaid
    <3>3. ASSUME NEW r \in Invoices, invoice'[r].status = "unpaid"
          PROVE  r \in DOMAIN entries'
      <4>1. invoice[r].status = "unpaid" /\ r \notin ExpiredUnpaid(entries)
        BY <2>0, <3>1, <3>3, CollectedUnpaid
      <4>. QED
        BY <3>1, <3>2, <4>1 DEF Without, RequestsTracked
    <3>4. ASSUME NEW r \in DOMAIN entries', entries'[r].due
          PROVE  invoice'[r].status = "paid"
      <4>1. r \in DOMAIN entries /\ entries[r].due
        BY <3>1, <3>4 DEF Without
      <4>. QED
        BY <2>0, <3>1, <4>1 DEF OwedIsPaid, Collected
    <3>. QED
      BY <3>3, <3>4 DEF RequestsTracked, OwedIsPaid
  <2>8. CASE Tick
    <3>1. \A r \in Invoices : invoice'[r].status = invoice[r].status
      BY <2>0, <2>8 DEF Tick, InvoiceRec
    <3>2. /\ DOMAIN entries' = DOMAIN entries
          /\ \A r \in DOMAIN entries : entries'[r].due = entries[r].due
      BY <2>0, <2>8, AgedType, AgedKeeps DEF Tick
    <3>. QED
      BY <2>0, <3>1, <3>2 DEF RequestsTracked, OwedIsPaid
  <2>9. [Next]_vars => \/ UNCHANGED <<entries, invoice>>
                       \/ \E e \in Events, x \in Invoices, ttl \in Expiries :
                            CreateFails(e, x, ttl) \/ Issue(e, x, ttl)
                       \/ \E e \in Events, x \in Invoices : SelfTest(e, x)
                       \/ \E x \in Invoices : Pay(x) \/ ReceiptServed(x)
                       \/ Sweep \/ Tick
    BY DEF Next, Publish, Refuse, Drift, Restart, vars
  <2>. QED
    BY <2>1, <2>2, <2>3, <2>4, <2>5, <2>6, <2>7, <2>8, <2>9
<1>. QED
  BY <1>1, <1>2, TypeCorrect, PTL DEF Spec

-----------------------------------------------------------------------------
(* The payers' caps.                                                       *)

\* No payer ever has more than PayerMax open invoices.
THEOREM PayerCapIsHeld == Spec => []PayerCapHeld
<1>. USE DEF PayerCapHeld
<1>0. PayerMax \in Nat \ {0}
  BY IssuingAssumption
<1>1. Init => PayerCapHeld
  <2>. SUFFICES ASSUME Init, NEW p \in Payers
                PROVE  PendingCountFor(entries, p) <= PayerMax
    OBVIOUS
  <2>1. PendingOf(entries, p) = {}
    BY DEF Init, PendingOf, UnOwed
  <2>2. PendingCountFor(entries, p) = 0
    BY <2>1, FS_EmptySet DEF PendingCountFor, PendingOf
  <2>. QED
    BY <1>0, <2>2
<1>2. TypeOK /\ PayerCapHeld /\ [Next]_vars => PayerCapHeld'
  <2>. SUFFICES ASSUME TypeOK, PayerCapHeld, [Next]_vars, NEW p \in Payers
                PROVE  PendingCountFor(entries', p) <= PayerMax
    BY DEF PendingCountFor, UnOwed
  <2>0. /\ IsRegistry(entries) /\ PendingCountFor(entries, p) <= PayerMax
        /\ PendingCountFor(entries, p) \in Nat
    BY PendingFinite DEF TypeOK
  <2>1. CASE UNCHANGED entries
    BY <2>0, <2>1
  <2>2. ASSUME PendingCountFor(entries', p) <= PendingCountFor(entries, p),
               IsRegistry(entries')
        PROVE  PendingCountFor(entries', p) <= PayerMax
    BY <1>0, <2>0, <2>2, PendingFinite
  <2>3. ASSUME NEW e \in Events, NEW x \in Invoices, NEW ttl \in Expiries, Issue(e, x, ttl)
        PROVE  PendingCountFor(entries', p) <= PayerMax
    <3>. DEFINE q == request[e].payer
                es == Remembered(entries, x, q, ttl)
    <3>1. /\ q \in Payers /\ PendingCountFor(entries, q) < PayerMax
          /\ ttl \in 0..MaxExpiry
      BY <2>3, IssuingAssumption, RegistryAssumption, NotedType
         DEF Issue, UnderPayerCap
    <3>2. PICK S : entries' = Without(es, S)
      BY <2>3 DEF Issue
    <3>3. IsRegistry(es)
      BY <2>0, <3>1, RememberedType
    <3>4. /\ PendingCountFor(es, p) <= PendingCountFor(entries, p) + 1
          /\ p # q => PendingCountFor(es, p) <= PendingCountFor(entries, p)
      BY <2>0, <3>1, PendingRemembered
    <3>. HIDE DEF es
    <3>5. PendingCountFor(entries', p) <= PendingCountFor(es, p)
      BY <3>2, <3>3, PendingWithout
    <3>6. IsRegistry(entries')
      BY <3>2, <3>3, WithoutType
    <3>7. PendingCountFor(es, p) \in Nat /\ PendingCountFor(entries', p) \in Nat
      BY <3>3, <3>6, PendingFinite
    <3>8. CASE p = q
      BY <1>0, <2>0, <3>1, <3>4, <3>5, <3>7, <3>8
    <3>9. CASE p # q
      BY <1>0, <2>0, <3>4, <3>5, <3>7, <3>9
    <3>. QED
      BY <3>8, <3>9
  <2>4. ASSUME NEW x \in Invoices, Pay(x)
        PROVE  PendingCountFor(entries', p) <= PayerMax
    BY <2>0, <2>2, <2>4, PendingMarkDue, MarkDueType DEF Pay
  <2>5. ASSUME NEW x \in Invoices, ReceiptServed(x)
        PROVE  PendingCountFor(entries', p) <= PayerMax
    BY <2>0, <2>2, <2>5, PendingWithout, WithoutType DEF ReceiptServed
  <2>6. CASE Sweep
    BY <2>0, <2>2, <2>6, PendingWithout, WithoutType DEF Sweep, Swept
  <2>7. CASE Tick
    BY <2>0, <2>2, <2>7, PendingAged, AgedType DEF Tick
  <2>8. [Next]_vars => \/ UNCHANGED entries
                       \/ \E e \in Events, x \in Invoices, ttl \in Expiries : Issue(e, x, ttl)
                       \/ \E x \in Invoices : Pay(x) \/ ReceiptServed(x)
                       \/ Sweep \/ Tick
    BY DEF Next, Publish, Refuse, CreateFails, SelfTest, Drift, Restart, vars
  <2>. QED
    BY <2>1, <2>3, <2>4, <2>5, <2>6, <2>7, <2>8
<1>. QED
  BY <1>1, <1>2, TypeCorrect, PTL DEF Spec

-----------------------------------------------------------------------------
(* The reservations.                                                       *)

\* What a reservation and an invoice become with time.
LEMMA TickFields ==
  ASSUME TypeOK, Tick
  PROVE  /\ DOMAIN reserved' = DOMAIN reserved
         /\ \A r \in DOMAIN reserved :
              reserved'[r] = [amount |-> reserved[r].amount,
                              left |-> Shrink(reserved[r].left)]
         /\ \A r \in Invoices : /\ invoice'[r].status = invoice[r].status
                                /\ invoice'[r].amount = invoice[r].amount
                                /\ invoice'[r].left = Shrink(invoice[r].left)
<1>1. \A r \in DOMAIN reserved : reserved[r] \in Hold
  BY DEF TypeOK, Hold
<1>2. \A r \in Invoices : invoice[r] \in InvoiceRec
  BY DEF TypeOK, InvoiceRec
<1>. QED
  BY <1>1, <1>2 DEF Tick, Hold, InvoiceRec

\* Every open invoice of one session holds its amount, and no paid one holds any.
THEOREM ReservationsAlwaysMatch == Spec => []ReservationsMatch
<1>. DEFINE Cover == session = 1 => \A r \in Invoices : Open(r) =>
                       /\ r \in LiveReservations
                       /\ reserved[r] = [amount |-> invoice[r].amount,
                                         left |-> invoice[r].left]
            Freed == \A r \in LiveReservations : invoice[r].status # "paid"
<1>0. ReservationsMatch <=> Cover /\ Freed
  BY DEF ReservationsMatch
<1>1. Init => Cover /\ Freed
  BY DEF Init, Open, NoInvoice, LiveReservations
<1>2. TypeOK /\ Cover /\ Freed /\ [Next]_vars => (Cover /\ Freed)'
  <2>. SUFFICES ASSUME TypeOK, Cover, Freed, [Next]_vars
                PROVE  (Cover /\ Freed)'
    OBVIOUS
  <2>0. /\ invoice \in [Invoices -> InvoiceRec] /\ LiveReservations \subseteq Invoices
        /\ session \in Nat /\ Expiries \subseteq Nat \ {0}
        /\ \A r \in DOMAIN reserved : reserved[r].left \in Nat
    <3>1. invoice \in [Invoices -> InvoiceRec]
      BY DEF TypeOK, InvoiceRec
    <3>2. LiveReservations \subseteq Invoices
      BY DEF TypeOK, LiveReservations
    <3>3. session \in Nat
      BY IssuingAssumption DEF TypeOK
    <3>4. Expiries \subseteq Nat \ {0}
      BY IssuingAssumption, RegistryAssumption
    <3>5. MaxExpiry \in Nat /\ reserved \in [DOMAIN reserved -> [amount : Nat, left : 0..MaxExpiry]]
      BY RegistryAssumption DEF TypeOK
    <3>6. \A r \in DOMAIN reserved : reserved[r].left \in Nat
      BY <3>5
    <3>. HIDE DEF Cover, Freed
    <3>. QED
      BY <3>1, <3>2, <3>3, <3>4, <3>6
  <2>1. ASSUME UNCHANGED <<reserved, session>>,
               \A r \in Invoices : \/ invoice'[r] = invoice[r]
                                   \/ invoice'[r].status \in {"stray", "deleted"}
        PROVE  (Cover /\ Freed)'
    BY <2>0, <2>1 DEF Open, LiveReservations
  <2>2. ASSUME NEW e \in Events, NEW x \in Invoices, NEW ttl \in Expiries,
               CreateFails(e, x, ttl)
        PROVE  (Cover /\ Freed)'
    BY <2>0, <2>1, <2>2 DEF CreateFails
  <2>3. ASSUME NEW e \in Events, NEW x \in Invoices, NEW ttl \in Expiries, Issue(e, x, ttl)
        PROVE  (Cover /\ Freed)'
    <3>. DEFINE rec == [status |-> "unpaid", amount |-> request[e].amount, left |-> ttl]
                hold == [amount |-> request[e].amount, left |-> ttl]
                created == [invoice EXCEPT ![x] = rec]
    <3>1. PICK S : invoice' = Collected(created, S)
      BY <2>3 DEF Issue
    <3>2. /\ UNCHANGED session /\ ttl > 0
          /\ reserved' = [y \in LiveReservations \cup {x} |->
                            IF y = x THEN hold ELSE reserved[y]]
      BY <2>0, <2>3 DEF Issue
    <3>3. LiveReservations' = LiveReservations \cup {x}
      BY <2>0, <3>2 DEF LiveReservations
    <3>4. /\ created[x] = rec /\ \A r \in Invoices \ {x} : created[r] = invoice[r]
      BY <2>0
    <3>5. \A r \in Invoices : /\ invoice'[r].status # "deleted" => invoice'[r] = created[r]
                              /\ invoice'[r].status = "paid" => created[r].status = "paid"
      <4>. SUFFICES ASSUME NEW r \in Invoices
                    PROVE  \/ invoice'[r] = created[r]
                           \/ invoice'[r].status = "deleted"
        OBVIOUS
      <4>1. created[r] \in InvoiceRec
        <5>1. rec \in InvoiceRec
          BY <2>3, IssuingAssumption, NotedType DEF Issue, InvoiceRec
        <5>. QED
          BY <2>0, <5>1
      <4>. HIDE DEF created
      <4>. QED
        BY <3>1, <4>1 DEF Collected, InvoiceRec
    <3>. HIDE DEF created
    <3>6. Freed'
      BY <2>0, <3>3, <3>4, <3>5
    <3>7. Cover'
      BY <2>0, <3>2, <3>3, <3>4, <3>5 DEF Open
    <3>. QED
      BY <3>6, <3>7
  <2>4. ASSUME NEW e \in Events, NEW x \in Invoices, SelfTest(e, x)
        PROVE  (Cover /\ Freed)'
    BY <2>0, <2>1, <2>4 DEF SelfTest, InvoiceRec
  <2>5. ASSUME NEW x \in Invoices, Pay(x) PROVE (Cover /\ Freed)'
    <3>1. /\ \A r \in Invoices \ {x} : invoice'[r] = invoice[r]
          /\ invoice'[x].status = "paid" /\ UNCHANGED session
          /\ reserved' = [y \in DOMAIN reserved \ {x} |-> reserved[y]]
      BY <2>0, <2>5 DEF Pay, InvoiceRec
    <3>2. LiveReservations' = LiveReservations \ {x}
      BY <3>1 DEF LiveReservations
    <3>. QED
      BY <2>0, <3>1, <3>2 DEF Open, LiveReservations
  <2>6. ASSUME NEW x \in Invoices, ReceiptServed(x) PROVE (Cover /\ Freed)'
    BY <2>1, <2>6 DEF ReceiptServed
  <2>7. CASE Sweep
    <3>1. \A r \in Invoices : invoice'[r] = invoice[r] \/ invoice'[r].status = "deleted"
      BY <2>0, <2>7 DEF Sweep, Collected, InvoiceRec
    <3>. QED
      BY <2>1, <2>7, <3>1 DEF Sweep
  <2>8. CASE Restart
    <3>1. session' = session + 1 /\ session \in 1..Sessions /\ DOMAIN reserved' = {}
      BY <2>8 DEF Restart, TypeOK
    <3>2. session' # 1
      BY <3>1, IssuingAssumption
    <3>3. LiveReservations' = {}
      BY <3>1 DEF LiveReservations
    <3>. QED
      BY <3>2, <3>3
  <2>9. CASE Tick
    <3>1. /\ UNCHANGED session /\ DOMAIN reserved' = DOMAIN reserved
          /\ \A r \in DOMAIN reserved : /\ reserved'[r].left = Shrink(reserved[r].left)
                                        /\ reserved'[r].left > 0 => reserved[r].left > 0
      <4>1. UNCHANGED session
        BY <2>9 DEF Tick
      <4>2. \A r \in DOMAIN reserved : Shrink(reserved[r].left) > 0 => reserved[r].left > 0
        BY <2>0 DEF Shrink
      <4>3. \A r \in DOMAIN reserved : reserved'[r].left = Shrink(reserved[r].left)
        BY <2>9, TickFields
      <4>. QED
        BY <2>9, <4>1, <4>2, <4>3, TickFields
    <3>2. LiveReservations' \subseteq LiveReservations
      BY <3>1 DEF LiveReservations
    <3>3. Freed'
      BY <2>0, <2>9, <3>2, TickFields
    <3>4. ASSUME session' = 1, NEW r \in Invoices, Open(r)'
          PROVE  /\ r \in LiveReservations'
                 /\ reserved'[r] = [amount |-> invoice'[r].amount, left |-> invoice'[r].left]
      <4>1. invoice[r].left \in Nat
        BY <2>0, RegistryAssumption DEF InvoiceRec
      <4>2. /\ invoice'[r].status = invoice[r].status
            /\ invoice'[r].amount = invoice[r].amount
            /\ invoice'[r].left = Shrink(invoice[r].left) /\ invoice'[r].left > 0
        BY <2>9, <3>4, TickFields DEF Open
      <4>3. Open(r)
        BY <3>4, <4>1, <4>2 DEF Open, Shrink
      <4>4. /\ r \in DOMAIN reserved
            /\ reserved[r] = [amount |-> invoice[r].amount, left |-> invoice[r].left]
        BY <3>1, <3>4, <4>3 DEF LiveReservations
      <4>5. reserved'[r] = [amount |-> invoice[r].amount, left |-> Shrink(invoice[r].left)]
        BY <2>9, <4>4, TickFields
      <4>. QED
        BY <3>1, <4>2, <4>4, <4>5 DEF LiveReservations
    <3>. QED
      BY <3>3, <3>4
  <2>10. ASSUME UNCHANGED <<reserved, session, invoice>> PROVE (Cover /\ Freed)'
    BY <2>1, <2>10
  <2>11. [Next]_vars => \/ UNCHANGED <<reserved, session, invoice>>
                        \/ \E e \in Events, x \in Invoices, ttl \in Expiries :
                             CreateFails(e, x, ttl) \/ Issue(e, x, ttl)
                        \/ \E e \in Events, x \in Invoices : SelfTest(e, x)
                        \/ \E x \in Invoices : Pay(x) \/ ReceiptServed(x)
                        \/ Sweep \/ Restart \/ Tick
    BY DEF Next, Publish, Refuse, Drift, vars
  <2>. HIDE DEF Cover, Freed
  <2>. QED
    BY <2>2, <2>3, <2>4, <2>5, <2>6, <2>7, <2>8, <2>9, <2>10, <2>11
<1>. QED
  BY <1>0, <1>1, <1>2, TypeCorrect, PTL DEF Spec

-----------------------------------------------------------------------------
(* The promises.                                                           *)

\* The two totals, as sums over invoices.
Sats == [r \in Invoices |-> invoice[r].amount]
Held == [r \in DOMAIN reserved |-> reserved[r].amount]
OpenOnes == {r \in Invoices : Open(r)}

LEMMA TotalsAreSums ==
  /\ Promised = Sum(Sats, OpenOnes) /\ Promised' = Sum(Sats', OpenOnes')
  /\ Reserved = Sum(Held, LiveReservations)
<1>1. Promised = Sum(Sats, OpenOnes)
  BY DEF Promised, Sum, Sats, OpenOnes
<1>2. Reserved = Sum(Held, LiveReservations)
  BY DEF Reserved, Sum, Held
<1>3. (Promised = Sum(Sats, OpenOnes))'
  BY <1>1, PTL
<1>4. Promised' = Sum(Sats', OpenOnes')
  BY <1>3
<1>. QED
  BY <1>1, <1>2, <1>4

\* They are natural numbers.
LEMMA TotalsType ==
  TypeOK => /\ Promised \in Nat /\ Reserved \in Nat
            /\ IsFiniteSet(OpenOnes) /\ IsFiniteSet(LiveReservations)
            /\ \A r \in Invoices : Sats[r] \in Nat
            /\ \A r \in DOMAIN reserved : Held[r] \in Nat
<1>. SUFFICES ASSUME TypeOK
              PROVE  /\ Promised \in Nat /\ Reserved \in Nat
                     /\ IsFiniteSet(OpenOnes) /\ IsFiniteSet(LiveReservations)
                     /\ \A r \in Invoices : Sats[r] \in Nat
                     /\ \A r \in DOMAIN reserved : Held[r] \in Nat
  OBVIOUS
<1>1. \A r \in Invoices : Sats[r] \in Nat
  BY IssuingAssumption DEF TypeOK, Sats
<1>2. \A r \in DOMAIN reserved : Held[r] \in Nat
  BY DEF TypeOK, Held
<1>3. IsFiniteSet(OpenOnes) /\ IsFiniteSet(LiveReservations)
  BY RegistryAssumption, FS_Subset DEF TypeOK, OpenOnes, LiveReservations
<1>4. Sum(Sats, OpenOnes) \in Nat
  <2>1. \A r \in OpenOnes : Sats[r] \in Nat
    BY <1>1 DEF OpenOnes
  <2>. QED
    BY <1>3, <2>1, SumSubset
<1>5. Sum(Held, LiveReservations) \in Nat
  <2>1. \A r \in LiveReservations : Held[r] \in Nat
    BY <1>2 DEF LiveReservations
  <2>. QED
    BY <1>3, <2>1, SumSubset
<1>. QED
  BY <1>1, <1>2, <1>3, <1>4, <1>5, TotalsAreSums

\* What is promised in the first session is covered by its reservations.
LEMMA PromisesReserved ==
  ASSUME TypeOK, ReservationsMatch, session = 1
  PROVE  Promised <= Reserved
<1>1. OpenOnes \subseteq LiveReservations /\ \A r \in OpenOnes : Held[r] = Sats[r]
  <2>1. ASSUME NEW r \in OpenOnes
        PROVE  /\ r \in LiveReservations /\ r \in Invoices
               /\ reserved[r].amount = invoice[r].amount
    <3>1. r \in Invoices /\ Open(r)
      BY DEF OpenOnes
    <3>2. /\ r \in LiveReservations
          /\ reserved[r] = [amount |-> invoice[r].amount, left |-> invoice[r].left]
      BY <3>1, Zenon DEF ReservationsMatch
    <3>. QED
      BY <3>1, <3>2
  <2>2. LiveReservations \subseteq DOMAIN reserved
    BY DEF LiveReservations
  <2>. QED
    BY <2>1, <2>2 DEF Held, Sats
<1>2. \A r \in LiveReservations : Held[r] \in Nat
  BY TotalsType DEF LiveReservations
<1>3. \A r \in OpenOnes : Held[r] \in Int /\ Sats[r] = Held[r]
  BY <1>1, <1>2
<1>4. Sum(Sats, OpenOnes) = Sum(Held, OpenOnes)
  BY <1>3, SumEqual, TotalsType
<1>5. Sum(Held, OpenOnes) <= Sum(Held, LiveReservations)
  BY <1>1, <1>2, SumSubset, TotalsType
<1>. QED
  BY <1>4, <1>5, TotalsAreSums

\* As long as no invoice but x opens, or changes its amount while it is open, no
\* more is promised than before, x aside.
LEMMA PromisedGrows ==
  ASSUME TypeOK, TypeOK', NEW x \in Invoices,
         \A r \in Invoices \ {x} : Open(r)' => Open(r) /\ invoice'[r].amount = invoice[r].amount
  PROVE  Promised' <= Promised + invoice'[x].amount
<1>. DEFINE S == OpenOnes'
            rest == S \ {x}
            f == Sats
            g == Sats'
            a == invoice'[x].amount
<1>1. /\ IsFiniteSet(S) /\ IsFiniteSet(OpenOnes)
      /\ \A r \in Invoices : f[r] \in Nat /\ g[r] \in Nat
  <2>1. IsFiniteSet(OpenOnes) /\ \A r \in Invoices : f[r] \in Nat
    BY TotalsType
  <2>2. (IsFiniteSet(OpenOnes) /\ \A r \in Invoices : Sats[r] \in Nat)'
    BY TotalsType, PTL
  <2>. QED
    BY <2>1, <2>2
<1>2. g[x] = a /\ a \in Nat
  BY <1>1 DEF Sats
<1>3. rest \subseteq OpenOnes /\ \A r \in rest : g[r] = f[r] /\ f[r] \in Nat
  BY <1>1 DEF OpenOnes, Open, Sats
<1>4. /\ IsFiniteSet(rest) /\ \A r \in S : g[r] \in Int
      /\ \A r \in OpenOnes : f[r] \in Nat
  BY <1>1, FS_Subset DEF OpenOnes
<1>5. Promised = Sum(f, OpenOnes) /\ Promised' = Sum(g, S)
  BY TotalsAreSums
<1>6. /\ Promised \in Nat
      /\ x \in S => S \in SUBSET S
  BY TotalsType
<1>. HIDE DEF S, f, g, a
<1>7. Sum(g, rest) = Sum(f, rest)
  BY <1>3, <1>4, SumEqual
<1>8. Sum(f, rest) <= Sum(f, OpenOnes) /\ Sum(f, rest) \in Nat
  BY <1>1, <1>3, <1>4, SumSubset
<1>9. x \in S => Sum(g, S) = g[x] + Sum(g, rest)
  BY <1>1, <1>4, SumRemove
<1>10. x \notin S => Sum(g, S) = Sum(g, rest)
  BY DEF rest
<1>11. Sum(g, S) <= a + Sum(f, rest)
  BY <1>2, <1>7, <1>8, <1>9, <1>10
<1>. QED
  BY <1>2, <1>5, <1>6, <1>8, <1>11 DEF a

\* And no more than before if no invoice opens at all.
LEMMA PromisedShrinks ==
  ASSUME TypeOK, TypeOK',
         \A r \in Invoices : Open(r)' => Open(r) /\ invoice'[r].amount = invoice[r].amount
  PROVE  Promised' <= Promised
<1>. DEFINE S == OpenOnes'
            f == Sats
            g == Sats'
<1>1. /\ IsFiniteSet(S) /\ IsFiniteSet(OpenOnes) /\ S \subseteq OpenOnes
      /\ \A r \in S : g[r] = f[r] /\ f[r] \in Int
      /\ \A r \in OpenOnes : f[r] \in Nat
  <2>1. IsFiniteSet(OpenOnes) /\ \A r \in Invoices : f[r] \in Nat
    BY TotalsType
  <2>2. S \subseteq OpenOnes /\ \A r \in S : r \in Invoices /\ g[r] = f[r]
    BY DEF OpenOnes, Open, Sats
  <2>3. IsFiniteSet(S)
    BY <2>1, <2>2, FS_Subset
  <2>. QED
    BY <2>1, <2>2, <2>3 DEF OpenOnes
<1>2. Promised = Sum(f, OpenOnes) /\ Promised' = Sum(g, S)
  BY TotalsAreSums
<1>. HIDE DEF S, f, g
<1>3. Sum(g, S) = Sum(f, S)
  BY <1>1, SumEqual
<1>4. Sum(f, S) <= Sum(f, OpenOnes)
  BY <1>1, SumSubset
<1>. QED
  BY <1>2, <1>3, <1>4

\* A request that is accepted fits beside everything that is promised already.
LEMMA IssueFits ==
  ASSUME TypeOK, TypeOK', ReservationsMatch, session = 1, NEW e \in Events,
         NEW x \in Invoices, NEW ttl \in Expiries, Issue(e, x, ttl)
  PROVE  Promised' <= capacity'
<1>. DEFINE n == request[e].amount
            rec == [status |-> "unpaid", amount |-> n, left |-> ttl]
            created == [invoice EXCEPT ![x] = rec]
<1>1. /\ n \in Nat \ {0} /\ n <= Available /\ capacity' = capacity
      /\ capacity \in Nat
  <2>1. Noted(e) /\ Acceptable(e, TRUE) /\ capacity' = capacity
    BY DEF Issue
  <2>2. n \in Amounts
    BY <2>1, NotedType
  <2>. QED
    BY <2>1, <2>2, IssuingAssumption, SMTT(30) DEF Acceptable, TypeOK
<1>2. n + Reserved <= capacity
  BY <1>1, TotalsType DEF Available
<1>3. PICK S : invoice' = Collected(created, S)
  BY DEF Issue
<1>4. \A r \in Invoices : /\ created[r] \in InvoiceRec
                          /\ r # x => created[r] = invoice[r]
                          /\ created[x] = rec
  <2>1. invoice \in [Invoices -> InvoiceRec]
    BY DEF TypeOK, InvoiceRec
  <2>2. rec \in InvoiceRec
    BY IssuingAssumption, NotedType DEF Issue, InvoiceRec
  <2>. QED
    BY <2>1, <2>2
<1>5. \A r \in Invoices : /\ invoice'[r].amount = created[r].amount
                          /\ \/ invoice'[r] = created[r]
                             \/ invoice'[r].status = "deleted"
  <2>. SUFFICES ASSUME NEW r \in Invoices
                PROVE  /\ invoice'[r].amount = created[r].amount
                       /\ \/ invoice'[r] = created[r]
                          \/ invoice'[r].status = "deleted"
    OBVIOUS
  <2>1. created[r] \in InvoiceRec
    BY <1>4
  <2>. HIDE DEF created
  <2>. QED
    BY <1>3, <2>1 DEF Collected, InvoiceRec
<1>. HIDE DEF created
<1>6. invoice'[x].amount = n
  BY <1>4, <1>5
<1>7. \A r \in Invoices \ {x} :
         Open(r)' => Open(r) /\ invoice'[r].amount = invoice[r].amount
  BY <1>4, <1>5 DEF Open
<1>. HIDE DEF n
<1>8. Promised' <= Promised + n
  BY <1>6, <1>7, PromisedGrows
<1>9. Promised <= Reserved /\ Promised \in Nat /\ Reserved \in Nat
  BY PromisesReserved, TotalsType
<1>10. Promised' \in Nat
  <2>1. (Promised \in Nat)'
    BY TotalsType, PTL
  <2>. QED
    BY <2>1
<1>. QED
  BY <1>1, <1>2, <1>8, <1>9, <1>10

\* No other step of a session opens an invoice.
LEMMA OnlyIssueOpens ==
  ASSUME TypeOK, [Next]_vars, NEW x \in Invoices, Open(x)',
         ~\E e \in Events, y \in Invoices, ttl \in Expiries : Issue(e, y, ttl)
  PROVE  Open(x) /\ invoice'[x].amount = invoice[x].amount
<1>. /\ invoice \in [Invoices -> InvoiceRec]
     /\ \A r \in Invoices : invoice[r] \in InvoiceRec
  BY DEF TypeOK, InvoiceRec
<1>0. invoice'[x].status = "unpaid" /\ invoice'[x].left > 0
  BY DEF Open
<1>1. CASE invoice'[x] = invoice[x]
  BY <1>0, <1>1 DEF Open
<1>2. ASSUME NEW e \in Events, NEW r \in Invoices, NEW ttl \in Expiries,
             CreateFails(e, r, ttl)
      PROVE  invoice'[x] = invoice[x]
  BY <1>0, <1>2 DEF CreateFails
<1>3. ASSUME NEW e \in Events, NEW r \in Invoices, SelfTest(e, r)
      PROVE  invoice'[x] = invoice[x]
  BY <1>0, <1>3 DEF SelfTest, InvoiceRec
<1>4. ASSUME NEW r \in Invoices, Pay(r)
      PROVE  invoice'[x] = invoice[x]
  BY <1>0, <1>4 DEF Pay, InvoiceRec
<1>5. ASSUME NEW r \in Invoices, ReceiptServed(r)
      PROVE  invoice'[x] = invoice[x]
  BY <1>5 DEF ReceiptServed
<1>6. CASE Sweep
  BY <1>0, <1>1, <1>6 DEF Sweep, Collected, InvoiceRec
<1>7. CASE Tick
  <2>1. /\ invoice'[x].status = invoice[x].status
        /\ invoice'[x].amount = invoice[x].amount
        /\ invoice'[x].left = Shrink(invoice[x].left)
    BY <1>7, TickFields
  <2>2. invoice[x].left \in Nat
    BY RegistryAssumption DEF InvoiceRec
  <2>. QED
    BY <1>0, <2>1, <2>2 DEF Open, Shrink
<1>8. CASE UNCHANGED invoice
  BY <1>1, <1>8
<1>. QED
  BY <1>1, <1>2, <1>3, <1>4, <1>5, <1>6, <1>7, <1>8
     DEF Next, vars, Publish, Refuse, Drift, Restart

\* What a step of the first session may do to what is promised.
PromiseFits == session' = 1 /\ Promised' > Promised => Promised' <= capacity'

\* The wallet never promises more than its channels can receive: whatever else is
\* still open was subtracted when the new invoice was accepted.
THEOREM NeverOvercommits == Spec => NoOvercommit
<1>1. TypeOK /\ TypeOK' /\ ReservationsMatch /\ [Next]_vars => PromiseFits
  <2>. SUFFICES ASSUME TypeOK, TypeOK', ReservationsMatch, [Next]_vars, session' = 1,
                       Promised' > Promised
                PROVE  Promised' <= capacity'
    BY DEF PromiseFits
  <2>1. Promised \in Nat /\ (Promised \in Nat)'
    BY TotalsType, PTL
  <2>2. CASE \E e \in Events, x \in Invoices, ttl \in Expiries : Issue(e, x, ttl)
    <3>1. PICK e \in Events, x \in Invoices, ttl \in Expiries : Issue(e, x, ttl)
      BY <2>2
    <3>2. session = 1
      BY <3>1 DEF Issue
    <3>. QED
      BY <3>1, <3>2, IssueFits
  <2>3. CASE ~\E e \in Events, x \in Invoices, ttl \in Expiries : Issue(e, x, ttl)
    <3>1. \A x \in Invoices : Open(x)' => Open(x) /\ invoice'[x].amount = invoice[x].amount
      BY <2>3, OnlyIssueOpens
    <3>2. Promised' <= Promised
      BY <3>1, PromisedShrinks
    <3>. QED
      BY <2>1, <3>2
  <2>. QED
    BY <2>2, <2>3
<1>2. PromiseFits => (session' = 1 /\ Promised' > Promised => Promised' <= capacity')
  BY DEF PromiseFits
<1>. QED
  BY <1>1, <1>2, TypeCorrect, ReservationsAlwaysMatch, PTL DEF Spec, NoOvercommit

-----------------------------------------------------------------------------
(* The seen cache.                                                         *)

\* The new id goes to the end; k of the old ones, the oldest, is dropped, and
\* only if the cache is full.
LEMMA SeenShift ==
  ASSUME TypeOK, NEW e \in Events
  PROVE  \E k \in 0..1 :
           /\ k = 1 => Len(seen) = SeenMax
           /\ Len(SeenWith(e)) = Len(seen) - k + 1
           /\ \A i \in 1..Len(seen) - k : SeenWith(e)[i] = seen[i + k]
           /\ SeenWith(e)[Len(seen) - k + 1] = e
<1>. DEFINE longer == Append(seen, e)
<1>1. /\ longer \in Seq(Events) /\ Len(longer) = Len(seen) + 1
      /\ \A i \in 1..Len(seen) : longer[i] = seen[i]
      /\ longer[Len(seen) + 1] = e
      /\ Len(seen) \in Nat /\ Len(seen) <= SeenMax /\ SeenMax \in Nat \ {0}
  BY IssuingAssumption, AppendProperties DEF TypeOK
<1>2. SeenWith(e) = IF Len(longer) > SeenMax THEN Tail(longer) ELSE longer
  BY DEF SeenWith
<1>. HIDE DEF longer
<1>3. CASE Len(longer) > SeenMax
  <2>1. /\ Len(Tail(longer)) = Len(seen)
        /\ \A i \in 1..Len(seen) : Tail(longer)[i] = longer[i + 1]
    <3>1. longer # << >>
      BY <1>1
    <3>2. /\ Len(Tail(longer)) = Len(longer) - 1
          /\ \A i \in 1..Len(Tail(longer)) : Tail(longer)[i] = longer[i + 1]
      BY <1>1, <3>1, HeadTailProperties
    <3>. QED
      BY <1>1, <3>2
  <2>2. /\ Len(seen) = SeenMax /\ Len(seen) \in 1..Len(seen)
        /\ \A i \in 1..Len(seen) - 1 : i + 1 \in 1..Len(seen) /\ i \in 1..Len(seen)
    BY <1>1, <1>3
  <2>3. /\ Len(SeenWith(e)) = Len(seen) - 1 + 1
        /\ \A i \in 1..Len(seen) - 1 : SeenWith(e)[i] = seen[i + 1]
        /\ SeenWith(e)[Len(seen) - 1 + 1] = e
    BY <1>1, <1>2, <1>3, <2>1, <2>2
  <2>. QED
    BY <2>2, <2>3
<1>4. CASE ~(Len(longer) > SeenMax)
  <2>1. /\ Len(SeenWith(e)) = Len(seen) - 0 + 1
        /\ \A i \in 1..Len(seen) - 0 : SeenWith(e)[i] = seen[i + 0]
        /\ SeenWith(e)[Len(seen) - 0 + 1] = e
    BY <1>1, <1>2, <1>4
  <2>. QED
    BY <2>1
<1>. QED
  BY <1>3, <1>4

\* Distinct ids that are all in a set leave it no smaller than their number.
LEMMA DistinctFill ==
  ASSUME NEW n \in Nat, NEW T, IsFiniteSet(T), NEW f \in [1..n -> T],
         \A i, j \in 1..n : f[i] = f[j] => i = j
  PROVE  Cardinality(T) >= n
<1>1. IsFiniteSet(1..n) /\ Cardinality(1..n) = n
  BY FS_Interval
<1>2. Cardinality(T) \in Nat
  BY FS_CardinalityType
<1>3. SUFFICES ASSUME Cardinality(T) < Cardinality(1..n)
               PROVE  FALSE
  BY <1>1, <1>2
<1>4. \E x, y \in 1..n : x # y /\ f[x] = f[y]
  BY <1>1, <1>3, FS_PigeonHole
<1>. QED
  BY <1>4

\* The cache holds an id once.  What came after the event of a minted invoice was
\* noted for it, and once its id is gone, that was as many as the cache holds.
SeenOnce == \A i, j \in 1..Len(seen) : seen[i] = seen[j] => i = j
LaterNoted ==
  /\ \A x \in Events : IsFiniteSet(since[x])
  /\ \A x \in Events : minted[x] > 0 =>
       /\ \A i, j \in 1..Len(seen) : seen[i] = x /\ i < j => seen[j] \in since[x]
       /\ ~Seen(x) => Cardinality(since[x]) >= SeenMax
SeenInv == SeenOnce /\ LaterNoted

\* Noting an event keeps it, whether an invoice comes of it or not.
LEMMA NotedSeenInv ==
  ASSUME TypeOK, TypeOK', SeenInv, NEW e \in Events, Noted(e),
         \A x \in Events \ {e} : minted'[x] = minted[x]
  PROVE  SeenInv'
<1>. DEFINE n == Len(seen)
<1>0. /\ n \in Nat /\ SeenMax \in Nat \ {0} /\ seen \in Seq(Events)
      /\ since \in [Events -> SUBSET Events]
  BY IssuingAssumption, SMTT(40) DEF TypeOK
<1>1. PICK k \in 0..1 :
        /\ k = 1 => n = SeenMax
        /\ Len(seen') = n - k + 1
        /\ \A i \in 1..n - k : seen'[i] = seen[i + k]
        /\ seen'[n - k + 1] = e
  BY SeenShift DEF Noted
<1>2. /\ \A i \in 1..n : seen[i] # e
      /\ since'[e] = {}
      /\ \A x \in Events \ {e} : since'[x] = IF minted[x] > 0 THEN since[x] \cup {e}
                                             ELSE since[x]
  BY <1>0 DEF Noted, Seen
<1>. DEFINE m == n - k
<1>3. /\ m \in Nat /\ m + k = n /\ Len(seen') = m + 1 /\ seen'[m + 1] = e
      /\ \A i \in 1..m : i + k \in 1..n /\ seen'[i] = seen[i + k] /\ seen'[i] # e
  <2>1. n - k \in Nat
    BY <1>0, <1>1
  <2>2. \A i \in 1..n - k : i + k \in 1..n
    BY <1>0
  <2>. QED
    BY <1>0, <1>1, <1>2, <2>1, <2>2
<1>. HIDE DEF m, n
<1>4. \A i \in 1..Len(seen') : i \in 1..m \/ i = m + 1
  BY <1>3
<1>5. SeenOnce'
  <2>1. ASSUME NEW i \in 1..m, NEW j \in 1..m, seen'[i] = seen'[j]
        PROVE  i = j
    <3>1. i + k \in 1..n /\ j + k \in 1..n /\ seen[i + k] = seen[j + k]
      BY <1>3, <2>1
    <3>2. i + k = j + k
      BY <3>1 DEF SeenInv, SeenOnce, n
    <3>. QED
      BY <3>2
  <2>. QED
    BY <1>3, <1>4, <2>1 DEF SeenOnce
<1>6. \A x \in Events : IsFiniteSet(since'[x])
  <2>1. IsFiniteSet({}) /\ \A x \in Events : IsFiniteSet(since[x] \cup {e})
    BY FS_EmptySet, FS_AddElement DEF SeenInv, LaterNoted
  <2>. QED
    BY <1>2, <2>1 DEF SeenInv, LaterNoted
<1>7. ASSUME NEW x \in Events, minted'[x] > 0,
             NEW i \in 1..Len(seen'), NEW j \in 1..Len(seen'), seen'[i] = x, i < j
      PROVE  seen'[j] \in since'[x]
  <2>1. i \in 1..m /\ x # e
    BY <1>3, <1>4, <1>7
  <2>2. minted[x] > 0 /\ since'[x] = since[x] \cup {e}
    BY <1>2, <1>7, <2>1
  <2>3. CASE j = m + 1
    BY <1>3, <2>2, <2>3
  <2>4. CASE j \in 1..m
    <3>1. i + k \in 1..n /\ j + k \in 1..n
      BY <1>3, <2>1, <2>4
    <3>2. i + k < j + k
      BY <1>3, <1>7, <2>1, <2>4
    <3>3. seen[i + k] = x /\ seen'[j] = seen[j + k]
      BY <1>3, <1>7, <2>1, <2>4
    <3>4. seen[j + k] \in since[x]
      BY <2>2, <3>1, <3>2, <3>3 DEF SeenInv, LaterNoted, n
    <3>. QED
      BY <2>2, <3>3, <3>4
  <2>. QED
    BY <1>4, <2>3, <2>4
<1>8. ASSUME NEW x \in Events, minted'[x] > 0, ~Seen(x)'
      PROVE  Cardinality(since'[x]) >= SeenMax
  <2>1. \A i \in 1..m + 1 : seen'[i] # x
    BY <1>3, <1>8 DEF Seen
  <2>2. x # e
    BY <1>3, <2>1
  <2>3. minted[x] > 0 /\ since'[x] = since[x] \cup {e}
    BY <1>2, <1>8, <2>2
  <2>4. CASE ~Seen(x)
    <3>1. IsFiniteSet(since[x]) /\ Cardinality(since[x]) >= SeenMax
      BY <2>3, <2>4 DEF SeenInv, LaterNoted
    <3>2. Cardinality(since[x]) <= Cardinality(since[x] \cup {e})
      BY <1>6, <2>3, FS_Subset
    <3>3. /\ Cardinality(since[x]) \in Nat /\ Cardinality(since[x] \cup {e}) \in Nat
      BY <1>6, <2>3, <3>1, FS_CardinalityType
    <3>. QED
      BY <1>0, <2>3, <3>1, <3>2, <3>3
  <2>5. CASE Seen(x)
    <3>1. PICK p \in 1..n : seen[p] = x
      BY <2>5 DEF Seen, n
    <3>2. k = 1 /\ p = 1
      <4>1. ASSUME p > k
            PROVE  FALSE
        <5>1. p - k \in 1..m
          BY <1>3, <4>1
        <5>2. seen'[p - k] = x
          BY <1>3, <3>1, <5>1
        <5>. QED
          BY <1>3, <2>1, <5>1, <5>2
      <4>. QED
        BY <4>1
    <3>3. n = SeenMax /\ m + 1 = SeenMax
      BY <1>0, <1>1, <1>3, <3>2 DEF n
    <3>4. \A i \in 1..m + 1 : seen'[i] \in since'[x]
      <4>1. ASSUME NEW i \in 1..m
            PROVE  seen'[i] \in since[x]
        <5>1. i + k \in 1..n /\ seen'[i] = seen[i + k] /\ p < i + k
          BY <1>3, <3>2
        <5>. QED
          BY <2>3, <3>1, <5>1 DEF SeenInv, LaterNoted, n
      <4>. QED
        BY <1>3, <2>3, <4>1
    <3>. DEFINE f == [i \in 1..SeenMax |-> seen'[i]]
    <3>5. /\ f \in [1..SeenMax -> since'[x]]
          /\ \A i, j \in 1..SeenMax : f[i] = f[j] => i = j
      BY <1>3, <1>5, <3>3, <3>4 DEF SeenOnce
    <3>. HIDE DEF f
    <3>6. IsFiniteSet(since'[x]) /\ SeenMax \in Nat
      BY <1>0, <1>6
    <3>. QED
      BY <3>5, <3>6, DistinctFill
  <2>. QED
    BY <2>4, <2>5
<1>. QED
  BY <1>5, <1>6, <1>7, <1>8 DEF SeenInv, LaterNoted

\* Every step keeps the cache's invariant; a restart starts it over.
LEMMA SeenInvariant == Spec => []SeenInv
<1>1. Init => SeenInv
  <2>. SUFFICES ASSUME Init PROVE SeenInv
    OBVIOUS
  <2>1. Len(seen) = 0 /\ \A x \in Events : minted[x] = 0 /\ since[x] = {}
    BY DEF Init
  <2>2. SeenOnce
    BY <2>1 DEF SeenOnce
  <2>3. LaterNoted
    <3>1. \A x \in Events : IsFiniteSet(since[x])
      BY <2>1, FS_EmptySet, Zenon
    <3>2. \A x \in Events : ~(minted[x] > 0)
      BY <2>1
    <3>. QED
      BY <3>1, <3>2 DEF LaterNoted
  <2>. QED
    BY <2>2, <2>3 DEF SeenInv
<1>2. TypeOK /\ TypeOK' /\ SeenInv /\ [Next]_vars => SeenInv'
  <2>. SUFFICES ASSUME TypeOK, TypeOK', SeenInv, [Next]_vars
                PROVE  SeenInv'
    OBVIOUS
  <2>0. minted \in [Events -> Nat]
    BY DEF TypeOK
  <2>1. CASE UNCHANGED <<seen, minted, since>>
    BY <2>1 DEF SeenInv, SeenOnce, LaterNoted, Seen
  <2>2. ASSUME NEW e \in Events, Noted(e),
               minted' = minted \/ minted' = [minted EXCEPT ![e] = @ + 1]
        PROVE  SeenInv'
    <3>1. \A x \in Events \ {e} : minted'[x] = minted[x]
      BY <2>0, <2>2
    <3>. QED
      BY <2>2, <3>1, NotedSeenInv
  <2>3. ASSUME NEW e \in Events, NEW active \in BOOLEAN, Refuse(e, active)
        PROVE  SeenInv'
    BY <2>2, <2>3 DEF Refuse
  <2>4. ASSUME NEW e \in Events, NEW r \in Invoices, NEW ttl \in Expiries,
               CreateFails(e, r, ttl) \/ Issue(e, r, ttl)
        PROVE  SeenInv'
    BY <2>2, <2>4 DEF CreateFails, Issue
  <2>5. ASSUME NEW e \in Events, NEW r \in Invoices, SelfTest(e, r)
        PROVE  SeenInv'
    BY <2>2, <2>5 DEF SelfTest
  <2>6. CASE Restart
    <3>1. Len(seen') = 0 /\ \A x \in Events : minted'[x] = 0 /\ since'[x] = {}
      BY <2>6 DEF Restart
    <3>2. SeenOnce'
      BY <3>1 DEF SeenOnce
    <3>3. LaterNoted'
      <4>1. \A x \in Events : IsFiniteSet(since'[x]) /\ ~(minted'[x] > 0)
        BY <3>1, FS_EmptySet
      <4>. QED
        BY <4>1 DEF LaterNoted
    <3>. QED
      BY <3>2, <3>3 DEF SeenInv
  <2>7. ASSUME NEW e \in Events, NEW p \in Payers \cup {SelfTester}, NEW a \in Amounts,
               NEW age \in -MaxClockSkew..0, Publish(e, p, a, age)
        PROVE  SeenInv'
    BY <2>1, <2>7 DEF Publish
  <2>8. ASSUME NEW r \in Invoices, Pay(r) \/ ReceiptServed(r)
        PROVE  SeenInv'
    BY <2>1, <2>8 DEF Pay, ReceiptServed
  <2>9. CASE Sweep \/ (\E n \in 0..Capacity : Drift(n)) \/ Tick
    BY <2>1, <2>9 DEF Sweep, Drift, Tick
  <2>10. CASE UNCHANGED vars
    BY <2>1, <2>10 DEF vars
  <2>. QED
    BY <2>3, <2>4, <2>5, <2>6, <2>7, <2>8, <2>9, <2>10 DEF Next
<1>. QED
  BY <1>1, <1>2, TypeCorrect, PTL DEF Spec

\* The step of MintedOnce, as a predicate on two states.
MintFits ==
  \A e \in Events : session' = session /\ minted[e] > 0 /\ minted'[e] > minted[e]
                      => Cardinality(since[e]) >= SeenMax

\* An event a relay delivers again is answered with a second invoice only after the
\* cache has dropped its id, that is after SeenMax other accepted requests.
THEOREM NeverMintedTwice == Spec => MintedOnce
<1>1. TypeOK /\ SeenInv /\ [Next]_vars => MintFits
  <2>. SUFFICES ASSUME TypeOK, SeenInv, [Next]_vars,
                       NEW x \in Events, session' = session, minted[x] > 0,
                       minted'[x] > minted[x]
                PROVE  Cardinality(since[x]) >= SeenMax
    BY DEF MintFits
  <2>0. minted \in [Events -> Nat] /\ session \in Nat /\ minted[x] \in Nat
    BY DEF TypeOK
  <2>1. CASE minted' = minted
    BY <2>0, <2>1
  <2>2. ASSUME NEW e \in Events, Noted(e), minted' = [minted EXCEPT ![e] = @ + 1]
        PROVE  Cardinality(since[x]) >= SeenMax
    <3>1. e = x
      BY <2>0, <2>2
    <3>2. ~Seen(x)
      BY <2>2, <3>1 DEF Noted
    <3>. QED
      BY <3>2 DEF SeenInv, LaterNoted
  <2>3. ASSUME NEW e \in Events, NEW active \in BOOLEAN, Refuse(e, active)
        PROVE  Cardinality(since[x]) >= SeenMax
    BY <2>1, <2>3 DEF Refuse
  <2>4. ASSUME NEW e \in Events, NEW r \in Invoices, NEW ttl \in Expiries,
               CreateFails(e, r, ttl) \/ Issue(e, r, ttl)
        PROVE  Cardinality(since[x]) >= SeenMax
    BY <2>1, <2>2, <2>4 DEF CreateFails, Issue
  <2>5. ASSUME NEW e \in Events, NEW r \in Invoices, SelfTest(e, r)
        PROVE  Cardinality(since[x]) >= SeenMax
    BY <2>2, <2>5 DEF SelfTest
  <2>6. CASE Restart
    BY <2>0, <2>6 DEF Restart
  <2>7. ASSUME NEW e \in Events, NEW p \in Payers \cup {SelfTester}, NEW a \in Amounts,
               NEW age \in -MaxClockSkew..0, Publish(e, p, a, age)
        PROVE  Cardinality(since[x]) >= SeenMax
    BY <2>1, <2>7 DEF Publish
  <2>8. ASSUME NEW r \in Invoices, Pay(r) \/ ReceiptServed(r)
        PROVE  Cardinality(since[x]) >= SeenMax
    BY <2>1, <2>8 DEF Pay, ReceiptServed
  <2>9. CASE Sweep \/ (\E n \in 0..Capacity : Drift(n)) \/ Tick
    BY <2>1, <2>9 DEF Sweep, Drift, Tick
  <2>10. CASE UNCHANGED vars
    BY <2>1, <2>10 DEF vars
  <2>. QED
    BY <2>3, <2>4, <2>5, <2>6, <2>7, <2>8, <2>9, <2>10 DEF Next
<1>2. MintFits => \A e \in Events : session' = session /\ minted[e] > 0
                                      /\ minted'[e] > minted[e]
                                      => Cardinality(since[e]) >= SeenMax
  BY DEF MintFits
<1>. QED
  BY <1>1, <1>2, TypeCorrect, SeenInvariant, PTL DEF Spec, MintedOnce
=============================================================================
