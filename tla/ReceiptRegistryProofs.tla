------------------------ MODULE ReceiptRegistryProofs ------------------------
(***************************************************************************)
(* Lemmas about the operators of ReceiptRegistry, for every map, schedule, *)
(* window, interval and cap: they keep the map's type, what they leave     *)
(* alone, and how they change what one payer has open.  The theorems about *)
(* ReceiptDelivery and Issuing rest on them.                               *)
(***************************************************************************)
EXTENDS ReceiptRegistry, FiniteSetTheorems, TLAPS

-----------------------------------------------------------------------------
(* The registry's operators keep the registry's type.                      *)

\* Dropping entries, as a sweep, an eviction and a final send do.
LEMMA WithoutType ==
  ASSUME NEW es, IsRegistry(es), NEW S
  PROVE  IsRegistry(Without(es, S))
  BY DEF IsRegistry, Without

\* A stamped attempt.
LEMMA AttemptType ==
  ASSUME NEW es, IsRegistry(es), NEW r \in Invoices
  PROVE  IsRegistry(RecordAttempt(es, r)) /\ DOMAIN RecordAttempt(es, r) = DOMAIN es
<1>1. CASE r \in DOMAIN es
  <2>1. es[r] \in Entry /\ 0 \in 0..RetryInterval
    BY <1>1, RegistryAssumption DEF IsRegistry
  <2>2. [es[r] EXCEPT !.attemptAge = 0] \in Entry
    BY <2>1 DEF Entry
  <2>3. RecordAttempt(es, r) = [es EXCEPT ![r] = [es[r] EXCEPT !.attemptAge = 0]]
    BY <1>1 DEF RecordAttempt
  <2>. QED
    BY <2>2, <2>3 DEF IsRegistry
<1>2. CASE r \notin DOMAIN es
  BY <1>2 DEF RecordAttempt
<1>. QED
  BY <1>1, <1>2

\* A payment.
LEMMA MarkDueType ==
  ASSUME NEW es, IsRegistry(es), NEW r \in Invoices
  PROVE  IsRegistry(MarkDue(es, r)) /\ DOMAIN MarkDue(es, r) = DOMAIN es
<1>1. CASE r \in UnOwed(es)
  <2>1. es[r] \in Entry /\ 0 \in 0..RetryMax
    BY <1>1, RegistryAssumption DEF IsRegistry, UnOwed
  <2>2. [es[r] EXCEPT !.due = TRUE, !.dueAge = 0] \in Entry
    BY <2>1 DEF Entry
  <2>3. MarkDue(es, r) = [es EXCEPT ![r] = [es[r] EXCEPT !.due = TRUE, !.dueAge = 0]]
    BY <1>1 DEF MarkDue, UnOwed
  <2>. QED
    BY <2>2, <2>3 DEF IsRegistry
<1>2. CASE r \notin UnOwed(es)
  BY <1>2 DEF MarkDue
<1>. QED
  BY <1>1, <1>2

\* An acknowledged broadcast.
LEMMA SendType ==
  ASSUME NEW es, IsRegistry(es), NEW r \in Invoices
  PROVE  IsRegistry(RecordSend(es, r))
<1>1. CASE r \notin DOMAIN es
  BY <1>1 DEF RecordSend
<1>2. CASE r \in DOMAIN es /\ es[r].sends = Len(ResendOffsets)
  BY <1>2, WithoutType DEF RecordSend
<1>3. CASE r \in DOMAIN es /\ es[r].sends # Len(ResendOffsets)
  <2>1. /\ Len(ResendOffsets) \in Nat /\ es[r] \in Entry
        /\ es[r].sends + 1 \in 0..Len(ResendOffsets)
        /\ 0 \in 0..FastRetryWindow
    BY <1>3, RegistryAssumption, SMTT(30) DEF IsRegistry, Entry
  <2>. DEFINE first == IF es[r].sends = 0 THEN 0 ELSE es[r].firstAge
              e == [es[r] EXCEPT !.sends = es[r].sends + 1, !.firstAge = first]
  <2>2. e \in Entry
    BY <2>1 DEF Entry
  <2>3. RecordSend(es, r) = [es EXCEPT ![r] = e]
    BY <1>3 DEF RecordSend
  <2>. HIDE DEF e
  <2>. QED
    BY <2>2, <2>3 DEF IsRegistry
<1>. QED
  BY <1>1, <1>2, <1>3

\* Ages and countdowns stay within their horizon.
LEMMA GrowType ==
  ASSUME NEW h \in Nat, NEW a \in 0..h
  PROVE  Grow(a, h) \in 0..h /\ Shrink(a) \in 0..h
  BY DEF Grow, Shrink

\* A tick of the clock.
LEMMA AgedType ==
  ASSUME NEW es, IsRegistry(es)
  PROVE  IsRegistry(Aged(es)) /\ DOMAIN Aged(es) = DOMAIN es
<1>1. DOMAIN Aged(es) = DOMAIN es
  BY DEF Aged
<1>2. ASSUME NEW r \in DOMAIN es
      PROVE  Aged(es)[r] \in Entry
  <2>1. es[r] \in Entry
    BY <1>2 DEF IsRegistry
  <2>2. /\ MaxExpiry \in Nat /\ RetryMax \in Nat /\ FastRetryWindow \in Nat
        /\ RetryInterval \in Nat
    BY RegistryAssumption
  <2>3. /\ Shrink(es[r].expiresIn) \in 0..MaxExpiry
        /\ Grow(es[r].dueAge, RetryMax) \in 0..RetryMax
        /\ Grow(es[r].firstAge, FastRetryWindow) \in 0..FastRetryWindow
        /\ es[r].attemptAge # NeverTried =>
             Grow(es[r].attemptAge, RetryInterval) \in 0..RetryInterval
    <3>1. /\ es[r].expiresIn \in 0..MaxExpiry /\ es[r].dueAge \in 0..RetryMax
          /\ es[r].firstAge \in 0..FastRetryWindow
      BY <2>1 DEF Entry
    <3>2. es[r].attemptAge # NeverTried => es[r].attemptAge \in 0..RetryInterval
      BY <2>1 DEF Entry
    <3>. QED
      BY <2>2, <3>1, <3>2, GrowType
  <2>. QED
    BY <1>2, <2>1, <2>3 DEF Aged, Entry
<1>. QED
  BY <1>1, <1>2 DEF IsRegistry, Aged

\* A newly issued invoice.
LEMMA RememberedType ==
  ASSUME NEW es, IsRegistry(es), NEW r \in Invoices, NEW p \in Payers,
         NEW ttl \in 0..MaxExpiry
  PROVE  /\ IsRegistry(Remembered(es, r, p, ttl))
         /\ DOMAIN Remembered(es, r, p, ttl) = DOMAIN es \cup {r}
         /\ r \in UnOwed(Remembered(es, r, p, ttl))
  BY RegistryAssumption
     DEF IsRegistry, Remembered, FreshEntry, Entry, UnOwed, NeverTried

\* Both delays are a number of seconds, or none.
LEMMA DelayType ==
  ASSUME NEW es, IsRegistry(es), NEW r \in Invoices, NEW k \in Nat \ {0}
  PROVE  /\ NextSendDelay(es, r) \in Nat \cup {NoDelay}
         /\ FailRetryDelay(es, r, k) \in Nat \cup {NoDelay}
<1>1. NextSendDelay(es, r) \in Nat \cup {NoDelay}
  <2>1. CASE r \in DOMAIN es /\ es[r].sends # Len(ResendOffsets)
    <3>1. /\ Len(ResendOffsets) \in Nat
          /\ es[r].sends + 1 \in 1..Len(ResendOffsets)
          /\ es[r].firstAge \in Nat
      BY <2>1, RegistryAssumption, SMTT(30) DEF IsRegistry, Entry
    <3>2. ResendOffsets[es[r].sends + 1] \in Nat
      BY <3>1, RegistryAssumption, SMTT(30)
    <3>. QED
      BY <2>1, <3>1, <3>2 DEF NextSendDelay
  <2>2. CASE ~(r \in DOMAIN es /\ es[r].sends # Len(ResendOffsets))
    BY <2>2 DEF NextSendDelay
  <2>. QED
    BY <2>1, <2>2
<1>2. FailRetryDelay(es, r, k) \in Nat \cup {NoDelay}
  BY RegistryAssumption DEF FailRetryDelay
<1>. QED
  BY <1>1, <1>2

-----------------------------------------------------------------------------
(* What the operators leave alone.                                         *)

\* An entry's fields that the invariant looks at survive a stamp and a tick.
LEMMA AttemptKeeps ==
  ASSUME NEW es, IsRegistry(es), NEW r \in Invoices
  PROVE  \A x \in DOMAIN es : /\ RecordAttempt(es, r)[x].due = es[x].due
                              /\ RecordAttempt(es, r)[x].sends = es[x].sends
                              /\ RecordAttempt(es, r)[x].dueAge = es[x].dueAge
<1>1. CASE r \in DOMAIN es
  <2>1. RecordAttempt(es, r) = [es EXCEPT ![r] = [es[r] EXCEPT !.attemptAge = 0]]
    BY <1>1 DEF RecordAttempt
  <2>2. es[r] \in Entry
    BY <1>1 DEF IsRegistry
  <2>. QED
    BY <2>1, <2>2 DEF IsRegistry, Entry
<1>2. CASE r \notin DOMAIN es
  BY <1>2 DEF RecordAttempt
<1>. QED
  BY <1>1, <1>2

LEMMA AgedKeeps ==
  ASSUME NEW es, IsRegistry(es)
  PROVE  \A x \in DOMAIN es : /\ Aged(es)[x].due = es[x].due
                              /\ Aged(es)[x].sends = es[x].sends
<1>. SUFFICES ASSUME NEW x \in DOMAIN es
              PROVE  Aged(es)[x].due = es[x].due /\ Aged(es)[x].sends = es[x].sends
  OBVIOUS
<1>1. es[x] \in Entry
  BY DEF IsRegistry
<1>. QED
  BY <1>1 DEF Aged, Entry

LEMMA MarkDueKeeps ==
  ASSUME NEW es, IsRegistry(es), NEW r \in DOMAIN es
  PROVE  /\ MarkDue(es, r)[r].due
         /\ \A x \in DOMAIN es : MarkDue(es, r)[x].sends = es[x].sends
         /\ \A x \in DOMAIN es \ {r} : MarkDue(es, r)[x] = es[x]
<1>1. es[r] \in Entry /\ r \in Invoices
  BY DEF IsRegistry
<1>2. CASE r \in UnOwed(es)
  <2>1. MarkDue(es, r) = [es EXCEPT ![r] = [es[r] EXCEPT !.due = TRUE, !.dueAge = 0]]
    BY <1>2 DEF MarkDue
  <2>. QED
    BY <1>1, <2>1, ZenonT(60) DEF IsRegistry, Entry
<1>3. CASE r \notin UnOwed(es)
  BY <1>1, <1>3 DEF MarkDue, UnOwed
<1>. QED
  BY <1>2, <1>3

LEMMA SendKeeps ==
  ASSUME NEW es, IsRegistry(es), NEW r \in DOMAIN es
  PROVE  LET new == RecordSend(es, r) IN
         /\ DOMAIN new \subseteq DOMAIN es
         /\ DOMAIN es \ {r} \subseteq DOMAIN new
         /\ \A x \in DOMAIN new \ {r} : new[x] = es[x]
         /\ r \in DOMAIN new => /\ new[r].sends = es[r].sends + 1
                              /\ new[r].due = es[r].due
                              /\ new[r].dueAge = es[r].dueAge
         /\ r \notin DOMAIN new => es[r].sends = Len(ResendOffsets)
<1>. es[r] \in Entry /\ r \in Invoices
  BY DEF IsRegistry
<1>1. CASE es[r].sends = Len(ResendOffsets)
  BY <1>1 DEF RecordSend, Without
<1>2. CASE es[r].sends # Len(ResendOffsets)
  <2>. DEFINE first == IF es[r].sends = 0 THEN 0 ELSE es[r].firstAge
              e == [es[r] EXCEPT !.sends = es[r].sends + 1, !.firstAge = first]
  <2>1. RecordSend(es, r) = [es EXCEPT ![r] = e]
    BY <1>2 DEF RecordSend
  <2>2. e.sends = es[r].sends + 1 /\ e.due = es[r].due /\ e.dueAge = es[r].dueAge
    BY DEF Entry
  <2>. HIDE DEF e
  <2>. QED
    BY <2>1, <2>2 DEF IsRegistry
<1>. QED
  BY <1>1, <1>2

\* A tick ages no receipt that is not owed.
LEMMA AgedLeavesUnowed ==
  ASSUME NEW es, IsRegistry(es), NEW x \in DOMAIN es, ~es[x].due
  PROVE  Aged(es)[x].dueAge = es[x].dueAge
<1>1. es[x] \in Entry
  BY DEF IsRegistry
<1>. QED
  BY <1>1 DEF Aged, Entry

\* A payment restarts the clock of a receipt not owed before, and of no other.
LEMMA MarkDueClock ==
  ASSUME NEW es, IsRegistry(es), NEW r \in DOMAIN es
  PROVE  MarkDue(es, r)[r].dueAge = IF es[r].due THEN es[r].dueAge ELSE 0
<1>1. es[r] \in Entry /\ r \in Invoices
  BY DEF IsRegistry
<1>2. CASE r \in UnOwed(es)
  <2>1. MarkDue(es, r) = [es EXCEPT ![r] = [es[r] EXCEPT !.due = TRUE, !.dueAge = 0]]
    BY <1>2 DEF MarkDue
  <2>. QED
    BY <1>1, <1>2, <2>1 DEF IsRegistry, Entry, UnOwed
<1>3. CASE r \notin UnOwed(es)
  BY <1>1, <1>3 DEF MarkDue, UnOwed
<1>. QED
  BY <1>2, <1>3

-----------------------------------------------------------------------------
(* The cap.                                                                *)

\* A map one over the cap and with an entry that may go is cut to the cap,
\* whichever of the soonest-to-expire entries _enforce_cap takes.
LEMMA EvictionsMakeRoom ==
  ASSUME NEW es, IsRegistry(es), Cardinality(DOMAIN es) <= MaxPending + 1,
         UnOwed(es) # {}, NEW S \in Evictions(es)
  PROVE  Cardinality(DOMAIN Without(es, S)) <= MaxPending
<1>1. /\ IsFiniteSet(DOMAIN es) /\ Cardinality(DOMAIN es) \in Nat
      /\ MaxPending \in Nat
  BY RegistryAssumption, FS_Subset, FS_CardinalityType DEF IsRegistry
<1>2. DOMAIN Without(es, S) = DOMAIN es \ S
  BY DEF Without
<1>3. CASE Cardinality(DOMAIN es) <= MaxPending
  <2>1. Cardinality(DOMAIN es) - MaxPending <= 0
    BY <1>1, <1>3
  <2>2. S = {}
    BY <2>1 DEF Evictions
  <2>3. DOMAIN es \ S = DOMAIN es
    BY <2>2
  <2>. QED
    BY <1>2, <1>3, <2>3
<1>4. CASE ~(Cardinality(DOMAIN es) <= MaxPending)
  <2>1. Cardinality(DOMAIN es) - MaxPending = 1
    BY <1>1, <1>4
  <2>2. /\ S \subseteq UnOwed(es)
        /\ Cardinality(S) = 1 \/ (Cardinality(S) < 1 /\ S = UnOwed(es))
    BY <2>1 DEF Evictions
  <2>3. S \subseteq DOMAIN es /\ IsFiniteSet(S) /\ Cardinality(S) \in Nat
    BY <1>1, <2>2, FS_Subset, FS_CardinalityType DEF UnOwed
  <2>4. Cardinality(S) = 1
    <3>1. Cardinality(S) = 0 => S = {}
      BY <2>3, FS_EmptySet
    <3>2. Cardinality(S) = 0 => S = UnOwed(es)
      BY <2>2, <2>3
    <3>. QED
      BY <2>2, <2>3, <3>1, <3>2
  <2>5. Cardinality(DOMAIN es \ S) = Cardinality(DOMAIN es) - 1
    <3>1. DOMAIN es \cap S = S
      BY <2>3
    <3>2. Cardinality(DOMAIN es \ S)
            = Cardinality(DOMAIN es) - Cardinality(DOMAIN es \cap S)
      BY <1>1, FS_Difference, Zenon
    <3>3. Cardinality(DOMAIN es \cap S) = 1
      BY <2>4, <3>1, Zenon
    <3>. QED
      BY <3>2, <3>3
  <2>. QED
    BY <1>1, <1>2, <2>1, <2>5
<1>. QED
  BY <1>3, <1>4

-----------------------------------------------------------------------------
(* The open invoices of a payer.                                           *)

PendingOf(es, p) == {r \in UnOwed(es) : es[r].payer = p /\ es[r].expiresIn > 0}

LEMMA PendingFinite ==
  ASSUME NEW es, IsRegistry(es), NEW p
  PROVE  /\ IsFiniteSet(PendingOf(es, p))
         /\ PendingCountFor(es, p) = Cardinality(PendingOf(es, p))
         /\ PendingCountFor(es, p) \in Nat
<1>1. PendingOf(es, p) \subseteq Invoices
  BY DEF PendingOf, UnOwed, IsRegistry
<1>2. IsFiniteSet(PendingOf(es, p))
  BY <1>1, RegistryAssumption, FS_Subset
<1>3. PendingCountFor(es, p) = Cardinality(PendingOf(es, p))
  BY DEF PendingCountFor, PendingOf
<1>. QED
  BY <1>2, <1>3, FS_CardinalityType

\* A map with no new open invoice of a payer counts no more of them.
LEMMA PendingNoMore ==
  ASSUME NEW es, IsRegistry(es), NEW new, NEW p,
         PendingOf(new, p) \subseteq PendingOf(es, p)
  PROVE  PendingCountFor(new, p) <= PendingCountFor(es, p)
<1>1. Cardinality(PendingOf(new, p)) <= Cardinality(PendingOf(es, p))
  BY PendingFinite, FS_Subset
<1>2. PendingCountFor(new, p) = Cardinality(PendingOf(new, p))
  BY DEF PendingCountFor, PendingOf
<1>. QED
  BY <1>1, <1>2, PendingFinite

\* Dropping entries, a payment and time open no invoice.
LEMMA PendingWithout ==
  ASSUME NEW es, IsRegistry(es), NEW S, NEW p
  PROVE  PendingCountFor(Without(es, S), p) <= PendingCountFor(es, p)
<1>1. PendingOf(Without(es, S), p) \subseteq PendingOf(es, p)
  BY DEF PendingOf, Without, UnOwed
<1>. QED
  BY <1>1, PendingNoMore

LEMMA PendingMarkDue ==
  ASSUME NEW es, IsRegistry(es), NEW r \in Invoices, NEW p
  PROVE  PendingCountFor(MarkDue(es, r), p) <= PendingCountFor(es, p)
<1>1. CASE r \in UnOwed(es)
  <2>1. /\ DOMAIN MarkDue(es, r) = DOMAIN es
        /\ MarkDue(es, r)[r].due
        /\ \A x \in DOMAIN es \ {r} : MarkDue(es, r)[x] = es[x]
    BY <1>1, MarkDueType, MarkDueKeeps DEF UnOwed
  <2>2. PendingOf(MarkDue(es, r), p) \subseteq PendingOf(es, p)
    BY <2>1 DEF PendingOf, UnOwed
  <2>. QED
    BY <2>2, PendingNoMore
<1>2. CASE r \notin UnOwed(es)
  <2>1. MarkDue(es, r) = es
    BY <1>2 DEF MarkDue
  <2>. QED
    BY <2>1, PendingNoMore
<1>. QED
  BY <1>1, <1>2

LEMMA PendingAged ==
  ASSUME NEW es, IsRegistry(es), NEW p
  PROVE  PendingCountFor(Aged(es), p) <= PendingCountFor(es, p)
<1>1. \A x \in DOMAIN es : /\ Aged(es)[x].due = es[x].due
                           /\ Aged(es)[x].payer = es[x].payer
                           /\ Aged(es)[x].expiresIn = Shrink(es[x].expiresIn)
  <2>. SUFFICES ASSUME NEW x \in DOMAIN es
                PROVE  /\ Aged(es)[x].due = es[x].due
                       /\ Aged(es)[x].payer = es[x].payer
                       /\ Aged(es)[x].expiresIn = Shrink(es[x].expiresIn)
    OBVIOUS
  <2>1. es[x] \in Entry
    BY DEF IsRegistry
  <2>. QED
    BY <2>1 DEF Aged, Entry
<1>2. \A x \in DOMAIN es : es[x].expiresIn \in Nat
  BY RegistryAssumption DEF IsRegistry, Entry
<1>3. \A x \in DOMAIN es : Shrink(es[x].expiresIn) > 0 => es[x].expiresIn > 0
  BY <1>2 DEF Shrink
<1>4. PendingOf(Aged(es), p) \subseteq PendingOf(es, p)
  BY <1>1, <1>3, AgedType DEF PendingOf, UnOwed
<1>. QED
  BY <1>4, PendingNoMore

\* An issued invoice is one more for its payer and none for anyone else.
LEMMA PendingRemembered ==
  ASSUME NEW es, IsRegistry(es), NEW r \in Invoices, NEW q \in Payers,
         NEW ttl \in 0..MaxExpiry, NEW p
  PROVE  /\ PendingCountFor(Remembered(es, r, q, ttl), p) <= PendingCountFor(es, p) + 1
         /\ p # q => PendingCountFor(Remembered(es, r, q, ttl), p) <= PendingCountFor(es, p)
<1>. DEFINE new == Remembered(es, r, q, ttl)
<1>1. /\ DOMAIN new = DOMAIN es \cup {r}
      /\ new[r].payer = q
      /\ \A x \in DOMAIN es \ {r} : new[x] = es[x]
  BY DEF Remembered, FreshEntry
<1>. HIDE DEF new
<1>2. PendingOf(new, p) \subseteq PendingOf(es, p) \cup {r}
  BY <1>1 DEF PendingOf, UnOwed
<1>3. p # q => PendingOf(new, p) \subseteq PendingOf(es, p)
  BY <1>1 DEF PendingOf, UnOwed
<1>4. /\ IsFiniteSet(PendingOf(es, p) \cup {r})
      /\ Cardinality(PendingOf(es, p) \cup {r}) <= Cardinality(PendingOf(es, p)) + 1
  <2>1. IsFiniteSet(PendingOf(es, p))
    BY PendingFinite
  <2>2. Cardinality(PendingOf(es, p)) \in Nat
    BY <2>1, FS_CardinalityType
  <2>3. /\ IsFiniteSet(PendingOf(es, p) \cup {r})
        /\ \/ Cardinality(PendingOf(es, p) \cup {r}) = Cardinality(PendingOf(es, p))
           \/ Cardinality(PendingOf(es, p) \cup {r}) = Cardinality(PendingOf(es, p)) + 1
    BY <2>1, FS_AddElement
  <2>. QED
    BY <2>2, <2>3
<1>5. Cardinality(PendingOf(new, p)) <= Cardinality(PendingOf(es, p) \cup {r})
  BY <1>2, <1>4, FS_Subset
<1>6. IsRegistry(new)
  BY RememberedType DEF new
<1>7. PendingCountFor(new, p) <= PendingCountFor(es, p) + 1
  <2>1. PendingCountFor(new, p) = Cardinality(PendingOf(new, p))
    BY <1>6, PendingFinite
  <2>2. /\ PendingCountFor(es, p) = Cardinality(PendingOf(es, p))
        /\ Cardinality(PendingOf(new, p)) \in Nat /\ Cardinality(PendingOf(es, p)) \in Nat
    BY <1>6, PendingFinite, FS_CardinalityType
  <2>3. Cardinality(PendingOf(es, p) \cup {r}) \in Nat
    BY <1>4, FS_CardinalityType
  <2>. QED
    BY <1>4, <1>5, <2>1, <2>2, <2>3
<1>8. p # q => PendingCountFor(new, p) <= PendingCountFor(es, p)
  BY <1>3, PendingNoMore
<1>. QED
  BY <1>7, <1>8 DEF new
=============================================================================
