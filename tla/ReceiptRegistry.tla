--------------------------- MODULE ReceiptRegistry ---------------------------
(***************************************************************************)
(* The persisted map  rhash -> pending receipt  of src/clink/receipts.py,  *)
(* as pure operators: each one takes the map as loaded and returns the map *)
(* as saved.  ReceiptDelivery and Issuing keep such a map in a variable.   *)
(*                                                                         *)
(* Time.  The code stores absolute instants and only ever compares their   *)
(* distance to `now` with a fixed threshold, so an entry here carries the  *)
(* distances: ages that Grow with the clock and stop at the largest        *)
(* threshold they are compared with, and the time left to the invoice's    *)
(* expiry, which stops at 0.  Nothing the code tests is lost, and the map  *)
(* stays finite although the clock runs for ever.                          *)
(***************************************************************************)
EXTENDS Integers, Sequences, FiniteSets

CONSTANTS Invoices,          \* payment hashes the wallet may issue
          Payers,            \* public keys requests come from
          ResendOffsets,     \* RESEND_OFFSETS_SEC
          FailRetryBackoff,  \* FAIL_RETRY_BACKOFF_SEC
          FastRetryWindow,   \* FAST_RETRY_WINDOW_SEC
          RetryInterval,     \* RETRY_INTERVAL_SEC
          RetryMax,          \* RETRY_MAX_SEC
          MaxPending,        \* MAX_PENDING
          MaxExpiry          \* largest invoice_expiry_sec the settings accept

ASSUME RegistryAssumption ==
  /\ IsFiniteSet(Invoices)
  /\ ResendOffsets \in Seq(Nat) /\ Len(ResendOffsets) > 0
  /\ FailRetryBackoff \in Seq(Nat) /\ Len(FailRetryBackoff) > 0
  /\ FastRetryWindow \in Nat /\ RetryInterval \in Nat \ {0}
  /\ RetryMax \in Nat \ {0} /\ RetryMax >= FastRetryWindow
  /\ \A i \in 1..Len(ResendOffsets) : ResendOffsets[i] <= FastRetryWindow
  /\ MaxPending \in Nat \ {0} /\ MaxExpiry \in Nat

NoDelay == -1      \* the None of record_send and fail_retry_delay
NeverTried == -1   \* last_attempt = 0.0

TotalSends == Len(ResendOffsets) + 1

Entry == [payer      : Payers,
          expiresIn  : 0..MaxExpiry,
          due        : BOOLEAN,
          dueAge     : 0..RetryMax,
          sends      : 0..Len(ResendOffsets),
          firstAge   : 0..FastRetryWindow,
          attemptAge : {NeverTried} \cup 0..RetryInterval]

IsRegistry(es) == DOMAIN es \subseteq Invoices /\ es \in [DOMAIN es -> Entry]

Grow(age, horizon) == IF age < horizon THEN age + 1 ELSE age
Shrink(left) == IF left > 0 THEN left - 1 ELSE left

\* One unit of time passes for every instant the map holds.
Aged(es) ==
  [r \in DOMAIN es |->
     [es[r] EXCEPT
        !.expiresIn  = Shrink(@),
        !.dueAge     = IF es[r].due THEN Grow(@, RetryMax) ELSE @,
        !.firstAge   = IF es[r].sends > 0 THEN Grow(@, FastRetryWindow) ELSE @,
        !.attemptAge = IF @ = NeverTried THEN @ ELSE Grow(@, RetryInterval)]]

Without(es, S) == [r \in DOMAIN es \ S |-> es[r]]

IsOwed(es, r) == r \in DOMAIN es /\ es[r].due
UnOwed(es) == {r \in DOMAIN es : ~es[r].due}

FreshEntry(payer, ttl) ==
  [payer |-> payer, expiresIn |-> ttl, due |-> FALSE, dueAge |-> 0,
   sends |-> 0, firstAge |-> 0, attemptAge |-> NeverTried]

Remembered(es, r, payer, ttl) ==
  [x \in DOMAIN es \cup {r} |->
     IF x = r THEN FreshEntry(payer, ttl) ELSE es[x]]

\* Mutations of Evictions: one entry too few; owed entries not spared.
EvictionsOneShort(es) ==
  IF Cardinality(DOMAIN es) - MaxPending <= 1 THEN {{}}
  ELSE {{r} : r \in UnOwed(es)}
EvictionsSpareNone(es) ==
  IF Cardinality(DOMAIN es) <= MaxPending THEN {{}}
  ELSE {{r} : r \in DOMAIN es}

\* The sets _enforce_cap may evict: the soonest-to-expire un-owed entries, as
\* many as the map is over its cap.  Equal expiries fall in the dict's order,
\* which is not kept, so every choice among them is allowed.
Evictions(es) ==
  LET excess == Cardinality(DOMAIN es) - MaxPending IN
  IF excess <= 0 THEN {{}}
  ELSE {S \in SUBSET UnOwed(es) :
          /\ \/ Cardinality(S) = excess
             \/ Cardinality(S) < excess /\ S = UnOwed(es)
          /\ \A x \in S, y \in UnOwed(es) \ S : es[x].expiresIn <= es[y].expiresIn}

MarkDue(es, r) ==
  IF r \in UnOwed(es)
  THEN [es EXCEPT ![r].due = TRUE, ![r].dueAge = 0]
  ELSE es

RecordAttempt(es, r) ==
  IF r \in DOMAIN es THEN [es EXCEPT ![r].attemptAge = 0] ELSE es

\* Mutation of RecordSend: the final send does not remove the entry.
RecordSendNoEnd(es, r) ==
  IF r \notin DOMAIN es THEN es
  ELSE [es EXCEPT ![r].sends = @ + 1,
                  ![r].firstAge = IF es[r].sends = 0 THEN 0 ELSE @]

\* An accepted broadcast; the last one of the schedule removes the entry.
RecordSend(es, r) ==
  IF r \notin DOMAIN es THEN es
  ELSE IF es[r].sends = Len(ResendOffsets) THEN Without(es, {r})
  ELSE [es EXCEPT ![r].sends = @ + 1,
                  ![r].firstAge = IF es[r].sends = 0 THEN 0 ELSE @]

\* What record_send returns when called on es.
NextSendDelay(es, r) ==
  IF r \notin DOMAIN es \/ (r \in DOMAIN es /\ es[r].sends = Len(ResendOffsets))
  THEN NoDelay
  ELSE LET first == IF es[r].sends = 0 THEN 0 ELSE es[r].firstAge
           wait  == ResendOffsets[es[r].sends + 1] - first
       IN  IF wait > 0 THEN wait ELSE 0

\* The age the fast-retry window is measured from.
Anchor(e) == IF e.sends > 0 THEN e.firstAge ELSE e.dueAge

\* Mutation of FailRetryDelay: the window never closes.
FailRetryDelayAlways(es, r, streak) ==
  IF IsOwed(es, r) THEN FailRetryBackoff[Len(FailRetryBackoff)] ELSE NoDelay

FailRetryDelay(es, r, streak) ==
  IF IsOwed(es, r) /\ Anchor(es[r]) < FastRetryWindow
  THEN FailRetryBackoff[IF streak > Len(FailRetryBackoff)
                        THEN Len(FailRetryBackoff) ELSE streak]
  ELSE NoDelay

\* Mutations of the sweep: nothing is ever given up; nothing ever expires.
AbandonedNever(es) == {}
ExpiredUnpaidNever(es) == {}

Abandoned(es) == {r \in DOMAIN es : es[r].due /\ es[r].dueAge >= RetryMax}
ExpiredUnpaid(es) == {r \in UnOwed(es) : es[r].expiresIn = 0}
Swept(es) == Without(es, Abandoned(es) \cup ExpiredUnpaid(es))

\* due_targets: owed receipts whose retry or re-broadcast time has come.
DueTargets(es) ==
  {r \in DOMAIN Swept(es) :
     /\ es[r].due
     /\ \/ /\ es[r].sends > 0
           /\ es[r].firstAge >= ResendOffsets[es[r].sends]
        \/ /\ es[r].sends = 0
           /\ es[r].attemptAge = NeverTried \/ es[r].attemptAge >= RetryInterval}

\* Awaiting-payment, unexpired entries of one payer.
PendingCountFor(es, payer) ==
  Cardinality({r \in UnOwed(es) : es[r].payer = payer /\ es[r].expiresIn > 0})
=============================================================================
