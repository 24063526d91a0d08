------------------------------- MODULE Issuing -------------------------------
(***************************************************************************)
(* From a request event to an invoice: _dispatch and _issue_invoice of     *)
(* src/clink/clink_plugin.py, with the seen-events guard, the liquidity    *)
(* reservations of src/clink/liquidity.py and the persisted registry of    *)
(* src/clink/receipts.py.                                                  *)
(*                                                                         *)
(* A request is answered without an await between reading the state and    *)
(* changing it, so a Dispatch is one action.  The relay may deliver an     *)
(* event late, again, or after a restart.  A session ends with its server  *)
(* object: the seen cache and the reservations go with it, the registry    *)
(* and the wallet's requests stay.                                         *)
(***************************************************************************)
EXTENDS ReceiptRegistry, Functions

CONSTANTS Events,          \* request event ids
          Amounts,         \* sats a request asks for
          Capacity,        \* receivable at the start
          Expiries,        \* values of the setting invoice_expiry_sec
          MaxRequestAge,   \* MAX_REQUEST_AGE_SEC
          MaxClockSkew,    \* MAX_CLOCK_SKEW_SEC
          SeenMax,         \* SEEN_EVENTS_MAX
          PayerMax,        \* MAX_PENDING_PER_PAYER
          SelfTester,      \* the payer of the plugin's own self-tests
          Sessions         \* servers the wallet has had: a bound

ASSUME IssuingAssumption ==
  /\ Amounts \subseteq Nat \ {0} /\ Capacity \in Nat
  /\ Expiries \subseteq 1..MaxExpiry
  /\ MaxRequestAge \in Nat /\ MaxClockSkew \in Nat
  /\ SeenMax \in Nat \ {0} /\ PayerMax \in Nat \ {0} /\ Sessions \in Nat \ {0}

VARIABLES request,    \* the events that were published
          seen,       \* self._seen_events, oldest first
          reserved,   \* self.reserver: the reservation of an invoice
          entries,    \* the persisted registry
          invoice,    \* the wallet's requests
          capacity,   \* what the channels can receive
          session,    \* number of this session
          minted,     \* history: invoices minted for an event in this session
          since       \* history: events accepted after an event was, this session

vars == <<request, seen, reserved, entries, invoice, capacity, session,
          minted, since>>

Unsent == [payer |-> SelfTester, amount |-> 0, age |-> MaxRequestAge + 1]
NoInvoice == [status |-> "none", amount |-> 0, left |-> 0]

Init ==
  /\ request = [e \in Events |-> Unsent]
  /\ seen = <<>>
  /\ reserved = [r \in {} |-> 0]
  /\ entries = [r \in {} |-> 0]
  /\ invoice = [r \in Invoices |-> NoInvoice]
  /\ capacity = Capacity
  /\ session = 1
  /\ minted = [e \in Events |-> 0]
  /\ since = [e \in Events |-> {}]

-----------------------------------------------------------------------------
(* The gates of a request.                                                 *)

\* created_at is neither too old nor too far in the future.
Fresh(e) == request[e].amount > 0 /\ request[e].age <= MaxRequestAge
                                  /\ request[e].age >= -MaxClockSkew

Seen(e) == \E i \in 1..Len(seen) : seen[i] = e

\* Mutations of SeenWith: the cache holds one id less; no id ever makes room.
SeenWithOffByOne(e) ==
  LET longer == Append(seen, e) IN
  IF Len(longer) >= SeenMax THEN Tail(longer) ELSE longer
SeenWithForever(e) == Append(seen, e)

\* _already_seen: the id is added, the oldest one makes room.
SeenWith(e) ==
  LET longer == Append(seen, e) IN
  IF Len(longer) > SeenMax THEN Tail(longer) ELSE longer

\* A reservation of n sats that ends in `left`; ended ones are swept on reading.
LiveReservations == {r \in DOMAIN reserved : reserved[r].left > 0}
Reserved == FoldFunctionOnSet(LAMBDA x, y : x + y, 0,
                              [r \in DOMAIN reserved |-> reserved[r].amount],
                              LiveReservations)
\* Mutation of Available: reservations are not subtracted.
AvailableRaw == capacity
Available == IF capacity > Reserved THEN capacity - Reserved ELSE 0

\* resolve_request answers an error.  The offer may have been removed or switched
\* off at any time, so whether it is active is an input of each dispatch.
Acceptable(e, active) == active /\ request[e].amount <= Available
\* Mutation of UnderPayerCap: one invoice too many.
UnderPayerCapOffByOne(p) == PendingCountFor(entries, p) <= PayerMax
UnderPayerCap(p) == PendingCountFor(entries, p) < PayerMax

\* Mutation of Collected: what the registry drops stays in the wallet.
CollectedNone(inv, S) == inv

\* _delete_stale_request: unpaid requests go, expired or not.
Collected(inv, S) ==
  [r \in Invoices |-> IF r \in S /\ inv[r].status = "unpaid"
                      THEN [inv[r] EXCEPT !.status = "deleted"] ELSE inv[r]]

\* Event e passed every gate before the seen cache, and is put into it.
Noted(e) ==
  /\ Fresh(e) /\ ~Seen(e)
  /\ seen' = SeenWith(e)
  /\ since' = [x \in Events |-> IF x = e THEN {}
                                ELSE IF minted[x] > 0 THEN since[x] \cup {e}
                                ELSE since[x]]

-----------------------------------------------------------------------------
(* Requests.                                                               *)

\* A payer publishes a request, with a clock that may run ahead.
Publish(e, p, amount, age) ==
  /\ request[e] = Unsent
  /\ request' = [request EXCEPT ![e] = [payer |-> p, amount |-> amount, age |-> age]]
  /\ UNCHANGED <<seen, reserved, entries, invoice, capacity, session, minted, since>>

\* An error answer: unknown offer, no liquidity, or too many open invoices.
Refuse(e, active) ==
  /\ Noted(e)
  /\ \/ ~Acceptable(e, active)
     \/ request[e].payer # SelfTester /\ ~UnderPayerCap(request[e].payer)
  /\ UNCHANGED <<request, reserved, entries, invoice, capacity, session, minted>>

\* Creating the invoice raised: an error answer, and what create_request had
\* already stored stays in the wallet.
CreateFails(e, r, ttl) ==
  /\ Noted(e) /\ Acceptable(e, TRUE)
  /\ request[e].payer = SelfTester \/ UnderPayerCap(request[e].payer)
  /\ invoice[r].status = "none"
  /\ invoice' = [invoice EXCEPT ![r] = [status |-> "stray", amount |-> request[e].amount,
                                        left |-> ttl]]
  /\ UNCHANGED <<request, reserved, entries, capacity, session, minted>>

\* _issue_invoice: the liquidity is locked, the receipt remembered, and what the
\* registry evicts for it is collected; the reservation of an evicted one stays.
Issue(e, r, ttl) ==
  LET p == request[e].payer
      es == Remembered(entries, r, p, ttl)
      created == [invoice EXCEPT ![r] = [status |-> "unpaid", amount |-> request[e].amount,
                                         left |-> ttl]] IN
  /\ Noted(e) /\ Acceptable(e, TRUE) /\ p # SelfTester /\ UnderPayerCap(p)
  /\ invoice[r].status = "none"
  /\ minted' = [minted EXCEPT ![e] = @ + 1]
  /\ reserved' = [x \in LiveReservations \cup {r} |->
                    IF x = r THEN [amount |-> request[e].amount, left |-> ttl]
                    ELSE reserved[x]]
  /\ \E S \in Evictions(es) :
       entries' = Without(es, S) /\ invoice' = Collected(created, S)
  /\ UNCHANGED <<request, capacity, session>>

\* A self-test gets a real invoice that is unwound before the next await.
SelfTest(e, r) ==
  /\ Noted(e) /\ Acceptable(e, TRUE) /\ request[e].payer = SelfTester
  /\ invoice[r].status = "none"
  /\ invoice' = [invoice EXCEPT ![r].status = "deleted"]
  /\ minted' = [minted EXCEPT ![e] = @ + 1]
  /\ UNCHANGED <<request, reserved, entries, capacity, session>>

-----------------------------------------------------------------------------
(* Payments, sweeps, time.                                                 *)

\* Mutation of Pay: the reservation of a paid invoice stays until it expires.
PayKeepsReservation(r) ==
  /\ invoice[r].status = "unpaid" /\ invoice[r].left > 0
  /\ invoice[r].amount <= capacity
  /\ invoice' = [invoice EXCEPT ![r].status = "paid"]
  /\ capacity' = capacity - invoice[r].amount
  /\ entries' = MarkDue(entries, r)
  /\ UNCHANGED <<request, seen, reserved, session, minted, since>>

\* on_event_request_status(PR_PAID): the channels can receive less, and the
\* invoice no longer holds its reservation.
Pay(r) ==
  /\ invoice[r].status = "unpaid" /\ invoice[r].left > 0
  /\ invoice[r].amount <= capacity
  /\ invoice' = [invoice EXCEPT ![r].status = "paid"]
  /\ capacity' = capacity - invoice[r].amount
  /\ reserved' = [x \in DOMAIN reserved \ {r} |-> reserved[x]]
  /\ entries' = MarkDue(entries, r)
  /\ UNCHANGED <<request, seen, session, minted, since>>

\* The redelivery loop's sweep, and the collection of what it dropped.
Sweep ==
  /\ entries' = Swept(entries)
  /\ invoice' = Collected(invoice, ExpiredUnpaid(entries))
  /\ UNCHANGED <<request, seen, reserved, capacity, session, minted, since>>

\* A receipt's schedule is complete: see ReceiptDelivery.
ReceiptServed(r) ==
  /\ IsOwed(entries, r) /\ entries' = Without(entries, {r})
  /\ UNCHANGED <<request, seen, reserved, invoice, capacity, session, minted, since>>

\* Channels open, close and move sats for others too.
Drift(n) ==
  /\ n # capacity /\ capacity' = n
  /\ UNCHANGED <<request, seen, reserved, entries, invoice, session, minted, since>>

\* The server is replaced, or the process restarts.
Restart ==
  /\ session < Sessions /\ session' = session + 1
  /\ seen' = <<>> /\ reserved' = [r \in {} |-> 0]
  /\ minted' = [e \in Events |-> 0] /\ since' = [e \in Events |-> {}]
  /\ UNCHANGED <<request, entries, invoice, capacity>>

Tick ==
  /\ request' = [e \in Events |-> [request[e] EXCEPT !.age = IF @ <= MaxRequestAge
                                                             THEN @ + 1 ELSE @]]
  /\ reserved' = [r \in DOMAIN reserved |-> [reserved[r] EXCEPT !.left = Shrink(@)]]
  /\ entries' = Aged(entries)
  /\ invoice' = [r \in Invoices |-> [invoice[r] EXCEPT !.left = Shrink(@)]]
  /\ UNCHANGED <<seen, capacity, session, minted, since>>

Next ==
  \/ \E e \in Events, p \in Payers \cup {SelfTester}, a \in Amounts,
        age \in -MaxClockSkew..0 : Publish(e, p, a, age)
  \/ \E e \in Events, active \in BOOLEAN : Refuse(e, active)
  \/ \E e \in Events, r \in Invoices, ttl \in Expiries :
       CreateFails(e, r, ttl) \/ Issue(e, r, ttl)
  \/ \E e \in Events, r \in Invoices : SelfTest(e, r)
  \/ \E r \in Invoices : Pay(r) \/ ReceiptServed(r)
  \/ Sweep \/ (\E n \in 0..Capacity : Drift(n)) \/ Restart \/ Tick

Spec == Init /\ [][Next]_vars

-----------------------------------------------------------------------------
(* Properties.                                                             *)

Open(r) == invoice[r].status = "unpaid" /\ invoice[r].left > 0
Promised == FoldFunctionOnSet(LAMBDA x, y : x + y, 0,
                              [r \in Invoices |-> invoice[r].amount],
                              {r \in Invoices : Open(r)})

TypeOK ==
  /\ request \in [Events -> [payer : Payers \cup {SelfTester}, amount : {0} \cup Amounts,
                             age : -MaxClockSkew..MaxRequestAge + 1]]
  /\ seen \in Seq(Events) /\ Len(seen) <= SeenMax
  /\ DOMAIN reserved \subseteq Invoices
  /\ reserved \in [DOMAIN reserved -> [amount : Nat, left : 0..MaxExpiry]]
  /\ IsRegistry(entries)
  /\ invoice \in [Invoices -> [status : {"none", "unpaid", "paid", "deleted", "stray"},
                               amount : {0} \cup Amounts, left : 0..MaxExpiry]]
  /\ capacity \in 0..Capacity /\ session \in 1..Sessions
  /\ minted \in [Events -> Nat] /\ since \in [Events -> SUBSET Events]

\* An invoice is issued only when the channels can receive it and every invoice
\* of the session that is still open, however requests, payments, expiries and
\* the channels' own changes interleave.
NoOvercommit ==
  [][session' = 1 /\ Promised' > Promised => Promised' <= capacity']_vars

\* The same, said of every session: the documentation makes no exception.
NeverOvercommitted == [][Promised' > Promised => Promised' <= capacity']_vars

\* The reservations are those of the invoices: in one session every open invoice
\* holds its own amount to its own expiry, and in no session does a paid one hold
\* any, which would subtract its sats from the channels a second time.
ReservationsMatch ==
  /\ session = 1 => \A r \in Invoices : Open(r) =>
       /\ r \in LiveReservations
       /\ reserved[r] = [amount |-> invoice[r].amount, left |-> invoice[r].left]
  /\ \A r \in LiveReservations : invoice[r].status # "paid"

\* However often a relay delivers an event, a second invoice for it in the same
\* session needs SeenMax other accepted requests since it was last accepted.
MintedOnce ==
  [][\A e \in Events : session' = session /\ minted[e] > 0 /\ minted'[e] > minted[e]
                         => Cardinality(since[e]) >= SeenMax]_vars

\* An unpaid request of the wallet always has the registry entry that will have it
\* collected: eviction, expiry and restarts leave none behind to grow the wallet.
RequestsTracked == \A r \in Invoices : invoice[r].status = "unpaid" => r \in DOMAIN entries

\* A payer never has more open invoices than its cap, restarts included.
PayerCapHeld == \A p \in Payers : PendingCountFor(entries, p) <= PayerMax
=============================================================================
