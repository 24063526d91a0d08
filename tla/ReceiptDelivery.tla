--------------------------- MODULE ReceiptDelivery ---------------------------
(***************************************************************************)
(* How the receipt of a paid invoice reaches the relay: the runtime half   *)
(* of src/clink/clink_plugin.py around the registry.  One event loop runs  *)
(*   - the paid-invoice callback, whose delivery is started OUTSIDE the    *)
(*     listener's task group and so survives a listener restart,           *)
(*   - the redelivery loop and the re-broadcast/retry tails, which live IN *)
(*     the task group and are cancelled with it,                           *)
(*   - the listener, which is up; closing its manager after an exception,  *)
(*     then in backoff without one (self.taskgroup naming the finished     *)
(*     group all along); down (no manager, no group); rebuilding (manager, *)
(*     no group); or off (no server for this wallet).                      *)
(* A coroutine runs without interruption up to its next await, so every    *)
(* action below is the code between two awaits: a publish in flight or a   *)
(* sleep ends it.                                                          *)
(***************************************************************************)
EXTENDS ReceiptRegistry

CONSTANTS Expiries,         \* invoice expiries in use
          DuplicateEvents   \* may Electrum report PR_PAID more than once?

ASSUME DeliveryAssumption ==
  /\ Expiries \subseteq 0..MaxExpiry
  /\ DuplicateEvents \in BOOLEAN

VARIABLES entries,       \* the persisted registry
          requests,      \* the wallet's payment requests, by rhash
          listener,      \* self.taskgroup / self.manager, see above
          receiptTails,  \* self._receipt_tails, the one-tail-per-rhash guard
          tail,          \* the sleeping tail task of an rhash
          flights,       \* publishes awaiting the relay's verdict
          loop,          \* the _redeliver_receipts task
          acked          \* history: accepted publishes per invoice

persisted == <<entries, requests>>
vars == <<entries, requests, listener, receiptTails, tail, flights, loop, acked>>

Origins == {"event", "tail", "loop", "orphan"}
Streaks == 0..Len(FailRetryBackoff)
Flight == [rhash : Invoices, by : Origins, streak : Streaks]
Delays == Nat
TailTask == [sleeping : BOOLEAN, left : Delays, streak : Streaks, fresh : BOOLEAN]
NoTail == [sleeping |-> FALSE, left |-> 0, streak |-> 0, fresh |-> FALSE]
LoopTask == [pc : {"off", "sleep", "drain", "busy"},
             queue : SUBSET Invoices, left : 0..RetryInterval]
NoLoop == [pc |-> "off", queue |-> {}, left |-> 0]
MaxAcked == TotalSends + 1   \* where the history count stops

Up == listener = "up"
HasManager == listener \in {"up", "closing", "rebuilding"}
HasTaskgroup == listener \in {"up", "closing", "backoff"}
Grouped(f) == f.by \in {"tail", "loop"}
\* While the redelivery loop works through its list nothing else runs: between
\* two publishes it has no await.
Quiet == loop.pc # "drain"
InFlight(r) == \E f \in flights : f.rhash = r

Init ==
  /\ entries = [r \in {} |-> {}]
  /\ requests = [r \in Invoices |-> "none"]
  /\ listener = "off"
  /\ receiptTails = {}
  /\ tail = [r \in Invoices |-> NoTail]
  /\ flights = {}
  /\ loop = NoLoop
  /\ acked = [r \in Invoices |-> 0]

-----------------------------------------------------------------------------
(* Pieces the actions share.                                               *)

\* Mutation of Collected: nothing is deleted.
CollectedNothing(reqs, S) == reqs

\* _delete_stale_request on every hash of S: only unpaid requests go.
Collected(reqs, S) ==
  [r \in Invoices |-> IF r \in S /\ reqs[r] = "unpaid" THEN "deleted" ELSE reqs[r]]

\* _schedule_receipt_rebroadcast; no delay means nothing to schedule.  In a
\* finished group the guard is taken, then the spawn raises and starts nothing.
ScheduleTail(r, by, delay, streak) ==
  IF /\ delay # NoDelay /\ by # "orphan"
     /\ HasTaskgroup /\ r \notin receiptTails
  THEN /\ receiptTails' = receiptTails \cup {r}
       /\ tail' = IF Up
                  THEN [tail EXCEPT ![r] = [sleeping |-> TRUE, left |-> delay,
                                            streak |-> streak, fresh |-> TRUE]]
                  ELSE tail
  ELSE UNCHANGED <<receiptTails, tail>>

\* _deliver_receipt up to its await: the attempt is stamped first, and the
\* publish starts only if there is a manager.  An identical publish already
\* in flight is a bound of the model (flights is a set).
Deliver(es, r, by, streak) ==
  LET f == [rhash |-> r, by |-> by, streak |-> streak] IN
  /\ entries' = RecordAttempt(es, r)
  /\ IF HasManager
     THEN f \notin flights /\ flights' = flights \cup {f}
     ELSE UNCHANGED flights

\* The task group's children are gone; a tail cancelled before its first step
\* never runs its `finally`, so its guard stays behind.
CancelGroup ==
  /\ tail' = [r \in Invoices |-> NoTail]
  /\ flights' = {f \in flights : ~Grouped(f)}
  /\ loop' = NoLoop

-----------------------------------------------------------------------------
(* The wallet and the payer.                                               *)

\* _issue_invoice from create_request on, as far as the registry goes.
Issue(r, p, ttl) ==
  /\ Quiet /\ Up
  /\ requests[r] = "none"
  /\ LET es == Remembered(entries, r, p, ttl)
         created == [requests EXCEPT ![r] = "unpaid"] IN
     \E S \in Evictions(es) :
       /\ entries' = Without(es, S)
       /\ requests' = Collected(created, S)
  /\ UNCHANGED <<listener, receiptTails, tail, flights, loop, acked>>

\* on_event_request_status(PR_PAID): owed first, then a best-effort delivery.
Pay(r) ==
  /\ Quiet /\ listener # "off"
  /\ \/ requests[r] = "unpaid"
     \/ requests[r] = "paid" /\ DuplicateEvents
  /\ requests' = [requests EXCEPT ![r] = "paid"]
  /\ IF r \in DOMAIN entries
     THEN Deliver(MarkDue(entries, r), r, "event", 0)
     ELSE UNCHANGED <<entries, flights>>
  /\ UNCHANGED <<listener, receiptTails, tail, loop, acked>>

\* The wallet is paid while no server listens to its events.
PayUnheard(r) ==
  /\ listener = "off"
  /\ requests[r] = "unpaid"
  /\ requests' = [requests EXCEPT ![r] = "paid"]
  /\ UNCHANGED <<entries, listener, receiptTails, tail, flights, loop, acked>>

-----------------------------------------------------------------------------
(* The end of a publish.                                                   *)

LoopAfter(f) ==
  loop' = IF f.by = "loop" THEN [loop EXCEPT !.pc = "drain"] ELSE loop

\* OK true: record_send, then the tail for the next offset.
FlightAccepted(f) ==
  /\ Quiet /\ f \in flights
  /\ flights' = flights \ {f}
  /\ acked' = [acked EXCEPT ![f.rhash] = Grow(@, MaxAcked)]
  /\ entries' = RecordSend(entries, f.rhash)
  /\ ScheduleTail(f.rhash, f.by, NextSendDelay(entries, f.rhash), 0)
  /\ LoopAfter(f)
  /\ UNCHANGED <<requests, listener>>

\* Mutation of FlightFailed: a rejection is taken for an accepted broadcast.
FlightRejectedAsSent(f) ==
  /\ Quiet /\ f \in flights
  /\ flights' = flights \ {f}
  /\ entries' = RecordSend(entries, f.rhash)
  /\ ScheduleTail(f.rhash, f.by, NextSendDelay(entries, f.rhash), 0)
  /\ LoopAfter(f)
  /\ UNCHANGED <<requests, listener, acked>>

\* A rejection, a timeout or a connection error: back off inside the window.
FlightFailed(f) ==
  LET streak == IF f.streak < Len(FailRetryBackoff) THEN f.streak + 1 ELSE f.streak IN
  /\ Quiet /\ f \in flights
  /\ flights' = flights \ {f}
  /\ ScheduleTail(f.rhash, f.by,
                  FailRetryDelay(entries, f.rhash, f.streak + 1), streak)
  /\ LoopAfter(f)
  /\ UNCHANGED <<entries, requests, listener, acked>>

-----------------------------------------------------------------------------
(* The tails and the redelivery loop.                                      *)

\* _rebroadcast_receipt_later after its sleep.
TailFires(r) ==
  /\ Quiet /\ tail[r].sleeping /\ tail[r].left = 0
  /\ tail' = [tail EXCEPT ![r] = NoTail]
  /\ receiptTails' = receiptTails \ {r}
  /\ IF IsOwed(entries, r)
     THEN Deliver(entries, r, "tail", tail[r].streak)
     ELSE UNCHANGED <<entries, flights>>
  /\ UNCHANGED <<requests, listener, loop, acked>>

\* Top of the while loop: sweep, collect, and take the due targets ONCE.
LoopPass ==
  /\ loop.pc = "sleep" /\ loop.left = 0
  /\ entries' = Swept(entries)
  /\ requests' = Collected(requests, ExpiredUnpaid(entries))
  /\ loop' = [pc |-> "drain", queue |-> DueTargets(entries), left |-> 0]
  /\ UNCHANGED <<listener, receiptTails, tail, flights, acked>>

\* The next target of the list is delivered, whatever happened to it since.
LoopDelivers(r) ==
  /\ loop.pc = "drain" /\ r \in loop.queue
  /\ Deliver(entries, r, "loop", 0)
  /\ loop' = [loop EXCEPT !.pc = IF HasManager THEN "busy" ELSE "drain",
                          !.queue = @ \ {r}]
  /\ UNCHANGED <<requests, listener, receiptTails, tail, acked>>

LoopSleeps ==
  /\ loop.pc = "drain" /\ loop.queue = {}
  /\ loop' = [loop EXCEPT !.pc = "sleep", !.left = RetryInterval]
  /\ UNCHANGED <<entries, requests, listener, receiptTails, tail, flights, acked>>

-----------------------------------------------------------------------------
(* The listener's life.                                                    *)

\* run() enters the task group with a manager; the loop's first pass is due.
GroupStarts ==
  /\ listener = "rebuilding"
  /\ listener' = "up"
  /\ loop' = [NoLoop EXCEPT !.pc = "sleep"]
  /\ UNCHANGED <<entries, requests, receiptTails, tail, flights, acked>>

\* refresh_manager builds and connects a manager.
ManagerBuilt ==
  /\ listener = "down"
  /\ listener' = "rebuilding"
  /\ UNCHANGED <<entries, requests, receiptTails, tail, flights, loop, acked>>

\* Ended by a requested restart, or by an exception.
GroupEnds ==
  /\ Quiet /\ Up
  /\ listener' \in {"rebuilding", "closing"}
  /\ CancelGroup
  /\ \E leaked \in SUBSET {r \in Invoices : tail[r].fresh} :
       receiptTails' = leaked \cup {r \in receiptTails : ~tail[r].sleeping}
  /\ UNCHANGED <<entries, requests, acked>>

\* The three other steps between two groups: after an exception the manager is
\* closed, then the 30 s pause ends and self.taskgroup becomes None; after a
\* requested restart a manager built for other relays is dropped.
BetweenGroups ==
  /\ \/ listener = "closing" /\ listener' = "backoff"
     \/ listener = "backoff" /\ listener' = "down"
     \/ listener = "rebuilding" /\ listener' = "down"
  /\ UNCHANGED <<entries, requests, receiptTails, tail, flights, loop, acked>>

\* _stop_server: the server object and its guard go; deliveries started by the
\* event callback belong to no group and run on, with nothing left to spawn in.
Stop ==
  /\ Quiet /\ listener # "off"
  /\ listener' = "off"
  /\ receiptTails' = {}
  /\ tail' = [r \in Invoices |-> NoTail]
  /\ loop' = NoLoop
  /\ flights' = {[f EXCEPT !.by = "orphan"] : f \in {g \in flights : ~Grouped(g)}}
  /\ UNCHANGED <<entries, requests, acked>>

\* The process dies: only the wallet file is left.
Crash ==
  /\ Quiet
  /\ listener' = "off"
  /\ receiptTails' = {}
  /\ tail' = [r \in Invoices |-> NoTail]
  /\ loop' = NoLoop
  /\ flights' = {}
  /\ UNCHANGED <<entries, requests, acked>>

Start ==
  /\ listener = "off"
  /\ listener' = "down"
  /\ UNCHANGED <<entries, requests, receiptTails, tail, flights, loop, acked>>

-----------------------------------------------------------------------------
\* Every clock advances; a coroutine whose timer ran out may be late.
Tick ==
  /\ Quiet
  /\ entries' = Aged(entries)
  /\ tail' = [r \in Invoices |->
                [tail[r] EXCEPT !.left = Shrink(@), !.fresh = FALSE]]
  /\ loop' = [loop EXCEPT !.left = Shrink(@)]
  /\ UNCHANGED <<requests, listener, receiptTails, flights, acked>>

LoopFlightEnds ==
  \E f \in Flight : f.by = "loop" /\ (FlightAccepted(f) \/ FlightFailed(f))
LoopRuns == LoopSleeps \/ \E r \in Invoices : LoopDelivers(r)

Next ==
  \/ \E r \in Invoices, p \in Payers, ttl \in Expiries : Issue(r, p, ttl)
  \/ \E r \in Invoices : Pay(r) \/ PayUnheard(r) \/ TailFires(r) \/ LoopDelivers(r)
  \/ \E f \in Flight : FlightAccepted(f) \/ FlightFailed(f)
  \/ LoopPass \/ LoopSleeps
  \/ GroupStarts \/ ManagerBuilt \/ GroupEnds \/ BetweenGroups
  \/ Stop \/ Crash \/ Start
  \/ Tick

\* Time passes, the loop's publish ends (wait_for bounds it), and the loop runs
\* when its turn comes.  Strong, because each of these is interrupted by every
\* drain of the loop, and the pass also by every restart.  The tails and the
\* other publishes are not needed for a receipt to be settled: no fairness.
Fairness ==
  /\ SF_vars(Tick) /\ SF_vars(LoopPass) /\ WF_vars(LoopRuns)
  /\ SF_vars(LoopFlightEnds)

Spec == Init /\ [][Next]_vars
FairSpec == Spec /\ Fairness

-----------------------------------------------------------------------------
(* Properties.                                                             *)

TypeOK ==
  /\ IsRegistry(entries)
  /\ requests \in [Invoices -> {"none", "unpaid", "paid", "deleted"}]
  /\ listener \in {"off", "down", "rebuilding", "up", "closing", "backoff"}
  /\ receiptTails \subseteq Invoices
  /\ tail \in [Invoices -> TailTask]
  /\ flights \subseteq Flight
  /\ loop \in LoopTask
  /\ acked \in [Invoices -> 0..MaxAcked]

\* The registry never outgrows its cap, although an owed entry is never evicted:
\* the entry just remembered is always there to make room.
CapHeld == Cardinality(DOMAIN entries) <= MaxPending

\* Every unpaid wallet request is known to the registry, so that its expiry or
\* its eviction will collect it; a forgotten one would stay in the wallet file.
NoOrphanRequest == \A r \in Invoices : requests[r] = "unpaid" => r \in UnOwed(entries)

\* A receipt is owed for a paid invoice only, and an entry's sends were all
\* acknowledged by the relay, across restarts and crashes.
OwedIsPaid ==
  \A r \in DOMAIN entries : /\ entries[r].due => requests[r] = "paid"
                            /\ entries[r].sends > 0 => entries[r].due
                            /\ entries[r].sends <= acked[r]

\* No receipt is ever published for an invoice that was not paid, however late
\* the publish starts after the registry was read.
NoFalseReceipt == \A f \in flights : requests[f.rhash] = "paid"

\* Refinement: the promise an invoice carries, as the registry shows it.
Unissued(r) == r \notin DOMAIN entries /\ requests[r] = "none"
Stage(r) == CASE IsOwed(entries, r)       -> "owed"
              [] r \in UnOwed(entries)    -> "awaiting"
              [] Unissued(r)              -> "idle"
              [] OTHER                    -> "closed"

Promised == INSTANCE ReceiptPromise WITH
  stage <- [r \in Invoices |-> Stage(r)],
  acks  <- acked,
  late  <- [r \in Invoices |-> IsOwed(entries, r) /\ entries[r].dueAge = RetryMax]

\* Whatever is evicted, swept, cancelled, restarted or lost in between, an owed
\* receipt leaves the registry only after its whole schedule was acknowledged
\* or RETRY_MAX_SEC after the payment, and never becomes un-owed again.
PromiseKept == Promised!Spec

\* The fast retries stop with their window: once it has closed, a failed
\* publish of a receipt starts no tail, so only the hourly loop is left.
NoHammering ==
  [][\A r \in Invoices :
       (/\ IsOwed(entries, r) /\ Anchor(entries[r]) >= FastRetryWindow
        /\ ~tail[r].sleeping /\ tail'[r].sleeping)
       => acked'[r] # acked[r] \/ acked[r] = MaxAcked]_vars

\* If the listener keeps coming up, no receipt stays owed for ever ...
OwedIsSettled ==
  []<>Up => \A r \in Invoices : IsOwed(entries, r) ~> ~IsOwed(entries, r)
\* ... and no unpaid request stays in the wallet for ever.
UnpaidIsCollected ==
  []<>Up => \A r \in Invoices : requests[r] = "unpaid" ~> requests[r] # "unpaid"

-----------------------------------------------------------------------------
(* What a comment says of the loop and the code does not do.               *)

PassIsOver == Up /\ loop.pc = "sleep" /\ loop.left > 0
Attended(r) == tail[r].sleeping \/ InFlight(r)

\* "it also fires once on every reconnect/restart - covering receipts owed while
\* we were offline": once that pass is over, a receipt never broadcast has been
\* published since, or is about to be.
OfflineIsCovered ==
  PassIsOver =>
    \A r \in DOMAIN entries :
      (entries[r].due /\ entries[r].sends = 0) =>
         Attended(r) \/ entries[r].dueAge >= FastRetryWindow
=============================================================================
