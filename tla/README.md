# A formal model of the CLINK plugin

TLA+ modules, TLC configurations and TLAPS proofs for `src/clink/`, an Electrum
plugin that answers CLINK (noffer) payment requests received over Nostr relays
with Lightning invoices, and sends the payer a receipt once an invoice is paid.
Line numbers below are those of the files under `src/clink/`.

Contents: [inventory](#inventory), [modules](#modules),
[runs](#runs-and-bounds), [fairness](#fairness), [proofs](#proofs),
[disagreements](#disagreements-between-code-and-documentation),
[what is not modelled](#what-is-not-modelled), [plan](#plan).

## Inventory

One `ClinkServer` per enabled wallet runs on Electrum's single asyncio loop, so
code between two `await`s is atomic; everything hard is about what happens *at*
the awaits, at a cancellation, and across the life of a server object. The one
exception is the plugin object, whose two dictionaries the GUI thread and the
loop both change without a lock.

| Part (file) | State it keeps | Operations | What must be right |
|---|---|---|---|
| Receipt registry (`receipts.py`) | `clink_receipts` in the wallet file | `remember`, `mark_due`, `record_attempt`, `record_send`, `fail_retry_delay`, `sweep`, `due_targets`, `pending_count_for` | owed entries survive everything but completion and the 10 day limit; the cap holds; what is dropped is reported for collection |
| Receipt delivery (`clink_plugin.py` 972-1108) | `_receipt_tails`, running coroutines | `_deliver_receipt`, tails, redelivery loop, paid callback | no receipt for an unpaid invoice, every owed receipt settled, retries bounded |
| Request dispatch, issuing (`clink_plugin.py` 751-968) | `_seen_events`, the wallet's requests | `_dispatch`, `_issue_invoice`, `_delete_stale_request` | one invoice per request, per-payer cap, no request left behind |
| Liquidity (`liquidity.py`) | in-memory reservations | `try_reserve`, `release`, sweep | promises fit the channels; nothing is counted twice |
| Dev fee (`devfee.py`, `clink_plugin.py` 1116-1197) | `devfee_*` in the wallet file, a lock, payout coroutines | `mark_issued`, `take_issued`, `accrue`, `maybe_pay_devfee` | nothing forgotten, nothing charged twice, the 24 h cap |
| Listener (`clink_plugin.py` 479-770, `nostr_transport.py`) | `manager`, `_manager_relays`, `taskgroup`, `_pending_pings` | `run`, `refresh_manager`, watchdog, self-ping, restart | it comes back after any failure, sits on every offer's relay, and ends when told to |
| Offers and relay pinning (`offers.py`, `clink_plugin.py` 191-390, 1417-1518) | offers in the wallet file, the 24 h relay pick | create, remove, pin, invalidate | an noffer handed out keeps naming a relay that is listened on |
| Relay probe, liveness, self-test (`relay_probe.py`, `liveness.py`, `selftest.py`, `clink_plugin.py` 257-280, 393-475) | cached results, `_check_task`, `_selftest_payers` | probe, `run_once`, `check_offers`, `check_noffer` | a blip is never reported; one run of self-tests at a time, each call returns, the service recognises each payer, no answer is missed, results are for live offers |
| Publishing (`publish.py`) | futures per event id | `add_event_checked` | one acceptance is success; a refusal is told from silence |
| Protocol, codecs (`protocol.py`, `noffer.py`, `nip44.py`) | none | pure functions | round trips, rounding, refusals |
| Lifecycle (`clink_plugin.py` 1252-1409) | `_servers`, `_taskgroups` | start, stop, enable, close | no second server of a file means to go on, what runs follows the setting, stopped ones really end |
| Settings, commands, Qt (`settings.py`, `__init__.py`, `cmdline.py`, `qt.py`) | configuration | setters, commands, widgets | thin callers of the above |

How they interact: relay events reach `_dispatch` through the manager's
subscription; it asks the reserver and the registry and creates wallet requests;
Electrum's `request_status` callback releases the reservation, marks the receipt
due, and accrues the fee; deliveries and payouts started by that callback belong
to **no** task group, while the redelivery loop, the tails and the startup
payout are children of the listener's group and are cancelled by every restart.
The registry, the ledger, the offers and the wallet's requests are persisted;
the seen cache, reservations, tails, locks and the relay pick die with the server.

The behaviours that are hard: cancellation at an await after half of an update;
publishes from three origins in flight for one receipt; a restart between two
scheduled broadcasts; a list read before an await and used after it; caps that
evict; payments confirmed while nobody listens; repeated payment events; the
same ledger under two generations of servers; wallets reopened behind the
plugin's back; answers that overtake the publish of their request. `PROJECT.json` lists each at its
line, with the properties that cover it.

## Modules

| Module | Models | State ↔ code |
|---|---|---|
| `ReceiptRegistry` | `receipts.py` as pure operators: map in, map out | entries of the persisted map |
| `ReceiptDelivery` | delivery, tails, loop, listener restarts, stop, crash | `entries`, `requests` are persisted; `receiptTails` is `_receipt_tails`; `tail`, `loop`, `flights` are coroutines at their await; `listener` encodes `taskgroup` and `manager` |
| `ReceiptPromise` | the abstract promise of one receipt: remembered, owed, closed after the full schedule or too late | refined by `ReceiptDelivery` (`PromiseKept`) |
| `DevFee` | the ledger and the payout coroutine | `accrued`, `pending`, `payments`, `lastAttempt` are the `devfee_*` keys; `tasks` are payouts at their await; `server`, `group` are the generations |
| `Issuing` | request to invoice, with the reservations and the registry | `seen` is `_seen_events`, `reserved` the reserver, `entries` the registry (the same operators as above), `invoice` the wallet's requests, `capacity` what the channels can receive |
| `Listener` | the loop of `run`, `refresh_manager`, the watchdog with pruning, re-attaching and self-ping, restarts, stop, exit | `runAt`, `dog` are the awaits at which `run` and `_relay_watchdog` are suspended; `manager`, `recorded`, `conn` are `self.manager`, `_manager_relays` and what is in `manager.relays`; `stream` is the subscription of `handle_requests` |
| `Offers` | creation, pinning, the pick and its cache, migration, edits, removal, setting changes, stop and start | `stored` is the `offers` key, `memory` the `OfferStore` of each server object, `pick` is `_relay_selection` with its age, `candidates` with `own` is the wallet's setting or the global list, `tasks` are coroutines at the pick lock or a probe, `closing` are servers stopped whose `close()` has not yet cancelled `run()` |
| `SelfTest` | `check_offers` with its callers, and each attempt of `selftest.py` with relay and service | `checkTask` is `_check_task`, `run` and `call` the tasks and who awaits them, `results` is `check_results`; per throwaway payer `pc`, `left` are its await and the rest of its limit, `by` the run it belongs to, `age` the time since it was registered, `wire` its request or answer under way, `heard` what its reader has of the answer |
| `RelayWatch` | `liveness.py`: two probes per relay, concurrent runs, reports | `checks`, `rest` are the `_check_one` coroutines of each run, `verdicts` is `results`, `payable` what the relays can do |
| `Publish` | `add_event_checked` over several relays | `future` is `event_adds[event.id]` of each relay, `phase` the await of each `_publish_to_relay` |
| `Wire` | the pure functions of `protocol.py`, `noffer.py` and the padding of `nip44.py` | a state is one input |
| `Lifecycle` | start, stop, toggle, close and switch-off over several wallet files | `servers`, `groups` are `_servers`, `_taskgroups`; `lightning` is `has_lightning()` of each; `task` is what each thread is doing, one access at a time; `queue`, `closing`, `run` are the scheduled and the running coroutines |
| `MC…` | instances for TLC; `MCChecks` runs the four modules before `Lifecycle` side by side | |
| `Sums` | sums of a function over a finite set, induction over numbers and finite sets, functions by recursion: lemmas for the next ones | |
| `ReceiptRegistryProofs`, `ReceiptDeliveryProofs`, `DevFeeProofs`, `IssuingProofs`, `OffersProofs` (of `Offers`, `Wire`), `RelayProofs` (of `Listener`, `SelfTest`, `RelayWatch`, `Publish`), `LifecycleProofs` | lemmas and theorems | |

`ReceiptDelivery` and `Issuing` both extend `ReceiptRegistry`: each keeps a map
in a variable and applies the operators to it, as `clink_plugin.py` does.
Operators commented "Mutation of X" are deliberate bugs,
used only to show that each property can fail; no specification uses them.

**Time.** The code stores instants and compares their distance to `now` with
fixed thresholds. The models store the distances: ages that stop at the largest
threshold they are compared with and countdowns that stop at 0. So the state is
finite though the clock runs for ever.

**Steps.** An action is the code from one await to the next. `_dispatch` has no
suspension between reading the state and changing it (`await tg.spawn` does not
yield), so a request is one action of `Issuing`. For the same reason the "lost
race" branch of `_issue_invoice` (889-900) is not reachable and has no action:
`try_reserve` sees what `available_sat` saw. `maybe_pay_devfee` is cut at
the lock, the LNURL requests and the payment. The redelivery loop never yields
between two targets it cannot publish, hence `Quiet` in `ReceiptDelivery`.

**Connections** (`Listener`). A relay in `manager.relays` is *idle* (connected,
not subscribed), *live*, *deaf* (broken without a sign) or *dead* (visibly
broken: `_relay_connection_dead`); any other relay is *out*. Websocket heartbeats
are what may turn a deaf connection into a dead one; they may be switched off, so
nothing relies on them. What fails outside (a relay, the network, a raising call,
a library stream that ends, a stray cancellation) may fail until `calm` is set;
`calm` may be set at any time or never. `ping_listener` sends its pings one after
another and then waits; the model does both in one step, and ping ids need no
state, because a late echo finds no waiter and is dropped as an event of our own.

**Servers and offers** (`Offers`). A coroutine keeps the server object it began
with. `_stop_server` cancels `run()`, but only when `manager.close` has ended: until
then the pick that `run()` makes of old offers goes on. A `create_offer` belongs to
its caller and goes on in any case. Either may write the stopped server's offers
when another server has taken over. `torn` records that such a write happened.
A change of the wallet's relay setting drops the cached pick; a change of the global
list, which a wallet without a setting of its own goes by, drops nothing.

**Listener states** (`ReceiptDelivery`): *off*, no server; *down*, no manager
and no group; *rebuilding*, a manager but no group; *up*; *closing*, the group
ended by an exception and its manager is being closed, with `self.taskgroup`
still naming the dead group; *backoff*, the 30 s pause. In the last two a spawn
raises after the tail guard was taken, so the guard stays.

**Self-test and service** (`SelfTest`). Every attempt has a payer of its own, so
payers stand for attempts; how many there are bounds a run. What the service does
to the wallet for such a request is an action of `Issuing` (`SelfTest` there); here
it matters only whether the service recognises the payer when it answers. A
cancellation of the owner is delivered to every attempt of its run at once; an
attempt whose publish has failed may be waiting for its own cancelled reader at that
moment and swallow it (`deaf` in `CancelOwner`).
`gather` is left at the first exception, while the other attempts go on: that is the
end of a run with an offer whose relay is too long for an noffer (`Overlong`; 457
raises before there is a payer), and of a cancelled one as soon as its first attempt
is done. `by` is then none for the attempts left behind, and `orphaned` records that
one of them would still note a result.
The reader takes an event as it comes (`Receives`) and looks at it when the id of the
request is known (`Matches`): both are steps of its own, after the relay has forwarded.
There is one server object. A server that replaces it during a check has no
`_selftest_payers`, and takes the requests under way for ordinary ones; neither the
model nor its properties speak of that.
Classifying an answer (invoice, error, bad) is left out: whatever it is, the
attempt has a result.

**Relays and time** (`RelayWatch`). A probe is judged by what the relay can do at
that moment. `outage`, `outages` are history: how long a relay has been down, up
to the pause, and whether it failed more than once. A run may have a pause of its
own (`retry_delay` of the command); `hasty` records one shorter than the default,
for which nothing is claimed.

**Threads** (`Lifecycle`). An action is one access to a dictionary or one callback
handed to the loop. On the loop a command runs to its end before the next
callback begins; the GUI thread runs beside it. `raced` records that both were at
work on one file (or one of them on all) at the same time. `unheard` are the files
that changed without a call of the plugin: closed by the daemon, which fires no
hook, flipped by the migration of the `enabled` setting when the first offer is
made or the last one removed, or given lightning while open. A `run()` that is
"failed" ended by an exception of `refresh_manager` (539) or `manager.close` (559):
its server stays registered, and `start_plugin` finds it and starts nothing.

**Bytes** (`Wire`). A byte is below `Radix` (5) and keys and prices are 3 and 2
bytes long, so that every length at the end of its field is a small one. Bech32
and encryption hand over what they were given, or nothing.

**Environment.** These are modelled from how the code uses them and marked
external in `PROJECT.json`: the payer and the relay (any request, repeated, late
or never), Electrum's Lightning payments (may settle or fail after the coroutine
that waits for them was cancelled), the receivable capacity (`Drift`: anything
at any time), cancellation by asyncio, process death, and the clock. Writes
to the wallet file are taken to be durable when made, and not to raise.

## Runs and bounds

All passing runs are exhaustive. CHECK_DEADLOCK is off, except in `checks`, because the
systems have clocks, histories and bounded supplies (of invoices, servers, offers):
when those are used up a model may stop where the program would merely idle.

| Run | Checks | Instance and why it is enough |
|---|---|---|
| `receipts` | types; `CapHeld`; `NoOrphanRequest`; `OwedIsPaid`; refinement `PromiseKept`; `NoHammering` | 3 invoices for 2 places, so eviction happens with owed and un-owed entries; one re-broadcast and one backoff step; payments while stopped, restarts, exceptions and crashes at any point |
| `receipts_live` | `OwedIsSettled`, `UnpaidIsCollected` | 1 invoice, a longer schedule and backoff table, repeated payment events. Receipts of different invoices meet only at the cap (above) and in the loop's list |
| `receipts_offline` | one documented claim, violated | see below |
| `devfee` | types; `BooksBalance`; `DailyCapHeld`; `NothingForgotten`; `FeeOncePerInvoice` | 2 invoices, a fee that is not a multiple of a sat, 2 payouts at once, a cap of 2 sats over a 2-step day: several payouts fall into one window; 2 server generations, so an old payout and a new lock meet. `cut` records that a payout was cut off or outlived its server: the first two are claimed until then |
| `devfee_drain` | `DailyCapAlwaysHeld`, without that exception, violated | see below |
| `issuing` | types and cache bound; `ReservationsMatch`; `RequestsTracked`; `PayerCapHeld`; `NoOvercommit`; `MintedOnce` | 3 invoices, 2 events, 2 payers and the self-tester, registry cap 2, payer cap 1, seen cache of 1, 2 sessions: re-minting after an eviction from the cache, registry eviction beside an owed entry, and a payer at its cap all occur |
| `issuing_restart` | `NeverOvercommitted`, without the restriction to one session, violated | see below |
| `listener` | types; `ListenerRecovers`; `Ends`; `StreamKept` | 2 relays, so one can be lost, kept, wanted or unwanted beside the other; every relay set, failure and stop at every await |
| `offers` | types; `HandedOutKept`; `AdvertisedAreHeard`; `PinsAreFinal` | 1 old and 2 new offers, 2 relays in 2 candidate lists, 2 coroutines, 2 server objects: a waiting and a probing pick, a creation and a pick of `run()` that outlive their server, mixed pinned and unpinned offers. `Global`: the wallet goes by the global list, which changes; a setting of its own would only shield it from that, and `offers_overtaken` has it. `LastStays`: the last server is not stopped. `CustomIsR1`: custom relays are the one that both joins and leaves the lists |
| `offers_overtaken` | `PickFollowsSetting`, violated | see below |
| `checks` | `RecognisedInTime`, `NoAnswerMissed`, `OneRun`, `RemovedForgotten`, `CallsReturn` of the self-test; `BlipNeverFlagged` of the monitor; `AcceptanceHeard` of a publish; `RangeIsPayable`, `ReadBack` of the functions | 2 callers, so one owns and one joins, or begins a run of its own between the end of the other's and its return; 3 offers, one of which has no noffer, 2 attempts, each limit 1 step against a registration of 4: the smallest with `3 * Timeout + Settle < TTL`. One offer may be removed (`Removed`) and the service gets the request of one attempt (`Heeded`), because what it does for one is of no concern to the other; a run that raises leaves just that attempt behind, and is the last to raise (`Scarce`). 1 relay for the monitor: relays meet only in the report, which takes each as its own probes left it; 2 runs with pauses below and at the default. 3 relays for a publish: all three verdicts and every mix. Every amount beside the capacity and beside 1 and the maximum for capacities of 1 to 5 digits; lengths 0, 1 and at the ends of the length field; cuts in every part of the last record; plaintext lengths around every chunk boundary up to 400 and around powers of two up to the maximum. Nothing ties the four parts together here, so a behaviour is one of them |
| `lifecycle` | types; `NoStrays`; `FollowsSetting`; `Reaped` | one file opened as two objects, with and without the hook, with lightning, without, or given it while open, that starts as one from before the setting (served because it has offers) and then gets and loses every setting and its offers, beside a second file that is always enabled; 3 servers, so one is replaced and followed. The objects are alike, so one comes first (`InOrder`); only its `run()` may fail (`FailsOnce`), which leaves a failed server to be found, replaced or stopped. Exploration ends where two threads meet on one file: what is claimed is claimed up to there, `TypeOK` is proved beyond it |

Bounds that are not the code's are named constants: `MaxPaidOut` (stray payments
in `DevFee`), `Tasks`, `Generations` (of `DevFee` and of `Lifecycle`), `Sessions`,
`MaxServers`, `Payers` of `SelfTest` (attempts), `TTL` of `Offers` (the life of a
pick in ticks, 1), `MaxAcked` (where a history counter stops), and those the table names. `flights` is a
set: two publishes with the same invoice, origin and streak are one.

What the properties say:

* `PromiseKept`: an owed receipt leaves the registry only after its whole
  schedule was acknowledged or when `RETRY_MAX_SEC` have passed, whatever is
  evicted, cancelled, restarted or lost in between.
* `NoHammering`: once the fast-retry window has closed a failed publish starts
  no tail, whichever of the three paths started it. (A pass that coincides with the
  publish of the last broadcast makes one broadcast too many; no property excludes
  that.)
* `BooksBalance`: until a payout is cut off with its payment in flight, or still
  runs when the wallet's next server starts, accrued plus paid is exactly what was
  charged; `NothingForgotten`: it is never less, whatever happens.
* `NoOvercommit`: an invoice is issued only if the channels can, at that moment,
  receive it and everything still open, although capacity may fall at any time
  for other reasons. (It may of course fall *after* the invoice was issued.)
* `MintedOnce`: a second invoice for the same event in one session needs
  `SEEN_EVENTS_MAX` other accepted requests since it was last accepted. That
  freshness (60 s) keeps this from happening at realistic rates is not claimed.
* `RequestsTracked` / `NoOrphanRequest`: an unpaid request always has the
  registry entry through which it will be collected. A request whose bolt11
  could not be made (`CreateFails`, status "stray") has none: the code leaves it.

* `ListenerRecovers`: if the environment stays calm from some point on, and `run()` is
  neither stopped nor ended by an exception outside its `try`, then from some point
  on every wanted relay that answers has a live subscription, whatever was lost
  before: a restart request between two groups, an update that raised half way, a
  connection that broke silently. Without the self-ping (`PingOn = FALSE`) this is
  not so: nothing else notices a deaf or an unsubscribed connection.
* `StreamKept`: in calm, only a restart, a stop or the exit ends the subscription.
* `Ends`: a stopped server's `run()`, and any at process exit, ends.
* `HandedOutKept`, `PinsAreFinal`: the relay of an noffer once handed out, or of an
  old offer once migrated, is final. Both are claimed until a creation begun on a
  replaced server has written (`torn`); the code does nothing against that.
* `AdvertisedAreHeard` ties the two lists of `offers.py` that are computed apart: what
  is advertised is listened on. With `ListenerRecovers`, whose `wanted` is that list,
  an advertised relay that answers is in the end subscribed to.
* `RecognisedInTime`: while a self-test is under way the service knows its payer,
  however long each of its three steps takes; so no entry, reservation or pending
  fee is left behind by it. (One that arrives when the attempt has given up and
  unregistered is taken for an ordinary request.)
* `NoAnswerMissed`: a self-test is reported unanswered only if no answer was forwarded
  in time. An answer may overtake the end of the publish, when the id it is matched
  by is not known yet; the reader then holds it (`Takes`, 131) and looks at it when it
  is. A reader that compared at once would pass it over, and time out.
* `OneRun`: one run is under way at a time, and every attempt still to be sent or
  answered belongs to it, so no caller sends a second batch beside the first.
  `RemovedForgotten`: after a run that completed since an offer's removal, no result
  of it, and none comes back. Both are claimed until a run has ended before its
  attempts (`orphaned`), where the code breaks them, see below; the first half of
  `OneRun` always.
* `BlipNeverFlagged`: a relay reported down failed twice, or for the whole pause.
* `AcceptanceHeard`: the verdict is what the relays said in time, in both
  directions: no success unheard, no refusal reported over an acceptance.
* `RangeIsPayable`: both ends of the range in a refusal would be accepted, its
  upper end is within a tenth of the capacity, and it is empty only without any.
* `ReadBack`: noffers and padded texts are read back as they were; a noffer cut
  short is refused, never read as another one. The second rests on
  the highest type being written first.
* `NoStrays`: a server that has not been told to stop is the registered one of its
  file: through reloads, toggles and commands no file is listened for twice.
* `FollowsSetting`: at rest, a file has a server exactly if it is open with lightning
  and enabled, and that server drives the open object and runs, unless its `run()`
  ended by an exception; a plugin switched off runs none. Excepted are `raced` and the
  files in `unheard`.
* `Reaped`: the `run()` of a server told to stop ends, if it has not failed before.

When the registry is full of owed receipts, `_enforce_cap` can only evict the
entry just remembered. Its request is then deleted and the bolt11 is sent all
the same (902-914); its reservation stays until it would have expired. The
models take this step as it is.

## Fairness

`ReceiptDelivery`, `Listener`, `SelfTest` and `Lifecycle` have fair specifications.

`ReceiptDelivery` assumes that time passes (`SF(Tick)`), that the loop's own publish ends (`add_event_checked` bounds it by a
timeout), and that the loop runs when its turn comes. Fairness is strong for
`Tick` and for the end of the publish because every drain of the loop disables
them for a moment, and for `LoopPass` because every restart cancels the loop. *No*
fairness is assumed of the tails, of the publishes of the callback, of payments,
or of restarts. That the listener keeps coming up is not a fairness assumption
but the premise `[]<>Up` of both liveness properties: relays may be away.

`Listener` assumes that asyncio runs what is ready: weak fairness of the steps of
`run()`, of those of the watchdog, and of the scheduled `close()` of `_stop_server`
(whose `manager.close` is taken to end or raise), and of the exception that
`handle_requests` raises when its stream has ended. Fairness of `Ping` is strong:
it is skipped while `next_ping` has not passed, and that passes again and again.
Nothing is assumed of the environment but what `Undisturbed` says.

`SelfTest` assumes that time passes, that the loop resumes what is ready (an
attempt whose limit is up, whose answer is there or whose manager has closed, the
end of a run by its result or by an exception, the return of a call), that `manager.close` ends, and that
`relay.send`, which is outside the time limit of `add_event_checked` but inside
that of the attempt, is cut off by the latter. Weak fairness is enough: none of
these is disabled by another actor but by going on. Relay and service may do
nothing at all.

`Lifecycle` assumes that a thread goes on once it is in an operation and that the
loop comes to each callback. The latter is strong fairness: commands run on the
same loop and may keep delaying a callback, but `call_soon` queues are served in
order, so they do not starve it. `manager.close` is taken to end or raise.

`RelayWatch`, `Publish` and `Wire` have safety properties only.

## Proofs

Checked by TLAPS for every value of the constants, from the assumptions named in
the modules (`RegistryAssumption`, `DeliveryAssumption`, `DevFeeAssumption`,
`IssuingAssumption`, `ListenerAssumption`, `OffersAssumption`, `SelfTestAssumption`,
`WatchAssumption`, `WireAssumption`, `LifecycleAssumption`; finite set of invoices, positive
caps, a schedule that ends within the fast-retry window, which ends before
`RETRY_MAX_SEC`). `WireAssumption` says that the five record types are bytes
(`Radix > 4`), that the contents of an noffer are bytes, and that no wallet can
receive more than `MAX_AMOUNT_SAT`, the total supply of bitcoin.

* `ReceiptRegistryProofs`: each registry operator keeps the map's type; what each
  leaves alone; how each changes the number of open invoices of a payer; that an
  eviction makes room; what a clock tick and a payment do to an entry's clock.
* `ReceiptDeliveryProofs`: `TypeCorrect`; `InductiveInvariant`, from which
  `FalseReceiptNever`, `OrphansNever` and `OwedArePaid`. The three are not
  inductive alone: the loop publishes from a list it read earlier and a publish in
  flight ends long after it began, so the invariant adds that whatever is in
  flight or listed belongs to a paid invoice, whose entry is owed if still there.
  `PromiseIsKept` is the refinement: with the same invariant every action maps to a
  step of `ReceiptPromise` or a stutter, invoice by invoice; an entry leaves the
  registry as *lapsed*, *served* or *abandoned*, never in another way. `CapIsHeld`:
  the entry just remembered is never owed, so an eviction always finds one.
  `HammeringNever`: the tail guard is taken inside the window or after an
  acknowledgement, which the clock of an entry shows.
* `DevFeeProofs`: `TypeCorrect`; `NothingIsForgotten`; `OneFeePerInvoice` (pending
  hashes are unpaid and uncharged or waiting to be taken); `BooksAlwaysBalance`, from
  the invariant that, until a payout is cut off or outlives its server, all payouts
  belong to the running one, hold its lock one at a time, and the balance covers the
  amount being paid until it is debited. `DailyCapIsHeld`: until a cut, the recorded
  payments are what left, and a payout that holds the lock past its check has room
  for its amount; recording, ageing and the expiry of a window slot change the sum
  as `Sums` says.
* `IssuingProofs`: `TypeCorrect` with the bound of the cache;
  `RequestsAreTracked`, with the extra invariant that owed entries are of paid
  invoices, so that completing or abandoning one drops no unpaid request;
  `PayerCapIsHeld`, by cardinality; `ReservationsAlwaysMatch`; from the last,
  `NeverOvercommits`: what is promised is at most what is reserved, only an issue
  opens an invoice, and it fits beside the reservations. `NeverMintedTwice`: the
  cache holds an id once, whatever follows the id of a minted invoice was noted for
  it, and when the id is gone that is as many as the cache holds (a pigeonhole).
* `OffersProofs`: `TypeCorrect`, `HandedOutStays`, `LegacyIsMigrated`,
  `PickIsConfigured`, `AdvertisedIsHeard` and `PinsAreKept`. The invariant adds that
  the newest server's offers are the stored ones unless `torn`, that server objects
  yet to come have no pick and no coroutine, that a pick that passed names a relay,
  and that a probe not overtaken has the current candidates. `PickIsConfigured`: a
  cached pick is one of the relays configured now, unless the global list has changed
  since its probe began, or the setting while that was running.
  Of `Wire`, where a state is one input and the proof is about the functions:
  `RangeIsAlwaysPayable`, from the power of ten that a capacity is rounded to being
  at most a tenth of it and dividing the result; `AlwaysReadBack`, in three parts.
  *Prices*: the digits of a number, put together again by multiplying and adding,
  are the number when it is below the power of the radix. *Records*: one record put
  in front of others parses to itself and what the others parse to, so what the
  encoder wrote parses to the records from the highest type down; a cut at any place
  falls into one record, and either the parser raises in it or the records before it
  are all there is, among which the key, written last, is not. *Padding*: the power of two
  above a length is at most twice the length, so a chunk is at most a quarter of it,
  and the padded length never falls from one length to the next.
* `RelayProofs`, of `Listener`: `ListenerTypes`; `GroupAlwaysHasManager`;
  `StreamIsKept`. The types, which tie the watchdog and the subscription to the
  group, and the manager of the group are inductive together: no action of the watchdog or of `_stop_server` lets
  go of the manager, only `run()` does, when the group is gone.
  Of `SelfTest`: `TypeCorrect`, `AlwaysRecognised`, `AnswersAreHeard`,
  `RunsDoNotOverlap`, `RemovedAreForgotten`, from the invariant that the age of a
  registration plus the rest of the current limit stays within the limits so far,
  that what was forwarded in time is with the reader until the attempt concludes
  (arrived, held, or read once the id is known), that a run under way is `_check_task`, and
  that, until a run ends early, each attempt that may still note a result is of the run
  under way and about an offer not yet swept. Of `RelayWatch`, `BlipsAreForgiven`: a second probe still waiting,
  or failed, is of a relay that has been down since the first one or failed again.
  Of `Publish`, `SuccessIsHeard`: what each `_publish_to_relay` returned is what its
  relay said while its future was there.
* `LifecycleProofs`: `TypeCorrect` and `NoStraysEver`, for any number of files,
  objects and servers. The invariant adds that a server a thread holds to stop it
  is registered no more and held by no other thread, that each operation under way
  leaves room for the server it may make, and, until threads meet, that their
  files are disjoint and that the place of a server about to be stored is empty.
  `Lit`: who is about to make a server has seen that its file has lightning, which
  stays, so every registered server has it.
  `SettingIsFollowed` speaks of the moments when nothing is under way, so its
  invariant says what is owed at all others, in three parts. `Tables`: the two
  dictionaries name the same servers but where a thread stands between its accesses
  to them, and a stop takes the group of the server it took. `Scheduled`: a made
  server is running, over, failed, or its `run()` is in a thread's hands or the queue, before
  any close of it; a server told to stop is over or its close is in hand, queued or
  awaited; each close names the group of its own server and finds its run begun.
  `Settings`: an entry is as the setting wants it, or a thread is at work on its file
  with that in mind; with the plugin off, on the list of the thread that ends it.

`NoFalseReceipt`, `GroupHasManager`, `LegacyMigrated` and `PickConfigured` are proved
and are in no run; neither are the types of `SelfTest`, `RelayWatch` and `Publish`.

The sums of sats (`Total`, `Reserved`, `Promised`) are folds of the community
modules, defined by recursion over subsets of the domain. `Sums` proves of them what
the theorems need: the recursion has exactly one solution on the subsets of a finite
set, and its value does not depend on the order in which elements are taken. Where
the library's induction theorems take a predicate as a parameter, which the provers
cannot instantiate, `Sums` takes the set of the cases that hold, and finds the least
case outside it. The codecs of `Wire` recurse over their input. Such a function is
a `CHOOSE` until it is shown to exist: `CourseOfValues` of `Sums` gives it whenever each
value depends on those before it only, and the properties follow by induction on
lengths.

Only model-checked: the liveness properties `OwedIsSettled`, `UnpaidIsCollected`,
`ListenerRecovers`, `Ends`, `CallsReturn` and `Reaped`, which rest on fairness and
ENABLED. Every safety and action property of a passing run is proved.

## Disagreements between code and documentation

Each is a run that TLC must find violated, and a finding in `PROJECT.json`.

1. `receipts_offline`: the loop "fires once on every reconnect … covering receipts
   owed while we were offline". The attempt is stamped before the delivery finds
   that there is no manager, so that pass skips exactly those.
2. `devfee_drain`: "Never forward more than this within any rolling 24h window".
   A payout cancelled while its Lightning payment is in flight leaves no record,
   and the next one goes out within the same window.
3. `issuing_restart`: an issued invoice "reserves the inbound liquidity it needs
   until it is paid or expires". Reservations are in memory; a new server promises
   the capacity of invoices that are still open a second time.
4. `offers_overtaken`: a setting change drops the cached pick "or new offers keep
   advertising the old relay for up to 24h". A pick being probed at that moment is
   cached afterwards, with the old list's relay.

Smaller observations, which no run claims but the models show:

* "An interrupted schedule resumes on reconnect": the pass made on reconnect skips
  an entry whose next offset has not come, and starts no tail for it; it waits for
  the next hourly pass.
* `DEFAULT_CHECK_TIMEOUT` is called the limit of the whole round trip; it is applied
  three times, once per step, plus the settling time.
* A command that names an offer and joins a running check gets that run's results,
  which may not have its offer; cancelling the owner cancels those who joined.
* The `gather` of a run (470) raises with the first attempt that raises, and does not
  stop the others. `make_noffer` raises for an offer whose relay is longer than 255
  bytes; `_create_offer_custom_relay` stores such an offer (1469) before its own
  encoding raises. From then on every check of all offers ends at once, while its
  other attempts go on: the next call sends a second batch beside them, and an attempt
  left behind may put back the result of an offer that was removed and swept
  (`orphaned`). A cancelled run ends with the first of its attempts likewise, and one
  whose publish has just failed swallows the cancellation and still notes its result.
* A server whose `run()` ended by an exception stays registered, and `start_plugin`
  returns because it finds it: only a stop or a reload of the wallet starts another.
* Lightning that comes to a wallet while it is open starts no server until the next
  toggle or reopening (`unheard`).
* A change of the global relay list drops no pick: a wallet without a setting of its
  own goes on pinning new offers to a relay of the old list for up to 24 h. The
  quoted comment (see 4) speaks of the setting, and there the pick is dropped.
* The pick that a stopped server's `run()` was making goes on until `manager.close`
  has ended, and may still write that server's offers (`torn`).
* A self-test ends in PUBLISH_FAILED also when only the OK is missing, although the
  relay may have carried the request and the noffer is payable.
* A relay that accepted an event and whose connection then raises in `send` counts as
  silent; a refusal beside an acceptance is not logged.
* Two threads at work on one wallet file can leave a server that no dictionary
  names, or stop one server with the group of the next (`raced`).
* A wallet served only because of the migration stops being enabled when its last
  offer is removed, and nothing is called: its server goes on until the next event.
  Likewise a disabled wallet reopened without the hook keeps the dead object's
  server, because `start_plugin` returns before it looks for one (`unheard`).
* A dev-fee payout is attempted only at start-up and after a payment; at
  `PENDING_MAX` the oldest pending hash is dropped and accrues nothing. Both are
  modelled as they are, and no property says otherwise.

## What is not modelled

* Decryption, JSON, memos, invoice text, activity feed and logging: no property
  is about them, and they change no state the properties read.
* The round trip inside one relay probe (`relay_probe.py`): one coroutine without
  state that outlives it; its outcome is a choice in `Offers` and what the relay can
  do in `RelayWatch`.
* Websocket heartbeats, proxies, TLS, Qt widgets, argument parsing, the coercion of
  setting values, key derivation and ciphers: input/output or cryptography.
* The storage layer raising, and a crash between two consecutive writes with no
  await between them.

## Plan

Done: receipts; dev fee; issuing; listener; offers; the checks (self-test, monitor,
publish, pure functions); lifecycle; each with its proofs.

What would come next:

1. Composition of `Offers` and `Listener` over the shared wanted set, and of
   `SelfTest` with `Issuing` over the wallet's requests.
2. A lock, or hooks handed to the loop, would let `raced` go from `Lifecycle`.
