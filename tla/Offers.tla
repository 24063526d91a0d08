------------------------------- MODULE Offers -------------------------------
(***************************************************************************)
(* The offers of one wallet and the relay each is pinned to: creation with *)
(* the automatic or a custom relay, the cached payable-relay pick and its  *)
(* invalidation, the migration of offers stored without a relay, removal,  *)
(* and the life of the server objects that hold the offers in memory.      *)
(*                                                                         *)
(* The awaits that matter are the pick lock and the relay probe: a         *)
(* coroutine keeps the server it began with, which may be stopped and      *)
(* replaced meanwhile, and the candidate list it began with.  The run task *)
(* of a stopped server, and its pick, go on until the close has ended.     *)
(***************************************************************************)
EXTENDS Naturals, Sequences, Functions

CONSTANTS
  Relays,      \* relay URLs
  OfferIds,    \* ids _new_offer_id may draw
  Legacy,      \* offers stored before relays were pinned
  Lists,       \* the values of candidate_relays()
  Tasks,       \* coroutines that can be waiting at the same time
  MaxServers,  \* bound: server objects created for the wallet
  TTL,         \* RELAY_CACHE_TTL_SEC, in ticks
  Blank,       \* the relay of an unpinned offer, and "no relay"
  Absent       \* no such offer

ASSUME OffersAssumption ==
  /\ Legacy \subseteq OfferIds /\ Lists \subseteq Seq(Relays)
  /\ MaxServers \in Nat \ {0} /\ TTL \in Nat \ {0}
  /\ Blank \notin Relays /\ Absent \notin Relays /\ Blank # Absent

VARIABLES
  stored,      \* the "offers" key of the wallet file
  memory,      \* OfferStore._offers of each server object
  server,      \* the number of the newest server object
  running,     \* whether it is in _servers
  closing,     \* the stopped servers whose close() has not ended
  pick,        \* _relay_selection and its age, per server object
  candidates,  \* candidate_relays(): the relay setting or the global list
  own,         \* the wallet has a relay setting of its own
  tasks,       \* coroutines at their await
  overtaken,   \* history: what changed the candidates since the probe of the newest
               \* server's pick, or while that is running
  noffer,      \* history: the relay in the noffer create_offer returned
  torn         \* history: a replaced server wrote its offers over a newer one's

storeVars == <<stored, memory, noffer, torn>>
serverVars == <<server, running, closing>>
relayVars == <<candidates, own>>
pickVars == <<pick, overtaken>>
vars == <<storeVars, serverVars, pickVars, relayVars, tasks>>

Servers == 1..MaxServers
Pins == [OfferIds -> Relays \cup {Blank, Absent}]
NoPick == [relay |-> Blank, ok |-> FALSE, age |-> TTL]
Idle == [at |-> "none"]
\* The setting names one relay.
OwnIsOne(list, o) == o => Len(list) = 1

Init ==
  /\ stored = [o \in OfferIds |-> IF o \in Legacy THEN Blank ELSE Absent]
  /\ memory = [g \in Servers |-> stored]
  /\ server = 1 /\ running = TRUE /\ closing = {}
  /\ pick = [g \in Servers |-> NoPick]
  /\ candidates \in Lists /\ own \in BOOLEAN /\ OwnIsOne(candidates, own)
  /\ tasks = [t \in Tasks |-> Idle]
  /\ overtaken = "no"
  /\ noffer = [o \in OfferIds |-> Absent]
  /\ torn = FALSE

-----------------------------------------------------------------------------
(* Which relay an offer advertises, and where the listener must sit.       *)

Fresh(g) == pick[g].age < TTL
FirstOf(list) == IF list = <<>> THEN Blank ELSE list[1]
EffectiveRelay(g) ==
  IF Fresh(g) /\ pick[g].relay # Blank THEN pick[g].relay ELSE FirstOf(candidates)

Present(m) == {o \in OfferIds : m[o] # Absent}
Unpinned(m) == {o \in OfferIds : m[o] = Blank}

AdvertisedRelay(m, o, default) == IF m[o] = Blank THEN default ELSE m[o]
AdvertisedRelays(m, default) ==
  {AdvertisedRelay(m, o, default) : o \in Present(m)} \ {Blank}

\* Mutation of DefaultNeeded: old offers without a relay are not thought of.
DefaultNeededIfEmpty(m) == Present(m) = {}

\* The default counts only while some offer needs it, or there is none.
DefaultNeeded(m) == Present(m) = {} \/ Unpinned(m) # {}
ListenRelays(m, default) ==
  ((IF DefaultNeeded(m) THEN {default} ELSE {}) \cup {m[o] : o \in Present(m)})
    \ {Blank}

-----------------------------------------------------------------------------
(* Operations of the store.                                                *)

\* Mutation of Write: the offers are changed in memory only.
WriteForgets(g, m) ==
  /\ memory' = [memory EXCEPT ![g] = m]
  /\ UNCHANGED <<stored, torn>>

\* Every change writes all the offers of one server object.
Write(g, m) ==
  /\ memory' = [memory EXCEPT ![g] = m]
  /\ stored' = m
  /\ torn' = (torn \/ g # server)

\* Mutation of PinMissing: old offers follow every later pick.
PinMissingAgain(m, relay) ==
  [o \in OfferIds |-> IF m[o] = Blank \/ (o \in Legacy /\ m[o] # Absent)
                      THEN relay ELSE m[o]]

PinMissing(m, relay) == [o \in OfferIds |-> IF m[o] = Blank THEN relay ELSE m[o]]

\* _pin_legacy_offer_relays: only a selection that passed is pinned.
Migrated(m, sel) == IF sel.ok THEN PinMissing(m, sel.relay) ELSE m

\* A new offer gets an id that was never used.
Unused(m) == {o \in OfferIds : m[o] = Absent /\ noffer[o] = Absent /\ o \notin Legacy}

\* What follows a pick: the migration, and for create_offer the new offer.  A
\* pick that failed creates nothing.
UsePick(g, sel, creating) ==
  IF creating /\ sel.ok
  THEN \E o \in Unused(memory[g]) :
         /\ Write(g, [Migrated(memory[g], sel) EXCEPT ![o] = sel.relay])
         /\ noffer' = [noffer EXCEPT ![o] = sel.relay]
  ELSE /\ IF Migrated(memory[g], sel) # memory[g]
          THEN Write(g, Migrated(memory[g], sel))
          ELSE UNCHANGED <<memory, stored, torn>>
       /\ UNCHANGED noffer

-----------------------------------------------------------------------------
(* pick_payable_relay, for a creation or for run()'s ensure_offer_relays_- *)
(* pinned.                                                                 *)

\* Mutation of LockHeld: picks are not serialised.
LockHeldNever(g) == FALSE

LockHeld(g) == \E t \in Tasks : tasks[t].at = "probe" /\ tasks[t].server = g

\* With the lock: the cached pick if it is fresh, otherwise a probe of the
\* candidates as they are now.
EnterPick(t, g, creating) ==
  IF Fresh(g)
  THEN /\ UsePick(g, pick[g], creating)
       /\ tasks' = [tasks EXCEPT ![t] = Idle]
       /\ UNCHANGED overtaken
  ELSE /\ tasks' = [tasks EXCEPT ![t] =
            [at |-> "probe", server |-> g, creating |-> creating, list |-> candidates]]
       /\ overtaken' = IF g = server THEN "no" ELSE overtaken
       /\ UNCHANGED storeVars

RequestPick(t, g, creating) ==
  /\ tasks[t] = Idle
  /\ IF LockHeld(g)
     THEN /\ tasks' = [tasks EXCEPT ![t] =
               [at |-> "lock", server |-> g, creating |-> creating]]
          /\ UNCHANGED <<storeVars, overtaken>>
     ELSE EnterPick(t, g, creating)
  /\ UNCHANGED <<serverVars, pick, relayVars>>

CreateOffer(t) == running /\ RequestPick(t, server, TRUE)

\* The pick that run() of server g is waiting for, if any.
PickOfRun(g) == {t \in Tasks : /\ tasks[t].at \in {"lock", "probe"}
                               /\ tasks[t].server = g /\ ~tasks[t].creating}

EnsureOfferRelaysPinned(t, g) ==
  /\ (g = server /\ running) \/ g \in closing
  /\ PickOfRun(g) = {} /\ Unpinned(memory[g]) # {}
  /\ RequestPick(t, g, FALSE)

LockTaken(t) ==
  /\ tasks[t].at = "lock" /\ ~LockHeld(tasks[t].server)
  /\ EnterPick(t, tasks[t].server, tasks[t].creating)
  /\ UNCHANGED <<serverVars, pick, relayVars>>

\* select_payable_relay: the first of the list that passed, whichever passed;
\* if none did, the first of the list.
Selections(list) ==
  {[relay |-> list[i], ok |-> TRUE] : i \in DOMAIN list}
    \cup {[relay |-> FirstOf(list), ok |-> FALSE]}

Probed(t) ==
  /\ tasks[t].at = "probe"
  /\ LET g == tasks[t].server IN
     \E sel \in Selections(tasks[t].list) :
       /\ pick' = [pick EXCEPT ![g] = [relay |-> sel.relay, ok |-> sel.ok, age |-> 0]]
       /\ UsePick(g, sel, tasks[t].creating)
  /\ tasks' = [tasks EXCEPT ![t] = Idle]
  /\ UNCHANGED <<serverVars, relayVars, overtaken>>

-----------------------------------------------------------------------------
\* _create_offer_custom_relay: the probe of the given relay, then the offer.
CreateOfferCustomRelay(t) ==
  /\ running /\ tasks[t] = Idle
  /\ \E r \in Relays :
       tasks' = [tasks EXCEPT ![t] = [at |-> "custom", server |-> server, relay |-> r]]
  /\ UNCHANGED <<storeVars, serverVars, pickVars, relayVars>>

CustomProbed(t) ==
  /\ tasks[t].at = "custom"
  /\ \/ UNCHANGED storeVars   \* the probe failed
     \/ \E o \in Unused(memory[tasks[t].server]) :
          /\ Write(tasks[t].server,
                   [memory[tasks[t].server] EXCEPT ![o] = tasks[t].relay])
          /\ noffer' = [noffer EXCEPT ![o] = tasks[t].relay]
  /\ tasks' = [tasks EXCEPT ![t] = Idle]
  /\ UNCHANGED <<serverVars, pickVars, relayVars>>

RemoveOffer(o) ==
  /\ running /\ memory[server][o] # Absent
  /\ Write(server, [memory[server] EXCEPT ![o] = Absent])
  /\ noffer' = [noffer EXCEPT ![o] = Blank]
  /\ UNCHANGED <<serverVars, pickVars, relayVars, tasks>>

\* set_label, set_active, set_allow_payer_memo: the offers are written again.
EditOffer ==
  /\ running /\ Present(memory[server]) # {}
  /\ Write(server, memory[server])
  /\ UNCHANGED <<serverVars, pickVars, relayVars, tasks, noffer>>

\* The wallet's relay setting is written: the cached pick is dropped, a probe that
\* is running goes on.
SetRelay ==
  /\ \E list \in Lists, o \in BOOLEAN :
       OwnIsOne(list, o) /\ candidates' = list /\ own' = o
  /\ pick' = IF running THEN [pick EXCEPT ![server] = NoPick] ELSE pick
  /\ overtaken' = IF ~(running /\ LockHeld(server)) THEN "no"
                  ELSE IF overtaken = "global" THEN "global" ELSE "setting"
  /\ UNCHANGED <<storeVars, serverVars, tasks>>

\* The global relay or list of relays changes, for a wallet that goes by it:
\* nothing is told of that, and the cached pick stays.
ChangeGlobalRelays ==
  /\ ~own
  /\ \E list \in Lists \ {candidates} : candidates' = list
  /\ overtaken' = IF running /\ (Fresh(server) \/ LockHeld(server)) THEN "global" ELSE "no"
  /\ UNCHANGED <<storeVars, serverVars, own, pick, tasks>>

\* _stop_server: the server is nobody's, and its close() is scheduled.
StopServer ==
  /\ running /\ running' = FALSE
  /\ closing' = closing \cup {server}
  /\ overtaken' = "no"
  /\ UNCHANGED <<storeVars, server, pick, relayVars, tasks>>

\* The manager is closed, or that failed: the run task is cancelled, and with it
\* the pick it may be making; a create_offer belongs to its caller and goes on
\* with the stopped server.
CloseEnds(g) ==
  /\ g \in closing /\ closing' = closing \ {g}
  /\ tasks' = [t \in Tasks |-> IF t \in PickOfRun(g) THEN Idle ELSE tasks[t]]
  /\ UNCHANGED <<storeVars, server, running, pickVars, relayVars>>

\* start_plugin: a new object, with the offers as they are stored.
StartServer ==
  /\ ~running /\ server < MaxServers
  /\ server' = server + 1 /\ running' = TRUE
  /\ memory' = [memory EXCEPT ![server + 1] = stored]
  /\ overtaken' = "no"
  /\ UNCHANGED <<stored, noffer, torn, closing, pick, relayVars, tasks>>

\* A pick that is too old counts as none everywhere.
Tick ==
  /\ \E g \in Servers : Fresh(g)
  /\ pick' = [g \in Servers |->
       IF pick[g].age + 1 < TTL THEN [pick[g] EXCEPT !.age = @ + 1] ELSE NoPick]
  /\ overtaken' = IF pick'[server].age < TTL \/ LockHeld(server) THEN overtaken ELSE "no"
  /\ UNCHANGED <<storeVars, serverVars, relayVars, tasks>>

Next ==
  \/ \E t \in Tasks :
       \/ CreateOffer(t) \/ (\E g \in Servers : EnsureOfferRelaysPinned(t, g))
       \/ LockTaken(t) \/ Probed(t)
       \/ CreateOfferCustomRelay(t) \/ CustomProbed(t)
  \/ \E o \in OfferIds : RemoveOffer(o)
  \/ \E g \in Servers : CloseEnds(g)
  \/ EditOffer \/ SetRelay \/ ChangeGlobalRelays \/ StopServer \/ StartServer \/ Tick

Spec == Init /\ [][Next]_vars

-----------------------------------------------------------------------------
TaskStates ==
  {Idle}
  \cup [at : {"lock"}, server : Servers, creating : BOOLEAN]
  \cup [at : {"probe"}, server : Servers, creating : BOOLEAN,
        list : Lists]
  \cup [at : {"custom"}, server : Servers, relay : Relays]

\* Types of the state; the lock lets one coroutine of a server probe at a time.
TypeOK ==
  /\ stored \in Pins /\ memory \in [Servers -> Pins]
  /\ server \in Servers /\ running \in BOOLEAN /\ closing \subseteq Servers
  /\ pick \in [Servers -> [relay : Relays \cup {Blank}, ok : BOOLEAN,
                           age : 0..TTL]]
  /\ overtaken \in {"no", "setting", "global"}
  /\ candidates \in Lists /\ own \in BOOLEAN
  /\ tasks \in [Tasks -> TaskStates]
  /\ noffer \in Pins /\ torn \in BOOLEAN
  /\ \A t, u \in Tasks :
       tasks[t].at = "probe" /\ tasks[u].at = "probe"
         /\ tasks[t].server = tasks[u].server => t = u

\* An offer whose noffer was handed out stays stored, and served, with the relay
\* of that noffer until it is removed: through picks that lapse or change,
\* migrations, other creations that were waiting, stops and starts.  Not claimed
\* once a creation begun on a replaced server has written that server's offers.
HandedOutKept ==
  ~torn => \A o \in OfferIds : noffer[o] \in Relays =>
    stored[o] = noffer[o] /\ (running => memory[server][o] = noffer[o])

\* Whatever the offers and the pick, the listener is wanted on every relay that
\* an existing offer advertises, although the default relay is left out as soon
\* as no offer needs it.
AdvertisedAreHeard ==
  AdvertisedRelays(memory[server], EffectiveRelay(server))
    \subseteq ListenRelays(memory[server], EffectiveRelay(server))

\* Offers without a relay do not outlive the first pick that passed, whether it
\* was made for them, for a new offer, or found in the cache.
LegacyMigrated ==
  Fresh(server) /\ pick[server].ok => Unpinned(memory[server]) = {}

\* While a pick is cached it is one of the relays configured now, unless the global
\* list has changed since its probe began, or the setting while that was running.
PickConfigured ==
  running /\ Fresh(server) /\ overtaken = "no" =>
    pick[server].relay \in Range(candidates) \cup {Blank}

\* The same without the exception of the setting, as invalidate_relay_selection
\* promises it.
PickFollowsSetting ==
  running /\ Fresh(server) /\ overtaken # "global" =>
    pick[server].relay \in Range(candidates) \cup {Blank}

\* A relay once pinned in the wallet file, by a creation or by the migration of
\* an old offer, is never replaced by another one.
PinsAreFinal ==
  [][~torn' => \A o \in OfferIds :
       stored[o] \in Relays => stored'[o] \in {stored[o], Absent}]_vars
=============================================================================
