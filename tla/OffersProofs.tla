---------------------------- MODULE OffersProofs ----------------------------
(***************************************************************************)
(* The offers, and the wire that their noffers and requests cross.         *)
(*                                                                         *)
(* For any sets of offers, relays, candidate lists and coroutines: the     *)
(* types of the offers' state, that an offer handed out is kept, that a    *)
(* pinned relay is final, that old offers are migrated, that a cached pick *)
(* is a configured one unless the configuration changed behind it, and     *)
(* that every advertised relay is listened on.                             *)
(*                                                                         *)
(* For any radix, lengths of a key and of a price, and any requests,       *)
(* noffers, cuts and texts: a range that a refusal names can be paid, a    *)
(* noffer and a padded text are read back as they were, and a part of a    *)
(* noffer is refused.  The functions of Wire are recursive, so their       *)
(* proofs begin with what the recursion comes to (CourseOfValues and       *)
(* StepByStep of Sums) and go on by induction on lengths.                  *)
(***************************************************************************)
EXTENDS Offers, Wire, Sums, SequenceTheorems, TLAPS

USE DEF storeVars, serverVars, relayVars, pickVars

\* The part of the state that the store's operations write.
StoreType ==
  /\ stored \in Pins /\ memory \in [Servers -> Pins]
  /\ noffer \in Pins /\ torn \in BOOLEAN
\* Until a replaced server has written, there is one truth about the offers.
StoreAgrees ==
  ~torn => /\ stored = memory[server]
           /\ \A o \in OfferIds : noffer[o] \in Relays => stored[o] = noffer[o]
\* The part the coroutines and the clock write.
PickType ==
  /\ server \in Servers /\ running \in BOOLEAN /\ closing \subseteq Servers
  /\ candidates \in Lists /\ own \in BOOLEAN
  /\ pick \in [Servers -> [relay : Relays \cup {Blank}, ok : BOOLEAN,
                           age : 0..TTL]]
  /\ overtaken \in {"no", "setting", "global"}
  /\ tasks \in [Tasks -> TaskStates]
\* A pick that passed names a relay; servers to come have none yet.
PickPassed == \A g \in Servers : pick[g].ok => pick[g].relay \in Relays
PickUnborn == \A g \in Servers : g > server => pick[g] = NoPick
\* Coroutines belong to servers that exist; a probe of the registered server that
\* was not overtaken is of the candidates as they still are.
TaskServers ==
  /\ closing \subseteq 1..server
  /\ \A t \in Tasks : tasks[t].at # "none" => tasks[t].server \in 1..server
TaskLists ==
  running /\ overtaken = "no" => \A t \in Tasks :
    tasks[t].at = "probe" /\ tasks[t].server = server => tasks[t].list = candidates
OneProbe == \A t, u \in Tasks :
  tasks[t].at = "probe" /\ tasks[u].at = "probe"
    /\ tasks[t].server = tasks[u].server => t = u

IInv ==
  /\ StoreType /\ StoreAgrees
  /\ PickType /\ PickPassed /\ PickUnborn
  /\ TaskServers /\ TaskLists /\ OneProbe
  /\ LegacyMigrated /\ PickConfigured

-----------------------------------------------------------------------------
\* Pinning changes offers without a relay only, and to the relay given.
LEMMA PinMissingFacts ==
  ASSUME NEW m \in Pins, NEW r \in Relays
  PROVE  /\ PinMissing(m, r) \in Pins
         /\ Unpinned(PinMissing(m, r)) = {}
         /\ \A o \in OfferIds : m[o] # Blank => PinMissing(m, r)[o] = m[o]
BY OffersAssumption DEF PinMissing, Pins, Unpinned

\* So does the migration, which is a pinning or nothing.
LEMMA MigratedFacts ==
  ASSUME NEW m \in Pins, NEW sel, sel.ok \in BOOLEAN, sel.ok => sel.relay \in Relays
  PROVE  /\ Migrated(m, sel) \in Pins
         /\ sel.ok => Unpinned(Migrated(m, sel)) = {}
         /\ Unpinned(Migrated(m, sel)) \subseteq Unpinned(m)
         /\ \A o \in OfferIds : m[o] # Blank => Migrated(m, sel)[o] = m[o]
<1>1. CASE sel.ok
  BY <1>1, PinMissingFacts DEF Migrated
<1>2. CASE ~sel.ok
  BY <1>2 DEF Migrated
<1> QED
  BY <1>1, <1>2

\* Writing the offers of a server keeps the agreement, if those handed out keep
\* the relay of their noffer.
LEMMA WriteFacts ==
  ASSUME StoreType, StoreAgrees, server' = server, server \in Servers,
         NEW g \in Servers, NEW m \in Pins, Write(g, m), noffer' \in Pins,
         \A o \in OfferIds : noffer'[o] \in Relays =>
            m[o] = noffer'[o] \/ (noffer'[o] = noffer[o] /\ m[o] = memory[g][o])
  PROVE  /\ StoreType' /\ StoreAgrees'
         /\ memory'[g] = m
         /\ \A h \in Servers : h # g => memory'[h] = memory[h]
<1>1. StoreType'
  BY DEF StoreType, Write
<1>2. memory'[g] = m /\ \A h \in Servers : h # g => memory'[h] = memory[h]
  BY DEF StoreType, Write
<1>3. StoreAgrees'
  <2> SUFFICES ASSUME ~torn'
               PROVE  /\ stored' = memory'[server]
                      /\ \A o \in OfferIds : noffer'[o] \in Relays => stored'[o] = noffer'[o]
    BY DEF StoreAgrees
  <2>1. ~torn /\ g = server
    BY DEF Write, StoreType
  <2> QED
    BY <1>2, <2>1 DEF Write, StoreAgrees, StoreType
<1> QED
  BY <1>1, <1>2, <1>3

\* What a pick, fresh or cached, does to the offers.
LEMMA UsePickFacts ==
  ASSUME StoreType, StoreAgrees, server' = server, server \in Servers,
         NEW g \in Servers, NEW sel, sel.ok \in BOOLEAN,
         sel.ok => sel.relay \in Relays,
         NEW creating \in BOOLEAN, UsePick(g, sel, creating)
  PROVE  /\ StoreType' /\ StoreAgrees'
         /\ sel.ok => Unpinned(memory'[g]) = {}
         /\ Unpinned(memory'[g]) \subseteq Unpinned(memory[g])
         /\ \A h \in Servers : h # g => memory'[h] = memory[h]
         /\ torn' \/ \A o \in OfferIds :
              stored[o] \in Relays => stored'[o] = stored[o]
<1> DEFINE m == Migrated(memory[g], sel)
<1>0. memory[g] \in Pins
  BY DEF StoreType
<1>1. /\ m \in Pins
      /\ sel.ok => Unpinned(m) = {}
      /\ Unpinned(m) \subseteq Unpinned(memory[g])
      /\ \A o \in OfferIds : memory[g][o] # Blank => m[o] = memory[g][o]
  BY <1>0, MigratedFacts
<1>2. ~torn /\ g = server => \A o \in OfferIds : noffer[o] \in Relays => m[o] = noffer[o]
  BY <1>1, OffersAssumption DEF StoreAgrees
<1>a. CASE creating /\ sel.ok
  <2>1. PICK o \in Unused(memory[g]) :
          /\ Write(g, [m EXCEPT ![o] = sel.relay])
          /\ noffer' = [noffer EXCEPT ![o] = sel.relay]
    BY <1>a DEF UsePick
  <2>2. o \in OfferIds /\ memory[g][o] = Absent /\ noffer[o] = Absent
    BY DEF Unused
  <2> DEFINE n == [m EXCEPT ![o] = sel.relay]
  <2>3. n \in Pins /\ noffer' \in Pins
    BY <1>a, <1>1, <2>1, <2>2 DEF Pins, StoreType
  <2>4. Unpinned(n) = {}
    BY <1>a, <1>1, <2>2, OffersAssumption DEF Unpinned, Pins
  <2>5. StoreType' /\ memory'[g] = n
        /\ \A h \in Servers : h # g => memory'[h] = memory[h]
    BY <2>1, <2>3 DEF Write, StoreType
  <2>6. ~torn' => ~torn /\ g = server
    BY <2>1 DEF Write, StoreType
  <2>7. StoreAgrees'
    BY <1>2, <2>1, <2>2, <2>3, <2>5, <2>6, <1>1
    DEF StoreAgrees, Write, StoreType, Pins
  <2>8. torn' \/ \A p \in OfferIds : stored[p] \in Relays => stored'[p] = stored[p]
    BY <1>1, <2>1, <2>2, <2>6, OffersAssumption DEF StoreAgrees, Write, StoreType, Pins
  <2> QED
    BY <2>4, <2>5, <2>7, <2>8
<1>b. CASE ~(creating /\ sel.ok) /\ m # memory[g]
  <2>1. Write(g, m) /\ noffer' = noffer
    BY <1>b DEF UsePick
  <2>2. StoreType' /\ memory'[g] = m
        /\ \A h \in Servers : h # g => memory'[h] = memory[h]
    BY <1>1, <2>1 DEF Write, StoreType
  <2>3. ~torn' => ~torn /\ g = server
    BY <2>1 DEF Write, StoreType
  <2>4. StoreAgrees'
    BY <1>2, <2>1, <2>2, <2>3 DEF StoreAgrees, Write
  <2>5. torn' \/ \A p \in OfferIds : stored[p] \in Relays => stored'[p] = stored[p]
    BY <1>1, <2>1, <2>3, OffersAssumption DEF StoreAgrees, Write
  <2> QED
    BY <1>1, <2>2, <2>4, <2>5
<1>c. CASE ~(creating /\ sel.ok) /\ m = memory[g]
  <2>1. UNCHANGED <<memory, stored, torn, noffer>>
    BY <1>c DEF UsePick
  <2> QED
    BY <1>1, <1>c, <2>1 DEF StoreType, StoreAgrees
<1> QED
  BY <1>a, <1>b, <1>c

-----------------------------------------------------------------------------
\* What PinsAreFinal asks of one step.
PinStep ==
  ~torn' => \A o \in OfferIds : stored[o] \in Relays => stored'[o] \in {stored[o], Absent}

\* A step that leaves the store alone leaves its part of the invariant.
LEMMA StoreUntouched ==
  ASSUME StoreType, StoreAgrees, UNCHANGED <<stored, memory, server, noffer, torn>>
  PROVE  StoreType' /\ StoreAgrees' /\ PinStep
BY DEF StoreType, StoreAgrees, PinStep

\* With the lock in hand: the cached pick is used, or a probe begins.
LEMMA EnterPickIInv ==
  ASSUME IInv, NEW t \in Tasks, NEW g \in 1..server, NEW creating \in BOOLEAN,
         ~LockHeld(g), EnterPick(t, g, creating),
         UNCHANGED <<serverVars, pick, relayVars>>
  PROVE  IInv' /\ PinStep
<1> USE DEF IInv
<1>0. g \in Servers
  BY OffersAssumption DEF PickType, Servers
<1>1. CASE Fresh(g)
  <2>0. PICK sel : sel = pick[g]
    OBVIOUS
  <2>1. UsePick(g, sel, creating) /\ tasks' = [tasks EXCEPT ![t] = Idle]
        /\ overtaken' = overtaken
    BY <1>1, <2>0 DEF EnterPick
  <2>2. sel.ok \in BOOLEAN /\ (sel.ok => sel.relay \in Relays)
    BY <1>0, <2>0 DEF PickType, PickPassed
  <2>3. server' = server /\ server \in Servers
    BY DEF PickType
  <2>4. /\ StoreType' /\ StoreAgrees'
        /\ Unpinned(memory'[g]) \subseteq Unpinned(memory[g])
        /\ \A h \in Servers : h # g => memory'[h] = memory[h]
        /\ torn' \/ \A o \in OfferIds :
             stored[o] \in Relays => stored'[o] = stored[o]
    BY <1>0, <2>1, <2>2, <2>3, UsePickFacts
  <2>5. PickType' /\ PickPassed' /\ PickUnborn' /\ PickConfigured'
    BY <2>1 DEF PickType, PickPassed, PickUnborn, PickConfigured, Fresh, TaskStates
  <2>6. TaskServers' /\ TaskLists' /\ OneProbe'
    BY <2>1 DEF PickType, TaskServers, TaskLists, OneProbe, Idle
  <2>7. LegacyMigrated'
    BY <2>3, <2>4 DEF LegacyMigrated, Fresh
  <2>8. PinStep
    BY <2>4 DEF PinStep
  <2> QED
    BY <2>4, <2>5, <2>6, <2>7, <2>8
<1>2. CASE ~Fresh(g)
  <2> DEFINE task == [at |-> "probe", server |-> g, creating |-> creating,
                      list |-> candidates]
  <2>1. tasks' = [tasks EXCEPT ![t] = task] /\ UNCHANGED <<stored, memory, noffer, torn>>
        /\ overtaken' = IF g = server THEN "no" ELSE overtaken
    BY <1>2 DEF EnterPick
  <2>2. task \in TaskStates
    BY <1>0 DEF TaskStates, PickType
  <2>3. PickType' /\ PickPassed' /\ PickUnborn' /\ PickConfigured' /\ LegacyMigrated'
    BY <1>2, <2>1, <2>2
    DEF PickType, PickPassed, PickUnborn, PickConfigured, LegacyMigrated, Fresh
  <2>4. TaskServers' /\ TaskLists'
    BY <2>1 DEF PickType, TaskServers, TaskLists, LockHeld
  <2>5. OneProbe'
    BY <2>1 DEF PickType, OneProbe, LockHeld
  <2> QED
    BY <2>1, <2>3, <2>4, <2>5, StoreUntouched
<1> QED
  BY <1>1, <1>2

\* A pick is asked for: it waits for the lock, or goes on at once.
LEMMA RequestPickIInv ==
  ASSUME IInv, NEW t \in Tasks, NEW g \in 1..server, NEW creating \in BOOLEAN,
         RequestPick(t, g, creating)
  PROVE  IInv' /\ PinStep
<1>0. g \in Servers
  BY OffersAssumption DEF IInv, PickType, Servers
<1>1. CASE LockHeld(g)
  <2> USE DEF IInv
  <2> DEFINE task == [at |-> "lock", server |-> g, creating |-> creating]
  <2>1. tasks' = [tasks EXCEPT ![t] = task]
        /\ UNCHANGED <<storeVars, serverVars, pickVars, relayVars>>
    BY <1>1 DEF RequestPick
  <2>2. task \in TaskStates
    BY <1>0 DEF TaskStates, PickType
  <2>3. PickType' /\ PickPassed' /\ PickUnborn' /\ PickConfigured' /\ LegacyMigrated'
    BY <2>1, <2>2 DEF PickType, PickPassed, PickUnborn, PickConfigured, LegacyMigrated, Fresh
  <2>4. TaskServers' /\ TaskLists' /\ OneProbe'
    BY <1>0, <2>1 DEF PickType, TaskServers, TaskLists, OneProbe
  <2> QED
    BY <2>1, <2>3, <2>4, StoreUntouched
<1>2. CASE ~LockHeld(g)
  BY <1>2, EnterPickIInv DEF RequestPick
<1> QED
  BY <1>1, <1>2

\* A waiting coroutine gets the lock.
LEMMA LockTakenIInv ==
  ASSUME IInv, NEW t \in Tasks, LockTaken(t) PROVE IInv' /\ PinStep
<1>1. PICK g, creating : g = tasks[t].server /\ creating = tasks[t].creating
  OBVIOUS
<1>2. g \in 1..server /\ creating \in BOOLEAN
  BY <1>1 DEF LockTaken, IInv, PickType, TaskServers, TaskStates, Idle
<1> QED
  BY <1>1, <1>2, EnterPickIInv DEF LockTaken

\* What select_payable_relay can return.
LEMMA SelectionsType ==
  ASSUME NEW list \in Lists, NEW sel \in Selections(list)
  PROVE  /\ sel.ok \in BOOLEAN
         /\ sel.relay \in Relays \cup {Blank}
         /\ sel.relay \in Range(list) \cup {Blank}
         /\ sel.ok => sel.relay \in Relays
<1>0. list \in Seq(Relays)
  BY OffersAssumption
<1>1. CASE sel = [relay |-> FirstOf(list), ok |-> FALSE]
  <2>1. FirstOf(list) \in Range(list) \cup {Blank}
    BY <1>0 DEF FirstOf, Range
  <2>2. Range(list) \subseteq Relays
    BY <1>0 DEF Range
  <2> QED
    BY <1>1, <2>1, <2>2
<1>2. CASE \E i \in DOMAIN list : sel = [relay |-> list[i], ok |-> TRUE]
  BY <1>0, <1>2 DEF Range
<1> QED
  BY <1>1, <1>2 DEF Selections

\* A probe ends: the pick is cached and used.
LEMMA ProbedIInv ==
  ASSUME IInv, NEW t \in Tasks, Probed(t) PROVE IInv' /\ PinStep
<1> USE DEF IInv
<1>0. tasks[t].at = "probe" /\ tasks[t] \in TaskStates
  BY DEF Probed, PickType
<1>1. PICK g, creating, sel, list :
        /\ g = tasks[t].server /\ creating = tasks[t].creating
        /\ list = tasks[t].list
        /\ sel \in Selections(list)
        /\ pick' = [pick EXCEPT ![g] = [relay |-> sel.relay, ok |-> sel.ok, age |-> 0]]
        /\ UsePick(g, sel, creating)
  BY DEF Probed
<1>2. g \in 1..server /\ g \in Servers /\ creating \in BOOLEAN
      /\ list \in Lists
  BY <1>0, <1>1, OffersAssumption DEF TaskServers, PickType, Servers, TaskStates, Idle
<1>3. /\ sel.ok \in BOOLEAN /\ sel.relay \in Relays \cup {Blank}
      /\ sel.relay \in Range(list) \cup {Blank}
      /\ sel.ok => sel.relay \in Relays
  BY <1>1, <1>2, SelectionsType
<1>4. /\ tasks' = [tasks EXCEPT ![t] = Idle]
      /\ UNCHANGED <<serverVars, relayVars, overtaken>>
  BY DEF Probed
<1>5. server \in Servers
  BY DEF PickType
<1>6. /\ StoreType' /\ StoreAgrees'
      /\ sel.ok => Unpinned(memory'[g]) = {}
      /\ Unpinned(memory'[g]) \subseteq Unpinned(memory[g])
      /\ \A h \in Servers : h # g => memory'[h] = memory[h]
      /\ torn' \/ \A o \in OfferIds : stored[o] \in Relays => stored'[o] = stored[o]
  BY <1>1, <1>2, <1>3, <1>4, <1>5, UsePickFacts, SMTT(30)
<1>7. /\ pick'[g] = [relay |-> sel.relay, ok |-> sel.ok, age |-> 0]
      /\ \A h \in Servers : h # g => pick'[h] = pick[h]
  BY <1>1, <1>2 DEF PickType
<1>8. PickType'
  BY <1>1, <1>2, <1>3, <1>4, OffersAssumption DEF PickType, TaskStates
<1>9. PickPassed' /\ PickUnborn'
  BY <1>2, <1>3, <1>4, <1>5, <1>7 DEF PickPassed, PickUnborn, Servers
<1>10. TaskServers' /\ TaskLists' /\ OneProbe'
  BY <1>4 DEF PickType, TaskServers, TaskLists, OneProbe, Idle
<1>11. LegacyMigrated'
  BY <1>4, <1>5, <1>6, <1>7 DEF LegacyMigrated, Fresh
<1>12. PickConfigured'
  <2>1. running /\ overtaken = "no" /\ g = server => list = candidates
    BY <1>0, <1>1 DEF TaskLists
  <2> QED
    BY <1>3, <1>4, <1>5, <1>7, <2>1 DEF PickConfigured, Fresh
<1>13. PinStep
  BY <1>6 DEF PinStep
<1> QED
  BY <1>6, <1>8, <1>9, <1>10, <1>11, <1>12, <1>13

\* A step that only writes the store, or one task, leaves the picks alone.
LEMMA PicksUntouched ==
  ASSUME IInv, UNCHANGED <<serverVars, pickVars, relayVars>>, NEW t \in Tasks,
         NEW task \in TaskStates, task.at # "probe",
         task.at # "none" => task.server \in 1..server,
         tasks' = [tasks EXCEPT ![t] = task] \/ tasks' = tasks
  PROVE  PickType' /\ PickPassed' /\ PickUnborn' /\ PickConfigured'
         /\ TaskServers' /\ TaskLists' /\ OneProbe'
<1>1. PickType' /\ PickPassed' /\ PickUnborn' /\ PickConfigured'
  BY DEF IInv, PickType, PickPassed, PickUnborn, PickConfigured, Fresh
<1>2. TaskServers' /\ TaskLists' /\ OneProbe'
  BY DEF IInv, PickType, TaskServers, TaskLists, OneProbe
<1> QED
  BY <1>1, <1>2

\* The probe of a custom relay begins.
LEMMA CustomIInv ==
  ASSUME IInv, NEW t \in Tasks, CreateOfferCustomRelay(t) PROVE IInv' /\ PinStep
<1>1. PICK r \in Relays :
        tasks' = [tasks EXCEPT ![t] = [at |-> "custom", server |-> server, relay |-> r]]
  BY DEF CreateOfferCustomRelay
<1>2. PICK task : task = [at |-> "custom", server |-> server, relay |-> r]
  OBVIOUS
<1>3. task \in TaskStates /\ task.at # "probe" /\ task.server \in 1..server
  BY <1>2, OffersAssumption DEF TaskStates, IInv, PickType, Servers
<1>4. UNCHANGED <<storeVars, serverVars, pickVars, relayVars>>
  BY DEF CreateOfferCustomRelay
<1>5. PickType' /\ PickPassed' /\ PickUnborn' /\ PickConfigured'
      /\ TaskServers' /\ TaskLists' /\ OneProbe'
  BY <1>1, <1>2, <1>3, <1>4, PicksUntouched
<1>6. LegacyMigrated'
  BY <1>4 DEF IInv, LegacyMigrated, Fresh
<1> QED
  BY <1>4, <1>5, <1>6, StoreUntouched DEF IInv

\* It ends: the offer is created, or not.
LEMMA CustomProbedIInv ==
  ASSUME IInv, NEW t \in Tasks, CustomProbed(t) PROVE IInv' /\ PinStep
<1>1. PICK g, r : g = tasks[t].server /\ r = tasks[t].relay
  OBVIOUS
<1>2. g \in 1..server /\ g \in Servers /\ r \in Relays
  BY <1>1, OffersAssumption
  DEF CustomProbed, IInv, PickType, TaskServers, TaskStates, Idle, Servers
<1>3. tasks' = [tasks EXCEPT ![t] = Idle] /\ UNCHANGED <<serverVars, pickVars, relayVars>>
  BY DEF CustomProbed
<1>4. Idle \in TaskStates /\ Idle.at = "none"
  BY DEF TaskStates, Idle
<1>5. PickType' /\ PickPassed' /\ PickUnborn' /\ PickConfigured'
      /\ TaskServers' /\ TaskLists' /\ OneProbe'
  BY <1>3, <1>4, PicksUntouched
<1>6. CASE UNCHANGED <<stored, memory, noffer, torn>>
  <2>1. LegacyMigrated'
    BY <1>3, <1>6 DEF IInv, LegacyMigrated, Fresh
  <2> QED
    BY <1>3, <1>5, <1>6, <2>1, StoreUntouched DEF IInv
<1>7. CASE \E o \in Unused(memory[g]) :
             /\ Write(g, [memory[g] EXCEPT ![o] = r])
             /\ noffer' = [noffer EXCEPT ![o] = r]
  <2> USE DEF IInv
  <2>1. PICK o \in Unused(memory[g]) :
             /\ Write(g, [memory[g] EXCEPT ![o] = r])
             /\ noffer' = [noffer EXCEPT ![o] = r]
    BY <1>7
  <2>2. PICK m : m = [memory[g] EXCEPT ![o] = r]
    OBVIOUS
  <2>3. o \in OfferIds /\ memory[g] \in Pins /\ memory[g][o] = Absent
    BY <1>2 DEF Unused, StoreType
  <2>4. m \in Pins /\ noffer' \in Pins
    BY <1>2, <2>1, <2>2, <2>3 DEF Pins, StoreType
  <2>5. \A p \in OfferIds : noffer'[p] \in Relays =>
          m[p] = noffer'[p] \/ (noffer'[p] = noffer[p] /\ m[p] = memory[g][p])
    BY <2>1, <2>2, <2>3 DEF Pins, StoreType
  <2>a. Write(g, m) /\ server' = server /\ server \in Servers
    BY <1>3, <2>1, <2>2 DEF PickType
  <2>6. /\ StoreType' /\ StoreAgrees' /\ memory'[g] = m
        /\ \A h \in Servers : h # g => memory'[h] = memory[h]
    BY <1>2, <2>4, <2>5, <2>a, WriteFacts
  <2>7. Unpinned(m) = Unpinned(memory[g])
    BY <1>2, <2>2, <2>3, OffersAssumption DEF Unpinned, Pins
  <2>8. LegacyMigrated'
    BY <1>3, <2>6, <2>7 DEF LegacyMigrated, Fresh, PickType
  <2>9. PinStep
    BY <2>1, <2>2, <2>3, OffersAssumption
    DEF PinStep, Write, StoreAgrees, StoreType, Pins
  <2> QED
    BY <1>5, <2>6, <2>8, <2>9
<1> QED
  BY <1>1, <1>6, <1>7 DEF CustomProbed

\* An offer is removed: its noffer is withdrawn.
LEMMA RemoveIInv ==
  ASSUME IInv, NEW o \in OfferIds, RemoveOffer(o) PROVE IInv' /\ PinStep
<1> USE DEF IInv
<1>1. PICK m : m = [memory[server] EXCEPT ![o] = Absent]
  OBVIOUS
<1>2. /\ Write(server, m) /\ noffer' = [noffer EXCEPT ![o] = Blank]
      /\ UNCHANGED <<serverVars, pickVars, relayVars, tasks>>
  BY <1>1 DEF RemoveOffer
<1>3. server \in Servers /\ memory[server] \in Pins
  BY DEF PickType, StoreType
<1>4. m \in Pins /\ noffer' \in Pins
  BY <1>1, <1>2, <1>3 DEF Pins, StoreType
<1>5. StoreType' /\ memory'[server] = m
  BY <1>2, <1>3, <1>4 DEF Write, StoreType
<1>6. StoreAgrees' /\ PinStep
  BY <1>1, <1>2, <1>3, <1>5, OffersAssumption
  DEF StoreAgrees, PinStep, Write, StoreType, Pins
<1>7. LegacyMigrated'
  BY <1>1, <1>2, <1>3, <1>5, OffersAssumption DEF LegacyMigrated, Fresh, Unpinned, Pins
<1>8. PickType' /\ PickPassed' /\ PickUnborn' /\ PickConfigured'
      /\ TaskServers' /\ TaskLists' /\ OneProbe'
  BY <1>2 DEF PickType, PickPassed, PickUnborn, PickConfigured, Fresh,
              TaskServers, TaskLists, OneProbe
<1> QED
  BY <1>5, <1>6, <1>7, <1>8

\* An edit writes what is there.
LEMMA EditIInv == ASSUME IInv, EditOffer PROVE IInv' /\ PinStep
<1> USE DEF IInv
<1>1. /\ Write(server, memory[server])
      /\ UNCHANGED <<serverVars, pickVars, relayVars, tasks, noffer>>
  BY DEF EditOffer
<1>2. server \in Servers /\ memory[server] \in Pins
  BY DEF PickType, StoreType
<1>3. memory' = memory /\ stored' = memory[server] /\ torn' = torn
  BY <1>1, <1>2 DEF Write, StoreType
<1>4. StoreType' /\ StoreAgrees' /\ PinStep /\ LegacyMigrated'
  BY <1>1, <1>2, <1>3 DEF StoreType, StoreAgrees, PinStep, LegacyMigrated, Fresh
<1>5. PickType' /\ PickPassed' /\ PickUnborn' /\ PickConfigured'
      /\ TaskServers' /\ TaskLists' /\ OneProbe'
  BY <1>1 DEF PickType, PickPassed, PickUnborn, PickConfigured, Fresh,
              TaskServers, TaskLists, OneProbe
<1> QED
  BY <1>4, <1>5

\* The setting changes: the cached pick is dropped, a probe under way is overtaken.
LEMMA SetRelayIInv == ASSUME IInv, SetRelay PROVE IInv' /\ PinStep
<1> USE DEF IInv
<1>1. /\ candidates' \in Lists /\ own' \in BOOLEAN
      /\ pick' = IF running THEN [pick EXCEPT ![server] = NoPick] ELSE pick
      /\ overtaken' \in {"no", "setting", "global"}
      /\ overtaken' = "no" => ~(running /\ LockHeld(server))
      /\ UNCHANGED <<storeVars, serverVars, tasks>>
  BY DEF SetRelay
<1>2. TaskServers' /\ TaskLists' /\ OneProbe'
  BY <1>1 DEF TaskServers, TaskLists, OneProbe, LockHeld
<1>3. NoPick \in [relay : Relays \cup {Blank}, ok : BOOLEAN, age : 0..TTL]
      /\ NoPick.ok = FALSE /\ ~(NoPick.age < TTL)
  BY OffersAssumption DEF NoPick
<1>4. pick' \in [Servers -> [relay : Relays \cup {Blank}, ok : BOOLEAN, age : 0..TTL]]
  BY <1>1, <1>3 DEF PickType
<1>5. PickType'
  BY <1>1, <1>4 DEF PickType
<1>6. \A g \in Servers : pick'[g] = pick[g] \/ pick'[g] = NoPick
  BY <1>1 DEF PickType
<1>7. PickPassed' /\ PickUnborn' /\ LegacyMigrated'
  BY <1>1, <1>3, <1>6 DEF PickPassed, PickUnborn, LegacyMigrated, Fresh, PickType
<1>8. PickConfigured'
  BY <1>1, <1>3 DEF PickConfigured, Fresh, PickType
<1> QED
  BY <1>1, <1>2, <1>5, <1>7, <1>8, StoreUntouched

\* The global list changes: a pick that is cached or being made is overtaken.
LEMMA ChangeGlobalIInv == ASSUME IInv, ChangeGlobalRelays PROVE IInv' /\ PinStep
<1> USE DEF IInv
<1>1. /\ candidates' \in Lists
      /\ overtaken' \in {"no", "setting", "global"}
      /\ overtaken' = "no" => ~(running /\ (Fresh(server) \/ LockHeld(server)))
      /\ UNCHANGED <<storeVars, serverVars, own, pick, tasks>>
  BY DEF ChangeGlobalRelays
<1>2. TaskServers' /\ TaskLists' /\ OneProbe'
  BY <1>1 DEF TaskServers, TaskLists, OneProbe, LockHeld
<1>3. PickType' /\ PickPassed' /\ PickUnborn' /\ LegacyMigrated'
  BY <1>1 DEF PickType, PickPassed, PickUnborn, LegacyMigrated, Fresh
<1>4. PickConfigured'
  BY <1>1 DEF PickConfigured, Fresh
<1> QED
  BY <1>1, <1>2, <1>3, <1>4, StoreUntouched

\* The server stops: its coroutines go on.
LEMMA StopIInv == ASSUME IInv, StopServer PROVE IInv' /\ PinStep
<1> USE DEF IInv
<1>1. /\ running' = FALSE /\ closing' = closing \cup {server} /\ overtaken' = "no"
      /\ UNCHANGED <<storeVars, server, pick, relayVars, tasks>>
  BY DEF StopServer
<1>2. PickType' /\ PickPassed' /\ PickUnborn' /\ PickConfigured' /\ LegacyMigrated'
  BY <1>1 DEF PickType, PickPassed, PickUnborn, PickConfigured, LegacyMigrated, Fresh
<1>3. TaskServers' /\ TaskLists' /\ OneProbe'
  <2>1. server \in 1..server
    BY OffersAssumption DEF PickType, Servers
  <2> QED
    BY <1>1, <2>1 DEF TaskServers, TaskLists, OneProbe
<1> QED
  BY <1>1, <1>2, <1>3, StoreUntouched

\* Its close has ended: some coroutines end, the others go on.
LEMMA CloseEndsIInv ==
  ASSUME IInv, NEW g \in Servers, CloseEnds(g) PROVE IInv' /\ PinStep
<1> USE DEF IInv
<1>1. /\ closing' \subseteq closing
      /\ tasks' \in [Tasks -> TaskStates]
      /\ \A t \in Tasks : tasks'[t] = tasks[t] \/ tasks'[t] = Idle
      /\ UNCHANGED <<storeVars, server, running, pickVars, relayVars>>
  <2>1. Idle \in TaskStates
    BY DEF TaskStates
  <2> QED
    BY <2>1 DEF CloseEnds, PickType
<1>2. PickType' /\ PickPassed' /\ PickUnborn' /\ PickConfigured' /\ LegacyMigrated'
  BY <1>1 DEF PickType, PickPassed, PickUnborn, PickConfigured, LegacyMigrated, Fresh
<1>3. TaskServers' /\ TaskLists' /\ OneProbe'
  BY <1>1 DEF TaskServers, TaskLists, OneProbe, Idle
<1> QED
  BY <1>1, <1>2, <1>3, StoreUntouched

\* A new server reads what is stored, and has no pick.
LEMMA StartIInv == ASSUME IInv, StartServer PROVE IInv' /\ PinStep
<1> USE DEF IInv
<1>1. /\ server' = server + 1 /\ running'
      /\ memory' = [memory EXCEPT ![server + 1] = stored]
      /\ server < MaxServers
      /\ UNCHANGED <<stored, noffer, torn, closing, pick, relayVars, tasks>>
      /\ overtaken' = "no"
  BY DEF StartServer
<1>2. server + 1 \in Servers /\ server \in Nat
  BY <1>1, OffersAssumption DEF PickType, Servers
<1>3. StoreType' /\ StoreAgrees' /\ PinStep
  BY <1>1, <1>2 DEF StoreType, StoreAgrees, PinStep
<1>4. pick[server + 1] = NoPick
  BY <1>2 DEF PickUnborn
<1>5. PickType' /\ PickPassed' /\ PickUnborn'
  BY <1>1, <1>2 DEF PickType, PickPassed, PickUnborn, Servers
<1>6. PickConfigured' /\ LegacyMigrated'
  BY <1>1, <1>4, OffersAssumption DEF PickConfigured, LegacyMigrated, Fresh, NoPick
<1>7. TaskServers' /\ TaskLists' /\ OneProbe'
  <2>1. \A n \in 1..server : n \in 1..server + 1 /\ n # server + 1
    BY <1>2
  <2>2. TaskServers' /\ OneProbe'
    BY <1>1, <2>1 DEF TaskServers, OneProbe
  <2>3. TaskLists'
    BY <1>1, <2>1 DEF TaskServers, TaskLists
  <2> QED
    BY <2>2, <2>3
<1> QED
  BY <1>3, <1>5, <1>6, <1>7

\* Time passes: a pick grows older, or is none any more.
LEMMA TickIInv == ASSUME IInv, Tick PROVE IInv' /\ PinStep
<1> USE DEF IInv
<1> DEFINE Picks == [relay : Relays \cup {Blank}, ok : BOOLEAN, age : 0..TTL]
<1>1. /\ pick' = [g \in Servers |->
           IF pick[g].age + 1 < TTL THEN [pick[g] EXCEPT !.age = @ + 1] ELSE NoPick]
      /\ overtaken' = IF pick'[server].age < TTL \/ LockHeld(server)
                      THEN overtaken ELSE "no"
      /\ UNCHANGED <<storeVars, serverVars, relayVars, tasks>>
  BY DEF Tick
<1>2. NoPick \in Picks /\ NoPick.ok = FALSE /\ ~(NoPick.age < TTL)
  BY OffersAssumption DEF NoPick
<1>3. ASSUME NEW g \in Servers
      PROVE  /\ pick'[g] \in Picks
             /\ \/ pick'[g] = NoPick
                \/ /\ pick'[g].relay = pick[g].relay /\ pick'[g].ok = pick[g].ok
                   /\ pick[g].age < TTL
  <2>1. pick[g] \in Picks
    BY DEF PickType
  <2>2. CASE pick[g].age + 1 < TTL
    BY <1>1, <2>1, <2>2, OffersAssumption
  <2>3. CASE ~(pick[g].age + 1 < TTL)
    BY <1>1, <1>2, <2>3
  <2> QED
    BY <2>2, <2>3
<1>4. pick' \in [Servers -> Picks]
  BY <1>1, <1>3
<1>5. PickType'
  BY <1>1, <1>4 DEF PickType
<1>6. PickPassed'
  BY <1>2, <1>3 DEF PickPassed
<1>7. PickUnborn'
  BY <1>1, <1>3, OffersAssumption DEF PickUnborn, NoPick
<1>8. LegacyMigrated' /\ PickConfigured'
  BY <1>1, <1>2, <1>3 DEF LegacyMigrated, PickConfigured, Fresh, PickType
<1>9. TaskServers' /\ TaskLists' /\ OneProbe'
  BY <1>1 DEF TaskServers, TaskLists, OneProbe, LockHeld
<1> QED
  BY <1>1, <1>5, <1>6, <1>7, <1>8, <1>9, StoreUntouched

-----------------------------------------------------------------------------
\* The first state: old offers, one server, no pick.
LEMMA InitIInv == ASSUME Init PROVE IInv
<1>1. /\ stored \in Pins /\ memory = [g \in Servers |-> stored]
      /\ noffer \in Pins /\ \A o \in OfferIds : noffer[o] = Absent
  BY DEF Init, Pins
<1>2. server = 1 /\ 1 \in Servers /\ torn = FALSE
  BY OffersAssumption DEF Init, Servers
<1>3. StoreType /\ StoreAgrees
  BY <1>1, <1>2, OffersAssumption DEF StoreType, StoreAgrees
<1>4. /\ pick = [g \in Servers |-> NoPick]
      /\ tasks = [t \in Tasks |-> Idle]
      /\ candidates \in Lists /\ running = TRUE /\ own \in BOOLEAN
      /\ overtaken = "no" /\ closing = {}
  BY DEF Init
<1>5. PickType /\ PickPassed /\ PickUnborn
  BY <1>2, <1>4, OffersAssumption DEF PickType, PickPassed, PickUnborn, NoPick, TaskStates
<1>6. TaskServers /\ TaskLists /\ OneProbe
  BY <1>4 DEF TaskServers, TaskLists, OneProbe, Idle
<1>7. LegacyMigrated /\ PickConfigured
  BY <1>2, <1>4, OffersAssumption DEF LegacyMigrated, PickConfigured, Fresh, NoPick
<1> QED
  BY <1>3, <1>5, <1>6, <1>7 DEF IInv

\* Every step keeps the invariant, and every pinned relay.
LEMMA NextIInv == ASSUME IInv, [Next]_vars PROVE IInv' /\ PinStep
<1>0. server \in 1..server
  BY OffersAssumption DEF IInv, PickType, Servers
<1>1. CASE \E t \in Tasks : CreateOffer(t)
  BY <1>0, <1>1, RequestPickIInv DEF CreateOffer
<1>2. CASE \E t \in Tasks, g \in Servers : EnsureOfferRelaysPinned(t, g)
  <2>1. PICK t \in Tasks, g \in Servers :
          (g = server \/ g \in closing) /\ RequestPick(t, g, FALSE)
    BY <1>2 DEF EnsureOfferRelaysPinned
  <2>2. g \in 1..server
    BY <1>0, <2>1 DEF IInv, TaskServers
  <2> QED
    BY <2>1, <2>2, RequestPickIInv
<1>3. CASE \E t \in Tasks : LockTaken(t)
  BY <1>3, LockTakenIInv
<1>4. CASE \E t \in Tasks : Probed(t)
  BY <1>4, ProbedIInv
<1>5. CASE \E t \in Tasks : CreateOfferCustomRelay(t)
  BY <1>5, CustomIInv
<1>6. CASE \E t \in Tasks : CustomProbed(t)
  BY <1>6, CustomProbedIInv
<1>7. CASE \E o \in OfferIds : RemoveOffer(o)
  BY <1>7, RemoveIInv
<1>8. CASE EditOffer
  BY <1>8, EditIInv
<1>9. CASE SetRelay
  BY <1>9, SetRelayIInv
<1>10. CASE StopServer
  BY <1>10, StopIInv
<1>11. CASE StartServer
  BY <1>11, StartIInv
<1>12. CASE Tick
  BY <1>12, TickIInv
<1>13. CASE ChangeGlobalRelays
  BY <1>13, ChangeGlobalIInv
<1>14. CASE \E g \in Servers : CloseEnds(g)
  BY <1>14, CloseEndsIInv
<1>15. CASE UNCHANGED vars
  <2>1. UNCHANGED <<storeVars, serverVars, pickVars, relayVars, tasks>>
    BY <1>15 DEF vars
  <2>2. StoreType' /\ StoreAgrees' /\ PinStep
    BY <2>1, StoreUntouched DEF IInv
  <2>3. PickType' /\ PickPassed' /\ PickUnborn' /\ PickConfigured' /\ LegacyMigrated'
    BY <2>1 DEF IInv, PickType, PickPassed, PickUnborn, PickConfigured, LegacyMigrated, Fresh
  <2>4. TaskServers' /\ TaskLists' /\ OneProbe'
    BY <2>1 DEF IInv, TaskServers, TaskLists, OneProbe
  <2> QED
    BY <2>2, <2>3, <2>4 DEF IInv
<1> QED
  BY <1>1, <1>2, <1>3, <1>4, <1>5, <1>6, <1>7, <1>8, <1>9, <1>10, <1>11, <1>12, <1>13,
     <1>14, <1>15
  DEF Next

\* Every reachable state satisfies the invariant: what is stored is what the
\* newest server has in memory, and what that server picked or is probing is of
\* the candidates as they are, or was overtaken by a change of them.
THEOREM InductiveInvariant == Spec => []IInv
<1>1. Init => IInv
  BY InitIInv
<1>2. IInv /\ [Next]_vars => IInv'
  BY NextIInv
<1> QED
  BY <1>1, <1>2, PTL DEF Spec

\* The state has its types, and one coroutine of a server probes at a time.
THEOREM TypeCorrect == Spec => []TypeOK
<1>1. IInv => TypeOK
  BY DEF IInv, TypeOK, StoreType, PickType, OneProbe
<1> QED
  BY InductiveInvariant, <1>1, PTL

\* An offer handed out stays stored and served with the relay of its noffer.
THEOREM HandedOutStays == Spec => []HandedOutKept
<1>1. IInv => HandedOutKept
  BY DEF IInv, HandedOutKept, StoreAgrees
<1> QED
  BY InductiveInvariant, <1>1, PTL

\* After a pick that passed no offer of that server is without a relay.
THEOREM LegacyIsMigrated == Spec => []LegacyMigrated
<1>1. IInv => LegacyMigrated
  BY DEF IInv
<1> QED
  BY InductiveInvariant, <1>1, PTL

\* A cached pick is one of the relays configured now, unless the global list has
\* changed since its probe began, or the setting while that was running.  No other
\* step makes it stale: not a creation that waited for the lock, not the probe of
\* a replaced server, not a stop and start.
THEOREM PickIsConfigured == Spec => []PickConfigured
<1>1. IInv => PickConfigured
  BY DEF IInv
<1> QED
  BY InductiveInvariant, <1>1, PTL

\* For any offers and any default: what is advertised is listened on.
LEMMA AdvertisedSubset ==
  ASSUME NEW m, NEW d
  PROVE  AdvertisedRelays(m, d) \subseteq ListenRelays(m, d)
BY DEF AdvertisedRelays, AdvertisedRelay, ListenRelays, DefaultNeeded, Present, Unpinned

\* So the listener is wanted wherever an offer says it is.
THEOREM AdvertisedIsHeard == Spec => []AdvertisedAreHeard
<1>1. AdvertisedAreHeard
  BY AdvertisedSubset DEF AdvertisedAreHeard
<1> QED
  BY <1>1, PTL

\* No step replaces a pinned relay by another one.
THEOREM PinsAreKept == Spec => PinsAreFinal
<1>1. IInv /\ [Next]_vars =>
        (~torn' => \A o \in OfferIds : stored[o] \in Relays => stored'[o] \in {stored[o], Absent})
  BY NextIInv DEF PinStep
<1> QED
  BY InductiveInvariant, <1>1, PTL DEF Spec, PinsAreFinal

-----------------------------------------------------------------------------
(* Wire: the range that a refusal names.                                   *)

\* The factor is the one its recursion describes.
LEMMA FactorIs ==
  Factor = [n \in Nat |-> IF n < 100 THEN 1 ELSE 10 * Factor[n \div 10]]
<1>. DEFINE f == [p \in Nat \X [Nat -> Nat] |->
                    IF p[1] < 100 THEN 1 ELSE 10 * p[2][p[1] \div 10]]
<1>1. /\ f \in [Nat \X [Nat -> Nat] -> Nat]
      /\ \A n \in Nat, g \in [Nat -> Nat] :
           f[<<n, g>>] = IF n < 100 THEN 1 ELSE 10 * g[n \div 10]
  OBVIOUS
<1>2. \A n \in Nat : n >= 100 => n \div 10 \in Nat /\ n \div 10 < n
  OBVIOUS
<1>. HIDE DEF f
<1>3. PICK g \in [Nat -> Nat] : \A n \in Nat : g[n] = f[<<n, g>>]
  <2>1. ASSUME NEW n \in Nat, NEW g \in [Nat -> Nat], NEW h \in [Nat -> Nat],
               \A m \in Nat : m < n => g[m] = h[m]
        PROVE  f[<<n, g>>] = f[<<n, h>>]
    <3>1. n >= 100 => g[n \div 10] = h[n \div 10]
      BY <1>2, <2>1, Zenon
    <3>2. /\ f[<<n, g>>] = IF n < 100 THEN 1 ELSE 10 * g[n \div 10]
          /\ f[<<n, h>>] = IF n < 100 THEN 1 ELSE 10 * h[n \div 10]
      BY <1>1, Zenon
    <3>3. n < 100 \/ n >= 100
      OBVIOUS
    <3>. QED
      BY <3>1, <3>2, <3>3, Zenon
  <2>2. FromBelow(f, Nat)
    BY <1>1, <2>1 DEF FromBelow
  <2>. QED
    BY <2>2, CourseOfValues, SMTT(40) DEF Obeys
<1>4. g = [n \in Nat |-> IF n < 100 THEN 1 ELSE 10 * g[n \div 10]]
  BY <1>1, <1>3
<1>. QED
  BY <1>4, Zenon DEF Factor

\* It is a tenth of the number at most, and 1 for two digits.
LEMMA FactorFits ==
  \A n \in Nat : /\ Factor[n] \in Nat \ {0}
                 /\ n < 100 => Factor[n] = 1
                 /\ n >= 100 => 10 * Factor[n] <= n
<1>. DEFINE Fit(n) == /\ Factor[n] \in Nat \ {0}
                      /\ n < 100 => Factor[n] = 1
                      /\ n >= 100 => 10 * Factor[n] <= n
            T == {n \in Nat : \A m \in 0..n : Fit(m)}
<1>1. \A n \in Nat : Factor[n] = IF n < 100 THEN 1 ELSE 10 * Factor[n \div 10]
  BY FactorIs, Zenon
<1>2. 0 \in T
  BY <1>1
<1>3. ASSUME NEW n \in Nat, n \in T PROVE n + 1 \in T
  <2>. DEFINE q == (n + 1) \div 10
  <2>1. CASE n + 1 < 100
    BY <1>1, <1>3, <2>1
  <2>2. CASE n + 1 >= 100
    <3>1. q \in 0..n /\ q >= 10 /\ 10 * q <= n + 1
      BY <2>2
    <3>. HIDE DEF q
    <3>2. Fit(q)
      BY <1>3, <3>1
    <3>3. Factor[n + 1] = 10 * Factor[q]
      BY <1>1, <2>2 DEF q
    <3>4. Fit(n + 1)
      BY <2>2, <3>1, <3>2, <3>3
    <3>. QED
      BY <1>3, <3>4
  <2>. QED
    BY <2>1, <2>2
<1>. HIDE DEF T
<1>4. Nat \subseteq T
  BY <1>2, <1>3, NatSetInduction
<1>. QED
  BY <1>4 DEF T

\* Rounding down: nothing is added, and less than a tenth is lost.
LEMMA QuantizeFits ==
  ASSUME NEW n \in Nat \ {0}
  PROVE  /\ QuantizeAvailable(n) \in 1..n
         /\ 10 * (n - QuantizeAvailable(n)) < n
<1>1. PICK f \in Nat \ {0} : /\ f = Factor[n]
                             /\ n < 100 => f = 1
                             /\ n >= 100 => 10 * f <= n
  BY FactorFits
<1>2. PICK q \in Nat : q = n \div f
  BY <1>1
<1>3. f * q <= n /\ n < f * q + f
  BY <1>1, <1>2
<1>4. QuantizeAvailable(n) = q * f
  BY <1>1, <1>2 DEF QuantizeAvailable
<1>5. q * f = f * q /\ f * q \in Nat
  OBVIOUS
<1>. HIDE DEF QuantizeAvailable
<1>6. PICK p \in Nat : p = f * q
  BY <1>5
<1>7. n < 100 => p = n
  BY <1>1, <1>3, <1>6
<1>8. n >= 100 => 10 * (n - p) < n /\ p >= 1
  BY <1>1, <1>3, <1>6
<1>. QED
  BY <1>3, <1>4, <1>5, <1>6, <1>7, <1>8

GivenOK == given \in Inputs \cup {NoInput}

\* A given input is one of those that are asked about.
LEMMA GivenStays == WireSpec => []GivenOK
<1>1. WireInit => GivenOK
  BY DEF WireInit, GivenOK
<1>2. GivenOK /\ [WireNext]_given => GivenOK'
  BY DEF WireNext, Ask, Done, GivenOK
<1>. QED
  BY <1>1, <1>2, PTL DEF WireSpec

\* An amount that is named in range is asked for.
LEMMA NamedAmount ==
  ASSUME NEW req \in Requests, req.offer = "spontaneous", NEW n \in 1..req.available
  PROVE  Resolve([req EXCEPT !.sats = [shape |-> "int", value |-> n]], req.available).issues
<1>. DEFINE r == [req EXCEPT !.sats = [shape |-> "int", value |-> n]]
<1>1. r.sats = [shape |-> "int", value |-> n] /\ r.offer = "spontaneous"
  BY WireAssumption
<1>2. n \in 1..MaxAmount /\ req.available \in Int
  BY WireAssumption
<1>. HIDE DEF r
<1>3. RequestAmount(r) = n
  BY <1>1, <1>2 DEF RequestAmount
<1>4. Resolve(r, req.available) = [issues |-> TRUE, amount |-> n]
  BY <1>1, <1>2, <1>3 DEF Resolve
<1>. QED
  BY <1>4 DEF r

\* Whoever is told a range can pay its ends, it is within a tenth of what can be
\* received, and it is empty only if nothing can: the promise of the comment on
\* quantize_available_sat, for every request and every capacity.
THEOREM RangeIsAlwaysPayable == WireSpec => []RangeIsPayable
<1>1. ASSUME GivenOK, given.kind = "request" PROVE given.req \in Requests
  BY <1>1 DEF GivenOK, Inputs, NoInput
<1>2. GivenOK => RangeIsPayable
  <2>. SUFFICES ASSUME GivenOK, given.kind = "request" PROVE RangeIsPayable
    BY DEF RangeIsPayable
  <2>. PICK req \in Requests : req = given.req
    BY <1>1
  <2>. DEFINE answer == Resolve(req, req.available)
              named(n) == Resolve([req EXCEPT !.sats = [shape |-> "int", value |-> n]],
                                  req.available)
  <2>1. /\ req.available \in Int /\ req.available <= MaxAmount /\ MaxAmount \in Nat
        /\ RequestAmount(req) \in Nat
    BY WireAssumption DEF RequestAmount, Fields
  <2>2. ASSUME answer.issues PROVE answer.amount \in 1..req.available
    BY <2>1, <2>2 DEF Resolve, Refusal, InvalidAmount
  <2>3. ASSUME ~answer.issues, answer.code = "amount"
        PROVE  /\ req.available > 0 =>
                    /\ answer.min <= answer.max
                    /\ 10 * (req.available - answer.max) < req.available
                    /\ named(answer.min).issues /\ named(answer.max).issues
               /\ req.available <= 0 => answer.max = 0
    <3>1. req.offer = "spontaneous" /\ answer = InvalidAmount(req.available)
      BY <2>3 DEF Resolve, Refusal
    <3>2. answer.min = 1 /\ answer.max = QuantizeAvailable(req.available)
      BY <3>1 DEF InvalidAmount, Refusal
    <3>3. CASE req.available > 0
      <4>1. /\ answer.max \in 1..req.available
            /\ 10 * (req.available - answer.max) < req.available
        BY <2>1, <3>2, <3>3, QuantizeFits
      <4>2. answer.min \in 1..req.available
        BY <2>1, <3>2, <3>3
      <4>3. named(answer.min).issues /\ named(answer.max).issues
        BY <3>1, <4>1, <4>2, NamedAmount
      <4>4. answer.min <= answer.max /\ ~(req.available <= 0)
        BY <2>1, <3>2, <3>3, <4>1
      <4>. HIDE DEF answer, named
      <4>. QED
        BY <4>1, <4>3, <4>4
    <3>4. CASE req.available <= 0
      BY <2>1, <3>2, <3>4 DEF QuantizeAvailable
    <3>. QED
      BY <2>1, <3>3, <3>4
  <2>. QED
    BY <2>2, <2>3 DEF RangeIsPayable
<1>. QED
  BY <1>2, GivenStays, PTL

-----------------------------------------------------------------------------
(* Wire: the padding of a text.                                            *)

Powers == {1, 2, 4, 8, 16, 32, 64, 128, 256, 512, 1024, 2048, 4096, 8192, 16384, 32768, 65536}

\* What the provers need of the largest plaintext: a range up to it is too much for
\* them.
LEMMA MaxIs == MaxPlaintext \in Nat /\ 32 < MaxPlaintext /\ MaxPlaintext < 65536
BY DEF MaxPlaintext

\* There is a power of two from a length to its double.
LEMMA NextPowerFits ==
  ASSUME NEW n \in Nat, 1 <= n, n <= 65536
  PROVE  NextPower(n) \in Powers /\ n <= NextPower(n) /\ NextPower(n) < 2 * n
<1>1. {2^k : k \in 0..16} = Powers
  BY DEF Powers
<1>2. \E p \in Powers : n <= p /\ p < 2 * n
  BY DEF Powers
<1>. DEFINE S == {2^k : k \in 0..16}
<1>3. NextPower(n) = CHOOSE p \in S : n <= p /\ p < 2 * n
  BY DEF NextPower
<1>4. \E p \in S : n <= p /\ p < 2 * n
  BY <1>1, <1>2
<1>. HIDE DEF S
<1>5. NextPower(n) \in S /\ n <= NextPower(n) /\ NextPower(n) < 2 * n
  BY <1>3, <1>4
<1>. QED
  BY <1>1, <1>5 DEF S

\* A padded length is a text's length and at most 31 bytes or a quarter more.
LEMMA PaddedFits ==
  ASSUME NEW n \in 1..MaxPlaintext
  PROVE  /\ CalcPaddedLen(n) \in Nat /\ CalcPaddedLen(n) >= 32 /\ CalcPaddedLen(n) >= n
         /\ CalcPaddedLen(n) - n \in 0..31 \/ 4 * (CalcPaddedLen(n) - n) < n
<1>1. CASE n <= 32
  BY <1>1 DEF CalcPaddedLen
<1>2. CASE n > 32
  <2>1. PICK p \in Powers : p = NextPower(n) /\ n <= p /\ p < 2 * n
    BY NextPowerFits, MaxIs
  <2>2. PICK chunk \in Nat \ {0} : /\ chunk = IF p <= 256 THEN 32 ELSE p \div 8
                                   /\ chunk = 32 \/ 4 * chunk < n
    BY <1>2, <2>1 DEF Powers
  <2>3. PICK q \in Nat : q = (n - 1) \div chunk
    OBVIOUS
  <2>4. chunk * q <= n - 1 /\ n - 1 < chunk * q + chunk
    BY <2>3
  <2>5. CalcPaddedLen(n) = chunk * (q + 1)
    BY <1>2, <2>1, <2>2, <2>3 DEF CalcPaddedLen
  <2>6. PICK m \in Nat : m = chunk * q /\ chunk * (q + 1) = m + chunk
    OBVIOUS
  <2>. QED
    BY <1>2, <2>2, <2>4, <2>5, <2>6
<1>. QED
  BY <1>1, <1>2

\* A longer text is never padded to less.
LEMMA PaddedGrows ==
  ASSUME NEW n \in 1..MaxPlaintext - 1
  PROVE  CalcPaddedLen(n) <= CalcPaddedLen(n + 1)
<1>0. n \in 1..MaxPlaintext /\ n + 1 \in 1..MaxPlaintext /\ n \in Nat
  BY MaxIs
<1>1. CASE n <= 32
  BY <1>0, <1>1, PaddedFits DEF CalcPaddedLen
<1>2. CASE n > 32
  <2>1. PICK p \in Powers : p = NextPower(n) /\ n <= p /\ p < 2 * n
    BY <1>0, NextPowerFits, MaxIs
  <2>2. PICK r \in Powers : r = NextPower(n + 1) /\ n + 1 <= r /\ r < 2 * (n + 1)
    BY <1>0, NextPowerFits, MaxIs
  <2>3. p = r \/ p = n
    BY <2>1, <2>2 DEF Powers
  <2>4. PICK chunk \in Nat \ {0} : chunk = IF p <= 256 THEN 32 ELSE p \div 8
    BY <2>1 DEF Powers
  <2>5. CalcPaddedLen(n) = chunk * ((n - 1) \div chunk + 1)
    BY <1>2, <2>1, <2>4 DEF CalcPaddedLen
  <2>6. CASE p = r
    <3>1. CalcPaddedLen(n + 1) = chunk * (n \div chunk + 1)
      BY <1>2, <2>2, <2>4, <2>6 DEF CalcPaddedLen
    <3>2. PICK a \in Nat, b \in Nat : a = (n - 1) \div chunk /\ b = n \div chunk
      BY <1>2
    <3>3. chunk * a <= n - 1 /\ n < chunk * b + chunk
      BY <3>2
    <3>4. a <= b
      <4>1. ASSUME a >= b + 1 PROVE FALSE
        <5>1. chunk * a >= chunk * (b + 1)
          BY <4>1
        <5>. QED
          BY <3>3, <5>1
      <4>. QED
        BY <4>1
    <3>5. chunk * (a + 1) <= chunk * (b + 1)
      BY <3>4
    <3>. QED
      BY <2>5, <3>1, <3>2, <3>5
  <2>7. CASE p = n
    <3>1. CalcPaddedLen(n) = n
      BY <1>2, <2>4, <2>5, <2>7 DEF Powers
    <3>. QED
      BY <1>0, <3>1, PaddedFits
  <2>. QED
    BY <2>3, <2>6, <2>7
<1>. QED
  BY <1>1, <1>2

\* The part of ReadBack about texts.
LEMMA TextsReadBack ==
  ASSUME given.length \in Nat PROVE PaddingReadBack
<1>. PICK n \in Nat : n = given.length
  OBVIOUS
<1>1. n \notin 1..MaxPlaintext => Pad(n) = Raises
  BY DEF Pad
<1>2. ASSUME n \in 1..MaxPlaintext PROVE Unpad(Pad(n)[1]) = Returns(n)
  <2>1. PICK c \in Nat : c = CalcPaddedLen(n) /\ c >= 32 /\ c >= n
    BY <1>2, PaddedFits
  <2>2. Pad(n)[1] = [prefix |-> n, length |-> 2 + c]
    BY <1>2, <2>1 DEF Pad, Returns
  <2>. QED
    BY <1>2, <2>1, <2>2 DEF Unpad
<1>3. n \in 1..MaxPlaintext /\ n < MaxPlaintext => CalcPaddedLen(n) <= CalcPaddedLen(n + 1)
  BY PaddedGrows, MaxIs
<1>. QED
  BY <1>1, <1>2, <1>3, PaddedFits DEF PaddingReadBack

-----------------------------------------------------------------------------
(* Wire: the bytes of a price.                                             *)

\* Horner's rule, with the bytes b: the numbers that the first i bytes spell.
Spelled(v, b) ==
  /\ v \in [0..Len(b) -> Nat]
  /\ v = [i \in 0..Len(b) |-> IF i = 0 THEN 0 ELSE Radix * v[i - 1] + b[i]]

\* The powers of the radix follow their recursion.
LEMMA PowerIs ==
  /\ Power \in [0..PriceBytes -> Nat \ {0}]
  /\ \A k \in 0..PriceBytes : Power[k] = IF k = 0 THEN 1 ELSE Radix * Power[k - 1]
<1>. DEFINE f == [p \in Nat \X [Nat -> Nat \ {0}] |->
                    IF p[1] = 0 THEN 1 ELSE Radix * p[2][p[1] - 1]]
<1>0. Radix \in Nat \ {0} /\ PriceBytes \in Nat
  BY WireAssumption
<1>1. /\ f \in [Nat \X [Nat -> Nat \ {0}] -> Nat \ {0}]
      /\ \A n \in Nat, g \in [Nat -> Nat \ {0}] :
           f[<<n, g>>] = IF n = 0 THEN 1 ELSE Radix * g[n - 1]
  <2>1. \A n \in Nat, g \in [Nat -> Nat \ {0}] : n # 0 => Radix * g[n - 1] \in Nat \ {0}
    BY <1>0
  <2>. QED
    BY <2>1
<1>. HIDE DEF f
<1>2. PICK g \in [Nat -> Nat \ {0}] : \A n \in Nat : g[n] = f[<<n, g>>]
  <2>1. ASSUME NEW n \in Nat, NEW g \in [Nat -> Nat \ {0}], NEW h \in [Nat -> Nat \ {0}],
               \A m \in Nat : m < n => g[m] = h[m]
        PROVE  f[<<n, g>>] = f[<<n, h>>]
    <3>1. n # 0 => g[n - 1] = h[n - 1]
      BY <2>1
    <3>2. /\ f[<<n, g>>] = IF n = 0 THEN 1 ELSE Radix * g[n - 1]
          /\ f[<<n, h>>] = IF n = 0 THEN 1 ELSE Radix * h[n - 1]
      BY <1>1, Zenon
    <3>. QED
      BY <3>1, <3>2, Zenon
  <2>2. FromBelow(f, Nat \ {0})
    BY <1>1, <2>1 DEF FromBelow
  <2>3. Nat \ {0} # {}
    OBVIOUS
  <2>4. \E g \in [Nat -> Nat \ {0}] : Obeys(g, f)
    BY <2>2, <2>3, CourseOfValues, Zenon
  <2>. QED
    BY <2>4, Zenon DEF Obeys
<1>. DEFINE p == [k \in 0..PriceBytes |-> g[k]]
<1>3. p = [k \in 0..PriceBytes |-> IF k = 0 THEN 1 ELSE Radix * p[k - 1]]
  <2>1. \A k \in 0..PriceBytes : k \in Nat /\ (k # 0 => k - 1 \in 0..PriceBytes)
    BY <1>0
  <2>2. \A k \in 0..PriceBytes : g[k] = IF k = 0 THEN 1 ELSE Radix * g[k - 1]
    BY <1>1, <1>2, <2>1, Zenon
  <2>3. \A k \in 0..PriceBytes : p[k] = g[k]
    BY Zenon
  <2>4. \A k \in 0..PriceBytes : p[k] = IF k = 0 THEN 1 ELSE Radix * p[k - 1]
    BY <2>1, <2>2, <2>3, Zenon
  <2>. QED
    BY <2>4, Zenon
<1>4. Power = [k \in 0..PriceBytes |-> IF k = 0 THEN 1 ELSE Radix * Power[k - 1]]
  BY <1>3, Zenon DEF Power
<1>5. ASSUME NEW k \in 0..PriceBytes PROVE Power[k] = g[k]
  <2>. DEFINE T == {n \in Nat : n \in 0..PriceBytes => Power[n] = g[n]}
  <2>0. \A n \in 0..PriceBytes : Power[n] = IF n = 0 THEN 1 ELSE Radix * Power[n - 1]
    BY <1>4, Zenon
  <2>1. \A n \in 0..PriceBytes : /\ Power[n] = IF n = 0 THEN 1 ELSE Radix * Power[n - 1]
                                 /\ g[n] = IF n = 0 THEN 1 ELSE Radix * g[n - 1]
    <3>1. \A n \in 0..PriceBytes : n \in Nat
      BY <1>0
    <3>. QED
      BY <2>0, <3>1, <1>1, <1>2, Zenon
  <2>2. 0 \in T
    BY <1>0, <2>1
  <2>3. ASSUME NEW n \in Nat, n \in T PROVE n + 1 \in T
    BY <1>0, <2>1, <2>3
  <2>. HIDE DEF T
  <2>4. Nat \subseteq T
    BY <2>2, <2>3, NatSetInduction
  <2>. QED
    BY <1>0, <2>4 DEF T
<1>6. \A k \in 0..PriceBytes : g[k] \in Nat \ {0}
  BY <1>0
<1>7. \A k \in 0..PriceBytes : Power[k] \in Nat \ {0}
  BY <1>5, <1>6, Zenon
<1>. QED
  BY <1>4, <1>7, Zenon

\* Reading bytes off is Horner's rule.
LEMMA SpelledIs ==
  ASSUME NEW b \in Seq(Nat)
  PROVE  \E v : Spelled(v, b) /\ FromBytes(b) = v[Len(b)]
<1>11. \A x, y \in Nat : Radix * x + y \in Nat
  <2>1. Radix \in Nat
    BY WireAssumption
  <2>2. \A r, x, y \in Nat : r * x + y \in Nat
    OBVIOUS
  <2>. QED
    BY <2>1, <2>2, Zenon
<1>12. ASSUME NEW N \in Nat
      PROVE  /\ \A n \in Nat : n # 0 => n - 1 \in Nat
             /\ \A n \in Nat : ~(n = 0 \/ n > N) => n \in 1..N
             /\ \A i \in 0..N : i \in Nat /\ ~(i > N) /\ (i # 0 => i - 1 \in 0..N)
  OBVIOUS
<1>. DEFINE f == [p \in Nat \X [Nat -> Nat] |->
                    IF p[1] = 0 \/ p[1] > Len(b) THEN 0 ELSE Radix * p[2][p[1] - 1] + b[p[1]]]
<1>0. Radix \in Nat /\ Len(b) \in Nat /\ \A i \in 1..Len(b) : b[i] \in Nat
  BY WireAssumption
<1>1. /\ f \in [Nat \X [Nat -> Nat] -> Nat]
      /\ \A n \in Nat, g \in [Nat -> Nat] :
           f[<<n, g>>] = IF n = 0 \/ n > Len(b) THEN 0 ELSE Radix * g[n - 1] + b[n]
  <2>1. \A n \in Nat, g \in [Nat -> Nat] :
          ~(n = 0 \/ n > Len(b)) => Radix * g[n - 1] + b[n] \in Nat
    <3>. SUFFICES ASSUME NEW n \in Nat, NEW g \in [Nat -> Nat], ~(n = 0 \/ n > Len(b))
                  PROVE  Radix * g[n - 1] + b[n] \in Nat
      OBVIOUS
    <3>1. n - 1 \in Nat /\ n \in 1..Len(b)
      BY <1>12, <1>0, Zenon
    <3>2. g[n - 1] \in Nat /\ b[n] \in Nat
      BY <1>0, <3>1, Zenon
    <3>. QED
      BY <1>11, <3>2, Zenon
  <2>. QED
    BY <2>1
<1>. HIDE DEF f
<1>2. PICK g \in [Nat -> Nat] : \A n \in Nat : g[n] = f[<<n, g>>]
  <2>1. ASSUME NEW n \in Nat, NEW g \in [Nat -> Nat], NEW h \in [Nat -> Nat],
               \A m \in Nat : m < n => g[m] = h[m]
        PROVE  f[<<n, g>>] = f[<<n, h>>]
    <3>1. n # 0 => g[n - 1] = h[n - 1]
      BY <2>1
    <3>2. /\ f[<<n, g>>] = IF n = 0 \/ n > Len(b) THEN 0 ELSE Radix * g[n - 1] + b[n]
          /\ f[<<n, h>>] = IF n = 0 \/ n > Len(b) THEN 0 ELSE Radix * h[n - 1] + b[n]
      BY <1>1, Zenon
    <3>. QED
      BY <3>1, <3>2, Zenon
  <2>2. FromBelow(f, Nat)
    BY <1>1, <2>1 DEF FromBelow
  <2>3. Nat # {}
    OBVIOUS
  <2>4. \E g \in [Nat -> Nat] : Obeys(g, f)
    BY <2>2, <2>3, CourseOfValues, Zenon
  <2>. QED
    BY <2>4, Zenon DEF Obeys
<1>. DEFINE w == [i \in 0..Len(b) |-> g[i]]
            v == CHOOSE u : u = [i \in 0..Len(b) |-> IF i = 0 THEN 0 ELSE Radix * u[i - 1] + b[i]]
<1>3. w = [i \in 0..Len(b) |-> IF i = 0 THEN 0 ELSE Radix * w[i - 1] + b[i]]
  <2>1. \A i \in 0..Len(b) : i \in Nat /\ ~(i > Len(b)) /\ (i # 0 => i - 1 \in 0..Len(b))
    BY <1>12, <1>0, Zenon
  <2>2. \A i \in 0..Len(b) : g[i] = IF i = 0 THEN 0 ELSE Radix * g[i - 1] + b[i]
    BY <1>1, <1>2, <2>1, Zenon
  <2>3. \A i \in 0..Len(b) : w[i] = g[i]
    BY Zenon
  <2>4. \A i \in 0..Len(b) : w[i] = IF i = 0 THEN 0 ELSE Radix * w[i - 1] + b[i]
    BY <2>1, <2>2, <2>3, Zenon
  <2>. QED
    BY <2>4, Zenon
<1>4. v = [i \in 0..Len(b) |-> IF i = 0 THEN 0 ELSE Radix * v[i - 1] + b[i]]
  BY <1>3, Zenon
<1>5. FromBytes(b) = v[Len(b)]
  BY DEF FromBytes
<1>. HIDE DEF v
<1>6. v \in [0..Len(b) -> Nat]
  <2>. DEFINE T == {n \in Nat : n <= Len(b) => v[n] \in Nat}
  <2>1. \A i \in 0..Len(b) : v[i] = IF i = 0 THEN 0 ELSE Radix * v[i - 1] + b[i]
    BY <1>4, Zenon
  <2>2. 0 \in T
    BY <1>0, <2>1
  <2>3. ASSUME NEW n \in Nat, n \in T PROVE n + 1 \in T
    <3>1. CASE n + 1 <= Len(b)
      <4>0. n + 1 \in 1..Len(b) /\ n + 1 \in 0..Len(b) /\ n <= Len(b)
            /\ n + 1 # 0 /\ (n + 1) - 1 = n
        BY <1>0, <3>1
      <4>1. v[n] \in Nat
        BY <2>3, <4>0
      <4>2. b[n + 1] \in Nat
        BY <1>0, <4>0
      <4>3. v[n + 1] = Radix * v[n] + b[n + 1]
        BY <2>1, <4>0
      <4>4. v[n + 1] \in Nat
        BY <1>11, <4>1, <4>2, <4>3, Zenon
      <4>. QED
        BY <4>4
    <3>. QED
      BY <3>1, <1>0
  <2>. HIDE DEF T
  <2>4. Nat \subseteq T
    BY <2>2, <2>3, NatSetInduction
  <2>5. \A i \in 0..Len(b) : v[i] \in Nat
    BY <1>0, <2>4 DEF T
  <2>. QED
    BY <1>4, <2>5
<1>. QED
  BY <1>4, <1>5, <1>6 DEF Spelled

\* A quotient is known by its remainder.
LEMMA QuotientIs ==
  ASSUME NEW n \in Nat, NEW d \in Nat \ {0}, NEW q \in Nat, d * q <= n, n < d * q + d
  PROVE  n \div d = q
<1>1. PICK r \in 0..d - 1 : n = d * q + r
  <2>1. d * q \in Nat
    OBVIOUS
  <2>. QED
    BY <2>1
<1>. QED
  BY <1>1

\* Dividing by a product is dividing twice.
LEMMA DivideTwice ==
  ASSUME NEW n \in Nat, NEW d \in Nat \ {0}, NEW e \in Nat \ {0}
  PROVE  n \div (d * e) = (n \div e) \div d
<1>1. PICK a \in Nat : a = n \div e
  OBVIOUS
<1>2. PICK b \in Nat : b = a \div d
  BY <1>1
<1>3. e * a <= n /\ n < e * a + e /\ d * b <= a /\ a < d * b + d
  BY <1>1, <1>2
<1>4. e * (d * b) <= e * a
  BY <1>3
<1>5. a + 1 <= d * b + d
  BY <1>3
<1>6. e * (a + 1) <= e * (d * b + d)
  BY <1>5
<1>7. /\ e * (d * b) = (d * e) * b /\ e * (a + 1) = e * a + e
      /\ e * (d * b + d) = (d * e) * b + d * e
  OBVIOUS
<1>8. PICK m \in Nat \ {0} : m = d * e
  OBVIOUS
<1>9. m * b <= n /\ n < m * b + m
  BY <1>3, <1>4, <1>6, <1>7, <1>8
<1>10. n \div m = b
  BY <1>9, QuotientIs
<1>. QED
  BY <1>1, <1>2, <1>8, <1>10

\* A price that fits into its bytes is what they spell.
LEMMA PriceReadBack ==
  ASSUME NEW p \in Nat, p < Power[PriceBytes]
  PROVE  BigEndian(p) \in Seq(Nat) /\ FromBytes(BigEndian(p)) = p
<1>. DEFINE b == BigEndian(p)
<1>0. /\ Radix \in Nat \ {0} /\ PriceBytes \in Nat
      /\ \A k \in 0..PriceBytes : Power[k] \in Nat \ {0}
  BY WireAssumption, PowerIs
<1>1. /\ b \in Seq(Nat) /\ Len(b) = PriceBytes
      /\ \A i \in 1..PriceBytes : b[i] = (p \div Power[PriceBytes - i]) % Radix
  <2>1. \A i \in 1..PriceBytes : (p \div Power[PriceBytes - i]) % Radix \in Nat
    BY <1>0
  <2>. QED
    BY <1>0, <2>1 DEF BigEndian
<1>. HIDE DEF b
<1>2. PICK v : Spelled(v, b) /\ FromBytes(b) = v[PriceBytes]
  BY <1>1, SpelledIs
<1>3. \A i \in 0..PriceBytes : v[i] = IF i = 0 THEN 0 ELSE Radix * v[i - 1] + b[i]
  BY <1>1, <1>2 DEF Spelled
<1>. DEFINE T == {n \in Nat : n <= PriceBytes => v[n] = p \div Power[PriceBytes - n]}
<1>4. 0 \in T
  <2>1. p \div Power[PriceBytes] = 0
    BY <1>0, QuotientIs
  <2>. QED
    BY <1>0, <1>3, <2>1
<1>5. ASSUME NEW n \in Nat, n \in T, n + 1 <= PriceBytes
      PROVE  v[n + 1] = p \div Power[PriceBytes - (n + 1)]
  <2>1. PICK e \in Nat \ {0} : e = Power[PriceBytes - (n + 1)]
    BY <1>0, <1>5
  <2>2. Power[PriceBytes - n] = Radix * e
    <3>1. PriceBytes - n \in 0..PriceBytes /\ (PriceBytes - n) - 1 = PriceBytes - (n + 1)
          /\ PriceBytes - n # 0
      BY <1>0, <1>5
    <3>. QED
      BY <2>1, <3>1, PowerIs
  <2>3. PICK a \in Nat : a = p \div e
    BY <2>1
  <2>4. v[n] = a \div Radix
    BY <1>0, <1>5, <2>1, <2>2, <2>3, DivideTwice
  <2>5. v[n + 1] = Radix * v[n] + (a % Radix)
    BY <1>0, <1>1, <1>3, <1>5, <2>1, <2>3
  <2>6. a = Radix * (a \div Radix) + (a % Radix)
    BY <1>0
  <2>. QED
    BY <2>1, <2>3, <2>4, <2>5, <2>6
<1>6. \A n \in Nat : n \in T => n + 1 \in T
  BY <1>5
<1>. HIDE DEF T
<1>7. Nat \subseteq T
  BY <1>4, <1>6, NatSetInduction
<1>8. v[PriceBytes] = p \div Power[0]
  BY <1>0, <1>7 DEF T
<1>9. p \div 1 = p /\ Power[0] = 1
  BY <1>0, PowerIs
<1>. QED
  BY <1>1, <1>2, <1>8, <1>9 DEF b

-----------------------------------------------------------------------------
(* Wire: what parsing a sequence of records finds.                         *)

\* What parsing answers: a record of a type and a value, and a list of them or nothing.
Entry == [type : Nat, value : Seq(Nat)]
Answers == {Raises} \cup {Returns(s) : s \in Seq(Entry)}

\* The record at position i, and how it joins what follows it.
Ends(data, i) == i = Len(data) \/ i + 1 + data[i + 1] > Len(data)
EntryAt(data, i) ==
  [type |-> data[i], value |-> SubSeq(data, i + 2, i + 1 + data[i + 1])]
Put(entry, rest) == IF rest = Raises THEN Raises ELSE Returns(<<entry>> \o rest[1])

Parsed(parse, data) ==
  parse = [i \in 1..Len(data) + 1 |->
             IF i > Len(data) THEN Returns(<<>>)
             ELSE IF Ends(data, i) THEN Raises
             ELSE Put(EntryAt(data, i), parse[i + 2 + data[i + 1]])]

\* A record in front of an answer is an answer.
LEMMA PutAnswers ==
  ASSUME NEW e \in Entry, NEW a \in Answers
  PROVE  Put(e, a) \in Answers
<1>1. CASE a = Raises
  BY <1>1 DEF Put, Answers
<1>2. CASE a # Raises
  <2>1. PICK s \in Seq(Entry) : a = <<s>>
    BY <1>2 DEF Answers, Returns
  <2>2. <<e>> \o s \in Seq(Entry) /\ a[1] = s
    BY <2>1
  <2>. QED
    BY <1>2, <2>2 DEF Put, Answers
<1>. QED
  BY <1>1, <1>2

\* Within the data a record is one.
LEMMA EntryIs ==
  ASSUME NEW data \in Seq(Nat), NEW i \in 1..Len(data), ~Ends(data, i)
  PROVE  /\ EntryAt(data, i) \in Entry
         /\ i + 1 \in 1..Len(data) /\ data[i + 1] \in Nat
         /\ i + 2 + data[i + 1] \in i + 2..Len(data) + 1
<1>0. Len(data) \in Nat /\ i \in Nat /\ data[i] \in Nat
  OBVIOUS
<1>1. i # Len(data) /\ ~(i + 1 + data[i + 1] > Len(data))
  BY DEF Ends
<1>2. i + 1 \in 1..Len(data)
  BY <1>0, <1>1
<1>3. data[i + 1] \in Nat
  BY <1>2
<1>4. i + 2 + data[i + 1] \in i + 2..Len(data) + 1
  BY <1>0, <1>1, <1>3, SMTT(40)
<1>5. PICK a \in Nat, b \in Nat : a = i + 2 /\ b = i + 1 + data[i + 1] /\ a >= 1 /\ b <= Len(data)
  <2>1. i + 2 \in Nat /\ i + 1 + data[i + 1] \in Nat /\ i + 2 >= 1
        /\ i + 1 + data[i + 1] <= Len(data)
    BY <1>0, <1>1, <1>3
  <2>. QED
    BY <2>1, Zenon
<1>6. SubSeq(data, a, b) \in Seq(Nat)
  BY <1>5, <1>0
<1>. QED
  BY <1>0, <1>2, <1>3, <1>4, <1>5, <1>6 DEF EntryAt, Entry

\* Parsing follows its recursion, from each position to a later one.
LEMMA ParseIs ==
  ASSUME NEW data \in Seq(Nat)
  PROVE  \E parse : Parsed(parse, data) /\ ParseTLV(data) = parse[1]
<1>. DEFINE at(n) == Len(data) + 1 - n
            f == [p \in Nat \X [Nat -> Answers] |->
                    IF p[1] = 0 THEN Returns(<<>>)
                    ELSE IF p[1] > Len(data) \/ Ends(data, at(p[1])) THEN Raises
                    ELSE Put(EntryAt(data, at(p[1])),
                             p[2][p[1] - 2 - data[at(p[1]) + 1]])]
<1>0. Len(data) \in Nat
  OBVIOUS
<1>1. ASSUME NEW n \in Nat, ~(n = 0), ~(n > Len(data) \/ Ends(data, at(n)))
      PROVE  /\ EntryAt(data, at(n)) \in Entry
             /\ n - 2 - data[at(n) + 1] \in Nat /\ n - 2 - data[at(n) + 1] < n
  <2>1. at(n) \in 1..Len(data)
    BY <1>0, <1>1
  <2>. HIDE DEF at
  <2>2. /\ EntryAt(data, at(n)) \in Entry /\ data[at(n) + 1] \in Nat
        /\ at(n) + 2 + data[at(n) + 1] \in at(n) + 2..Len(data) + 1
    BY <1>1, <2>1, EntryIs, Zenon
  <2>. QED
    BY <1>0, <2>1, <2>2, SMTT(40) DEF at
<1>. HIDE DEF at
<1>2. /\ f \in [Nat \X [Nat -> Answers] -> Answers]
      /\ \A n \in Nat, g \in [Nat -> Answers] :
           f[<<n, g>>] = IF n = 0 THEN Returns(<<>>)
                         ELSE IF n > Len(data) \/ Ends(data, at(n)) THEN Raises
                         ELSE Put(EntryAt(data, at(n)), g[n - 2 - data[at(n) + 1]])
  <2>1. Raises \in Answers /\ Returns(<<>>) \in Answers
    <3>1. <<>> \in Seq(Entry)
      OBVIOUS
    <3>. QED
      BY <3>1, Zenon DEF Answers
  <2>2. \A n \in Nat, g \in [Nat -> Answers] :
          ~(n = 0) /\ ~(n > Len(data) \/ Ends(data, at(n)))
            => Put(EntryAt(data, at(n)), g[n - 2 - data[at(n) + 1]]) \in Answers
    BY <1>1, PutAnswers, Zenon
  <2>. QED
    BY <2>1, <2>2
<1>. HIDE DEF f
<1>3. PICK g \in [Nat -> Answers] : \A n \in Nat : g[n] = f[<<n, g>>]
  <2>1. ASSUME NEW n \in Nat, NEW g \in [Nat -> Answers], NEW h \in [Nat -> Answers],
               \A m \in Nat : m < n => g[m] = h[m]
        PROVE  f[<<n, g>>] = f[<<n, h>>]
    <3>1. ~(n = 0) /\ ~(n > Len(data) \/ Ends(data, at(n)))
            => g[n - 2 - data[at(n) + 1]] = h[n - 2 - data[at(n) + 1]]
      BY <1>1, <2>1, Zenon
    <3>. QED
      BY <1>2, <3>1, Zenon
  <2>2. FromBelow(f, Answers)
    BY <1>2, <2>1, Zenon DEF FromBelow
  <2>3. Answers # {}
    BY DEF Answers
  <2>4. \E g \in [Nat -> Answers] : Obeys(g, f)
    BY <2>2, <2>3, CourseOfValues, Zenon
  <2>. QED
    BY <2>4, Zenon DEF Obeys
<1>. DEFINE p == [i \in 1..Len(data) + 1 |-> g[at(i)]]
<1>4. Parsed(p, data)
  <2>1. ASSUME NEW i \in 1..Len(data) + 1
        PROVE  p[i] = IF i > Len(data) THEN Returns(<<>>)
                      ELSE IF Ends(data, i) THEN Raises
                      ELSE Put(EntryAt(data, i), p[i + 2 + data[i + 1]])
    <3>0. /\ p[i] = g[at(i)] /\ at(i) \in Nat /\ at(at(i)) = i
          /\ (i > Len(data) <=> at(i) = 0) /\ ~(at(i) > Len(data))
      BY <1>0 DEF at
    <3>1. CASE i > Len(data)
      BY <1>2, <1>3, <3>0, <3>1, Zenon
    <3>2. CASE ~(i > Len(data)) /\ Ends(data, i)
      BY <1>2, <1>3, <3>0, <3>2, Zenon
    <3>3. CASE ~(i > Len(data)) /\ ~Ends(data, i)
      <4>1. i \in 1..Len(data)
        BY <1>0, <3>3
      <4>2. data[i + 1] \in Nat /\ i + 2 + data[i + 1] \in i + 2..Len(data) + 1
        BY <3>3, <4>1, EntryIs, Zenon
      <4>3. /\ i + 2 + data[i + 1] \in 1..Len(data) + 1
            /\ at(i + 2 + data[i + 1]) = at(i) - 2 - data[i + 1]
        BY <1>0, <4>1, <4>2, SMTT(40) DEF at
      <4>4. p[i + 2 + data[i + 1]] = g[at(i) - 2 - data[i + 1]]
        BY <4>3, Zenon
      <4>5. g[at(i)] = Put(EntryAt(data, i), g[at(i) - 2 - data[i + 1]])
        BY <1>2, <1>3, <3>0, <3>3, Zenon
      <4>. QED
        BY <3>0, <3>3, <4>4, <4>5, Zenon
    <3>. QED
      BY <3>1, <3>2, <3>3, Zenon
  <2>. HIDE DEF p
  <2>2. p = [i \in 1..Len(data) + 1 |-> p[i]]
    BY DEF p
  <2>. QED
    BY <2>1, <2>2, Zenon DEF Parsed
<1>. HIDE DEF p
<1>. DEFINE q == CHOOSE u : Parsed(u, data)
<1>5. Parsed(q, data)
  BY <1>4, Zenon
<1>6. ParseTLV(data) = q[1]
  BY DEF ParseTLV, Parsed, Ends, EntryAt, Put
<1>. QED
  BY <1>5, <1>6

\* The sequence rest follows after h elements.
Follows(rest, h, data) ==
  /\ data \in Seq(Nat) /\ rest \in Seq(Nat) /\ h \in Nat
  /\ Len(data) = h + Len(rest)
  /\ \A j \in 1..Len(rest) : data[h + j] = rest[j]

\* What a part of a sequence is.
LEMMA PartIs ==
  ASSUME NEW data \in Seq(Nat), NEW a \in Nat, NEW n \in Nat, a + n <= Len(data)
  PROVE  /\ SubSeq(data, a + 1, a + n) \in Seq(Nat)
         /\ Len(SubSeq(data, a + 1, a + n)) = n
         /\ \A k \in 1..n : SubSeq(data, a + 1, a + n)[k] = data[a + k]
<1>1. SubSeq(data, a + 1, a + n) \in Seq(Nat)
  OBVIOUS
<1>2. Len(SubSeq(data, a + 1, a + n)) = n
  OBVIOUS
<1>3. ASSUME NEW k \in 1..n PROVE SubSeq(data, a + 1, a + n)[k] = data[a + k]
  OBVIOUS
<1>. QED
  BY <1>1, <1>2, <1>3, Zenon

\* What the start of a sequence is.
LEMMA StartIs ==
  ASSUME NEW data \in Seq(Nat), NEW n \in Nat, n <= Len(data)
  PROVE  /\ SubSeq(data, 1, n) \in Seq(Nat) /\ Len(SubSeq(data, 1, n)) = n
         /\ \A k \in 1..n : SubSeq(data, 1, n)[k] = data[k]
<1>1. 0 \in Nat /\ 0 + n <= Len(data) /\ 0 + 1 = 1 /\ 0 + n = n /\ \A k \in 1..n : 0 + k = k
  OBVIOUS
<1>2. /\ SubSeq(data, 0 + 1, 0 + n) \in Seq(Nat)
      /\ Len(SubSeq(data, 0 + 1, 0 + n)) = n
      /\ \A k \in 1..n : SubSeq(data, 0 + 1, 0 + n)[k] = data[0 + k]
  BY <1>1, PartIs, Zenon
<1>. QED
  BY <1>1, <1>2, Zenon

\* What two sequences are together.
LEMMA JoinIs ==
  ASSUME NEW S
  PROVE  \A s, u \in Seq(S) :
           /\ s \o u \in Seq(S) /\ Len(s \o u) = Len(s) + Len(u)
           /\ \A i \in 1..Len(s) : (s \o u)[i] = s[i]
           /\ \A j \in 1..Len(u) : (s \o u)[Len(s) + j] = u[j]
<1>. SUFFICES ASSUME NEW s \in Seq(S), NEW u \in Seq(S)
              PROVE  /\ s \o u \in Seq(S) /\ Len(s \o u) = Len(s) + Len(u)
                     /\ \A i \in 1..Len(s) : (s \o u)[i] = s[i]
                     /\ \A j \in 1..Len(u) : (s \o u)[Len(s) + j] = u[j]
  OBVIOUS
<1>1. /\ s \o u \in Seq(S) /\ Len(s \o u) = Len(s) + Len(u)
      /\ \A i \in 1..Len(s) + Len(u) :
           (s \o u)[i] = IF i <= Len(s) THEN s[i] ELSE u[i - Len(s)]
  BY ConcatProperties, Zenon
<1>2. ASSUME NEW m \in Nat, NEW n \in Nat
      PROVE  /\ \A i \in 1..m : i \in 1..m + n /\ i <= m
             /\ \A j \in 1..n : m + j \in 1..m + n /\ ~(m + j <= m) /\ (m + j) - m = j
  OBVIOUS
<1>3. Len(s) \in Nat /\ Len(u) \in Nat
  OBVIOUS
<1>. QED
  BY <1>1, <1>2, <1>3, Zenon

\* A record as it is written, and what stands where when more follows.
Frame(t, value, rest) == (<<t, Len(value)>> \o value) \o rest

Framed(t, value, rest, data) ==
  /\ Follows(rest, 2 + Len(value), data)
  /\ data[1] = t /\ data[2] = Len(value)
  /\ \A j \in 1..Len(value) : data[2 + j] = value[j]

\* Whatever follows it, a record stands in front as it was written.
LEMMA FrameIs ==
  ASSUME NEW t \in Nat, NEW value \in Seq(Nat), NEW rest \in Seq(Nat)
  PROVE  Framed(t, value, rest, Frame(t, value, rest))
<1>. DEFINE head == <<t, Len(value)>>
            block == head \o value
            data == block \o rest
<1>1. Len(value) \in Nat /\ Len(rest) \in Nat
  OBVIOUS
<1>2. /\ head \in Seq(Nat) /\ Len(head) = 2 /\ head[1] = t /\ head[2] = Len(value)
  BY <1>1
<1>. HIDE DEF head
<1>3. /\ block \in Seq(Nat) /\ Len(block) = 2 + Len(value)
      /\ \A i \in 1..2 : block[i] = head[i]
      /\ \A j \in 1..Len(value) : block[2 + j] = value[j]
  <2>1. /\ block \in Seq(Nat) /\ Len(block) = Len(head) + Len(value)
        /\ \A i \in 1..Len(head) : block[i] = head[i]
        /\ \A j \in 1..Len(value) : block[Len(head) + j] = value[j]
    <3>1. \A a, b \in Seq(Nat) :
                /\ a \o b \in Seq(Nat) /\ Len(a \o b) = Len(a) + Len(b)
                /\ \A i \in 1..Len(a) : (a \o b)[i] = a[i]
                /\ \A j \in 1..Len(b) : (a \o b)[Len(a) + j] = b[j]
      BY JoinIs
    <3>. QED
      BY <1>2, <3>1, Zenon
  <2>2. Len(head) = 2
    BY <1>2
  <2>. HIDE DEF block
  <2>. QED
    BY <2>1, <2>2
<1>. HIDE DEF block
<1>4. /\ data \in Seq(Nat) /\ Len(data) = (2 + Len(value)) + Len(rest)
      /\ \A i \in 1..2 + Len(value) : data[i] = block[i]
      /\ \A j \in 1..Len(rest) : data[(2 + Len(value)) + j] = rest[j]
  <2>1. /\ data \in Seq(Nat) /\ Len(data) = Len(block) + Len(rest)
        /\ \A i \in 1..Len(block) : data[i] = block[i]
        /\ \A j \in 1..Len(rest) : data[Len(block) + j] = rest[j]
    <3>1. \A a, b \in Seq(Nat) :
                /\ a \o b \in Seq(Nat) /\ Len(a \o b) = Len(a) + Len(b)
                /\ \A i \in 1..Len(a) : (a \o b)[i] = a[i]
                /\ \A j \in 1..Len(b) : (a \o b)[Len(a) + j] = b[j]
      BY JoinIs
    <3>. QED
      BY <1>3, <3>1, Zenon
  <2>2. Len(block) = 2 + Len(value)
    BY <1>3
  <2>. HIDE DEF data
  <2>. QED
    BY <2>1, <2>2
<1>. HIDE DEF data
<1>5. ASSUME NEW n \in Nat
      PROVE  /\ 2 + n \in Nat /\ 1 \in 1..2 + n /\ 2 \in 1..2 + n
             /\ \A j \in 1..n : 2 + j \in 1..2 + n
  OBVIOUS
<1>6. 1 \in 1..2 /\ 2 \in 1..2
  OBVIOUS
<1>7. data[1] = t /\ data[2] = Len(value)
  <2>1. data[1] = block[1] /\ data[2] = block[2]
    BY <1>1, <1>4, <1>5, Zenon
  <2>2. block[1] = head[1] /\ block[2] = head[2]
    BY <1>3, <1>6, Zenon
  <2>. QED
    BY <1>2, <2>1, <2>2
<1>8. \A j \in 1..Len(value) : data[2 + j] = value[j]
  BY <1>1, <1>3, <1>4, <1>5, Zenon
<1>9. Follows(rest, 2 + Len(value), data)
  BY <1>1, <1>4, <1>5, Zenon DEF Follows
<1>. QED
  BY <1>7, <1>8, <1>9, Zenon DEF Framed, Frame, block, data, head

\* Parsing sees no further back than where it stands.
LEMMA Shifted ==
  ASSUME NEW data, NEW rest, NEW h, Follows(rest, h, data), NEW i \in 1..Len(rest)
  PROVE  /\ Ends(data, h + i) <=> Ends(rest, i)
         /\ ~Ends(rest, i) =>
              /\ EntryAt(data, h + i) = EntryAt(rest, i)
              /\ (h + i) + 2 + data[(h + i) + 1] = h + (i + 2 + rest[i + 1])
<1>1. PICK r \in Nat : r = Len(rest)
  BY DEF Follows
<1>2. /\ data \in Seq(Nat) /\ rest \in Seq(Nat) /\ h \in Nat /\ Len(data) = h + r
      /\ \A j \in 1..r : data[h + j] = rest[j]
  BY <1>1 DEF Follows
<1>3. \A j \in 1..r : rest[j] \in Nat
  BY <1>1, <1>2
<1>4. i \in 1..r /\ i \in Nat
  BY <1>1
<1>5. ASSUME i # r
      PROVE  data[(h + i) + 1] = rest[i + 1] /\ rest[i + 1] \in Nat
  <2>1. i + 1 \in 1..r /\ h + (i + 1) = (h + i) + 1
    BY <1>2, <1>4, <1>5
  <2>2. data[h + (i + 1)] = rest[i + 1]
    BY <1>2, <2>1, Zenon
  <2>. QED
    BY <1>3, <2>1, <2>2, Zenon
<1>6. (h + i = Len(data) <=> i = Len(rest))
  BY <1>1, <1>2, <1>4
<1>7. ASSUME NEW d \in Nat
      PROVE  (h + i) + 1 + d > Len(data) <=> i + 1 + d > Len(rest)
  BY <1>1, <1>2, <1>4, SMTT(40)
<1>8. Ends(data, h + i) <=> Ends(rest, i)
  BY <1>1, <1>5, <1>6, <1>7, Zenon DEF Ends
<1>9. ASSUME ~Ends(rest, i)
      PROVE  /\ EntryAt(data, h + i) = EntryAt(rest, i)
             /\ (h + i) + 2 + data[(h + i) + 1] = h + (i + 2 + rest[i + 1])
  <2>1. i # r /\ ~(i + 1 + rest[i + 1] > r)
    BY <1>1, <1>9, Zenon DEF Ends
  <2>2. PICK d \in Nat : d = rest[i + 1] /\ data[(h + i) + 1] = d
    BY <1>5, <2>1
  <2>3. i + 1 + d <= r
    BY <1>1, <1>4, <2>1, <2>2
  <2>. DEFINE s == SubSeq(data, (h + i + 1) + 1, (h + i + 1) + d)
              u == SubSeq(rest, (i + 1) + 1, (i + 1) + d)
  <2>4. h + i + 1 \in Nat /\ (h + i + 1) + d <= Len(data) /\ i + 1 \in Nat /\ (i + 1) + d <= Len(rest)
    BY <1>1, <1>2, <1>4, <2>3
  <2>5. /\ s \in Seq(Nat) /\ Len(s) = d
        /\ \A k \in 1..d : s[k] = data[(h + i + 1) + k]
    BY <1>2, <2>4, PartIs, ZenonT(60)
  <2>6. /\ u \in Seq(Nat) /\ Len(u) = d
        /\ \A k \in 1..d : u[k] = rest[(i + 1) + k]
    BY <1>2, <2>4, PartIs, ZenonT(60)
  <2>. HIDE DEF s, u
  <2>7. ASSUME NEW k \in 1..d PROVE s[k] = u[k]
    <3>1. (i + 1) + k \in 1..r /\ h + ((i + 1) + k) = (h + i + 1) + k
      BY <1>2, <1>4, <2>3
    <3>. QED
      BY <1>2, <2>5, <2>6, <3>1, Zenon
  <2>8. s = u
    BY <2>5, <2>6, <2>7, SeqEqual
  <2>9. /\ (h + i + 1) + 1 = (h + i) + 2 /\ (h + i + 1) + d = (h + i) + 1 + d
        /\ (i + 1) + 1 = i + 2 /\ (i + 1) + d = i + 1 + d
        /\ (h + i) + 2 + d = h + (i + 2 + d)
    BY <1>2, <1>4
  <2>10. i \in 1..r
    BY <1>4
  <2>. QED
    BY <1>2, <2>2, <2>8, <2>9, <2>10, Zenon DEF EntryAt, s, u
<1>. QED
  BY <1>8, <1>9

\* Nothing parses to no records, and a record that does not end is refused.
LEMMA ParseEnds ==
  ASSUME NEW data \in Seq(Nat)
  PROVE  /\ data = <<>> => ParseTLV(data) = Returns(<<>>)
         /\ data # <<>> /\ Ends(data, 1) => ParseTLV(data) = Raises
<1>1. PICK parse : Parsed(parse, data) /\ ParseTLV(data) = parse[1]
  BY ParseIs
<1>2. 1 \in 1..Len(data) + 1 /\ (data = <<>> <=> 1 > Len(data))
  OBVIOUS
<1>3. parse[1] = IF 1 > Len(data) THEN Returns(<<>>)
                 ELSE IF Ends(data, 1) THEN Raises
                 ELSE Put(EntryAt(data, 1), parse[1 + 2 + data[1 + 1]])
  BY <1>1, <1>2, Zenon DEF Parsed
<1>. QED
  BY <1>1, <1>2, <1>3, Zenon

\* What follows parses to the same wherever it stands.
LEMMA ParseFollows ==
  ASSUME NEW data, NEW rest, NEW h, Follows(rest, h, data),
         NEW p, Parsed(p, data), NEW q, Parsed(q, rest)
  PROVE  p[h + 1] = q[1]
<1>1. /\ data \in Seq(Nat) /\ rest \in Seq(Nat) /\ h \in Nat
      /\ Len(rest) \in Nat /\ Len(data) = h + Len(rest)
  BY DEF Follows
<1>. DEFINE T == {k \in Nat : \A i \in 1..Len(rest) + 1 :
                    Len(rest) + 1 - i <= k => p[h + i] = q[i]}
<1>2. \A i \in 1..Len(data) + 1 :
        p[i] = IF i > Len(data) THEN Returns(<<>>)
               ELSE IF Ends(data, i) THEN Raises
               ELSE Put(EntryAt(data, i), p[i + 2 + data[i + 1]])
  BY Zenon DEF Parsed
<1>3. \A i \in 1..Len(rest) + 1 :
        q[i] = IF i > Len(rest) THEN Returns(<<>>)
               ELSE IF Ends(rest, i) THEN Raises
               ELSE Put(EntryAt(rest, i), q[i + 2 + rest[i + 1]])
  BY Zenon DEF Parsed
<1>4. ASSUME NEW r \in Nat, NEW i \in 1..r + 1
      PROVE  /\ h + i \in 1..(h + r) + 1 /\ (h + i > h + r <=> i > r)
             /\ ~(i > r) => i \in 1..r
  BY <1>1
<1>5. ASSUME NEW i \in 1..Len(rest) + 1,
             ~(i > Len(rest)) /\ ~Ends(rest, i)
                => p[h + (i + 2 + rest[i + 1])] = q[i + 2 + rest[i + 1]]
      PROVE  p[h + i] = q[i]
  <2>1. /\ h + i \in 1..Len(data) + 1 /\ (h + i > Len(data) <=> i > Len(rest))
        /\ ~(i > Len(rest)) => i \in 1..Len(rest)
    BY <1>1
  <2>2. CASE i > Len(rest)
    BY <1>2, <1>3, <2>1, <2>2, Zenon
  <2>3. CASE ~(i > Len(rest))
    <3>1. /\ Ends(data, h + i) <=> Ends(rest, i)
          /\ ~Ends(rest, i) =>
               /\ EntryAt(data, h + i) = EntryAt(rest, i)
               /\ (h + i) + 2 + data[(h + i) + 1] = h + (i + 2 + rest[i + 1])
      BY <2>1, <2>3, Shifted, Zenon
    <3>2. CASE Ends(rest, i)
      BY <1>2, <1>3, <2>1, <2>3, <3>1, <3>2, Zenon
    <3>3. CASE ~Ends(rest, i)
      <4>1. p[h + i] = Put(EntryAt(data, h + i), p[(h + i) + 2 + data[(h + i) + 1]])
        BY <1>2, <2>1, <2>3, <3>1, <3>3, Zenon
      <4>2. q[i] = Put(EntryAt(rest, i), q[i + 2 + rest[i + 1]])
        BY <1>3, <2>3, <3>3, Zenon
      <4>3. p[(h + i) + 2 + data[(h + i) + 1]] = q[i + 2 + rest[i + 1]]
        BY <1>5, <2>3, <3>1, <3>3, Zenon
      <4>. QED
        BY <3>1, <3>3, <4>1, <4>2, <4>3, Zenon
    <3>. QED
      BY <3>2, <3>3, Zenon
  <2>. QED
    BY <2>2, <2>3, Zenon
<1>6. ASSUME NEW r \in Nat, NEW i \in 1..r, NEW d \in Nat, i + 2 + d \in i + 2..r + 1,
             NEW k \in Nat, r + 1 - i <= k + 1
      PROVE  i + 2 + d \in 1..r + 1 /\ r + 1 - (i + 2 + d) <= k
  BY <1>6
<1>7. 0 \in T
  <2>1. ASSUME NEW i \in 1..Len(rest) + 1, Len(rest) + 1 - i <= 0 PROVE p[h + i] = q[i]
    <3>1. i > Len(rest)
      BY <1>1, <2>1
    <3>. QED
      BY <1>5, <3>1, Zenon
  <2>. QED
    BY <2>1
<1>8. ASSUME NEW k \in Nat, k \in T PROVE k + 1 \in T
  <2>1. ASSUME NEW i \in 1..Len(rest) + 1, Len(rest) + 1 - i <= k + 1 PROVE p[h + i] = q[i]
    <3>1. ASSUME ~(i > Len(rest)), ~Ends(rest, i)
          PROVE  p[h + (i + 2 + rest[i + 1])] = q[i + 2 + rest[i + 1]]
      <4>1. i \in 1..Len(rest)
        BY <1>1, <1>4, <3>1, Zenon
      <4>2. rest[i + 1] \in Nat /\ i + 2 + rest[i + 1] \in i + 2..Len(rest) + 1
        BY <1>1, <3>1, <4>1, EntryIs, Zenon
      <4>3. /\ i + 2 + rest[i + 1] \in 1..Len(rest) + 1
            /\ Len(rest) + 1 - (i + 2 + rest[i + 1]) <= k
        BY <1>1, <1>6, <2>1, <4>1, <4>2, Zenon
      <4>. QED
        BY <1>8, <4>3, Zenon
    <3>. QED
      BY <1>5, <3>1, Zenon
  <2>2. k + 1 \in Nat
    OBVIOUS
  <2>. QED
    BY <2>1, <2>2, Zenon
<1>. HIDE DEF T
<1>9. Nat \subseteq T
  BY <1>7, <1>8, NatSetInduction
<1>10. ASSUME NEW r \in Nat PROVE 1 \in 1..r + 1 /\ r + 1 - 1 \in Nat /\ r + 1 - 1 <= r + 1 - 1
  OBVIOUS
<1>. QED
  BY <1>1, <1>9, <1>10, Zenon DEF T

\* A record in front of what parses is one more.
LEMMA ParseStep ==
  ASSUME NEW t \in Nat, NEW value \in Seq(Nat), NEW rest \in Seq(Nat)
  PROVE  ParseTLV(Frame(t, value, rest)) =
           Put([type |-> t, value |-> value], ParseTLV(rest))
<1>. DEFINE data == Frame(t, value, rest)
<1>1. PICK n \in Nat, r \in Nat : n = Len(value) /\ r = Len(rest)
  OBVIOUS
<1>2. /\ Follows(rest, 2 + n, data)
      /\ data[1] = t /\ data[2] = n
      /\ \A j \in 1..n : data[2 + j] = value[j]
  <2>1. Framed(t, value, rest, data)
    BY FrameIs, Zenon
  <2>. HIDE DEF data
  <2>. QED
    BY <1>1, <2>1, Zenon DEF Framed
<1>. HIDE DEF data
<1>3. data \in Seq(Nat) /\ Len(data) = (2 + n) + r
  BY <1>1, <1>2, Zenon DEF Follows
<1>4. PICK p : Parsed(p, data) /\ ParseTLV(data) = p[1]
  BY <1>3, ParseIs
<1>5. PICK q : Parsed(q, rest) /\ ParseTLV(rest) = q[1]
  BY ParseIs
<1>6. p[(2 + n) + 1] = q[1]
  <2>1. Follows(rest, 2 + n, data) /\ Parsed(p, data) /\ Parsed(q, rest)
    BY <1>2, <1>4, <1>5
  <2>2. \A h, u, w : Follows(rest, h, data) /\ Parsed(u, data) /\ Parsed(w, rest) => u[h + 1] = w[1]
    BY ParseFollows
  <2>. QED
    BY <2>1, <2>2, Zenon
<1>7. /\ 1 \in 1..Len(data) + 1 /\ ~(1 > Len(data)) /\ 1 # Len(data)
      /\ 1 + 1 = 2 /\ 1 + 2 + n = (2 + n) + 1 /\ 1 + 1 + n = 2 + n /\ ~(2 + n > Len(data))
      /\ 1 + 2 = 2 + 1
  BY <1>3
<1>8. ~Ends(data, 1)
  BY <1>2, <1>7, Zenon DEF Ends
<1>9. SubSeq(data, 2 + 1, 2 + n) = value
  <2>. DEFINE s == SubSeq(data, 2 + 1, 2 + n)
  <2>1. 2 \in Nat /\ 2 + n <= Len(data)
    BY <1>3
  <2>2. s \in Seq(Nat) /\ Len(s) = n /\ \A k \in 1..n : s[k] = data[2 + k]
    BY <1>3, <2>1, PartIs, ZenonT(60)
  <2>. HIDE DEF s
  <2>3. s = value
    BY <1>1, <1>2, <2>2, SeqEqual
  <2>. QED
    BY <2>3 DEF s
<1>10. EntryAt(data, 1) = [type |-> t, value |-> value]
  BY <1>2, <1>7, <1>9, Zenon DEF EntryAt
<1>11. p[1] = Put(EntryAt(data, 1), p[1 + 2 + data[1 + 1]])
  BY <1>4, <1>7, <1>8, Zenon DEF Parsed
<1>. QED
  BY <1>2, <1>4, <1>5, <1>6, <1>7, <1>10, <1>11, Zenon DEF data

-----------------------------------------------------------------------------
(* Wire: the records of a noffer, whole and cut.                           *)

\* The records r[0] .. r[m] as they are written, from the highest type down.
Tails(tail, r, m) ==
  /\ tail \in [0..m + 1 -> Seq(Nat)]
  /\ tail[0] = <<>>
  /\ \A k \in 0..m : tail[k + 1] = Frame(k, r[k], tail[k])

Listed(r, n) == [i \in 1..n |-> [type |-> n - i, value |-> r[n - i]]]

\* The list of the first n records from the highest type down.
LEMMA ListedIs ==
  ASSUME NEW m \in Nat, NEW r \in [0..m -> Seq(Nat)], NEW n \in 0..m + 1
  PROVE  /\ Listed(r, n) \in Seq(Entry) /\ Len(Listed(r, n)) = n
         /\ \A i \in 1..n : /\ Listed(r, n)[i] = [type |-> n - i, value |-> r[n - i]]
                            /\ n - i \in 0..m
<1>1. ASSUME NEW i \in 1..n PROVE n - i \in 0..m /\ n - i \in Nat
  OBVIOUS
<1>2. \A i \in 1..n : [type |-> n - i, value |-> r[n - i]] \in Entry
  BY <1>1 DEF Entry
<1>3. \A i \in 1..n : Listed(r, n)[i] = [type |-> n - i, value |-> r[n - i]]
  BY Zenon DEF Listed
<1>4. Listed(r, n) \in [1..n -> Entry]
  BY <1>2, Zenon DEF Listed
<1>5. Listed(r, n) \in Seq(Entry) /\ Len(Listed(r, n)) = n
  BY <1>4
<1>. QED
  BY <1>1, <1>3, <1>5

\* One more record stands in front.
LEMMA ListedNext ==
  ASSUME NEW m \in Nat, NEW r \in [0..m -> Seq(Nat)], NEW n \in 0..m
  PROVE  <<[type |-> n, value |-> r[n]]>> \o Listed(r, n) = Listed(r, n + 1)
<1>. DEFINE e == [type |-> n, value |-> r[n]]
            s == Listed(r, n)
            u == Listed(r, n + 1)
<1>1. n \in 0..m + 1 /\ n + 1 \in 0..m + 1 /\ n \in Nat
  OBVIOUS
<1>2. e \in Entry
  BY <1>1 DEF Entry
<1>3. /\ s \in Seq(Entry) /\ Len(s) = n
      /\ \A i \in 1..n : s[i] = [type |-> n - i, value |-> r[n - i]]
  BY <1>1, ListedIs, Zenon
<1>4. /\ u \in Seq(Entry) /\ Len(u) = n + 1
      /\ \A i \in 1..n + 1 : u[i] = [type |-> (n + 1) - i, value |-> r[(n + 1) - i]]
  BY <1>1, ListedIs, Zenon
<1>5. e = u[1]
  <2>1. 1 \in 1..n + 1 /\ (n + 1) - 1 = n
    BY <1>1
  <2>. QED
    BY <1>4, <2>1, Zenon
<1>6. ASSUME NEW i \in 1..n PROVE s[i] = u[1 + i]
  <2>1. 1 + i \in 1..n + 1 /\ (n + 1) - (1 + i) = n - i
    BY <1>1
  <2>. QED
    BY <1>3, <1>4, <2>1, Zenon
<1>. HIDE DEF e, s, u
<1>7. <<e>> \in Seq(Entry) /\ Len(<<e>>) = 1 /\ <<e>>[1] = e
  BY <1>2
<1>8. /\ <<e>> \o s \in Seq(Entry) /\ Len(<<e>> \o s) = n + 1
      /\ (<<e>> \o s)[1] = e
      /\ \A i \in 1..n : (<<e>> \o s)[1 + i] = s[i]
  <2>. DEFINE g == <<e>>
  <2>. HIDE DEF g
  <2>1. g \in Seq(Entry) /\ Len(g) = 1 /\ g[1] = e
    BY <1>7 DEF g
  <2>2. /\ g \o s \in Seq(Entry) /\ Len(g \o s) = Len(g) + Len(s)
        /\ \A i \in 1..Len(g) : (g \o s)[i] = g[i]
        /\ \A j \in 1..Len(s) : (g \o s)[Len(g) + j] = s[j]
    <3>1. \A a, b \in Seq(Entry) :
                /\ a \o b \in Seq(Entry) /\ Len(a \o b) = Len(a) + Len(b)
                /\ \A i \in 1..Len(a) : (a \o b)[i] = a[i]
                /\ \A j \in 1..Len(b) : (a \o b)[Len(a) + j] = b[j]
      BY JoinIs
    <3>. QED
      BY <1>3, <2>1, <3>1, Zenon
  <2>. DEFINE c == g \o s
  <2>. HIDE DEF c
  <2>3. /\ c \in Seq(Entry) /\ Len(c) = Len(g) + Len(s)
        /\ \A i \in 1..Len(g) : c[i] = g[i]
        /\ \A j \in 1..Len(s) : c[Len(g) + j] = s[j]
    BY <2>2 DEF c
  <2>4. c \in Seq(Entry) /\ Len(c) = n + 1 /\ c[1] = e /\ \A i \in 1..n : c[1 + i] = s[i]
    BY <1>1, <1>3, <2>1, <2>3
  <2>. QED
    BY <2>4 DEF c, g
<1>9. ASSUME NEW k \in 1..n + 1 PROVE (<<e>> \o s)[k] = u[k]
  <2>1. CASE k = 1
    BY <1>5, <1>8, <2>1
  <2>2. CASE k # 1
    <3>1. k - 1 \in 1..n /\ 1 + (k - 1) = k
      BY <1>1, <2>2
    <3>. QED
      BY <1>6, <1>8, <3>1, Zenon
  <2>. QED
    BY <2>1, <2>2
<1>10. <<e>> \o s = u
  BY <1>4, <1>8, <1>9, SeqEqual, Zenon
<1>. QED
  BY <1>10 DEF e, s, u

\* All of it parses to all the records.
LEMMA TailParses ==
  ASSUME NEW m \in Nat, NEW r \in [0..m -> Seq(Nat)], NEW tail, Tails(tail, r, m),
         NEW k \in 0..m + 1
  PROVE  ParseTLV(tail[k]) = Returns(Listed(r, k))
<1>. DEFINE T == {n \in Nat : n \in 0..m + 1 => ParseTLV(tail[n]) = Returns(Listed(r, n))}
<1>1. 0 \in T
  <2>1. ParseTLV(<<>>) = Returns(<<>>)
    <3>1. <<>> \in Seq(Nat)
      OBVIOUS
    <3>. QED
      BY <3>1, ParseEnds, Zenon
  <2>2. Listed(r, 0) = <<>>
    BY DEF Listed
  <2>. QED
    BY <2>1, <2>2 DEF Tails
<1>2. ASSUME NEW n \in Nat, n \in T PROVE n + 1 \in T
  <2>1. ASSUME n + 1 \in 0..m + 1 PROVE ParseTLV(tail[n + 1]) = Returns(Listed(r, n + 1))
    <3>1. n \in 0..m /\ n \in 0..m + 1
      BY <2>1
    <3>2. /\ tail[n + 1] = Frame(n, r[n], tail[n])
          /\ tail[n] \in Seq(Nat) /\ r[n] \in Seq(Nat)
      BY <3>1, Zenon DEF Tails
    <3>3. ParseTLV(Frame(n, r[n], tail[n])) =
            Put([type |-> n, value |-> r[n]], ParseTLV(tail[n]))
      BY <3>2, ParseStep, Zenon
    <3>4. ParseTLV(tail[n]) = Returns(Listed(r, n))
      BY <1>2, <3>1, Zenon
    <3>5. Put([type |-> n, value |-> r[n]], Returns(Listed(r, n))) =
            Returns(<<[type |-> n, value |-> r[n]]>> \o Listed(r, n))
      <4>1. \A e, x : Put(e, <<x>>) = <<(<<e>> \o x)>>
        BY DEF Put, Returns, Raises
      <4>. QED
        BY <4>1, Zenon DEF Returns
    <3>6. <<[type |-> n, value |-> r[n]]>> \o Listed(r, n) = Listed(r, n + 1)
      BY <3>1, ListedNext, Zenon
    <3>. QED
      BY <3>2, <3>3, <3>4, <3>5, <3>6, Zenon
  <2>2. n + 1 \in Nat
    OBVIOUS
  <2>. QED
    BY <2>1, <2>2, Zenon
<1>. HIDE DEF T
<1>3. Nat \subseteq T
  BY <1>1, <1>2, NatSetInduction
<1>4. k \in Nat
  OBVIOUS
<1>. QED
  BY <1>3, <1>4, Zenon DEF T

\* Nothing, or records of other types than 0.
LacksKey(data) ==
  \/ ParseTLV(data) = Raises
  \/ \E s \in Seq(Entry) : /\ ParseTLV(data) = Returns(s)
                           /\ \A i \in 1..Len(s) : s[i].type # 0

\* A record in front of what was cut, the cut being in it or behind it.
LEMMA CutFrame ==
  ASSUME NEW t \in Nat, NEW value \in Seq(Nat), NEW rest \in Seq(Nat),
         NEW size \in Nat, size < 2 + Len(value) + Len(rest), t = 0 => rest = <<>>,
         \A n \in 0..Len(rest) - 1 : LacksKey(SubSeq(rest, 1, n))
  PROVE  LacksKey(SubSeq(Frame(t, value, rest), 1, size))
<1>. DEFINE data == Frame(t, value, rest)
            cut == SubSeq(data, 1, size)
<1>0. PICK n \in Nat, q \in Nat : n = Len(value) /\ q = Len(rest)
  OBVIOUS
<1>1. /\ Follows(rest, 2 + n, data) /\ data[1] = t /\ data[2] = n
      /\ \A j \in 1..n : data[2 + j] = value[j]
  <2>1. Framed(t, value, rest, data)
    BY FrameIs, Zenon
  <2>. HIDE DEF data
  <2>. QED
    BY <1>0, <2>1, Zenon DEF Framed
<1>. HIDE DEF data
<1>2. data \in Seq(Nat) /\ Len(data) = (2 + n) + q /\ \A j \in 1..q : data[(2 + n) + j] = rest[j]
  BY <1>0, <1>1 DEF Follows
<1>3. /\ cut \in Seq(Nat) /\ Len(cut) = size
      /\ \A k \in 1..size : cut[k] = data[k]
  <2>1. size <= Len(data)
    BY <1>0, <1>2
  <2>. QED
    BY <1>2, <2>1, StartIs, Zenon
<1>. HIDE DEF cut
<1>4. CASE size = 0
  <2>1. cut = <<>>
    BY <1>3, <1>4
  <2>2. ParseTLV(cut) = Returns(<<>>)
    BY <1>3, <2>1, ParseEnds, Zenon
  <2>3. <<>> \in Seq(Entry) /\ \A i \in 1..Len(<<>>) : FALSE
    OBVIOUS
  <2>. QED
    BY <2>2, <2>3, Zenon DEF LacksKey, cut, data
<1>5. CASE size # 0 /\ size < 2 + n
  <2>1. cut # <<>>
    BY <1>3, <1>5
  <2>2. Ends(cut, 1)
    <3>1. CASE size = 1
      BY <1>3, <3>1 DEF Ends
    <3>2. CASE size # 1
      <4>1. 2 \in 1..size /\ 1 + 1 = 2
        BY <1>5, <3>2
      <4>2. cut[1 + 1] = n
        BY <1>1, <1>3, <4>1, Zenon
      <4>3. 1 + 1 + n > size
        BY <1>5
      <4>. QED
        BY <1>3, <4>2, <4>3, Zenon DEF Ends
    <3>. QED
      BY <3>1, <3>2
  <2>3. ParseTLV(cut) = Raises
    BY <1>3, <2>1, <2>2, ParseEnds, Zenon
  <2>. QED
    BY <2>3, Zenon DEF LacksKey, cut, data
<1>6. CASE size >= 2 + n
  <2>. DEFINE z == SubSeq(rest, 1, size - (2 + n))
  <2>1. PICK y \in Nat : y = size - (2 + n) /\ size = (2 + n) + y /\ y < q
    <3>1. size - (2 + n) \in Nat /\ size = (2 + n) + (size - (2 + n)) /\ size - (2 + n) < q
      BY <1>0, <1>6
    <3>. QED
      BY <3>1, Zenon
  <2>2. LacksKey(z) /\ t # 0
    <3>1. y \in 0..Len(rest) - 1 /\ rest # <<>>
      BY <1>0, <2>1
    <3>. QED
      BY <2>1, <3>1, Zenon
  <2>3. /\ z \in Seq(Nat) /\ Len(z) = y
        /\ \A k \in 1..y : z[k] = rest[k]
    <3>1. y <= Len(rest)
      BY <1>0, <2>1
    <3>. QED
      BY <2>1, <3>1, StartIs, Zenon
  <2>. HIDE DEF z
  <2>. DEFINE e == Frame(t, value, z)
  <2>4. /\ Follows(z, 2 + n, e) /\ e[1] = t /\ e[2] = n
        /\ \A j \in 1..n : e[2 + j] = value[j]
    <3>1. Framed(t, value, z, e)
      BY <2>3, FrameIs, Zenon
    <3>. HIDE DEF e
    <3>. QED
      BY <1>0, <3>1, Zenon DEF Framed
  <2>. HIDE DEF e
  <2>5. e \in Seq(Nat) /\ Len(e) = size /\ \A j \in 1..y : e[(2 + n) + j] = z[j]
    BY <2>1, <2>3, <2>4 DEF Follows
  <2>6. ASSUME NEW k \in 1..size PROVE e[k] = cut[k]
    <3>1. CASE k = 1 \/ k = 2
      BY <1>1, <1>3, <2>4, <3>1
    <3>2. CASE k > 2 /\ k <= 2 + n
      <4>1. k - 2 \in 1..n /\ 2 + (k - 2) = k
        BY <3>2
      <4>. QED
        BY <1>1, <1>3, <2>4, <4>1, Zenon
    <3>3. CASE k > 2 + n
      <4>1. k - (2 + n) \in 1..y /\ k - (2 + n) \in 1..q /\ (2 + n) + (k - (2 + n)) = k
        BY <2>1, <3>3
      <4>. QED
        BY <1>2, <1>3, <2>3, <2>5, <4>1, ZenonT(60)
    <3>. QED
      BY <3>1, <3>2, <3>3
  <2>7. e = cut
    BY <1>3, <2>5, <2>6, SeqEqual, Zenon
  <2>8. ParseTLV(e) = Put([type |-> t, value |-> value], ParseTLV(z))
    BY <2>3, ParseStep, Zenon DEF e
  <2>9. CASE ParseTLV(z) = Raises
    <3>1. ParseTLV(e) = Raises
      BY <2>8, <2>9, Zenon DEF Put
    <3>. QED
      BY <2>7, <3>1, Zenon DEF LacksKey, cut, data
  <2>10. CASE ParseTLV(z) # Raises
    <3>1. PICK s \in Seq(Entry) : ParseTLV(z) = Returns(s) /\ \A i \in 1..Len(s) : s[i].type # 0
      BY <2>2, <2>10, Zenon DEF LacksKey
    <3>. DEFINE g == [type |-> t, value |-> value]
                c == <<g>> \o s
    <3>2. ParseTLV(e) = Returns(c)
      <4>1. \A u, x : Put(u, <<x>>) = <<(<<u>> \o x)>>
        BY DEF Put, Returns, Raises
      <4>. QED
        BY <2>8, <3>1, <4>1, Zenon DEF Returns
    <3>3. g \in Entry /\ g.type # 0
      BY <2>2 DEF Entry
    <3>. HIDE DEF g
    <3>4. c \in Seq(Entry) /\ \A i \in 1..Len(c) : c[i].type # 0
      BY <3>1, <3>3
    <3>. HIDE DEF c
    <3>. QED
      BY <2>7, <3>2, <3>4, Zenon DEF LacksKey, cut, data
  <2>. QED
    BY <2>9, <2>10
<1>. QED
  BY <1>0, <1>4, <1>5, <1>6

\* What was cut at any place lacks a record of type 0, which is written last.
LEMMA TailCut ==
  ASSUME NEW m \in Nat, NEW r \in [0..m -> Seq(Nat)], NEW tail, Tails(tail, r, m),
         NEW k \in 0..m + 1, NEW size \in Nat, size < Len(tail[k])
  PROVE  LacksKey(SubSeq(tail[k], 1, size))
<1>. DEFINE T == {n \in Nat : n \in 0..m + 1 =>
                    \A z \in 0..Len(tail[n]) - 1 : LacksKey(SubSeq(tail[n], 1, z))}
<1>0. \A n \in 0..m + 1 : tail[n] \in Seq(Nat)
  BY DEF Tails
<1>1. 0 \in T
  BY DEF Tails
<1>2. ASSUME NEW n \in Nat, n \in T PROVE n + 1 \in T
  <2>1. ASSUME n + 1 \in 0..m + 1, NEW z \in 0..Len(tail[n + 1]) - 1
        PROVE  LacksKey(SubSeq(tail[n + 1], 1, z))
    <3>1. n \in 0..m /\ n \in 0..m + 1
      BY <2>1
    <3>2. /\ tail[n + 1] = Frame(n, r[n], tail[n])
          /\ tail[n] \in Seq(Nat) /\ r[n] \in Seq(Nat)
      BY <3>1, Zenon DEF Tails
    <3>3. \A y \in 0..Len(tail[n]) - 1 : LacksKey(SubSeq(tail[n], 1, y))
      BY <1>2, <3>1, Zenon
    <3>4. n = 0 => tail[n] = <<>>
      BY DEF Tails
    <3>5. Len(tail[n + 1]) = (2 + Len(r[n])) + Len(tail[n])
      <4>1. Follows(tail[n], 2 + Len(r[n]), Frame(n, r[n], tail[n]))
        BY <3>2, FrameIs, Zenon DEF Framed
      <4>. QED
        BY <3>2, <4>1, Zenon DEF Follows
    <3>6. z \in Nat /\ z < 2 + Len(r[n]) + Len(tail[n])
      <4>1. Len(r[n]) \in Nat /\ Len(tail[n]) \in Nat
        BY <3>2
      <4>2. \A a, b, c \in Nat : c = (2 + a) + b =>
              \A x \in 0..c - 1 : x \in Nat /\ x < 2 + a + b
        OBVIOUS
      <4>3. Len(tail[n + 1]) \in Nat
        BY <1>0, <2>1
      <4>. QED
        BY <2>1, <3>5, <4>1, <4>2, <4>3, Zenon
    <3>. QED
      BY <3>2, <3>3, <3>4, <3>6, CutFrame, Zenon
  <2>2. n + 1 \in Nat
    OBVIOUS
  <2>. QED
    BY <2>1, <2>2, Zenon
<1>. HIDE DEF T
<1>3. Nat \subseteq T
  BY <1>1, <1>2, NatSetInduction
<1>4. k \in Nat /\ size \in 0..Len(tail[k]) - 1
  BY <1>0
<1>. QED
  BY <1>3, <1>4, Zenon DEF T

\* There is such a way of writing records down.
LEMMA TailsExist ==
  ASSUME NEW m \in Nat, NEW r \in [0..m -> Seq(Nat)]
  PROVE  \E tail : Tails(tail, r, m)
<1>. DEFINE step(n, s) == IF n \in 0..m THEN Frame(n, r[n], s) ELSE <<>>
            F == [p \in Nat \X Seq(Nat) |-> step(p[1], p[2])]
<1>1. \A n \in Nat, s \in Seq(Nat) : n \in 0..m => Frame(n, r[n], s) \in Seq(Nat)
  <2>1. ASSUME NEW n \in Nat, NEW s \in Seq(Nat), n \in 0..m
        PROVE  Frame(n, r[n], s) \in Seq(Nat)
    <3>1. r[n] \in Seq(Nat)
      BY <2>1
    <3>2. Follows(s, 2 + Len(r[n]), Frame(n, r[n], s))
      BY <3>1, FrameIs, Zenon DEF Framed
    <3>. QED
      BY <3>2, Zenon DEF Follows
  <2>. QED
    BY <2>1
<1>2. /\ F \in [Nat \X Seq(Nat) -> Seq(Nat)] /\ <<>> \in Seq(Nat)
      /\ \A n \in Nat, s \in Seq(Nat) : F[<<n, s>>] = step(n, s)
  <2>1. <<>> \in Seq(Nat)
    OBVIOUS
  <2>2. \A n \in Nat, s \in Seq(Nat) : step(n, s) \in Seq(Nat)
    BY <1>1, <2>1, Zenon
  <2>. HIDE DEF step
  <2>. QED
    BY <2>1, <2>2
<1>. HIDE DEF F
<1>3. PICK g \in [Nat -> Seq(Nat)] : g[0] = <<>> /\ \A n \in Nat : g[n + 1] = F[<<n, g[n]>>]
  <2>1. \E g \in [Nat -> Seq(Nat)] : g[0] = <<>> /\ Continues(g, F)
    BY <1>2, StepByStep, Zenon
  <2>. QED
    BY <2>1, Zenon DEF Continues
<1>. DEFINE tail == [k \in 0..m + 1 |-> g[k]]
<1>4. /\ \A k \in 0..m : k \in Nat /\ k \in 0..m + 1 /\ k + 1 \in 0..m + 1
      /\ \A k \in 0..m + 1 : k \in Nat
      /\ 0 \in 0..m + 1
  OBVIOUS
<1>5. tail \in [0..m + 1 -> Seq(Nat)] /\ tail[0] = <<>>
  BY <1>3, <1>4
<1>6. ASSUME NEW k \in 0..m PROVE tail[k + 1] = Frame(k, r[k], tail[k])
  <2>1. g[k + 1] = Frame(k, r[k], g[k])
    BY <1>2, <1>3, <1>4, Zenon
  <2>2. tail[k + 1] = g[k + 1] /\ tail[k] = g[k]
    BY <1>4, Zenon
  <2>. QED
    BY <2>1, <2>2, Zenon
<1>. HIDE DEF tail
<1>. QED
  BY <1>5, <1>6, Zenon DEF Tails

\* Types 0 .. m in descending order.
LEMMA OrderIs ==
  ASSUME NEW m \in Nat
  PROVE  /\ Order(0..m) \in Seq(0..m) /\ Len(Order(0..m)) = m + 1
         /\ \A i \in 1..m + 1 : Order(0..m)[i] = (m + 1) - i /\ (m + 1) - i \in 0..m
<1>1. Cardinality(0..m) = m + 1
  BY FS_Interval
<1>2. ASSUME NEW t \in 0..m PROVE Cardinality({u \in 0..m : u > t}) = m - t
  <2>1. {u \in 0..m : u > t} = t + 1..m
    OBVIOUS
  <2>2. Cardinality(t + 1..m) = IF t + 1 > m THEN 0 ELSE m - (t + 1) + 1
    BY FS_Interval
  <2>3. (IF t + 1 > m THEN 0 ELSE m - (t + 1) + 1) = m - t
    OBVIOUS
  <2>. QED
    BY <2>1, <2>2, <2>3, Zenon
<1>3. ASSUME NEW i \in 1..m + 1
      PROVE  /\ (m + 1) - i \in 0..m
             /\ (CHOOSE t \in 0..m : Cardinality({u \in 0..m : u > t}) = i - 1) = (m + 1) - i
  <2>1. (m + 1) - i \in 0..m /\ m - ((m + 1) - i) = i - 1
    OBVIOUS
  <2>2. Cardinality({u \in 0..m : u > (m + 1) - i}) = i - 1
    BY <1>2, <2>1, Zenon
  <2>3. ASSUME NEW t \in 0..m, Cardinality({u \in 0..m : u > t}) = i - 1
        PROVE  t = (m + 1) - i
    <3>1. m - t = i - 1
      BY <1>2, <2>3, Zenon
    <3>. QED
      BY <3>1
  <2>. QED
    BY <2>1, <2>2, <2>3, Zenon
<1>4. Order(0..m) = [i \in 1..m + 1 |-> CHOOSE t \in 0..m : Cardinality({u \in 0..m : u > t}) = i - 1]
  BY <1>1, Zenon DEF Order
<1>. DEFINE o == Order(0..m)
<1>. HIDE DEF o
<1>5. \A i \in 1..m + 1 : o[i] = (m + 1) - i
  BY <1>3, <1>4, Zenon DEF o
<1>6. o \in [1..m + 1 -> 0..m]
  <2>1. DOMAIN o = 1..m + 1 /\ o = [i \in DOMAIN o |-> o[i]]
    BY <1>4, Zenon DEF o
  <2>. QED
    BY <1>3, <1>5, <2>1
<1>7. o \in Seq(0..m) /\ Len(o) = m + 1
  BY <1>6
<1>. QED
  BY <1>3, <1>5, <1>7, Zenon DEF o

\* Joining sequences of bytes is associative.
LEMMA Associative ==
  \A a, b, c \in Seq(Nat) : (a \o b) \o c = a \o (b \o c)
<1>. SUFFICES ASSUME NEW a \in Seq(Nat), NEW b \in Seq(Nat), NEW c \in Seq(Nat)
              PROVE  (a \o b) \o c = a \o (b \o c)
  OBVIOUS
<1>. QED
  BY ConcatAssociative

\* What was joined from the left may be joined from the right.
LEMMA Regrouped ==
  \A a, b, c, d \in Seq(Nat) : ((a \o b) \o c) \o d = a \o ((b \o c) \o d)
<1>. SUFFICES ASSUME NEW a \in Seq(Nat), NEW b \in Seq(Nat), NEW c \in Seq(Nat), NEW d \in Seq(Nat)
              PROVE  ((a \o b) \o c) \o d = a \o ((b \o c) \o d)
  OBVIOUS
<1>1. a \o b \in Seq(Nat) /\ b \o c \in Seq(Nat) /\ c \o d \in Seq(Nat)
  OBVIOUS
<1>2. \A x \in Seq(Nat) : (x \o c) \o d = x \o (c \o d)
  BY Associative, ZenonT(60)
<1>3. ((a \o b) \o c) \o d = (a \o b) \o (c \o d)
  BY <1>1, <1>2, Zenon
<1>4. \A x \in Seq(Nat) : (a \o b) \o x = a \o (b \o x)
  BY Associative, Zenon
<1>5. (a \o b) \o (c \o d) = a \o (b \o (c \o d))
  BY <1>1, <1>4, Zenon
<1>6. b \o (c \o d) = (b \o c) \o d
  BY Associative, Zenon
<1>. QED
  BY <1>3, <1>5, <1>6, Zenon

\* What the encoder writes, record by record.
Written(out, types, r) ==
  out = [i \in 0..Len(types) |->
           IF i = 0 THEN <<>>
           ELSE out[i - 1] \o <<types[i], Len(r[types[i]])>> \o r[types[i]]]

\* The encoder's recursion has a solution.
LEMMA WrittenExists ==
  ASSUME NEW D \in SUBSET Nat, NEW r \in [D -> Seq(Nat)], NEW types \in Seq(D)
  PROVE  \E out : Written(out, types, r)
<1>. DEFINE put(s, i) == s \o <<types[i], Len(r[types[i]])>> \o r[types[i]]
            step(n, s) == IF n + 1 \in 1..Len(types) THEN put(s, n + 1) ELSE <<>>
            F == [p \in Nat \X Seq(Nat) |-> step(p[1], p[2])]
<1>1. ASSUME NEW s \in Seq(Nat), NEW i \in 1..Len(types) PROVE put(s, i) \in Seq(Nat)
  <2>1. PICK t \in D : t = types[i]
    <3>1. types[i] \in D
      BY ElementOfSeq, Zenon
    <3>. QED
      BY <3>1, Zenon
  <2>2. r[t] \in Seq(Nat) /\ t \in Nat
    OBVIOUS
  <2>3. <<t, Len(r[t])>> \in Seq(Nat)
    BY <2>2
  <2>4. (s \o <<t, Len(r[t])>>) \o r[t] \in Seq(Nat)
    BY <2>2, <2>3
  <2>. QED
    BY <2>1, <2>4, Zenon
<1>. HIDE DEF put
<1>2. /\ F \in [Nat \X Seq(Nat) -> Seq(Nat)] /\ <<>> \in Seq(Nat)
      /\ \A n \in Nat, s \in Seq(Nat) : F[<<n, s>>] = step(n, s)
  <2>1. <<>> \in Seq(Nat)
    OBVIOUS
  <2>2. \A n \in Nat, s \in Seq(Nat) : step(n, s) \in Seq(Nat)
    BY <1>1, <2>1, Zenon
  <2>. HIDE DEF step
  <2>. QED
    BY <2>1, <2>2
<1>. HIDE DEF F
<1>3. PICK g \in [Nat -> Seq(Nat)] : g[0] = <<>> /\ \A n \in Nat : g[n + 1] = F[<<n, g[n]>>]
  <2>1. \E g \in [Nat -> Seq(Nat)] : g[0] = <<>> /\ Continues(g, F)
    BY <1>2, StepByStep, Zenon
  <2>. QED
    BY <2>1, Zenon DEF Continues
<1>. DEFINE out == [i \in 0..Len(types) |-> g[i]]
<1>4. ASSUME NEW i \in 0..Len(types)
      PROVE  out[i] = IF i = 0 THEN <<>> ELSE put(out[i - 1], i)
  <2>1. CASE i = 0
    BY <1>3, <2>1
  <2>2. CASE i # 0
    <3>1. /\ i - 1 \in Nat /\ i - 1 \in 0..Len(types)
          /\ (i - 1) + 1 = i /\ i \in 1..Len(types)
      BY <2>2
    <3>2. g[(i - 1) + 1] = put(g[i - 1], (i - 1) + 1)
      BY <1>2, <1>3, <3>1, Zenon
    <3>3. out[i] = g[i] /\ out[i - 1] = g[i - 1]
      BY <3>1, Zenon
    <3>. QED
      BY <2>2, <3>1, <3>2, <3>3, Zenon
  <2>. QED
    BY <2>1, <2>2, Zenon
<1>5. out = [i \in 0..Len(types) |-> out[i]]
  OBVIOUS
<1>. HIDE DEF out
<1>6. Written(out, types, r)
  BY <1>4, <1>5, Zenon DEF Written, put
<1>. QED
  BY <1>6, Zenon

\* What the encoder writes are the records from the highest type down.
LEMMA EncodeIs ==
  ASSUME NEW m \in Nat, NEW r \in [0..m -> Seq(Nat)], EncodeTLV(r) # Raises
  PROVE  \E tail : Tails(tail, r, m) /\ EncodeTLV(r) = Returns(tail[m + 1])
<1>. DEFINE types == Order(DOMAIN r)
            out == CHOOSE u : Written(u, types, r)
<1>1. /\ types \in Seq(0..m) /\ Len(types) = m + 1
      /\ \A i \in 1..m + 1 : types[i] = (m + 1) - i
  <2>1. DOMAIN r = 0..m
    OBVIOUS
  <2>. QED
    BY <2>1, OrderIs, Zenon
<1>2. EncodeTLV(r) = Returns(out[m + 1])
  <2>1. EncodeTLV(r) = IF \E t \in DOMAIN r : Len(r[t]) >= Radix THEN Raises
                       ELSE Returns(out[Len(types)])
    BY Zenon DEF EncodeTLV, Written
  <2>. QED
    BY <1>1, <2>1, Zenon
<1>. HIDE DEF types
<1>3. Written(out, types, r)
  <2>1. 0..m \in SUBSET Nat
    OBVIOUS
  <2>2. \E u : Written(u, types, r)
    BY <1>1, <2>1, WrittenExists, Zenon
  <2>. QED
    BY <2>2, Zenon
<1>. HIDE DEF out
<1>4. PICK tail : Tails(tail, r, m)
  BY TailsExist
<1>5. /\ out[0] = <<>>
      /\ \A i \in 0..m + 1 : i # 0 =>
           out[i] = (out[i - 1] \o <<types[i], Len(r[types[i]])>>) \o r[types[i]]
  <2>1. 0 \in 0..m + 1
    OBVIOUS
  <2>2. \A i \in 0..Len(types) :
          out[i] = IF i = 0 THEN <<>>
                   ELSE (out[i - 1] \o <<types[i], Len(r[types[i]])>>) \o r[types[i]]
    BY <1>3, Zenon DEF Written
  <2>. QED
    BY <1>1, <2>1, <2>2, Zenon
<1>. DEFINE T == {n \in Nat : n \in 0..m + 1 =>
                    out[n] \in Seq(Nat) /\ out[n] \o tail[(m + 1) - n] = tail[m + 1]}
<1>6. 0 \in T
  <2>1. tail[m + 1] \in Seq(Nat) /\ (m + 1) - 0 = m + 1
    BY <1>4 DEF Tails
  <2>2. <<>> \o tail[m + 1] = tail[m + 1]
    BY <2>1
  <2>3. out[0] \in Seq(Nat) /\ out[0] \o tail[(m + 1) - 0] = tail[m + 1]
    BY <1>5, <2>1, <2>2
  <2>. QED
    BY <2>3
<1>7. ASSUME NEW n \in Nat, n \in T PROVE n + 1 \in T
  <2>1. ASSUME n + 1 \in 0..m + 1
        PROVE  /\ out[n + 1] \in Seq(Nat)
               /\ out[n + 1] \o tail[(m + 1) - (n + 1)] = tail[m + 1]
    <3>1. PICK t \in 0..m : t = (m + 1) - (n + 1)
      BY <2>1
    <3>2. /\ n + 1 \in 1..m + 1 /\ n \in 0..m + 1 /\ (n + 1) - 1 = n /\ n + 1 # 0
          /\ (m + 1) - n = t + 1 /\ t \in 0..m + 1 /\ t \in Nat
      BY <2>1, <3>1
    <3>3. types[n + 1] = t
      BY <1>1, <3>1, <3>2, Zenon
    <3>4. out[n + 1] = (out[n] \o <<t, Len(r[t])>>) \o r[t]
      BY <1>5, <2>1, <3>2, <3>3, Zenon
    <3>5. /\ out[n] \in Seq(Nat) /\ out[n] \o tail[t + 1] = tail[m + 1]
      BY <1>7, <3>2, Zenon
    <3>6. tail[t] \in Seq(Nat) /\ r[t] \in Seq(Nat) /\ <<t, Len(r[t])>> \in Seq(Nat)
      <4>1. tail[t] \in Seq(Nat) /\ r[t] \in Seq(Nat)
        BY <1>4, <3>2, Zenon DEF Tails
      <4>2. Len(r[t]) \in Nat
        BY <4>1
      <4>. QED
        BY <3>2, <4>1, <4>2
    <3>7. tail[t + 1] = (<<t, Len(r[t])>> \o r[t]) \o tail[t]
      BY <1>4, Zenon DEF Tails, Frame
    <3>8. ((out[n] \o <<t, Len(r[t])>>) \o r[t]) \o tail[t]
            = out[n] \o ((<<t, Len(r[t])>> \o r[t]) \o tail[t])
      <4>1. PICK a \in Seq(Nat), b \in Seq(Nat), c \in Seq(Nat), d \in Seq(Nat) :
              a = out[n] /\ b = <<t, Len(r[t])>> /\ c = r[t] /\ d = tail[t]
        BY <3>5, <3>6, Zenon
      <4>2. ((a \o b) \o c) \o d = a \o ((b \o c) \o d)
        <5>1. \A x, y, z \in Seq(Nat) : ((a \o x) \o y) \o z = a \o ((x \o y) \o z)
          BY Regrouped, Zenon
        <5>2. \A y, z \in Seq(Nat) : ((a \o b) \o y) \o z = a \o ((b \o y) \o z)
          BY <5>1, Zenon
        <5>3. \A z \in Seq(Nat) : ((a \o b) \o c) \o z = a \o ((b \o c) \o z)
          BY <5>2, Zenon
        <5>. QED
          BY <5>3, Zenon
      <4>. QED
        BY <4>1, <4>2, Zenon
    <3>9. (out[n] \o <<t, Len(r[t])>>) \o r[t] \in Seq(Nat)
      BY <3>5, <3>6
    <3>. QED
      BY <3>1, <3>4, <3>5, <3>7, <3>8, <3>9, Zenon
  <2>2. n + 1 \in Nat
    OBVIOUS
  <2>. QED
    BY <2>1, <2>2, Zenon
<1>. HIDE DEF T
<1>8. Nat \subseteq T
  BY <1>6, <1>7, NatSetInduction
<1>9. out[m + 1] = tail[m + 1]
  <2>1. m + 1 \in Nat /\ m + 1 \in 0..m + 1 /\ (m + 1) - (m + 1) = 0
    OBVIOUS
  <2>2. out[m + 1] \in Seq(Nat) /\ out[m + 1] \o tail[0] = tail[m + 1]
    BY <1>8, <2>1, Zenon DEF T
  <2>3. tail[0] = <<>>
    BY <1>4, Zenon DEF Tails
  <2>4. out[m + 1] \o <<>> = out[m + 1]
    BY <2>2
  <2>. QED
    BY <2>2, <2>3, <2>4, Zenon
<1>. QED
  BY <1>2, <1>4, <1>9, Zenon

-----------------------------------------------------------------------------
(* Wire: a noffer is read back.                                            *)

\* What the decoder finds if the first records of all types are where they were put.
LEMMA DecodeIs ==
  ASSUME NEW m \in {3, 4}, NEW r \in [0..m -> Seq(Nat)], NEW data,
         ParseTLV(data) = Returns(Listed(r, m + 1)),
         Len(r[0]) = KeyBytes, r[3] # <<>>, r[3][1] \in 0..2
  PROVE  NofferDecode(data) =
           Returns([key |-> r[0], relay |-> r[1], offer |-> r[2], type |-> r[3][1],
                    price |-> IF m = 3 THEN NoPrice ELSE FromBytes(r[4])])
<1>. DEFINE parsed == ParseTLV(data)
            places(t) == {i \in DOMAIN parsed[1] : parsed[1][i].type = t}
            value(t) == parsed[1][CHOOSE i \in places(t) : \A j \in places(t) : i <= j].value
<1>0. m \in Nat /\ m + 1 \in 0..m + 1
  OBVIOUS
<1>1. /\ parsed[1] \in Seq(Entry) /\ Len(parsed[1]) = m + 1
      /\ \A i \in 1..m + 1 :
           parsed[1][i] = [type |-> (m + 1) - i, value |-> r[(m + 1) - i]]
  <2>1. parsed[1] = Listed(r, m + 1)
    BY DEF Returns
  <2>2. /\ Listed(r, m + 1) \in Seq(Entry) /\ Len(Listed(r, m + 1)) = m + 1
        /\ \A i \in 1..m + 1 :
             Listed(r, m + 1)[i] = [type |-> (m + 1) - i, value |-> r[(m + 1) - i]]
    BY <1>0, ListedIs, Zenon
  <2>. QED
    BY <2>1, <2>2, Zenon
<1>2. parsed # Raises
  BY DEF Returns, Raises
<1>. HIDE DEF parsed
<1>3. ASSUME NEW t \in Nat PROVE places(t) = IF t <= m THEN {(m + 1) - t} ELSE {}
  <2>1. DOMAIN parsed[1] = 1..m + 1
    BY <1>1
  <2>2. \A i \in 1..m + 1 : parsed[1][i].type = (m + 1) - i
    <3>1. ASSUME NEW i \in 1..m + 1 PROVE parsed[1][i].type = (m + 1) - i
      <4>1. parsed[1][i] = [type |-> (m + 1) - i, value |-> r[(m + 1) - i]]
        BY <1>1, Zenon
      <4>. QED
        BY <4>1
    <3>. QED
      BY <3>1, Zenon
  <2>3. \A i \in 1..m + 1 : (m + 1) - i = t <=> i = (m + 1) - t
    BY <1>0
  <2>4. places(t) = {i \in 1..m + 1 : i = (m + 1) - t}
    <3>1. places(t) = {i \in 1..m + 1 : parsed[1][i].type = t}
      BY <2>1, Zenon
    <3>2. \A i \in 1..m + 1 : parsed[1][i].type = t <=> i = (m + 1) - t
      BY <2>2, <2>3, Zenon
    <3>. QED
      BY <3>1, <3>2, Zenon
  <2>5. {i \in 1..m + 1 : i = (m + 1) - t} = IF t <= m THEN {(m + 1) - t} ELSE {}
    <3>1. t <= m <=> (m + 1) - t \in 1..m + 1
      BY <1>0
    <3>. QED
      BY <3>1, Zenon
  <2>. QED
    BY <2>4, <2>5, Zenon
<1>4. ASSUME NEW t \in 0..m PROVE places(t) # {} /\ value(t) = r[t]
  <2>1. /\ places(t) = {(m + 1) - t} /\ (m + 1) - t \in 1..m + 1
        /\ (m + 1) - ((m + 1) - t) = t
    BY <1>0, <1>3
  <2>. HIDE DEF places
  <2>2. (CHOOSE i \in places(t) : \A j \in places(t) : i <= j) = (m + 1) - t
    BY <2>1
  <2>3. parsed[1][(m + 1) - t] = [type |-> (m + 1) - ((m + 1) - t), value |-> r[(m + 1) - ((m + 1) - t)]]
    BY <1>1, <2>1, Zenon
  <2>4. parsed[1][(m + 1) - t].value = r[t]
    BY <2>1, <2>3
  <2>. QED
    BY <2>1, <2>2, <2>4
<1>5. \A t \in 0..3 : t \in 0..m
  OBVIOUS
<1>6. /\ 0 \in 0..3 /\ 1 \in 0..3 /\ 2 \in 0..3 /\ 3 \in 0..3
  OBVIOUS
<1>7. /\ value(0) = r[0] /\ value(1) = r[1] /\ value(2) = r[2] /\ value(3) = r[3]
      /\ ~\E t \in 0..3 : places(t) = {}
  BY <1>4, <1>5, <1>6, Zenon
<1>8. m = 3 => places(4) = {}
  BY <1>3
<1>9. m # 3 => places(4) # {} /\ value(4) = r[4]
  <2>1. m # 3 => 4 \in 0..m
    OBVIOUS
  <2>. QED
    BY <1>4, <2>1, Zenon
<1>10. NofferDecode(data) =
         IF \/ parsed = Raises \/ \E t \in 0..3 : places(t) = {}
            \/ Len(value(0)) # KeyBytes \/ value(3) = <<>>
         THEN Raises
         ELSE IF value(3)[1] \notin 0..2 THEN Raises
         ELSE Returns([key |-> value(0), relay |-> value(1), offer |-> value(2),
                type |-> value(3)[1],
                price |-> IF places(4) = {} THEN NoPrice ELSE FromBytes(value(4))])
  BY Zenon DEF NofferDecode, parsed
<1>. HIDE DEF places, value
<1>11. NofferDecode(data) =
         Returns([key |-> r[0], relay |-> r[1], offer |-> r[2], type |-> r[3][1],
                  price |-> IF places(4) = {} THEN NoPrice ELSE FromBytes(value(4))])
  BY <1>2, <1>7, <1>10, Zenon
<1>12. (IF places(4) = {} THEN NoPrice ELSE FromBytes(value(4)))
         = (IF m = 3 THEN NoPrice ELSE FromBytes(r[4]))
  BY <1>8, <1>9, Zenon
<1>. QED
  BY <1>11, <1>12, Zenon

\* Without a key there is no noffer.
LEMMA DecodeNeedsKey ==
  ASSUME NEW data, LacksKey(data) PROVE NofferDecode(data) = Raises
<1>1. CASE ParseTLV(data) = Raises
  BY <1>1, Zenon DEF NofferDecode
<1>2. CASE ParseTLV(data) # Raises
  <2>1. PICK s \in Seq(Entry) : /\ ParseTLV(data) = Returns(s)
                                /\ \A i \in 1..Len(s) : s[i].type # 0
    BY <1>2, Zenon DEF LacksKey
  <2>2. ParseTLV(data)[1] = s /\ DOMAIN s = 1..Len(s)
    BY <2>1 DEF Returns
  <2>3. {i \in DOMAIN ParseTLV(data)[1] : ParseTLV(data)[1][i].type = 0} = {}
    BY <2>1, <2>2, Zenon
  <2>4. 0 \in 0..3
    OBVIOUS
  <2>. QED
    BY <2>3, <2>4, Zenon DEF NofferDecode
<1>. QED
  BY <1>1, <1>2

\* A noffer is read back as it was, and a part of one is refused.
LEMMA NofferIsReadBack ==
  ASSUME given.of \in [key : Seq(Byte), relay : Seq(Byte), offer : Seq(Byte),
                       type : 0..2, price : Nat],
         given.cut \in Nat
  PROVE  NofferReadBack
<1>. DEFINE n == given.of
            m == IF n.price # NoPrice THEN 4 ELSE 3
            r == [t \in 0..m |->
                    CASE t = 0 -> n.key [] t = 1 -> n.relay [] t = 2 -> n.offer
                      [] t = 3 -> <<n.type>> [] t = 4 -> BigEndian(n.price)]
            code == NofferEncode(n)
<1>1. SUFFICES ASSUME code # Raises
               PROVE  NofferDecode(SubSeq(code[1], 1, Len(code[1]) - given.cut)) =
                        IF given.cut > 0 THEN Raises ELSE Returns(n)
  BY Zenon DEF NofferReadBack
<1>2. Len(n.key) = KeyBytes /\ n.price < Power[PriceBytes] /\ code = EncodeTLV(r)
  <2>1. /\ ~(Len(n.key) # KeyBytes \/ n.price >= Power[PriceBytes])
        /\ code = EncodeTLV([t \in IF n.price # NoPrice THEN 0..4 ELSE 0..3 |->
                     CASE t = 0 -> n.key [] t = 1 -> n.relay [] t = 2 -> n.offer
                       [] t = 3 -> <<n.type>> [] t = 4 -> BigEndian(n.price)])
    BY <1>1, Zenon DEF NofferEncode
  <2>2. (IF n.price # NoPrice THEN 0..4 ELSE 0..3) = 0..m
    BY Zenon
  <2>3. Power[PriceBytes] \in Nat /\ n.price \in Nat
    BY PowerIs, WireAssumption
  <2>4. n.price < Power[PriceBytes]
    BY <2>1, <2>3
  <2>. QED
    BY <2>1, <2>2, <2>4
<1>3. /\ n.key \in Seq(Nat) /\ n.relay \in Seq(Nat) /\ n.offer \in Seq(Nat)
      /\ <<n.type>> \in Seq(Nat)
      /\ n.price # NoPrice => BigEndian(n.price) \in Seq(Nat)
  <2>1. Seq(Byte) \subseteq Seq(Nat)
    BY WireAssumption DEF Byte
  <2>2. BigEndian(n.price) \in Seq(Nat)
    BY <1>2, PriceReadBack
  <2>. QED
    BY <2>1, <2>2
<1>4. m \in {3, 4} /\ m \in Nat
  BY DEF NoPrice
<1>5. /\ r \in [0..m -> Seq(Nat)]
      /\ r[0] = n.key /\ r[1] = n.relay /\ r[2] = n.offer /\ r[3] = <<n.type>>
      /\ n.price # NoPrice => r[4] = BigEndian(n.price)
  BY <1>3, <1>4
<1>. HIDE DEF r
<1>6. PICK tail : Tails(tail, r, m) /\ code = Returns(tail[m + 1])
  BY <1>1, <1>2, <1>4, <1>5, EncodeIs
<1>. DEFINE whole == tail[m + 1]
<1>7. whole \in Seq(Nat) /\ code[1] = whole /\ m + 1 \in 0..m + 1
  BY <1>4, <1>6 DEF Tails, Returns
<1>. HIDE DEF code
<1>8. CASE given.cut = 0
  <2>1. SubSeq(whole, 1, Len(whole) - given.cut) = whole
    BY <1>7, <1>8
  <2>2. ParseTLV(whole) = Returns(Listed(r, m + 1))
    BY <1>4, <1>5, <1>6, <1>7, TailParses, ZenonT(60)
  <2>3. Len(r[0]) = KeyBytes /\ r[3] # <<>> /\ r[3][1] = n.type /\ n.type \in 0..2
    BY <1>2, <1>5
  <2>4. NofferDecode(whole) =
          Returns([key |-> r[0], relay |-> r[1], offer |-> r[2], type |-> r[3][1],
                   price |-> IF m = 3 THEN NoPrice ELSE FromBytes(r[4])])
    BY <1>4, <1>5, <2>2, <2>3, DecodeIs, Zenon
  <2>5. (IF m = 3 THEN NoPrice ELSE FromBytes(r[4])) = n.price
    <3>1. n.price # NoPrice => FromBytes(BigEndian(n.price)) = n.price
      BY <1>2, PriceReadBack
    <3>. QED
      BY <1>5, <3>1
  <2>6. [key |-> r[0], relay |-> r[1], offer |-> r[2], type |-> r[3][1], price |-> n.price] = n
    BY <1>5, <2>3
  <2>7. ~(given.cut > 0)
    BY <1>8
  <2>. QED
    BY <1>7, <2>1, <2>4, <2>5, <2>6, <2>7, Zenon
<1>9. CASE given.cut # 0
  <2>1. LacksKey(SubSeq(whole, 1, Len(whole) - given.cut))
    <3>1. CASE given.cut <= Len(whole)
      <4>1. Len(whole) - given.cut \in Nat /\ Len(whole) - given.cut < Len(whole)
        BY <1>7, <1>9, <3>1
      <4>. QED
        BY <1>4, <1>5, <1>6, <1>7, <4>1, TailCut, Zenon
    <3>2. CASE ~(given.cut <= Len(whole))
      <4>1. SubSeq(whole, 1, Len(whole) - given.cut) = <<>>
        BY <1>7, <3>2, SubSeqEmpty
      <4>2. ParseTLV(<<>>) = Returns(<<>>) /\ <<>> \in Seq(Entry)
        <5>1. <<>> \in Seq(Nat) /\ <<>> \in Seq(Entry)
          OBVIOUS
        <5>. QED
          BY <5>1, ParseEnds, Zenon
      <4>3. \A i \in 1..Len(<<>>) : FALSE
        OBVIOUS
      <4>. QED
        BY <4>1, <4>2, <4>3, Zenon DEF LacksKey
    <3>. QED
      BY <3>1, <3>2
  <2>2. given.cut > 0
    BY <1>9
  <2>3. NofferDecode(SubSeq(whole, 1, Len(whole) - given.cut)) = Raises
    <3>. DEFINE d == SubSeq(whole, 1, Len(whole) - given.cut)
    <3>1. LacksKey(d)
      BY <2>1
    <3>. HIDE DEF d
    <3>2. NofferDecode(d) = Raises
      BY <3>1, DecodeNeedsKey
    <3>. QED
      BY <3>2 DEF d
  <2>. QED
    BY <1>7, <2>2, <2>3, Zenon
<1>. QED
  BY <1>8, <1>9

\* What goes out is read back as it was: for every noffer that can be encoded, whatever
\* its names and price, noffer_decode returns what noffer_encode was given, and refuses
\* it once it was cut short, at any place; for every length of a plaintext, unpad
\* undoes pad, a longer text is padded no shorter, and padding costs what NIP-44 says.
THEOREM AlwaysReadBack == WireSpec => []ReadBack
<1>1. GivenOK => ReadBack
  <2>1. ASSUME GivenOK, given.kind = "noffer" PROVE NofferReadBack
    <3>1. /\ given.of \in [key : Seq(Byte), relay : Seq(Byte), offer : Seq(Byte),
                           type : 0..2, price : Nat]
          /\ given.cut \in Nat
      BY <2>1, WireAssumption DEF GivenOK, Inputs, NoInput
    <3>. QED
      BY <3>1, NofferIsReadBack
  <2>2. ASSUME GivenOK, given.kind = "text" PROVE PaddingReadBack
    <3>1. given.length \in Nat
      BY <2>2, WireAssumption DEF GivenOK, Inputs, NoInput
    <3>. QED
      BY <3>1, TextsReadBack
  <2>. QED
    BY <2>1, <2>2 DEF ReadBack
<1>. QED
  BY <1>1, GivenStays, PTL
=============================================================================
