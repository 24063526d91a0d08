---------------------------- MODULE RelayProofs ----------------------------
(***************************************************************************)
(* Theorems about what the plugin does over its relays, for any sets of    *)
(* relays, connections, offers, payers and callers, any pauses, and any    *)
(* time limits that fit into the registration of a self-test.  The         *)
(* listener's group always has a manager, and no repair ends its           *)
(* subscription; a self-test is recognised, hears its answer, is run once  *)
(* at a time and forgotten with its offer; a blip is never taken for a     *)
(* relay that is down; a publish is reported as its acknowledgements say.  *)
(***************************************************************************)
EXTENDS Listener, SelfTest, RelayWatch, Publish, TLAPS

-----------------------------------------------------------------------------
(* The listener.                                                           *)


\* What a connection attempt reaches is some of the relays it was given.
LEMMA ReachedIsPart ==
  ASSUME NEW S, NEW T \in Reached(S) PROVE T \subseteq S
BY DEF Reached

\* Taking relays off the manager leaves a map of connection states.
LEMMA WithoutType ==
  ASSUME conn \in [RelayUrls -> ConnStates], NEW S
  PROVE  Without(S) \in [RelayUrls -> ConnStates]
BY DEF Without, ConnStates

\* So does subscribing to whatever is connected.
LEMMA ResubscribeType ==
  ASSUME NEW c \in [RelayUrls -> ConnStates]
  PROVE  Resubscribe(c) \in [RelayUrls -> ConnStates]
BY DEF Resubscribe, ConnStates

\* And so does what update_relays leaves behind.
LEMMA UpdatedType ==
  ASSUME conn \in [RelayUrls -> ConnStates], NEW S
  PROVE  Updated(S) \in [RelayUrls -> ConnStates]
BY DEF Updated, ConnStates

\* Without a group no connection is subscribed to.
LEMMA UnsubscribedType ==
  ASSUME conn \in [RelayUrls -> ConnStates]
  PROVE  Unsubscribed \in [RelayUrls -> ConnStates]
BY DEF Unsubscribed, ConnStates

\* The manager is connected before the group is opened, and only run() itself
\* lets go of it, outside the group.
ListenerIInv == ListenerTypeOK /\ GroupHasManager

\* The first state.
LEMMA ListenerInitIInv == ListenerInit => ListenerIInv
BY DEF ListenerInit, ListenerIInv, ListenerTypeOK, GroupHasManager, RunStates, DogStates,
       NoConn, ConnStates

\* A step of the loop.
LEMMA RunIInv == ListenerIInv /\ RunStep => ListenerIInv'
<1> SUFFICES ASSUME ListenerIInv, RunStep PROVE ListenerIInv'
  OBVIOUS
<1> USE DEF ListenerIInv, ListenerTypeOK, GroupHasManager, RunStates, DogStates,
            listenerVars, envVars, mgrVars, dogVars, endVars
<1>1. CASE Gate
  BY <1>1 DEF Gate
<1>2. CASE Refresh
  <2>0. runAt = "pin" /\ UNCHANGED <<envVars, endVars>>
    BY <1>2 DEF Refresh
  <2>1. CASE Stale /\ runAt' = "reclose" /\ UNCHANGED <<mgrVars, stream, restart, dogVars>>
    <3>1. runAt' \in RunStates /\ runAt' # "serving" /\ runAt # "serving"
      BY <2>0, <2>1
    <3>2. UNCHANGED <<wanted, up, calm, manager, recorded, conn, stream, restart, dog,
                      target, stop, exiting>>
      BY <2>0, <2>1
    <3> HIDE DEF RunStates, DogStates
    <3> QED
      BY <3>1, <3>2
  <2>2. CASE manager = "connected" /\ GroupStarts /\ UNCHANGED mgrVars
    <3>1. /\ runAt' \in RunStates /\ dog' \in DogStates /\ dog' # "off"
          /\ runAt' = "serving" /\ target' = {} /\ stream' = "none" /\ restart' = FALSE
      BY <2>2 DEF GroupStarts
    <3>2. UNCHANGED <<wanted, up, calm, manager, recorded, conn, stop, exiting>>
      BY <2>0, <2>2
    <3> HIDE DEF RunStates, DogStates
    <3> QED
      BY <2>2, <3>1, <3>2
  <2>3. CASE /\ manager' = "built"
             /\ recorded' = IF manager = "none" THEN wanted ELSE recorded
             /\ runAt' = "connect" /\ UNCHANGED <<conn, stream, restart, dogVars>>
    <3>1. runAt' \in RunStates /\ runAt' # "serving" /\ runAt # "serving"
      BY <2>0, <2>3
    <3>2. UNCHANGED <<wanted, up, calm, conn, stream, restart, dog, target, stop, exiting>>
      BY <2>0, <2>3
    <3>3. manager' = "built" /\ recorded' \subseteq RelayUrls
      BY <2>3
    <3> HIDE DEF RunStates, DogStates
    <3> QED
      BY <3>1, <3>2, <3>3
  <2> HIDE DEF ListenerIInv, ListenerTypeOK, GroupHasManager
  <2> QED
    BY <1>2, <2>1, <2>2, <2>3 DEF Refresh
<1>3. CASE Reclosed
  BY <1>3 DEF Reclosed, NoConn, ConnStates
<1>4. CASE ManagerConnected
  <2>1. conn' \in [RelayUrls -> ConnStates]
    BY <1>4 DEF ManagerConnected, ConnStates
  <2> QED
    BY <1>4, <2>1 DEF ManagerConnected, GroupStarts
<1>5. CASE Resume
  BY <1>5 DEF Resume
<1>6. CASE Subscribe
  <2>1. conn' \in [RelayUrls -> ConnStates]
    BY <1>6 DEF Subscribe, ConnStates
  <2> QED
    BY <1>6, <2>1 DEF Subscribe
<1>7. CASE ManagerClosed
  BY <1>7 DEF ManagerClosed, NoConn, ConnStates
<1>8. CASE Restarted
  BY <1>8, UnsubscribedType DEF Restarted, GroupEnds
<1> QED
  BY <1>1, <1>2, <1>3, <1>4, <1>5, <1>6, <1>7, <1>8 DEF RunStep

\* A step of the watchdog: the group and its manager stay as they are.
LEMMA WatchdogIInv == ListenerIInv /\ WatchdogStep => ListenerIInv'
<1> SUFFICES ASSUME ListenerIInv, WatchdogStep PROVE ListenerIInv'
  OBVIOUS
<1> USE DEF ListenerIInv, ListenerTypeOK, GroupHasManager, RunStates, DogStates,
            listenerVars, envVars, mgrVars, dogVars, endVars, DogStep, DogFrame
<1>1. CASE Prune
  BY <1>1 DEF Prune, Dead
<1>2. CASE Pruned
  BY <1>2, WithoutType DEF Pruned
<1>3. CASE Check
  BY <1>3 DEF Check
<1>4. CASE Attach
  <2>1. PICK S \in Reached(target \ Attached) :
          conn' = Resubscribe(Updated(S)) /\ stream' = StreamAfter(Updated(S))
    BY <1>4 DEF Attach
  <2>2. conn' \in [RelayUrls -> ConnStates]
    BY <2>1, UpdatedType, ResubscribeType
  <2> QED
    BY <1>4, <2>1, <2>2 DEF Attach, AfterAttach, StreamAfter, Refreshes
<1>5. CASE Ping
  BY <1>5 DEF Ping, Attached
<1>6. CASE NoPing
  BY <1>6 DEF NoPing
<1>7. CASE Pinged
  <2>1. PICK F \in Failures :
          IF F = {} THEN dog' = "sleep" /\ target' = {}
                    ELSE dog' = "drop" /\ target' = F
    BY <1>7 DEF Pinged
  <2>2. F \subseteq target
    BY DEF Failures, Silent
  <2> QED
    BY <1>7, <2>1, <2>2 DEF Pinged
<1>8. CASE Dropped
  BY <1>8, WithoutType DEF Dropped
<1> QED
  BY <1>1, <1>2, <1>3, <1>4, <1>5, <1>6, <1>7, <1>8 DEF WatchdogStep

\* A failure, or a change in the world.
LEMMA EnvironmentIInv == ListenerIInv /\ Environment => ListenerIInv'
<1> SUFFICES ASSUME ListenerIInv, Environment PROVE ListenerIInv'
  OBVIOUS
<1> USE DEF ListenerIInv, ListenerTypeOK, GroupHasManager, RunStates, DogStates,
            listenerVars, envVars, mgrVars, dogVars, endVars
<1>1. CASE RefreshRaises
  BY <1>1 DEF RefreshRaises
<1>2. CASE StreamEnds
  BY <1>2 DEF StreamEnds
<1>3. CASE ChildRaises
  BY <1>3, UnsubscribedType DEF ChildRaises, GroupEnds
<1>4. CASE CloseRaises
  BY <1>4 DEF CloseRaises
<1>5. CASE StrayCancel
  BY <1>5, UnsubscribedType DEF StrayCancel, GroupEnds
<1>6. CASE AttachRaises
  <2>1. conn' \in [RelayUrls -> ConnStates]
    BY <1>6 DEF AttachRaises, ConnStates
  <2> QED
    BY <1>6, <2>1 DEF AttachRaises, AfterAttach, DogStep, DogFrame
<1>7. CASE RequestRestart
  BY <1>7 DEF RequestRestart
<1>8. CASE WantedChanges
  <2>1. /\ restart' \in BOOLEAN /\ wanted' \subseteq RelayUrls
        /\ restart' => restart \/ runAt = "serving"
    BY <1>8 DEF WantedChanges
  <2>2. UNCHANGED <<up, calm, runAt, mgrVars, stream, dogVars, endVars>>
    BY <1>8 DEF WantedChanges
  <2>3. GroupHasManager'
    BY <2>2
  <2>4. ListenerTypeOK'
    BY <2>1, <2>2
  <2> QED
    BY <2>3, <2>4
<1>9. CASE RelaysChange
  BY <1>9 DEF RelaysChange
<1>10. CASE CalmsDown
  BY <1>10 DEF CalmsDown
<1>11. CASE \E r \in RelayUrls : ConnectionBreaks(r)
  <2>1. conn' \in [RelayUrls -> ConnStates]
    BY <1>11 DEF ConnectionBreaks, ConnStates
  <2> QED
    BY <1>11, <2>1 DEF ConnectionBreaks
<1> QED
  BY <1>1, <1>2, <1>3, <1>4, <1>5, <1>6, <1>7, <1>8, <1>9, <1>10, <1>11
  DEF Environment

\* Stopping and exiting only ever take the group away.
LEMMA EndIInv ==
  ListenerIInv /\ (StopServer \/ StopClosed \/ StopCancels \/ ProcessExits) => ListenerIInv'
<1> SUFFICES ASSUME ListenerIInv, StopServer \/ StopClosed \/ StopCancels \/ ProcessExits
             PROVE ListenerIInv'
  OBVIOUS
<1> USE DEF ListenerIInv, ListenerTypeOK, GroupHasManager, RunStates, DogStates,
            listenerVars, envVars, mgrVars, dogVars, endVars
<1>1. CASE StopServer
  BY <1>1 DEF StopServer
<1>2. CASE StopClosed
  BY <1>2 DEF StopClosed, NoConn, ConnStates
<1>3. CASE StopCancels
  BY <1>3 DEF StopCancels, RunCancelled, GroupEnds
<1>4. CASE ProcessExits
  BY <1>4 DEF ProcessExits, RunCancelled, GroupEnds
<1> QED
  BY <1>1, <1>2, <1>3, <1>4

\* Every reachable state satisfies the invariant.
THEOREM InductiveInvariant == ListenerSpec => []ListenerIInv
<1>1. ListenerIInv /\ [ListenerNext]_listenerVars => ListenerIInv'
  <2> SUFFICES ASSUME ListenerIInv, [ListenerNext]_listenerVars PROVE ListenerIInv'
    OBVIOUS
  <2>1. CASE ListenerNext
    BY <2>1, RunIInv, WatchdogIInv, EnvironmentIInv, EndIInv DEF ListenerNext
  <2>2. CASE UNCHANGED listenerVars
    BY <2>2 DEF ListenerIInv, ListenerTypeOK, GroupHasManager, listenerVars, envVars,
                mgrVars, dogVars, endVars
  <2> QED
    BY <2>1, <2>2
<1> QED
  BY ListenerInitIInv, <1>1, PTL DEF ListenerSpec

\* The state has its types, and no child of the group outlives it.
THEOREM ListenerTypes == ListenerSpec => []ListenerTypeOK
<1>1. ListenerIInv => ListenerTypeOK
  BY DEF ListenerIInv
<1> QED
  BY InductiveInvariant, <1>1, PTL

\* The coroutines of the group never meet a missing or unconnected manager.
THEOREM GroupAlwaysHasManager == ListenerSpec => []GroupHasManager
<1>1. ListenerIInv => GroupHasManager
  BY DEF ListenerIInv
<1> QED
  BY InductiveInvariant, <1>1, PTL

\* What may become of an open subscription in one step.
StreamStep ==
  calm /\ stream = "open" =>
    stream' = "open" \/ restart \/ stop # "no" \/ exiting'

\* The watchdog never ends the subscription, and neither does anything else
\* but a restart, a stop or an exit, once failures have ceased.  It rests on
\* the invariant: without a group there is no open subscription to lose.
THEOREM StreamIsKept == ListenerSpec => StreamKept
<1>1. ListenerTypeOK /\ [ListenerNext]_listenerVars => StreamStep
  <2> SUFFICES ASSUME ListenerTypeOK, [ListenerNext]_listenerVars, calm, stream = "open"
               PROVE  stream' = "open" \/ restart \/ stop # "no" \/ exiting'
    BY DEF StreamStep
  <2>0. runAt = "serving"
    BY DEF ListenerTypeOK
  <2>1. CASE RunStep
    BY <2>0, <2>1 DEF RunStep, Gate, Refresh, Reclosed, ManagerConnected, Resume,
       Subscribe, ManagerClosed, Restarted
  <2>2. CASE WatchdogStep
    BY <2>0, <2>2 DEF WatchdogStep, Prune, Pruned, Check, Attach, Ping, NoPing,
       Pinged, Dropped, StreamAfter, Refreshes
  <2>3. CASE Environment
    BY <2>0, <2>3 DEF Environment, RefreshRaises, StreamEnds, ChildRaises,
       CloseRaises, StrayCancel, AttachRaises, RequestRestart, WantedChanges,
       RelaysChange, CalmsDown, ConnectionBreaks
  <2>4. CASE StopServer \/ StopClosed \/ StopCancels
    BY <2>4 DEF StopServer, StopClosed, StopCancels
  <2>5. CASE ProcessExits
    BY <2>5 DEF ProcessExits
  <2>6. CASE UNCHANGED listenerVars
    BY <2>6 DEF listenerVars
  <2> QED
    BY <2>1, <2>2, <2>3, <2>4, <2>5, <2>6 DEF ListenerNext
<1>2. StreamStep => (calm /\ stream = "open" =>
        stream' = "open" \/ restart \/ stop # "no" \/ exiting')
  BY DEF StreamStep
<1> QED
  BY ListenerTypes, <1>1, <1>2, PTL DEF ListenerSpec, StreamKept

-----------------------------------------------------------------------------
(* The self-test.                                                          *)

\* How old the registration of an attempt may be at each of its awaits.
InBudget(p) ==
  /\ pc[p] = "unused" => age[p] = 0 /\ ~trace[p] /\ wire[p] = None
  /\ pc[p] = "connecting" => age[p] + left[p] <= Timeout /\ wire[p] = None
  /\ pc[p] = "settling" => age[p] + left[p] <= Timeout + Settle /\ wire[p] = None
  /\ pc[p] = "publishing" => age[p] + left[p] <= 2 * Timeout + Settle
  /\ pc[p] = "waiting" => age[p] + left[p] <= 3 * Timeout + Settle

\* An answer that was forwarded in time is with the reader, and an attempt that
\* waits for it has time to look.
Listens(p) ==
  /\ pc[p] \in Timed \cup {"unused"} => outcome[p] = None
  /\ pc[p] = "publishing" /\ wire[p] = "forwarded" => heard[p] \in {"arrived", "held"}
  /\ pc[p] = "waiting" /\ wire[p] = "forwarded" => left[p] > 0 /\ heard[p] # None

\* An attempt that is of no run any more was left behind by one, or is a cancelled
\* one that has only to close; the offer of any other was not removed before a run
\* completed.
Owned(p) ==
  /\ by[p] = None /\ pc[p] \in Timed \cup {"closing"} =>
       orphaned \/ (pc[p] = "closing" /\ outcome[p] = "cancelled")
  /\ by[p] # None => store[offer[p]] # "swept"

\* The run that is under way is the one that new callers would join.
Joinable == \A c \in Callers : Active(c) => checkTask = c

\* The invariant.
IInv ==
  /\ TypeOK
  /\ \A p \in Payers : InBudget(p) /\ Listens(p) /\ Owned(p)
  /\ RecognisedInTime /\ NoAnswerMissed /\ RemovedForgotten /\ Joinable

\* Nobody is called "none" or "returning".
LEMMA Names == "none" \notin Callers /\ "none" \notin Offers /\ "returning" \notin Callers
BY SelfTestAssumption

\* The first state.
LEMMA InitIInv == Init => IInv
<1> SUFFICES ASSUME Init PROVE IInv
  OBVIOUS
<1> USE SelfTestAssumption, Names DEF Init, None
<1>1. TypeOK
  <2>1. /\ store \in [Offers -> {"live", "gone", "swept"}] /\ results \subseteq Offers
        /\ run \in [Callers -> {None, "running", "raising", "cancelling", "over"}]
        /\ call \in [Callers -> Callers \cup {None, "returning"}]
        /\ pc \in [Payers -> States] /\ offer \in [Payers -> Offers \cup {None}]
        /\ by \in [Payers -> Callers \cup {None}]
    BY DEF States
  <2>2. /\ outcome \in [Payers -> {None, "silent", "unsent", "other", "cancelled"}]
        /\ left \in [Payers -> Nat] /\ age \in [Payers -> 0..TTL]
        /\ wire \in [Payers -> {None, "request", "answer", "forwarded", "lost"}]
        /\ heard \in [Payers -> {None, "arrived", "held", "read"}]
        /\ trace \in [Payers -> BOOLEAN]
    OBVIOUS
  <2>3. \A c \in Callers : call[c] = "none" /\ run[c] = "none" /\ c # "none"
    OBVIOUS
  <2>4. \A p \in Payers : by[p] = "none" /\ offer[p] = "none" /\ pc[p] = "unused"
    OBVIOUS
  <2> HIDE DEF Init
  <2>5. checkTask \in Callers \cup {None} /\ orphaned \in BOOLEAN
    BY DEF Init
  <2> QED
    BY <2>1, <2>2, <2>3, <2>4, <2>5 DEF TypeOK, Active, Timed
<1>2. \A p \in Payers : InBudget(p) /\ Listens(p) /\ Owned(p)
  BY DEF InBudget, Listens, Owned, Timed
<1> QED
  BY <1>1, <1>2 DEF IInv, RecognisedInTime, NoAnswerMissed, RemovedForgotten, Joinable, Active

\* A run begins: it is the only one, and its attempts are fresh.
LEMMA BeginIInv ==
  ASSUME IInv, NEW c \in Callers, NEW asked \in SUBSET Offers, Begin(c, asked)
  PROVE  IInv'
<1> USE SelfTestAssumption, Names
    DEF IInv, TypeOK, Active, None, offerVars, runVars, testVars, farVars
<1> DEFINE S == (asked \cap Live) \ Overlong
<1>1. PICK payer \in [S -> {p \in Payers : pc[p] = "unused"}] :
        /\ \A o, q \in S : payer[o] = payer[q] => o = q
        /\ pc' = [p \in Payers |-> IF p \in {payer[o] : o \in S} THEN "connecting" ELSE pc[p]]
        /\ left' = [p \in Payers |-> IF p \in {payer[o] : o \in S} THEN Timeout ELSE left[p]]
        /\ by' = [p \in Payers |-> IF p \in {payer[o] : o \in S} THEN c ELSE by[p]]
        /\ offer' = [p \in Payers |-> IF p \in {payer[o] : o \in S}
                                      THEN CHOOSE o \in S : payer[o] = p ELSE offer[p]]
  BY DEF Begin
<1>2. \A p \in Payers : p \in {payer[o] : o \in S} => pc[p] = "unused" /\ offer'[p] \in S
  BY <1>1
<1>3. S \subseteq Offers /\ \A o \in S : store[o] = "live"
  BY DEF Live
<1>4. \A d \in Callers : ~Active(d)
  BY DEF Begin, Joinable
<1>5. \A p \in Payers : by[p] = None
  BY <1>4
<1>6. /\ run'[c] \in {"running", "raising"} /\ call'[c] = c /\ checkTask' = c
      /\ \A d \in Callers \ {c} : run'[d] = run[d] /\ call'[d] = call[d]
      /\ run' \in [Callers -> {None, "running", "raising", "cancelling", "over"}]
      /\ call' \in [Callers -> Callers \cup {None, "returning"}]
      /\ UNCHANGED <<store, results, orphaned, outcome, age, wire, heard, trace>>
  BY DEF Begin
<1> HIDE DEF S
<1>7. TypeOK'
  <2>1. /\ pc' \in [Payers -> States] /\ left' \in [Payers -> Nat]
        /\ by' \in [Payers -> Callers \cup {None}]
        /\ offer' \in [Payers -> Offers \cup {None}]
    BY <1>1, <1>2, <1>3 DEF States, Timed
  <2>2. ASSUME NEW d \in Callers
        PROVE  /\ Active(d)' <=> (call'[d] = d)
               /\ run'[d] = "over" => call'[d] = "returning"
               /\ call'[d] \in Callers => Active(call[d])'
    <3>1. CASE d = c
      <4>1. run'[d] \in {"running", "raising"} /\ call'[d] = d
        BY <1>6, <3>1
      <4>2. run'[d] # "over" /\ Active(d)'
        BY <4>1
      <4> HIDE DEF IInv, TypeOK
      <4> QED
        BY <4>1, <4>2
    <3>2. CASE d # c
      <4>1. /\ run'[d] = run[d] /\ call'[d] = call[d] /\ ~Active(d) /\ call[d] # d
            /\ call[d] \notin Callers
            /\ run[d] = "over" => call[d] = "returning"
        BY <1>4, <1>6, <3>2
      <4> QED
        BY <4>1
    <3> QED
      BY <3>1, <3>2
  <2>3. ASSUME NEW p \in Payers
        PROVE  /\ by'[p] # None => pc'[p] # "unused" /\ Active(by[p])'
               /\ offer'[p] # None <=> by'[p] # None \/ pc'[p] \in Timed \cup {"closing"}
    <3>1. CASE p \in {payer[o] : o \in S}
      <4>1. by'[p] = c /\ pc'[p] = "connecting"
        BY <1>1, <3>1
      <4>2. offer'[p] # None /\ c # None
        BY <1>2, <1>3, <3>1
      <4>3. Active(c)'
        BY <1>6
      <4> HIDE DEF IInv, TypeOK, None
      <4> QED
        BY <4>1, <4>2, <4>3 DEF Timed
    <3>2. CASE p \notin {payer[o] : o \in S}
      <4>1. by'[p] = None /\ by[p] = None /\ pc'[p] = pc[p] /\ offer'[p] = offer[p]
        BY <1>1, <1>5, <3>2
      <4>2. offer[p] # None <=> by[p] # None \/ pc[p] \in Timed \cup {"closing"}
        OBVIOUS
      <4> QED
        BY <4>1, <4>2
    <3> QED
      BY <3>1, <3>2
  <2>4. by' \in [Payers -> Callers \cup {None}] /\ checkTask' \in Callers \cup {None}
    BY <1>6, <2>1
  <2>5. /\ store' \in [Offers -> {"live", "gone", "swept"}] /\ results' \subseteq Offers
        /\ orphaned' \in BOOLEAN /\ age' \in [Payers -> 0..TTL]
        /\ outcome' \in [Payers -> {None, "silent", "unsent", "other", "cancelled"}]
        /\ wire' \in [Payers -> {None, "request", "answer", "forwarded", "lost"}]
        /\ heard' \in [Payers -> {None, "arrived", "held", "read"}]
        /\ trace' \in [Payers -> BOOLEAN]
    BY <1>6
  <2> HIDE DEF IInv, None
  <2> QED
    BY <1>6, <2>1, <2>2, <2>3, <2>4, <2>5
<1>8. \A p \in Payers : InBudget(p)' /\ Listens(p)'
  BY <1>1, <1>2, <1>6 DEF InBudget, Listens, Timed
<1>9. \A p \in Payers : Owned(p)'
  BY <1>1, <1>2, <1>3, <1>5, <1>6 DEF Owned, Timed
<1>10. RecognisedInTime' /\ NoAnswerMissed' /\ RemovedForgotten' /\ Joinable'
  BY <1>1, <1>2, <1>4, <1>6 DEF RecognisedInTime, NoAnswerMissed, RemovedForgotten, Joinable
<1> QED
  BY <1>7, <1>8, <1>9, <1>10

\* A run ends: nobody waits for it any more, and it is still the one that
\* _check_task names.
LEMMA CompletesIInv ==
  ASSUME IInv, NEW c \in Callers, Active(c), Completes(c),
         store' \in [Offers -> {"live", "gone", "swept"}], results' \subseteq Offers,
         orphaned' \in BOOLEAN, RemovedForgotten',
         \A p \in Payers : by[p] = c /\ pc[p] \in Timed \cup {"closing"} =>
             orphaned' \/ (pc[p] = "closing" /\ outcome[p] = "cancelled"),
         orphaned => orphaned'
  PROVE  IInv'
<1> USE SelfTestAssumption, Names
    DEF IInv, TypeOK, Active, None, Completes, offerVars, runVars, testVars, farVars
<1>1. \A d \in Callers : Active(d) => d = c
  BY DEF Joinable
<1>2. /\ \A d \in Callers : ~Active(d)'
      /\ \A d \in Callers : call'[d] \in {None, "returning"}
      /\ \A p \in Payers : by'[p] = None
  BY <1>1
<1>3. TypeOK'
  <2>1. /\ run' \in [Callers -> {None, "running", "raising", "cancelling", "over"}]
        /\ call' \in [Callers -> Callers \cup {None, "returning"}]
        /\ by' \in [Payers -> Callers \cup {None}]
        /\ offer' \in [Payers -> Offers \cup {None}]
        /\ outcome' \in [Payers -> {None, "silent", "unsent", "other", "cancelled"}]
    OBVIOUS
  <2>2. \A d \in Callers : run'[d] = "over" => call'[d] = "returning"
    BY <1>1
  <2>3. \A p \in Payers : offer'[p] # None <=> pc'[p] \in Timed \cup {"closing"}
    <3> SUFFICES ASSUME NEW p \in Payers
                 PROVE  offer'[p] # None <=> pc'[p] \in Timed \cup {"closing"}
      OBVIOUS
    <3>1. by[p] \in {c, None}
      BY <1>1
    <3>2. by[p] = c => pc[p] # "unused"
      OBVIOUS
    <3> QED
      BY <3>1, <3>2 DEF States, Timed
  <2> QED
    BY <1>2, <2>1, <2>2, <2>3
<1>4. \A p \in Payers : InBudget(p)' /\ Listens(p)'
  BY DEF InBudget, Listens, Timed
<1>5. \A p \in Payers : Owned(p)'
  BY <1>1, <1>2 DEF Owned, Timed
<1>6. RecognisedInTime' /\ NoAnswerMissed' /\ Joinable'
  BY <1>2 DEF RecognisedInTime, NoAnswerMissed, Joinable
<1> QED
  BY <1>3, <1>4, <1>5, <1>6

\* The other things a caller does.
LEMMA CallerIInv == ASSUME IInv, NEW c \in Callers, CallerStep(c) PROVE IInv'
<1> USE SelfTestAssumption, Names
    DEF IInv, TypeOK, Active, None, RecognisedInTime, NoAnswerMissed, RemovedForgotten,
        Joinable, offerVars, runVars, testVars, farVars
<1>1. CASE Join(c)
  BY <1>1 DEF Join, InBudget, Listens, Owned
<1>2. ASSUME NEW asked \in SUBSET Offers, Begin(c, asked) PROVE IInv'
  BY <1>2, BeginIInv
<1>3. CASE RunEnds(c)
  <2>1. /\ Active(c) /\ Completes(c) /\ orphaned' = orphaned
        /\ \A p \in Payers : by[p] = c => pc[p] = "over"
    BY <1>3 DEF RunEnds
  <2>2. /\ store' \in [Offers -> {"live", "gone", "swept"}] /\ results' \subseteq Offers
        /\ RemovedForgotten'
    BY <1>3 DEF RunEnds, Kept
  <2> QED
    BY <2>1, <2>2, CompletesIInv DEF Timed
<1>4. CASE RunRaises(c)
  <2>1. /\ Active(c) /\ Completes(c) /\ UNCHANGED <<store, results>>
        /\ orphaned' = (orphaned \/ \E p \in Payers :
                            by[p] = c /\ pc[p] # "over" /\ outcome[p] # "cancelled")
    BY <1>4 DEF RunRaises
  <2>2. \A p \in Payers : by[p] = c /\ pc[p] \in Timed \cup {"closing"} =>
            orphaned' \/ (pc[p] = "closing" /\ outcome[p] = "cancelled")
    BY <2>1 DEF Listens, Timed
  <2>3. RemovedForgotten'
    BY <2>1
  <2> QED
    BY <2>1, <2>2, <2>3, CompletesIInv
<1>5. CASE Return(c)
  BY <1>5 DEF Return, Cleared, InBudget, Listens, Owned
<1>6. CASE CancelOwner(c)
  <2> DEFINE Hits(H) ==
        /\ pc' = [p \in Payers |-> IF p \notin H THEN pc[p]
                                   ELSE IF pc[p] \in Timed THEN "closing" ELSE "over"]
        /\ outcome' = [p \in Payers |-> IF p \in H THEN "cancelled" ELSE outcome[p]]
        /\ left' = [p \in Payers |-> IF p \in H THEN 0 ELSE left[p]]
        /\ age' = [p \in Payers |-> IF p \in H /\ pc[p] \notin Timed THEN 0 ELSE age[p]]
        /\ heard' = [p \in Payers |-> IF p \in H THEN None ELSE heard[p]]
        /\ wire' = [p \in Payers |-> IF p \in H THEN Leftover(p) ELSE wire[p]]
  <2>0. PICK deaf \in SUBSET {p \in Payers : pc[p] = "closing" /\ outcome[p] = "unsent"} :
          Hits({p \in Payers \ deaf : by[p] = c /\ pc[p] # "over"})
    BY <1>6 DEF CancelOwner
  <2> DEFINE H == {p \in Payers \ deaf : by[p] = c /\ pc[p] # "over"}
  <2>1. Hits(H) /\ H \subseteq Payers /\ \A p \in H : by[p] = c /\ pc[p] # "over"
    BY <2>0
  <2> HIDE DEF H
  <2>2. /\ call[c] = c /\ run[c] = "running" /\ run' = [run EXCEPT ![c] = "cancelling"]
        /\ UNCHANGED <<store, results, checkTask, call, orphaned, offer, by, trace>>
    BY <1>6 DEF CancelOwner
  <2>3. \A p \in H : pc[p] \in Timed \cup {"closing"}
    BY <2>1 DEF States
  <2>4. \A p \in Payers : Leftover(p) \in {"request", "lost"}
    BY DEF Leftover
  <2>5. /\ pc' \in [Payers -> States] /\ left' \in [Payers -> Nat]
        /\ outcome' \in [Payers -> {None, "silent", "unsent", "other", "cancelled"}]
        /\ age' \in [Payers -> 0..TTL]
        /\ heard' \in [Payers -> {None, "arrived", "held", "read"}]
        /\ wire' \in [Payers -> {None, "request", "answer", "forwarded", "lost"}]
    BY <2>1, <2>4 DEF States, Timed
  <2>6. \A p \in Payers :
          /\ p \notin H => /\ pc'[p] = pc[p] /\ outcome'[p] = outcome[p]
                           /\ left'[p] = left[p] /\ age'[p] = age[p]
                           /\ heard'[p] = heard[p] /\ wire'[p] = wire[p]
          /\ p \in H => /\ pc'[p] = IF pc[p] \in Timed THEN "closing" ELSE "over"
                        /\ outcome'[p] = "cancelled"
    BY <2>1
  <2> HIDE DEF Hits
  <2>7. TypeOK'
    BY <2>1, <2>2, <2>3, <2>5, <2>6 DEF Timed
  <2>8. \A p \in Payers : InBudget(p)' /\ Listens(p)' /\ Owned(p)'
    BY <2>1, <2>2, <2>3, <2>6 DEF InBudget, Listens, Owned, Timed
  <2>9. RecognisedInTime' /\ NoAnswerMissed' /\ RemovedForgotten' /\ Joinable'
    BY <2>2, <2>6
  <2> QED
    BY <2>7, <2>8, <2>9
<1>7. CASE CancelJoiner(c)
  BY <1>7 DEF CancelJoiner, InBudget, Listens, Owned
<1> QED
  BY <1>1, <1>2, <1>3, <1>4, <1>5, <1>6, <1>7 DEF CallerStep

\* What an attempt does.  One whose limit is up has no answer to look at.
LEMMA TestIInv == ASSUME IInv, NEW p \in Payers, TestStep(p) PROVE IInv'
<1> USE SelfTestAssumption, Names
    DEF IInv, TypeOK, Active, None, RecognisedInTime, NoAnswerMissed, RemovedForgotten,
        Joinable, InBudget, Listens, Owned, offerVars, runVars, testVars, farVars,
        States, Timed
<1>1. ASSUME NEW result \in {"silent", "unsent", "other"}, Concludes(p, result),
             pc[p] \in {"connecting", "publishing", "waiting"},
             result = "silent" => wire[p] # "forwarded"
      PROVE  IInv'
  BY <1>1 DEF Concludes, Leftover
<1>2. CASE Connected(p)
  BY <1>2 DEF Connected, Goes
<1>3. CASE PublishStarts(p)
  BY <1>3 DEF PublishStarts, Goes
<1>4. CASE Sends(p)
  BY <1>4 DEF Sends
<1>5. CASE Published(p)
  BY <1>5 DEF Published, Goes
<1>6. CASE Receives(p)
  BY <1>6 DEF Receives, Takes
<1>7. CASE Matches(p)
  BY <1>7 DEF Matches
<1>8. CASE Closed(p)
  BY <1>8 DEF Closed, Leftover
<1>9. TimesOut(p) => IInv'
  BY <1>1 DEF TimesOut
<1>10. ConnectFails(p) \/ PublishFails(p) \/ Answered(p) \/ Breaks(p) => IInv'
  BY <1>1 DEF ConnectFails, PublishFails, Answered, Breaks
<1> QED
  BY <1>2, <1>3, <1>4, <1>5, <1>6, <1>7, <1>8, <1>9, <1>10 DEF TestStep

\* What the relay and the service do.  An attempt that still has time is younger
\* than its registration, so the service recognises it.
LEMMA FarIInv == ASSUME IInv, NEW p \in Payers, FarStep(p) PROVE IInv'
<1> USE SelfTestAssumption, Names
    DEF IInv, TypeOK, Active, None, RecognisedInTime, NoAnswerMissed, RemovedForgotten,
        Joinable, InBudget, Listens, Owned, offerVars, runVars, testVars, farVars,
        States, Timed
<1>1. CASE Forward(p)
  BY <1>1 DEF Forward, Subscribed, InTime
<1>2. CASE Lose(p)
  BY <1>2 DEF Lose
<1>3. CASE Handle(p)
  <2>1. pc[p] \in Timed => Registered(p)
    BY <1>3 DEF Handle, Registered
  <2> QED
    BY <1>3, <2>1 DEF Handle
<1> QED
  BY <1>1, <1>2, <1>3 DEF FarStep

\* Removals and the passing of time, which waits for a reader that has something
\* to look at.
LEMMA RestIInv == ASSUME IInv, (\E o \in Offers : Remove(o)) \/ Tick \/ UNCHANGED vars PROVE IInv'
<1> USE SelfTestAssumption, Names
    DEF IInv, TypeOK, Active, None, RecognisedInTime, NoAnswerMissed, RemovedForgotten,
        Joinable, offerVars, runVars, testVars, farVars
<1>1. CASE \E o \in Offers : Remove(o)
  BY <1>1 DEF Remove, InBudget, Listens, Owned
<1>2. CASE Tick
  <2>1. \A p \in Payers : InBudget(p)'
    BY <1>2 DEF Tick, InBudget, Timed, States
  <2>2. left' \in [Payers -> Nat] /\ age' \in [Payers -> 0..TTL]
    BY <1>2 DEF Tick, Timed
  <2>3. \A p \in Payers : Listens(p)'
    BY <1>2 DEF Tick, Listens, Timed, Readable
  <2>4. \A p \in Payers : Owned(p)'
    BY <1>2 DEF Tick, Owned
  <2> QED
    BY <1>2, <2>1, <2>2, <2>3, <2>4 DEF Tick
<1>3. CASE UNCHANGED vars
  BY <1>3 DEF vars, InBudget, Listens, Owned
<1> QED
  BY <1>1, <1>2, <1>3

\* The invariant holds.
LEMMA InvariantHolds == Spec => []IInv
<1>1. IInv /\ [Next]_vars => IInv'
  BY CallerIInv, TestIInv, FarIInv, RestIInv DEF Next
<1> QED
  BY <1>1, InitIInv, PTL DEF Spec

\* Types of the self-test's state.
THEOREM TypeCorrect == Spec => []TypeOK
BY InvariantHolds, PTL DEF IInv

\* While a test is under way the service recognises it, whatever the limits of its
\* steps, if together they are shorter than the registration.
THEOREM AlwaysRecognised == Spec => []RecognisedInTime
BY InvariantHolds, PTL DEF IInv

\* An answer that came in time is read, also one that came before its id: time
\* does not pass while the reader has something to look at, and what it holds is
\* looked at as soon as the id is known.
THEOREM AnswersAreHeard == Spec => []NoAnswerMissed
BY InvariantHolds, PTL DEF IInv

\* One run at a time, with any number of callers and cancellations; and what is
\* under way is of that run, until a run has ended before its attempts.
THEOREM RunsDoNotOverlap == Spec => []OneRun
<1>1. IInv => OneRun
  BY DEF IInv, OneRun, Joinable, Owned, Timed
<1> QED
  BY <1>1, InvariantHolds, PTL

\* No result outlives its offer and the next complete run, until a run has ended
\* before its attempts.
THEOREM RemovedAreForgotten == Spec => []RemovedForgotten
BY InvariantHolds, PTL DEF IInv

-----------------------------------------------------------------------------
(* The relay monitor.                                                      *)

\* The relay r was seen to fail twice, or for a whole pause.
Condemned(r) == outages[r] = 2 \/ outage[r] = Pause

\* While a run waits for the second probe of a relay that has failed only once, the
\* relay has either recovered or will have failed for a pause when that probe is due.
Waited(w, r) ==
  checks[w][r] = "second" /\ outages[r] # 2 =>
    outages[r] = 1 /\ (r \notin payable => outage[r] + rest[w][r] >= Pause)

\* The invariant of the monitor.
WatchIInv ==
  /\ WatchTypeOK
  /\ \A r \in Relays : r \notin payable => outages[r] # 0
  /\ ~hasty => /\ \A w \in Watchers : delay[w] # -1 => delay[w] >= Pause
               /\ \A w \in Watchers, r \in Relays :
                    Waited(w, r) /\ (checks[w][r] = "down" => Condemned(r))
               /\ \A r \in Relays : verdicts[r] = "down" => Condemned(r)

\* It holds in the first state ...
LEMMA WatchInitIInv == WatchInit => WatchIInv
<1> SUFFICES ASSUME WatchInit PROVE WatchIInv
  OBVIOUS
<1>1. WatchTypeOK
  <2>1. advertised \subseteq Relays /\ payable \subseteq Relays /\ hasty \in BOOLEAN
    BY WatchAssumption DEF WatchInit, Off, Found
  <2>2. checks \in [Watchers -> [Relays -> Found \cup {Off, "first", "second"}]]
    BY WatchAssumption DEF WatchInit, Off, Found
  <2>3. rest \in [Watchers -> [Relays -> Nat]]
    BY WatchAssumption DEF WatchInit, Off, Found
  <2>4. delay \in [Watchers -> Nat \cup {-1}]
    BY WatchAssumption DEF WatchInit, Off, Found
  <2>5. verdicts \in [Relays -> Found \cup {Off}]
    BY WatchAssumption DEF WatchInit, Off, Found
  <2>6. outage \in [Relays -> 0..Pause] /\ outages \in [Relays -> 0..2]
    BY WatchAssumption DEF WatchInit, Off, Found
  <2>7. \A v \in Watchers, r \in Relays : (rest[v][r] > 0 => checks[v][r] = "second") /\ (checks[v][r] # Off => delay[v] # -1)
    BY WatchAssumption DEF WatchInit, Off, Found
  <2> QED
    BY <2>1, <2>2, <2>3, <2>4, <2>5, <2>6, <2>7 DEF WatchTypeOK
<1> QED
  BY <1>1 DEF WatchInit, WatchIInv, Waited, Off

\* Every step keeps the types ...
LEMMA WatchTypes == WatchTypeOK /\ [WatchNext]_watchVars => WatchTypeOK'
<1> SUFFICES ASSUME WatchTypeOK, [WatchNext]_watchVars PROVE WatchTypeOK'
  OBVIOUS
<1> DEFINE
  C == checks \in [Watchers -> [Relays -> Found \cup {Off, "first", "second"}]]
  R == rest \in [Watchers -> [Relays -> Nat]]
  D == delay \in [Watchers -> Nat \cup {-1}]
  O == outage \in [Relays -> 0..Pause]
  L(v, q) == (rest[v][q] > 0 => checks[v][q] = "second") /\ (checks[v][q] # Off => delay[v] # -1)
<1>a. C /\ R /\ D /\ O /\ Pause \in Nat /\ Pauses \subseteq Nat /\ \A v \in Watchers, q \in Relays : L(v, q)
  BY WatchAssumption DEF WatchTypeOK
<1>1. ASSUME NEW w \in Watchers, NEW d \in Pauses, Watch(w, d) PROVE WatchTypeOK'
  <2>1. C' /\ D'
    BY <1>1, <1>a DEF Watch
  <2>2. hasty' \in BOOLEAN
    BY <1>1 DEF Watch
  <2>3. \A v \in Watchers, q \in Relays : L(v, q)'
    BY <1>1, <1>a DEF Watch, Off
  <2> QED
    BY <1>1, <2>1, <2>2, <2>3 DEF Watch, WatchTypeOK
<1>2. ASSUME NEW w \in Watchers, NEW r \in Relays, FirstProbe(w, r) PROVE WatchTypeOK'
  <2>1. delay[w] \in Nat
    BY <1>2, <1>a DEF FirstProbe, Passes, Off
  <2>2. C'
    <3>1. CASE r \in payable
      <4>1. checks' = [checks EXCEPT ![w][r] = "ok"] /\ C
        BY <1>2, <1>a, <3>1 DEF FirstProbe, Passes
      <4> QED
        BY <4>1 DEF Found
    <3>2. CASE r \notin payable
      BY <1>2, <1>a, <3>2, SMTT(40) DEF FirstProbe, Passes
    <3> QED
      BY <3>1, <3>2
  <2>3. R'
    BY <1>2, <1>a, <2>1 DEF FirstProbe, Passes, SecondChance
  <2>4. ASSUME NEW v \in Watchers, NEW q \in Relays PROVE L(v, q)'
    <3>1. CASE v = w /\ q = r
      BY <1>2, <1>a, <2>1, <3>1 DEF FirstProbe, Passes, SecondChance, Off
    <3>2. CASE ~(v = w /\ q = r)
      <4>1. checks'[v][q] = checks[v][q] /\ rest'[v][q] = rest[v][q] /\ delay' = delay
        BY <1>2, <1>a, <3>2 DEF FirstProbe, Passes
      <4> QED
        BY <1>a, <4>1
    <3> QED
      BY <3>1, <3>2
  <2> QED
    BY <1>2, <2>2, <2>3, <2>4 DEF FirstProbe, Passes, WatchTypeOK
<1>3. ASSUME NEW w \in Watchers, NEW r \in Relays, SecondProbe(w, r) PROVE WatchTypeOK'
  BY <1>3, WatchAssumption DEF SecondProbe, Passes, WatchTypeOK, Off, Found
<1>4. ASSUME NEW w \in Watchers, Report(w) PROVE WatchTypeOK'
  BY <1>4, WatchAssumption, SMTT(30) DEF Report, WatchTypeOK, Off, Found
<1>5. ASSUME NEW w \in Watchers, Abandon(w) PROVE WatchTypeOK'
  BY <1>5, WatchAssumption DEF Abandon, WatchTypeOK, Off, Found
<1>6. ASSUME NEW S \in SUBSET Relays, Advertise(S) PROVE WatchTypeOK'
  BY <1>6, WatchAssumption DEF Advertise, WatchTypeOK, Off, Found
<1>7. ASSUME NEW r \in Relays, Fails(r) PROVE WatchTypeOK'
  BY <1>7, WatchAssumption DEF Fails, WatchTypeOK, Off, Found
<1>8. ASSUME NEW r \in Relays, Recovers(r) PROVE WatchTypeOK'
  BY <1>8, WatchAssumption DEF Recovers, WatchTypeOK, Off, Found
<1>9. CASE Elapse
  <2>1. ASSUME NEW q \in Relays PROVE outage'[q] \in 0..Pause
    <3>1. CASE q \in payable \/ outage[q] = Pause
      BY <1>9, <1>a, <3>1 DEF Elapse
    <3>2. CASE q \notin payable /\ outage[q] # Pause
      <4>1. outage[q] \in 0..Pause
        BY <1>a
      <4>2. outage'[q] = outage[q] + 1
        BY <1>9, <3>2 DEF Elapse
      <4>3. Pause \in Nat
        BY <1>a
      <4> QED
        BY <3>2, <4>1, <4>2, <4>3
    <3> QED
      BY <3>1, <3>2
  <2>2. R' /\ \A v \in Watchers, q \in Relays : L(v, q)'
    BY <1>9, <1>a DEF Elapse
  <2>3. O'
    BY <1>9, <2>1 DEF Elapse
  <2> QED
    BY <1>9, <2>2, <2>3 DEF Elapse, WatchTypeOK
<1>10. CASE UNCHANGED watchVars
  BY <1>10, WatchAssumption DEF watchVars, WatchTypeOK, Off, Found
<1> QED
  BY <1>1, <1>2, <1>3, <1>4, <1>5, <1>6, <1>7, <1>8, <1>9, <1>10 DEF WatchNext

\* ... and the invariant.
LEMMA WatchStep == WatchIInv /\ [WatchNext]_watchVars => WatchIInv'
<1> SUFFICES ASSUME WatchIInv, [WatchNext]_watchVars PROVE WatchIInv'
  OBVIOUS
<1> DEFINE
  Patient(v) == delay[v] # -1 => delay[v] >= Pause
  Sound(v, q) == Waited(v, q) /\ (checks[v][q] = "down" => Condemned(q))
  Failing(q) == q \notin payable => outages[q] # 0
  Told(q) == verdicts[q] = "down" => Condemned(q)
<1>0. WatchTypeOK /\ WatchTypeOK' /\ Pause \in Nat /\ Pauses \subseteq Nat
  BY WatchTypes, WatchAssumption DEF WatchIInv
<1>a. /\ \A q \in Relays : Failing(q)
      /\ ~hasty => /\ \A v \in Watchers : Patient(v)
                   /\ \A v \in Watchers, q \in Relays : Sound(v, q)
                   /\ \A q \in Relays : Told(q)
  BY DEF WatchIInv
<1>t. /\ \A v \in Watchers, q \in Relays : rest[v][q] \in Nat
      /\ \A v \in Watchers : delay[v] \in Nat \cup {-1}
      /\ \A q \in Relays : outage[q] \in 0..Pause /\ outages[q] \in 0..2
      /\ \A v \in Watchers, q \in Relays : checks[v][q] # "off" => delay[v] # -1
  BY <1>0 DEF WatchTypeOK, Off
<1>q. ASSUME \A q \in Relays : Failing(q)',
             ~hasty' => /\ \A v \in Watchers : Patient(v)'
                        /\ \A v \in Watchers, q \in Relays : Sound(v, q)'
                        /\ \A q \in Relays : Told(q)'
      PROVE  WatchIInv'
  BY <1>0, <1>q DEF WatchIInv
<1>1. ASSUME NEW w \in Watchers, NEW d \in Pauses, Watch(w, d) PROVE WatchIInv'
  <2>1. ~hasty' => ~hasty /\ d >= Pause
    <3>1. d \in Nat /\ hasty \in BOOLEAN
      BY <1>0 DEF WatchTypeOK
    <3>2. hasty' = (hasty \/ d < Pause)
      BY <1>1 DEF Watch
    <3>3. ~hasty' => ~hasty /\ ~(d < Pause)
      BY <3>1, <3>2, Zenon
    <3>4. ~(d < Pause) => d >= Pause
      BY <1>0, <3>1
    <3> QED
      BY <3>3, <3>4
  <2>2. \A v \in Watchers : delay'[v] = IF v = w THEN d ELSE delay[v]
    BY <1>1, <1>0 DEF Watch, WatchTypeOK
  <2>3. \A v \in Watchers, q \in Relays :
          checks'[v][q] = checks[v][q] \/ checks'[v][q] \in {"first", "off"}
    BY <1>1, <1>0 DEF Watch, WatchTypeOK, Off
  <2>4. \A v \in Watchers, q \in Relays : Sound(v, q) => Sound(v, q)'
    BY <1>1, <2>3 DEF Watch, Waited, Condemned
  <2>5. \A q \in Relays : (Failing(q) => Failing(q)') /\ (Told(q) => Told(q)')
    BY <1>1 DEF Watch, Condemned
  <2> QED
    BY <1>a, <1>q, <2>1, <2>2, <2>4, <2>5
<1>2. ASSUME NEW w \in Watchers, NEW r \in Relays, FirstProbe(w, r) PROVE WatchIInv'
  <2>1. hasty' = hasty /\ delay' = delay /\ UNCHANGED <<payable, outage, outages, verdicts>>
    BY <1>2 DEF FirstProbe, Passes, SecondChance
  <2>2. ASSUME NEW v \in Watchers, NEW q \in Relays, ~(v = w /\ q = r)
        PROVE  checks'[v][q] = checks[v][q] /\ rest'[v][q] = rest[v][q]
    BY <1>2, <1>0, <2>2 DEF FirstProbe, Passes, SecondChance, WatchTypeOK
  <2>3. ASSUME ~hasty PROVE Sound(w, r)'
    <3>1. delay[w] \in Nat /\ delay[w] >= Pause
      BY <1>2, <1>a, <1>t, <2>3 DEF FirstProbe, Passes
    <3>2. CASE r \in payable
      <4>1. checks'[w][r] = "ok"
        BY <1>2, <1>0, <3>2 DEF FirstProbe, Passes, WatchTypeOK
      <4> QED
        BY <4>1 DEF Waited
    <3>3. CASE r \notin payable
      <4>1. checks'[w][r] = "second" /\ rest'[w][r] = delay[w]
        BY <1>2, <1>0, <3>3 DEF FirstProbe, Passes, SecondChance, WatchTypeOK
      <4>2. outage[r] + delay[w] >= Pause /\ (outages[r] # 2 => outages[r] = 1)
        BY <1>0, <1>a, <1>t, <3>1, <3>3
      <4> QED
        BY <2>1, <4>1, <4>2 DEF Waited
    <3> QED
      BY <3>2, <3>3
  <2>4. ASSUME ~hasty, NEW v \in Watchers, NEW q \in Relays PROVE Sound(v, q)'
    <3>1. CASE v = w /\ q = r
      BY <2>3, <2>4, <3>1
    <3>2. CASE ~(v = w /\ q = r)
      BY <1>a, <2>1, <2>2, <2>4, <3>2 DEF Waited, Condemned
    <3> QED
      BY <3>1, <3>2
  <2>5. \A q \in Relays : (Failing(q) => Failing(q)') /\ (Told(q) => Told(q)')
    BY <2>1 DEF Condemned
  <2> QED
    BY <1>a, <1>q, <2>1, <2>4, <2>5
<1>3. ASSUME NEW w \in Watchers, NEW r \in Relays, SecondProbe(w, r) PROVE WatchIInv'
  <2>1. hasty' = hasty /\ delay' = delay /\ UNCHANGED <<payable, outage, outages, verdicts>>
    BY <1>3 DEF SecondProbe, Passes
  <2>2. ASSUME NEW v \in Watchers, NEW q \in Relays, ~(v = w /\ q = r)
        PROVE  checks'[v][q] = checks[v][q] /\ rest'[v][q] = rest[v][q]
    BY <1>3, <1>0, <2>2 DEF SecondProbe, Passes, WatchTypeOK
  <2>3. ASSUME ~hasty PROVE Sound(w, r)'
    <3>1. checks'[w][r] = IF r \in payable THEN "ok" ELSE "down"
      BY <1>3, <1>0 DEF SecondProbe, Passes, WatchTypeOK
    <3>2. r \notin payable /\ outages[r] # 2 => outage[r] + rest[w][r] >= Pause /\ rest[w][r] = 0
      BY <1>3, <1>a, <2>3 DEF SecondProbe, Passes, Waited
    <3>3. r \notin payable => Condemned(r)
      BY <1>0, <1>t, <3>2 DEF Condemned
    <3> QED
      BY <2>1, <3>1, <3>3 DEF Waited, Condemned
  <2>4. ASSUME ~hasty, NEW v \in Watchers, NEW q \in Relays PROVE Sound(v, q)'
    <3>1. CASE v = w /\ q = r
      BY <2>3, <2>4, <3>1
    <3>2. CASE ~(v = w /\ q = r)
      BY <1>a, <2>1, <2>2, <2>4, <3>2 DEF Waited, Condemned
    <3> QED
      BY <3>1, <3>2
  <2>5. \A q \in Relays : (Failing(q) => Failing(q)') /\ (Told(q) => Told(q)')
    BY <2>1 DEF Condemned
  <2> QED
    BY <1>a, <1>q, <2>1, <2>4, <2>5
<1>4. ASSUME NEW w \in Watchers, Report(w) PROVE WatchIInv'
  <2>1. \A v \in Watchers, q \in Relays : checks'[v][q] = checks[v][q] \/ checks'[v][q] = "off"
    BY <1>4, <1>0 DEF Report, WatchTypeOK, Off
  <2>2. \A v \in Watchers, q \in Relays : Sound(v, q) => Sound(v, q)'
    BY <1>4, <2>1 DEF Report, Waited, Condemned
  <2>3. \A q \in Relays : (Failing(q) => Failing(q)') /\ (Sound(w, q) => Told(q)')
    BY <1>4 DEF Report, Condemned
  <2>4. hasty' = hasty /\ \A v \in Watchers : delay'[v] = delay[v] \/ delay'[v] = -1
    BY <1>4, <1>0 DEF Report, WatchTypeOK
  <2> QED
    BY <1>a, <1>q, <2>2, <2>3, <2>4
<1>5. ASSUME NEW w \in Watchers, Abandon(w) PROVE WatchIInv'
  <2>1. \A v \in Watchers, q \in Relays :
          \/ checks'[v][q] = checks[v][q] /\ rest'[v][q] = rest[v][q]
          \/ checks'[v][q] = "off"
    BY <1>5, <1>0 DEF Abandon, WatchTypeOK, Off
  <2>2. \A v \in Watchers, q \in Relays : Sound(v, q) => Sound(v, q)'
    BY <1>5, <2>1 DEF Abandon, Waited, Condemned
  <2>3. \A q \in Relays : (Failing(q) => Failing(q)') /\ (Told(q) => Told(q)')
    BY <1>5 DEF Abandon, Condemned
  <2>4. hasty' = hasty /\ \A v \in Watchers : delay'[v] = delay[v] \/ delay'[v] = -1
    BY <1>5, <1>0 DEF Abandon, WatchTypeOK
  <2> QED
    BY <1>a, <1>q, <2>2, <2>3, <2>4
<1>6. ASSUME NEW S \in SUBSET Relays, Advertise(S) PROVE WatchIInv'
  BY <1>6, <1>0, <1>a DEF Advertise, WatchIInv, Waited, Condemned
<1>7. ASSUME NEW r \in Relays, Fails(r) PROVE WatchIInv'
  <2>1. \A q \in Relays : Condemned(q) => Condemned(q)'
    BY <1>7, <1>0 DEF Fails, Condemned, WatchTypeOK
  <2>2. \A q \in Relays : IF q = r THEN outages'[q] = 2 \/ (outages[q] = 0 /\ outages'[q] = 1)
                           ELSE outages'[q] = outages[q] /\ outage'[q] = outage[q]
    BY <1>7, <1>t, <1>0 DEF Fails, WatchTypeOK
  <2>3. \A v \in Watchers, q \in Relays : Sound(v, q) => Sound(v, q)'
    BY <1>7, <1>t, <2>1, <2>2 DEF Fails, Waited
  <2>4. \A q \in Relays : (Failing(q) => Failing(q)') /\ (Told(q) => Told(q)')
    BY <1>7, <2>1, <2>2 DEF Fails
  <2>5. hasty' = hasty /\ delay' = delay
    BY <1>7 DEF Fails
  <2> QED
    BY <1>a, <1>q, <2>3, <2>4, <2>5
<1>8. ASSUME NEW r \in Relays, Recovers(r) PROVE WatchIInv'
  BY <1>8, <1>0, <1>a DEF Recovers, WatchIInv, Waited, Condemned
<1>9. CASE Elapse
  <2>1. ASSUME NEW q \in Relays
        PROVE  /\ outage'[q] >= outage[q] /\ outage'[q] \in 0..Pause
               /\ (q \notin payable => outage'[q] = Pause \/ outage'[q] = outage[q] + 1)
    <3>1. CASE q \in payable \/ outage[q] = Pause
      BY <1>9, <1>t, <1>0, <3>1 DEF Elapse
    <3>2. CASE q \notin payable /\ outage[q] # Pause
      <4>1. outage[q] \in 0..Pause
        BY <1>t
      <4>2. outage'[q] = outage[q] + 1
        BY <1>9, <3>2 DEF Elapse
      <4> QED
        BY <1>0, <3>2, <4>1, <4>2
    <3> QED
      BY <3>1, <3>2
  <2>2. \A v \in Watchers, q \in Relays : rest'[v][q] \in Nat /\ rest'[v][q] >= rest[v][q] - 1
    BY <1>9, <1>t, SMTT(30) DEF Elapse
  <2>3. \A q \in Relays : Condemned(q) => Condemned(q)'
    BY <1>9, <1>t, <1>0, <2>1 DEF Elapse, Condemned
  <2>4. ASSUME NEW v \in Watchers, NEW q \in Relays, Waited(v, q) PROVE Waited(v, q)'
    <3>1. q \notin payable /\ outage[q] + rest[v][q] >= Pause => outage'[q] + rest'[v][q] >= Pause
      BY <1>0, <1>t, <2>1, <2>2
    <3> QED
      BY <1>9, <2>4, <3>1 DEF Waited, Elapse
  <2>5. \A q \in Relays : (Failing(q) => Failing(q)') /\ (Told(q) => Told(q)')
    BY <1>9, <2>3 DEF Elapse
  <2>6. hasty' = hasty /\ delay' = delay /\ checks' = checks
    BY <1>9 DEF Elapse
  <2> QED
    BY <1>a, <1>q, <2>3, <2>4, <2>5, <2>6
<1>10. CASE UNCHANGED watchVars
  BY <1>10, <1>0, <1>a DEF watchVars, WatchIInv, Waited, Condemned
<1> QED
  BY <1>1, <1>2, <1>3, <1>4, <1>5, <1>6, <1>7, <1>8, <1>9, <1>10 DEF WatchNext

\* A blip is never flagged, for any number of relays, runs and pauses.
THEOREM BlipsAreForgiven == WatchSpec => []BlipNeverFlagged
<1>1. WatchIInv => BlipNeverFlagged
  BY DEF WatchIInv, BlipNeverFlagged, Condemned
<1> QED
  BY <1>1, WatchInitIInv, WatchStep, PTL DEF WatchSpec

-----------------------------------------------------------------------------
\* What one relay contributes: until it is done with, an OK that has come is in
\* the future; afterwards what was heard is what was said in time.
Tells(s) ==
  /\ phase[s] # "over" =>
       /\ s \notin cut
       /\ \/ said[s] = "nothing" /\ future[s] = "open" /\ s \notin prompt
          \/ said[s] \in Acks /\ future[s] = said[s] /\ s \in prompt
  /\ phase[s] = "over" =>
       /\ future[s] = "none"
       /\ \/ heardOf[s] \in Acks /\ heardOf[s] = said[s] /\ s \in prompt /\ s \notin cut
          \/ heardOf[s] = "nothing" /\ (s \notin prompt \/ s \in cut)

PubIInv ==
  /\ PublishTypeOK
  /\ \A s \in Sinks : Tells(s)
  /\ verdict # "none" => verdict = Verdict /\ \A s \in sinks : phase[s] = "over"

LEMMA PubInitIInv == PublishInit => PubIInv
BY DEF PublishInit, PubIInv, PublishTypeOK, Tells, Registration, Acks

\* A step of one relay is of no concern to the others or to the verdict.
LEMMA PubLocal ==
  ASSUME PubIInv, PublishTypeOK', NEW s \in sinks, phase[s] # "over",
         UNCHANGED <<sinks, verdict>>, Tells(s)',
         \A q \in Sinks \ {s} : /\ phase'[q] = phase[q] /\ future'[q] = future[q]
                                /\ heardOf'[q] = heardOf[q] /\ said'[q] = said[q]
                                /\ (q \in prompt' <=> q \in prompt)
                                /\ (q \in cut' <=> q \in cut)
  PROVE  PubIInv'
<1>1. \A q \in Sinks : Tells(q)'
  BY DEF PubIInv, Tells
<1>2. verdict' = "none"
  BY DEF PubIInv
<1> QED
  BY <1>1, <1>2 DEF PubIInv

LEMMA PubStep == PubIInv /\ [PublishNext]_publishVars => PubIInv'
<1> SUFFICES ASSUME PubIInv, [PublishNext]_publishVars PROVE PubIInv'
  OBVIOUS
<1> USE DEF historyVars
<1>t. PublishTypeOK /\ \A q \in Sinks : Tells(q)
  BY DEF PubIInv
<1>a. sinks \subseteq Sinks
  BY <1>t DEF PublishTypeOK
<1>1. ASSUME NEW s \in sinks, SendEnds(s) PROVE PubIInv'
  <2>1. PublishTypeOK'
    BY <1>1, <1>t DEF SendEnds, PublishTypeOK, Acks
  <2>2. Tells(s)'
    BY <1>1, <1>t, <1>a DEF SendEnds, PublishTypeOK, Tells, Acks
  <2> QED
    BY <1>1, <1>a, <2>1, <2>2, PubLocal DEF SendEnds
<1>2. ASSUME NEW s \in sinks, SendRaises(s) PROVE PubIInv'
  <2>1. PublishTypeOK'
    BY <1>2, <1>t, <1>a DEF SendRaises, Finishes, PublishTypeOK, Acks
  <2>2. Tells(s)'
    BY <1>2, <1>t, <1>a DEF SendRaises, Finishes, PublishTypeOK, Tells, Acks
  <2> QED
    BY <1>2, <1>a, <2>1, <2>2, PubLocal DEF SendRaises, Finishes
<1>3. ASSUME NEW s \in sinks, Reads(s) PROVE PubIInv'
  <2>1. PublishTypeOK'
    BY <1>3, <1>t DEF Reads, Finishes, PublishTypeOK, Acks
  <2>2. Tells(s)'
    BY <1>3, <1>t, <1>a DEF Reads, Finishes, PublishTypeOK, Tells, Acks
  <2> QED
    BY <1>3, <1>a, <2>1, <2>2, PubLocal DEF Reads, Finishes
<1>4. ASSUME NEW s \in sinks, GivesUp(s) PROVE PubIInv'
  <2>1. PublishTypeOK'
    BY <1>4, <1>t DEF GivesUp, Finishes, PublishTypeOK, Acks
  <2>2. Tells(s)'
    BY <1>4, <1>t, <1>a DEF GivesUp, Finishes, PublishTypeOK, Tells, Acks
  <2> QED
    BY <1>4, <1>a, <2>1, <2>2, PubLocal DEF GivesUp, Finishes
<1>5. ASSUME NEW s \in sinks, NEW ack \in Acks, Acknowledges(s, ack) PROVE PubIInv'
  <2>1. PublishTypeOK'
    BY <1>5, <1>t, <1>a DEF Acknowledges, PublishTypeOK, Acks
  <2>2. Tells(s)'
    BY <1>5, <1>t, <1>a DEF Acknowledges, PublishTypeOK, Tells, Acks
  <2>3. \A q \in Sinks : Tells(q)'
    BY <1>5, <1>t, <2>2 DEF Acknowledges, PublishTypeOK, Tells
  <2> QED
    BY <1>5, <2>1, <2>3 DEF Acknowledges, PubIInv, Verdict
<1>6. CASE Concluded
  BY <1>6, <1>t DEF Concluded, PubIInv, PublishTypeOK, Tells, Verdict
<1>7. CASE Call
  BY <1>7 DEF Call, PubIInv, PublishTypeOK, Tells, Registration, Acks
<1>8. CASE UNCHANGED publishVars
  BY <1>8 DEF publishVars, PubIInv, PublishTypeOK, Tells, Verdict
<1> QED
  BY <1>1, <1>2, <1>3, <1>4, <1>5, <1>6, <1>7, <1>8 DEF PublishNext

\* The caller of add_event_checked hears of a success if there was one in time,
\* whatever the number of relays and the order of their answers.
THEOREM SuccessIsHeard == PublishSpec => []AcceptanceHeard
<1>1. PubIInv => AcceptanceHeard
  <2> SUFFICES ASSUME PubIInv, verdict # "none"
               PROVE  /\ verdict = "published" <=> \E s \in Spoke : said[s] = "accepted"
                      /\ verdict = "rejected" <=> Spoke # {} /\ \A s \in Spoke : said[s] = "refused"
    BY DEF AcceptanceHeard
  <2>1. \A s \in sinks : s \in Sinks /\ phase[s] = "over" /\ Tells(s)
    BY DEF PubIInv, PublishTypeOK
  <2>2. \A s \in sinks : s \in Spoke <=> heardOf[s] \in Acks
    BY <2>1 DEF Tells, Spoke, Acks
  <2>3. \A s \in Spoke : s \in sinks /\ heardOf[s] = said[s] /\ said[s] \in Acks
    BY <2>1, <2>2 DEF Tells, Spoke, Acks
  <2>4. verdict = Verdict
    BY DEF PubIInv
  <2> QED
    BY <2>2, <2>3, <2>4 DEF Verdict, Acks
<1> QED
  BY <1>1, PubInitIInv, PubStep, PTL DEF PublishSpec
=============================================================================
