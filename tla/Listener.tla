------------------------------ MODULE Listener ------------------------------
(***************************************************************************)
(* How the listener of one server comes up and stays up: the loop of       *)
(* ClinkServer.run, the relay manager it keeps, the watchdog with its      *)
(* self-ping, requested restarts, stop and process exit.  An action is the *)
(* code from one await to the next.                                        *)
(*                                                                         *)
(* The relays and the library are external: a relay answers or not, a      *)
(* connection dies visibly ("dead") or silently ("deaf"), a call raises.   *)
(* All of that may happen until `calm`, which the environment may set at   *)
(* any time or never.                                                      *)
(***************************************************************************)
EXTENDS Naturals, FiniteSets

CONSTANTS
  RelayUrls,   \* relay URLs
  PingOn    \* listener_ping_interval_sec # 0

ASSUME ListenerAssumption == PingOn \in BOOLEAN

VARIABLES
  wanted,      \* listen_relay_urls(): where the offers say we are
  up,          \* the relays that answer
  calm,        \* from here on nothing outside changes, and the wallet is online
  runAt,          \* the await at which run() is suspended
  manager,     \* self.manager: absent, built, or connected
  recorded,    \* self._manager_relays
  conn,        \* the relays of manager.relays, and the rest as "out"
  stream,      \* the subscription of handle_requests
  restart,     \* a cancel_remaining of the current group is scheduled
  dog,         \* the await at which _relay_watchdog is suspended
  target,      \* the relays its current call was given
  stop,        \* progress of the close() of _stop_server
  exiting      \* the process-exit teardown has cancelled every task

envVars == <<wanted, up, calm>>
mgrVars == <<manager, recorded, conn>>
dogVars == <<dog, target>>
endVars == <<stop, exiting>>
listenerVars == <<envVars, runAt, mgrVars, stream, restart, dogVars, endVars>>

\* "idle": connected without a subscription; "live": with one.
ConnStates == {"out", "idle", "live", "deaf", "dead"}
RunStates == {"gate", "pin", "reclose", "connect", "unreached",
              "serving", "closing", "pause", "over"}
DogStates == {"off", "sleep", "prune", "check", "attach", "due", "ping",
              "drop", "recheck", "reattach"}

NoConn == [r \in RelayUrls |-> "out"]
Attached == {r \in RelayUrls : conn[r] # "out"}
Without(S) == [r \in RelayUrls |-> IF r \in S THEN "out" ELSE conn[r]]
Dead == {r \in RelayUrls : conn[r] = "dead"}

\* Which of the relays S a connect reaches: those that are up, and while the
\* environment is not calm possibly fewer.
Reached(S) == IF calm THEN {S \cap up} ELSE SUBSET (S \cap up)

\* listener_prerequisites_met: a relay to sit on, and while not calm perhaps no
\* network.
Ready == wanted # {}
NotReady == wanted = {} \/ ~calm

ListenerInit ==
  /\ wanted \in SUBSET RelayUrls /\ up \in SUBSET RelayUrls
  /\ calm = FALSE
  /\ runAt = "gate"
  /\ manager = "none" /\ recorded = {} /\ conn = NoConn
  /\ stream = "none" /\ restart = FALSE
  /\ dog = "off" /\ target = {}
  /\ stop = "no" /\ exiting = FALSE

-----------------------------------------------------------------------------
(* The loop of run().  The task group exists while runAt is "serving"; its *)
(* children end with it.                                                   *)

GroupStarts ==
  /\ runAt' = "serving" /\ dog' = "sleep" /\ target' = {}
  /\ stream' = "none" /\ restart' = FALSE

\* Mutation of GroupEnds: the watchdog outlives the group.
GroupEndsDogStays(next) ==
  /\ runAt' = next /\ stream' = "none" /\ restart' = FALSE
  /\ UNCHANGED dogVars

\* The children are gone: the watchdog wherever it was, and the subscription.
GroupEnds(next) ==
  /\ runAt' = next /\ dog' = "off" /\ target' = {}
  /\ stream' = "none" /\ restart' = FALSE

Unsubscribed == [r \in RelayUrls |-> IF conn[r] = "live" THEN "idle" ELSE conn[r]]

Gate ==
  /\ runAt = "gate"
  /\ \/ Ready /\ runAt' = "pin"
     \/ NotReady /\ stop # "no" /\ runAt' = "over"
  /\ UNCHANGED <<envVars, mgrVars, stream, restart, dogVars, endVars>>

\* The manager no longer fits: other relays are wanted, or it lost them all.
Stale ==
  /\ manager # "none"
  /\ \/ recorded # wanted
     \/ manager = "connected" /\ Attached = {}

\* refresh_manager up to its first await, once the offers are pinned.
Refresh ==
  /\ runAt = "pin"
  /\ \/ /\ Stale
        /\ runAt' = "reclose"
        /\ UNCHANGED <<mgrVars, stream, restart, dogVars>>
     \/ /\ ~Stale /\ manager = "connected"
        /\ GroupStarts
        /\ UNCHANGED mgrVars
     \/ /\ ~Stale /\ manager # "connected"
        /\ manager' = "built"
        /\ recorded' = IF manager = "none" THEN wanted ELSE recorded
        /\ runAt' = "connect"
        /\ UNCHANGED <<conn, stream, restart, dogVars>>
  /\ UNCHANGED <<envVars, endVars>>

\* The old manager is closed; a new one is built for what is wanted now.
Reclosed ==
  /\ runAt = "reclose"
  /\ manager' = "built" /\ recorded' = wanted /\ conn' = NoConn
  /\ runAt' = "connect"
  /\ UNCHANGED <<envVars, stream, restart, dogVars, endVars>>

\* Manager.connect drops the relays it did not reach, and never retries them.
ManagerConnected ==
  /\ runAt = "connect"
  /\ manager' = "connected"
  /\ \E S \in Reached(recorded) :
       /\ conn' = [r \in RelayUrls |-> IF r \in S THEN "idle" ELSE "out"]
       /\ IF S = {} THEN runAt' = "unreached" /\ UNCHANGED <<stream, restart, dogVars>>
                    ELSE GroupStarts
  /\ UNCHANGED <<envVars, recorded, endVars>>

\* Neither call is inside run()'s try: what they raise ends the task.
RefreshRaises ==
  /\ ~calm /\ runAt \in {"reclose", "connect"}
  /\ runAt' = "over"
  /\ UNCHANGED <<envVars, mgrVars, stream, restart, dogVars, endVars>>

\* The pauses of 30 s are over.
Resume ==
  /\ runAt \in {"unreached", "pause"}
  /\ runAt' = "gate"
  /\ UNCHANGED <<envVars, mgrVars, stream, restart, dogVars, endVars>>

\* handle_requests opens its subscription on every relay of the manager.
Subscribe ==
  /\ runAt = "serving" /\ stream = "none"
  /\ stream' = IF Attached = {} THEN "ended" ELSE "open"
  /\ conn' = [r \in RelayUrls |-> IF conn[r] = "idle" THEN "live" ELSE conn[r]]
  /\ UNCHANGED <<envVars, runAt, manager, recorded, restart, dogVars, endVars>>

\* The library ends the stream, which a live subscription never should.
StreamEnds ==
  /\ ~calm /\ stream = "open"
  /\ stream' = "ended"
  /\ UNCHANGED <<envVars, runAt, mgrVars, restart, dogVars, endVars>>

\* A child raises: the stream ended, or anything else while not calm.
ChildRaises ==
  /\ runAt = "serving"
  /\ stream = "ended" \/ ~calm
  /\ GroupEnds("closing")
  /\ conn' = Unsubscribed
  /\ UNCHANGED <<envVars, manager, recorded, endVars>>

\* The except clause closes the manager, and sleeps before the next round.
ManagerClosed ==
  /\ runAt = "closing"
  /\ manager' = "none" /\ conn' = NoConn
  /\ runAt' = "pause"
  /\ UNCHANGED <<envVars, recorded, stream, restart, dogVars, endVars>>

CloseRaises ==
  /\ ~calm /\ runAt = "closing"
  /\ runAt' = "over"
  /\ UNCHANGED <<envVars, mgrVars, stream, restart, dogVars, endVars>>

\* The children were cancelled on request: the group ends without an error and
\* the loop goes on with the manager it has.
Restarted ==
  /\ runAt = "serving" /\ restart
  /\ GroupEnds("gate")
  /\ conn' = Unsubscribed
  /\ UNCHANGED <<envVars, manager, recorded, endVars>>

\* A CancelledError that nobody asked for comes up from a child.
StrayCancel ==
  /\ ~calm /\ runAt = "serving"
  /\ GroupEnds(IF stop # "no" THEN "over" ELSE "gate")
  /\ conn' = Unsubscribed
  /\ UNCHANGED <<envVars, manager, recorded, endVars>>

-----------------------------------------------------------------------------
(* The watchdog, a child of the group.                                     *)

DogStep == runAt = "serving"
DogFrame == UNCHANGED <<envVars, runAt, manager, recorded, restart, endVars>>

\* prune_dead_relays: the broken connections are listed, then closed one by
\* one, then taken off the manager.  The watchdog sleeps first, for longer than
\* handle_requests needs to subscribe.
Prune ==
  /\ DogStep /\ dog = "sleep" /\ stream # "none"
  /\ IF Dead # {} THEN dog' = "prune" /\ target' = Dead
                  ELSE dog' = "check" /\ target' = {}
  /\ UNCHANGED <<conn, stream>>
  /\ DogFrame

Pruned ==
  /\ DogStep /\ dog = "prune"
  /\ conn' = Without(target)
  /\ dog' = "check" /\ target' = {}
  /\ UNCHANGED stream
  /\ DogFrame

\* ensure_listener_relays, after the pruning and after a failed ping.
Check ==
  /\ DogStep /\ dog \in {"check", "recheck"}
  /\ IF wanted \subseteq Attached
     THEN dog' = (IF dog = "check" THEN "due" ELSE "sleep") /\ target' = {}
     ELSE dog' = (IF dog = "check" THEN "attach" ELSE "reattach") /\ target' = wanted
  /\ UNCHANGED <<conn, stream>>
  /\ DogFrame

\* update_relays(target): connect what is missing, close what is not in the
\* list, and subscribe again if anything changed and a relay is left.
Updated(S) ==
  [r \in RelayUrls |-> IF r \in S THEN "idle"
                    ELSE IF r \in target THEN conn[r] ELSE "out"]

\* Mutation of Refreshes: the guard on the relays is missing.
RefreshesAlways(c) == TRUE

\* Subscriptions are issued again only if a relay is left.
Refreshes(c) == \E r \in RelayUrls : c[r] # "out"

\* Mutation of Resubscribe: new connections are left without a subscription.
ResubscribeNot(c) == c

Resubscribe(c) ==
  IF stream = "open" /\ Refreshes(c)
  THEN [r \in RelayUrls |-> IF c[r] = "idle" THEN "live" ELSE c[r]] ELSE c

\* Over no relay at all a subscription ends as soon as it is issued.
StreamAfter(c) ==
  IF stream = "open" /\ Refreshes(c) /\ \A r \in RelayUrls : c[r] = "out"
  THEN "ended" ELSE stream

AfterAttach == IF dog = "attach" THEN "due" ELSE "sleep"

Attach ==
  /\ DogStep /\ dog \in {"attach", "reattach"}
  /\ \E S \in Reached(target \ Attached) :
       /\ conn' = Resubscribe(Updated(S))
       /\ stream' = StreamAfter(Updated(S))
  /\ dog' = AfterAttach /\ target' = {}
  /\ DogFrame

\* It raises half way: connected, but not subscribed.  The watchdog logs it.
AttachRaises ==
  /\ ~calm /\ DogStep /\ dog \in {"attach", "reattach"}
  /\ \E S \in Reached(target \ Attached) :
       conn' = [r \in RelayUrls |-> IF r \in S THEN "idle" ELSE conn[r]]
  /\ dog' = AfterAttach /\ target' = {}
  /\ UNCHANGED stream
  /\ DogFrame

NoPing ==
  /\ DogStep /\ dog = "due"
  /\ dog' = "sleep" /\ UNCHANGED <<conn, stream, target>>
  /\ DogFrame

\* ping_listener sends one ping to every relay, and waits for the echoes.
Ping ==
  /\ DogStep /\ dog = "due" /\ PingOn /\ Attached # {}
  /\ dog' = "ping" /\ target' = Attached
  /\ UNCHANGED <<conn, stream>>
  /\ DogFrame

\* A relay echoes when it is subscribed to; before calm a working one may be
\* late, and one that has stopped since may have been in time.
Silent == {r \in target : conn[r] # "live" \/ r \notin up}
Failures == IF calm THEN {Silent} ELSE SUBSET target

Pinged ==
  /\ DogStep /\ dog = "ping"
  /\ \E F \in Failures :
       IF F = {} THEN dog' = "sleep" /\ target' = {}
                 ELSE dog' = "drop" /\ target' = F
  /\ UNCHANGED <<conn, stream>>
  /\ DogFrame

Dropped ==
  /\ DogStep /\ dog = "drop"
  /\ conn' = Without(target)
  /\ dog' = "recheck" /\ target' = {}
  /\ UNCHANGED stream
  /\ DogFrame

-----------------------------------------------------------------------------
(* The other callers.                                                      *)

\* restart_event_handler: without a running group the request is lost.
RequestRestart ==
  /\ ~calm
  /\ restart' = (restart \/ runAt = "serving")
  /\ UNCHANGED <<envVars, runAt, mgrVars, stream, dogVars, endVars>>

\* Offers come and go, a pick lapses; most callers ask for a restart as well.
WantedChanges ==
  /\ ~calm
  /\ wanted' \in SUBSET RelayUrls
  /\ restart' \in {restart, restart \/ runAt = "serving"}
  /\ UNCHANGED <<up, calm, runAt, mgrVars, stream, dogVars, endVars>>

RelaysChange ==
  /\ ~calm
  /\ up' \in SUBSET RelayUrls
  /\ UNCHANGED <<wanted, calm, runAt, mgrVars, stream, restart, dogVars, endVars>>

\* A connection breaks, visibly or not.
ConnectionBreaks(r) ==
  /\ ~calm /\ conn[r] \in {"idle", "live", "deaf"}
  /\ conn' = [conn EXCEPT ![r] = IF @ = "deaf" THEN "dead" ELSE "deaf"]
  /\ UNCHANGED <<envVars, runAt, manager, recorded, stream, restart, dogVars, endVars>>

CalmsDown ==
  /\ ~calm /\ calm' = TRUE
  /\ UNCHANGED <<wanted, up, runAt, mgrVars, stream, restart, dogVars, endVars>>

\* _stop_server, and its close(): first the manager, then the tasks, which are
\* cancelled even if the manager's close raised.
StopServer ==
  /\ stop = "no"
  /\ stop' = IF manager # "none" THEN "closing" ELSE "closed"
  /\ UNCHANGED <<envVars, runAt, mgrVars, stream, restart, dogVars, exiting>>

StopClosed ==
  /\ stop = "closing"
  /\ stop' = "closed"
  /\ conn' \in {conn, NoConn}
  /\ UNCHANGED <<envVars, runAt, manager, recorded, stream, restart, dogVars, exiting>>

\* Mutation of RunCancelled: the group's except clause takes every
\* cancellation for a child's.
RunCancelledSwallowed ==
  /\ GroupEnds(IF runAt = "serving" THEN "gate" ELSE "over")
  /\ UNCHANGED <<envVars, mgrVars>>

\* run() gets a cancellation of its own: from the gate, a pause or a call it
\* goes straight out; in the group it is told from a child's by do_stop or by
\* Task.cancelling, and raised again.
RunCancelled ==
  /\ GroupEnds("over")
  /\ UNCHANGED <<envVars, mgrVars>>

StopCancels ==
  /\ stop = "closed"
  /\ stop' = "done"
  /\ IF runAt = "over"
     THEN UNCHANGED <<envVars, runAt, mgrVars, stream, restart, dogVars>>
     ELSE RunCancelled
  /\ UNCHANGED exiting

ProcessExits ==
  /\ ~exiting /\ runAt # "over"
  /\ exiting' = TRUE
  /\ RunCancelled
  /\ UNCHANGED stop

-----------------------------------------------------------------------------
RunStep == Gate \/ Refresh \/ Reclosed \/ ManagerConnected \/ Resume \/ Subscribe
           \/ ManagerClosed \/ Restarted
WatchdogStep == Prune \/ Pruned \/ Check \/ Attach \/ Ping \/ NoPing
                \/ Pinged \/ Dropped

Environment ==
  \/ RefreshRaises \/ StreamEnds \/ ChildRaises \/ CloseRaises \/ StrayCancel \/ AttachRaises
  \/ RequestRestart \/ WantedChanges \/ RelaysChange \/ CalmsDown
  \/ \E r \in RelayUrls : ConnectionBreaks(r)

ListenerNext == RunStep \/ WatchdogStep \/ Environment
        \/ StopServer \/ StopClosed \/ StopCancels \/ ProcessExits

\* asyncio runs what is ready: run(), the watchdog, the scheduled close().
\* next_ping passes again and again, so the ping is not skipped for ever.
ListenerFairness ==
  /\ WF_listenerVars(RunStep) /\ WF_listenerVars(WatchdogStep) /\ SF_listenerVars(Ping)
  /\ WF_listenerVars(stream = "ended" /\ ChildRaises)
  /\ WF_listenerVars(StopClosed) /\ WF_listenerVars(StopCancels)

ListenerSpec == ListenerInit /\ [][ListenerNext]_listenerVars
ListenerFairSpec == ListenerSpec /\ ListenerFairness

-----------------------------------------------------------------------------
\* Types of the state; the watchdog and the subscription exist exactly while
\* there is a group.
ListenerTypeOK ==
  /\ wanted \subseteq RelayUrls /\ up \subseteq RelayUrls
  /\ calm \in BOOLEAN
  /\ runAt \in RunStates /\ manager \in {"none", "built", "connected"}
  /\ recorded \subseteq RelayUrls /\ conn \in [RelayUrls -> ConnStates]
  /\ stream \in {"none", "open", "ended"} /\ restart \in BOOLEAN
  /\ dog \in DogStates /\ target \subseteq RelayUrls
  /\ stop \in {"no", "closing", "closed", "done"} /\ exiting \in BOOLEAN
  /\ (dog = "off") = (runAt # "serving")
  /\ runAt # "serving" => stream = "none" /\ ~restart

\* handle_requests and the watchdog use self.manager without looking: as long
\* as there is a group there is a connected manager, through every restart,
\* exception, stop and re-built relay set.
GroupHasManager == runAt = "serving" => manager = "connected"

\* Whatever failed before, once the world is calm every wanted relay that
\* answers is in the end subscribed to and stays so: "the listener always
\* covers it".  What is excepted: run() was ended by an exception outside its
\* try, or the server was stopped.
Undisturbed == calm /\ runAt # "over" /\ stop = "no"
Covered == \A r \in wanted \cap up : conn[r] = "live"
ListenerRecovers == <>[]Undisturbed => <>[]Covered

\* A server that is told to stop, and a process that exits, end run() wherever
\* it is suspended: in the group, re-connecting, closing or pausing.
Ends == (stop # "no" \/ exiting) ~> runAt = "over"

\* The watchdog works on the relays without ending the subscription: also when
\* the last relay is gone and its replacement does not connect.
StreamKept ==
  [][calm /\ stream = "open" =>
       stream' = "open" \/ restart \/ stop # "no" \/ exiting']_listenerVars
=============================================================================
