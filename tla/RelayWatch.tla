----------------------------- MODULE RelayWatch -----------------------------
(***************************************************************************)
(* The liveness monitor of src/clink/liveness.py: every relay that an      *)
(* existing noffer advertises is probed, a failing one again after a       *)
(* pause.  The hourly tick and clink_check_relays may run it at once, over *)
(* the same results.                                                       *)
(*                                                                         *)
(* A probe passes if the relay carries an event from its writer to its     *)
(* reader at the time; a relay fails and recovers at any time.             *)
(***************************************************************************)
EXTENDS Integers

CONSTANTS Relays,    \* relay URLs
          Watchers,  \* who runs the monitor
          Pauses,    \* the retry delays asked for
          Pause      \* RETRY_DELAY_SEC, the delay unless one is asked for

ASSUME WatchAssumption ==
  /\ Pause \in Nat \ {0} /\ Pauses \subseteq Nat /\ Pause \in Pauses

VARIABLES
  advertised,  \* advertised_relay_urls()
  payable,     \* the relays that would carry a payment now
  checks,      \* what a run of run_once has found for a relay so far
  rest,        \* its remaining pause before the second probe
  delay,       \* the pause of the run, or -1 while its watcher does not run
  verdicts,    \* self.results: the relays found payable, and those found down
  outage,      \* history: how long the relay has failed, up to Pause
  outages,     \* history: how often it has begun to fail, up to 2
  hasty        \* history: a shorter pause than the default was asked for

watchVars == <<advertised, payable, checks, rest, delay, verdicts, outage, outages, hasty>>

Off == "off"
Found == {"ok", "down"}

WatchInit ==
  /\ advertised = {} /\ payable = Relays
  /\ checks = [w \in Watchers |-> [r \in Relays |-> Off]]
  /\ rest = [w \in Watchers |-> [r \in Relays |-> 0]]
  /\ delay = [w \in Watchers |-> -1]
  /\ verdicts = [r \in Relays |-> Off]
  /\ outage = [r \in Relays |-> 0] /\ outages = [r \in Relays |-> 0]
  /\ hasty = FALSE

\* run_once: all relays advertised now are probed concurrently.
Watch(w, d) ==
  /\ delay[w] = -1
  /\ delay' = [delay EXCEPT ![w] = d] /\ hasty' = (hasty \/ d < Pause)
  /\ checks' = [checks EXCEPT ![w] =
       [r \in Relays |-> IF r \in advertised THEN "first" ELSE Off]]
  /\ UNCHANGED <<advertised, payable, rest, verdicts, outage, outages>>

\* Mutation of SecondChance: the second probe follows at once.
SecondChanceAtOnce(w, r) == 0
\* The pause after a first failure.
SecondChance(w, r) == delay[w]

\* _run_probe: connected, subscribed, published and read back; every other outcome
\* is a failure.
Passes(r) == r \in payable

FirstProbe(w, r) ==
  /\ checks[w][r] = "first"
  /\ IF Passes(r)
     THEN checks' = [checks EXCEPT ![w][r] = "ok"] /\ UNCHANGED rest
     ELSE /\ checks' = [checks EXCEPT ![w][r] = "second"]
          /\ rest' = [rest EXCEPT ![w][r] = SecondChance(w, r)]
  /\ UNCHANGED <<advertised, payable, delay, verdicts, outage, outages, hasty>>

\* The second verdict counts.
SecondProbe(w, r) ==
  /\ checks[w][r] = "second" /\ rest[w][r] = 0
  /\ checks' = [checks EXCEPT ![w][r] = IF Passes(r) THEN "ok" ELSE "down"]
  /\ UNCHANGED <<advertised, payable, rest, delay, verdicts, outage, outages, hasty>>

\* The results are exactly those of this run.
Report(w) ==
  /\ delay[w] # -1 /\ \A r \in Relays : checks[w][r] \in Found \cup {Off}
  /\ verdicts' = checks[w]
  /\ checks' = [checks EXCEPT ![w] = [r \in Relays |-> Off]]
  /\ delay' = [delay EXCEPT ![w] = -1]
  /\ UNCHANGED <<advertised, payable, rest, outage, outages, hasty>>

\* A restart of the listener cancels the tick, a client its command.
Abandon(w) ==
  /\ delay[w] # -1
  /\ checks' = [checks EXCEPT ![w] = [r \in Relays |-> Off]]
  /\ rest' = [rest EXCEPT ![w] = [r \in Relays |-> 0]]
  /\ delay' = [delay EXCEPT ![w] = -1]
  /\ UNCHANGED <<advertised, payable, verdicts, outage, outages, hasty>>

\* Offers are made and removed.
Advertise(S) ==
  /\ advertised' = S
  /\ UNCHANGED <<payable, checks, rest, delay, verdicts, outage, outages, hasty>>

Fails(r) ==
  /\ r \in payable /\ payable' = payable \ {r}
  /\ outage' = [outage EXCEPT ![r] = IF outage[r] = Pause THEN Pause ELSE 0]
  /\ outages' = [outages EXCEPT ![r] = IF outages[r] = 2 THEN 2 ELSE outages[r] + 1]
  /\ UNCHANGED <<advertised, checks, rest, delay, verdicts, hasty>>

Recovers(r) ==
  /\ r \notin payable /\ payable' = payable \cup {r}
  /\ UNCHANGED <<advertised, checks, rest, delay, verdicts, outage, outages, hasty>>

\* Time passes.
Elapse ==
  /\ rest' = [w \in Watchers |-> [r \in Relays |->
                IF rest[w][r] = 0 THEN 0 ELSE rest[w][r] - 1]]
  /\ outage' = [r \in Relays |-> IF r \in payable \/ outage[r] = Pause THEN outage[r]
                                 ELSE outage[r] + 1]
  /\ UNCHANGED <<advertised, payable, checks, delay, verdicts, outages, hasty>>

WatchNext ==
  \/ \E w \in Watchers : \/ \E d \in Pauses : Watch(w, d)
                         \/ \E r \in Relays : FirstProbe(w, r) \/ SecondProbe(w, r)
                         \/ Report(w) \/ Abandon(w)
  \/ \E S \in SUBSET Relays : Advertise(S)
  \/ \E r \in Relays : Fails(r) \/ Recovers(r)
  \/ Elapse

WatchSpec == WatchInit /\ [][WatchNext]_watchVars

-----------------------------------------------------------------------------
(* Properties.                                                             *)

\* Types; a run has findings only while it is under way.
WatchTypeOK ==
  /\ advertised \subseteq Relays /\ payable \subseteq Relays
  /\ checks \in [Watchers -> [Relays -> Found \cup {Off, "first", "second"}]]
  /\ rest \in [Watchers -> [Relays -> Nat]]
  /\ delay \in [Watchers -> Nat \cup {-1}]
  /\ verdicts \in [Relays -> Found \cup {Off}]
  /\ outage \in [Relays -> 0..Pause] /\ outages \in [Relays -> 0..2]
  /\ hasty \in BOOLEAN
  /\ \A w \in Watchers, r \in Relays :
       /\ rest[w][r] > 0 => checks[w][r] = "second"
       /\ checks[w][r] # Off => delay[w] # -1

\* A transient blip never raises an alarm: a relay is reported down only if it
\* has failed twice, or once for as long as the pause, by whichever runs it was
\* probed and in whatever order they report.
BlipNeverFlagged ==
  ~hasty => \A r \in Relays : verdicts[r] = "down" => outages[r] = 2 \/ outage[r] = Pause
=============================================================================
