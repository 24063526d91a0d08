------------------------------ MODULE SelfTest ------------------------------
(***************************************************************************)
(* "Check noffers": the coalesced check_offers of src/clink/clink_plugin.py *)
(* and the payer of src/clink/selftest.py that it sends out for each offer. *)
(*                                                                         *)
(* A caller owns the run it began or has joined another's.  Each attempt   *)
(* of a run is its throwaway payer, used once, so that payers stand for    *)
(* attempts.  The relay and the service at the far end are external: they  *)
(* delay or lose what they are given.  What the service does to the wallet *)
(* for such a request is the module Issuing; here it matters only whether  *)
(* it still recognises the payer.                                          *)
(*                                                                         *)
(* One server object.  One that replaces it while attempts are under way   *)
(* begins with no payers, no results and no run of its own, and takes      *)
(* their requests for ordinary ones.                                       *)
(***************************************************************************)
EXTENDS Integers, FiniteSets

CONSTANTS
  Offers,    \* offer ids
  Overlong,  \* those whose relay is too long for an noffer
  Payers,    \* throwaway identities
  Callers,   \* the button, the command and other clients of check_offers
  Timeout,   \* DEFAULT_CHECK_TIMEOUT, the limit of each of three steps
  Settle,    \* SUBSCRIBE_SETTLE_SEC
  TTL        \* SELFTEST_PAYER_TTL_SEC

\* 12 s three times and 0.3 s, against 120 s.
ASSUME SelfTestAssumption ==
  /\ Timeout \in Nat \ {0} /\ Settle \in Nat /\ TTL \in Nat
  /\ Overlong \subseteq Offers
  /\ 3 * Timeout + Settle < TTL
  /\ "none" \notin Callers \cup Offers /\ "returning" \notin Callers

VARIABLES
  store,      \* an offer is live or gone, and "swept" when a run has completed
              \* since (history)
  results,    \* the offers that self.check_results has a result of
  checkTask,  \* self._check_task, by the caller whose run it is
  run,        \* the run a caller owns
  call,       \* the run a caller waits for, by its owner
  orphaned,   \* a run ended before attempts that would still note a result
              \* (history)
  pc,         \* the await at which an attempt is suspended
  offer, by,  \* the offer it is about, and the owner of its run while that lasts
  outcome,    \* how it concluded, until it has closed its manager
  left,       \* time until the limit of its await
  age,        \* time since register_selftest_payer
  wire,       \* its request, or the answer to it, between the two ends
  heard,      \* the answer at its subscription: arrived, held by the reader
              \* until the id of the request is known, or read
  trace       \* the service took its request for an ordinary one

offerVars == <<store, results>>
runVars == <<checkTask, run, call, orphaned>>
testVars == <<pc, offer, by, outcome, left, age>>
farVars == <<wire, heard, trace>>
vars == <<offerVars, runVars, testVars, farVars>>

None == "none"
Timed == {"connecting", "settling", "publishing", "waiting"}
States == Timed \cup {"unused", "closing", "over"}

\* The run of c is not done() yet.
Active(c) == run[c] \in {"running", "raising", "cancelling"}
Live == {o \in Offers : store[o] = "live"}

Init ==
  /\ store = [o \in Offers |-> "live"] /\ results = {}
  /\ checkTask = None /\ orphaned = FALSE
  /\ run = [c \in Callers |-> None] /\ call = [c \in Callers |-> None]
  /\ pc = [p \in Payers |-> "unused"]
  /\ offer = [p \in Payers |-> None] /\ by = [p \in Payers |-> None]
  /\ outcome = [p \in Payers |-> None]
  /\ left = [p \in Payers |-> 0] /\ age = [p \in Payers |-> 0]
  /\ wire = [p \in Payers |-> None] /\ heard = [p \in Payers |-> None]
  /\ trace = [p \in Payers |-> FALSE]

-----------------------------------------------------------------------------
(* Runs.                                                                   *)

\* A call that finds a run in progress waits for it, shielded, whatever offers
\* it was itself asked about.
Join(c) ==
  /\ call[c] = None
  /\ checkTask # None /\ Active(checkTask)
  /\ call' = [call EXCEPT ![c] = checkTask]
  /\ UNCHANGED <<offerVars, checkTask, run, orphaned, testVars, farVars>>

\* Any other starts one, for those of the offers asked that exist: each gets a
\* payer of its own, registered with the service.  There is no noffer of an offer
\* whose relay is too long: its check raises before it has a payer.
Begin(c, asked) ==
  LET Tested == (asked \cap Live) \ Overlong IN
  /\ call[c] = None
  /\ ~(checkTask # None /\ Active(checkTask))
  /\ \E payer \in [Tested -> {p \in Payers : pc[p] = "unused"}] :
       /\ \A o, q \in Tested : payer[o] = payer[q] => o = q
       /\ LET Used == {payer[o] : o \in Tested} IN
          /\ pc' = [p \in Payers |-> IF p \in Used THEN "connecting" ELSE pc[p]]
          /\ left' = [p \in Payers |-> IF p \in Used THEN Timeout ELSE left[p]]
          /\ by' = [p \in Payers |-> IF p \in Used THEN c ELSE by[p]]
          /\ offer' = [p \in Payers |->
               IF p \in Used THEN CHOOSE o \in Tested : payer[o] = p ELSE offer[p]]
  /\ checkTask' = c
  /\ run' = [run EXCEPT ![c] =
       IF asked \cap Live \cap Overlong = {} THEN "running" ELSE "raising"]
  /\ call' = [call EXCEPT ![c] = c]
  /\ UNCHANGED <<offerVars, orphaned, outcome, age, farVars>>

\* The run is done(), and those who wait for it are to be resumed.  Attempts that
\* are not over go on, and are nobody's.
Completes(c) ==
  /\ run' = [run EXCEPT ![c] = "over"]
  /\ call' = [d \in Callers |-> IF call[d] = c THEN "returning" ELSE call[d]]
  /\ by' = [p \in Payers |-> IF by[p] = c THEN None ELSE by[p]]
  /\ offer' = [p \in Payers |-> IF by[p] = c /\ pc[p] = "over" THEN None ELSE offer[p]]
  /\ outcome' = [p \in Payers |-> IF by[p] = c /\ pc[p] = "over" THEN None ELSE outcome[p]]
  /\ UNCHANGED <<checkTask, pc, left, age, farVars>>

\* Of what may be under way for an attempt that has concluded, only a request
\* has still an effect.
Leftover(p) == IF wire[p] = "request" THEN "request" ELSE "lost"

\* Mutation of Kept: the results of removed offers stay.
KeptAll(o) == TRUE
Kept(o) == store[o] = "live"

\* Every attempt of the run is over: it drops the results of the offers that were
\* removed meanwhile.
RunEnds(c) ==
  /\ run[c] = "running" /\ \A p \in Payers : by[p] = c => pc[p] = "over"
  /\ Completes(c)
  /\ results' = {o \in results : Kept(o)}
  /\ store' = [o \in Offers |-> IF store[o] = "gone" THEN "swept" ELSE store[o]]
  /\ UNCHANGED orphaned

\* gather passes on the first exception, also that of a cancelled attempt, and
\* does not wait for the other attempts.  They are not cancelled by that.
RunRaises(c) ==
  /\ \/ run[c] = "raising"
     \/ run[c] = "cancelling" /\
          \/ \E p \in Payers : by[p] = c /\ pc[p] = "over" /\ outcome[p] = "cancelled"
          \/ \A p \in Payers : by[p] = c => pc[p] = "over"
  /\ Completes(c)
  /\ orphaned' = (orphaned \/ \E p \in Payers :
                     by[p] = c /\ pc[p] # "over" /\ outcome[p] # "cancelled")
  /\ UNCHANGED offerVars

\* Mutation of Cleared: the owner forgets whatever run there is.
ClearedAlways(c) == None
\* The owner clears _check_task if it still is its run: another caller may have
\* begun one since its own was done.
Cleared(c) == IF checkTask = c THEN None ELSE checkTask

Return(c) ==
  /\ call[c] = "returning"
  /\ call' = [call EXCEPT ![c] = None]
  /\ IF run[c] = "over"
     THEN run' = [run EXCEPT ![c] = None] /\ checkTask' = Cleared(c)
     ELSE UNCHANGED <<run, checkTask>>
  /\ UNCHANGED <<offerVars, orphaned, testVars, farVars>>

\* The caller is cancelled, and its run with it: its attempts go to their cleanup,
\* and those that were closing are done at once.  One whose publish failed may be
\* waiting for its reader to end just now: it swallows the cancellation.
CancelOwner(c) ==
  /\ call[c] = c /\ run[c] = "running"
  /\ run' = [run EXCEPT ![c] = "cancelling"]
  /\ \E deaf \in SUBSET {p \in Payers : pc[p] = "closing" /\ outcome[p] = "unsent"} :
       LET Hit == {p \in Payers \ deaf : by[p] = c /\ pc[p] # "over"} IN
       /\ pc' = [p \in Payers |-> IF p \notin Hit THEN pc[p]
                                  ELSE IF pc[p] \in Timed THEN "closing" ELSE "over"]
       /\ outcome' = [p \in Payers |-> IF p \in Hit THEN "cancelled" ELSE outcome[p]]
       /\ left' = [p \in Payers |-> IF p \in Hit THEN 0 ELSE left[p]]
       /\ age' = [p \in Payers |-> IF p \in Hit /\ pc[p] \notin Timed THEN 0 ELSE age[p]]
       /\ heard' = [p \in Payers |-> IF p \in Hit THEN None ELSE heard[p]]
       /\ wire' = [p \in Payers |-> IF p \in Hit THEN Leftover(p) ELSE wire[p]]
  /\ UNCHANGED <<offerVars, checkTask, call, orphaned, offer, by, trace>>

\* One that has only joined leaves the run alone.
CancelJoiner(c) ==
  /\ call[c] \in Callers \ {c}
  /\ call' = [call EXCEPT ![c] = None]
  /\ UNCHANGED <<offerVars, checkTask, run, orphaned, testVars, farVars>>

\* remove_offer.
Remove(o) ==
  /\ store[o] = "live"
  /\ store' = [store EXCEPT ![o] = "gone"]
  /\ UNCHANGED <<results, runVars, testVars, farVars>>

-----------------------------------------------------------------------------
(* One attempt: _run_check of selftest.py.                                 *)

\* The attempt p goes on to await s, for at most t.
Goes(p, s, t) ==
  /\ pc' = [pc EXCEPT ![p] = s] /\ left' = [left EXCEPT ![p] = t]
  /\ UNCHANGED <<offerVars, runVars, offer, by, outcome, age>>

\* The attempt p has a result: its reader is cancelled and its manager closed first.
Concludes(p, result) ==
  /\ pc' = [pc EXCEPT ![p] = "closing"] /\ left' = [left EXCEPT ![p] = 0]
  /\ outcome' = [outcome EXCEPT ![p] = result]
  /\ heard' = [heard EXCEPT ![p] = None]
  /\ wire' = IF result = "silent" THEN wire ELSE [wire EXCEPT ![p] = Leftover(p)]
  /\ UNCHANGED <<offerVars, runVars, offer, by, age, trace>>

\* The subscription is opened before the request is published.
Connected(p) == pc[p] = "connecting" /\ Goes(p, "settling", Settle) /\ UNCHANGED farVars

ConnectFails(p) == pc[p] = "connecting" /\ Concludes(p, "other")

PublishStarts(p) ==
  /\ pc[p] = "settling" /\ left[p] = 0
  /\ Goes(p, "publishing", Timeout) /\ UNCHANGED farVars

\* The request leaves.
Sends(p) ==
  /\ pc[p] = "publishing" /\ wire[p] = None
  /\ wire' = [wire EXCEPT ![p] = "request"]
  /\ UNCHANGED <<offerVars, runVars, testVars, heard, trace>>

\* The relay accepted it: the id is known, and the answer is awaited.
Published(p) ==
  /\ pc[p] = "publishing" /\ wire[p] # None
  /\ Goes(p, "waiting", Timeout) /\ UNCHANGED farVars

\* A refusal, an exception, or no OK in time; the relay may have carried it.
PublishFails(p) == pc[p] = "publishing" /\ Concludes(p, "unsent")

\* Mutation of Takes: the answer is compared with the id there is, and passed over.
TakesAtOnce(p) == IF pc[p] = "waiting" THEN "held" ELSE None
\* _await_response: what came before the id is known is held until it is.
Takes(p) == "held"

Receives(p) ==
  /\ heard[p] = "arrived"
  /\ heard' = [heard EXCEPT ![p] = Takes(p)]
  /\ UNCHANGED <<offerVars, runVars, testVars, wire, trace>>

Matches(p) ==
  /\ heard[p] = "held" /\ pc[p] = "waiting"
  /\ heard' = [heard EXCEPT ![p] = "read"]
  /\ UNCHANGED <<offerVars, runVars, testVars, wire, trace>>

Answered(p) == pc[p] = "waiting" /\ heard[p] = "read" /\ Concludes(p, "other")

\* Mutation of TimesOut: the answer is awaited for ever.
TimesOutNever(p) == FALSE
TimesOut(p) == pc[p] = "waiting" /\ left[p] = 0 /\ Concludes(p, "silent")

\* The subscription ended, or reading it raised.
Breaks(p) == pc[p] = "waiting" /\ heard[p] = None /\ Concludes(p, "other")

\* The manager is closed: the payer is unregistered, and check_one notes the
\* result; a cancelled attempt has none.
Closed(p) ==
  /\ pc[p] = "closing"
  /\ pc' = [pc EXCEPT ![p] = "over"]
  /\ results' = IF outcome[p] = "cancelled" THEN results ELSE results \cup {offer[p]}
  /\ offer' = [offer EXCEPT ![p] = IF by[p] = None THEN None ELSE @]
  /\ outcome' = [outcome EXCEPT ![p] =
       IF by[p] # None /\ @ = "cancelled" THEN "cancelled" ELSE None]
  /\ age' = [age EXCEPT ![p] = 0]
  /\ wire' = [wire EXCEPT ![p] = Leftover(p)]
  /\ UNCHANGED <<store, runVars, by, left, heard, trace>>

-----------------------------------------------------------------------------
(* The far end.                                                            *)

\* Mutation of Registered: the entry ends with the answer's time limit alone.
RegisteredBriefly(p) == pc[p] \in Timed /\ age[p] < 2 * Timeout + Settle
\* is_selftest_payer.
Registered(p) == pc[p] \in Timed \cup {"closing"} /\ age[p] < TTL

\* The service answers the request with an invoice or an error.  An invoice for a
\* payer it does not recognise leaves an entry, a reservation and a pending fee.
Handle(p) ==
  /\ wire[p] = "request"
  /\ wire' = [wire EXCEPT ![p] = IF pc[p] \in Timed THEN "answer" ELSE "lost"]
  /\ \E invoice \in BOOLEAN :
       trace' = [trace EXCEPT ![p] = invoice /\ ~Registered(p)]
  /\ UNCHANGED <<offerVars, runVars, testVars, heard>>

\* The relay knows the subscription (it has had SUBSCRIBE_SETTLE_SEC).
Subscribed(p) == pc[p] \in {"settling", "publishing", "waiting"}
\* The attempt has time left for an answer.
InTime(p) == pc[p] = "publishing" \/ (pc[p] = "waiting" /\ left[p] > 0)

\* The relay forwards the answer to those subscribed; the event is not stored.
Forward(p) ==
  /\ wire[p] = "answer"
  /\ wire' = [wire EXCEPT ![p] = IF InTime(p) THEN "forwarded" ELSE "lost"]
  /\ heard' = IF Subscribed(p) THEN [heard EXCEPT ![p] = "arrived"] ELSE heard
  /\ UNCHANGED <<offerVars, runVars, testVars, trace>>

\* The request or the answer is lost, or the request is too old when it arrives.
Lose(p) ==
  /\ wire[p] \in {"request", "answer"}
  /\ wire' = [wire EXCEPT ![p] = "lost"]
  /\ UNCHANGED <<offerVars, runVars, testVars, heard, trace>>

\* The reader has something to do at once.
Readable(p) == heard[p] = "arrived" \/ (pc[p] = "waiting" /\ heard[p] \in {"held", "read"})

\* Time passes; wait_for and sleep resume an attempt when theirs is up.  What is
\* ready to run takes no time.
Tick ==
  /\ \A p \in Payers : (pc[p] \in Timed => left[p] > 0) /\ ~Readable(p)
  /\ \E p \in Payers : pc[p] \in Timed \cup {"closing"} /\ age[p] < TTL
  /\ left' = [p \in Payers |-> IF pc[p] \in Timed THEN left[p] - 1 ELSE left[p]]
  /\ age' = [p \in Payers |-> IF pc[p] \in Timed \cup {"closing"} /\ age[p] < TTL
                              THEN age[p] + 1 ELSE age[p]]
  /\ UNCHANGED <<offerVars, runVars, pc, offer, by, outcome, farVars>>

CallerStep(c) ==
  \/ Join(c) \/ (\E asked \in SUBSET Offers : Begin(c, asked))
  \/ RunEnds(c) \/ RunRaises(c) \/ Return(c) \/ CancelOwner(c) \/ CancelJoiner(c)

TestStep(p) ==
  \/ Connected(p) \/ ConnectFails(p) \/ PublishStarts(p) \/ Sends(p)
  \/ Published(p) \/ PublishFails(p) \/ Receives(p) \/ Matches(p) \/ Answered(p)
  \/ TimesOut(p) \/ Breaks(p) \/ Closed(p)

FarStep(p) == Handle(p) \/ Forward(p) \/ Lose(p)

Next ==
  \/ \E c \in Callers : CallerStep(c)
  \/ \E o \in Offers : Remove(o)
  \/ \E p \in Payers : TestStep(p) \/ FarStep(p)
  \/ Tick

Spec == Init /\ [][Next]_vars

\* What the loop runs for an attempt, until the limit of its await at the latest.
Due(p) ==
  \/ PublishStarts(p) \/ Receives(p) \/ Matches(p) \/ Answered(p) \/ TimesOut(p)
  \/ Closed(p)
  \/ (left[p] = 0 /\ (ConnectFails(p) \/ PublishFails(p)))

\* The loop runs what is ready, time passes, and close() ends.
Fairness ==
  /\ WF_vars(Tick)
  /\ \A p \in Payers : WF_vars(Due(p))
  /\ \A c \in Callers : WF_vars(RunEnds(c) \/ RunRaises(c)) /\ WF_vars(Return(c))

FairSpec == Spec /\ Fairness

-----------------------------------------------------------------------------
(* Properties.                                                             *)

\* Types; a run is owned by the caller that waits for it until it is over, and an
\* attempt belongs to a run under way, to none when that ended without it.
TypeOK ==
  /\ store \in [Offers -> {"live", "gone", "swept"}]
  /\ results \subseteq Offers
  /\ checkTask \in Callers \cup {None} /\ orphaned \in BOOLEAN
  /\ run \in [Callers -> {None, "running", "raising", "cancelling", "over"}]
  /\ call \in [Callers -> Callers \cup {None, "returning"}]
  /\ pc \in [Payers -> States]
  /\ offer \in [Payers -> Offers \cup {None}] /\ by \in [Payers -> Callers \cup {None}]
  /\ outcome \in [Payers -> {None, "silent", "unsent", "other", "cancelled"}]
  /\ left \in [Payers -> Nat] /\ age \in [Payers -> 0..TTL]
  /\ wire \in [Payers -> {None, "request", "answer", "forwarded", "lost"}]
  /\ heard \in [Payers -> {None, "arrived", "held", "read"}]
  /\ trace \in [Payers -> BOOLEAN]
  /\ \A c \in Callers : /\ Active(c) <=> (call[c] = c)
                        /\ run[c] = "over" => call[c] = "returning"
                        /\ call[c] \in Callers => Active(call[c])
  /\ \A p \in Payers : /\ by[p] # None => pc[p] # "unused" /\ Active(by[p])
                       /\ offer[p] # None <=>
                            by[p] # None \/ pc[p] \in Timed \cup {"closing"}

\* The service never takes a self-test for a payer while the test is under way:
\* the registration outlives its three time limits.  (A request that arrives when
\* the test has given up may leave a trace.)
RecognisedInTime == \A p \in Payers : trace[p] => pc[p] \in {"closing", "over"}

\* A self-test is reported unanswered only if no answer was forwarded in time,
\* however fast the service is: one that overtakes the end of the publish comes
\* when the id it is matched by is not known, and must be there when it is.
NoAnswerMissed == \A p \in Payers : outcome[p] = "silent" => wire[p] # "forwarded"

\* One run is under way at a time, and concurrent calls never send out a second
\* batch of requests: what is still to be sent or answered is of that run, until a
\* run has ended before its attempts.
OneRun ==
  /\ \A c, d \in Callers : Active(c) /\ Active(d) => c = d
  /\ ~orphaned => \A p \in Payers : pc[p] \in Timed => by[p] # None

\* Once a run has completed after an offer was removed, check_results has nothing
\* more about it, and no attempt still under way can put it back; until a run has
\* ended before its attempts.
RemovedForgotten ==
  ~orphaned => \A o \in Offers : store[o] = "swept" => o \notin results

\* Every call of check_offers returns, whoever cancels whom and whatever the
\* relay and the service fail to do.
CallsReturn == \A c \in Callers : call[c] # None ~> call[c] = None
=============================================================================
