------------------------------ MODULE Publish -------------------------------
(***************************************************************************)
(* add_event_checked of src/clink/publish.py: one event goes to every      *)
(* relay of a manager, the OKs of the relays race with each other and with *)
(* the time limit, and the caller hears one verdict.  The relays, their    *)
(* connections and the clock are external.                                 *)
(***************************************************************************)
EXTENDS FiniteSets

CONSTANT Sinks   \* relay connections

VARIABLES
  sinks,     \* manager.relays when the call began
  phase,     \* per relay: what its _publish_to_relay awaits
  future,    \* relay.event_adds[event.id]: registered or not, and what it holds
  heardOf,   \* what each _publish_to_relay returned
  verdict,   \* what the caller is told
  said,      \* history: the OK of each relay,
  prompt,    \*   the relays that said it before their time was up,
  cut        \*   and those whose connection raised

historyVars == <<said, prompt, cut>>
publishVars == <<sinks, phase, future, heardOf, verdict, historyVars>>

Acks == {"accepted", "refused"}

\* Mutation of Registration: the future is registered once the event was sent.
RegistrationAfterwards == "none"

\* The future is there before the event goes out.
Registration == "open"

PublishInit ==
  /\ sinks \in SUBSET Sinks
  /\ phase = [s \in Sinks |-> "sending"]
  /\ future = [s \in Sinks |-> Registration]
  /\ heardOf = [s \in Sinks |-> "pending"]
  /\ verdict = "none"
  /\ said = [s \in Sinks |-> "nothing"] /\ prompt = {} /\ cut = {}

\* The next publish through the manager, which may have other relays by then.
Call ==
  /\ verdict # "none"
  /\ sinks' \in SUBSET Sinks
  /\ phase' = [s \in Sinks |-> "sending"]
  /\ future' = [s \in Sinks |-> Registration]
  /\ heardOf' = [s \in Sinks |-> "pending"]
  /\ verdict' = "none"
  /\ said' = [s \in Sinks |-> "nothing"] /\ prompt' = {} /\ cut' = {}

\* relay.send has written the event ...
SendEnds(s) ==
  /\ phase[s] = "sending"
  /\ phase' = [phase EXCEPT ![s] = "waiting"]
  /\ future' = [future EXCEPT ![s] = IF @ = "none" THEN "open" ELSE @]
  /\ UNCHANGED <<sinks, heardOf, verdict, historyVars>>

\* The finally clause: later OKs find nobody.
Finishes(s, result) ==
  /\ phase' = [phase EXCEPT ![s] = "over"]
  /\ future' = [future EXCEPT ![s] = "none"]
  /\ heardOf' = [heardOf EXCEPT ![s] = result]
  /\ UNCHANGED <<sinks, verdict, said, prompt>>

\* ... or raised.
SendRaises(s) ==
  /\ phase[s] = "sending"
  /\ Finishes(s, "nothing")
  /\ cut' = cut \cup {s}

\* The relay acknowledges, once, perhaps before send has returned; an OK that
\* finds no future is dropped.
Acknowledges(s, ack) ==
  /\ said[s] = "nothing"
  /\ said' = [said EXCEPT ![s] = ack]
  /\ prompt' = IF phase[s] # "over" THEN prompt \cup {s} ELSE prompt
  /\ future' = [future EXCEPT ![s] = IF @ = "open" THEN ack ELSE @]
  /\ UNCHANGED <<sinks, phase, heardOf, verdict, cut>>

\* wait_for returns what the future holds ...
Reads(s) ==
  /\ phase[s] = "waiting" /\ future[s] \in Acks
  /\ Finishes(s, future[s]) /\ UNCHANGED cut

\* ... or gives up on one that holds nothing.
GivesUp(s) ==
  /\ phase[s] = "waiting" /\ future[s] = "open"
  /\ Finishes(s, "nothing") /\ UNCHANGED cut

\* Mutation of Verdict: one refusal is enough.
VerdictOfTheWorst ==
  IF \E s \in sinks : heardOf[s] = "refused" THEN "rejected"
  ELSE IF \E s \in sinks : heardOf[s] = "accepted" THEN "published" ELSE "timeout"

\* One acceptance is a success, a refusal is told from silence.
Verdict ==
  IF \E s \in sinks : heardOf[s] = "accepted" THEN "published"
  ELSE IF \E s \in sinks : heardOf[s] = "refused" THEN "rejected" ELSE "timeout"

\* gather has all results.
Concluded ==
  /\ verdict = "none" /\ \A s \in sinks : phase[s] = "over"
  /\ verdict' = Verdict
  /\ UNCHANGED <<sinks, phase, future, heardOf, historyVars>>

PublishNext ==
  \/ \E s \in sinks :
       SendEnds(s) \/ SendRaises(s) \/ Reads(s) \/ GivesUp(s)
         \/ \E ack \in Acks : Acknowledges(s, ack)
  \/ Concluded \/ Call

PublishSpec == PublishInit /\ [][PublishNext]_publishVars

-----------------------------------------------------------------------------
\* The types of the variables.
PublishTypeOK ==
  /\ sinks \subseteq Sinks
  /\ phase \in [Sinks -> {"sending", "waiting", "over"}]
  /\ future \in [Sinks -> {"none", "open"} \cup Acks]
  /\ heardOf \in [Sinks -> {"pending", "nothing"} \cup Acks]
  /\ verdict \in {"none", "published", "rejected", "timeout"}
  /\ said \in [Sinks -> {"nothing"} \cup Acks]
  /\ prompt \subseteq Sinks /\ cut \subseteq Sinks

\* In whatever order the OKs, the sends and the time limits come: the caller is
\* told of a success exactly if a relay accepted the event before its time was
\* up, over a connection that did not break, and of a rejection exactly if those
\* that spoke all refused.
Spoke == (prompt \ cut) \cap sinks
AcceptanceHeard ==
  verdict # "none" =>
    /\ verdict = "published" <=> \E s \in Spoke : said[s] = "accepted"
    /\ verdict = "rejected" <=> Spoke # {} /\ \A s \in Spoke : said[s] = "refused"
=============================================================================
