------------------------------- MODULE MCOffers -------------------------------
(* Small instances of Offers: one offer from before pinning, two new ones.    *)
EXTENDS Offers, TLC

CONSTANTS r1, r2

\* The global list, and the wallet's own relay setting.
MCLists == {<<r1, r2>>, <<r2>>}
\* New ids are drawn at random, coroutines are alike.
Symmetry == Permutations(OfferIds \ Legacy) \cup Permutations(Tasks)

\* Bound: the last server object stays, for there is none to replace it.
LastStays == server = MaxServers => running
\* Bound: the wallet goes by the global list.  A setting of its own would only keep
\* the changes of that list from it.
Global == ~own
\* Bound: custom relays are r1, the one that both leaves and joins the lists.
CustomIsR1 == \A t \in Tasks : tasks[t].at = "custom" => tasks[t].relay = r1

MCInit == Init /\ LastStays /\ Global /\ CustomIsR1

MCNext ==
  /\ Next
  /\ LastStays' /\ Global' /\ CustomIsR1'

MCSpec == MCInit /\ [][MCNext]_vars
=============================================================================
