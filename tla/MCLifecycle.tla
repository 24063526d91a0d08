---------------------------- MODULE MCLifecycle -----------------------------
(* Two wallet files.  The first is opened twice, with lightning or to get it *)
(* while open, and starts as a wallet of before the setting: it has offers   *)
(* and is served because of them; both change.  The second has lightning and *)
(* is always enabled.                                                        *)
(* Exploration ends where two threads meet on one file: what is claimed is   *)
(* claimed up to there.                                                      *)
EXTENDS Lifecycle

CONSTANTS f1, f2, a1, a2, b1

MCFileOf == [w \in Wallets |-> IF w = b1 THEN f2 ELSE f1]

MCInit ==
  /\ Init
  /\ override = [f \in Files |-> IF f = f2 THEN "on" ELSE "unset"]
  /\ offers = {f1} /\ f2 \in lightning

\* The two objects of the first file are alike: a1 comes first.
InOrder == a2 \in used => a1 \in used
\* Bound: only the run() of the first object may fail.
FailsOnce == \A s \in Servers : run[s] = "failed" => owner[s] = a1

MCNext ==
  /\ ~raced /\ Next
  /\ UNCHANGED <<override[f2], f2 \in offers>>
  /\ InOrder' /\ FailsOnce'

MCSpec == MCInit /\ [][MCNext]_vars /\ Fairness
=============================================================================
