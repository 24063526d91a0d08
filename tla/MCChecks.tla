------------------------------ MODULE MCChecks ------------------------------
(* How the plugin looks after the noffers it hands out, and what all of it    *)
(* goes through: a behaviour is one of the self-test, of the relay monitor,   *)
(* of a publish, or a series of inputs to the pure functions.                 *)
EXTENDS SelfTest, RelayWatch, Publish, Wire

CONSTANTS
  Removed,  \* bound: the offers that may be removed
  Heeded    \* bound: the attempts whose requests may reach the service

VARIABLE scene

parts == <<vars, watchVars, publishVars, given>>
allVars == <<parts, scene>>

Raw(v) == [shape |-> "int", value |-> v]
Absent == [shape |-> "absent", value |-> 0]

\* Every amount at a boundary, beside what can be received.
MCRequests ==
  UNION {{[offer |-> o, sats |-> s, amount |-> a, available |-> n] :
            o \in {"unknown", "inactive", "fixed", "spontaneous"},
            s \in {Absent, [shape |-> "bool", value |-> 1]}
                    \cup {Raw(v) : v \in {-1, 0, 1, n, n + 1, MaxAmount + 1}},
            a \in {Absent, [shape |-> "digits", value |-> n]}}
         : n \in 0..12 \cup {98, 99, 100, 101, 199, 200, 999, 1000, 1001, 1099, 1999, 12345}}

\* Keys, relays and offer ids that look like headers, too long or empty ones,
\* prices at the ends of their field; cut inside and between records.
Bytes(k, b) == [i \in 1..k |-> b]
MCCodes ==
  [noffer : [key : {<<0, 1, 2>>, <<0, 0, 0>>, <<1, 1>>},
             relay : {Bytes(k, b) : k \in {0, 2, Radix - 1, Radix}, b \in {0, 1}},
             offer : {Bytes(k, b) : k \in 0..1, b \in {0, 3}},
             type : 0..2, price : {0, 1, Radix^2 - 1, Radix^2}],
   cut : 0..5]

MCLengths == 0..400 \cup {511, 512, 513, 1023, 1024, 1025, 32768, 32769, 65535, 65536}

ChecksInit ==
  /\ Init /\ WatchInit /\ PublishInit /\ WireInit
  /\ scene \in {"noffers", "relays", "publish", "codecs"}
  /\ scene = "publish" \/ sinks = {}

\* Bounds.  Payers are alike, and so are the offers that an noffer can be made of.
\* What the service does for one attempt is of no concern to the others; those it
\* is not asked for are closed in no time.
Ordinary ==
  /\ \A p, q \in Payers : p < q /\ pc'[p] = "unused" => pc'[q] = "unused"
  /\ \A o \in Offers \ Removed : store'[o] = "live"
  /\ \A p \in Heeded : offer'[p] \in Removed \cup {None}
  /\ \A p \in Payers \ Heeded :
       /\ wire'[p] \in {None, "request", "lost"} /\ ~trace'[p]
       /\ pc[p] = "closing" => age'[p] <= age[p]

\* A run that raises leaves behind just the attempts that are heeded; after that
\* no other one raises, and no offer is removed.
Raising(c) == run[c] = None /\ run'[c] = "raising"
Scarce ==
  /\ \A c \in Callers : Raising(c) => ~orphaned /\ {p \in Payers : by'[p] = c} = Heeded
  /\ orphaned => \A o \in Offers : store[o] = "live" => store'[o] = "live"

ChecksNext ==
  /\ UNCHANGED scene
  /\ \/ /\ scene = "noffers" /\ Next /\ Ordinary /\ Scarce
        /\ UNCHANGED <<watchVars, publishVars, given>>
     \/ scene = "relays" /\ WatchNext /\ UNCHANGED <<vars, publishVars, given>>
     \/ scene = "publish" /\ PublishNext /\ UNCHANGED <<vars, watchVars, given>>
     \/ scene = "codecs" /\ WireNext /\ UNCHANGED <<vars, watchVars, publishVars>>

ChecksSpec == ChecksInit /\ [][ChecksNext]_allVars /\ Fairness
=============================================================================
