-------------------------- MODULE LifecycleProofs ---------------------------
(***************************************************************************)
(* For any wallets, files and number of servers: the two dictionaries hold *)
(* only servers of their file that go on, whatever the threads do; and     *)
(* until two threads meet on a file, every server that goes on is there    *)
(* and, when all that was asked for is done, the servers are what the      *)
(* settings ask for.                                                       *)
(***************************************************************************)
EXTENDS Lifecycle, TLAPS

PreStore == {"apply", "check", "look", "get", "pop", "popgroup", "halt", "close", "store"}
Hooked == {"idle", "pop", "popgroup", "halt", "close"}
Emptied == {"popgroup", "halt", "close", "store"}

\* A thread has taken a server from the dictionary and not yet told it to stop.
Holds(t) == task[t].pc \in {"popgroup", "halt"} /\ task[t].server # 0

\* What a thread has in hand fits its operation, and what it holds is no longer
\* registered.
Fits(k) ==
  /\ k.wallet \in Wallets => k.file = FileOf[k.wallet] /\ k.todo \subseteq {k.file}
  /\ k.wallet = Nobody => ~k.starts /\ k.pc \in Hooked
  /\ k.pc \in Emptied => k.file \in Files
  /\ k.pc \in {"halt", "close", "group", "run"} => k.server # 0

TaskOK(t) ==
  /\ Fits(task[t])
  /\ Holds(t) => \A f \in Files : servers[f] # task[t].server

\* How many servers the thread may still make.
Pending(t) == IF task[t].pc \in PreStore THEN 1 ELSE 0

Bounded == created + Pending("gui") + Pending("loop") <= Generations

Apart(t, u) == Holds(t) /\ Holds(u) => task[t].server # task[u].server

\* As long as no two threads have met, they work on different files, and an entry
\* a thread has emptied stays empty until that thread fills it.
Disjoint ==
  /\ Busy("gui") /\ Busy("loop") => Scope("gui") \cap Scope("loop") = {}
  /\ \A t \in Threads : task[t].pc \in Emptied => servers[task[t].file] = 0

IInv ==
  /\ TypeOK
  /\ \A t \in Threads : TaskOK(t)
  /\ Apart("gui", "loop")
  /\ Bounded
  /\ \A s \in Servers : doStop[s] => s <= created
  /\ ~raced => Disjoint
  /\ NoStrays

LEMMA InitIInv == Init => IInv
<1> SUFFICES ASSUME Init PROVE IInv
  OBVIOUS
<1>1. \A t \in Threads : task[t] = Idle
  BY DEF Init
<1>2. TypeOK
  <2>1. queue \in Seq(Callbacks) /\ closing \subseteq Callbacks /\ created \in 0..Generations
    BY LifecycleAssumption DEF Init
  <2>2. Idle \in [pc : Steps, wallet : Wallets \cup {Nobody}, file : Files \cup {Nobody},
                  todo : SUBSET Files, starts : BOOLEAN, server : 0..created, group : 0..created]
    BY DEF Init, Idle, Steps
  <2>3. \A s \in Servers : owner[s] # Nobody <=> s <= created
    BY LifecycleAssumption DEF Init, Servers
  <2>4. Registered /\ servers \in [Files -> 0..created] /\ groups \in [Files -> 0..created]
    BY DEF Init, Registered
  <2>5. task \in [Threads -> {Idle}]
    BY DEF Init
  <2>6. /\ owner \in [Servers -> Wallets \cup {Nobody}] /\ doStop \in [Servers -> BOOLEAN]
        /\ run \in [Servers -> {"none", "running", "over", "failed"}]
        /\ loaded \in [Files -> Wallets \cup {Nobody}] /\ used \subseteq Wallets
        /\ offers \subseteq Files /\ lightning \subseteq Files
        /\ unheard \subseteq Files /\ raced \in BOOLEAN
        /\ disabled \in BOOLEAN
    BY DEF Init
  <2>7. build \in {"qt", "daemon"} /\ override \in [Files -> {"unset", "on", "off"}]
    BY DEF Init
  <2> QED
    BY <2>1, <2>2, <2>3, <2>4, <2>5, <2>6, <2>7 DEF TypeOK
<1>3. \A t \in Threads : TaskOK(t) /\ ~Holds(t) /\ ~Busy(t) /\ Pending(t) = 0
  BY <1>1, LifecycleAssumption DEF TaskOK, Fits, Holds, Busy, Pending, Idle, PreStore, Hooked, Emptied
<1>4. Bounded
  BY <1>3, LifecycleAssumption DEF Bounded, Threads, Init
<1>5. Apart("gui", "loop") /\ Disjoint
  BY <1>1, <1>3 DEF Apart, Disjoint, Threads, Emptied, Idle
<1>6. NoStrays /\ \A s \in Servers : doStop[s] => s <= created
  BY DEF Init, NoStrays, Servers
<1> QED
  BY <1>2, <1>3, <1>4, <1>5, <1>6 DEF IInv

TaskType ==
  [pc : Steps, wallet : Wallets \cup {Nobody}, file : Files \cup {Nobody},
   todo : SUBSET Files, starts : BOOLEAN, server : 0..created, group : 0..created]

ScopeOf(w) == IF w = Nobody THEN Files ELSE {FileOf[w]}

-----------------------------------------------------------------------------
(* A step that leaves the servers and self._servers alone.                 *)

\* What is typed and not touched by the operations.
OutsideTyped ==
  /\ build' \in {"qt", "daemon"}
  /\ override' \in [Files -> {"unset", "on", "off"}] /\ offers' \subseteq Files
  /\ lightning' \subseteq Files
  /\ loaded' \in [Files -> Wallets \cup {Nobody}] /\ used' \subseteq Wallets
  /\ disabled' \in BOOLEAN
  /\ run' \in [Servers -> {"none", "running", "over", "failed"}]
  /\ queue' \in Seq(Callbacks) /\ closing' \subseteq Callbacks
  /\ unheard' \subseteq Files /\ raced' \in BOOLEAN

\* No thread moves.
LEMMA OutsideStep ==
  ASSUME IInv, OutsideTyped, UNCHANGED <<tableVars, serverVars, task>>, raced => raced'
  PROVE  IInv'
<1>1. TypeOK'
  BY DEF IInv, TypeOK, OutsideTyped, tableVars, serverVars, Registered
<1>2. UNCHANGED <<servers, created, owner, doStop, task>>
  BY DEF tableVars, serverVars
<1>3. \A t \in Threads : TaskOK(t)'
  BY <1>2 DEF IInv, TaskOK, Holds, Fits
<1>4. Apart("gui", "loop")' /\ Bounded' /\ (~raced' => Disjoint')
  BY <1>2 DEF IInv, Apart, Holds, Bounded, Pending, Disjoint, Busy, Scope
<1>5. NoStrays'
  BY <1>2 DEF IInv, NoStrays, Stopping
<1> QED
  BY <1>1, <1>2, <1>3, <1>4, <1>5 DEF IInv

\* Thread t goes on to k, and neither takes a server nor drops one it holds.
LEMMA OwnStep ==
  ASSUME IInv, OutsideTyped, NEW t \in Threads, NEW k \in TaskType,
         task' = [task EXCEPT ![t] = k],
         UNCHANGED <<servers, serverVars>>, groups' \in [Files -> 0..created],
         Fits(k),
         Holds(t) <=> k.pc \in {"popgroup", "halt"} /\ k.server # 0,
         Holds(t) => k.server = task[t].server,
         k.pc \in PreStore =>
           Pending(t) = 1 \/ created + Pending("gui") + Pending("loop") < Generations,
         ~raced' =>
           /\ ~raced
           /\ k.pc \in Emptied => servers[k.file] = 0
           /\ k.pc # "idle" =>
                \A u \in Threads \ {t} : Busy(u) => ScopeOf(k.wallet) \cap Scope(u) = {}
  PROVE  IInv'
<1>0. /\ task \in [Threads -> TaskType] /\ created \in 0..Generations
      /\ servers \in [Files -> 0..created] /\ Generations \in Nat
  BY LifecycleAssumption DEF IInv, TypeOK, TaskType
<1>1. UNCHANGED <<servers, created, owner, doStop>>
  BY DEF serverVars
<1>2. task'[t] = k /\ \A u \in Threads \ {t} : task'[u] = task[u]
  BY <1>0
<1>3. TypeOK'
  <2>1. task' \in [Threads -> TaskType]
    BY <1>0
  <2>2. TypeOK
    BY DEF IInv
  <2> QED
    BY <1>1, <2>1, <2>2 DEF TypeOK, TaskType, OutsideTyped, Registered
<1>4. \A u \in Threads \ {t} : Holds(u)' = Holds(u) /\ Pending(u)' = Pending(u) /\ Busy(u)' = Busy(u)
                               /\ Scope(u)' = Scope(u)
  BY <1>2 DEF Holds, Pending, Busy, Scope
<1>5. Holds(t)' = Holds(t)
  BY <1>2 DEF Holds
<1>6. \A u \in Threads : TaskOK(u)'
  <2>1. \A u \in Threads : TaskOK(u)
    BY DEF IInv
  <2>2. TaskOK(t)'
    BY <1>1, <1>2, <1>5, <2>1 DEF TaskOK, Fits
  <2>3. \A u \in Threads \ {t} : TaskOK(u)'
    BY <1>1, <1>2, <1>4, <2>1 DEF TaskOK, Fits
  <2> QED
    BY <2>2, <2>3
<1>7. Apart("gui", "loop")'
  BY <1>2, <1>4, <1>5 DEF IInv, Apart, Threads
<1>8. Bounded'
  <2>1. Bounded /\ \A u \in Threads : Pending(u) \in 0..1
    BY DEF IInv, Pending
  <2>2. Pending(t)' = IF k.pc \in PreStore THEN 1 ELSE 0
    BY <1>2 DEF Pending
  <2>3. CASE t = "gui"
    <3>1. Pending("loop")' = Pending("loop") /\ Pending("loop") \in 0..1 /\ Pending("gui") \in 0..1
      BY <1>4, <2>1, <2>3 DEF Threads
    <3> QED
      BY <1>0, <1>1, <2>1, <2>2, <2>3, <3>1 DEF Bounded
  <2>4. CASE t = "loop"
    <3>1. Pending("gui")' = Pending("gui") /\ Pending("loop") \in 0..1 /\ Pending("gui") \in 0..1
      BY <1>4, <2>1, <2>4 DEF Threads
    <3> QED
      BY <1>0, <1>1, <2>1, <2>2, <2>4, <3>1 DEF Bounded
  <2> QED
    BY <2>3, <2>4 DEF Threads
<1>9. ASSUME ~raced' PROVE Disjoint'
  <2>1. Disjoint /\ ~raced
    BY <1>9 DEF IInv
  <2>2. Scope(t)' = ScopeOf(k.wallet) /\ (Busy(t)' <=> k.pc # "idle")
    BY <1>2 DEF Scope, ScopeOf, Busy
  <2>3. Busy("gui")' /\ Busy("loop")' => Scope("gui")' \cap Scope("loop")' = {}
    <3>1. CASE t = "gui"
      BY <1>4, <1>9, <2>2, <3>1 DEF Threads
    <3>2. CASE t = "loop"
      BY <1>4, <1>9, <2>2, <3>2 DEF Threads
    <3> QED
      BY <3>1, <3>2 DEF Threads
  <2>4. \A u \in Threads : task'[u].pc \in Emptied => servers'[task'[u].file] = 0
    BY <1>1, <1>2, <1>9, <2>1 DEF Disjoint
  <2> QED
    BY <2>3, <2>4 DEF Disjoint
<1>10. NoStrays'
  <2>1. \A s \in 1..created : Stopping(s) => Stopping(s)'
    <3> SUFFICES ASSUME NEW s \in 1..created, NEW u \in Threads,
                        task[u].server = s, task[u].pc \in {"popgroup", "halt"}
                 PROVE  Stopping(s)'
      BY DEF Stopping
    <3>1. Holds(u)
      BY DEF Holds
    <3>2. CASE u = t
      BY <1>2, <3>1, <3>2 DEF Stopping
    <3>3. CASE u # t
      BY <1>2, <3>3 DEF Stopping
    <3> QED
      BY <3>2, <3>3
  <2>2. NoStrays /\ (~raced' => ~raced)
    BY DEF IInv
  <2> QED
    BY <1>1, <2>1, <2>2 DEF NoStrays
<1>11. \A s \in Servers : doStop'[s] => s <= created'
  BY <1>1 DEF IInv
<1> QED
  BY <1>3, <1>6, <1>7, <1>8, <1>9, <1>10, <1>11 DEF IInv

-----------------------------------------------------------------------------
(* The three steps that change what is registered or told to stop.         *)

LEMMA PopServerStep ==
  ASSUME IInv, NEW t \in Threads, PopServer(t), UNCHANGED <<settingVars, openVars, raced>>
  PROVE  IInv'
<1>0. /\ task \in [Threads -> TaskType] /\ created \in 0..Generations
      /\ servers \in [Files -> 0..created] /\ Generations \in Nat
  BY LifecycleAssumption DEF IInv, TypeOK, TaskType
<1> PICK f \in task[t].todo :
      /\ task' = [task EXCEPT ![t] = [task[t] EXCEPT !.pc = "popgroup", !.file = f,
                    !.server = servers[f], !.todo = @ \ {f}]]
      /\ servers' = [servers EXCEPT ![f] = 0]
  BY <1>0 DEF PopServer, Popped
<1> DEFINE k == [task[t] EXCEPT !.pc = "popgroup", !.file = f,
                   !.server = servers[f], !.todo = @ \ {f}]
<1>1. /\ UNCHANGED <<groups, created, owner, doStop, run, queue, closing, override, offers,
                     lightning, unheard, build, loaded, used, disabled, raced>>
      /\ task[t].pc = "pop"
  BY DEF PopServer, serverVars, loopVars, settingVars, openVars, At
<1>2. f \in Files /\ k \in TaskType /\ task[t] \in TaskType
  BY <1>0, ZenonT(60) DEF TaskType, Steps
<1>3. task'[t] = k /\ \A u \in Threads \ {t} : task'[u] = task[u]
  <2> HIDE DEF k
  <2> QED
    BY <1>0 DEF k
<1>4. k.pc = "popgroup" /\ k.file = f /\ k.server = servers[f] /\ k.todo = task[t].todo \ {f}
      /\ k.wallet = task[t].wallet /\ k.starts = task[t].starts
  BY <1>2 DEF TaskType
<1>5. TypeOK'
  <2>1. task' \in [Threads -> TaskType]
    BY <1>0, <1>2
  <2>2. servers' \in [Files -> 0..created] /\ \A g \in Files : servers'[g] # 0 => servers'[g] = servers[g]
    BY <1>0, <1>2
  <2>3. Registered'
    BY <1>1, <2>2 DEF IInv, TypeOK, Registered
  <2>4. TypeOK
    BY DEF IInv
  <2> QED
    BY <1>1, <2>1, <2>2, <2>3, <2>4 DEF TypeOK, TaskType
<1>6. \A g \in Files : servers[g] # 0 /\ servers[g] = servers[f] => g = f
  <2>1. Registered
    BY DEF IInv, TypeOK
  <2> QED
    BY <1>2, <2>1 DEF Registered
<1>7. \A u \in Threads : TaskOK(u) /\ (u # t => (Holds(u)' <=> Holds(u)))
  BY <1>3 DEF IInv, Holds
<1>8. TaskOK(t)'
  <2>1. Fits(k)
    BY <1>1, <1>2, <1>4, <1>7 DEF TaskOK, Fits, Hooked, Emptied
  <2>2. k.server # 0 => \A g \in Files : servers'[g] # k.server
    BY <1>0, <1>2, <1>4, <1>6
  <2> QED
    BY <1>3, <2>1, <2>2 DEF TaskOK, Holds, Fits
<1>9. \A u \in Threads \ {t} : TaskOK(u)'
  <2>1. \A u \in Threads \ {t} : Holds(u) => \A g \in Files : servers'[g] # task[u].server
    BY <1>0, <1>2, <1>7 DEF TaskOK, Holds
  <2> QED
    BY <1>3, <1>7, <2>1 DEF TaskOK, Fits
<1>10. Apart("gui", "loop")'
  <2>1. \A u \in Threads \ {t} : Holds(u) => task[u].server # servers[f]
    BY <1>2, <1>7 DEF TaskOK
  <2>2. \A u \in Threads \ {t} : Holds(u)' => task'[u].server # task'[t].server
    BY <1>3, <1>4, <1>7, <2>1
  <2>3. CASE t = "gui"
    BY <2>2, <2>3 DEF Apart, Threads
  <2>4. CASE t = "loop"
    BY <2>2, <2>4 DEF Apart, Threads
  <2> QED
    BY <2>3, <2>4 DEF Threads
<1>11. Bounded'
  <2>1. \A u \in Threads : Pending(u)' = Pending(u)
    BY <1>1, <1>3, <1>4 DEF Pending, PreStore
  <2> QED
    BY <1>1, <2>1 DEF IInv, Bounded, Threads
<1>12. ASSUME ~raced PROVE Disjoint'
  <2>1. Disjoint
    BY <1>12 DEF IInv
  <2>2. \A u \in Threads : Busy(u)' = Busy(u) /\ Scope(u)' = Scope(u)
    BY <1>1, <1>3, <1>4 DEF Busy, Scope
  <2>3. \A u \in Threads : task'[u].pc \in Emptied => servers'[task'[u].file] = 0
    BY <1>0, <1>2, <1>3, <1>4, <1>7, <2>1 DEF Disjoint, TaskOK, Fits
  <2> QED
    BY <2>1, <2>2, <2>3 DEF Disjoint, Threads
<1>13. NoStrays'
  <2>1. SUFFICES ASSUME ~raced, NEW s \in 1..created, ~doStop[s]
                 PROVE  servers'[FileOf[owner[s]]] = s \/ Stopping(s)'
    BY <1>1 DEF NoStrays
  <2>2. servers[FileOf[owner[s]]] = s \/ Stopping(s)
    BY <2>1 DEF IInv, NoStrays
  <2>3. CASE Stopping(s)
    BY <1>1, <1>3, <2>3 DEF Stopping
  <2>4. CASE servers[FileOf[owner[s]]] = s
    <3>1. CASE FileOf[owner[s]] = f
      BY <1>3, <1>4, <2>4, <3>1 DEF Stopping
    <3>2. CASE FileOf[owner[s]] # f
      BY <2>4, <3>2, <1>0
    <3> QED
      BY <3>1, <3>2
  <2> QED
    BY <2>2, <2>3, <2>4
<1> QED
  BY <1>1, <1>5, <1>8, <1>9, <1>10, <1>11, <1>12, <1>13 DEF IInv

LEMMA HaltStep ==
  ASSUME IInv, NEW t \in Threads, Halt(t), UNCHANGED <<settingVars, openVars, raced>>
  PROVE  IInv'
<1>0. /\ task \in [Threads -> TaskType] /\ created \in 0..Generations
      /\ servers \in [Files -> 0..created] /\ Generations \in Nat
      /\ doStop \in [Servers -> BOOLEAN]
  BY LifecycleAssumption DEF IInv, TypeOK, TaskType
<1> DEFINE k == [task[t] EXCEPT !.pc = "close"]
           h == task[t].server
<1>1. /\ UNCHANGED <<servers, groups, created, owner, run, queue, closing, override, offers,
                     lightning, unheard, build, loaded, used, disabled, raced>>
      /\ task[t].pc = "halt" /\ task' = [task EXCEPT ![t] = k]
      /\ doStop' = [doStop EXCEPT ![h] = TRUE]
  BY <1>0 DEF Halt, Goto, tableVars, loopVars, settingVars, openVars, At
<1>2. k \in TaskType /\ task[t] \in TaskType
  BY <1>0 DEF TaskType, Steps
<1>3. task'[t] = k /\ \A u \in Threads \ {t} : task'[u] = task[u]
  BY <1>0, <1>1
<1>4. k.pc = "close" /\ k.file = task[t].file /\ k.server = h /\ k.todo = task[t].todo
      /\ k.wallet = task[t].wallet /\ k.starts = task[t].starts
  BY <1>2 DEF TaskType
<1>5. \A u \in Threads : TaskOK(u)
  BY DEF IInv
<1>6. Holds(t) /\ h \in 1..created /\ \A f \in Files : servers[f] # h
  BY <1>0, <1>1, <1>2, <1>5 DEF Holds, TaskOK, Fits, TaskType
<1>7. TypeOK'
  <2>1. task' \in [Threads -> TaskType]
    BY <1>0, <1>1, <1>2
  <2>2. doStop' \in [Servers -> BOOLEAN] /\ \A s \in Servers : s # h => doStop'[s] = doStop[s]
    BY <1>0, <1>1
  <2>3. Registered'
    <3>1. \A f \in Files : servers[f] # 0 => servers[f] \in Servers /\ servers[f] # h
      BY <1>0, <1>6 DEF Servers
    <3> QED
      BY <1>1, <2>2, <3>1 DEF IInv, TypeOK, Registered
  <2>4. TypeOK
    BY DEF IInv
  <2> QED
    BY <1>1, <2>1, <2>2, <2>3, <2>4 DEF TypeOK, TaskType
<1>8. ~Holds(t)' /\ \A u \in Threads \ {t} : Holds(u)' = Holds(u)
  BY <1>3, <1>4 DEF Holds
<1>9. \A u \in Threads : TaskOK(u)'
  <2>1. TaskOK(t)'
    BY <1>1, <1>3, <1>4, <1>5, <1>8 DEF TaskOK, Fits, Hooked, Emptied
  <2>2. \A u \in Threads \ {t} : TaskOK(u)'
    BY <1>1, <1>3, <1>5, <1>8 DEF TaskOK, Fits
  <2> QED
    BY <2>1, <2>2
<1>10. Apart("gui", "loop")'
  BY <1>3, <1>8 DEF IInv, Apart, Threads
<1>11. Bounded'
  <2>1. \A u \in Threads : Pending(u)' = Pending(u)
    BY <1>1, <1>3, <1>4 DEF Pending, PreStore
  <2> QED
    BY <1>1, <2>1 DEF IInv, Bounded, Threads
<1>12. ASSUME ~raced PROVE Disjoint'
  <2>1. Disjoint
    BY <1>12 DEF IInv
  <2>2. \A u \in Threads : Busy(u)' = Busy(u) /\ Scope(u)' = Scope(u)
    BY <1>1, <1>3, <1>4 DEF Busy, Scope
  <2>3. \A u \in Threads : task'[u].pc \in Emptied => servers'[task'[u].file] = 0
    BY <1>1, <1>3, <1>4, <2>1 DEF Disjoint, Emptied
  <2> QED
    BY <2>1, <2>2, <2>3 DEF Disjoint, Threads
<1>13. NoStrays'
  <2>1. SUFFICES ASSUME ~raced, NEW s \in 1..created, ~doStop'[s]
                 PROVE  servers[FileOf[owner[s]]] = s \/ Stopping(s)'
    BY <1>1 DEF NoStrays
  <2>2. s # h /\ ~doStop[s]
    BY <1>0, <1>1, <2>1 DEF Servers
  <2>3. servers[FileOf[owner[s]]] = s \/ Stopping(s)
    BY <2>1, <2>2 DEF IInv, NoStrays
  <2>4. Stopping(s) => Stopping(s)'
    BY <1>3, <2>2 DEF Stopping
  <2> QED
    BY <2>3, <2>4
<1>14. \A s \in Servers : doStop'[s] => s <= created'
  BY <1>0, <1>1, <1>6 DEF IInv
<1> QED
  BY <1>1, <1>7, <1>9, <1>10, <1>11, <1>12, <1>13, <1>14 DEF IInv

LEMMA StoreStep ==
  ASSUME IInv, NEW t \in Threads, Store(t), UNCHANGED <<settingVars, openVars, raced>>
  PROVE  IInv'
<1>0. /\ task \in [Threads -> TaskType] /\ created \in 0..Generations
      /\ servers \in [Files -> 0..created] /\ Generations \in Nat
      /\ owner \in [Servers -> Wallets \cup {Nobody}] /\ doStop \in [Servers -> BOOLEAN]
      /\ groups \in [Files -> 0..created]
  BY LifecycleAssumption DEF IInv, TypeOK, TaskType
<1> DEFINE n == created + 1
           f == task[t].file
           k == [task[t] EXCEPT !.pc = "group", !.server = n]
<1>1. /\ UNCHANGED <<groups, doStop, run, queue, closing, override, offers,
                     lightning, unheard, build, loaded, used, disabled, raced>>
      /\ task[t].pc = "store" /\ task' = [task EXCEPT ![t] = k]
      /\ created' = n /\ owner' = [owner EXCEPT ![n] = task[t].wallet]
      /\ servers' = [servers EXCEPT ![f] = n]
  BY <1>0 DEF Store, loopVars, settingVars, openVars, At
<1>2. \A u \in Threads : TaskOK(u) /\ task[u] \in TaskType /\ Pending(u) \in 0..1
  BY <1>0 DEF IInv, Pending
<1>3. task[t].wallet \in Wallets /\ f = FileOf[task[t].wallet] /\ f \in Files
  BY <1>1, <1>2, LifecycleAssumption DEF TaskOK, Fits, TaskType, Hooked, Emptied
<1>4. n \in Servers /\ created < Generations
  <2>1. Pending(t) = 1 /\ created + Pending("gui") + Pending("loop") <= Generations
    BY <1>1 DEF IInv, Bounded, Pending, PreStore
  <2> QED
    BY <1>0, <1>2, <2>1 DEF Servers, Threads
<1>5. task'[t] = k /\ \A u \in Threads \ {t} : task'[u] = task[u]
  BY <1>0, <1>1
<1>6. k.pc = "group" /\ k.file = f /\ k.server = n /\ k.todo = task[t].todo
      /\ k.wallet = task[t].wallet /\ k.starts = task[t].starts /\ k.group = task[t].group
  BY <1>2 DEF TaskType
<1>7. owner'[n] = task[t].wallet /\ \A s \in Servers \ {n} : owner'[s] = owner[s]
  BY <1>0, <1>1, <1>4
<1>8. servers'[f] = n /\ \A g \in Files \ {f} : servers'[g] = servers[g]
  BY <1>0, <1>1, <1>3
<1>9. \A s \in Servers : doStop[s] => s <= created
  BY DEF IInv
<1>10. TypeOK'
  <2>0. n \in 0..created' /\ created' \in 0..Generations /\ 0..created \subseteq 0..created'
    BY <1>0, <1>1, <1>4
  <2>1. task' \in [Threads -> TaskType']
    <3>1. task[t] \in [pc : Steps, wallet : Wallets \cup {Nobody}, file : Files \cup {Nobody},
                       todo : SUBSET Files, starts : BOOLEAN,
                       server : 0..created', group : 0..created']
      BY <1>2, <2>0 DEF TaskType
    <3>2. k \in TaskType'
      BY <2>0, <3>1 DEF TaskType, Steps
    <3>3. \A u \in Threads : task[u] \in TaskType'
      BY <1>2, <2>0 DEF TaskType
    <3> QED
      BY <1>0, <1>1, <3>2, <3>3
  <2>2. servers' \in [Files -> 0..created'] /\ groups' \in [Files -> 0..created']
    BY <1>0, <1>1, <1>3, <2>0
  <2>3. owner' \in [Servers -> Wallets \cup {Nobody}]
    BY <1>0, <1>1, <1>3
  <2>4. \A s \in Servers : owner'[s] # Nobody <=> s <= created'
    <3>1. \A s \in Servers : owner[s] # Nobody <=> s <= created
      BY DEF IInv, TypeOK
    <3> QED
      BY <1>0, <1>1, <1>3, <1>4, <1>7, <3>1, LifecycleAssumption DEF Servers
  <2>5. Registered'
    <3> SUFFICES ASSUME NEW g \in Files, servers'[g] # 0
                 PROVE  FileOf[owner'[servers'[g]]] = g /\ ~doStop[servers'[g]]
      BY <1>1 DEF Registered
    <3>1. CASE g = f
      <4>1. ~doStop[n]
        BY <1>0, <1>4, <1>9
      <4> QED
        BY <1>3, <1>7, <1>8, <3>1, <4>1
    <3>2. CASE g # f
      <4>1. servers[g] \in Servers \ {n} /\ servers'[g] = servers[g]
        BY <1>0, <1>8, <3>2 DEF Servers
      <4>2. Registered
        BY DEF IInv, TypeOK
      <4> QED
        BY <1>7, <4>1, <4>2 DEF Registered
    <3> QED
      BY <3>1, <3>2
  <2>6. TypeOK
    BY DEF IInv
  <2> QED
    BY <1>1, <2>0, <2>1, <2>2, <2>3, <2>4, <2>5, <2>6 DEF TypeOK, TaskType
<1>11. ~Holds(t)' /\ \A u \in Threads \ {t} : Holds(u)' = Holds(u)
  BY <1>5, <1>6 DEF Holds
<1>12. \A u \in Threads : TaskOK(u)'
  <2>1. TaskOK(t)'
    BY <1>0, <1>2, <1>3, <1>5, <1>6, <1>11, LifecycleAssumption DEF TaskOK, Fits, Hooked, Emptied
  <2>2. \A u \in Threads \ {t} : task[u].server # n
    BY <1>0, <1>2 DEF TaskType
  <2>3. \A u \in Threads \ {t} : TaskOK(u)'
    BY <1>2, <1>3, <1>5, <1>8, <1>11, <2>2 DEF TaskOK, Fits
  <2> QED
    BY <2>1, <2>3
<1>13. Apart("gui", "loop")'
  BY <1>5, <1>11 DEF IInv, Apart, Threads
<1>14. Bounded'
  <2>1. Pending(t)' = 0 /\ Pending(t) = 1 /\ \A u \in Threads \ {t} : Pending(u)' = Pending(u)
    BY <1>1, <1>5, <1>6 DEF Pending, PreStore
  <2>2. Bounded
    BY DEF IInv
  <2>3. CASE t = "gui"
    <3>1. Pending("loop")' = Pending("loop") /\ Pending("loop") \in 0..1
      BY <1>2, <2>1, <2>3 DEF Threads
    <3> QED
      BY <1>0, <1>1, <2>1, <2>2, <2>3, <3>1 DEF Bounded
  <2>4. CASE t = "loop"
    <3>1. Pending("gui")' = Pending("gui") /\ Pending("gui") \in 0..1
      BY <1>2, <2>1, <2>4 DEF Threads
    <3> QED
      BY <1>0, <1>1, <2>1, <2>2, <2>4, <3>1 DEF Bounded
  <2> QED
    BY <2>3, <2>4 DEF Threads
<1>15. ASSUME ~raced PROVE Disjoint'
  <2>1. Disjoint
    BY <1>15 DEF IInv
  <2>2. \A u \in Threads : Busy(u)' = Busy(u) /\ Scope(u)' = Scope(u)
    BY <1>1, <1>5, <1>6 DEF Busy, Scope
  <2>3. Busy(t) /\ f \in Scope(t)
    BY <1>1, <1>3 DEF Busy, Scope
  <2>4. ASSUME NEW u \in Threads \ {t}, task[u].pc \in Emptied PROVE servers'[task[u].file] = 0
    <3>1. servers[task[u].file] = 0 /\ task[u].file \in Files
      BY <1>2, <2>1, <2>4 DEF Disjoint, TaskOK, Fits
    <3>2. Busy(u) /\ task[u].file \in Scope(u)
      BY <1>2, <2>4, <3>1 DEF Busy, Scope, TaskOK, Fits, TaskType, Emptied
    <3>3. Scope(t) \cap Scope(u) = {}
      BY <2>1, <2>3, <3>2 DEF Disjoint, Threads
    <3> QED
      BY <1>8, <2>3, <3>1, <3>2, <3>3
  <2>5. \A u \in Threads : task'[u].pc \in Emptied => servers'[task'[u].file] = 0
    <3>1. task'[t].pc \notin Emptied
      BY <1>5, <1>6 DEF Emptied
    <3> QED
      BY <1>5, <2>4, <3>1
  <2> QED
    BY <2>1, <2>2, <2>5 DEF Disjoint, Threads
<1>16. NoStrays'
  <2>1. SUFFICES ASSUME ~raced, NEW s \in 1..n, ~doStop[s]
                 PROVE  servers'[FileOf[owner'[s]]] = s \/ Stopping(s)'
    BY <1>1 DEF NoStrays
  <2>2. CASE s = n
    BY <1>3, <1>7, <1>8, <2>2
  <2>3. CASE s # n
    <3>1. s \in 1..created /\ s \in Servers \ {n} /\ owner'[s] = owner[s] /\ s # 0
      BY <1>0, <1>7, <2>3 DEF Servers
    <3>2. servers[FileOf[owner[s]]] = s \/ Stopping(s)
      BY <2>1, <3>1 DEF IInv, NoStrays
    <3>3. servers[f] = 0
      BY <1>1, <2>1 DEF IInv, Disjoint, Emptied
    <3>4. Stopping(s) => Stopping(s)'
      BY <1>1, <1>5 DEF Stopping
    <3>5. owner[s] \in Wallets
      BY <1>0, <3>1 DEF IInv, TypeOK
    <3> QED
      BY <1>8, <3>1, <3>2, <3>3, <3>4, <3>5, LifecycleAssumption
  <2> QED
    BY <2>2, <2>3
<1>17. \A s \in Servers : doStop'[s] => s <= created'
  BY <1>0, <1>1, <1>9 DEF Servers
<1> QED
  BY <1>1, <1>10, <1>12, <1>13, <1>14, <1>15, <1>16, <1>17 DEF IInv
-----------------------------------------------------------------------------
(* The other steps of an operation.                                        *)

\* Thread t is at work and goes on to k; no server is touched.
LEMMA OnwardStep ==
  ASSUME IInv, NEW t \in Threads, NEW k \in TaskType, Busy(t),
         task' = [task EXCEPT ![t] = k],
         UNCHANGED <<servers, serverVars, settingVars, openVars, raced, run, closing>>,
         queue' \in Seq(Callbacks), groups' \in [Files -> 0..created],
         Fits(k),
         Holds(t) <=> k.pc \in {"popgroup", "halt"} /\ k.server # 0,
         Holds(t) => k.server = task[t].server,
         k.pc # "idle" => k.wallet = task[t].wallet,
         k.pc \in PreStore => task[t].pc \in PreStore,
         ~raced /\ k.pc \in Emptied => servers[k.file] = 0
  PROVE  IInv'
<1>1. OutsideTyped
  BY DEF IInv, TypeOK, OutsideTyped, settingVars, openVars
<1>2. k.pc \in PreStore => Pending(t) = 1
  BY DEF Pending
<1>3. ASSUME ~raced', k.pc # "idle", NEW u \in Threads \ {t}, Busy(u)
      PROVE  ScopeOf(k.wallet) \cap Scope(u) = {}
  <2>1. Disjoint
    BY <1>3 DEF IInv
  <2>2. ScopeOf(k.wallet) = Scope(t)
    BY <1>3 DEF ScopeOf, Scope
  <2> QED
    BY <1>3, <2>1, <2>2 DEF Disjoint, Threads
<1> QED
  BY <1>1, <1>2, <1>3, OwnStep

\* What is known of a thread.
LEMMA TaskFacts ==
  ASSUME IInv, NEW t \in Threads
  PROVE  /\ task \in [Threads -> TaskType] /\ task[t] \in TaskType
         /\ created \in 0..Generations /\ Generations \in Nat
         /\ servers \in [Files -> 0..created] /\ groups \in [Files -> 0..created]
         /\ queue \in Seq(Callbacks) /\ Fits(task[t])
         /\ ~raced /\ task[t].pc \in Emptied => servers[task[t].file] = 0
BY LifecycleAssumption DEF IInv, TypeOK, TaskType, TaskOK, Disjoint

\* Of one that works for a wallet.
LEMMA WalletFacts ==
  ASSUME IInv, NEW t \in Threads, task[t].pc \in Steps \ Hooked
  PROVE  /\ task[t].wallet \in Wallets /\ task[t].file = FileOf[task[t].wallet]
         /\ task[t].file \in Files /\ task[t].todo \subseteq {task[t].file}
BY TaskFacts, LifecycleAssumption DEF TaskType, Fits

LEMMA IdleFits ==
  ASSUME IInv
  PROVE  Idle \in TaskType /\ Fits(Idle) /\ Idle.pc = "idle"
<1>1. created \in 0..Generations /\ Generations \in Nat
  BY LifecycleAssumption DEF IInv, TypeOK
<1> QED
  BY <1>1, LifecycleAssumption DEF Idle, TaskType, Steps, Fits, Hooked, Emptied

LEMMA ReadStep ==
  ASSUME IInv, NEW t \in Threads, Apply(t) \/ Check(t) \/ Look(t) \/ Get(t),
         UNCHANGED <<settingVars, openVars, raced>>
  PROVE  IInv'
<1> DEFINE k == task'[t]
<1>0. /\ task[t].pc \in {"apply", "check", "look", "get"}
      /\ UNCHANGED <<servers, groups, serverVars, run, queue, closing>>
  BY DEF Apply, Check, Look, Get, At, tableVars, loopVars
<1>1. /\ task \in [Threads -> TaskType] /\ task[t] \in TaskType /\ queue \in Seq(Callbacks)
      /\ groups \in [Files -> 0..created] /\ Fits(task[t])
  BY TaskFacts
<1>2. /\ task[t].wallet \in Wallets /\ task[t].file = FileOf[task[t].wallet]
      /\ task[t].file \in Files /\ task[t].todo \subseteq {task[t].file}
  BY <1>0, WalletFacts DEF Steps, Hooked
<1>3. Busy(t) /\ ~Holds(t) /\ task[t].pc \in PreStore
  BY <1>0 DEF Busy, Holds, PreStore
<1>4. ASSUME NEW p \in {"check", "look", "get"}, task' = [task EXCEPT ![t].pc = p]
      PROVE  IInv'
  <2> DEFINE kk == [task[t] EXCEPT !.pc = p]
  <2>1. kk \in TaskType /\ kk.pc = p /\ kk.wallet = task[t].wallet /\ kk.file = task[t].file
        /\ kk.todo = task[t].todo
    BY <1>1 DEF TaskType, Steps
  <2>2. Fits(kk) /\ p \notin Emptied /\ task' = [task EXCEPT ![t] = kk]
    BY <1>1, <1>2, <1>4, <2>1, LifecycleAssumption DEF Fits, Emptied
  <2> QED
    BY <1>0, <1>1, <1>3, <2>1, <2>2, OnwardStep
<1>5. ASSUME Ends(t) PROVE IInv'
  BY <1>0, <1>1, <1>3, <1>5, IdleFits, OnwardStep DEF Ends, Emptied, PreStore
<1>6. ASSUME NEW todo \in SUBSET {task[t].file}, NEW b \in BOOLEAN,
             task' = [task EXCEPT ![t] = [task[t] EXCEPT !.pc = "pop", !.todo = todo, !.starts = b]]
      PROVE  IInv'
  <2> DEFINE kk == [task[t] EXCEPT !.pc = "pop", !.todo = todo, !.starts = b]
  <2>1. kk \in TaskType /\ kk.pc = "pop" /\ kk.wallet = task[t].wallet /\ kk.file = task[t].file
        /\ kk.todo = todo
    BY <1>1, <1>2 DEF TaskType, Steps
  <2>2. Fits(kk) /\ "pop" \notin Emptied
    BY <1>1, <1>2, <2>1, LifecycleAssumption DEF Fits, Emptied
  <2> QED
    BY <1>0, <1>1, <1>3, <1>6, <2>1, <2>2, OnwardStep
<1>7. CASE Apply(t)
  BY <1>4, <1>7 DEF Apply, Goto
<1>8. CASE Check(t)
  BY <1>4, <1>5, <1>8 DEF Check, Goto
<1>9. CASE Look(t)
  <2>1. CASE Ends(t)
    BY <1>5, <2>1
  <2>2. CASE task' = [task EXCEPT ![t].pc = "pop", ![t].todo = Found(t)]
    <3>1. /\ Found(t) \in SUBSET {task[t].file} /\ task[t].starts \in BOOLEAN
          /\ task' = [task EXCEPT ![t] =
               [task[t] EXCEPT !.pc = "pop", !.todo = Found(t), !.starts = task[t].starts]]
      BY <1>1, <2>2 DEF Found, TaskType
    <3> QED
      BY <1>6, <3>1
  <2> QED
    BY <1>9, <2>1, <2>2 DEF Look
<1>10. CASE Get(t)
  <2>1. CASE Ends(t)
    BY <1>5, <2>1
  <2>2. CASE Replaces(t)
    BY <1>1, <1>6, <2>2 DEF Replaces
  <2>3. CASE servers[task[t].file] = 0 /\ Goto(t, "store")
    <3> DEFINE kk == [task[t] EXCEPT !.pc = "store"]
    <3>1. kk \in TaskType /\ kk.pc = "store" /\ kk.wallet = task[t].wallet
          /\ kk.file = task[t].file /\ kk.todo = task[t].todo
      BY <1>1 DEF TaskType, Steps
    <3>2. Fits(kk) /\ task' = [task EXCEPT ![t] = kk] /\ servers[kk.file] = 0
      BY <1>1, <1>2, <2>3, <3>1, LifecycleAssumption DEF Fits, Goto
    <3> QED
      BY <1>0, <1>1, <1>3, <3>1, <3>2, OnwardStep
  <2> QED
    BY <1>10, <2>1, <2>2, <2>3 DEF Get
<1> QED
  BY <1>7, <1>8, <1>9, <1>10

\* The end of a _stop_server.
LEMMA ProceedsStep ==
  ASSUME IInv, NEW t \in Threads, task[t].pc \in {"popgroup", "close"}, ~Holds(t),
         Proceeds(t), UNCHANGED <<servers, serverVars, settingVars, openVars, raced, run, closing>>,
         queue' \in Seq(Callbacks), groups' \in [Files -> 0..created]
  PROVE  IInv'
<1>1. /\ task \in [Threads -> TaskType] /\ task[t] \in TaskType /\ Fits(task[t])
      /\ ~raced => servers[task[t].file] = 0
  BY TaskFacts DEF Emptied
<1>2. Busy(t) /\ task[t].pc \in PreStore
  BY DEF Busy, PreStore
<1>3. ASSUME NEW p \in {"pop", "store"}, Goto(t, p), p = "store" => task[t].starts
      PROVE  IInv'
  <2> DEFINE kk == [task[t] EXCEPT !.pc = p]
  <2>1. kk \in TaskType /\ kk.pc = p /\ kk.wallet = task[t].wallet
        /\ kk.file = task[t].file /\ kk.todo = task[t].todo /\ kk.starts = task[t].starts
    BY <1>1 DEF TaskType, Steps
  <2>2. Fits(kk)
    BY <1>1, <1>3, <2>1 DEF Fits, Hooked, Emptied
  <2> QED
    BY <1>1, <1>2, <1>3, <2>1, <2>2, OnwardStep DEF Goto
<1>4. ASSUME Ends(t) PROVE IInv'
  BY <1>1, <1>2, <1>4, IdleFits, OnwardStep DEF Ends, Emptied, PreStore
<1> QED
  BY <1>3, <1>4 DEF Proceeds

LEMMA PopGroupStep ==
  ASSUME IInv, NEW t \in Threads, PopGroup(t), UNCHANGED <<settingVars, openVars, raced>>
  PROVE  IInv'
<1>1. /\ task \in [Threads -> TaskType] /\ task[t] \in TaskType /\ Fits(task[t])
      /\ queue \in Seq(Callbacks) /\ groups \in [Files -> 0..created] /\ created \in 0..Generations
      /\ Generations \in Nat
  BY TaskFacts
<1>2. /\ task[t].pc = "popgroup" /\ UNCHANGED <<servers, serverVars, run, queue, closing>>
      /\ groups' \in [Files -> 0..created]
  <2>1. groups' = [groups EXCEPT ![task[t].file] = 0] /\ 0 \in 0..created
    BY <1>1 DEF PopGroup
  <2>2. task[t].pc = "popgroup" /\ UNCHANGED <<servers, serverVars, run, queue, closing>>
    BY DEF PopGroup, At, loopVars
  <2> QED
    BY <1>1, <2>1, <2>2
<1>3. CASE task[t].server = 0 /\ Proceeds(t)
  BY <1>1, <1>2, <1>3, ProceedsStep DEF Holds
<1>4. CASE /\ task[t].server # 0
           /\ task' = [task EXCEPT ![t].pc = "halt", ![t].group = groups[task[t].file]]
  <2> DEFINE kk == [task[t] EXCEPT !.pc = "halt", !.group = groups[task[t].file]]
  <2>1. task[t].file \in Files
    BY <1>1, <1>2 DEF Fits, Emptied
  <2>2. kk \in TaskType /\ kk.pc = "halt" /\ kk.wallet = task[t].wallet
        /\ kk.file = task[t].file /\ kk.todo = task[t].todo /\ kk.starts = task[t].starts
        /\ kk.server = task[t].server
    BY <1>1, <2>1 DEF TaskType, Steps
  <2>3. Fits(kk) /\ task' = [task EXCEPT ![t] = kk]
    BY <1>1, <1>2, <1>4, <2>2 DEF Fits, Hooked, Emptied
  <2>4. Holds(t) /\ Busy(t) /\ task[t].pc \in PreStore
    BY <1>2, <1>4 DEF Holds, Busy, PreStore
  <2>5. ~raced => servers[kk.file] = 0
    BY <1>2, <2>2, TaskFacts DEF Emptied
  <2> QED
    BY <1>1, <1>2, <2>2, <2>3, <2>4, <2>5, <1>4, OnwardStep
<1> QED
  BY <1>3, <1>4 DEF PopGroup

\* What _run_async hands to the loop is a callback.
LEMMA Posted ==
  ASSUME IInv, NEW t \in Threads, task[t].server # 0, NEW what \in {"run", "close"},
         NEW g \in {task[t].server, task[t].group}, Post(what, task[t].server, g)
  PROVE  queue' \in Seq(Callbacks)
<1>1. task[t] \in TaskType /\ created \in 0..Generations /\ Generations \in Nat /\ queue \in Seq(Callbacks)
  BY TaskFacts
<1>2. task[t].server \in Servers /\ g \in 0..Generations
  BY <1>1 DEF TaskType, Servers
<1>3. [what |-> what, server |-> task[t].server, group |-> g] \in Callbacks
  BY <1>2 DEF Callbacks
<1> QED
  BY <1>1, <1>3 DEF Post

LEMMA PostStep ==
  ASSUME IInv, NEW t \in Threads, PostClose(t) \/ PostRun(t) \/ StoreGroup(t),
         UNCHANGED <<settingVars, openVars, raced>>
  PROVE  IInv'
<1>1. /\ task \in [Threads -> TaskType] /\ task[t] \in TaskType /\ Fits(task[t])
      /\ queue \in Seq(Callbacks) /\ groups \in [Files -> 0..created] /\ created \in 0..Generations
      /\ Generations \in Nat
  BY TaskFacts
<1>2. task[t].pc \in {"close", "run", "group"} /\ task[t].server # 0
  BY <1>1 DEF PostClose, PostRun, StoreGroup, At, Fits
<1>3. CASE PostClose(t)
  <2>1. queue' \in Seq(Callbacks) /\ UNCHANGED <<run, closing>>
    BY <1>2, <1>3, Posted DEF PostClose, Post
  <2>2. ~Holds(t) /\ task[t].pc = "close" /\ UNCHANGED <<servers, groups, serverVars>>
    BY <1>3 DEF Holds, PostClose, At, tableVars
  <2> QED
    BY <1>1, <1>3, <2>1, <2>2, ProceedsStep DEF PostClose
<1>4. CASE PostRun(t)
  <2>1. queue' \in Seq(Callbacks) /\ UNCHANGED <<run, closing>>
    BY <1>2, <1>4, Posted DEF PostRun, Post
  <2>2. ~Holds(t) /\ Busy(t) /\ UNCHANGED <<servers, groups, serverVars>>
    BY <1>4 DEF Holds, PostRun, At, tableVars, Busy
  <2> QED
    BY <1>1, <1>4, <2>1, <2>2, IdleFits, OnwardStep DEF PostRun, Ends, Emptied, PreStore
<1>5. CASE StoreGroup(t)
  <2> DEFINE kk == [task[t] EXCEPT !.pc = "run"]
  <2>1. /\ task[t].pc = "group" /\ UNCHANGED <<servers, serverVars, run, queue, closing>>
        /\ groups' = [groups EXCEPT ![task[t].file] = task[t].server]
        /\ task' = [task EXCEPT ![t] = kk]
    BY <1>5 DEF StoreGroup, At, Goto, loopVars
  <2>2. groups' \in [Files -> 0..created]
    BY <1>1, <2>1 DEF TaskType
  <2>3. kk \in TaskType /\ kk.pc = "run" /\ kk.wallet = task[t].wallet
        /\ kk.file = task[t].file /\ kk.todo = task[t].todo /\ kk.starts = task[t].starts
        /\ kk.server = task[t].server
    BY <1>1 DEF TaskType, Steps
  <2>4. Fits(kk) /\ "run" \notin Emptied /\ "run" \notin PreStore
    BY <1>1, <2>1, <2>3 DEF Fits, Hooked, Emptied, PreStore
  <2>5. ~Holds(t) /\ Busy(t)
    BY <2>1 DEF Holds, Busy
  <2> QED
    BY <1>1, <2>1, <2>2, <2>3, <2>4, <2>5, OnwardStep
<1> QED
  BY <1>3, <1>4, <1>5
-----------------------------------------------------------------------------
(* How an operation begins.                                                *)

\* A wallet's, or the end of the plugin.
LEMMA BeginStep ==
  ASSUME IInv, NEW t \in Threads, NEW w, NEW step, NEW todo, Begin(t, w, step, todo),
         \/ w \in Wallets /\ step \in {"apply", "check", "look"} /\ todo = {}
         \/ w = Nobody /\ step \in {"idle", "pop"} /\ todo \in SUBSET Files,
         override' \in [Files -> {"unset", "on", "off"}], offers' \subseteq Files,
         loaded' \in [Files -> Wallets \cup {Nobody}], used' \subseteq Wallets,
         disabled' \in BOOLEAN, unheard' \subseteq Files, lightning' \subseteq Files
  PROVE  IInv'
<1> DEFINE k == [Idle EXCEPT !.pc = step, !.wallet = w, !.todo = todo,
                    !.file = IF w = Nobody THEN Nobody ELSE FileOf[w]]
<1>1. /\ task[t].pc = "idle" /\ task' = [task EXCEPT ![t] = k]
      /\ created + Underway("gui") + Underway("loop") < Generations
      /\ UNCHANGED <<build, servers, groups, serverVars, run, queue, closing>>
  BY DEF Begin, Busy, tableVars, loopVars
<1>2. OutsideTyped
  <2>1. raced' \in BOOLEAN
    BY DEF Begin, IInv, TypeOK
  <2> QED
    BY <1>1, <2>1 DEF OutsideTyped, IInv, TypeOK
<1>3. step \in Steps /\ w \in Wallets \cup {Nobody} /\ todo \in SUBSET Files
  BY DEF Steps
<1>4. /\ k \in TaskType /\ k.wallet = w /\ k.pc = step /\ k.todo = todo /\ ~k.starts
      /\ k.file = IF w = Nobody THEN Nobody ELSE FileOf[w]
  <2>1. Idle \in TaskType /\ ~Idle.starts
    BY IdleFits DEF Idle
  <2>2. (IF w = Nobody THEN Nobody ELSE FileOf[w]) \in Files \cup {Nobody}
    BY <1>3, LifecycleAssumption
  <2> QED
    BY <1>3, <2>1, <2>2 DEF TaskType
<1>5. Fits(k) /\ k.pc \notin Emptied /\ k.pc \notin {"popgroup", "halt"} /\ k.wallet = w
  <2>2. k.wallet \in Wallets => k.file = FileOf[k.wallet]
    BY <1>4, LifecycleAssumption
  <2>3. step \notin Emptied /\ step \notin {"popgroup", "halt", "close", "group", "run"}
    BY DEF Emptied
  <2>4. w = Nobody => step \in Hooked
    BY LifecycleAssumption DEF Hooked
  <2>5. w \in Wallets => todo = {}
    BY LifecycleAssumption
  <2> HIDE DEF k
  <2> QED
    BY <1>4, <2>2, <2>3, <2>4, <2>5 DEF Fits
<1>6. ~Holds(t)
  BY <1>1 DEF Holds
<1>7. created + Pending("gui") + Pending("loop") < Generations
  <2>0. created \in 0..Generations /\ Generations \in Nat /\ groups \in [Files -> 0..created]
    BY TaskFacts
  <2>1. \A u \in Threads : Pending(u) \in 0..1 /\ Underway(u) \in 0..1 /\ Pending(u) <= Underway(u)
    BY DEF Pending, Underway, Busy, PreStore
  <2>2. /\ Pending("gui") \in 0..1 /\ Pending("loop") \in 0..1
        /\ Underway("gui") \in 0..1 /\ Underway("loop") \in 0..1
        /\ Pending("gui") <= Underway("gui") /\ Pending("loop") <= Underway("loop")
    BY <2>1 DEF Threads
  <2> HIDE DEF Underway, Pending
  <2> QED
    BY <1>1, <2>0, <2>2
<1>8. ASSUME ~raced'
      PROVE  ~raced /\ \A u \in Threads \ {t} : Busy(u) => ScopeOf(w) \cap Scope(u) = {}
  BY <1>8 DEF Begin, ScopeOf
<1>9. groups \in [Files -> 0..created]
  BY TaskFacts
<1> HIDE DEF k
<1> QED
  BY <1>1, <1>2, <1>4, <1>5, <1>6, <1>7, <1>8, <1>9, OwnStep

LEMMA BeginsStep == IInv /\ Begins => IInv'
<1> SUFFICES ASSUME IInv, Begins PROVE IInv'
  OBVIOUS
<1>1. /\ override \in [Files -> {"unset", "on", "off"}] /\ offers \subseteq Files
      /\ loaded \in [Files -> Wallets \cup {Nobody}] /\ used \subseteq Wallets
      /\ disabled \in BOOLEAN /\ unheard \subseteq Files /\ lightning \subseteq Files
  BY DEF IInv, TypeOK
<1>2. ASSUME NEW w \in Wallets, Opens(w) PROVE IInv'
  <2>1. HookThread \in Threads /\ Begin(HookThread, w, "check", {})
    BY <1>2 DEF Opens, HookThread, Threads
  <2>2. /\ override' \in [Files -> {"unset", "on", "off"}] /\ offers' \subseteq Files
        /\ loaded' \in [Files -> Wallets \cup {Nobody}] /\ used' \subseteq Wallets
        /\ disabled' \in BOOLEAN /\ unheard' \subseteq Files /\ lightning' \subseteq Files
    BY <1>1, <1>2 DEF Opens
  <2> QED
    BY <2>1, <2>2, BeginStep
<1>3. ASSUME NEW w \in Wallets, Closes(w) PROVE IInv'
  <2>1. "gui" \in Threads /\ Begin("gui", w, "look", {})
    BY <1>3 DEF Closes, Threads
  <2>2. /\ override' \in [Files -> {"unset", "on", "off"}] /\ offers' \subseteq Files
        /\ loaded' \in [Files -> Wallets \cup {Nobody}] /\ used' \subseteq Wallets
        /\ disabled' \in BOOLEAN /\ unheard' \subseteq Files /\ lightning' \subseteq Files
    BY <1>1, <1>3 DEF Closes
  <2> QED
    BY <2>1, <2>2, BeginStep
<1>4. ASSUME NEW w \in Wallets, ClosesUnseen(w) PROVE IInv'
  <2>1. /\ UNCHANGED <<tableVars, serverVars, loopVars, task, build, used, disabled, override, offers,
                     lightning>>
        /\ raced => raced'
    BY <1>4 DEF ClosesUnseen
  <2>2. /\ loaded' \in [Files -> Wallets \cup {Nobody}] /\ unheard' \subseteq Files
        /\ raced' \in BOOLEAN
    BY <1>1, <1>4, LifecycleAssumption DEF ClosesUnseen, IInv, TypeOK
  <2>3. OutsideTyped
    BY <1>1, <2>1, <2>2 DEF OutsideTyped, IInv, TypeOK, loopVars
  <2> QED
    BY <2>1, <2>3, OutsideStep
<1>5. ASSUME NEW t \in Threads, NEW w \in Wallets, NEW v \in {"unset", "on", "off"},
             SetsEnabled(t, w, v)
      PROVE  IInv'
  <2>1. Begin(t, w, "apply", {})
    BY <1>5 DEF SetsEnabled
  <2>2. /\ override' \in [Files -> {"unset", "on", "off"}] /\ offers' \subseteq Files
        /\ loaded' \in [Files -> Wallets \cup {Nobody}] /\ used' \subseteq Wallets
        /\ disabled' \in BOOLEAN /\ unheard' \subseteq Files /\ lightning' \subseteq Files
    BY <1>1, <1>5 DEF SetsEnabled
  <2> QED
    BY <2>1, <2>2, BeginStep
<1>6. ASSUME NEW t \in Threads, Disables(t) PROVE IInv'
  <2> DEFINE all == {f \in Files : servers[f] # 0}
  <2>1. Begin(t, Nobody, IF all = {} THEN "idle" ELSE "pop", all)
    BY <1>6 DEF Disables
  <2>2. /\ override' \in [Files -> {"unset", "on", "off"}] /\ offers' \subseteq Files
        /\ loaded' \in [Files -> Wallets \cup {Nobody}] /\ used' \subseteq Wallets
        /\ disabled' \in BOOLEAN /\ unheard' \subseteq Files /\ lightning' \subseteq Files
    BY <1>1, <1>6 DEF Disables, settingVars
  <2>3. all \in SUBSET Files /\ (IF all = {} THEN "idle" ELSE "pop") \in {"idle", "pop"}
    OBVIOUS
  <2> QED
    BY <2>1, <2>2, <2>3, BeginStep
<1>7. ASSUME NEW f \in Files, OffersChange(f) PROVE IInv'
  <2>1. UNCHANGED <<override, lightning, openVars, tableVars, serverVars, loopVars, task, raced>>
    BY <1>7 DEF OffersChange
  <2>2. offers' \subseteq Files /\ unheard' \subseteq Files
    BY <1>1, <1>7 DEF OffersChange
  <2>3. OutsideTyped
    BY <1>1, <2>1, <2>2 DEF OutsideTyped, IInv, TypeOK, loopVars, openVars
  <2> QED
    BY <2>1, <2>3, OutsideStep
<1>8. ASSUME NEW f \in Files, GetsLightning(f) PROVE IInv'
  <2>1. UNCHANGED <<override, offers, openVars, tableVars, serverVars, loopVars, task, raced>>
    BY <1>8 DEF GetsLightning
  <2>2. lightning' \subseteq Files /\ unheard' \subseteq Files
    BY <1>1, <1>8 DEF GetsLightning
  <2>3. OutsideTyped
    BY <1>1, <2>1, <2>2 DEF OutsideTyped, IInv, TypeOK, loopVars, openVars
  <2> QED
    BY <2>1, <2>3, OutsideStep
<1> QED
  BY <1>2, <1>3, <1>4, <1>5, <1>6, <1>7, <1>8 DEF Begins

-----------------------------------------------------------------------------
LEMMA ThreadStepKeeps ==
  ASSUME IInv, NEW t \in Threads, ThreadStep(t)
  PROVE  IInv'
BY ReadStep, PopServerStep, PopGroupStep, HaltStep, StoreStep, PostStep DEF ThreadStep

\* The loop changes only what it runs.
LEMMA LoopKeeps ==
  ASSUME IInv, UNCHANGED <<settingVars, openVars, tableVars, serverVars, task, raced>>,
         RunStarts \/ CloseStarts \/ CloseEnds \/ RunReturns \/ RunFails
  PROVE  IInv'
<1>1. /\ queue \in Seq(Callbacks) /\ closing \subseteq Callbacks
      /\ run \in [Servers -> {"none", "running", "over", "failed"}]
  BY DEF IInv, TypeOK
<1>2. queue # <<>> => Head(queue) \in Callbacks /\ Tail(queue) \in Seq(Callbacks)
  BY <1>1
<1>3. queue' \in Seq(Callbacks)
  BY <1>1, <1>2 DEF RunStarts, CloseStarts, CloseEnds, RunReturns, RunFails
<1>4. closing' \subseteq Callbacks
  BY <1>1, <1>2 DEF RunStarts, CloseStarts, CloseEnds, RunReturns, RunFails
<1>5. run' \in [Servers -> {"none", "running", "over", "failed"}]
  BY <1>1 DEF RunStarts, CloseStarts, CloseEnds, RunReturns, RunFails, Cancels
<1>6. OutsideTyped
  BY <1>3, <1>4, <1>5 DEF OutsideTyped, IInv, TypeOK, settingVars, openVars
<1> QED
  BY <1>6, OutsideStep

LEMMA Inductive == IInv /\ [Next]_vars => IInv'
<1> SUFFICES ASSUME IInv, [Next]_vars PROVE IInv'
  OBVIOUS
<1>1. CASE Begins
  BY <1>1, BeginsStep
<1>2. ASSUME NEW t \in Threads, ThreadStep(t) PROVE IInv'
  BY <1>2, ThreadStepKeeps
<1>3. CASE \/ LoopStep(RunStarts) \/ LoopStep(CloseStarts) \/ LoopStep(CloseEnds)
          \/ LoopStep(RunReturns) \/ LoopStep(RunFails)
  BY <1>3, LoopKeeps DEF LoopStep
<1>4. CASE UNCHANGED vars
  <2>1. UNCHANGED <<settingVars, openVars, tableVars, serverVars, loopVars, task, raced>>
    BY <1>4 DEF vars
  <2>2. OutsideTyped
    BY <2>1 DEF OutsideTyped, IInv, TypeOK, settingVars, openVars, loopVars
  <2> QED
    BY <2>1, <2>2, OutsideStep
<1> QED
  BY <1>1, <1>2, <1>3, <1>4 DEF Next

\* Types, and: a server in self._servers belongs to the file it is listed under
\* and was not told to stop, for any number of wallets and however the GUI thread
\* and the loop interleave in start_plugin and _stop_server.
THEOREM TypeCorrect == Spec => []TypeOK
<1>1. IInv => TypeOK
  BY DEF IInv
<1> QED
  BY <1>1, InitIInv, Inductive, PTL DEF Spec

\* A server that was not told to stop is the one self._servers lists for its file,
\* or a thread is about to stop it, until two threads have met on one file: no
\* order of loads, closes, toggles and commands leaves a second server listening.
THEOREM NoStraysEver == Spec => []NoStrays
<1>1. IInv => NoStrays
  BY DEF IInv
<1> QED
  BY <1>1, InitIInv, Inductive, PTL DEF Spec

-----------------------------------------------------------------------------
(* What each step of a thread does to that thread.                         *)

\* The other threads stay where they are, and t is at step p with its job.
Only(t) == \A u \in Threads \ {t} : task'[u] = task[u]
SameJob(t) ==
  /\ task'[t].wallet = task[t].wallet /\ task'[t].file = task[t].file
  /\ task'[t].starts = task[t].starts
SameStop(t) ==
  /\ task'[t].todo = task[t].todo /\ task'[t].server = task[t].server
  /\ task'[t].group = task[t].group
LandsAt(t, p) == Only(t) /\ task'[t].pc = p /\ SameJob(t) /\ SameStop(t)
LandsIdle(t) == Only(t) /\ task'[t] = Idle

LEMMA Landing ==
  ASSUME IInv, NEW t \in Threads
  PROVE  /\ \A p \in Steps : Goto(t, p) => LandsAt(t, p)
         /\ Ends(t) => LandsIdle(t)
         /\ Proceeds(t) =>
              \/ task[t].todo # {} /\ LandsAt(t, "pop")
              \/ task[t].todo = {} /\ task[t].starts /\ LandsAt(t, "store")
              \/ task[t].todo = {} /\ ~task[t].starts /\ LandsIdle(t)
<1>1. task \in [Threads -> TaskType] /\ task[t] \in TaskType
  BY TaskFacts
<1>2. ASSUME NEW p \in Steps, Goto(t, p) PROVE LandsAt(t, p)
  BY <1>1, <1>2 DEF Goto, LandsAt, Only, SameJob, SameStop, TaskType
<1>3. Ends(t) => LandsIdle(t)
  BY <1>1 DEF Ends, LandsIdle, Only
<1>4. "pop" \in Steps /\ "store" \in Steps
  BY DEF Steps
<1> QED
  BY <1>2, <1>3, <1>4 DEF Proceeds

\* Two threads at work have no file in common until they have met.
LEMMA FilesApart ==
  ASSUME IInv, ~raced, NEW t \in Threads, NEW u \in Threads, t # u, Busy(t), Busy(u),
         NEW f \in Files, f = task[t].file \/ f \in task[t].todo
  PROVE  f # task[u].file /\ f \notin task[u].todo
<1>1. Scope(t) \cap Scope(u) = {}
  BY DEF IInv, Disjoint, Threads
<1>2. ASSUME NEW v \in Threads, f = task[v].file \/ f \in task[v].todo
      PROVE  f \in Scope(v)
  BY <1>2, TaskFacts DEF Scope, Fits, TaskType
<1> QED
  BY <1>1, <1>2

\* While t works for a wallet, its file is one and its todo no other.
LEMMA OfWallet ==
  ASSUME IInv, NEW t \in Threads, task[t].wallet # Nobody
  PROVE  /\ task[t].wallet \in Wallets /\ task[t].file = FileOf[task[t].wallet]
         /\ task[t].file \in Files /\ task[t].todo \subseteq {task[t].file}
BY TaskFacts, LifecycleAssumption DEF TaskType, Fits

-----------------------------------------------------------------------------
(* The two dictionaries name the same servers.                             *)

\* Where a thread stands between its accesses to the two dictionaries; a stop
\* takes the group of the server it took.
ThreadTables(t) ==
  /\ task[t].pc = "popgroup" => groups[task[t].file] = task[t].server
  /\ task[t].pc \in {"halt", "close"} => task[t].group = task[t].server
  /\ task[t].pc \in {"group", "run"} =>
       servers[task[t].file] = task[t].server /\ owner[task[t].server] = task[t].wallet
  /\ task[t].pc \in {"popgroup", "halt", "close"} /\ task[t].wallet # Nobody =>
       task[t].todo = {}
Between(f) == \E t \in Threads : task[t].pc \in {"popgroup", "group"} /\ task[t].file = f
Tables ==
  /\ \A t \in Threads : ThreadTables(t)
  /\ \A f \in Files : groups[f] = servers[f] \/ Between(f)

\* A step that changes neither them nor the place of a thread between them.
LEMMA TablesKept ==
  ASSUME Tables, UNCHANGED <<servers, groups, owner>>,
         NEW t \in Threads, Only(t),
         task'[t].pc \notin {"popgroup", "halt", "close", "group", "run"} \/ task'[t] = task[t],
         task[t].pc \notin {"popgroup", "group"} \/ task'[t] = task[t]
  PROVE  Tables'
<1>1. \A u \in Threads : ThreadTables(u)'
  <2>1. ASSUME NEW u \in Threads, task'[u] = task[u] PROVE ThreadTables(u)'
    BY <2>1 DEF Tables, ThreadTables
  <2>2. task'[t] # task[t] => ThreadTables(t)'
    BY DEF ThreadTables
  <2> QED
    BY <2>1, <2>2 DEF Only
<1>2. \A f \in Files : Between(f) => Between(f)'
  BY DEF Between, Only
<1> QED
  BY <1>1, <1>2 DEF Tables

LEMMA TablesPopServer ==
  ASSUME IInv, ~raced, Tables, NEW t \in Threads, PopServer(t)
  PROVE  Tables'
<1>1. /\ task \in [Threads -> TaskType] /\ task[t] \in TaskType /\ created \in 0..Generations
      /\ servers \in [Files -> 0..created] /\ task[t].pc = "pop" /\ Busy(t)
      /\ groups' = groups /\ owner' = owner
  BY TaskFacts DEF PopServer, serverVars, At, Busy
<1>2. PICK f \in task[t].todo :
        /\ task' = [task EXCEPT ![t].pc = "popgroup", ![t].file = f,
                      ![t].server = servers[f], ![t].todo = @ \ {f}]
        /\ servers' = [servers EXCEPT ![f] = 0]
  BY DEF PopServer, Popped
<1>3. f \in Files
  BY <1>1 DEF TaskType
<1>4. /\ task'[t].pc = "popgroup" /\ task'[t].file = f /\ task'[t].server = servers[f]
      /\ task'[t].todo = task[t].todo \ {f} /\ task'[t].wallet = task[t].wallet
      /\ \A u \in Threads \ {t} : task'[u] = task[u]
  BY <1>1, <1>2 DEF TaskType
<1>5. servers'[f] = 0 /\ \A g \in Files \ {f} : servers'[g] = servers[g]
  BY <1>1, <1>2, <1>3
<1>6. \A u \in Threads \ {t} : Busy(u) => task[u].file # f
  BY <1>1, <1>3, FilesApart
<1>7. ThreadTables(t)'
  <2>1. ~Between(f)
    BY <1>1, <1>6 DEF Between, Busy
  <2>2. groups[f] = servers[f]
    BY <1>3, <2>1 DEF Tables
  <2>3. task[t].wallet # Nobody => task[t].todo \ {f} = {}
    BY OfWallet
  <2> QED
    BY <1>1, <1>4, <2>2, <2>3 DEF ThreadTables
<1>8. \A u \in Threads \ {t} : ThreadTables(u)'
  <2> SUFFICES ASSUME NEW u \in Threads \ {t} PROVE ThreadTables(u)'
    OBVIOUS
  <2>1. ASSUME task[u].pc \in {"group", "run"}
        PROVE  servers'[task[u].file] = servers[task[u].file]
    <3>1. task[u].file \in Files
      BY <2>1, WalletFacts DEF Steps, Hooked
    <3> QED
      BY <1>5, <1>6, <2>1, <3>1 DEF Busy
  <2> QED
    BY <1>1, <1>4, <2>1 DEF Tables, ThreadTables
<1>9. \A g \in Files : groups'[g] = servers'[g] \/ Between(g)'
  <2> SUFFICES ASSUME NEW g \in Files, g # f, Between(g) \/ groups[g] = servers[g]
               PROVE  groups'[g] = servers'[g] \/ Between(g)'
    BY <1>4 DEF Between, Tables
  <2>1. Between(g) => Between(g)'
    BY <1>1, <1>4 DEF Between
  <2> QED
    BY <1>1, <1>5, <2>1
<1> QED
  BY <1>7, <1>8, <1>9 DEF Tables

LEMMA TablesPopGroup ==
  ASSUME IInv, ~raced, Tables, NEW t \in Threads, PopGroup(t)
  PROVE  Tables'
<1> DEFINE f == task[t].file
<1>1. /\ task \in [Threads -> TaskType] /\ task[t] \in TaskType
      /\ groups \in [Files -> 0..created] /\ task[t].pc = "popgroup" /\ Busy(t)
      /\ servers' = servers /\ owner' = owner
      /\ groups' = [groups EXCEPT ![f] = 0]
  BY TaskFacts DEF PopGroup, serverVars, At, Busy
<1>2. f \in Files /\ servers[f] = 0
  BY <1>1, TaskFacts DEF Fits, Emptied
<1>3. groups'[f] = 0 /\ \A g \in Files \ {f} : groups'[g] = groups[g]
  BY <1>1, <1>2
<1>4. /\ Only(t) /\ task'[t].pc \in {"pop", "store", "idle", "halt"}
      /\ task'[t].pc = "halt" => /\ task'[t].group = groups[f]
                                 /\ SameJob(t) /\ task'[t].server = task[t].server
                                 /\ task'[t].todo = task[t].todo
  <2>1. CASE Proceeds(t)
    BY <2>1, Landing DEF LandsAt, LandsIdle, Idle
  <2>2. CASE task' = [task EXCEPT ![t].pc = "halt", ![t].group = groups[f]]
    BY <1>1, <2>2 DEF Only, SameJob, TaskType
  <2> QED
    BY <2>1, <2>2 DEF PopGroup
<1>5. ThreadTables(t)'
  BY <1>1, <1>4 DEF Tables, ThreadTables, SameJob
<1>6. \A u \in Threads \ {t} : ThreadTables(u)'
  <2> SUFFICES ASSUME NEW u \in Threads \ {t} PROVE ThreadTables(u)'
    OBVIOUS
  <2>1. task'[u] = task[u]
    BY <1>4 DEF Only
  <2>2. ASSUME task[u].pc = "popgroup"
        PROVE  groups'[task[u].file] = groups[task[u].file]
    <3>1. task[u].file \in Files /\ Busy(u)
      BY <2>2, TaskFacts DEF Fits, Emptied, Busy
    <3> QED
      BY <1>1, <1>2, <1>3, <3>1, FilesApart
  <2> QED
    BY <1>1, <2>1, <2>2 DEF Tables, ThreadTables
<1>7. \A g \in Files : groups'[g] = servers'[g] \/ Between(g)'
  <2> SUFFICES ASSUME NEW g \in Files, g # f PROVE groups'[g] = servers'[g] \/ Between(g)'
    BY <1>1, <1>2, <1>3
  <2>1. Between(g) => Between(g)'
    BY <1>4 DEF Between, Only
  <2> QED
    BY <1>1, <1>3, <2>1 DEF Tables
<1> QED
  BY <1>5, <1>6, <1>7 DEF Tables

LEMMA TablesStore ==
  ASSUME IInv, ~raced, Tables, NEW t \in Threads, Store(t) \/ StoreGroup(t)
  PROVE  Tables'
<1> DEFINE f == task[t].file
<1>1. /\ task \in [Threads -> TaskType] /\ task[t] \in TaskType /\ created \in 0..Generations
      /\ Generations \in Nat /\ task[t].pc \in {"store", "group"} /\ Busy(t)
      /\ servers \in [Files -> 0..created] /\ groups \in [Files -> 0..created]
      /\ owner \in [Servers -> Wallets \cup {Nobody}]
  BY TaskFacts DEF Store, StoreGroup, At, Busy, IInv, TypeOK
<1>2. f \in Files /\ task[t].wallet \in Wallets
  BY <1>1, WalletFacts DEF Steps, Hooked
<1>3. ASSUME NEW u \in Threads \ {t}, task[u].pc \in {"popgroup", "group", "run"}
      PROVE  task[u].file \in Files /\ task[u].file # f
  <2>1. Busy(u) /\ task[u].file \in Files
    BY <1>3, TaskFacts, WalletFacts DEF Busy, Fits, Emptied, Steps, Hooked
  <2> QED
    BY <1>1, <1>2, <2>1, FilesApart
<1>4. CASE Store(t)
  <2> DEFINE n == created + 1
  <2>1. /\ UNCHANGED <<groups, doStop>> /\ task[t].pc = "store"
        /\ owner' = [owner EXCEPT ![n] = task[t].wallet]
        /\ servers' = [servers EXCEPT ![f] = n]
        /\ task' = [task EXCEPT ![t].pc = "group", ![t].server = n]
    BY <1>4 DEF Store, At
  <2>2. n \in Servers
    <3>1. Bounded /\ Pending(t) = 1 /\ \A u \in Threads : Pending(u) \in 0..1
      BY <2>1 DEF IInv, Pending, PreStore
    <3> QED
      BY <1>1, <3>1 DEF Bounded, Servers, Threads
  <2>3. /\ task'[t].pc = "group" /\ task'[t].file = f /\ task'[t].server = n
        /\ task'[t].wallet = task[t].wallet /\ Only(t)
    BY <1>1, <2>1 DEF TaskType, Only
  <2>4. /\ servers'[f] = n /\ \A g \in Files \ {f} : servers'[g] = servers[g]
        /\ owner'[n] = task[t].wallet /\ \A s \in Servers \ {n} : owner'[s] = owner[s]
    BY <1>1, <1>2, <2>1, <2>2
  <2>5. ThreadTables(t)'
    BY <2>3, <2>4 DEF ThreadTables
  <2>6. ASSUME NEW u \in Threads \ {t} PROVE ThreadTables(u)'
    <3>1. task'[u] = task[u]
      BY <2>3 DEF Only
    <3>2. ASSUME task[u].pc \in {"group", "run"}
          PROVE  /\ servers'[task[u].file] = servers[task[u].file]
                 /\ owner'[task[u].server] = owner[task[u].server]
      <4>1. task[u].server \in Servers \ {n}
        <5>1. task[u].server \in 0..created /\ task[u].server # 0
          BY <3>2, TaskFacts DEF TaskType, Fits
        <5> QED
          BY <1>1, <5>1, TaskFacts DEF Servers
      <4> QED
        BY <1>3, <2>4, <3>2, <4>1
    <3> QED
      BY <2>1, <3>1, <3>2, ZenonT(60) DEF Tables, ThreadTables
  <2>7. ASSUME NEW g \in Files PROVE groups'[g] = servers'[g] \/ Between(g)'
    <3>1. CASE g = f
      BY <2>3, <3>1 DEF Between
    <3>2. CASE g # f
      <4>1. Between(g) => Between(g)'
        BY <2>1, <2>3 DEF Between, Only
      <4> QED
        BY <2>1, <2>4, <3>2, <4>1 DEF Tables
    <3> QED
      BY <3>1, <3>2
  <2> QED
    BY <2>5, <2>6, <2>7 DEF Tables
<1>5. CASE StoreGroup(t)
  <2>1. /\ UNCHANGED <<servers, owner>> /\ task[t].pc = "group"
        /\ groups' = [groups EXCEPT ![f] = task[t].server]
        /\ Only(t) /\ task'[t].pc = "run" /\ SameJob(t) /\ SameStop(t)
    BY <1>5, Landing DEF StoreGroup, At, serverVars, LandsAt, Steps
  <2>2. groups'[f] = task[t].server /\ \A g \in Files \ {f} : groups'[g] = groups[g]
    BY <1>1, <1>2, <2>1
  <2>3. servers[f] = task[t].server
    BY <2>1 DEF Tables, ThreadTables
  <2>4. ThreadTables(t)'
    BY <2>1 DEF Tables, ThreadTables, SameJob, SameStop
  <2>5. ASSUME NEW u \in Threads \ {t} PROVE ThreadTables(u)'
    <3>1. task'[u] = task[u]
      BY <2>1 DEF Only
    <3>2. task[u].pc = "popgroup" => groups'[task[u].file] = groups[task[u].file]
      BY <1>3, <2>2
    <3> QED
      BY <2>1, <3>1, <3>2 DEF Tables, ThreadTables
  <2>6. ASSUME NEW g \in Files PROVE groups'[g] = servers'[g] \/ Between(g)'
    <3>1. CASE g = f
      BY <2>1, <2>2, <2>3, <3>1
    <3>2. CASE g # f
      <4>1. Between(g) => Between(g)'
        BY <2>1, <3>2 DEF Between, Only
      <4> QED
        BY <2>1, <2>2, <3>2, <4>1 DEF Tables
    <3> QED
      BY <3>1, <3>2
  <2> QED
    BY <2>4, <2>5, <2>6 DEF Tables
<1> QED
  BY <1>4, <1>5

\* No two threads have met yet if they have not after the step.
LEMMA RacedStays == [Next]_vars /\ raced => raced'
<1> SUFFICES ASSUME [Next]_vars, raced PROVE raced'
  OBVIOUS
<1>1. CASE Begins
  BY <1>1 DEF Begins, Opens, Closes, ClosesUnseen, SetsEnabled, Disables, OffersChange,
     GetsLightning, Begin
<1>2. CASE \E t \in Threads : ThreadStep(t)
  BY <1>2 DEF ThreadStep
<1>3. CASE \/ LoopStep(RunStarts) \/ LoopStep(CloseStarts) \/ LoopStep(CloseEnds)
          \/ LoopStep(RunReturns) \/ LoopStep(RunFails)
  BY <1>3 DEF LoopStep
<1> QED
  BY <1>1, <1>2, <1>3 DEF Next, vars

\* How an operation begins: t was idle and has a wallet's job, or the plugin's end.
Began(t) ==
  /\ ~Busy(t) /\ Only(t) /\ task'[t].pc \in {"apply", "check", "look", "pop", "idle"}
  /\ UNCHANGED <<servers, groups, created, owner, doStop, run, queue, closing>>

LEMMA Beginning ==
  ASSUME IInv, NEW t \in Threads, NEW w, NEW step, NEW todo, Begin(t, w, step, todo)
  PROVE  /\ ~Busy(t) /\ Only(t) /\ ~disabled
         /\ task'[t].pc = step /\ task'[t].wallet = w /\ task'[t].todo = todo
         /\ task'[t].file = IF w = Nobody THEN Nobody ELSE FileOf[w]
         /\ ~task'[t].starts
         /\ UNCHANGED <<build, servers, groups, created, owner, doStop, run, queue, closing>>
<1>1. task \in [Threads -> TaskType]
  BY TaskFacts
<1> QED
  BY <1>1 DEF Begin, Only, Idle, tableVars, serverVars, loopVars

\* Every beginning is one of those; the other two change no thread.
LEMMA BeginsKinds ==
  ASSUME IInv, Begins
  PROVE  \/ \E t \in Threads : Began(t)
         \/ UNCHANGED <<tableVars, serverVars, loopVars, task>>
<1>1. HookThread \in Threads /\ "gui" \in Threads
  BY DEF HookThread, Threads
<1>2. ASSUME NEW t \in Threads, NEW w, NEW step \in {"apply", "check", "look", "pop", "idle"},
             NEW todo, Begin(t, w, step, todo)
      PROVE  Began(t)
  BY <1>2, Beginning DEF Began
<1> QED
  BY <1>1, <1>2 DEF Begins, Opens, Closes, ClosesUnseen, SetsEnabled, Disables, OffersChange,
     GetsLightning

\* A step that reads the setting or the dictionary.
LEMMA Reading ==
  ASSUME IInv, NEW t \in Threads, Apply(t) \/ Check(t) \/ Look(t) \/ Get(t)
  PROVE  /\ Busy(t) /\ Only(t) /\ task[t].pc \in {"apply", "check", "look", "get"}
         /\ task'[t].pc \in {"check", "look", "get", "pop", "store", "idle"}
         /\ UNCHANGED <<servers, groups, created, owner, doStop, run, queue, closing>>
<1>1. task \in [Threads -> TaskType] /\ task[t] \in TaskType
  BY TaskFacts
<1>2. Only(t) /\ task'[t].pc \in {"check", "look", "get", "pop", "store", "idle"}
  <2>1. \A p \in {"check", "look", "get", "store"} : Goto(t, p) => LandsAt(t, p)
    BY Landing DEF Steps
  <2>2. Ends(t) => LandsIdle(t)
    BY Landing
  <2>3. CASE task' = [task EXCEPT ![t].pc = "pop", ![t].todo = Found(t)] \/ Replaces(t)
    BY <1>1, <2>3 DEF Replaces, Only, TaskType
  <2> QED
    BY <2>1, <2>2, <2>3 DEF Apply, Check, Look, Get, LandsAt, LandsIdle, Idle
<1>3. /\ task[t].pc \in {"apply", "check", "look", "get"}
      /\ UNCHANGED <<servers, groups, created, owner, doStop, run, queue, closing>>
  BY DEF Apply, Check, Look, Get, At, tableVars, serverVars, loopVars
<1> QED
  BY <1>2, <1>3 DEF Busy

LEMMA TablesStep == IInv /\ Tables /\ [Next]_vars /\ ~raced' => Tables'
<1> SUFFICES ASSUME IInv, Tables, [Next]_vars, ~raced' PROVE Tables'
  OBVIOUS
<1>0. ~raced
  BY RacedStays
<1>1. CASE UNCHANGED <<tableVars, serverVars, task>>
  <2>1. UNCHANGED <<servers, groups, owner, task>>
    BY <1>1 DEF tableVars, serverVars
  <2> QED
    BY <2>1 DEF Tables, ThreadTables, Between
<1>2. ASSUME NEW t \in Threads, Began(t) PROVE Tables'
  BY <1>2, TablesKept DEF Began, Busy
<1>3. ASSUME NEW t \in Threads, ThreadStep(t) PROVE Tables'
  <2>1. CASE Apply(t) \/ Check(t) \/ Look(t) \/ Get(t)
    BY <2>1, Reading, TablesKept
  <2>2. CASE PostClose(t) \/ PostRun(t)
    <3>1. UNCHANGED <<servers, groups, owner>> /\ task[t].pc \in {"close", "run"}
      BY <2>2 DEF PostClose, PostRun, At, tableVars, serverVars
    <3>2. Only(t) /\ task'[t].pc \in {"pop", "store", "idle"}
      BY <2>2, Landing DEF PostClose, PostRun, LandsAt, LandsIdle, Idle
    <3> QED
      BY <3>1, <3>2, TablesKept
  <2>3. CASE Halt(t)
    <3>1. UNCHANGED <<servers, groups, owner>> /\ task[t].pc = "halt"
      BY <2>3 DEF Halt, At, tableVars
    <3>2. LandsAt(t, "close")
      BY <2>3, Landing DEF Halt, Steps
    <3>3. \A u \in Threads : ThreadTables(u)'
      BY <3>1, <3>2 DEF Tables, ThreadTables, LandsAt, Only, SameJob, SameStop
    <3>4. \A f \in Files : Between(f) => Between(f)'
      BY <3>1, <3>2 DEF Between, LandsAt, Only
    <3> QED
      BY <3>1, <3>3, <3>4 DEF Tables
  <2> QED
    BY <1>0, <1>3, <2>1, <2>2, <2>3, TablesPopServer, TablesPopGroup, TablesStore DEF ThreadStep
<1>4. CASE Begins
  BY <1>1, <1>2, <1>4, BeginsKinds
<1>5. CASE \/ LoopStep(RunStarts) \/ LoopStep(CloseStarts) \/ LoopStep(CloseEnds)
          \/ LoopStep(RunReturns) \/ LoopStep(RunFails)
  BY <1>1, <1>5 DEF LoopStep
<1>6. CASE UNCHANGED vars
  BY <1>1, <1>6 DEF vars
<1> QED
  BY <1>3, <1>4, <1>5, <1>6 DEF Next

-----------------------------------------------------------------------------
(* What is scheduled for each server.                                      *)

\* A thread is making s, or has told it to stop and not yet handed on its close;
\* a callback of s is queued; a close of s awaits its manager.
Making(s) == \E t \in Threads : task[t].pc \in {"group", "run"} /\ task[t].server = s
Telling(s) == \E t \in Threads : task[t].pc = "close" /\ task[t].server = s
Queued(what, s) == \E i \in 1..Len(queue) : queue[i].what = what /\ queue[i].server = s
Awaited(s) == \E c \in closing : c.server = s

\* The run of a server is queued once, before it began, and before any close.
QueueFits ==
  /\ \A i \in 1..Len(queue) :
       /\ queue[i].group = queue[i].server
       /\ queue[i].what = "run" => run[queue[i].server] = "none" /\ queue[i].server <= created
       /\ queue[i].what = "close" => doStop[queue[i].server]
  /\ \A i, j \in 1..Len(queue) :
       i < j /\ queue[i].server = queue[j].server => queue[j].what = "close"

\* A close that has begun cancels a group whose run has begun.
ClosingFits ==
  \A c \in closing : c.group = c.server /\ doStop[c.server] /\ run[c.server] # "none"

\* A server that was made will run, and one told to stop will be closed.
ServerFits(s) ==
  /\ run[s] = "none" /\ s <= created => Making(s) \/ Queued("run", s)
  /\ run[s] # "none" => s <= created
  /\ Making(s) => run[s] = "none" /\ ~Queued("run", s)
  /\ run[s] = "over" => doStop[s]
  /\ doStop[s] => run[s] \in {"over", "failed"} \/ Telling(s) \/ Queued("close", s) \/ Awaited(s)
  /\ Telling(s) => doStop[s]

Scheduled == QueueFits /\ ClosingFits /\ \A s \in Servers : ServerFits(s)

\* The queue grows at its end ...
LEMMA Appended ==
  ASSUME NEW c \in Callbacks, queue \in Seq(Callbacks), queue' = Append(queue, c)
  PROVE  /\ Len(queue) \in Nat /\ Len(queue') = Len(queue) + 1
         /\ queue'[Len(queue) + 1] = c
         /\ \A i \in 1..Len(queue) : queue'[i] = queue[i]
         /\ \A i \in 1..Len(queue') : i \in 1..Len(queue) \/ i = Len(queue) + 1
         /\ \A what, s : Queued(what, s)' <=>
                           Queued(what, s) \/ (c.what = what /\ c.server = s)
<1>1. /\ Len(queue) \in Nat /\ Len(queue') = Len(queue) + 1
      /\ queue'[Len(queue) + 1] = c
      /\ \A i \in 1..Len(queue) : queue'[i] = queue[i]
  OBVIOUS
<1>2. /\ \A i \in 1..Len(queue') : i \in 1..Len(queue) \/ i = Len(queue) + 1
      /\ 1..Len(queue) \subseteq 1..Len(queue') /\ Len(queue) + 1 \in 1..Len(queue')
  BY <1>1
<1>3. ASSUME NEW what, NEW s
      PROVE  Queued(what, s)' <=> Queued(what, s) \/ (c.what = what /\ c.server = s)
  BY <1>1, <1>2 DEF Queued
<1> QED
  BY <1>1, <1>2, <1>3

\* ... and shrinks at its head.
LEMMA Dropped ==
  ASSUME queue \in Seq(Callbacks), queue # <<>>, queue' = Tail(queue)
  PROVE  /\ Len(queue) \in Nat /\ 1 \in 1..Len(queue) /\ Head(queue) = queue[1]
         /\ Head(queue) \in Callbacks
         /\ \A i \in 1..Len(queue') : i + 1 \in 1..Len(queue) /\ queue'[i] = queue[i + 1]
         /\ \A what, s : Queued(what, s)' => Queued(what, s)
         /\ \A what, s : Queued(what, s) =>
              Queued(what, s)' \/ (Head(queue).what = what /\ Head(queue).server = s)
<1>1. /\ Len(queue) \in Nat /\ 1 \in 1..Len(queue) /\ Head(queue) = queue[1]
      /\ Head(queue) \in Callbacks /\ Len(queue') = Len(queue) - 1
      /\ \A i \in 1..Len(queue') : queue'[i] = queue[i + 1]
  OBVIOUS
<1>2. /\ \A i \in 1..Len(queue') : i + 1 \in 1..Len(queue)
      /\ \A i \in 1..Len(queue) : i = 1 \/ (i - 1 \in 1..Len(queue') /\ queue'[i - 1] = queue[i])
  BY <1>1
<1>3. ASSUME NEW what, NEW s, Queued(what, s)'
      PROVE  Queued(what, s)
  <2>1. PICK i \in 1..Len(queue') : queue'[i].what = what /\ queue'[i].server = s
    BY <1>3 DEF Queued
  <2>2. i + 1 \in 1..Len(queue) /\ queue[i + 1].what = what /\ queue[i + 1].server = s
    BY <1>1, <1>2, <2>1
  <2> QED
    BY <2>2 DEF Queued
<1>4. ASSUME NEW what, NEW s, Queued(what, s)
      PROVE  Queued(what, s)' \/ (Head(queue).what = what /\ Head(queue).server = s)
  <2>1. PICK i \in 1..Len(queue) : queue[i].what = what /\ queue[i].server = s
    BY <1>4 DEF Queued
  <2> QED
    BY <1>1, <1>2, <2>1 DEF Queued
<1> QED
  BY <1>1, <1>2, <1>3, <1>4

\* What is in the queue is a callback.
LEMMA QueueTypes ==
  ASSUME IInv
  PROVE  /\ queue \in Seq(Callbacks) /\ Len(queue) \in Nat
         /\ \A i \in 1..Len(queue) :
              /\ queue[i].server \in Servers /\ queue[i].what \in {"run", "close"}
              /\ queue[i].server \in Nat
<1>1. queue \in Seq(Callbacks) /\ Generations \in Nat
  BY LifecycleAssumption DEF IInv, TypeOK
<1>2. Len(queue) \in Nat /\ \A i \in 1..Len(queue) : queue[i] \in Callbacks
  BY <1>1
<1>3. \A c \in Callbacks : /\ c.server \in Servers /\ c.what \in {"run", "close"}
                           /\ c.server \in Nat
  BY <1>1 DEF Callbacks, Servers
<1> QED
  BY <1>1, <1>2, <1>3

\* The server a thread is making is registered, so it was not told to stop; nor
\* is another thread making it.
LEMMA MakingFacts ==
  ASSUME IInv, ~raced, Tables, NEW t \in Threads, task[t].pc \in {"group", "run"}
  PROVE  /\ task[t].server \in Servers /\ task[t].server <= created
         /\ ~doStop[task[t].server]
         /\ \A u \in Threads \ {t} :
              task[u].pc \in {"group", "run"} => task[u].server # task[t].server
<1>1. /\ task[t] \in TaskType /\ task[t].server # 0 /\ created \in 0..Generations
      /\ Generations \in Nat /\ task[t].file \in Files /\ Busy(t)
  BY TaskFacts, WalletFacts DEF Fits, Busy, Steps, Hooked
<1>2. servers[task[t].file] = task[t].server
  BY DEF Tables, ThreadTables
<1>3. FileOf[owner[task[t].server]] = task[t].file /\ ~doStop[task[t].server]
  BY <1>1, <1>2 DEF IInv, TypeOK, Registered
<1>4. ASSUME NEW u \in Threads \ {t}, task[u].pc \in {"group", "run"},
             task[u].server = task[t].server
      PROVE  FALSE
  <2>1. servers[task[u].file] = task[u].server /\ task[u].file \in Files /\ Busy(u)
    BY <1>4, WalletFacts DEF Tables, ThreadTables, Busy, Steps, Hooked
  <2>2. FileOf[owner[task[u].server]] = task[u].file
    BY <1>1, <1>4, <2>1 DEF IInv, TypeOK, Registered
  <2>3. task[u].file # task[t].file
    BY <1>1, <2>1, FilesApart
  <2> QED
    BY <1>3, <1>4, <2>2, <2>3
<1> QED
  BY <1>1, <1>3, <1>4 DEF TaskType, Servers

\* A step that schedules nothing, and tells and makes the same servers.
LEMMA ScheduleKept ==
  ASSUME Scheduled, UNCHANGED <<created, doStop, run, queue, closing>>,
         \A s \in Servers : (Making(s)' <=> Making(s)) /\ (Telling(s)' <=> Telling(s))
  PROVE  Scheduled'
<1>1. QueueFits' /\ ClosingFits'
  BY DEF Scheduled, QueueFits, ClosingFits
<1>2. \A s \in Servers : ServerFits(s)'
  BY DEF Scheduled, ServerFits, Queued, Awaited
<1> QED
  BY <1>1, <1>2 DEF Scheduled

\* In particular one whose thread neither comes to such a step nor leaves one.
LEMMA ScheduleAlike ==
  ASSUME Scheduled, UNCHANGED <<created, doStop, run, queue, closing>>,
         NEW t \in Threads, Only(t),
         task[t].pc \notin {"group", "run", "close"},
         task'[t].pc \notin {"group", "run", "close"}
  PROVE  Scheduled'
<1>1. \A s \in Servers : (Making(s)' <=> Making(s)) /\ (Telling(s)' <=> Telling(s))
  BY DEF Making, Telling, Only
<1> QED
  BY <1>1, ScheduleKept

\* do_stop is set, and the close is still to be handed on.
LEMMA ScheduledHalt ==
  ASSUME IInv, ~raced, Tables, Scheduled, NEW t \in Threads, Halt(t)
  PROVE  Scheduled'
<1> DEFINE h == task[t].server
<1>1. /\ task[t].pc = "halt" /\ LandsAt(t, "close")
      /\ doStop' = [doStop EXCEPT ![h] = TRUE]
      /\ UNCHANGED <<created, run, queue, closing>>
  BY Landing DEF Halt, At, loopVars, Steps
<1>2. h \in Servers /\ doStop \in [Servers -> BOOLEAN]
  <2>1. h \in 0..created /\ h # 0 /\ created \in 0..Generations /\ Generations \in Nat
    BY <1>1, TaskFacts DEF TaskType, Fits
  <2>2. h \in Servers
    BY <2>1 DEF Servers
  <2> QED
    BY <2>2 DEF IInv, TypeOK
<1>3. doStop'[h] /\ \A s \in Servers \ {h} : doStop'[s] = doStop[s]
  BY <1>1, <1>2
<1>4. \A s \in Servers : (Making(s)' <=> Making(s)) /\ (Telling(s)' <=> Telling(s) \/ s = h)
  BY <1>1 DEF Making, Telling, LandsAt, Only, SameStop
<1>5. queue \in Seq(Callbacks) /\ closing \subseteq Callbacks
  BY DEF IInv, TypeOK
<1>6. QueueFits'
  <2>1. \A i \in 1..Len(queue) : queue[i].server \in Servers
    BY QueueTypes
  <2> QED
    BY <1>1, <1>3, <2>1 DEF Scheduled, QueueFits
<1>7. ClosingFits'
  BY <1>1, <1>3, <1>5 DEF Scheduled, ClosingFits, Callbacks
<1>8. \A s \in Servers : ServerFits(s)'
  BY <1>1, <1>3, <1>4 DEF Scheduled, ServerFits, Queued, Awaited
<1> QED
  BY <1>6, <1>7, <1>8 DEF Scheduled

\* The close of a server goes to the end of the queue, behind its run.
LEMMA ScheduledPostClose ==
  ASSUME IInv, ~raced, Tables, Scheduled, NEW t \in Threads, PostClose(t)
  PROVE  Scheduled'
<1> DEFINE h == task[t].server
           c == [what |-> "close", server |-> h, group |-> task[t].group]
<1>1. /\ task[t].pc = "close" /\ Only(t) /\ task'[t].pc \in {"pop", "store", "idle"}
      /\ queue' = Append(queue, c) /\ UNCHANGED <<created, doStop, run, closing>>
  BY Landing DEF PostClose, Post, At, serverVars, LandsAt, LandsIdle, Idle
<1>2. /\ h \in Servers /\ c \in Callbacks /\ queue \in Seq(Callbacks)
      /\ c.what = "close" /\ c.server = h /\ c.group = h
  <2>1. /\ task[t] \in TaskType /\ h # 0 /\ created \in 0..Generations /\ Generations \in Nat
        /\ queue \in Seq(Callbacks)
    BY <1>1, TaskFacts DEF Fits
  <2>2. h \in Servers /\ h \in 0..Generations /\ task[t].group = h
    BY <1>1, <2>1 DEF TaskType, Servers, Tables, ThreadTables
  <2> QED
    BY <2>1, <2>2 DEF Callbacks
<1>3. doStop[h]
  BY <1>1, <1>2 DEF Scheduled, ServerFits, Telling
<1> HIDE DEF c
<1>4. /\ Len(queue) \in Nat /\ Len(queue') = Len(queue) + 1 /\ queue'[Len(queue) + 1] = c
      /\ \A i \in 1..Len(queue) : queue'[i] = queue[i]
      /\ \A i \in 1..Len(queue') : i \in 1..Len(queue) \/ i = Len(queue) + 1
      /\ \A what, s : Queued(what, s)' <=> Queued(what, s) \/ (c.what = what /\ c.server = s)
  BY <1>1, <1>2, Appended
<1>5. \A s \in Servers : /\ Making(s)' <=> Making(s)
                         /\ Telling(s)' => Telling(s)
                         /\ Telling(s) => Telling(s)' \/ s = h
  BY <1>1 DEF Making, Telling, Only
<1>6. QueueFits'
  <2>1. \A i \in 1..Len(queue') :
          /\ queue'[i].group = queue'[i].server
          /\ queue'[i].what = "run" =>
               run[queue'[i].server] = "none" /\ queue'[i].server <= created
          /\ queue'[i].what = "close" => doStop[queue'[i].server]
    BY <1>2, <1>3, <1>4 DEF Scheduled, QueueFits
  <2>2. ASSUME NEW i \in 1..Len(queue'), NEW j \in 1..Len(queue'), i < j,
               queue'[i].server = queue'[j].server
        PROVE  queue'[j].what = "close"
    <3>1. CASE j = Len(queue) + 1
      BY <1>2, <1>4, <3>1
    <3>2. CASE j \in 1..Len(queue)
      <4>1. i \in 1..Len(queue)
        BY <1>4, <2>2, <3>2
      <4> QED
        BY <1>4, <2>2, <3>2, <4>1 DEF Scheduled, QueueFits
    <3> QED
      BY <1>4, <3>1, <3>2
  <2> QED
    BY <1>1, <2>1, <2>2 DEF QueueFits
<1>7. ClosingFits'
  BY <1>1 DEF Scheduled, ClosingFits
<1>8. \A s \in Servers : ServerFits(s)'
  BY <1>1, <1>2, <1>4, <1>5 DEF Scheduled, ServerFits, Awaited
<1> QED
  BY <1>6, <1>7, <1>8 DEF Scheduled

\* A new server has no callback; its run will be queued by the thread that made it.
LEMMA ScheduledStore ==
  ASSUME IInv, Scheduled, NEW t \in Threads, Store(t)
  PROVE  Scheduled'
<1>1. /\ task \in [Threads -> TaskType] /\ task[t] \in TaskType /\ created \in 0..Generations
      /\ Generations \in Nat /\ queue \in Seq(Callbacks) /\ task[t].pc = "store"
      /\ created' = created + 1 /\ UNCHANGED <<doStop, run, queue, closing>>
      /\ task' = [task EXCEPT ![t].pc = "group", ![t].server = created + 1]
  BY TaskFacts DEF Store, At, loopVars
<1> PICK n \in Nat : n = created + 1
  BY <1>1
<1>2. n \in Servers /\ created' = n
  <2>1. Bounded /\ Pending(t) = 1 /\ \A u \in Threads : Pending(u) \in 0..1
    BY <1>1 DEF IInv, Pending, PreStore
  <2> QED
    BY <1>1, <2>1 DEF Bounded, Servers, Threads
<1>3. task'[t].pc = "group" /\ task'[t].server = n /\ Only(t)
  BY <1>1 DEF TaskType, Only
<1>4. \A s \in Servers : /\ Making(s)' <=> Making(s) \/ s = n
                         /\ Telling(s)' <=> Telling(s)
  BY <1>1, <1>3 DEF Making, Telling, Only
<1>5. /\ QueueFits' /\ ClosingFits'
      /\ \A s \in Servers : \A what : Queued(what, s)' <=> Queued(what, s)
  <2>1. \A i \in 1..Len(queue) : queue[i].server <= created => queue[i].server <= n
    BY <1>1, QueueTypes
  <2> QED
    BY <1>1, <1>2, <2>1 DEF Scheduled, QueueFits, ClosingFits, Queued
<1>6. ASSUME NEW s \in Servers, s # n PROVE ServerFits(s)'
  <2>1. s <= created' <=> s <= created
    BY <1>1, <1>6 DEF Servers
  <2> QED
    BY <1>1, <1>4, <1>5, <1>6, <2>1 DEF Scheduled, ServerFits, Awaited
<1>7. ServerFits(n)'
  <2>1. run[n] = "none"
    <3>1. run[n] # "none" => n <= created
      BY <1>2 DEF Scheduled, ServerFits
    <3> QED
      BY <1>1, <3>1
  <2>2. ~Queued("run", n)
    <3>1. \A i \in 1..Len(queue) : queue[i].what = "run" => queue[i].server <= created
      BY DEF Scheduled, QueueFits
    <3> QED
      BY <1>1, <3>1 DEF Queued
  <2>3. ~doStop[n]
    <3>1. doStop[n] => n <= created
      BY <1>2 DEF IInv
    <3> QED
      BY <1>1, <3>1
  <2>4. ~Telling(n)
    BY <1>2, <2>3 DEF Scheduled, ServerFits
  <2>5. n <= created'
    BY <1>1
  <2> QED
    BY <1>1, <1>2, <1>4, <1>5, <2>1, <2>2, <2>3, <2>4, <2>5 DEF ServerFits
<1> QED
  BY <1>5, <1>6, <1>7 DEF Scheduled

\* The run of a server is queued: it has no other callback there.
LEMMA ScheduledPostRun ==
  ASSUME IInv, ~raced, Tables, Scheduled, NEW t \in Threads, PostRun(t)
  PROVE  Scheduled'
<1> DEFINE n == task[t].server
           c == [what |-> "run", server |-> n, group |-> n]
<1>1. /\ task[t].pc = "run" /\ Only(t) /\ task'[t].pc = "idle"
      /\ queue' = Append(queue, c) /\ UNCHANGED <<created, doStop, run, closing>>
  BY Landing DEF PostRun, Post, At, serverVars, LandsIdle, Idle
<1>2. /\ n \in Servers /\ n <= created /\ ~doStop[n] /\ Making(n)
      /\ \A u \in Threads \ {t} : task[u].pc \in {"group", "run"} => task[u].server # n
  BY <1>1, MakingFacts DEF Making
<1>3. /\ c \in Callbacks /\ queue \in Seq(Callbacks)
      /\ c.what = "run" /\ c.server = n /\ c.group = n
  <2>1. n \in 0..Generations
    BY <1>2, LifecycleAssumption DEF Servers
  <2> QED
    BY <1>2, <2>1, QueueTypes DEF Callbacks
<1> HIDE DEF c
<1>4. /\ Len(queue) \in Nat /\ Len(queue') = Len(queue) + 1 /\ queue'[Len(queue) + 1] = c
      /\ \A i \in 1..Len(queue) : queue'[i] = queue[i]
      /\ \A i \in 1..Len(queue') : i \in 1..Len(queue) \/ i = Len(queue) + 1
      /\ \A what, s : Queued(what, s)' <=> Queued(what, s) \/ (c.what = what /\ c.server = s)
  BY <1>1, <1>3, Appended
<1>5. \A s \in Servers : /\ Making(s)' <=> Making(s) /\ s # n
                         /\ Telling(s)' <=> Telling(s)
  BY <1>1, <1>2 DEF Making, Telling, Only
<1>6. run[n] = "none" /\ ~Queued("run", n)
  BY <1>2 DEF Scheduled, ServerFits
<1>7. \A i \in 1..Len(queue) : queue[i].server # n
  <2>1. \A i \in 1..Len(queue) : queue[i].what \in {"run", "close"}
    BY QueueTypes
  <2> QED
    BY <1>2, <1>6, <2>1 DEF Queued, Scheduled, QueueFits
<1>8. QueueFits'
  <2>1. \A i \in 1..Len(queue') :
          /\ queue'[i].group = queue'[i].server
          /\ queue'[i].what = "run" =>
               run[queue'[i].server] = "none" /\ queue'[i].server <= created
          /\ queue'[i].what = "close" => doStop[queue'[i].server]
    BY <1>2, <1>3, <1>4, <1>6 DEF Scheduled, QueueFits
  <2>2. ASSUME NEW i \in 1..Len(queue'), NEW j \in 1..Len(queue'), i < j,
               queue'[i].server = queue'[j].server
        PROVE  queue'[j].what = "close"
    <3>1. i \in 1..Len(queue)
      BY <1>4, <2>2
    <3>2. j \in 1..Len(queue)
      BY <1>3, <1>4, <1>7, <2>2, <3>1
    <3> QED
      BY <1>4, <2>2, <3>1, <3>2 DEF Scheduled, QueueFits
  <2> QED
    BY <1>1, <2>1, <2>2 DEF QueueFits
<1>9. ClosingFits'
  BY <1>1 DEF Scheduled, ClosingFits
<1>10. \A s \in Servers : ServerFits(s)'
  BY <1>1, <1>2, <1>3, <1>4, <1>5, <1>6 DEF Scheduled, ServerFits, Awaited
<1> QED
  BY <1>8, <1>9, <1>10 DEF Scheduled

\* No thread moves in a step of the loop.
LEMMA LoopAlike ==
  ASSUME UNCHANGED task
  PROVE  \A s \in Servers : (Making(s)' <=> Making(s)) /\ (Telling(s)' <=> Telling(s))
BY DEF Making, Telling

LEMMA ScheduledRunStarts ==
  ASSUME IInv, ~raced, Scheduled, RunStarts, UNCHANGED <<created, doStop, task>>
  PROVE  Scheduled'
<1>1. /\ queue \in Seq(Callbacks) /\ queue # <<>> /\ queue' = Tail(queue)
      /\ Head(queue).what = "run" /\ closing' = closing
      /\ run' = [run EXCEPT ![Head(queue).server] = "running"]
  BY QueueTypes DEF RunStarts
<1>2. /\ Len(queue) \in Nat /\ 1 \in 1..Len(queue) /\ Head(queue) = queue[1]
      /\ \A i \in 1..Len(queue') : i + 1 \in 1..Len(queue) /\ queue'[i] = queue[i + 1]
      /\ \A what, s : Queued(what, s)' => Queued(what, s)
      /\ \A what, s : Queued(what, s) =>
           Queued(what, s)' \/ (Head(queue).what = what /\ Head(queue).server = s)
  BY <1>1, Dropped
<1>3. PICK h \in Servers : h = queue[1].server
  BY <1>2, QueueTypes
<1>4. run'[h] = "running" /\ \A s \in Servers \ {h} : run'[s] = run[s]
  BY <1>1, <1>2, <1>3 DEF IInv, TypeOK
<1>5. run[h] = "none" /\ h <= created /\ Queued("run", h)
  BY <1>1, <1>2, <1>3 DEF Scheduled, QueueFits, Queued
<1>6. \A i \in 1..Len(queue') : /\ queue'[i].server = h => queue'[i].what = "close"
                                /\ queue'[i].server \in Servers
  <2> SUFFICES ASSUME NEW i \in 1..Len(queue')
               PROVE  /\ queue'[i].server = h => queue'[i].what = "close"
                      /\ queue'[i].server \in Servers
    OBVIOUS
  <2>1. i + 1 \in 1..Len(queue) /\ queue'[i] = queue[i + 1] /\ 1 < i + 1
    BY <1>2
  <2> QED
    BY <1>2, <1>3, <2>1, QueueTypes DEF Scheduled, QueueFits
<1>7. QueueFits'
  <2>1. \A i \in 1..Len(queue') :
          /\ queue'[i].group = queue'[i].server
          /\ queue'[i].what = "run" =>
               run'[queue'[i].server] = "none" /\ queue'[i].server <= created
          /\ queue'[i].what = "close" => doStop[queue'[i].server]
    BY <1>2, <1>4, <1>6 DEF Scheduled, QueueFits
  <2>2. ASSUME NEW i \in 1..Len(queue'), NEW j \in 1..Len(queue'), i < j,
               queue'[i].server = queue'[j].server
        PROVE  queue'[j].what = "close"
    <3>1. i + 1 < j + 1
      BY <2>2
    <3> QED
      BY <1>2, <2>2, <3>1 DEF Scheduled, QueueFits
  <2> QED
    BY <2>1, <2>2 DEF QueueFits
<1>8. ClosingFits'
  <2>1. \A c \in closing : c.server \in Servers
    BY DEF IInv, TypeOK, Callbacks
  <2> QED
    BY <1>1, <1>4, <2>1 DEF Scheduled, ClosingFits
<1>9. ASSUME NEW s \in Servers PROVE ServerFits(s)'
  <2>1. (Making(s)' <=> Making(s)) /\ (Telling(s)' <=> Telling(s))
    BY LoopAlike
  <2>2. Queued("close", s)' <=> Queued("close", s)
    BY <1>1, <1>2
  <2>3. CASE s = h
    <3>1. ~Making(s) /\ (doStop[s] => Telling(s) \/ Queued("close", s) \/ Awaited(s))
      BY <1>5, <2>3 DEF Scheduled, ServerFits
    <3>2. Telling(s) => doStop[s]
      BY DEF Scheduled, ServerFits
    <3> QED
      BY <1>1, <1>4, <1>5, <2>1, <2>2, <2>3, <3>1, <3>2 DEF ServerFits, Awaited
  <2>4. CASE s # h
    <3>1. Queued("run", s)' <=> Queued("run", s)
      BY <1>2, <1>3, <2>4
    <3>2. run'[s] = run[s]
      BY <1>4, <2>4
    <3> QED
      BY <1>1, <2>1, <2>2, <3>1, <3>2 DEF Scheduled, ServerFits, Awaited
  <2> QED
    BY <2>3, <2>4
<1> QED
  BY <1>7, <1>8, <1>9 DEF Scheduled

\* A close that begins finds the run begun: it was queued before.
LEMMA ScheduledCloseStarts ==
  ASSUME IInv, ~raced, Tables, Scheduled, CloseStarts, UNCHANGED <<created, doStop, task>>
  PROVE  Scheduled'
<1>1. /\ queue \in Seq(Callbacks) /\ queue # <<>> /\ queue' = Tail(queue)
      /\ Head(queue).what = "close" /\ closing' = closing \cup {Head(queue)}
      /\ run' = run
  BY QueueTypes DEF CloseStarts
<1>2. /\ Len(queue) \in Nat /\ 1 \in 1..Len(queue) /\ Head(queue) = queue[1]
      /\ \A i \in 1..Len(queue') : i + 1 \in 1..Len(queue) /\ queue'[i] = queue[i + 1]
      /\ \A what, s : Queued(what, s)' => Queued(what, s)
      /\ \A what, s : Queued(what, s) =>
           Queued(what, s)' \/ (Head(queue).what = what /\ Head(queue).server = s)
  BY <1>1, Dropped
<1>3. PICK h \in Servers : h = queue[1].server
  BY <1>2, QueueTypes
<1>4. queue[1].group = h /\ doStop[h]
  BY <1>1, <1>2, <1>3 DEF Scheduled, QueueFits
<1>5. run[h] # "none"
  <2>1. SUFFICES ASSUME run[h] = "none" PROVE FALSE
    OBVIOUS
  <2>2. h <= created
    BY <1>4 DEF IInv
  <2>3. ~Making(h)
    BY <1>4, MakingFacts DEF Making
  <2>4. Queued("run", h)
    BY <2>1, <2>2, <2>3 DEF Scheduled, ServerFits
  <2>5. PICK j \in 1..Len(queue) : queue[j].what = "run" /\ queue[j].server = h
    BY <2>4 DEF Queued
  <2>6. 1 < j
    BY <1>1, <1>2, <2>5
  <2> QED
    BY <1>2, <1>3, <2>5, <2>6 DEF Scheduled, QueueFits
<1>6. QueueFits'
  <2>1. \A i \in 1..Len(queue') :
          /\ queue'[i].group = queue'[i].server
          /\ queue'[i].what = "run" =>
               run[queue'[i].server] = "none" /\ queue'[i].server <= created
          /\ queue'[i].what = "close" => doStop[queue'[i].server]
    BY <1>2 DEF Scheduled, QueueFits
  <2>2. ASSUME NEW i \in 1..Len(queue'), NEW j \in 1..Len(queue'), i < j,
               queue'[i].server = queue'[j].server
        PROVE  queue'[j].what = "close"
    <3>1. i + 1 < j + 1
      BY <2>2
    <3> QED
      BY <1>2, <2>2, <3>1 DEF Scheduled, QueueFits
  <2> QED
    BY <1>1, <2>1, <2>2 DEF QueueFits
<1>7. ClosingFits'
  BY <1>1, <1>2, <1>3, <1>4, <1>5 DEF Scheduled, ClosingFits
<1>8. ASSUME NEW s \in Servers PROVE ServerFits(s)'
  <2>1. (Making(s)' <=> Making(s)) /\ (Telling(s)' <=> Telling(s))
    BY LoopAlike
  <2>2. /\ Queued("run", s)' <=> Queued("run", s)
        /\ Queued("close", s) => Queued("close", s)' \/ s = h
    BY <1>1, <1>2, <1>3
  <2>3. (Awaited(s) => Awaited(s)') /\ Awaited(h)'
    BY <1>1, <1>2, <1>3 DEF Awaited
  <2> QED
    BY <1>1, <2>1, <2>2, <2>3 DEF Scheduled, ServerFits
<1> QED
  BY <1>6, <1>7, <1>8 DEF Scheduled

\* The end of a close, or of the run that looks at do_stop, or that fails.
LEMMA ScheduledEnds ==
  ASSUME IInv, Scheduled, CloseEnds \/ RunReturns \/ RunFails,
         UNCHANGED <<created, doStop, task>>
  PROVE  Scheduled'
<1>1. PICK h \in Servers :
        /\ run[h] # "none" /\ run'[h] \in {"over", "failed"}
        /\ run'[h] = "over" => doStop[h]
        /\ \A s \in Servers \ {h} : run'[s] = run[s]
        /\ closing' \subseteq closing
        /\ \A c \in closing \ closing' : c.server = h
  <2>0. run \in [Servers -> {"none", "running", "over", "failed"}] /\ closing \subseteq Callbacks
    BY DEF IInv, TypeOK
  <2>1. CASE RunReturns
    <3>1. PICK s \in Servers : /\ run[s] = "running" /\ doStop[s] /\ closing' = closing
                               /\ run' = [run EXCEPT ![s] = "over"]
      BY <2>1 DEF RunReturns
    <3> QED
      BY <2>0, <3>1
  <2>3. CASE RunFails
    <3>1. PICK s \in Servers : /\ run[s] = "running" /\ closing' = closing
                               /\ run' = [run EXCEPT ![s] = "failed"]
      BY <2>3 DEF RunFails
    <3> QED
      BY <2>0, <3>1
  <2>2. CASE CloseEnds
    <3>1. PICK c \in closing : closing' = closing \ {c} /\ run' = Cancels(c)
      BY <2>2 DEF CloseEnds
    <3>2. c.server \in Servers /\ c.group = c.server /\ doStop[c.server] /\ run[c.server] # "none"
      BY <2>0, <3>1 DEF Scheduled, ClosingFits, Callbacks
    <3>3. /\ \A s \in Servers \ {c.server} : run'[s] = run[s]
          /\ run'[c.server] = IF run[c.server] = "running" THEN "over" ELSE run[c.server]
      BY <2>0, <3>1, <3>2 DEF Cancels
    <3>4. run'[c.server] \in {"over", "failed"}
      BY <2>0, <3>2, <3>3
    <3> QED
      BY <3>1, <3>2, <3>3, <3>4
  <2> QED
    BY <2>1, <2>2, <2>3
<1>2. queue' = queue
  BY DEF CloseEnds, RunReturns, RunFails
<1>3. QueueFits'
  BY <1>1, <1>2, QueueTypes DEF Scheduled, QueueFits
<1>4. ClosingFits'
  <2>1. \A c \in closing' : c \in closing /\ c.server \in Servers
    BY <1>1 DEF IInv, TypeOK, Callbacks
  <2> QED
    BY <1>1, <2>1 DEF Scheduled, ClosingFits
<1>5. ASSUME NEW s \in Servers PROVE ServerFits(s)'
  <2>1. (Making(s)' <=> Making(s)) /\ (Telling(s)' <=> Telling(s))
    BY LoopAlike
  <2>2. \A what : Queued(what, s)' <=> Queued(what, s)
    BY <1>2 DEF Queued
  <2>3. s # h /\ Awaited(s) => Awaited(s)'
    BY <1>1 DEF Awaited
  <2> QED
    BY <1>1, <2>1, <2>2, <2>3 DEF Scheduled, ServerFits
<1> QED
  BY <1>3, <1>4, <1>5 DEF Scheduled

LEMMA ScheduledStep ==
  IInv /\ Tables /\ Scheduled /\ [Next]_vars /\ ~raced' => Scheduled'
<1> SUFFICES ASSUME IInv, Tables, Scheduled, [Next]_vars, ~raced' PROVE Scheduled'
  OBVIOUS
<1>0. ~raced
  BY RacedStays
<1>1. CASE UNCHANGED <<serverVars, loopVars, task>>
  <2>1. UNCHANGED <<created, doStop, run, queue, closing, task>>
    BY <1>1 DEF serverVars, loopVars
  <2> QED
    BY <2>1, LoopAlike, ScheduleKept
<1>2. ASSUME NEW t \in Threads, Began(t) PROVE Scheduled'
  BY <1>2, ScheduleAlike DEF Began, Busy
<1>3. ASSUME NEW t \in Threads, ThreadStep(t) PROVE Scheduled'
  <2>1. CASE Apply(t) \/ Check(t) \/ Look(t) \/ Get(t)
    BY <2>1, Reading, ScheduleAlike
  <2>2. CASE PopServer(t)
    <3>1. /\ task \in [Threads -> TaskType] /\ task[t].pc = "pop"
          /\ UNCHANGED <<created, doStop, run, queue, closing>>
      BY <2>2, TaskFacts DEF PopServer, At, serverVars, loopVars
    <3>2. Only(t) /\ task'[t].pc = "popgroup"
      BY <2>2, <3>1 DEF PopServer, Only, TaskType
    <3> QED
      BY <3>1, <3>2, ScheduleAlike
  <2>3. CASE PopGroup(t)
    <3>1. /\ task \in [Threads -> TaskType] /\ task[t].pc = "popgroup"
          /\ UNCHANGED <<created, doStop, run, queue, closing>>
      BY <2>3, TaskFacts DEF PopGroup, At, serverVars, loopVars
    <3>2. Only(t) /\ task'[t].pc \in {"pop", "store", "idle", "halt"}
      <4>1. CASE Proceeds(t)
        BY <4>1, Landing DEF LandsAt, LandsIdle, Idle
      <4>2. CASE ~Proceeds(t)
        BY <2>3, <3>1, <4>2 DEF PopGroup, Only, TaskType
      <4> QED
        BY <4>1, <4>2
    <3> QED
      BY <3>1, <3>2, ScheduleAlike
  <2>4. CASE StoreGroup(t)
    <3>1. /\ task[t].pc = "group" /\ LandsAt(t, "run")
          /\ UNCHANGED <<created, doStop, run, queue, closing>>
      BY <2>4, Landing DEF StoreGroup, At, serverVars, loopVars, Steps
    <3>2. \A s \in Servers : (Making(s)' <=> Making(s)) /\ (Telling(s)' <=> Telling(s))
      BY <3>1 DEF Making, Telling, LandsAt, Only, SameStop
    <3> QED
      BY <3>1, <3>2, ScheduleKept
  <2> QED
    BY <1>0, <1>3, <2>1, <2>2, <2>3, <2>4, ScheduledHalt, ScheduledPostClose,
       ScheduledStore, ScheduledPostRun DEF ThreadStep
<1>4. CASE Begins
  BY <1>1, <1>2, <1>4, BeginsKinds
<1>5. CASE \/ LoopStep(RunStarts) \/ LoopStep(CloseStarts) \/ LoopStep(CloseEnds)
          \/ LoopStep(RunReturns) \/ LoopStep(RunFails)
  <2>1. UNCHANGED <<created, doStop, task>>
    BY <1>5 DEF LoopStep, serverVars
  <2> QED
    BY <1>0, <1>5, <2>1, ScheduledRunStarts, ScheduledCloseStarts, ScheduledEnds DEF LoopStep
<1>6. CASE UNCHANGED vars
  BY <1>1, <1>6 DEF vars
<1> QED
  BY <1>3, <1>4, <1>5, <1>6 DEF Next

-----------------------------------------------------------------------------
(* Without lightning a wallet is given no server.                          *)

Lights(k) ==
  k.starts \/ k.pc \in {"get", "store", "group", "run"} => k.file \in lightning
Lit ==
  /\ \A t \in Threads : Lights(task[t])
  /\ \A f \in Files : servers[f] # 0 => f \in lightning

\* Thread t goes on, and no file is registered that was not.
LEMMA LitOnward ==
  ASSUME Lit, NEW t \in Threads, Only(t), Lights(task'[t]), lightning' = lightning,
         \A f \in Files : servers'[f] # 0 => servers[f] # 0
  PROVE  Lit'
BY DEF Lit, Lights, Only

LEMMA LitThread ==
  ASSUME IInv, Lit, NEW t \in Threads, ThreadStep(t)
  PROVE  Lit'
<1>1. /\ task \in [Threads -> TaskType] /\ task[t] \in TaskType
      /\ servers \in [Files -> 0..created] /\ Fits(task[t]) /\ Lights(task[t])
      /\ lightning' = lightning
  BY TaskFacts DEF Lit, ThreadStep, settingVars
<1>2. Lights(Idle)
  BY DEF Lights, Idle
<1>3. CASE Apply(t) \/ Halt(t) \/ StoreGroup(t)
  <2>1. PICK p \in {"check", "look", "close", "run"} :
          /\ LandsAt(t, p) /\ servers' = servers
          /\ p = "run" => task[t].pc = "group"
    BY <1>3, Landing DEF Apply, Halt, StoreGroup, At, tableVars, Steps
  <2>2. Lights(task'[t])
    BY <1>1, <2>1 DEF LandsAt, SameJob, Lights
  <2> QED
    BY <1>1, <2>1, <2>2, LitOnward DEF LandsAt
<1>4. CASE Check(t)
  <2>1. servers' = servers
    BY <1>4 DEF Check, tableVars
  <2>2. CASE Served(task[t].file)
    <3>1. LandsAt(t, "get")
      BY <1>4, <2>2, Landing DEF Check, Steps
    <3>2. Lights(task'[t])
      BY <2>2, <3>1 DEF LandsAt, SameJob, Lights, Served
    <3> QED
      BY <1>1, <2>1, <3>1, <3>2, LitOnward DEF LandsAt
  <2>3. CASE ~Served(task[t].file)
    <3>1. LandsIdle(t)
      BY <1>4, <2>3, Landing DEF Check
    <3> QED
      BY <1>1, <1>2, <2>1, <3>1, LitOnward DEF LandsIdle
  <2> QED
    BY <2>2, <2>3
<1>5. CASE Look(t)
  <2>1. servers' = servers
    BY <1>5 DEF Look, tableVars
  <2>2. CASE Found(t) = {}
    <3>1. LandsIdle(t)
      BY <1>5, <2>2, Landing DEF Look
    <3> QED
      BY <1>1, <1>2, <2>1, <3>1, LitOnward DEF LandsIdle
  <2>3. CASE Found(t) # {}
    <3>1. Only(t) /\ task'[t].pc = "pop" /\ SameJob(t)
      BY <1>1, <1>5, <2>3 DEF Look, TaskType, SameJob, Only
    <3>2. Lights(task'[t])
      BY <1>1, <3>1 DEF SameJob, Lights
    <3> QED
      BY <1>1, <2>1, <3>1, <3>2, LitOnward
  <2> QED
    BY <2>2, <2>3
<1>6. CASE Get(t)
  <2>1. servers' = servers /\ task[t].file \in lightning
    BY <1>1, <1>6 DEF Get, At, tableVars, Lights
  <2>2. CASE LandsAt(t, "store") \/ LandsIdle(t)
    <3>1. Only(t) /\ Lights(task'[t])
      BY <1>2, <2>1, <2>2 DEF LandsAt, LandsIdle, SameJob, Lights
    <3> QED
      BY <1>1, <2>1, <3>1, LitOnward
  <2>3. CASE Replaces(t)
    <3>1. Only(t) /\ task'[t].file = task[t].file
      BY <1>1, <2>3 DEF Replaces, Only, TaskType
    <3>2. Lights(task'[t])
      BY <2>1, <3>1 DEF Lights
    <3> QED
      BY <1>1, <2>1, <3>1, <3>2, LitOnward
  <2>4. "store" \in Steps
    BY DEF Steps
  <2> QED
    BY <1>6, <2>2, <2>3, <2>4, Landing DEF Get
<1>7. CASE PopServer(t)
  <2>1. PICK f \in task[t].todo :
          /\ task' = [task EXCEPT ![t].pc = "popgroup", ![t].file = f,
                        ![t].server = servers[f], ![t].todo = @ \ {f}]
          /\ servers' = [servers EXCEPT ![f] = 0]
    BY <1>7 DEF PopServer, Popped
  <2>2. /\ Only(t) /\ task'[t].pc = "popgroup" /\ task'[t].file = f
        /\ task'[t].starts = task[t].starts
    BY <1>1, <2>1 DEF Only, TaskType
  <2>3. task[t].starts => f = task[t].file
    BY <1>1, <2>1 DEF Fits, TaskType
  <2>4. Lights(task'[t])
    BY <1>1, <2>2, <2>3 DEF Lights
  <2>5. \A g \in Files : servers'[g] # 0 => servers[g] # 0
    BY <1>1, <2>1
  <2> QED
    BY <1>1, <2>2, <2>4, <2>5, LitOnward
<1>8. ASSUME Proceeds(t), servers' = servers PROVE Lit'
  <2>1. CASE task[t].todo # {} /\ LandsAt(t, "pop")
    <3>1. Only(t) /\ Lights(task'[t])
      BY <1>1, <2>1 DEF LandsAt, SameJob, Lights
    <3> QED
      BY <1>1, <1>8, <3>1, LitOnward
  <2>2. CASE task[t].starts /\ LandsAt(t, "store")
    <3>1. Only(t) /\ Lights(task'[t])
      BY <1>1, <2>2 DEF LandsAt, SameJob, Lights
    <3> QED
      BY <1>1, <1>8, <3>1, LitOnward
  <2>3. CASE LandsIdle(t)
    BY <1>1, <1>2, <1>8, <2>3, LitOnward DEF LandsIdle
  <2> QED
    BY <1>8, <2>1, <2>2, <2>3, Landing
<1>9. CASE PopGroup(t)
  <2>1. servers' = servers
    BY <1>9 DEF PopGroup
  <2>2. CASE task' = [task EXCEPT ![t].pc = "halt", ![t].group = groups[task[t].file]]
    <3>1. Only(t) /\ task'[t].pc = "halt" /\ SameJob(t)
      BY <1>1, <2>2 DEF Only, SameJob, TaskType
    <3>2. Lights(task'[t])
      BY <1>1, <3>1 DEF SameJob, Lights
    <3> QED
      BY <1>1, <2>1, <3>1, <3>2, LitOnward
  <2> QED
    BY <1>8, <1>9, <2>1, <2>2 DEF PopGroup
<1>10. CASE PostClose(t)
  BY <1>8, <1>10 DEF PostClose, tableVars
<1>11. CASE Store(t)
  <2> DEFINE f == task[t].file
  <2>1. /\ task[t].pc = "store" /\ servers' = [servers EXCEPT ![f] = created + 1]
        /\ task' = [task EXCEPT ![t].pc = "group", ![t].server = created + 1]
    BY <1>11 DEF Store, At
  <2>2. f \in lightning
    BY <1>1, <2>1 DEF Lights
  <2>3. Only(t) /\ task'[t].file = f
    BY <1>1, <2>1 DEF Only, TaskType
  <2>4. \A g \in Files : g # f => servers'[g] = servers[g]
    BY <1>1, <2>1
  <2> QED
    BY <1>1, <2>2, <2>3, <2>4 DEF Lit, Lights, Only
<1>12. CASE PostRun(t)
  <2>1. LandsIdle(t) /\ servers' = servers
    BY <1>12, Landing DEF PostRun, tableVars
  <2> QED
    BY <1>1, <1>2, <2>1, LitOnward DEF LandsIdle
<1> QED
  BY <1>3, <1>4, <1>5, <1>6, <1>7, <1>9, <1>10, <1>11, <1>12 DEF ThreadStep

LEMMA LitStep == IInv /\ Lit /\ [Next]_vars => Lit'
<1> SUFFICES ASSUME IInv, Lit, [Next]_vars PROVE Lit'
  OBVIOUS
<1>1. CASE UNCHANGED <<servers, task>> /\ lightning \subseteq lightning'
  BY <1>1 DEF Lit, Lights
<1>2. ASSUME NEW t \in Threads, NEW w, NEW step \in {"apply", "check", "look", "pop", "idle"},
             NEW todo, Begin(t, w, step, todo), lightning' = lightning
      PROVE  Lit'
  <2>1. Only(t) /\ ~task'[t].starts /\ task'[t].pc = step /\ servers' = servers
    BY <1>2, Beginning
  <2>2. Lights(task'[t])
    BY <1>2, <2>1 DEF Lights
  <2> QED
    BY <1>2, <2>1, <2>2, LitOnward
<1>3. CASE Begins
  <2>0. HookThread \in Threads /\ "gui" \in Threads
    BY DEF HookThread, Threads
  <2>1. ASSUME NEW w \in Wallets, Opens(w) \/ Closes(w) PROVE Lit'
    BY <1>2, <2>0, <2>1 DEF Opens, Closes
  <2>2. ASSUME NEW w \in Wallets, ClosesUnseen(w) PROVE Lit'
    BY <1>1, <2>2 DEF ClosesUnseen, tableVars
  <2>3. ASSUME NEW t \in Threads, NEW w \in Wallets, NEW v, SetsEnabled(t, w, v) PROVE Lit'
    BY <1>2, <2>3 DEF SetsEnabled
  <2>4. ASSUME NEW t \in Threads, Disables(t) PROVE Lit'
    BY <1>2, <2>4 DEF Disables, settingVars
  <2>5. ASSUME NEW f \in Files, OffersChange(f) \/ GetsLightning(f) PROVE Lit'
    BY <1>1, <2>5 DEF OffersChange, GetsLightning, tableVars
  <2> QED
    BY <1>3, <2>1, <2>2, <2>3, <2>4, <2>5 DEF Begins
<1>4. CASE \/ LoopStep(RunStarts) \/ LoopStep(CloseStarts) \/ LoopStep(CloseEnds)
          \/ LoopStep(RunReturns) \/ LoopStep(RunFails)
  BY <1>1, <1>4 DEF LoopStep, tableVars, settingVars
<1>5. CASE UNCHANGED vars
  BY <1>1, <1>5 DEF vars, tableVars, settingVars
<1> QED
  BY <1>3, <1>4, <1>5, LitThread DEF Next

-----------------------------------------------------------------------------
(* What each file's entry owes to its setting.                             *)

\* A file is to be served if it is open, with lightning and enabled, and by a server
\* of the open object; its entry is right if it says so.
Wanted(f) == loaded[f] # Nobody /\ Served(f)
Right(f) ==
  /\ servers[f] # 0 <=> Wanted(f)
  /\ servers[f] # 0 => owner[servers[f]] = loaded[f]

\* What a thread is about to do is what its file needs.
Starting(t) == loaded[task[t].file] = task[t].wallet /\ Served(task[t].file)
Intends(t) ==
  /\ task[t].pc = "apply" => loaded[task[t].file] = task[t].wallet /\ ~task[t].starts
  /\ task[t].pc = "check" => /\ loaded[task[t].file] = task[t].wallet
                             /\ Served(task[t].file) \/ servers[task[t].file] = 0
  /\ task[t].pc = "look" => ~Wanted(task[t].file) /\ ~task[t].starts
  /\ task[t].pc \in {"get", "store", "group", "run"} => Starting(t)
  /\ task[t].pc \in {"pop", "popgroup", "halt", "close"} =>
       IF task[t].starts THEN Starting(t) ELSE ~Wanted(task[t].file)

\* While the plugin is on, an entry is right or a thread is at work on it; once it
\* is off, what is left of the dictionary is on the list of the thread that ends it.
Settings ==
  /\ ~disabled =>
       /\ \A t \in Threads : Busy(t) => task[t].wallet # Nobody
       /\ \A t \in Threads : Busy(t) /\ task[t].file \notin unheard => Intends(t)
       /\ \A f \in Files \ unheard :
            (\A t \in Threads : Busy(t) => task[t].file # f) => Right(f)
  /\ disabled =>
       /\ \A t \in Threads : Busy(t) => task[t].wallet = Nobody
       /\ \A f \in Files : servers[f] # 0 =>
            \E t \in Threads : Busy(t) /\ f \in task[t].todo

\* A thread goes on with its file, or has done what the file needs.
LEMMA SettingsOnward ==
  ASSUME IInv, ~raced, Settings, ~disabled, NEW t \in Threads, Busy(t), Only(t),
         NEW f, f = task[t].file,
         UNCHANGED <<override, offers, lightning, unheard, loaded, disabled>>,
         \A g \in Files \ {f} : servers'[g] = servers[g],
         \A s \in 1..created : owner'[s] = owner[s],
         \/ /\ task'[t].pc # "idle" /\ task'[t].wallet = task[t].wallet
            /\ task'[t].file = f /\ (f \notin unheard => Intends(t)')
         \/ task'[t].pc = "idle" /\ (f \notin unheard => Right(f)')
  PROVE  Settings'
<1>1. /\ task[t].wallet # Nobody /\ f \in Files
      /\ created \in Nat /\ servers \in [Files -> 0..created]
  BY OfWallet, TaskFacts DEF Settings
<1>2. \A u \in Threads : Busy(u)' => task'[u].wallet # Nobody
  BY <1>1 DEF Settings, Busy, Only
<1>3. \A g : Served(g)' <=> Served(g)
  BY DEF Served, Enabled
<1>4. ASSUME NEW u \in Threads, Busy(u)', task'[u].file \notin unheard'
      PROVE  Intends(u)'
  <2>1. CASE u = t
    BY <1>4, <2>1 DEF Busy
  <2>2. CASE u # t
    <3>1. task'[u] = task[u] /\ Busy(u) /\ Intends(u)
      BY <1>4, <2>2 DEF Only, Busy, Settings
    <3>2. task[u].file \in Files /\ task[u].file # f
      BY <1>1, <2>2, <3>1, OfWallet, FilesApart DEF Settings
    <3>3. servers'[task[u].file] = servers[task[u].file]
      BY <3>2
    <3> QED
      BY <1>3, <3>1, <3>3 DEF Intends, Starting, Wanted
  <2> QED
    BY <2>1, <2>2
<1>5. ASSUME NEW g \in Files \ unheard', \A u \in Threads : Busy(u)' => task'[u].file # g
      PROVE  Right(g)'
  <2>1. CASE g = f
    <3>1. task'[t].pc = "idle" /\ f \notin unheard
      BY <1>5, <2>1 DEF Busy
    <3> QED
      BY <2>1, <3>1
  <2>2. CASE g # f
    <3>1. \A u \in Threads : Busy(u) => task[u].file # g
      BY <1>5, <2>2 DEF Busy, Only
    <3>2. Right(g) /\ servers'[g] = servers[g]
      BY <1>5, <2>2, <3>1 DEF Settings
    <3>3. servers[g] # 0 => owner'[servers[g]] = owner[servers[g]]
      BY <1>1, <1>5
    <3> QED
      BY <1>3, <3>2, <3>3 DEF Right, Wanted
  <2> QED
    BY <2>1, <2>2
<1> QED
  BY <1>2, <1>4, <1>5 DEF Settings

\* The setting is read, then the dictionary; neither changed meanwhile.
LEMMA SettingsReading ==
  ASSUME IInv, Lit, ~raced, Settings, ~disabled, NEW t \in Threads,
         Apply(t) \/ Check(t) \/ Look(t) \/ Get(t),
         UNCHANGED <<settingVars, openVars, raced>>
  PROVE  Settings'
<1>1. /\ Busy(t) /\ Only(t) /\ task \in [Threads -> TaskType] /\ task[t] \in TaskType
      /\ UNCHANGED <<servers, owner, override, offers, lightning, unheard, loaded, disabled>>
  BY Reading, TaskFacts DEF settingVars, openVars
<1>2. PICK f \in Files : f = task[t].file /\ task[t].todo \subseteq {f}
  BY <1>1, OfWallet DEF Settings
<1>3. task[t].wallet \in Wallets /\ (f \notin unheard => Intends(t))
  BY <1>1, <1>2, OfWallet DEF Settings
<1>4. \A g : (Served(g)' <=> Served(g)) /\ (Wanted(g)' <=> Wanted(g)) /\ (Right(g)' <=> Right(g))
  BY <1>1 DEF Served, Enabled, Wanted, Right
<1>5. ASSUME task'[t].pc # "idle" /\ task'[t].wallet = task[t].wallet
               /\ task'[t].file = f /\ (f \notin unheard => Intends(t)')
      PROVE  Settings'
  BY <1>1, <1>2, <1>5, SettingsOnward
<1>6. ASSUME task'[t].pc = "idle" /\ (f \notin unheard => Right(f))
      PROVE  Settings'
  BY <1>1, <1>2, <1>4, <1>6, SettingsOnward
<1>7. CASE Apply(t)
  <2>1. task[t].pc = "apply" /\ LandsAt(t, IF Enabled(f) THEN "check" ELSE "look")
    BY <1>2, <1>7, Landing DEF Apply, At, Steps
  <2>2. Served(f) \/ servers[f] = 0 \/ ~Enabled(f)
    BY <1>2 DEF Lit, Served
  <2>3. Served(f) => Enabled(f)
    BY DEF Served
  <2>4. f \notin unheard => Intends(t)'
    BY <1>1, <1>2, <1>3, <1>4, <2>1, <2>2, <2>3 DEF Intends, LandsAt, SameJob, Wanted
  <2> QED
    BY <1>2, <1>5, <2>1, <2>4 DEF LandsAt, SameJob
<1>8. CASE Check(t)
  <2>1. task[t].pc = "check"
    BY <1>8 DEF Check, At
  <2>2. CASE Served(f)
    <3>1. LandsAt(t, "get")
      BY <1>2, <1>8, <2>2, Landing DEF Check, Steps
    <3>2. f \notin unheard => Intends(t)'
      BY <1>1, <1>2, <1>3, <1>4, <2>1, <2>2, <3>1 DEF Intends, LandsAt, SameJob, Starting
    <3> QED
      BY <1>2, <1>5, <3>1, <3>2 DEF LandsAt, SameJob
  <2>3. CASE ~Served(f)
    <3>1. LandsIdle(t)
      BY <1>2, <1>8, <2>3, Landing DEF Check
    <3>2. f \notin unheard => Right(f)
      BY <1>2, <1>3, <2>1, <2>3 DEF Intends, Right, Wanted
    <3> QED
      BY <1>6, <3>1, <3>2 DEF LandsIdle, Idle
  <2> QED
    BY <2>2, <2>3
<1>9. CASE Look(t)
  <2>1. task[t].pc = "look"
    BY <1>9 DEF Look, At
  <2>2. CASE Found(t) = {}
    <3>1. LandsIdle(t)
      BY <1>9, <2>2, Landing DEF Look
    <3>2. servers[f] = 0
      BY <1>2, <2>2 DEF Found
    <3>3. f \notin unheard => Right(f)
      BY <1>2, <1>3, <2>1, <3>2 DEF Intends, Right
    <3> QED
      BY <1>6, <3>1, <3>3 DEF LandsIdle, Idle
  <2>3. CASE Found(t) # {}
    <3>1. task'[t].pc = "pop" /\ SameJob(t)
      BY <1>1, <1>9, <2>3 DEF Look, TaskType, SameJob
    <3>2. f \notin unheard => Intends(t)'
      BY <1>2, <1>3, <1>4, <2>1, <3>1 DEF Intends, SameJob
    <3> QED
      BY <1>2, <1>5, <3>1, <3>2 DEF SameJob
  <2> QED
    BY <2>2, <2>3
<1>10. CASE Get(t)
  <2>1. task[t].pc = "get" /\ (f \notin unheard => Starting(t))
    BY <1>2, <1>3, <1>10 DEF Get, At, Intends
  <2>2. CASE servers[f] = 0
    <3>1. LandsAt(t, "store")
      BY <1>2, <1>10, <2>2, Landing DEF Get, Steps
    <3>2. f \notin unheard => Intends(t)'
      BY <1>1, <1>2, <1>4, <2>1, <3>1 DEF Intends, LandsAt, SameJob, Starting
    <3> QED
      BY <1>2, <1>5, <3>1, <3>2 DEF LandsAt, SameJob
  <2>3. CASE servers[f] # 0 /\ Drives(servers[f], task[t].wallet)
    <3>1. LandsIdle(t)
      BY <1>2, <1>10, <2>3, Landing DEF Get
    <3>2. f \notin unheard => Right(f)
      BY <1>2, <1>3, <2>1, <2>3, LifecycleAssumption DEF Starting, Right, Wanted, Drives
    <3> QED
      BY <1>6, <3>1, <3>2 DEF LandsIdle, Idle
  <2>4. CASE servers[f] # 0 /\ ~Drives(servers[f], task[t].wallet)
    <3>1. /\ task'[t].pc = "pop" /\ task'[t].starts /\ task'[t].wallet = task[t].wallet
          /\ task'[t].file = f
      BY <1>1, <1>2, <1>10, <2>4 DEF Get, Replaces, TaskType
    <3>2. f \notin unheard => Intends(t)'
      BY <1>1, <1>2, <1>4, <2>1, <3>1 DEF Intends, Starting
    <3> QED
      BY <1>5, <3>1, <3>2
  <2> QED
    BY <2>2, <2>3, <2>4
<1> QED
  BY <1>7, <1>8, <1>9, <1>10

\* The server of a file is stopped, for good or for a new one.
LEMMA SettingsStopping ==
  ASSUME IInv, ~raced, Tables, Settings, ~disabled, NEW t \in Threads,
         PopServer(t) \/ PopGroup(t) \/ Halt(t) \/ PostClose(t),
         UNCHANGED <<settingVars, openVars, raced>>
  PROVE  Settings'
<1>1. /\ task \in [Threads -> TaskType] /\ task[t] \in TaskType
      /\ task[t].pc \in {"pop", "popgroup", "halt", "close"} /\ Busy(t)
      /\ servers \in [Files -> 0..created]
      /\ UNCHANGED <<owner, override, offers, lightning, unheard, loaded, disabled>>
  BY TaskFacts DEF PopServer, PopGroup, Halt, PostClose, At, Busy, serverVars,
     settingVars, openVars
<1>2. PICK f \in Files : f = task[t].file /\ task[t].todo \subseteq {f}
  BY <1>1, OfWallet DEF Settings
<1>3. /\ task[t].wallet \in Wallets
      /\ f \notin unheard => Intends(t)
  BY <1>1, <1>2, OfWallet DEF Settings
<1>4. \A g : (Served(g)' <=> Served(g)) /\ (Wanted(g)' <=> Wanted(g))
  BY <1>1 DEF Served, Enabled, Wanted
<1>5. ASSUME Only(t), SameJob(t), \A g \in Files \ {f} : servers'[g] = servers[g],
             \/ task'[t].pc \in {"pop", "popgroup", "halt", "close"}
             \/ task'[t].pc = "store" /\ task[t].starts
      PROVE  Settings'
  <2>1. ASSUME f \notin unheard PROVE Intends(t)'
    <3>1. IF task[t].starts THEN Starting(t) ELSE ~Wanted(f)
      BY <1>1, <1>2, <1>3, <2>1 DEF Intends
    <3>2. Starting(t)' <=> Starting(t)
      BY <1>1, <1>4, <1>5 DEF Starting, SameJob
    <3> QED
      BY <1>2, <1>4, <1>5, <3>1, <3>2 DEF Intends, SameJob
  <2> QED
    BY <1>1, <1>2, <1>5, <2>1, SettingsOnward DEF SameJob
<1>6. ASSUME LandsIdle(t), UNCHANGED servers, servers[f] = 0, ~task[t].starts
      PROVE  Settings'
  <2>1. f \notin unheard => Right(f)'
    BY <1>1, <1>2, <1>3, <1>4, <1>6 DEF Intends, Right
  <2> QED
    BY <1>1, <1>2, <1>6, <2>1, SettingsOnward DEF LandsIdle, Idle
<1>7. ASSUME Proceeds(t), UNCHANGED servers, task[t].pc \in Emptied PROVE Settings'
  <2>1. servers[f] = 0
    BY <1>2, <1>7, TaskFacts
  <2> QED
    BY <1>2, <1>5, <1>6, <1>7, <2>1, Landing DEF LandsAt
<1>8. CASE PopServer(t)
  <2>1. PICK x \in task[t].todo :
          /\ task' = [task EXCEPT ![t].pc = "popgroup", ![t].file = x,
                        ![t].server = servers[x], ![t].todo = @ \ {x}]
          /\ servers' = [servers EXCEPT ![x] = 0]
    BY <1>8 DEF PopServer, Popped
  <2>2. x = f
    BY <1>2
  <2>3. Only(t) /\ SameJob(t) /\ task'[t].pc = "popgroup"
    BY <1>1, <1>2, <2>1, <2>2 DEF Only, SameJob, TaskType
  <2>4. \A g \in Files \ {f} : servers'[g] = servers[g]
    BY <1>1, <2>1, <2>2
  <2> QED
    BY <1>5, <2>3, <2>4
<1>9. CASE PopGroup(t)
  <2>1. servers' = servers /\ task[t].pc \in Emptied
    BY <1>9 DEF PopGroup, At, Emptied
  <2>2. CASE task' = [task EXCEPT ![t].pc = "halt", ![t].group = groups[task[t].file]]
    <3>1. Only(t) /\ SameJob(t) /\ task'[t].pc = "halt"
      BY <1>1, <2>2 DEF Only, SameJob, TaskType
    <3> QED
      BY <1>5, <2>1, <3>1
  <2> QED
    BY <1>7, <1>9, <2>1, <2>2 DEF PopGroup
<1>10. CASE Halt(t)
  <2>1. servers' = servers /\ LandsAt(t, "close")
    BY <1>10, Landing DEF Halt, tableVars, Steps
  <2> QED
    BY <1>5, <2>1 DEF LandsAt
<1>11. CASE PostClose(t)
  <2>1. servers' = servers /\ task[t].pc \in Emptied /\ Proceeds(t)
    BY <1>11 DEF PostClose, tableVars, At, Emptied
  <2> QED
    BY <1>7, <2>1
<1> QED
  BY <1>8, <1>9, <1>10, <1>11

\* The new server is stored, and is there when the thread has done its job.
LEMMA SettingsMaking ==
  ASSUME IInv, ~raced, Tables, Settings, ~disabled, NEW t \in Threads,
         Store(t) \/ StoreGroup(t) \/ PostRun(t),
         UNCHANGED <<settingVars, openVars, raced>>
  PROVE  Settings'
<1>1. /\ task \in [Threads -> TaskType] /\ task[t] \in TaskType
      /\ task[t].pc \in {"store", "group", "run"} /\ Busy(t)
      /\ servers \in [Files -> 0..created] /\ created \in 0..Generations
      /\ owner \in [Servers -> Wallets \cup {Nobody}] /\ Generations \in Nat
      /\ UNCHANGED <<override, offers, lightning, unheard, loaded, disabled>>
  BY TaskFacts DEF Store, StoreGroup, PostRun, At, Busy, settingVars, openVars, IInv, TypeOK
<1>2. PICK f \in Files : f = task[t].file
  BY <1>1, OfWallet DEF Settings
<1>3. task[t].wallet \in Wallets /\ (f \notin unheard => Starting(t))
  BY <1>1, <1>2, OfWallet DEF Settings, Intends
<1>4. \A g : (Served(g)' <=> Served(g)) /\ (Wanted(g)' <=> Wanted(g)) /\ loaded'[g] = loaded[g]
  BY <1>1 DEF Served, Enabled, Wanted
<1>5. ASSUME Only(t), task'[t].pc \in {"group", "run"}, task'[t].wallet = task[t].wallet,
             task'[t].file = f, \A g \in Files \ {f} : servers'[g] = servers[g],
             \A s \in 1..created : owner'[s] = owner[s]
      PROVE  Settings'
  <2>1. f \notin unheard => Intends(t)'
    BY <1>2, <1>3, <1>4, <1>5 DEF Intends, Starting
  <2> QED
    BY <1>1, <1>2, <1>5, <2>1, SettingsOnward
<1>6. CASE Store(t)
  <2>1. /\ Only(t) /\ task'[t].pc = "group" /\ task'[t].wallet = task[t].wallet
        /\ task'[t].file = f
    BY <1>1, <1>2, <1>6 DEF Store, Only, TaskType
  <2>2. \A g \in Files \ {f} : servers'[g] = servers[g]
    BY <1>1, <1>2, <1>6 DEF Store
  <2>3. \A s \in 1..created : owner'[s] = owner[s]
    BY <1>1, <1>6 DEF Store, Servers
  <2> QED
    BY <1>5, <2>1, <2>2, <2>3
<1>7. CASE StoreGroup(t)
  <2>1. LandsAt(t, "run") /\ UNCHANGED <<servers, owner>>
    BY <1>7, Landing DEF StoreGroup, serverVars, Steps
  <2> QED
    BY <1>2, <1>5, <2>1 DEF LandsAt, SameJob
<1>8. CASE PostRun(t)
  <2>1. LandsIdle(t) /\ UNCHANGED <<servers, owner>> /\ task[t].pc = "run"
    BY <1>8, Landing DEF PostRun, tableVars, serverVars, At
  <2>2. servers[f] # 0 /\ owner[servers[f]] = task[t].wallet
    BY <1>2, <2>1, TaskFacts DEF Tables, ThreadTables, Fits
  <2>3. f \notin unheard => Right(f)'
    BY <1>2, <1>3, <1>4, <2>1, <2>2, LifecycleAssumption DEF Starting, Right, Wanted
  <2> QED
    BY <1>1, <1>2, <2>1, <2>3, SettingsOnward DEF LandsIdle, Idle
<1> QED
  BY <1>6, <1>7, <1>8

\* Once the plugin is off one thread is left, which empties the dictionary.
LEMMA SettingsOff ==
  ASSUME IInv, ~raced, Settings, disabled, NEW t \in Threads, ThreadStep(t)
  PROVE  Settings'
<1>1. /\ task \in [Threads -> TaskType] /\ task[t] \in TaskType /\ Fits(task[t])
      /\ servers \in [Files -> 0..created] /\ disabled'
  BY TaskFacts DEF ThreadStep, openVars
<1>2. Busy(t)
  BY DEF ThreadStep, Apply, Check, Look, Get, PopServer, PopGroup, Halt, PostClose,
     Store, StoreGroup, PostRun, At, Busy
<1>3. task[t].wallet = Nobody /\ ~task[t].starts /\ task[t].pc \in Hooked
  BY <1>1, <1>2 DEF Settings, Fits
<1>4. ASSUME NEW f \in Files, servers[f] # 0 PROVE f \in task[t].todo
  <2>1. PICK u \in Threads : Busy(u) /\ f \in task[u].todo
    BY <1>4 DEF Settings
  <2>2. ASSUME u # t PROVE FALSE
    <3>1. Scope(u) = Files /\ Scope(t) = Files
      BY <1>2, <2>1 DEF Settings, Scope
    <3>2. Scope(t) \cap Scope(u) = {}
      BY <1>2, <2>1, <2>2 DEF IInv, Disjoint, Threads
    <3> QED
      BY <3>1, <3>2
  <2> QED
    BY <2>1, <2>2
<1>5. ASSUME Only(t), task'[t].wallet = Nobody,
             \A f \in Files : servers'[f] # 0 => Busy(t)' /\ f \in task'[t].todo
      PROVE  Settings'
  <2>1. \A u \in Threads : Busy(u)' => task'[u].wallet = Nobody
    BY <1>5 DEF Settings, Busy, Only
  <2> QED
    BY <1>1, <1>5, <2>1 DEF Settings
<1>6. ASSUME Proceeds(t), servers' = servers PROVE Settings'
  <2>1. CASE LandsAt(t, "pop")
    BY <1>3, <1>4, <1>5, <1>6, <2>1 DEF LandsAt, SameJob, SameStop, Busy
  <2>2. CASE task[t].todo = {} /\ LandsIdle(t)
    BY <1>4, <1>5, <1>6, <2>2 DEF LandsIdle, Idle
  <2> QED
    BY <1>3, <1>6, <2>1, <2>2, Landing
<1>7. CASE PopServer(t)
  <2>1. PICK x \in task[t].todo :
          /\ task' = [task EXCEPT ![t].pc = "popgroup", ![t].file = x,
                        ![t].server = servers[x], ![t].todo = @ \ {x}]
          /\ servers' = [servers EXCEPT ![x] = 0]
    BY <1>7 DEF PopServer, Popped
  <2>2. /\ Only(t) /\ task'[t].pc = "popgroup" /\ task'[t].wallet = Nobody
        /\ task'[t].todo = task[t].todo \ {x}
    BY <1>1, <1>3, <2>1 DEF Only, TaskType
  <2>3. \A f \in Files : servers'[f] # 0 => servers[f] # 0 /\ f # x
    BY <1>1, <2>1
  <2> QED
    BY <1>4, <1>5, <2>2, <2>3 DEF Busy
<1>8. CASE PopGroup(t)
  <2>1. servers' = servers
    BY <1>8 DEF PopGroup
  <2>2. CASE task' = [task EXCEPT ![t].pc = "halt", ![t].group = groups[task[t].file]]
    <3>1. /\ Only(t) /\ task'[t].pc = "halt" /\ task'[t].wallet = Nobody
          /\ task'[t].todo = task[t].todo
      BY <1>1, <1>3, <2>2 DEF Only, TaskType
    <3> QED
      BY <1>4, <1>5, <2>1, <3>1 DEF Busy
  <2> QED
    BY <1>6, <1>8, <2>1, <2>2 DEF PopGroup
<1>9. CASE Halt(t)
  <2>1. servers' = servers /\ LandsAt(t, "close")
    BY <1>9, Landing DEF Halt, tableVars, Steps
  <2> QED
    BY <1>3, <1>4, <1>5, <2>1 DEF LandsAt, SameJob, SameStop, Busy
<1>10. CASE PostClose(t)
  BY <1>6, <1>10 DEF PostClose, tableVars
<1> QED
  BY <1>3, <1>7, <1>8, <1>9, <1>10 DEF ThreadStep, Apply, Check, Look, Get, Store, StoreGroup,
     PostRun, At, Hooked

\* A hook or a command begins to work for a wallet: no other thread is at work on
\* its file, or they have met.
LEMMA SettingsBegin ==
  ASSUME IInv, ~raced', Settings, NEW t \in Threads, NEW w \in Wallets,
         NEW step \in {"apply", "check", "look"}, Begin(t, w, step, {}),
         disabled' = disabled, NEW f \in Files, f = FileOf[w],
         \A g \in Files \ {f} : /\ loaded'[g] = loaded[g] /\ (Served(g)' <=> Served(g))
                                /\ g \in unheard' <=> g \in unheard,
         \/ f \in unheard' \/ Intends(t)'
         \/ \E u \in Threads : Busy(u) /\ task[u].file = f
         \/ f \notin unheard /\ loaded[f] = Nobody /\ servers[f] # 0
  PROVE  Settings'
<1>1. /\ ~Busy(t) /\ Only(t) /\ ~disabled
      /\ task'[t].pc = step /\ task'[t].wallet = w /\ task'[t].file = f
      /\ UNCHANGED <<servers, owner>>
  BY Beginning, LifecycleAssumption
<1>2. ~raced /\ \A u \in Threads \ {t} : Busy(u) => f \notin Scope(u)
  BY LifecycleAssumption DEF Begin
<1>3. \A u \in Threads : Busy(u) => /\ task[u].wallet # Nobody /\ task[u].file \in Files
                                    /\ task[u].file # f
  <2> SUFFICES ASSUME NEW u \in Threads, Busy(u)
               PROVE  /\ task[u].wallet # Nobody /\ task[u].file \in Files
                      /\ task[u].file # f
    OBVIOUS
  <2>1. task[u].wallet # Nobody
    BY <1>1 DEF Settings
  <2>2. task[u].file \in Files /\ task[u].file = FileOf[task[u].wallet]
    BY <2>1, OfWallet
  <2> QED
    BY <1>1, <1>2, <2>1, <2>2 DEF Scope
<1>4. f \notin unheard /\ loaded[f] = Nobody => servers[f] = 0
  BY <1>1, <1>3 DEF Settings, Right, Wanted
<1>5. ASSUME NEW u \in Threads, Busy(u)', task'[u].file \notin unheard'
      PROVE  Intends(u)'
  <2>1. CASE u = t
    BY <1>1, <1>3, <1>4, <1>5, <2>1
  <2>2. CASE u # t
    <3>1. task'[u] = task[u] /\ Busy(u) /\ task[u].file \in Files \ {f}
      BY <1>1, <1>3, <1>5, <2>2 DEF Only, Busy
    <3>2. Intends(u)
      BY <1>1, <1>5, <3>1 DEF Settings
    <3> QED
      BY <1>1, <3>1, <3>2 DEF Intends, Starting, Wanted
  <2> QED
    BY <2>1, <2>2
<1>6. ASSUME NEW g \in Files \ unheard', \A u \in Threads : Busy(u)' => task'[u].file # g
      PROVE  Right(g)'
  <2>1. g # f
    BY <1>1, <1>6 DEF Busy
  <2>2. \A u \in Threads : Busy(u) => task[u].file # g
    BY <1>1, <1>6 DEF Busy, Only
  <2>3. Right(g)
    BY <1>1, <1>6, <2>1, <2>2 DEF Settings
  <2> QED
    BY <1>1, <1>6, <2>1, <2>3 DEF Right, Wanted
<1>7. \A u \in Threads : Busy(u)' => task'[u].wallet # Nobody
  BY <1>1, <1>3, LifecycleAssumption DEF Busy, Only
<1> QED
  BY <1>1, <1>5, <1>6, <1>7 DEF Settings

LEMMA SettingsHooks ==
  ASSUME IInv, Lit, ~raced', Settings, NEW w \in Wallets,
         \/ Opens(w) \/ Closes(w)
         \/ \E t \in Threads, v \in {"unset", "on", "off"} : SetsEnabled(t, w, v)
  PROVE  Settings'
<1> DEFINE f == FileOf[w]
<1>0. /\ f \in Files /\ w # Nobody /\ HookThread \in Threads /\ "gui" \in Threads
      /\ loaded \in [Files -> Wallets \cup {Nobody}]
      /\ override \in [Files -> {"unset", "on", "off"}]
  BY LifecycleAssumption DEF HookThread, Threads, IInv, TypeOK
<1>1. CASE Opens(w)
  <2>1. /\ Begin(HookThread, w, "check", {})
        /\ UNCHANGED <<disabled, override, offers, lightning>>
        /\ loaded' = [loaded EXCEPT ![f] = w] /\ loaded[f] = Nobody
        /\ unheard' = IF Enabled(f) THEN unheard \ {f} ELSE unheard
    BY <1>1 DEF Opens
  <2>2. /\ task'[HookThread].pc = "check" /\ task'[HookThread].wallet = w
        /\ task'[HookThread].file = f /\ servers' = servers
    BY <1>0, <2>1, Beginning
  <2>3. \A g \in Files : Served(g)' <=> Served(g)
    BY <2>1 DEF Served, Enabled
  <2>4. PICK t \in Threads : t = HookThread
    BY <1>0
  <2>5. ASSUME f \notin unheard /\ loaded[f] = Nobody => servers[f] = 0, f \notin unheard'
        PROVE  Intends(t)'
    <3>1. Served(f) \/ servers[f] = 0
      BY <1>0, <2>1, <2>5 DEF Lit, Served
    <3> QED
      BY <1>0, <2>1, <2>2, <2>3, <2>4, <3>1 DEF Intends, Starting
  <2>6. \A g \in Files \ {f} : loaded'[g] = loaded[g] /\ (g \in unheard' <=> g \in unheard)
    BY <1>0, <2>1
  <2> QED
    BY <1>0, <2>1, <2>3, <2>4, <2>5, <2>6, SettingsBegin
<1>2. CASE Closes(w)
  <2>1. /\ Begin("gui", w, "look", {}) /\ UNCHANGED <<disabled, override, offers, lightning>>
        /\ loaded' = [loaded EXCEPT ![f] = Nobody] /\ unheard' = unheard \ {f}
    BY <1>2 DEF Closes
  <2>2. /\ task'["gui"].pc = "look" /\ task'["gui"].file = f /\ ~task'["gui"].starts
    BY <1>0, <2>1, Beginning
  <2>3. \A g \in Files : Served(g)' <=> Served(g)
    BY <2>1 DEF Served, Enabled
  <2>4. Intends("gui")'
    BY <1>0, <2>1, <2>2 DEF Intends, Wanted
  <2>5. \A g \in Files \ {f} : loaded'[g] = loaded[g] /\ (g \in unheard' <=> g \in unheard)
    BY <1>0, <2>1
  <2> QED
    BY <1>0, <2>1, <2>3, <2>4, <2>5, SettingsBegin
<1>3. ASSUME NEW t \in Threads, NEW v \in {"unset", "on", "off"}, SetsEnabled(t, w, v)
      PROVE  Settings'
  <2>1. /\ Begin(t, w, "apply", {}) /\ UNCHANGED <<disabled, loaded, offers, lightning>>
        /\ override' = [override EXCEPT ![f] = v] /\ unheard' = unheard \ {f}
        /\ loaded[f] = w
    BY <1>3 DEF SetsEnabled
  <2>2. /\ task'[t].pc = "apply" /\ task'[t].file = f /\ ~task'[t].starts
        /\ task'[t].wallet = w
    BY <1>0, <2>1, Beginning
  <2>3. \A g \in Files \ {f} : Served(g)' <=> Served(g)
    BY <1>0, <2>1 DEF Served, Enabled
  <2>4. Intends(t)'
    BY <1>0, <2>1, <2>2 DEF Intends
  <2>5. \A g \in Files \ {f} : loaded'[g] = loaded[g] /\ (g \in unheard' <=> g \in unheard)
    BY <1>0, <2>1
  <2> QED
    BY <1>0, <2>1, <2>3, <2>4, <2>5, SettingsBegin
<1> QED
  BY <1>1, <1>2, <1>3

\* on_close: nobody else is at work, and all that is registered is on its list.
LEMMA SettingsDisables ==
  ASSUME IInv, ~raced', Settings, NEW t \in Threads, Disables(t)
  PROVE  Settings'
<1> DEFINE all == {f \in Files : servers[f] # 0}
<1>1. /\ Begin(t, Nobody, IF all = {} THEN "idle" ELSE "pop", all) /\ disabled'
  BY DEF Disables
<1>2. /\ ~Busy(t) /\ Only(t) /\ ~disabled /\ servers' = servers
      /\ task'[t].pc = (IF all = {} THEN "idle" ELSE "pop")
      /\ task'[t].wallet = Nobody /\ task'[t].todo = all
  BY <1>1, Beginning
<1>3. \A u \in Threads \ {t} : ~Busy(u)
  <2> SUFFICES ASSUME NEW u \in Threads \ {t}, Busy(u) PROVE FALSE
    OBVIOUS
  <2>1. Scope(u) \cap Files = {}
    BY <1>1 DEF Begin
  <2>2. task[u].wallet # Nobody
    BY <1>2 DEF Settings
  <2>3. task[u].file \in Files /\ Scope(u) = {task[u].file}
    BY <2>2, OfWallet DEF Scope
  <2> QED
    BY <2>1, <2>3
<1>4. \A u \in Threads : Busy(u)' => u = t
  BY <1>2, <1>3 DEF Busy, Only
<1>5. ASSUME NEW f \in Files, servers'[f] # 0
      PROVE  Busy(t)' /\ f \in task'[t].todo
  BY <1>2, <1>5 DEF Busy
<1> QED
  BY <1>1, <1>2, <1>4, <1>5 DEF Settings

\* What changes without a call is noted as unheard, or changes no setting.
LEMMA SettingsUnheard ==
  ASSUME IInv, ~raced', Settings,
         \/ \E w \in Wallets : ClosesUnseen(w)
         \/ \E f \in Files : OffersChange(f) \/ GetsLightning(f)
  PROVE  Settings'
<1>1. /\ UNCHANGED <<servers, owner, task, disabled>> /\ unheard \subseteq unheard'
      /\ \A g \in Files \ unheard' :
           loaded'[g] = loaded[g] /\ (Served(g)' <=> Served(g))
  <2>1. ASSUME NEW w \in Wallets, ClosesUnseen(w)
        PROVE  /\ UNCHANGED <<servers, owner, task, disabled>> /\ unheard \subseteq unheard'
               /\ \A g \in Files \ unheard' :
                    loaded'[g] = loaded[g] /\ (Served(g)' <=> Served(g))
    BY <2>1 DEF ClosesUnseen, Served, Enabled, tableVars, serverVars, IInv, TypeOK
  <2>2. ASSUME NEW f \in Files, OffersChange(f)
        PROVE  /\ UNCHANGED <<servers, owner, task, disabled>> /\ unheard \subseteq unheard'
               /\ \A g \in Files \ unheard' :
                    loaded'[g] = loaded[g] /\ (Served(g)' <=> Served(g))
    <3>1. /\ UNCHANGED <<servers, owner, task, disabled, override, loaded>>
          /\ \A g \in Files \ {f} : g \in offers' <=> g \in offers
          /\ lightning' = lightning
          /\ unheard' = IF override[f] = "unset" /\ ~DefaultOn THEN unheard \cup {f}
                        ELSE unheard
      BY <2>2 DEF OffersChange, openVars, tableVars, serverVars
    <3> QED
      BY <3>1 DEF Served, Enabled
  <2>3. ASSUME NEW f \in Files, GetsLightning(f)
        PROVE  /\ UNCHANGED <<servers, owner, task, disabled>> /\ unheard \subseteq unheard'
               /\ \A g \in Files \ unheard' :
                    loaded'[g] = loaded[g] /\ (Served(g)' <=> Served(g))
    <3>1. /\ UNCHANGED <<servers, owner, task, disabled, override, offers, loaded>>
          /\ lightning' = lightning \cup {f}
          /\ unheard' = IF Enabled(f) THEN unheard \cup {f} ELSE unheard
      BY <2>3 DEF GetsLightning, openVars, tableVars, serverVars
    <3>2. \A g \in Files : Enabled(g)' <=> Enabled(g)
      BY <3>1 DEF Enabled
    <3> QED
      BY <3>1, <3>2 DEF Served
  <2> QED
    BY <2>1, <2>2, <2>3
<1>2. ASSUME NEW u \in Threads, ~disabled, Busy(u), task[u].file \notin unheard'
      PROVE  Intends(u)'
  <2>1. Intends(u) /\ task[u].file \in Files \ unheard'
    BY <1>1, <1>2, OfWallet DEF Settings
  <2> QED
    BY <1>1, <2>1 DEF Intends, Starting, Wanted
<1>3. ASSUME NEW g \in Files \ unheard', ~disabled, \A u \in Threads : Busy(u) => task[u].file # g
      PROVE  Right(g)'
  <2>1. Right(g)
    BY <1>1, <1>3 DEF Settings
  <2> QED
    BY <1>1, <2>1 DEF Right, Wanted
<1> QED
  BY <1>1, <1>2, <1>3 DEF Settings, Busy

LEMMA SettingsStep ==
  IInv /\ Lit /\ Tables /\ Settings /\ [Next]_vars /\ ~raced' => Settings'
<1> SUFFICES ASSUME IInv, Lit, Tables, Settings, [Next]_vars, ~raced' PROVE Settings'
  OBVIOUS
<1>0. ~raced
  BY RacedStays
<1>1. CASE UNCHANGED <<settingVars, openVars, tableVars, serverVars, task>>
  <2>1. UNCHANGED <<override, offers, lightning, unheard, loaded, disabled, servers, owner, task>>
    BY <1>1 DEF settingVars, openVars, tableVars, serverVars
  <2> QED
    BY <2>1 DEF Settings, Intends, Starting, Wanted, Right, Served, Enabled, Busy
<1>2. ASSUME NEW t \in Threads, ThreadStep(t) PROVE Settings'
  <2>1. CASE disabled
    BY <1>0, <1>2, <2>1, SettingsOff
  <2>2. CASE ~disabled
    BY <1>0, <1>2, <2>2, SettingsReading, SettingsStopping, SettingsMaking DEF ThreadStep
  <2> QED
    BY <2>1, <2>2
<1>3. CASE Begins
  BY <1>3, SettingsHooks, SettingsDisables, SettingsUnheard DEF Begins
<1>4. CASE \/ LoopStep(RunStarts) \/ LoopStep(CloseStarts) \/ LoopStep(CloseEnds)
          \/ LoopStep(RunReturns) \/ LoopStep(RunFails)
  BY <1>1, <1>4 DEF LoopStep
<1>5. CASE UNCHANGED vars
  BY <1>1, <1>5 DEF vars
<1> QED
  BY <1>2, <1>3, <1>4, <1>5 DEF Next

\* The invariant of the settled states.
Follows == Lit /\ (~raced => Tables /\ Scheduled /\ Settings)

LEMMA InitFollows == Init => Follows
<1> SUFFICES ASSUME Init PROVE Lit /\ Tables /\ Scheduled /\ Settings
  BY DEF Follows
<1>1. \A t \in Threads : task[t] = Idle /\ ~Busy(t)
  BY DEF Init, Busy, Idle
<1>2. Tables
  BY <1>1 DEF Init, Tables, ThreadTables, Idle
<1>3. Scheduled
  <2>1. Len(queue) = 0 /\ closing = {} /\ created = 0
    BY DEF Init
  <2>2. ASSUME NEW s \in Servers PROVE ServerFits(s)
    <3>1. run[s] = "none" /\ ~doStop[s] /\ ~(s <= created)
      BY <2>1 DEF Init, Servers
    <3>2. ~Making(s) /\ ~Telling(s)
      BY <1>1 DEF Making, Telling, Idle
    <3> QED
      BY <3>1, <3>2 DEF ServerFits
  <2> QED
    BY <2>1, <2>2 DEF Scheduled, QueueFits, ClosingFits
<1>4. Settings
  BY <1>1 DEF Init, Settings, Right, Wanted
<1>5. Lit
  BY <1>1 DEF Init, Lit, Lights, Idle
<1> QED
  BY <1>2, <1>3, <1>4, <1>5

LEMMA FollowsStep == IInv /\ Follows /\ [Next]_vars => Follows'
BY RacedStays, LitStep, TablesStep, ScheduledStep, SettingsStep DEF Follows

\* With no thread at work and nothing scheduled, a server is being made by none.
LEMMA SettledServers ==
  ASSUME Settled, Scheduled, NEW s \in Servers, s <= created
  PROVE  /\ run[s] # "none" /\ (run[s] = "over" => doStop[s])
         /\ doStop[s] => run[s] \in {"over", "failed"}
<1>1. ~Making(s) /\ ~Telling(s)
  BY DEF Settled, Busy, Making, Telling
<1>2. \A what : ~Queued(what, s)
  BY DEF Settled, Queued
<1>3. ~Awaited(s)
  BY DEF Settled, Awaited
<1> QED
  BY <1>1, <1>2, <1>3 DEF Scheduled, ServerFits

LEMMA SettledFollows == IInv /\ Follows => FollowsSetting
<1> SUFFICES ASSUME IInv, Follows, Settled, ~raced
             PROVE  /\ ~disabled => \A f \in Files \ unheard :
                         /\ servers[f] # 0 <=> loaded[f] # Nobody /\ Served(f)
                         /\ servers[f] # 0 => Serves(f)
                    /\ disabled => \A s \in Servers : run[s] # "running"
  BY DEF FollowsSetting
<1>1. Scheduled /\ Settings /\ \A t \in Threads : ~Busy(t)
  BY DEF Follows, Settled
<1>2. /\ servers \in [Files -> 0..created] /\ created \in 0..Generations
      /\ run \in [Servers -> {"none", "running", "over", "failed"}]
      /\ owner \in [Servers -> Wallets \cup {Nobody}]
      /\ \A s \in Servers : owner[s] # Nobody <=> s <= created
      /\ Registered /\ NoStrays /\ Generations \in Nat
  BY LifecycleAssumption DEF IInv, TypeOK
<1>3. ASSUME ~disabled, NEW f \in Files \ unheard
      PROVE  /\ servers[f] # 0 <=> loaded[f] # Nobody /\ Served(f)
             /\ servers[f] # 0 => Serves(f)
  <2>1. Right(f)
    BY <1>1, <1>3 DEF Settings
  <2>2. ASSUME servers[f] # 0 PROVE run[servers[f]] \in {"running", "failed"}
    <3>1. servers[f] \in Servers /\ servers[f] <= created /\ ~doStop[servers[f]]
      BY <1>2, <1>3, <2>2 DEF Servers, Registered
    <3>2. run[servers[f]] \notin {"none", "over"}
      BY <1>1, <3>1, SettledServers
    <3> QED
      BY <1>2, <3>1, <3>2
  <2> QED
    BY <2>1, <2>2 DEF Right, Wanted, Serves
<1>4. ASSUME disabled, NEW s \in Servers PROVE run[s] # "running"
  <2>1. \A f \in Files : servers[f] = 0
    BY <1>1, <1>4 DEF Settings
  <2>2. CASE s <= created
    <3>1. owner[s] \in Wallets /\ FileOf[owner[s]] \in Files
      BY <1>2, <2>2, LifecycleAssumption
    <3>2. s \in 1..created /\ servers[FileOf[owner[s]]] # s
      BY <1>2, <2>1, <2>2, <3>1 DEF Servers
    <3>3. ~Stopping(s)
      BY <1>1 DEF Stopping, Busy
    <3>4. doStop[s]
      BY <1>2, <3>2, <3>3 DEF NoStrays
    <3> QED
      BY <1>1, <2>2, <3>4, SettledServers
  <2>3. CASE ~(s <= created)
    BY <1>1, <2>3 DEF Scheduled, ServerFits
  <2> QED
    BY <2>2, <2>3
<1> QED
  BY <1>3, <1>4

\* Whenever all that hooks and commands asked for is done: a file has a server for
\* its open object exactly if it is open, with lightning and CLINK enabled, that
\* server runs unless an exception ended its run(), and a plugin switched off leaves
\* none running; for any number of files and servers and any order of start_plugin,
\* _stop_server and the loop's callbacks, except where two threads met on one file
\* or a change came without a call.
THEOREM SettingIsFollowed == Spec => []FollowsSetting
BY InitIInv, Inductive, InitFollows, FollowsStep, SettledFollows, PTL DEF Spec
=============================================================================
