----------------------------- MODULE Lifecycle ------------------------------
(***************************************************************************)
(* Which wallets have a CLINK server: the plugin object of clink_plugin.py *)
(* with its two dictionaries, changed by the hooks of the GUI thread and   *)
(* by commands on the asyncio thread, and the coroutines both schedule on  *)
(* the asyncio loop.  No lock protects the dictionaries: an action is one  *)
(* access to what the threads share.  On the loop a command runs to its    *)
(* end before the next callback; the GUI thread runs beside it.            *)
(*                                                                         *)
(* Electrum is external: it opens and closes wallets, makes a new object   *)
(* of a wallet file each time, gives one lightning, and calls the hooks.   *)
(***************************************************************************)
EXTENDS Naturals, Sequences

CONSTANTS
  Files,        \* wallet files
  Wallets,      \* wallet objects, each used once
  FileOf,       \* the file of each
  Nobody,       \* no wallet
  DefaultOn,    \* plugins.clink.wallet_default_enabled
  Generations   \* bound: how many servers are made

ASSUME LifecycleAssumption ==
  /\ FileOf \in [Wallets -> Files]
  /\ Nobody \notin Wallets
  /\ DefaultOn \in BOOLEAN
  /\ Generations \in Nat

VARIABLES
  build,      \* "qt" or "daemon": which Plugin class is loaded
  override,   \* the wallet's own "enabled" setting, in its file
  offers,     \* the files that hold offers
  lightning,  \* the files whose wallet has_lightning()
  loaded,     \* the object through which Electrum has each file open
  used,       \* the objects there have been
  disabled,   \* the plugin was switched off: on_close has been called
  servers,    \* self._servers; a server is its number, 0 is none
  groups,     \* self._taskgroups; a group has the number of its server
  created,    \* the number of servers made
  owner,      \* server.wallet
  doStop,     \* server.do_stop
  run,        \* the task of server.run()
  queue,      \* callbacks the loop has yet to begin
  closing,    \* close() coroutines that await manager.close()
  task,       \* what each thread is doing in the plugin object
  unheard,    \* history: files that changed without a call to the plugin
  raced       \* history: two threads were at work on one file at once

settingVars == <<override, offers, lightning, unheard>>
openVars == <<build, loaded, used, disabled>>
tableVars == <<servers, groups>>
serverVars == <<created, owner, doStop>>
loopVars == <<run, queue, closing>>
vars == <<settingVars, openVars, tableVars, serverVars, loopVars, task, raced>>

Threads == {"gui", "loop"}
Servers == 1..Generations
Steps == {"idle", "apply", "check", "look", "get", "pop", "popgroup",
          "halt", "close", "store", "group", "run"}
Callbacks == [what : {"run", "close"}, server : Servers, group : 0..Generations]

Idle == [pc |-> "idle", wallet |-> Nobody, file |-> Nobody, todo |-> {},
         starts |-> FALSE, server |-> 0, group |-> 0]
Busy(t) == task[t].pc # "idle"
Scope(t) == IF task[t].wallet = Nobody THEN Files ELSE {FileOf[task[t].wallet]}

\* WalletSettings.get("enabled"): the override, else the migration of wallets
\* that hold offers, else the global default.
Enabled(f) ==
  \/ override[f] = "on"
  \/ override[f] = "unset" /\ (f \in offers \/ DefaultOn)

\* What start_plugin asks for.
Served(f) == f \in lightning /\ Enabled(f)

Init ==
  /\ build \in {"qt", "daemon"}
  /\ override \in [Files -> {"unset", "on", "off"}]
  /\ offers \in SUBSET Files /\ lightning \in SUBSET Files
  /\ loaded = [f \in Files |-> Nobody] /\ used = {} /\ disabled = FALSE
  /\ servers = [f \in Files |-> 0] /\ groups = [f \in Files |-> 0]
  /\ created = 0
  /\ owner = [s \in Servers |-> Nobody] /\ doStop = [s \in Servers |-> FALSE]
  /\ run = [s \in Servers |-> "none"] /\ queue = <<>> /\ closing = {}
  /\ task = [t \in Threads |-> Idle]
  /\ unheard = {} /\ raced = FALSE

-----------------------------------------------------------------------------
(* How an operation begins.  Hooks come on the GUI thread in a Qt build    *)
(* and on the loop in a daemon, commands always on the loop.               *)

HookThread == IF build = "qt" THEN "gui" ELSE "loop"

\* Each operation may make a server.
Underway(t) == IF Busy(t) THEN 1 ELSE 0

Begin(t, w, step, todo) ==
  /\ ~disabled /\ ~Busy(t)
  /\ created + Underway("gui") + Underway("loop") < Generations
  /\ task' = [task EXCEPT ![t] =
       [Idle EXCEPT !.pc = step, !.wallet = w, !.todo = todo,
                    !.file = IF w = Nobody THEN Nobody ELSE FileOf[w]]]
  /\ raced' = (raced \/ \E u \in Threads \ {t} :
                 Busy(u) /\ Scope(u) \cap (IF w = Nobody THEN Files ELSE {FileOf[w]}) # {})
  /\ UNCHANGED <<build, tableVars, serverVars, loopVars>>

\* load_wallet, daemon_wallet_loaded: start_plugin, which looks for a server only
\* if CLINK is enabled.
Opens(w) ==
  /\ w \notin used /\ loaded[FileOf[w]] = Nobody
  /\ Begin(HookThread, w, "check", {})
  /\ loaded' = [loaded EXCEPT ![FileOf[w]] = w] /\ used' = used \cup {w}
  /\ unheard' = IF Enabled(FileOf[w]) THEN unheard \ {FileOf[w]} ELSE unheard
  /\ UNCHANGED <<disabled, override, offers, lightning>>

\* The close_wallet hook, which only a Qt build is sure to fire.
Closes(w) ==
  /\ build = "qt" /\ loaded[FileOf[w]] = w
  /\ Begin("gui", w, "look", {})
  /\ loaded' = [loaded EXCEPT ![FileOf[w]] = Nobody]
  /\ unheard' = unheard \ {FileOf[w]}
  /\ UNCHANGED <<used, disabled, override, offers, lightning>>

\* The daemon's close_wallet: no hook.
ClosesUnseen(w) ==
  /\ loaded[FileOf[w]] = w /\ ~Busy("loop")
  /\ loaded' = [loaded EXCEPT ![FileOf[w]] = Nobody]
  /\ raced' = (raced \/ \E t \in Threads : Busy(t) /\ FileOf[w] \in Scope(t))
  /\ unheard' = unheard \cup {FileOf[w]}
  /\ UNCHANGED <<build, used, disabled, override, offers, lightning, tableVars,
                 serverVars, loopVars, task>>

\* set_wallet_enabled by the toggle of the tab or by a command, and set_setting
\* with its notify_setting_changed.
SetsEnabled(t, w, value) ==
  /\ t = "gui" => build = "qt" /\ value # "unset"
  /\ loaded[FileOf[w]] = w
  /\ Begin(t, w, "apply", {})
  /\ override' = [override EXCEPT ![FileOf[w]] = value]
  /\ unheard' = unheard \ {FileOf[w]}
  /\ UNCHANGED <<loaded, used, disabled, offers, lightning>>

\* on_close: BasePlugin.close() has removed the hooks.  A later command would
\* load a new plugin object.
Disables(t) ==
  /\ t = HookThread
  /\ LET all == {f \in Files : servers[f] # 0} IN
       Begin(t, Nobody, IF all = {} THEN "idle" ELSE "pop", all)
  /\ disabled' = TRUE
  /\ UNCHANGED <<loaded, used, settingVars>>

\* The first offer of a wallet, or the loss of its last: for a wallet without an
\* override the setting flips, and nothing is called.  A creation may end when its
\* server has been stopped; a removal needs a registered one.
OffersChange(f) ==
  /\ ~Busy("loop")
  /\ \/ /\ f \notin offers
        /\ \E s \in 1..created : owner[s] = loaded[f]
        /\ offers' = offers \cup {f}
     \/ f \in offers /\ servers[f] # 0 /\ offers' = offers \ {f}
  /\ unheard' = IF override[f] = "unset" /\ ~DefaultOn THEN unheard \cup {f} ELSE unheard
  /\ UNCHANGED <<override, lightning, openVars, tableVars, serverVars, loopVars, task,
                 raced>>

\* An open wallet gets a lightning node of its own.  It keeps it, and the plugin is
\* not told.
GetsLightning(f) ==
  /\ ~Busy(HookThread) /\ loaded[f] # Nobody
  /\ f \notin lightning /\ lightning' = lightning \cup {f}
  /\ unheard' = IF Enabled(f) THEN unheard \cup {f} ELSE unheard
  /\ UNCHANGED <<override, offers, openVars, tableVars, serverVars, loopVars, task, raced>>

-----------------------------------------------------------------------------
(* The operations, access by access.                                       *)

At(t, step) == task[t].pc = step
Goto(t, step) == task' = [task EXCEPT ![t].pc = step]
Ends(t) == task' = [task EXCEPT ![t] = Idle]

\* After a _stop_server: the next one, the new server, or the end.
Proceeds(t) ==
  IF task[t].todo # {} THEN Goto(t, "pop")
  ELSE IF task[t].starts THEN Goto(t, "store") ELSE Ends(t)

\* apply_wallet_enabled reads the setting ...
Apply(t) ==
  /\ At(t, "apply")
  /\ Goto(t, IF Enabled(task[t].file) THEN "check" ELSE "look")
  /\ UNCHANGED <<tableVars, serverVars, loopVars>>

\* ... and start_plugin reads it again, after it has looked for lightning.
Check(t) ==
  /\ At(t, "check")
  /\ IF Served(task[t].file) THEN Goto(t, "get") ELSE Ends(t)
  /\ UNCHANGED <<tableVars, serverVars, loopVars>>

\* Mutation of Found: close_wallet only goes by the wallet object.
FoundSameObject(t) ==
  {f \in Files : servers[f] # 0 /\ owner[servers[f]] = task[t].wallet}

\* The server that drives this wallet, the object or another one of its file.
Found(t) == {f \in {task[t].file} : servers[f] # 0}

\* apply_wallet_enabled of a disabled wallet, close_wallet.
Look(t) ==
  /\ At(t, "look")
  /\ IF Found(t) = {} THEN Ends(t)
     ELSE task' = [task EXCEPT ![t].pc = "pop", ![t].todo = Found(t)]
  /\ UNCHANGED <<tableVars, serverVars, loopVars>>

\* Mutation of Drives: a server of the same file is good enough.
DrivesFile(s, w) == FileOf[owner[s]] = FileOf[w]

\* server.wallet is wallet.
Drives(s, w) == owner[s] = w

\* Mutation of Replaces: the new server takes the place of the old one.
ReplacesOverwriting(t) == Goto(t, "store")

\* The server of a dead object is stopped before the new one is made.
Replaces(t) ==
  task' = [task EXCEPT ![t].pc = "pop", ![t].todo = {task[t].file}, ![t].starts = TRUE]

\* start_plugin: the server it finds is this wallet's, a dead object's, or none.
Get(t) ==
  LET s == servers[task[t].file] IN
  /\ At(t, "get")
  /\ IF s = 0 THEN Goto(t, "store")
     ELSE IF Drives(s, task[t].wallet) THEN Ends(t)
     ELSE Replaces(t)
  /\ UNCHANGED <<tableVars, serverVars, loopVars>>

\* Mutation of Popped: the entry is read and stays.
PoppedNot(f) == servers

Popped(f) == [servers EXCEPT ![f] = 0]

\* _stop_server: self._servers.pop, self._taskgroups.pop, do_stop, and close()
\* handed to the loop.
PopServer(t) ==
  /\ At(t, "pop")
  /\ \E f \in task[t].todo :
       /\ task' = [task EXCEPT ![t].pc = "popgroup", ![t].file = f,
                     ![t].server = servers[f], ![t].todo = @ \ {f}]
       /\ servers' = Popped(f)
  /\ UNCHANGED <<groups, serverVars, loopVars>>

PopGroup(t) ==
  LET f == task[t].file IN
  /\ At(t, "popgroup")
  /\ groups' = [groups EXCEPT ![f] = 0]
  /\ IF task[t].server = 0 THEN Proceeds(t)
     ELSE task' = [task EXCEPT ![t].pc = "halt", ![t].group = groups[f]]
  /\ UNCHANGED <<servers, serverVars, loopVars>>

Halt(t) ==
  /\ At(t, "halt")
  /\ doStop' = [doStop EXCEPT ![task[t].server] = TRUE]
  /\ Goto(t, "close")
  /\ UNCHANGED <<tableVars, created, owner, loopVars>>

\* _run_async: a callback at the end of the loop's queue.
Post(what, s, g) ==
  /\ queue' = Append(queue, [what |-> what, server |-> s, group |-> g])
  /\ UNCHANGED <<run, closing>>

PostClose(t) ==
  /\ At(t, "close")
  /\ Post("close", task[t].server, task[t].group)
  /\ Proceeds(t)
  /\ UNCHANGED <<tableVars, serverVars>>

\* start_plugin: a fresh server, its group, and run() handed to the loop.
Store(t) ==
  LET s == created + 1  f == task[t].file IN
  /\ At(t, "store")
  /\ created' = s
  /\ owner' = [owner EXCEPT ![s] = task[t].wallet]
  /\ servers' = [servers EXCEPT ![f] = s]
  /\ task' = [task EXCEPT ![t].pc = "group", ![t].server = s]
  /\ UNCHANGED <<groups, doStop, loopVars>>

StoreGroup(t) ==
  /\ At(t, "group")
  /\ groups' = [groups EXCEPT ![task[t].file] = task[t].server]
  /\ Goto(t, "run")
  /\ UNCHANGED <<servers, serverVars, loopVars>>

PostRun(t) ==
  /\ At(t, "run")
  /\ Post("run", task[t].server, task[t].server)
  /\ Ends(t)
  /\ UNCHANGED <<tableVars, serverVars>>

ThreadStep(t) ==
  /\ \/ Apply(t) \/ Check(t) \/ Look(t) \/ Get(t) \/ PopServer(t) \/ PopGroup(t)
     \/ Halt(t) \/ PostClose(t) \/ Store(t) \/ StoreGroup(t) \/ PostRun(t)
  /\ UNCHANGED <<settingVars, openVars, raced>>

-----------------------------------------------------------------------------
(* The loop, between two commands.                                         *)

\* taskgroup.spawn(server.run()).
RunStarts ==
  /\ queue # <<>> /\ Head(queue).what = "run"
  /\ queue' = Tail(queue)
  /\ run' = [run EXCEPT ![Head(queue).server] = "running"]
  /\ UNCHANGED closing

\* close() of _stop_server up to its await.
CloseStarts ==
  /\ queue # <<>> /\ Head(queue).what = "close"
  /\ queue' = Tail(queue)
  /\ closing' = closing \cup {Head(queue)}
  /\ UNCHANGED run

\* taskgroup.cancel_remaining(), in the finally clause: the task of the group.
Cancels(c) ==
  [s \in Servers |-> IF s = c.group /\ run[s] = "running" THEN "over" ELSE run[s]]

\* Mutation of CloseEnds: the group is joined, not cancelled.
CloseEndsJoins ==
  \E c \in closing :
    /\ c.group # 0 => run[c.group] \in {"over", "failed"}
    /\ closing' = closing \ {c}
    /\ UNCHANGED <<run, queue>>

CloseEnds ==
  \E c \in closing :
    /\ closing' = closing \ {c}
    /\ run' = Cancels(c)
    /\ UNCHANGED queue

\* run() itself looks at do_stop while it waits for its prerequisites.
RunReturns ==
  \E s \in Servers :
    /\ run[s] = "running" /\ doStop[s]
    /\ run' = [run EXCEPT ![s] = "over"]
    /\ UNCHANGED <<queue, closing>>

\* It ends by an exception of refresh_manager() or manager.close(), which it does not
\* catch: the server stays registered, and nothing starts it again.
RunFails ==
  \E s \in Servers :
    /\ run[s] = "running"
    /\ run' = [run EXCEPT ![s] = "failed"]
    /\ UNCHANGED <<queue, closing>>

LoopStep(A) ==
  /\ ~Busy("loop") /\ A
  /\ UNCHANGED <<settingVars, openVars, tableVars, serverVars, task, raced>>

Begins ==
  \/ \E w \in Wallets : Opens(w) \/ Closes(w) \/ ClosesUnseen(w)
  \/ \E t \in Threads, w \in Wallets, v \in {"unset", "on", "off"} : SetsEnabled(t, w, v)
  \/ \E t \in Threads : Disables(t)
  \/ \E f \in Files : OffersChange(f) \/ GetsLightning(f)

Next ==
  \/ Begins
  \/ \E t \in Threads : ThreadStep(t)
  \/ LoopStep(RunStarts) \/ LoopStep(CloseStarts) \/ LoopStep(CloseEnds)
  \/ LoopStep(RunReturns) \/ LoopStep(RunFails)

Spec == Init /\ [][Next]_vars

\* A thread goes on, and the loop comes to every callback: commands that keep
\* arriving delay one, they do not starve it.
Fairness ==
  /\ \A t \in Threads : WF_vars(ThreadStep(t))
  /\ SF_vars(LoopStep(RunStarts)) /\ SF_vars(LoopStep(CloseStarts))
  /\ SF_vars(LoopStep(CloseEnds))

FairSpec == Spec /\ Fairness

-----------------------------------------------------------------------------
\* A registered server is one of its file and was not told to stop, also when
\* threads meet.
Registered ==
  \A f \in Files : servers[f] # 0 =>
    FileOf[owner[servers[f]]] = f /\ ~doStop[servers[f]]

\* Types.
TypeOK ==
  /\ build \in {"qt", "daemon"}
  /\ override \in [Files -> {"unset", "on", "off"}] /\ offers \subseteq Files
  /\ lightning \subseteq Files
  /\ loaded \in [Files -> Wallets \cup {Nobody}] /\ used \subseteq Wallets
  /\ disabled \in BOOLEAN
  /\ servers \in [Files -> 0..created] /\ groups \in [Files -> 0..created]
  /\ created \in 0..Generations
  /\ owner \in [Servers -> Wallets \cup {Nobody}]
  /\ \A s \in Servers : owner[s] # Nobody <=> s <= created
  /\ doStop \in [Servers -> BOOLEAN]
  /\ run \in [Servers -> {"none", "running", "over", "failed"}]
  /\ queue \in Seq(Callbacks) /\ closing \subseteq Callbacks
  /\ task \in [Threads ->
       [pc : Steps, wallet : Wallets \cup {Nobody}, file : Files \cup {Nobody},
        todo : SUBSET Files, starts : BOOLEAN,
        server : 0..created, group : 0..created]]
  /\ unheard \subseteq Files /\ raced \in BOOLEAN
  /\ Registered

Stopping(s) ==
  \E t \in Threads : task[t].server = s /\ task[t].pc \in {"popgroup", "halt"}

\* A server that was not told to stop is the registered one of its file, so one
\* wallet file is never listened for twice by servers that mean to go on: not
\* through reloads, closes, toggles and commands, unless two threads met on it.
NoStrays ==
  ~raced => \A s \in 1..created :
    ~doStop[s] => servers[FileOf[owner[s]]] = s \/ Stopping(s)

Settled == (\A t \in Threads : ~Busy(t)) /\ queue = <<>> /\ closing = {}
Serves(f) ==
  owner[servers[f]] = loaded[f] /\ run[servers[f]] \in {"running", "failed"}

\* When all that was asked for is done, a wallet file has a server exactly if it
\* is open, with lightning and with CLINK enabled, and that server drives the open
\* object and runs, unless an exception ended its run(); a plugin switched off
\* leaves nothing running.  Excepted: two threads met on a file, or the file changed
\* and the plugin was not called (a close without the hook, the last offer of a
\* migrated wallet, lightning that an open wallet got).
FollowsSetting ==
  Settled /\ ~raced =>
    /\ ~disabled => \A f \in Files \ unheard :
         /\ servers[f] # 0 <=> loaded[f] # Nobody /\ Served(f)
         /\ servers[f] # 0 => Serves(f)
    /\ disabled => \A s \in Servers : run[s] # "running"

\* A server that is told to stop ends, if it has not failed before, with its relay
\* manager closed or not; unless two threads met on one file.
Reaped == \A s \in Servers : doStop[s] ~> (run[s] \in {"over", "failed"} \/ raced)
=============================================================================
