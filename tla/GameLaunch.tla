----------------------------- MODULE GameLaunch -----------------------------
(***************************************************************************)
(* The launch lifecycle of one engine session: launch_instance and its     *)
(* background half run_launch, the process monitor, the single-flight exit *)
(* finalizer, the reconcile sweep, stop_instance, train_instance and       *)
(* apply_version_change (native/engine/src/api/game_launch.rs), with the   *)
(* running-games.json records they keep (native/engine/src/                *)
(* game_sessions.rs).                                                      *)
(*                                                                         *)
(* Every mutex of GameLaunchState is taken and released separately by the  *)
(* code, so an action is what one thread does between two points where     *)
(* another thread's locked section may come in with an observable effect.  *)
(* A launch is identified by its key; None stands for Rust's Option::None. *)
(***************************************************************************)
EXTENDS Integers

CONSTANTS
  Names,   \* instance names
  Keys,    \* launch keys make_key can mint (bounds the number of launches)
  Stops,   \* concurrent POST .../stop requests
  AotNames,\* the instances whose loader supports an AOT cache
  Modes,   \* the agent flags launches are requested with
  None

ASSUME RequestAssumption == AotNames \subseteq Names /\ Modes \subseteq BOOLEAN
ASSUME NoneAssumption == None \notin Names \cup Keys

VARIABLES
  inst,          \* [Keys -> name it was minted for, or None]
  agent,         \* keys launched with agent: true
  stage,         \* [Keys -> where run_launch is]
  proc,          \* [Keys -> the game's OS process]
  mon,           \* [Keys -> process::monitor of the game]
  marker,        \* [Keys -> the on_marker callback; "fired": menu_at is set]
  active,        \* Engine::active_instances
  running,       \* GameLaunchState::running, [Names -> key or None]
  pendingStops,  \* GameLaunchState::pending_stops
  live,          \* GameLaunchState::live_launches (presence refcount)
  registry,      \* the agent registry's keys (agent.rs launches)
  buffer,        \* [Keys -> LaunchBuffer: absent, running or finished]
  wantsTrain,    \* keys whose buffer has needs_auto_train
  autoTrained,   \* keys whose exit called auto_train
  sessions,      \* running-games.json, [Names -> record]
  adopted,       \* keys running without a process handle (earlier session)
  exitSeen,      \* keys whose finalizer has been entered (exit_seen / done)
  finAt,         \* [Keys -> how far the finalizer got]
  finBy,         \* [Keys -> the thread running it, or None]
  calls,         \* finalizer calls made and not yet past exit_seen
  exits,         \* [Keys -> LaunchExit events emitted]
  stopAt, stopName, stopTarget,  \* the stop requests in progress
  training,      \* keys a train_instance has picked and not yet marked
  changing       \* instances inside apply_version_change

launchVars  == <<inst, agent, stage>>
gameVars    == <<proc, mon, marker>>
engineVars  == <<active, running, pendingStops, live, registry>>
bufferVars  == <<buffer, wantsTrain, autoTrained>>
exitVars    == <<exitSeen, finAt, finBy, calls>>
stopVars    == <<stopAt, stopName, stopTarget>>
vars == <<launchVars, gameVars, engineVars, bufferVars, sessions, adopted,
          exitVars, exits, stopVars, training, changing>>

-----------------------------------------------------------------------------
(* running-games.json: a record keeps the key (which stands for the pid,  *)
(* token and game_dir written with it) and whose marker set menu_at.      *)

NoRecord == [key |-> None, menu |-> None]
Records  == [key : Keys \cup {None}, menu : Keys \cup {None}]

\* Updates ending in Anew, Unless..., and the like, and the operators marked
\* (mutant), are the plausible bugs the properties are tested against.
RecordGame(n, k) == sessions' = [sessions EXCEPT ![n].key = k]
RecordMenuAnew(n, k) == sessions' = [sessions EXCEPT ![n] = [key |-> None, menu |-> k]]
RecordMenu(n, k) == sessions' = [sessions EXCEPT ![n].menu = k]
RemoveSession(n) == sessions' = [sessions EXCEPT ![n] = NoRecord]

-----------------------------------------------------------------------------
Stages == {"unborn", "resolving", "failing", "cancelling", "starting",
           "spawned", "unwinding", "done", "over"}
FinSteps == {"none", "seen", "cleared", "freed", "done"}
StopSteps == {"idle", "check", "lookup", "insert", "kill", "reap", "reply"}

\* The threads that may call a finalizer: the game's monitor, the sweep of a
\* GET /api/launches and the two sweeps of a stop request.
Callers == Stops \cup {"list", "monitor"}

TypeOK ==
  /\ inst \in [Keys -> Names \cup {None}]
  /\ agent \subseteq Keys
  /\ stage \in [Keys -> Stages]
  /\ proc \in [Keys -> {"none", "alive", "dead"}]
  /\ mon \in [Keys -> {"off", "watching", "published"}]
  /\ marker \in [Keys -> {"none", "firing", "fired"}]
  /\ active \subseteq Names
  /\ running \in [Names -> Keys \cup {None}]
  /\ pendingStops \subseteq Names
  /\ live \subseteq Keys
  /\ registry \subseteq Keys
  /\ buffer \in [Keys -> {"absent", "running", "finished"}]
  /\ wantsTrain \subseteq Keys
  /\ autoTrained \subseteq Keys
  /\ sessions \in [Names -> Records]
  /\ adopted \subseteq Keys
  /\ exitSeen \subseteq Keys
  /\ finAt \in [Keys -> FinSteps]
  /\ finBy \in [Keys -> Callers \cup {None}]
  /\ calls \subseteq Callers \X Keys
  /\ exits \in [Keys -> Nat]
  /\ stopAt \in [Stops -> StopSteps]
  /\ stopName \in [Stops -> Names \cup {None}]
  /\ stopTarget \in [Stops -> Keys \cup {None}]
  /\ training \subseteq Keys
  /\ changing \subseteq Names

\* A fresh engine whose running-games.json is empty.
Init ==
  /\ inst = [k \in Keys |-> None]
  /\ agent = {}
  /\ stage = [k \in Keys |-> "unborn"]
  /\ proc = [k \in Keys |-> "none"]
  /\ mon = [k \in Keys |-> "off"]
  /\ marker = [k \in Keys |-> "none"]
  /\ active = {}
  /\ running = [n \in Names |-> None]
  /\ pendingStops = {}
  /\ live = {}
  /\ registry = {}
  /\ buffer = [k \in Keys |-> "absent"]
  /\ wantsTrain = {}
  /\ autoTrained = {}
  /\ sessions = [n \in Names |-> NoRecord]
  /\ adopted = {}
  /\ exitSeen = {}
  /\ finAt = [k \in Keys |-> "none"]
  /\ finBy = [k \in Keys |-> None]
  /\ calls = {}
  /\ exits = [k \in Keys |-> 0]
  /\ stopAt = [r \in Stops |-> "idle"]
  /\ stopName = [r \in Stops |-> None]
  /\ stopTarget = [r \in Stops |-> None]
  /\ training = {}
  /\ changing = {}

-----------------------------------------------------------------------------
(* Small updates shared by the handlers.                                   *)

GoTo(k, from, to) == stage[k] = from /\ stage' = [stage EXCEPT ![k] = to]
Clear(n)          == running' = [running EXCEPT ![n] = None]
Finish(k)         == buffer' = [buffer EXCEPT ![k] = "finished"]
EmitExit(k)       == exits' = [exits EXCEPT ![k] = @ + 1]

\* live_launches counts the player launches that show in the presence.
EnterPresence(k)  == live' = IF k \in agent THEN live ELSE live \cup {k}
StaysPresent(k)   == UNCHANGED live                                \* (mutant)
LeavePresence(k)  == live' = live \ {k}

\* ActiveInstances::insert answers false when the name is already there.
IgnoreActive(n) == n \in Names                                      \* (mutant)
FreeInstance(n) == n \notin active

-----------------------------------------------------------------------------
(* launch_instance: the guard, the buffer, the agent registration and the  *)
(* background task. Nothing is awaited between the guard and the task.     *)

LaunchInstance(k, n, a) ==
  /\ inst[k] = None
  /\ FreeInstance(n)
  /\ inst' = [inst EXCEPT ![k] = n]
  /\ GoTo(k, "unborn", "resolving")
  /\ agent' = IF a THEN agent \cup {k} ELSE agent
  /\ registry' = IF a THEN registry \cup {k} ELSE registry
  /\ active' = active \cup {n}
  /\ buffer' = [buffer EXCEPT ![k] = "running"]
  /\ UNCHANGED <<gameVars, running, pendingStops, live, wantsTrain,
                 autoTrained, sessions, adopted, exitVars, exits,
                 stopVars, training, changing>>

(* run_launch, resolve failed: the instance is free before the pending     *)
(* stop is dropped, so the two removals are two steps.                     *)
ResolveFails(k) ==
  /\ GoTo(k, "resolving", "failing")
  /\ active' = active \ {inst[k]}
  /\ UNCHANGED <<inst, agent, gameVars, running, pendingStops, live, registry,
                 bufferVars, sessions, adopted, exitVars, exits, stopVars,
                 training, changing>>

ResolveFailed(k) ==
  /\ GoTo(k, "failing", "over")
  /\ pendingStops' = pendingStops \ {inst[k]}
  /\ registry' = registry \ {k}
  /\ Finish(k)
  /\ EmitExit(k)
  /\ UNCHANGED <<inst, agent, gameVars, active, running, live, wantsTrain,
                 autoTrained, sessions, adopted, exitVars, stopVars, training,
                 changing>>

(* run_launch, resolve succeeded: a stop that arrived meanwhile cancels    *)
(* the launch, otherwise a player launch enters the presence refcount.     *)
ResolveCancelled(k) ==
  /\ GoTo(k, "resolving", "cancelling")
  /\ inst[k] \in pendingStops
  /\ pendingStops' = pendingStops \ {inst[k]}
  /\ UNCHANGED <<inst, agent, gameVars, active, running, live, registry,
                 bufferVars, sessions, adopted, exitVars, exits, stopVars,
                 training, changing>>

Cancelled(k) ==
  /\ GoTo(k, "cancelling", "over")
  /\ active' = active \ {inst[k]}
  /\ registry' = registry \ {k}
  /\ Finish(k)
  /\ EmitExit(k)
  /\ UNCHANGED <<inst, agent, gameVars, running, pendingStops, live, wantsTrain,
                 autoTrained, sessions, adopted, exitVars, stopVars, training,
                 changing>>

Resolved(k) ==
  /\ GoTo(k, "resolving", "starting")
  /\ inst[k] \notin pendingStops
  /\ EnterPresence(k)
  /\ UNCHANGED <<inst, agent, gameVars, active, running, pendingStops,
                 registry, bufferVars, sessions, adopted, exitVars, exits,
                 stopVars, training, changing>>

(* launch::launch_instance: the JVM starts, on_spawned registers an agent  *)
(* launch again, the monitor and the marker watcher begin.                 *)
Spawn(k) ==
  /\ GoTo(k, "starting", "spawned")
  /\ proc' = [proc EXCEPT ![k] = "alive"]
  /\ mon' = [mon EXCEPT ![k] = "watching"]
  /\ registry' = IF k \in agent THEN registry \cup {k} ELSE registry
  /\ UNCHANGED <<inst, agent, marker, active, running, pendingStops, live,
                 bufferVars, sessions, adopted, exitVars, exits, stopVars,
                 training, changing>>

\* After the spawn, under the exit_seen lock: register and record the game
\* unless it has already ended.
NotEndedNorStopped(k) ==                                           \* (mutant)
  k \notin exitSeen /\ mon[k] # "published" /\ inst[k] \notin pendingStops
NotEnded(k) == k \notin exitSeen /\ mon[k] # "published"

Register(k) ==
  /\ GoTo(k, "spawned", "done")
  /\ IF NotEnded(k)
       THEN /\ running' = [running EXCEPT ![inst[k]] = k]
            /\ RecordGame(inst[k], k)
       ELSE UNCHANGED <<running, sessions>>
  /\ UNCHANGED <<inst, agent, gameVars, active, pendingStops, live, registry,
                 bufferVars, adopted, exitVars, exits, stopVars, training, changing>>

SpawnFails(k) ==
  /\ GoTo(k, "starting", "unwinding")
  /\ Clear(inst[k])
  /\ pendingStops' = pendingStops \ {inst[k]}
  /\ UNCHANGED <<inst, agent, gameVars, active, live, registry, bufferVars,
                 sessions, adopted, exitVars, exits, stopVars, training, changing>>

SpawnFailed(k) ==
  /\ GoTo(k, "unwinding", "over")
  /\ Finish(k)
  /\ LeavePresence(k)
  /\ active' = active \ {inst[k]}
  /\ registry' = registry \ {k}
  /\ EmitExit(k)
  /\ UNCHANGED <<inst, agent, gameVars, running, pendingStops,
                 wantsTrain, autoTrained, sessions, adopted, exitVars,
                 stopVars, training, changing>>

-----------------------------------------------------------------------------
(* The game process, its monitor and its menu marker.                      *)

\* The player quits, or the game crashes; the kernel reaps the process.
GameEnds(k) ==
  /\ proc[k] = "alive"
  /\ proc' = [proc EXCEPT ![k] = "dead"]
  /\ UNCHANGED <<launchVars, mon, marker, engineVars, bufferVars, sessions,
                 adopted, exitVars, exits, stopVars, training, changing>>

NoCall(c, k)   == UNCHANGED calls                                  \* (mutant)
CallFinalizer(c, k) == calls' = calls \cup {<<c, k>>}

\* monitor: the status is published first (has_exited), then on_exit is called.
MonitorSeesExit(k) ==
  /\ proc[k] = "dead" /\ mon[k] = "watching"
  /\ mon' = [mon EXCEPT ![k] = "published"]
  /\ CallFinalizer("monitor", k)
  /\ UNCHANGED <<launchVars, proc, marker, engineVars, bufferVars, sessions,
                 adopted, exitSeen, finAt, finBy, exits, stopVars,
                 training, changing>>

\* monitor: the wait for the process itself fails; its exit is published and
\* finalized all the same, and the game may still be alive.
WaitFails(k) ==
  /\ mon[k] = "watching"
  /\ mon' = [mon EXCEPT ![k] = "published"]
  /\ CallFinalizer("monitor", k)
  /\ UNCHANGED <<launchVars, proc, marker, engineVars, bufferVars, sessions,
                 adopted, exitSeen, finAt, finBy, exits, stopVars,
                 training, changing>>

\* A living game the engine has not been told is over.
Tracked(k) == proc[k] = "alive" /\ mon[k] # "published"

\* The latest.log watcher looks at has_exited before the log, and the output
\* pumps are not waited for beyond 2 s: either may act after the game has gone.
MarkerSeen(k) ==
  /\ mon[k] # "off" /\ marker[k] = "none"
  /\ marker' = [marker EXCEPT ![k] = "firing"]
  /\ UNCHANGED <<launchVars, proc, mon, engineVars, bufferVars, sessions,
                 adopted, exitVars, exits, stopVars, training, changing>>

\* on_marker; train says whether this launch lacked a usable AOT cache.
OnMarker(k, train) ==
  /\ marker[k] = "firing"
  /\ train => inst[k] \in AotNames
  /\ marker' = [marker EXCEPT ![k] = "fired"]
  /\ RecordMenu(inst[k], k)
  /\ wantsTrain' = IF train THEN wantsTrain \cup {k} ELSE wantsTrain
  /\ UNCHANGED <<launchVars, proc, mon, engineVars, buffer, autoTrained,
                 adopted, exitVars, exits, stopVars, training, changing>>

-----------------------------------------------------------------------------
(* The finalizer, single-flight on exit_seen: the monitor and the sweeps   *)
(* race to call it. Only the winner goes past the first step.              *)

FirstCome(k)   == k \in Keys                                        \* (mutant)
FirstToEnd(k)  == k \notin exitSeen
LostToSelf(c, k) == k \in exitSeen /\ finBy[k] = c                  \* (mutant)
LostTheRace(c, k) == k \in exitSeen

FinalizeReturns(c, k) ==
  /\ <<c, k>> \in calls
  /\ LostTheRace(c, k)
  /\ calls' = calls \ {<<c, k>>}
  /\ UNCHANGED <<launchVars, gameVars, engineVars, bufferVars, sessions,
                 adopted, exitSeen, finAt, finBy, exits, stopVars,
                 training, changing>>

\* A launched game leaves running and the session file under the exit_seen
\* lock; an adopted one leaves the file in its next step.
FinalizeSeen(c, k) ==
  /\ <<c, k>> \in calls
  /\ FirstToEnd(k)
  /\ calls' = calls \ {<<c, k>>}
  /\ exitSeen' = exitSeen \cup {k}
  /\ finAt' = [finAt EXCEPT ![k] = "seen"]
  /\ finBy' = [finBy EXCEPT ![k] = c]
  /\ Clear(inst[k])
  /\ IF k \in adopted THEN UNCHANGED sessions ELSE RemoveSession(inst[k])
  /\ UNCHANGED <<launchVars, gameVars, active, pendingStops, live, registry,
                 bufferVars, adopted, exits, stopVars, training, changing>>

FinalizeCleared(k) ==
  /\ finAt[k] = "seen"
  /\ finAt' = [finAt EXCEPT ![k] = "cleared"]
  /\ IF k \in adopted
       THEN RemoveSession(inst[k]) /\ UNCHANGED pendingStops
       ELSE pendingStops' = pendingStops \ {inst[k]} /\ UNCHANGED sessions
  /\ UNCHANGED <<launchVars, gameVars, active, running, live, registry,
                 bufferVars, adopted, exitSeen, finBy, calls, exits,
                 stopVars, training, changing>>

\* The buffer finishes and gives up its training request, then the instance
\* leaves the presence refcount and the active set.
FinalizeFreed(k) ==
  /\ finAt[k] = "cleared"
  /\ finAt' = [finAt EXCEPT ![k] = "freed"]
  /\ Finish(k)
  /\ wantsTrain' = IF k \in adopted THEN wantsTrain ELSE wantsTrain \ {k}
  /\ autoTrained' = IF k \in wantsTrain \ adopted
                      THEN autoTrained \cup {k} ELSE autoTrained
  /\ LeavePresence(k)
  /\ active' = active \ {inst[k]}
  /\ UNCHANGED <<launchVars, gameVars, running, pendingStops, registry,
                 sessions, adopted, exitSeen, finBy, calls, exits,
                 stopVars, training, changing>>

FinalizeAnnounced(k) ==
  /\ finAt[k] = "freed"
  /\ finAt' = [finAt EXCEPT ![k] = "done"]
  /\ finBy' = [finBy EXCEPT ![k] = None]
  /\ registry' = registry \ {k}
  /\ EmitExit(k)
  /\ UNCHANGED <<launchVars, gameVars, active, running, pendingStops, live,
                 bufferVars, sessions, adopted, exitSeen, calls,
                 stopVars, training, changing>>

-----------------------------------------------------------------------------
(* reconcile_running: the dead entries leave the map under its lock, their *)
(* finalizers are called after it.                                         *)

\* An adopted game has no handle: only its pid is looked at.
GoneUnlessWatched(k) == mon[k] # "watching" \/ proc[k] # "alive"    \* (mutant)
GoneByStatus(k) == mon[k] = "published"                             \* (mutant)
Gone(k) == proc[k] # "alive" \/ (mon[k] = "published" /\ k \notin adopted)
DeadEntries == {n \in Names : running[n] # None /\ Gone(running[n])}

\* The caller is still inside the finalizers its sweep started.
Sweeping(c) ==
  \/ \E k \in Keys : <<c, k>> \in calls
  \/ \E k \in Keys : finBy[k] = c /\ finAt[k] \in {"seen", "cleared", "freed"}

LeftToMonitors(c) ==                                                \* (mutant)
  /\ running' = [n \in Names |-> IF n \in DeadEntries THEN None ELSE running[n]]
  /\ c \in Callers /\ UNCHANGED calls

Reconcile(c) ==
  /\ running' = [n \in Names |-> IF n \in DeadEntries THEN None ELSE running[n]]
  /\ calls' = calls \cup {<<c, running[n]>> : n \in DeadEntries}

ListLaunches ==
  /\ ~Sweeping("list")
  /\ DeadEntries # {}
  /\ Reconcile("list")
  /\ UNCHANGED <<launchVars, gameVars, active, pendingStops, live, registry,
                 bufferVars, sessions, adopted, exitSeen, finAt, finBy,
                 exits, stopVars, training, changing>>

-----------------------------------------------------------------------------
(* stop_instance.                                                          *)

StopAt(r, from, to) == stopAt[r] = from /\ stopAt' = [stopAt EXCEPT ![r] = to]

StopCalled(r, n) ==
  /\ StopAt(r, "idle", "check")
  /\ stopName' = [stopName EXCEPT ![r] = n]
  /\ Reconcile(r)
  /\ UNCHANGED <<launchVars, gameVars, active, pendingStops, live, registry,
                 bufferVars, sessions, adopted, exitSeen, finAt, finBy,
                 exits, stopTarget, training, changing>>

\* Answers alreadyStopped for an inactive instance.
StopCheck(r) ==
  /\ ~Sweeping(r)
  /\ IF stopName[r] \in active
       THEN StopAt(r, "check", "lookup") /\ UNCHANGED stopName
       ELSE StopAt(r, "check", "idle") /\ stopName' = [stopName EXCEPT ![r] = None]
  /\ UNCHANGED <<launchVars, gameVars, engineVars, bufferVars, sessions,
                 adopted, exitVars, exits, stopTarget, training, changing>>

StopLookup(r) ==
  /\ stopAt[r] = "lookup"
  /\ stopTarget' = [stopTarget EXCEPT ![r] = running[stopName[r]]]
  /\ IF running[stopName[r]] = None
       THEN StopAt(r, "lookup", "insert")
       ELSE StopAt(r, "lookup", "kill")
  /\ UNCHANGED <<launchVars, gameVars, engineVars, bufferVars, sessions,
                 adopted, exitVars, exits, stopName, training, changing>>

\* Answers cancelled: "starting".
StopPending(r) ==
  /\ StopAt(r, "insert", "idle")
  /\ pendingStops' = pendingStops \cup {stopName[r]}
  /\ stopName' = [stopName EXCEPT ![r] = None]
  /\ UNCHANGED <<launchVars, gameVars, active, running, live, registry,
                 bufferVars, sessions, adopted, exitVars, exits,
                 stopTarget, training, changing>>

\* force_kill_process: no signal for a game whose exit was published, and the
\* wait for the game to go is bounded, so it may still be alive afterwards.
StopKill(r) ==
  /\ StopAt(r, "kill", "reap")
  /\ LET k == stopTarget[r] IN
       \/ ~Gone(k) /\ proc' = [proc EXCEPT ![k] = "dead"]
       \/ UNCHANGED proc
  /\ UNCHANGED <<launchVars, mon, marker, engineVars, bufferVars, sessions,
                 adopted, exitVars, exits, stopName, stopTarget, training, changing>>

StopReap(r) ==
  /\ StopAt(r, "reap", "reply")
  /\ Reconcile(r)
  /\ UNCHANGED <<launchVars, gameVars, active, pendingStops, live, registry,
                 bufferVars, sessions, adopted, exitSeen, finAt, finBy,
                 exits, stopName, stopTarget, training, changing>>

StopReply(r) ==
  /\ ~Sweeping(r)
  /\ StopAt(r, "reply", "idle")
  /\ stopName' = [stopName EXCEPT ![r] = None]
  /\ stopTarget' = [stopTarget EXCEPT ![r] = None]
  /\ UNCHANGED <<launchVars, gameVars, engineVars, bufferVars, sessions,
                 adopted, exitVars, exits, training, changing>>

-----------------------------------------------------------------------------
(* train_instance on an active instance: the running launch, if any, is    *)
(* asked to train at its exit. An idle instance trains at once (aot.rs).   *)
TrainPicks(n) ==
  /\ n \in active \cap AotNames
  /\ running[n] # None
  /\ training' = training \cup {running[n]}
  /\ UNCHANGED <<launchVars, gameVars, engineVars, bufferVars, sessions,
                 adopted, exitVars, exits, stopVars, changing>>

TrainDeferred(k) ==
  /\ k \in training
  /\ training' = training \ {k}
  /\ wantsTrain' = wantsTrain \cup {k}
  /\ UNCHANGED <<launchVars, gameVars, engineVars, buffer, autoTrained,
                 sessions, adopted, exitVars, exits, stopVars, changing>>

(* apply_version_change holds the instance active while it applies.        *)
ChangeBegins(n) ==
  /\ FreeInstance(n)
  /\ active' = active \cup {n}
  /\ changing' = changing \cup {n}
  /\ UNCHANGED <<launchVars, gameVars, running, pendingStops, live, registry,
                 bufferVars, sessions, adopted, exitVars, exits, stopVars, training>>

ChangeEnds(n) ==
  /\ n \in changing
  /\ active' = active \ {n}
  /\ changing' = changing \ {n}
  /\ UNCHANGED <<launchVars, gameVars, running, pendingStops, live, registry,
                 bufferVars, sessions, adopted, exitVars, exits, stopVars, training>>

-----------------------------------------------------------------------------
RunLaunch(k) ==
  \/ ResolveFails(k) \/ ResolveFailed(k)
  \/ ResolveCancelled(k) \/ Cancelled(k) \/ Resolved(k)
  \/ Spawn(k) \/ Register(k) \/ SpawnFails(k) \/ SpawnFailed(k)

Watchers(k) ==
  \/ MonitorSeesExit(k) \/ WaitFails(k)
  \/ MarkerSeen(k)
  \/ \E train \in BOOLEAN : OnMarker(k, train)

Finalizer(k) ==
  \/ \E c \in Callers : FinalizeReturns(c, k) \/ FinalizeSeen(c, k)
  \/ FinalizeCleared(k) \/ FinalizeFreed(k) \/ FinalizeAnnounced(k)

StopRequest(r) ==
  \/ \E n \in Names : StopCalled(r, n)
  \/ StopCheck(r) \/ StopLookup(r) \/ StopPending(r)
  \/ StopKill(r) \/ StopReap(r) \/ StopReply(r)

SessionNext ==
  \/ \E k \in Keys, n \in Names, a \in Modes : LaunchInstance(k, n, a)
  \/ \E k \in Keys : RunLaunch(k) \/ GameEnds(k) \/ Watchers(k) \/ Finalizer(k)
  \/ ListLaunches
  \/ \E r \in Stops : StopRequest(r)
  \/ \E k \in Keys : TrainDeferred(k)
  \/ \E n \in Names : TrainPicks(n) \/ ChangeBegins(n) \/ ChangeEnds(n)

SessionSpec == Init /\ [][SessionNext]_vars

\* A stop request once called is carried through; calling one is the user's.
StopProgress(r) ==
  \/ StopCheck(r) \/ StopLookup(r) \/ StopPending(r)
  \/ StopKill(r) \/ StopReap(r) \/ StopReply(r)

\* The runtime polls every task it holds: run_launch, the monitors, the
\* finalizers and the stop requests go on. Games are assumed to end some day.
Fairness ==
  /\ \A k \in Keys : /\ WF_vars(RunLaunch(k))
                     /\ WF_vars(GameEnds(k))
                     /\ WF_vars(MonitorSeesExit(k))
                     /\ WF_vars(Finalizer(k))
  /\ \A r \in Stops : WF_vars(StopProgress(r))

FairSession == SessionSpec /\ Fairness

-----------------------------------------------------------------------------
(* Properties.                                                             *)

\* The launch owns the instance's place in active_instances: taken by the
\* guard of launch_instance, given back by exactly one of the four endings.
Holding(k) ==
  /\ stage[k] \in {"resolving", "cancelling", "starting", "spawned",
                   "unwinding", "done"}
  /\ finAt[k] \notin {"freed", "done"}

\* An instance is active exactly while one launch, or one version change,
\* holds it: the racing finalizers, sweeps and cancellations of one launch
\* never free the place of the next one, and none leaks (active_instances).
OneHolder ==
  /\ \A n \in Names :
       n \in active <=> n \in changing \/ \E k \in Keys : inst[k] = n /\ Holding(k)
  /\ \A k, l \in Keys : Holding(k) /\ Holding(l) /\ inst[k] = inst[l] => k = l
  /\ \A k \in Keys : Holding(k) => inst[k] \notin changing

\* Two games of one instance are never alive together, and none is alive while
\* the instance's version is being changed (they share a game directory); a
\* game the system could not be asked about (WaitFails) counts as over.
OneGame ==
  \A k \in Keys : Tracked(k) =>
    /\ inst[k] \in active \ changing
    /\ \A l \in Keys \ {k} : Tracked(l) => inst[l] # inst[k]

\* A registered game is the one its session record names, so an engine started
\* now would adopt it (run_launch records it with the running entry).
RunningIsRecorded ==
  \A n \in Names : running[n] # None => sessions[n].key = running[n]

\* Once run_launch has returned, a living game can be found by a stop: the
\* sweep and the finalizers of others never drop its running entry, only a
\* wait that failed does.
LiveGameIsStoppable ==
  \A k \in Keys : Tracked(k) /\ stage[k] = "done" => running[inst[k]] = k

\* The presence refcount and the agent registry hold a key only between its
\* launch and its end, and at most one of them holds it.
NoLeakedRegistration ==
  /\ \A k \in live : Holding(k) /\ k \notin agent
  /\ \A k \in registry : k \in agent /\ exits[k] = 0
  /\ \A k \in agent : exits[k] = 0 => k \in registry

\* A launch is over exactly once: one LaunchExit event, after the game died or
\* the wait for it failed, with its buffer finished, whoever wins the race to
\* finalize it.
OneExit ==
  \A k \in Keys :
    /\ exits[k] <= 1
    /\ exits[k] = 1 => ~Tracked(k) /\ buffer[k] = "finished" /\ ~Holding(k)

\* Every launch that was answered with a key ends in its LaunchExit event:
\* no race of monitor, sweep, stop and cancellation leaves a launch hanging.
EveryLaunchEnds == \A k \in Keys : stage[k] = "resolving" ~> exits[k] = 1

\* A stop request is always answered: it never waits on a finalizer that waits
\* for it.
StopIsAnswered == \A r \in Stops : stopAt[r] = "check" ~> stopAt[r] = "idle"

-----------------------------------------------------------------------------
(* What the code's documentation says of stops.                            *)

\* "a stop during prepare cancels the launch": a game that got through to the
\* running map has no stop pending that was answered as its cancellation.
StopDuringPrepareCancels ==
  \A n \in Names : running[n] # None => n \notin pendingStops

-----------------------------------------------------------------------------
(* The refinement: who holds an instance, and how far each launch is.      *)

\* The holder standing for apply_version_change; no key or None.
Change == [holder |-> "version-change"]

HolderOf(n) ==
  IF n \in changing THEN Change
  ELSE IF \E k \in Keys : inst[k] = n /\ Holding(k)
    THEN CHOOSE k \in Keys : inst[k] = n /\ Holding(k)
    ELSE None

PhaseOf(k) ==
  IF inst[k] = None THEN "unborn"
  ELSE IF exits[k] > 0 THEN "announced"
  ELSE IF ~Holding(k) THEN "ended"
  ELSE IF proc[k] = "none" THEN "preparing"
  ELSE "playing"

Lifecycle == INSTANCE InstanceLifecycle WITH
  holder <- [n \in Names |-> HolderOf(n)],
  phase  <- [k \in Keys |-> PhaseOf(k)],
  games  <- {k \in Keys : Tracked(k)}

\* Every step of the engine is a step of the promised lifecycle or none.
ImplementsLifecycle == Lifecycle!Spec
=============================================================================
