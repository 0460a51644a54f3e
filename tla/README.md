# A formal model of the Spectral launcher

TLA+ specifications of the parts of this repository whose correctness depends on
the order in which threads, tasks, processes and requests take their steps, with
the TLC configurations that check them and TLAPS proofs of the main results.
Paths are given from the repository's root without its `src/` prefix;
`game_launch.rs`, `agent.rs` and so on are in `native/engine/src`.

## The system

Spectral is a Minecraft launcher. A Slint desktop program (`native/app`) embeds
an engine (`native/engine`) whose operations are called in process and over a
loopback HTTP server. The engine starts games as detached processes and talks to
a mod inside each of them (`branding-mod`). A separate small service, the Ruta
relay (`services/ruta-relay`), forwards players' connections under quotas.

| Component | State | Operations | Talks to |
|---|---|---|---|
| Game launch lifecycle (`api/game_launch.rs`, `engine.rs`, `launch.rs`, `launch/process.rs`) | `active_instances`; `GameLaunchState`: running map, pending stops, live launches, log buffers; per launch: exit flags, deferred training | launch, stop, list, train, version change; in the background: resolve, spawn, monitor, marker watcher, exit finalizer | the OS process, session file, presence, agent registry, training |
| Running-games record (`game_sessions.rs`) | `running-games.json` | record, remove, `live_sessions`; adoption at engine start | game processes of earlier sessions |
| Agent relay (`agent.rs`, `loopback.rs`) | per launch: queue, waiters, in-flight calls; per poll a slot; per call a oneshot channel | call a tool, poll, post a result, release | MCP agents on one side, the mod's polling thread on the other |
| Ruta relay limits (`limits.rs`, `server.rs`) | global, per-address and per-account counters, rate window, daily bytes | accept, attach, charge, drop, prune | connection tasks, a maintenance task |
| AOT training (`aot.rs`) | training queue, trainer process, cache directories | queue, train, evict | launches (share a game directory) |
| Presence and mod bridge (`presence.rs`, `bridge.rs`, `discord.rs`) | attached launches by token, publishers, visibility cache | attach, detach, publish, query | launches, a remote presence service |
| Single instance (`native/app/src/single_instance.rs`, `main.rs`) | lock file, port file, start-up state | acquire, hand over, close | a second copy of the program |
| Version change (`version_change.rs`) | an instance's files | plan, apply | holds the instance as a launch does |
| Downloads (`download.rs`) | per-destination locks, partial files | download with mirrors and retries | remote hosts |
| Resolution, accounts, content, UI | files and remote data | sequential | the rest |

### What is hard, and what makes each part correct

* **Launch lifecycle.** Every mutex is taken and released separately. The end of a
  game may be noticed by its monitor, by the sweep of a list request, and by the two
  sweeps of each stop request, while the launch that started it is still
  registering it. Correct means: an instance has one holder and is freed exactly
  once, one game plays in a directory at a time, a living game can be stopped,
  registrations do not leak, and each launch ends in exactly one announcement.
* **Adoption.** Games outlive the launcher, which may be closed between any two
  steps and started again. Correct means: what is recorded is found again, blocks
  Play, can be stopped, and is let go once it ends.
* **Agent relay.** Calls time out, polls time out or lose their connection while a
  batch of commands is parked in them, and the launch may be released meanwhile.
  Correct means: no command is executed twice, none is lost inside the
  launcher, and a call is settled without waiting for its timeout.
* **Relay limits.** The clock is read outside the lock, entries come and go while
  slots refer to them, and days and windows end in the middle of a connection.
  Correct means: counters match the slots, and no order of reconnection,
  refusal or pruning gets an account past its limits or shuts it out below them.
* **Single instance.** Copies of the program meet on one data directory while one of
  them starts, hangs, closes, crashes or is being killed; a connection's thread outlives
  the wait of the copy that opened it. Correct means: one copy works on the directory, a
  launch that was acknowledged is imported or queued, and no second launch hangs.
* **AOT training.** A game, the user and onboarding ask for training of one instance; the
  requests share one run through a future that somebody must poll, and the trainer is a
  second game in the same directory. Correct means: runs do not overlap, each request is
  answered, the trainer stays away from a game, and neither evicts the other from the bridge.
* **Downloads.** The lock of a destination is forgotten and made anew, a `.part` survives
  crashes, and servers and mirrors may change between two of its blocks. Correct means:
  callers take turns, a verified download is what it says, and every call ends.
* **Presence** has check-then-act races of the same kind; its registry is modelled with
  training, its publishers are not.

## Modules

| Module | What it is |
|---|---|
| `InstanceLifecycle` | The abstract promise: who holds an instance, and how far each launch is. Two maps, a set of living games, seven actions. |
| `GameLaunch` | The engine's threads over one session; implements `InstanceLifecycle`. |
| `GameAdoption` | Extends `GameLaunch` with launcher restarts, the session file and `adopt_running_games`. |
| `CommandRelay` | The abstract promise: where each command is and what its caller has been told. Seven actions, no queue. |
| `AgentRelay` | One launch's command queue, its calls, polls and release; implements `CommandRelay`. |
| `RelayLimits` | The accounting of the Ruta relay. |
| `LaunchDesk` | The abstract promise: which copy takes launches in, what became of each launch and what its sender was answered. |
| `SingleInstance` | Copies of the launcher on one data directory, from `main()` to their connection threads; implements `LaunchDesk`. |
| `AotTraining` | Requests, shared runs and trainers of one instance beside its launches; the instance's place in the bridge registry. |
| `VerifiedFile` | The abstract promise: a destination that is replaced in one step, by what the call whose turn it is accepts. Seven actions. |
| `Downloads` | `download_file` for one destination: lock, hosts, attempts, `.part`, verification; implements `VerifiedFile`. |
| `GameLaunchProofs`, `GameAdoptionProofs`, `AgentRelayProofs`, `RelayLimitsProofs`, `RelayBudgetProofs`, `SingleInstanceProofs`, `AotTrainingProofs`, `DownloadsProofs` | The safety properties, proved. |
| `MCGameLaunch`, `MCGameAdoption`, `MCRelayLimits`, `MCDownloads` | For TLC: the symmetry of those instances, and the lengths of the versions. |

`GameAdoption` composes the launch lifecycle with restarts. `AotTraining` has its own, shorter
view of a launch (held, spawned, attached, registered, the four parts of its exit), because
what training can observe of it is `active_instances`, the running map and the log buffer.

Conventions. An action is what one thread does between two points at which another
thread's locked section could come in with an observable effect, so a handler that
takes three locks is three actions, with the program counter of the thread as a
variable (`stage`, `finAt`, `stopAt`, `callAt`, `pollAt`, `at`, `adoptAt`, `run`, `conn`). A small
operator marked `(mutant)` stands before the one it is a faulty version of; no
specification uses it. It is there to confirm that the properties notice the fault.

### GameLaunch and the code

`stage[k]` is where `run_launch` of launch `k` is; `proc`, `mon` and `marker` are its
OS process, `process::monitor` and `on_marker` callback. `active`, `running`,
`pendingStops`, `live`, `registry`, `buffer` are the engine's maps, and `sessions` is
`running-games.json` (a record is reduced to its key and to whose marker set
`menu_at`). `exitSeen`, `finAt`, `finBy` and `calls` describe the single-flight
finalizer: `calls` holds the calls that have been made and have not tested
`exit_seen` yet. `WaitFails` is the error arm of the monitor's `child.wait()`: the exit is
published and finalized although the game may live. Such a game is one the engine has been told
is over; the properties speak of games that are `Tracked`, that is, alive and not published. The group `ResolveFails ... SpawnFailed` is `run_launch`; `Register` is
the section under the `exit_seen` lock after the spawn; `Finalize...` is `handle_exit`;
`Reconcile` is `reconcile_running`, called by `ListLaunches`, `StopCalled` and
`StopReap`; `StopCalled ... StopReply` is `stop_instance`. `TrainPicks` and
`TrainDeferred` are the two locked sections of `train_instance` on an active
instance. `ChangeBegins` and `ChangeEnds` are the hold `apply_version_change` has on
the instance.

### GameAdoption and the code

`ReadSessions`, `ProbeProcesses` and `RewriteSessions` are the three parts of
`live_sessions`, with an await between them; `AdoptSkips ... AdoptDone` is the loop of
`adopt_running_games`, whose `load_instance` await separates the test of
`active_instances` from the insertion. `Restart` is the launcher closed or killed at any
point: everything but the processes and the session file is reset. `inst` and `agent`
stay because they stand for what the record says of its game.

`ProbeProcesses` may find any part of the games that run: the lookup times out after 15 s, or
fails for one process. Adoption is a background task (`on_engine_start`), and nothing waits for
it: `Engine` is every step of `GameLaunch`, at any point of the adoption. Hence a game this
session launched may be recorded just before `ReadSessions`, end, and be taken up again from
the list that was read; `OwnFinalizer` gives it a finalizer of its own, and `LateAnnounce` is the
last step of the one it had. `skipped` and `doubled` are not in the code: they keep the instances
adoption passed over because they were active, and those it marked although somebody had taken
them while it loaded them. These are the two cases in which adoption does not do what its
documentation says; the properties of the passing run except them by these names, and each has
a violation run.

### AgentRelay and the code

`queue`, `waiters`, `inflight` are the fields of `LaunchInner`; `slot[p]` is the
`PollWaiter` of poll `p`, which has its own lock; `channel[c]` is the oneshot of call `c`.
`HandOver` is `release_pollers_locked`. `PollTakes` (the take of the slot after the wait
or its timeout) and `PollLeaves` (the drop of `PollGuard`) are separate steps because no
lock is held between them. `PollDropped` is a connection lost while parked,
`PollReplies(p, "lost")` one lost with the answer. `PostLost` is the mod's post of a result that
does not arrive: `postResult` tries once and logs a failure, and an interrupted one is not tried.

`Commands` reads `CommandRelay` off this state. A command is `"relay"` in the queue, a slot or a
batch, whichever (`PlaceOf`); it is `"lost"` with an answer that did not arrive, and `"over"` when
it was executed or dropped. A result or an end in the channel of a waiting call counts as told
(`ToldOf`), because that call can be answered with nothing else any more. Moving a command from the
queue to a slot, and back, is then a stutter.

### RelayLimits and the code

A connection's task is at `at[c]`; `Held` are the connections that own a `Slot`. `subs[s]`
is the account's `SubEntry` or `None`; `starts` keeps the connections instead of
timestamps (`began` gives each one's), which makes a set out of a queue without losing
equal timestamps. `attach_sub` and `prune` read the clock before they lock: each is two
steps, and `Workers`, the number of tokio worker threads, bounds how many calls may be
between the two at a time. The clock is taken to be monotone and moves in any of the
states, also between the two steps. `sent` is not in the code: it is what was charged, by
day, and is what the quota speaks of.

### SingleInstance and the code

`at[p]` is where `main()` of copy `p` is. In `"try"` to `"stuck"` it is in `acquire` and
`claim_instance`: `TakesLock`, `LockIsHeld` and `LockUnusable` are the three results of the
lock on `ui.lock`, `BecomesPrimary` is `become_primary` and `BindFails` its error paths;
`ReadsPortFile` and `Connects` are `forward`. `lock`, `portFile` and `guarded` are the lock,
`ui.port` and the `InstanceGuard`s; `pid[p]` is the pid `p` last read, which is what
`kill_stuck_instance` acts on (`KillsHolder`) whatever has become of that process.

An attempt `<<p, n>>` is the n-th connection of copy `p`; `conn` and `to` say where its thread is
and in which copy. `TakesStarting`, `TakesClosing` and `TakesRunning` are `Shared::take` in the
three states, with `queued[q]` as the queue of `State::Starting`. `Posts`, `HandlerTimesOut` and
`RunsClosure` are `take_second_launch`: the closure is in the event loop (`posted`) and runs there
whether or not anybody waits for it. `EngineStarts` to `Exits` are the rest of `main()`, with
`UiReady` as `InstanceGuard::ready`, `Closes` as `closing`, and `DropsGuard` and `Unlocks` as the
two parts of the guard's drop. `ProcessEnds` is what the operating system does at the end of a
process. `imported` and `lost` are not in the code: they keep what became of a launch.

`Desk` reads `LaunchDesk` off this state. The copy that serves is the guarded one between
`become_primary` and the drop of its guard (`DeskOf`), an attempt is a launch, sent to the copy
`to`. What is `"open"` is with a connection thread or in the event loop, and may still be imported
after its sender was told no.

### AotTraining and the code

A run is named after the request that created it, and the request of a game's exit after the
game. `training` is the entry of the instance in `Trainings::runs`, `joined[r]` the shared future
request `r` polls; `Joins` and `Polls` are the two locked parts of `queue_train_instance`, where
the first to poll an ended run removes it. `RunStarts` to `EndsWaiting` are the task of
`train_instance` with its three looks at `is_blocked` (`Blocked`, which a run of onboarding does
not have). `Trains` and `MarksLaunch` are `Engine::train_instance` on a free and on a running
instance, `OnboardingTrains` is the call in `onboarding.rs`. `bridge` is the instance's place in
the registry of `bridge.rs`; `Attach` and `Detach` are what `launch_started` and `launch_exited`
of `presence.rs` do to it. `newest` and `left` are history. The trainer's process is `jvm[r]`;
its monitor tells the run before it detaches it.

`log` is what `wait_for_marker` has yet to read of `latest.log`. The file belongs to the game
directory: a game that runs beside the trainer logs the marker there as well (`GameMenu`), and the
wait takes it for the trainer's; and a process that starts rolls the file away (`LogRolls`), and a
marker that was not read in time with it. `KillsTrainer` ends the run also when the trainer
survives `terminate` and `kill_hard`, and `EndsWaiting` when it does not close: `jvm[r]` goes on
beside later runs.

### Downloads and the code

`entry` is the path's place in `dest_locks`, `ref[c]` the `Arc` of call `c`, `holder` whose guard
each lock object has; `Unused` is the `strong_count` test of `release_dest_lock`. `FallsBack` and
`BothFailed` are `via_mirror`, which asks each of two hosts once. `ChecksPresent` to `BodyEnds`
are `download_inner`, `Finalizes` and `RenameFails` are `finalize_part`. A file's content is the
sequence of its blocks, each marked with the version it comes from, so that a resumed `.part` can
mix two versions. `Crash` is the launcher killed at any step, `Cancelled` a dropped future.
`identity` is history: it flips when the destination is replaced. `Size` gives each version its length, so
that a call that verifies by size can be sent a file of the wrong one.

A rename that fails with nothing verified in place, and an error of the disk (`DiskFails`), are
outages like those of the network (`engine_is_outage` takes every error it does not know for one):
`via_mirror` remembers the mirror and asks the other host, which finds the finished `.part`. An
operation that a call has handed to tokio's blocking pool goes on when the call is dropped and its
lock is free again: `Cancelled` may leave a rename, a write or a truncation behind in `late`, and
`Lands` carries it out at any later time. `stray` is history: such a call has been dropped since
the launcher was started. Removing a `.part` and reading a file are taken to succeed.

`Destination` reads `VerifiedFile` off this state: the turn is the call's between the lock's guard
and its drop (`Inside`); a call with a sha1 accepts one content, one with a size any of that
length, any other call any as long as one of the versions. `loose` is `stray`: from then on nothing
is promised of the destination's content until the launcher is started anew.

## Runs

| Run | Instance | Distinct states | Shows |
|---|---|---|---|
| `Session` | 1 instance, 2 launches, 1 stop | 864 thousand | all safety properties of the lifecycle, and the refinement |
| `SessionLive` | 1 instance, 1 launch, 2 stops, training | 293 thousand | every launch ends, every stop is answered |
| `Adoption` | 1 instance, 2 launches, version changes, 1 restart | 3.4 million | what is recorded survives a restart at any step and is lost only to adoption's rewrite; no second game beside a recorded one; no adopted game out of the sweeps' sight |
| `Relay` | 2 calls, 2 polls, queue of 1, 1 lost connection | 330 thousand | commands are handed out once and not lost; a waiting call is settled by polling and posts that arrive alone; the refinement |
| `RelayLimits` | 4 connections, 2 addresses, 1 account, 2 days | 966 thousand | counters, caps, rate window, daily quota, refusals |
| `SingleInstance` | 3 copies, 1 connection each per `acquire`, 1 handled at a time, 1 crash | 294 thousand | one engine, one port file, no acknowledged launch forgotten, no second launch hangs; the refinement |
| `Training` | 1 game, 1 request of the user, 1 of onboarding | 50 thousand | runs never overlap, the newest keeps the bridge, requests are answered |
| `Downloads` | 2 calls, 2 locks, a version of 1 block and one of 2, 2 attempts per host, 1 late operation at a time | 1.2 million | turns are taken, Ok is verified, equal content keeps its file; retries are bounded; the refinement |
| `StopDuringPrepare` | 1 launch, 1 stop | violation | see below |
| `LaunchWhileLoading` | 2 launches, 1 restart | violation | see below |
| `RelayLateCommand` | 1 call, 1 poll | violation | see below |
| `TrainerUnderGame` | 1 game, 1 request of onboarding | violation | see below |

### Why these bounds

* Two launches of one instance are the least with which one launch's leftovers (a late
  finalizer, a sweep, a pending stop) can hurt the next. Different instances share only
  the maps, which are accessed by name. The stop request can be made again and again:
  `idle` is also where it ends. In `SessionLive` one launch suffices because the
  question is whether its finalizer is always carried through, and two stops are the
  least that can wait for each other's sweeps. `AotNames` is non-empty only there: with
  it the safety run would multiply by what training marks, which touches no other map.
* One restart lets a game of an earlier session meet a launch of this one; the launches
  of the first session cover every step at which the launcher can be closed. A second
  restart would meet the same file contents, since `sessions` and `proc` are all that
  survive; the proofs cover any number. There are no stop requests in this run; a stop
  reaches an adopted game through the same `running` entry, which `AdoptedGameIsRunning`
  guarantees; the proofs cover any number of stops. The instance's launches can take each other's names (`KeySymmetry`).
* Two calls against a queue of one reach the full queue; two polls are the least for
  a batch to be handed from one to another. The queue bound is 100 in the code.
* Four connections exceed the global cap of 3, the address's and the account's of 2 and the
  rate of 2; the quota of 2 is reached by one chunk of 2 or by two of 1. The day and the
  window last two ticks and the clock runs over two days, so that a connection can span
  midnight and a start can leave the window.
* Three copies are a holder, one that hands over or kills it, and one that meets what these
  two leave behind. A copy connects once in each of its two runs of `acquire`, and the cap on
  handled connections is 1, so that two connections exceed it. Only one caller at a time posts to
  the event loop, so with that cap nobody waits for another's turn; the properties also held of
  an instance with 2 copies, 3 connections per `acquire` and a cap of 2 (100 thousand states).
* A game, whose exit asks for a training as well, and two other requests make three runs: one
  that ends, one that joins it too late, and one that takes its place.
* Two versions are the least that can be mixed, and of different lengths they reach the wrong size; two blocks are the least for a `.part` that is
  neither empty nor whole, two attempts the least for a resumption; two locks let the one that was
  forgotten be told from the new one. Callers and the servers' changes
  are not bounded. `MaxLate` bounds the operations of dropped calls in flight at a time: one is enough
  to meet the next call.

`CHECK_DEADLOCK FALSE` is set where the system may really stop: a released relay whose
calls are all settled, the limits once their connections are used up and the clock
has reached its bound, a set of copies that have all exited, and an instance whose games and
requests are over. `Session` and `Adoption` are checked for deadlock: a user can always begin a
version change or a stop.

### Fairness

* `Fairness` of `GameLaunch`: `spawn_background` hands each task to the tokio runtime,
  which polls it until the engine shuts down, so `run_launch`, the monitors, the finalizers
  and the stop requests proceed. Games are assumed to end some day. Nothing is assumed of
  users: launches, stops, lists and version changes may never be requested.
* `FairRelay`: the handlers proceed, and the mod's one relay thread polls and posts
  (`AgentRelay.loop` and `handleCommand` in `branding-mod`). It does not assume that a poll or a call
  times out, that a connection is lost or that the launch is released. A post may be lost
  (`PostLost`): the call then has only its timeout, and `PolledCallIsSettled` speaks of the calls whose
  answer and result were not lost on the way.
* `FairSpec` of `SingleInstance`: a copy that waits takes its steps, and looks at its deadline in
  every round, so that it cannot miss it for ever (strong fairness of `DeadlinePasses`). Nothing is
  assumed of the copy that holds the lock or of its connection threads.
* `FairTraining`: the runtime polls the tasks of runs, requests and exits, and every wait of a run
  has its cap. Nothing is assumed of games and trainers.

No fairness is assumed of adoption and of downloads. That the instance of an adopted game becomes
free is stated as what must not happen on the way: the game never leaves the sweeps' sight without
its finalizer (`AdoptedGameIsWatched`), so that the poll of `list_launches`, every 15 s while a row is
running (`native/app/src/store.rs`, `refresh_launches`), finds it. That downloads end is stated by
what each step of a call uses up (`EffortIsBounded`); the waits for servers have timeouts, and
tokio's mutex hands the lock over in the order of arrival.

## Proofs

Every safety property the passing runs check, invariant or action property, is also a theorem, for
any values of the constants within the assumptions stated in the modules. Liveness is only
model-checked, being out of the prover's reach: `EveryLaunchEnds`, `StopIsAnswered`,
`PolledCallIsSettled`, `SecondLaunchEnds`, `RequestAnswered`.
The type invariant of every component's module is a theorem too (`SessionTyping`, `AdoptionTypes`,
`RelayTyping`, `LimitsTyping`, `SingleTyping`, `TrainingTyping`, `DownloadsTyping`). The runs do not
repeat them.

`GameLaunchProofs` proves for any numbers of instances, launches and stop requests:
typing (`SessionTyping`), the six safety invariants of the run `Session`, and
`SessionRefines`: `SessionSpec => ImplementsLifecycle`. The only assumptions are that
`None` is no name and no key, and that requests are made for known instances.
`OneHolder` is not inductive: whether a finalizer may free an instance depends on
which launches can have one called. The inductive invariant `Inv` adds

* `LaunchOrder`: how one launch's stage, process, monitor, finalizer and registrations
  go together (for instance: a finalizer that was entered has a dead game, and the exit
  count is one exactly when the launch is over or its finalizer is done);
* `OnlyDeadFinalized`: finalizer calls are made for dead games only, which is what the
  sweep's test and the monitor's order give;
* `RunningEntries`: a running entry is a registered launch of that instance and is the
  one recorded;
* `NoneAdopted`, because this module has one session only.

`LiveGameIsStoppable` needs `OneHolder` (the launch whose finalizer clears the entry of
an instance is the only holder, so the entry is not another's), and `OneHolder` needs
`OnlyDeadFinalized`; they are proved together. The refinement maps an instance to its unique
holder; `HolderKnown` shows that `CHOOSE` picks that one, and each concrete step is then a
named abstract step or a stutter.

`GameAdoptionProofs` proves typing and the seven safety properties of `Adoption` for any number of restarts at
any steps, whatever the engine does beside the adoption and whatever the lookup finds; the only
assumption beyond those of `GameLaunch` is that the bound on restarts is a number. Its invariant `AInv` restates
`Inv` for games of this and of earlier sessions (`KeyOrder`, `GoneCalled`, `OneOwner`) and ties the
file to the rest. A record with a key, in the file or as it was read, names a registered game of its
instance (`RecordsSpawned`), and is removed before its finalizer frees the instance (`RecordsHeld`);
a record of an earlier session is one adoption read, and between the mark and the entry nobody touches
what it marked (`AdoptionOrder`); a recorded game that lives has its entry, is still to be handled, or
is one of the two exceptions (`RecordedCovered`). Nothing says that an entry's game is recorded, for the
rewrite breaks that: `RecordLostOnlyToRewrite` is proved step by step, each step of the engine leaving
the record of a registered living game (`EngineKeepsRecord`). The same invariant gives
`NoSecondGame`: only a spawn brings a process to life (`OnlySpawnStarts`), its launch has the
instance, and so would a recorded game that lives. `AdoptedGameIsWatched` is inductive beside `AInv`:
an adopted game that is not finalized holds its instance, so nobody else's launch or finalizer takes
its entry away (`SightedHas`), and a sweep that does calls its finalizer (`EngineKeepsSight`).

`AgentRelayProofs` proves typing and the four invariants of `Relay` for any calls, polls and queue
limit. A command is in at most one place (`Apart`), never in two hands (`OnceOnly`), and a waiting call's is
in some place or with the mod (`Kept`); what makes these inductive is which states of a poll can have
commands in its slot and in hand (`BatchInHand`, `Fresh`). `RelayRefines` is
`Spec => ImplementsCommands`: the lemmas that show `Apart` and `Kept` inductive also say how each
step moves commands between places (`InPlace`), `PlacesRead` turns that into the abstract place, and
each step is then a named step of `CommandRelay` or a stutter. Nothing is assumed beyond the
module's constants.

`RelayLimitsProofs` proves, for any limits, any finite set of connections and any number
of worker threads: typing, that the counters are the cardinalities of the
sets of slots they count (`LimitsCounted`), and the caps (`LimitsCapped`). The guards bound
the counters, not the connections; the caps follow because the counters match, and they
match because a slot is bound at most once and an entry is removed only at zero
(`ConnsRight`, `EntryKept`). `saturating_sub` never saturates (`LessCounts`).

`RelayBudgetProofs` proves the quota, the rate window and that refusals are justified for one worker
thread, which is the default. The invariant is about the clock readings in use (`Readings`): with
one worker there is one beside the clock itself (`Solo`), no admission is later than it
(`BoundBefore`), an entry's bytes are what was charged on its day and nothing was charged later
(`Budgeted`), and it counts every start still in the window (`Windowed`). Both go on holding as
the clock does, through rolling over, dropping old starts and forgetting an unused entry.

`SingleInstanceProofs` proves that a copy between `become_primary` and the drop of its guard holds the
lock and is the one `ui.port` names (`Guarding`), from which `OneEngine` and `PortFileOfHolder`
follow, and that an acknowledged launch is imported, queued in a copy that is starting, or lost
with one that never came up (`Acknowledged`), for any copies and bounds. `SingleRefines` is
`Spec => ImplementsDesk`. It needs who has a launch in hand (`Handing`): a copy that listens is
guarded and has not ended, a queue belongs to one that is still coming up, and what is queued or
posted has not been disposed of, so that it can be imported or lost once only. With `Guarding` these
copies are all the one that serves (`QueuedAtDesk`), and the end of a process is `Leaves` if it was
that one and `Refuses` otherwise.

`AotTrainingProofs` proves that a run that has not ended is the one in the map, so that two never
overlap, and that the newest token keeps the bridge until it is detached. `DownloadsProofs` proves
that a caller inside has the guard of a lock that every later caller finds in the map
(`Referring`), and what has been verified of a `.part` at each phase, until
a call leaves an operation behind (`Sound`, `Checked`): such an operation is the only step that changes
the files of a call from outside. `DownloadsRefine`
is `Spec => ImplementsVerifiedFile`: as one call at most is inside, `Turn` is that call
(`TurnRead`); what it finds verified or moves over the destination is something it accepts
(`VerifiedAccepted`, `FinalAccepted`), it has answered nothing before (`Answered`), and all its
other steps leave the destination, the turn and the answer as they are (`TurnStays`). With an
operation left behind, a step of a file is `Slips`. `DownloadsBounded` goes through the steps of a call
one by one: each pays, and no other actor moves it (`OneMoves`).

## Where the code and its documentation disagree

Those with a run in brackets are shown by its counterexample. The other three are in the models as
well, and the passing properties leave room for exactly them: `skipped` is a game adoption passed over,
`RecordLostOnlyToRewrite` names the rewrite as the one step that loses a record, and `OneTrainer` speaks
of runs because a trainer may outlive its run (`GivesUpWaiting`, `KillsTrainer`, `EndsWaiting`).

* **A stop during prepare does not always cancel** (`StopDuringPrepare`). Between the
  spawn and the entry into the running map, a stop finds nothing to kill, records a
  pending stop and answers `cancelled: "starting"`; the pending stop was looked at before
  the spawn and is not looked at again. The game runs on.
* **A launch requested while adoption loads the instance** (`LaunchWhileLoading`). Adoption tests
  `active_instances`, awaits, and inserts without looking at the result. A launch accepted
  in between shares the instance; one running entry overwrites the other, and Stop does not reach
  the adopted game, against `api/game_launch.rs:1246`.
* **A launch requested before adoption.** Adoption passes over an instance that
  is active. If a launch was accepted first and then fails, or a version change held the instance,
  the recorded game of the earlier session is neither blocked nor reachable by a stop, against
  `api/game_launch.rs:1244-1246`.
* **A game recorded during adoption.** `live_sessions` rewrites the file from the
  records it read before it looked the processes up. A game recorded in between loses its record,
  and the next engine does not know of it, against `game_sessions.rs:1-3`.
* **A timed-out command may be executed late** (`RelayLateCommand`). `abandon` searches the
  queue, not the slots of the polls. A command parked in a poll that is then dropped goes
  back to the queue.
* **A trainer under a game** (`TrainerUnderGame`). Onboarding queues its training with default
  options (`onboarding.rs:123`), which have no `is_blocked`: the trainer is spawned beside a
  running game of the instance, which `aot.rs:76` and `api/game_launch.rs:576` exclude. A request
  of the user that joins such a run inherits it.
* **Two trainers of an instance.** A run ends when its wait for the trainer to close is over
  (`aot.rs:519`, `:530`), and leaves the trainer alive; runs are shared, processes are not, and the
  next request spawns a second trainer beside it. `aot.rs:582` says that sharing the run prevents two
  JVMs from training it at once.

Steps that are in the models, and which no document speaks of, or not in so many words, so that
no property states what should happen:

* a pending stop recorded when its launch has already ended stays and cancels the next
  launch of that instance;
* a process lookup that fails makes adoption drop the records of games that live, whose instances
  can then be played a second time (`live_sessions` promises those that are verifiably running);
* a monitor whose wait fails announces the end of a game that may live (`WaitFails`);
* a menu marker that a game logs beside the trainer ends the trainer's wait;
* an operation of a dropped download lands beside the next call (`Lands`), which may then return
  Ok with other content; downloads are dropped when the engine shuts down;
* a call that is admitted before the release and queued after it waits for its timeout
  instead of being told the game is gone;
* a game spawned and not yet recorded when the launcher is killed is not adopted;
* with `Workers = 2`, a prune or attach held up over midnight moves the account's entry back to
  the day before, and the next charge starts the new day at zero: `DailyBudget` fails;
* the handler of a second launch answers busy at its timeout and the closure it posted runs
  later: the launch is retried and imported twice (`native/app/src/main.rs:286`);
* launches queued by a copy whose engine then fails to start are lost although they were
  acknowledged (`lost`; the comment at `single_instance.rs:20` says that a launch is never dropped
  silently); a relaunch after an update passes no arguments on;
* a training deferred while the launch prepares or ends, or whose mark comes after the exit took
  the flag, is not run;
* without a sha1, a resumed `.part` may mix two versions of a file and pass.

## Not modelled

* Data: versions, arguments, log contents, presence texts, tokens, tool arguments. The
  properties do not tell them apart.
* In `GameLaunch`: the log ring buffers and the output pumps, except that a marker may come
  late; training of an idle instance, which is in `AotTraining`.
* In `AgentRelay`: option parsing, results that are files, state reports; a launch is
  released once and never registered again under its key.
* In `RelayLimits`: the handshake and the byte pump, except for where they call the limits or
  end; grants and destination rules; a clock that is set back.
* In `AotTraining`: cache keys and stamps, the statistics and eviction of caches.
* In `Downloads`: `download_all`, which runs `download_file` concurrently, and the small fetches
  (`fetch_text`, `fetch_json`), which keep no state but the mirror preference.
* Presence publishers (`presence.rs`). Read, and found to have three orders that matter:
  `launch_exited` looks whether a launch of the account is left and then stops the publisher, while
  another may start (`:93`); `sync_share` tests and then starts one, which can leave a publisher
  without a game; a DELETE may be overtaken by the next PUT (`:187`).
* Version change beyond its hold on the instance (`version_change.rs`): a sequence of file changes
  whose steps fail one by one. If one fails after `instance.json` was written, repeating the change
  answers that there is nothing to change.
* Accounts and sign-in, content management, resolution, loaders, the user interface, the
  game-side mods beyond their polling thread: sequential code, I/O or remote protocols. They are
  most of the repository's lines.

## Plan

Done: all modules above, with the safety properties and the four refinements proved.

Next, in this order:

1. `BridgePresence`: publisher start and stop, publish against unpublish, by account. Composes
   with `AotTraining` through attach and detach. Promise: after the last exit the presence ends up
   withdrawn, and a publisher has a game.
2. The file changes of `version_change.rs` and the content plans of `mods.rs`, with a failure at
   every step: what a repeated request finds.
3. Abstract specifications of the adoption of games across restarts and of training (one trainer
   at a time, one answer for each request), with their refinements.
