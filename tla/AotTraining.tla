----------------------------- MODULE AotTraining -----------------------------
(***************************************************************************)
(* Training the AOT cache of one instance (native/engine/src/aot.rs)       *)
(* beside its games (api/game_launch.rs), and the place both take in the   *)
(* mod bridge's registry (presence.rs, bridge.rs).                         *)
(*                                                                         *)
(* A training is asked for by the user, by onboarding, or by the exit of a *)
(* game that found its cache missing.  Requests share one run per          *)
(* instance; the run boots a second game in the same game directory, the   *)
(* trainer, and gives way to a launch unless it was created without a      *)
(* veto.  A run is named after the request that created it, and the        *)
(* request of a game's exit after the game.                                *)
(***************************************************************************)
EXTENDS Integers, FiniteSets

CONSTANTS
  Games,       \* launches of the instance
  Asks,        \* training requests of the user and of onboarding
  Onboarding,  \* those of onboarding: TrainOptions::default(), no is_blocked
  None

ASSUME TrainingAssumption ==
  /\ Games \cap Asks = {} /\ Onboarding \subseteq Asks
  /\ None \notin Games \cup Asks

Runs == Games \cup Asks

VARIABLES
  active,    \* the launch in active_instances, or None
  game,      \* [Games -> where its launch is]
  alive,     \* the launches whose JVM is alive
  needs,     \* the launches whose buffer says needs_auto_train
  told,      \* the launches whose exit took needs_auto_train
  req,       \* [Runs -> where the request is]
  picked,    \* [Asks -> the running launch a deferred request marks]
  training,  \* Trainings::runs of the instance: a run, or None
  joined,    \* [Runs -> the run whose shared future the request polls]
  run,       \* [Runs -> where the run's task is]
  jvm,       \* [Runs -> what its trainer is doing]
  log,       \* the runs whose wait finds the menu marker in latest.log
  bridge,    \* the token registered for the instance, or None
  newest,    \* history: the token attached last
  left       \* history: tokens whose process has been detached

gameVars == <<active, game, alive, needs, told>>
reqVars == <<req, picked, training, joined>>
runVars == <<run, jvm, log>>
bridgeVars == <<bridge, newest, left>>
vars == <<active, game, alive, needs, told, req, picked, training, joined,
          run, jvm, log, bridge, newest, left>>

\* A launch's bridge token and a trainer's.
GameToken(g) == <<"game", g>>
TrainerToken(r) == <<"trainer", r>>
Tokens == {GameToken(g) : g \in Games} \cup {TrainerToken(r) : r \in Runs}

GameSteps == {"idle", "prepare", "spawned", "attached", "running",
              "freeing", "detaching", "training", "over"}
RunSteps == {"none", "start", "resolving", "resolved", "spawning", "attaching",
             "watching", "aborting", "closing", "done"}

TypeOK ==
  /\ active \in Games \cup {None}
  /\ game \in [Games -> GameSteps]
  /\ alive \subseteq Games /\ needs \subseteq Games /\ told \subseteq Games
  /\ req \in [Runs -> {"idle", "marking", "deferred", "queueing", "waiting", "answered"}]
  /\ picked \in [Asks -> Games \cup {None}]
  /\ training \in Runs \cup {None}
  /\ joined \in [Runs -> Runs \cup {None}]
  /\ run \in [Runs -> RunSteps]
  /\ jvm \in [Runs -> {"none", "booting", "menu", "dead", "gone"}]
  /\ log \subseteq Runs
  /\ bridge \in Tokens \cup {None} /\ newest \in Tokens \cup {None} /\ left \subseteq Tokens

Init ==
  /\ active = None
  /\ game = [g \in Games |-> "idle"]
  /\ alive = {} /\ needs = {} /\ told = {}
  /\ req = [r \in Runs |-> "idle"]
  /\ picked = [r \in Asks |-> None]
  /\ training = None
  /\ joined = [r \in Runs |-> None]
  /\ run = [r \in Runs |-> "none"]
  /\ jvm = [r \in Runs |-> "none"]
  /\ log = {}
  /\ bridge = None /\ newest = None /\ left = {}

GameGoes(g, from, to) == game[g] = from /\ game' = [game EXCEPT ![g] = to]
RunGoes(r, from, to) == run[r] = from /\ run' = [run EXCEPT ![r] = to]
JvmGoes(r, from, to) == jvm[r] = from /\ jvm' = [jvm EXCEPT ![r] = to]

-----------------------------------------------------------------------------
(* launch_started and launch_exited, as far as the registry goes.          *)

AttachByName(t) == bridge' = t[2] /\ UNCHANGED <<newest, left>>      \* (mutant)
Attach(t) ==
  /\ bridge' = t
  /\ newest' = t
  /\ UNCHANGED left

DetachAny(t) ==                                                    \* (mutant)
  /\ bridge' = None
  /\ left' = left \cup {t}
  /\ UNCHANGED newest
Detach(t) ==
  /\ bridge' = IF bridge = t THEN None ELSE bridge
  /\ left' = left \cup {t}
  /\ UNCHANGED newest

-----------------------------------------------------------------------------
(* A launch, from its acceptance to its exit.                              *)

Launches(g) ==
  /\ active = None
  /\ active' = g
  /\ GameGoes(g, "idle", "prepare")
  /\ UNCHANGED <<alive, needs, told, reqVars, runVars, bridgeVars>>

LaunchFails(g) ==
  /\ GameGoes(g, "prepare", "over")
  /\ active' = None
  /\ UNCHANGED <<alive, needs, told, reqVars, runVars, bridgeVars>>

Spawns(g) ==
  /\ GameGoes(g, "prepare", "spawned")
  /\ alive' = alive \cup {g}
  /\ UNCHANGED <<active, needs, told, reqVars, runVars, bridgeVars>>

\* on_spawned, before the process is monitored.
GameAttaches(g) ==
  /\ GameGoes(g, "spawned", "attached")
  /\ Attach(GameToken(g))
  /\ UNCHANGED <<active, alive, needs, told, reqVars, runVars>>

Registers(g) ==
  /\ g \in alive
  /\ GameGoes(g, "attached", "running")
  /\ UNCHANGED <<active, alive, needs, told, reqVars, runVars, bridgeVars>>

\* on_marker of a game that found its cache missing or stale: the monitor of
\* its log may be late, and finds the buffer as long as the launch has one.
MenuReached(g) ==
  /\ game[g] \notin {"idle", "prepare", "spawned"}
  /\ needs' = needs \cup {g}
  /\ UNCHANGED <<active, game, alive, told, reqVars, runVars, bridgeVars>>

GameEnds(g) ==
  /\ g \in alive
  /\ alive' = alive \ {g}
  /\ UNCHANGED <<active, game, needs, told, reqVars, runVars, bridgeVars>>

\* handle_exit, which may come before the launch is registered: the running
\* entry and the flag of the buffer are taken ...
LosesFlag(g) == UNCHANGED told                                     \* (mutant)
TakesFlag(g) == told' = IF g \in needs THEN told \cup {g} ELSE told

ExitTakes(g) ==
  /\ game[g] \in {"attached", "running"} /\ g \notin alive
  /\ game' = [game EXCEPT ![g] = "freeing"]
  /\ TakesFlag(g)
  /\ needs' = needs \ {g}
  /\ UNCHANGED <<active, alive, reqVars, runVars, bridgeVars>>

\* ... the instance is freed ...
ExitFrees(g) ==
  /\ GameGoes(g, "freeing", "detaching")
  /\ active' = None
  /\ UNCHANGED <<alive, needs, told, reqVars, runVars, bridgeVars>>

\* ... the launch leaves the bridge ...
ExitDetaches(g) ==
  /\ GameGoes(g, "detaching", "training")
  /\ Detach(GameToken(g))
  /\ UNCHANGED <<active, alive, needs, told, reqVars, runVars>>

\* ... and a training is queued in the background if the flag was set.
ExitTrains(g) ==
  /\ GameGoes(g, "training", "over")
  /\ req' = IF g \in told THEN [req EXCEPT ![g] = "queueing"] ELSE req
  /\ UNCHANGED <<active, alive, needs, told, picked, training, joined, runVars, bridgeVars>>

-----------------------------------------------------------------------------
(* Requests.                                                               *)

\* Engine::train_instance: at once on a free instance, else left to the exit of
\* the launch that runs - which none does while a launch prepares or ends.
Trains(r) ==
  /\ r \in Asks \ Onboarding /\ req[r] = "idle"
  /\ \/ active = None /\ req' = [req EXCEPT ![r] = "queueing"] /\ UNCHANGED picked
     \/ /\ active # None
        /\ \/ \E g \in Games : /\ game[g] = "running"
                               /\ picked' = [picked EXCEPT ![r] = g]
                               /\ req' = [req EXCEPT ![r] = "marking"]
           \/ /\ \A g \in Games : game[g] # "running"
              /\ req' = [req EXCEPT ![r] = "deferred"]
              /\ UNCHANGED picked
  /\ UNCHANGED <<gameVars, training, joined, runVars, bridgeVars>>

MarksLaunch(r) ==
  /\ req[r] = "marking"
  /\ req' = [req EXCEPT ![r] = "deferred"]
  /\ needs' = needs \cup {picked[r]}
  /\ UNCHANGED <<active, game, alive, told, picked, training, joined, runVars, bridgeVars>>

OnboardingTrains(r) ==
  /\ r \in Onboarding /\ req[r] = "idle"
  /\ req' = [req EXCEPT ![r] = "queueing"]
  /\ UNCHANGED <<gameVars, picked, training, joined, runVars, bridgeVars>>

\* queue_train_instance: the run in the map, whatever its state and options,
\* or a new one.
NoRun == TRUE                                                      \* (mutant)
RunIsFree == training = None

Joins(r) ==
  /\ req[r] = "queueing"
  /\ req' = [req EXCEPT ![r] = "waiting"]
  /\ IF RunIsFree
       THEN /\ training' = r
            /\ joined' = [joined EXCEPT ![r] = r]
            /\ run' = [run EXCEPT ![r] = "start"]
       ELSE /\ joined' = [joined EXCEPT ![r] = training]
            /\ UNCHANGED <<training, run>>
  /\ UNCHANGED <<gameVars, picked, jvm, log, bridgeVars>>

\* The first request that polls the shared future after the run's end takes
\* the run out of the map; until then others join a run that has ended.
WithoutAny(r) == None                                              \* (mutant)
WithoutRun(r) == IF training = joined[r] THEN None ELSE training

Polls(r) ==
  /\ req[r] = "waiting" /\ run[joined[r]] = "done"
  /\ req' = [req EXCEPT ![r] = "answered"]
  /\ training' = WithoutRun(r)
  /\ UNCHANGED <<gameVars, picked, joined, runVars, bridgeVars>>

-----------------------------------------------------------------------------
(* aot::train_instance: the task of run r.                                 *)

Blocked(r) == r \notin Onboarding /\ active # None

\* Off for the instance, or superseded; what resolving needs is read next.
RunStarts(r) ==
  /\ \/ Blocked(r) /\ RunGoes(r, "start", "done")
     \/ ~Blocked(r) /\ RunGoes(r, "start", "resolving")
     \/ RunGoes(r, "start", "done")
  /\ UNCHANGED <<gameVars, reqVars, jvm, log, bridgeVars>>

Resolves(r) ==
  /\ RunGoes(r, "resolving", "resolved") \/ RunGoes(r, "resolving", "done")
  /\ UNCHANGED <<gameVars, reqVars, jvm, log, bridgeVars>>

ChecksAgain(r) ==
  /\ IF Blocked(r) THEN RunGoes(r, "resolved", "done") ELSE RunGoes(r, "resolved", "spawning")
  /\ UNCHANGED <<gameVars, reqVars, jvm, log, bridgeVars>>

SpawnsTrainer(r) ==
  /\ RunGoes(r, "spawning", "attaching")
  /\ jvm' = [jvm EXCEPT ![r] = "booting"]
  /\ UNCHANGED <<gameVars, reqVars, log, bridgeVars>>

SpawnFails(r) ==
  /\ RunGoes(r, "spawning", "done")
  /\ UNCHANGED <<gameVars, reqVars, jvm, log, bridgeVars>>

\* launch_started, after the spawn; monitor is called next.
TrainerAttaches(r) ==
  /\ RunGoes(r, "attaching", "watching")
  /\ Attach(TrainerToken(r))
  /\ UNCHANGED <<gameVars, reqVars, jvm, log>>

\* wait_for_marker: the caps come first, then what latest.log has grown by since
\* the wait began, then the veto.
StopsWaiting(r, to) ==
  /\ RunGoes(r, "watching", to)
  /\ log' = log \ {r}
  /\ UNCHANGED <<gameVars, reqVars, jvm, bridgeVars>>

GivesUpWaiting(r) == StopsWaiting(r, "closing")

SeesMenu(r) == r \in log /\ StopsWaiting(r, "closing")

GivesWay(r) == r \notin log /\ Blocked(r) /\ StopsWaiting(r, "aborting")

\* terminate, 30 s, then kill_hard, 5 s: it may be gone already, and the run
\* ends also if it survives both.
KillsTrainer(r) ==
  /\ RunGoes(r, "aborting", "done")
  /\ \/ jvm' = [jvm EXCEPT ![r] = IF @ = "gone" THEN "gone" ELSE "dead"]
     \/ UNCHANGED jvm
  /\ UNCHANGED <<gameVars, reqVars, log, bridgeVars>>

\* The trainer was asked to close: it did, or the wait is over (60 s after a
\* timeout, EXIT_WAIT after the menu) and it is left alone.
EndsWaiting(r) ==
  /\ RunGoes(r, "closing", "done")
  /\ UNCHANGED <<gameVars, reqVars, jvm, log, bridgeVars>>

-----------------------------------------------------------------------------
(* The trainer's process and its monitor.                                  *)

\* Every game and every trainer of the instance logs the marker in one file,
\* latest.log of the game directory, and rolls it away when it starts.
LogsMenu == log' = log \cup {r \in Runs : run[r] = "watching"}

GameMenu(g) ==
  /\ g \in alive
  /\ LogsMenu
  /\ UNCHANGED <<gameVars, reqVars, run, jvm, bridgeVars>>

TrainerMenu(r) ==
  /\ JvmGoes(r, "booting", "menu")
  /\ LogsMenu
  /\ UNCHANGED <<gameVars, reqVars, run, bridgeVars>>

LogRolls ==
  /\ alive # {} \/ \E r \in Runs : jvm[r] = "booting"
  /\ log' = {}
  /\ UNCHANGED <<gameVars, reqVars, run, jvm, bridgeVars>>

TrainerEnds(r) ==
  /\ JvmGoes(r, "booting", "dead") \/ JvmGoes(r, "menu", "dead")
  /\ UNCHANGED <<gameVars, reqVars, run, log, bridgeVars>>

\* The monitor tells the waiting run first and then calls launch_exited.
TrainerDetaches(r) ==
  /\ run[r] \in {"watching", "aborting", "closing", "done"}
  /\ JvmGoes(r, "dead", "gone")
  /\ Detach(TrainerToken(r))
  /\ UNCHANGED <<gameVars, reqVars, run, log>>

-----------------------------------------------------------------------------
GameStep(g) ==
  \/ Launches(g) \/ LaunchFails(g) \/ Spawns(g) \/ GameAttaches(g) \/ Registers(g)
  \/ MenuReached(g) \/ GameMenu(g) \/ GameEnds(g)
  \/ ExitTakes(g) \/ ExitFrees(g) \/ ExitDetaches(g) \/ ExitTrains(g)

RequestStep(r) ==
  \/ Trains(r) \/ MarksLaunch(r) \/ OnboardingTrains(r) \/ Joins(r) \/ Polls(r)

RunStep(r) ==
  \/ RunStarts(r) \/ Resolves(r) \/ ChecksAgain(r) \/ SpawnsTrainer(r) \/ SpawnFails(r)
  \/ TrainerAttaches(r) \/ GivesUpWaiting(r) \/ SeesMenu(r) \/ GivesWay(r)
  \/ KillsTrainer(r) \/ EndsWaiting(r)

JvmStep(r) == TrainerMenu(r) \/ TrainerEnds(r) \/ TrainerDetaches(r)

Next ==
  \/ \E g \in Games : GameStep(g)
  \/ \E r \in Runs : RequestStep(r) \/ RunStep(r) \/ JvmStep(r)
  \/ LogRolls

Spec == Init /\ [][Next]_vars

\* The runtime polls every task, and each wait of a run has its cap.  Nothing
\* is assumed of the JVMs, nor that anybody launches or asks for anything.
FairTraining ==
  /\ Spec
  /\ \A g \in Games : /\ WF_vars(ExitTakes(g)) /\ WF_vars(ExitFrees(g))
                      /\ WF_vars(ExitDetaches(g)) /\ WF_vars(ExitTrains(g))
  /\ \A r \in Runs : WF_vars(Joins(r)) /\ WF_vars(Polls(r)) /\ WF_vars(RunStep(r))

-----------------------------------------------------------------------------
(* Properties.                                                             *)

Training(r) == run[r] \notin {"none", "done"}

\* Runs of the instance never overlap, and the one that goes on is the one that
\* further requests find and join (queue_train_instance).
OneTrainer ==
  \A r, s \in Runs :
    /\ Training(r) /\ Training(s) => r = s
    /\ Training(r) => training = r

\* The process that attached last holds the instance's registration until it
\* is detached: the late teardown of a trainer or of the game before never
\* evicts it (detach, launch_exited).
NewestHoldsBridge == newest # None /\ newest \notin left => bridge = newest

\* Every queued request gets its train-done, whether it created the run,
\* joined it or came when it had just ended; and a launch that was marked while
\* it ran queues a training when it has ended (handle_exit).
RequestAnswered ==
  /\ \A r \in Runs : req[r] = "queueing" ~> req[r] = "answered"
  /\ \A g \in Games :
       g \in needs /\ game[g] = "running" /\ g \notin alive ~> req[g] # "idle"

\* "Never spawn the trainer while this returns true (a live game shares the
\* gameDir)" (TrainOptions::is_blocked), "never spawn it under a live game"
\* (auto_train).
NoTrainerUnderGame ==
  [][\A r \in Runs : jvm[r] = "none" /\ jvm'[r] = "booting" => alive = {}]_vars
=============================================================================
