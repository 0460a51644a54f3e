-------------------------- MODULE AotTrainingProofs --------------------------
(***************************************************************************)
(* Proofs that the training runs of an instance never overlap and that no  *)
(* teardown evicts the newest bridge registration, for any numbers of      *)
(* games and requests.                                                     *)
(***************************************************************************)
EXTENDS AotTraining, TLAPS

-----------------------------------------------------------------------------
(* Typing.  A request that waits has joined a run, one that marks has      *)
(* picked a game: Polls and MarksLaunch use them.                          *)

Placed ==
  /\ \A r \in Runs : req[r] \in {"waiting", "answered"} => joined[r] \in Runs
  /\ \A r \in Runs : req[r] = "marking" => r \in Asks /\ picked[r] \in Games

Typed == TypeOK /\ Placed

LEMMA TypedInit == Init => Typed
BY DEF Init, Typed, TypeOK, Placed, GameSteps, RunSteps

LEMMA TokenTyped ==
  /\ \A g \in Games : GameToken(g) \in Tokens
  /\ \A r \in Runs : TrainerToken(r) \in Tokens
BY DEF Tokens

LEMMA TypedGame == ASSUME Typed, NEW g \in Games, GameStep(g) PROVE Typed'
<1> USE DEF Typed, TypeOK, Placed, GameSteps, RunSteps, GameGoes, reqVars, runVars, bridgeVars
<1>1. CASE Launches(g) \/ LaunchFails(g) \/ Spawns(g) \/ Registers(g)
  BY <1>1 DEF Launches, LaunchFails, Spawns, Registers
<1>2. CASE GameAttaches(g)
  BY <1>2, TokenTyped DEF GameAttaches, Attach
<1>3. CASE MenuReached(g) \/ GameMenu(g) \/ GameEnds(g)
  BY <1>3 DEF MenuReached, GameMenu, LogsMenu, GameEnds, gameVars
<1>4. CASE ExitTakes(g) \/ ExitFrees(g)
  BY <1>4 DEF ExitTakes, TakesFlag, ExitFrees
<1>5. CASE ExitDetaches(g)
  BY <1>5, TokenTyped DEF ExitDetaches, Detach
<1>6. CASE ExitTrains(g)
  <2>1. g \in Runs
    BY DEF Runs
  <2> QED
    BY <1>6, <2>1 DEF ExitTrains
<1> QED
  BY <1>1, <1>2, <1>3, <1>4, <1>5, <1>6 DEF GameStep

LEMMA TypedRequest == ASSUME Typed, NEW r \in Runs, RequestStep(r) PROVE Typed'
<1> USE DEF Typed, TypeOK, Placed, RunSteps, gameVars, runVars, bridgeVars
<1>1. CASE Trains(r)
  <2>1. r \in Asks
    BY <1>1 DEF Trains
  <2> QED
    BY <1>1, <2>1 DEF Trains
<1>2. CASE MarksLaunch(r)
  <2>1. picked[r] \in Games
    BY <1>2 DEF MarksLaunch
  <2> QED
    BY <1>2, <2>1 DEF MarksLaunch
<1>3. CASE OnboardingTrains(r)
  BY <1>3 DEF OnboardingTrains
<1>4. CASE Joins(r)
  BY <1>4 DEF Joins, RunIsFree
<1>5. CASE Polls(r)
  BY <1>5 DEF Polls, WithoutRun
<1> QED
  BY <1>1, <1>2, <1>3, <1>4, <1>5 DEF RequestStep

LEMMA TypedRun == ASSUME Typed, NEW r \in Runs, RunStep(r) \/ JvmStep(r) PROVE Typed'
<1> USE DEF Typed, TypeOK, Placed, RunSteps, RunGoes, JvmGoes, gameVars, reqVars, bridgeVars
<1>1. CASE TrainerAttaches(r)
  BY <1>1, TokenTyped DEF TrainerAttaches, Attach
<1>2. CASE TrainerDetaches(r)
  BY <1>2, TokenTyped DEF TrainerDetaches, Detach
<1>3. CASE RunStarts(r) \/ Resolves(r) \/ ChecksAgain(r)
  BY <1>3 DEF RunStarts, Resolves, ChecksAgain
<1>4. CASE SpawnsTrainer(r) \/ SpawnFails(r) \/ KillsTrainer(r)
  BY <1>4 DEF SpawnsTrainer, SpawnFails, KillsTrainer
<1>5. CASE GivesUpWaiting(r) \/ SeesMenu(r) \/ GivesWay(r) \/ EndsWaiting(r)
  BY <1>5 DEF GivesUpWaiting, SeesMenu, GivesWay, StopsWaiting, EndsWaiting
<1>6. CASE TrainerMenu(r) \/ TrainerEnds(r)
  BY <1>6 DEF TrainerMenu, LogsMenu, TrainerEnds
<1> QED
  BY <1>1, <1>2, <1>3, <1>4, <1>5, <1>6 DEF RunStep, JvmStep

LEMMA TypedStep == Typed /\ [Next]_vars => Typed'
<1> SUFFICES ASSUME Typed, [Next]_vars PROVE Typed'
  OBVIOUS
<1>1. CASE UNCHANGED vars
  BY <1>1 DEF vars, Typed, TypeOK, Placed
<1>2. CASE LogRolls
  BY <1>2 DEF LogRolls, Typed, TypeOK, Placed, gameVars, reqVars, bridgeVars
<1> QED
  BY <1>1, <1>2, TypedGame, TypedRequest, TypedRun DEF Next

\* Every variable keeps its type; in particular a request polls a run that exists
\* and a deferred one marks a launch (queue_train_instance, Engine::train_instance).
THEOREM TrainingTyping == Spec => []TypeOK
<1>1. Typed => TypeOK
  BY DEF Typed
<1> QED
  BY <1>1, TypedInit, TypedStep, PTL DEF Spec

-----------------------------------------------------------------------------
(* Runs do not overlap: a run that goes on is the one in the map, since    *)
(* only a run that has ended is taken out of it.                           *)

LEMMA OneTrainerStep == Typed /\ OneTrainer /\ [Next]_vars => OneTrainer'
<1> SUFFICES ASSUME Typed, OneTrainer, [Next]_vars PROVE OneTrainer'
  OBVIOUS
<1> USE DEF Training
<1>1. ASSUME NEW g \in Games, GameStep(g) PROVE OneTrainer'
  BY <1>1 DEF GameStep, Launches, LaunchFails, Spawns, GameAttaches, Registers, MenuReached,
              GameMenu, GameEnds, ExitTakes, ExitFrees, ExitDetaches, ExitTrains, reqVars, runVars, OneTrainer
<1>2. ASSUME NEW r \in Runs, Joins(r) PROVE OneTrainer'
  <2>1. CASE training = None
    <3>1. \A s \in Runs : ~Training(s)
      BY <2>1, TrainingAssumption DEF OneTrainer, TrainingAssumption, Runs
    <3>2. training' = r /\ \A s \in Runs \ {r} : run'[s] = run[s]
      BY <1>2, <2>1 DEF Joins, RunIsFree, Typed, TypeOK
    <3> QED
      BY <3>1, <3>2 DEF OneTrainer
  <2>2. CASE training # None
    BY <1>2, <2>2 DEF Joins, RunIsFree, OneTrainer
  <2> QED
    BY <2>1, <2>2
<1>3. ASSUME NEW r \in Runs, Polls(r) PROVE OneTrainer'
  <2>1. joined[r] \in Runs /\ ~Training(joined[r]) /\ run' = run
    BY <1>3 DEF Polls, runVars, Typed, Placed
  <2>2. \A s \in Runs : Training(s) => training' = s
    BY <1>3, <2>1 DEF Polls, WithoutRun, OneTrainer
  <2> QED
    BY <2>1, <2>2 DEF OneTrainer
<1>4. ASSUME NEW r \in Runs, Trains(r) \/ MarksLaunch(r) \/ OnboardingTrains(r) PROVE OneTrainer'
  BY <1>4 DEF Trains, MarksLaunch, OnboardingTrains, runVars, OneTrainer
<1>5. ASSUME NEW r \in Runs, RunStep(r) \/ JvmStep(r) PROVE OneTrainer'
  <2>1. /\ training' = training
        /\ \A s \in Runs : Training(s)' => Training(s)
    BY <1>5 DEF RunStep, JvmStep, RunStarts, Resolves, ChecksAgain, SpawnsTrainer, SpawnFails,
                TrainerAttaches, GivesUpWaiting, SeesMenu, GivesWay, StopsWaiting, KillsTrainer, EndsWaiting,
                TrainerMenu, TrainerEnds, TrainerDetaches, RunGoes, reqVars, Typed, TypeOK
  <2> QED
    BY <2>1 DEF OneTrainer
<1>6. CASE LogRolls \/ UNCHANGED vars
  BY <1>6 DEF LogRolls, reqVars, vars, OneTrainer
<1> QED
  BY <1>1, <1>2, <1>3, <1>4, <1>5, <1>6 DEF Next, RequestStep

\* Training runs of one instance never overlap, whoever asks for them and in
\* whatever order their ends are polled (queue_train_instance).
THEOREM TrainingOneTrainer == Spec => []OneTrainer
<1>1. Init => OneTrainer
  BY DEF Init, OneTrainer, Training
<1> QED
  BY <1>1, TypedInit, TypedStep, OneTrainerStep, PTL DEF Spec

-----------------------------------------------------------------------------
(* The bridge registration.                                                *)

LEMMA BridgeStep == NewestHoldsBridge /\ [Next]_vars => NewestHoldsBridge'
<1> SUFFICES ASSUME NewestHoldsBridge, [Next]_vars PROVE NewestHoldsBridge'
  OBVIOUS
<1>1. ASSUME NEW t, Attach(t) \/ Detach(t) PROVE NewestHoldsBridge'
  BY <1>1 DEF Attach, Detach, NewestHoldsBridge
<1>2. CASE UNCHANGED bridgeVars
  BY <1>2 DEF bridgeVars, NewestHoldsBridge
<1>3. ASSUME NEW g \in Games, GameStep(g) PROVE NewestHoldsBridge'
  BY <1>1, <1>2, <1>3 DEF GameStep, Launches, LaunchFails, Spawns, GameAttaches, Registers,
     MenuReached, GameMenu, GameEnds, ExitTakes, ExitFrees, ExitDetaches, ExitTrains
<1>4. ASSUME NEW r \in Runs, RequestStep(r) PROVE NewestHoldsBridge'
  BY <1>2, <1>4 DEF RequestStep, Trains, MarksLaunch, OnboardingTrains, Joins, Polls
<1>5. ASSUME NEW r \in Runs, RunStep(r) PROVE NewestHoldsBridge'
  BY <1>1, <1>2, <1>5 DEF RunStep, RunStarts, Resolves, ChecksAgain, SpawnsTrainer, SpawnFails,
     TrainerAttaches, GivesUpWaiting, SeesMenu, GivesWay, StopsWaiting, KillsTrainer, EndsWaiting
<1>6. ASSUME NEW r \in Runs, JvmStep(r) PROVE NewestHoldsBridge'
  BY <1>1, <1>2, <1>6 DEF JvmStep, TrainerMenu, TrainerEnds, TrainerDetaches
<1>7. CASE LogRolls \/ UNCHANGED vars
  BY <1>2, <1>7 DEF LogRolls, vars, bridgeVars
<1> QED
  BY <1>3, <1>4, <1>5, <1>6, <1>7 DEF Next

\* No late teardown, of a game or of a trainer, evicts the process that attached
\* last (bridge::detach).
THEOREM TrainingBridge == Spec => []NewestHoldsBridge
<1>1. Init => NewestHoldsBridge
  BY DEF Init, NewestHoldsBridge
<1> QED
  BY <1>1, BridgeStep, PTL DEF Spec
=============================================================================
