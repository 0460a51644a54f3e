-------------------------- MODULE GameLaunchProofs --------------------------
(***************************************************************************)
(* Proofs that the launch lifecycle of one engine session is type correct  *)
(* and safe, for any numbers of instances, launches and stop requests.     *)
(***************************************************************************)
EXTENDS GameLaunch, TLAPS

-----------------------------------------------------------------------------
(* Typing.                                                                 *)

\* A stop request in progress has its instance, and its game once it found one.
StopsNamed ==
  \A r \in Stops :
    /\ stopAt[r] # "idle" => stopName[r] \in Names
    /\ stopAt[r] \in {"kill", "reap", "reply"} => stopTarget[r] \in Keys

Typed == TypeOK /\ StopsNamed

LEMMA RecordTyped ==
  ASSUME sessions \in [Names -> Records], NEW n, NEW k \in Keys,
         RecordGame(n, k) \/ RecordMenu(n, k) \/ RemoveSession(n)
  PROVE  sessions' \in [Names -> Records]
<1>1. \A m \in Names : sessions[m] \in Records
  OBVIOUS
<1>2. \A rec \in Records : /\ [rec EXCEPT !.key = k] \in Records
                          /\ [rec EXCEPT !.menu = k] \in Records
  BY DEF Records
<1>3. NoRecord \in Records
  BY DEF NoRecord, Records
<1>4. CASE RecordGame(n, k)
  BY <1>1, <1>2, <1>4 DEF RecordGame
<1>5. CASE RecordMenu(n, k)
  BY <1>1, <1>2, <1>5 DEF RecordMenu
<1>6. CASE RemoveSession(n)
  BY <1>1, <1>3, <1>6 DEF RemoveSession
<1> QED
  BY <1>4, <1>5, <1>6

LEMMA TypedInit == Init => Typed
BY RequestAssumption, NoneAssumption
DEF Init, Typed, TypeOK, StopsNamed, Records, NoRecord, Stages, FinSteps, StopSteps, Callers

LEMMA LaunchTyped ==
  ASSUME Typed, NEW k \in Keys, RunLaunch(k)
  PROVE  Typed'
<1> USE NoneAssumption DEF Typed, TypeOK, StopsNamed, Stages, GoTo, gameVars,
      bufferVars, exitVars, stopVars
<1>1. CASE ResolveFails(k)
  BY <1>1 DEF ResolveFails
<1>2. CASE ResolveFailed(k)
  BY <1>2 DEF ResolveFailed, Finish, EmitExit
<1>3. CASE ResolveCancelled(k)
  BY <1>3 DEF ResolveCancelled
<1>4. CASE Cancelled(k)
  BY <1>4 DEF Cancelled, Finish, EmitExit
<1>5. CASE Resolved(k)
  BY <1>5 DEF Resolved, EnterPresence
<1>6. CASE Spawn(k)
  BY <1>6 DEF Spawn
<1>7. CASE Register(k)
  BY <1>7, RecordTyped DEF Register
<1>8. CASE SpawnFails(k)
  BY <1>8 DEF SpawnFails, Clear
<1>9. CASE SpawnFailed(k)
  BY <1>9 DEF SpawnFailed, Finish, LeavePresence, EmitExit
<1> QED
  BY <1>1, <1>2, <1>3, <1>4, <1>5, <1>6, <1>7, <1>8, <1>9 DEF RunLaunch

LEMMA GameTyped ==
  ASSUME Typed, NEW k \in Keys, GameEnds(k) \/ Watchers(k)
  PROVE  Typed'
<1> USE NoneAssumption DEF Typed, TypeOK, StopsNamed, Callers, launchVars,
      engineVars, bufferVars, exitVars, stopVars
<1>1. CASE GameEnds(k)
  BY <1>1 DEF GameEnds
<1>2. CASE MonitorSeesExit(k) \/ WaitFails(k)
  BY <1>2 DEF MonitorSeesExit, WaitFails, CallFinalizer
<1>3. CASE MarkerSeen(k)
  BY <1>3 DEF MarkerSeen
<1>4. ASSUME NEW train \in BOOLEAN, OnMarker(k, train)
      PROVE  Typed'
  BY <1>4, RecordTyped DEF OnMarker
<1> QED
  BY <1>1, <1>2, <1>3, <1>4 DEF Watchers

LEMMA FinalizerTyped ==
  ASSUME Typed, NEW k \in Keys, Finalizer(k)
  PROVE  Typed'
<1> USE NoneAssumption DEF Typed, TypeOK, StopsNamed, FinSteps, launchVars,
      gameVars, engineVars, bufferVars, stopVars
<1>1. ASSUME NEW c \in Callers, FinalizeReturns(c, k)
      PROVE  Typed'
  BY <1>1 DEF FinalizeReturns
<1>2. ASSUME NEW c \in Callers, FinalizeSeen(c, k)
      PROVE  Typed'
  BY <1>2, RecordTyped DEF FinalizeSeen, Clear
<1>3. CASE FinalizeCleared(k)
  BY <1>3, RecordTyped DEF FinalizeCleared
<1>4. CASE FinalizeFreed(k)
  BY <1>4 DEF FinalizeFreed, Finish, LeavePresence
<1>5. CASE FinalizeAnnounced(k)
  BY <1>5 DEF FinalizeAnnounced, EmitExit
<1> QED
  BY <1>1, <1>2, <1>3, <1>4, <1>5 DEF Finalizer

\* A sweep keeps running a map of launches and calls only their finalizers.
LEMMA ReconcileTyped ==
  ASSUME Typed, NEW c \in Callers, Reconcile(c)
  PROVE  /\ running' \in [Names -> Keys \cup {None}]
         /\ calls' \subseteq Callers \X Keys
BY DEF Typed, TypeOK, Reconcile, DeadEntries

LEMMA StopTyped ==
  ASSUME Typed, NEW r \in Stops, StopRequest(r)
  PROVE  Typed'
<1> USE NoneAssumption DEF Typed, TypeOK, StopsNamed, StopSteps, StopAt,
      launchVars, gameVars, engineVars, bufferVars, exitVars
<1>0. r \in Callers
  BY DEF Callers
<1>1. ASSUME NEW n \in Names, StopCalled(r, n)
      PROVE  Typed'
  BY <1>0, <1>1, ReconcileTyped DEF StopCalled
<1>2. CASE StopCheck(r)
  BY <1>2 DEF StopCheck
<1>3. CASE StopLookup(r)
  BY <1>3 DEF StopLookup
<1>4. CASE StopPending(r)
  BY <1>4 DEF StopPending
<1>5. CASE StopKill(r)
  BY <1>5 DEF StopKill
<1>6. CASE StopReap(r)
  BY <1>0, <1>6, ReconcileTyped DEF StopReap
<1>7. CASE StopReply(r)
  BY <1>7 DEF StopReply
<1> QED
  BY <1>1, <1>2, <1>3, <1>4, <1>5, <1>6, <1>7 DEF StopRequest

LEMMA TypedStep == Typed /\ [SessionNext]_vars => Typed'
<1> SUFFICES ASSUME Typed, [SessionNext]_vars
             PROVE  Typed'
  OBVIOUS
<1> USE NoneAssumption DEF Typed, TypeOK, StopsNamed, Stages, launchVars,
      gameVars, engineVars, bufferVars, exitVars, stopVars
<1>1. ASSUME NEW k \in Keys, NEW n \in Names, NEW a \in Modes, LaunchInstance(k, n, a)
      PROVE  Typed'
  BY <1>1 DEF LaunchInstance, GoTo
<1>2. CASE ListLaunches
  <2>1. "list" \in Callers
    BY DEF Callers
  <2> QED
    BY <1>2, <2>1, ReconcileTyped DEF ListLaunches
<1>3. ASSUME NEW k \in Keys, TrainDeferred(k)
      PROVE  Typed'
  BY <1>3 DEF TrainDeferred
<1>4. ASSUME NEW n \in Names, TrainPicks(n)
      PROVE  Typed'
  BY <1>4 DEF TrainPicks
<1>5. ASSUME NEW n \in Names, ChangeBegins(n) \/ ChangeEnds(n)
      PROVE  Typed'
  BY <1>5 DEF ChangeBegins, ChangeEnds
<1>6. CASE UNCHANGED vars
  BY <1>6 DEF vars
<1> QED
  BY <1>1, <1>2, <1>3, <1>4, <1>5, <1>6, LaunchTyped, GameTyped, FinalizerTyped,
     StopTyped
  DEF SessionNext

\* Every variable of the launch lifecycle keeps its type, and a stop request
\* never looks up an instance or kills a game it does not have.
THEOREM SessionTyping == SessionSpec => []TypeOK
<1>1. SessionSpec => []Typed
  BY TypedInit, TypedStep, PTL DEF SessionSpec
<1> QED
  BY <1>1, PTL DEF Typed

-----------------------------------------------------------------------------
(* The inductive invariant. OneHolder and LiveGameIsStoppable are part of  *)
(* it; the others say which combinations of one launch's control states    *)
(* arise, and what the running map and the finalizer calls refer to.       *)

\* The game died, or the wait for it failed.
Ended(k) == proc[k] = "dead" \/ mon[k] = "published"

\* How a launch's stage, process, monitor, finalizer and registrations go
\* together; exits counts its one LaunchExit.
LaunchOrder ==
  \A k \in Keys :
    /\ inst[k] = None <=> stage[k] = "unborn"
    /\ proc[k] # "none" <=> stage[k] \in {"spawned", "done"}
    /\ mon[k] # "off" => proc[k] # "none"
    /\ k \in exitSeen <=> finAt[k] # "none"
    /\ k \in exitSeen => Ended(k)
    /\ exits[k] = (IF stage[k] = "over" \/ finAt[k] = "done" THEN 1 ELSE 0)
    /\ stage[k] = "over" \/ finAt[k] \in {"freed", "done"} => buffer[k] = "finished"
    /\ k \in live => /\ k \notin agent
                     /\ stage[k] \in {"starting", "spawned", "unwinding", "done"}
                     /\ finAt[k] \notin {"freed", "done"}
    /\ k \in agent => stage[k] # "unborn"
    /\ k \in registry <=> k \in agent /\ exits[k] = 0

\* Only the finalizer of a game that ended is ever called.
OnlyEndedFinalized ==
  \A c \in Callers, k \in Keys : <<c, k>> \in calls => Ended(k)

\* A running entry is a launch of that instance that run_launch registered.
RunningEntries ==
  \A n \in Names, k \in Keys :
    running[n] = k => inst[k] = n /\ stage[k] = "done" /\ sessions[n].key = k

\* No game of an earlier engine: the session starts with an empty record.
NoneAdopted == adopted = {}

Inv == /\ Typed /\ NoneAdopted /\ LaunchOrder /\ OnlyEndedFinalized
       /\ RunningEntries /\ OneHolder /\ LiveGameIsStoppable

LEMMA InvInit == Init => Inv
<1> SUFFICES ASSUME Init PROVE Inv
  OBVIOUS
<1>1. Typed
  BY TypedInit
<1>2. NoneAdopted /\ LaunchOrder /\ OnlyEndedFinalized /\ RunningEntries
  BY NoneAssumption
  DEF Init, NoneAdopted, LaunchOrder, OnlyEndedFinalized, RunningEntries
<1>3. OneHolder /\ LiveGameIsStoppable
  BY NoneAssumption DEF Init, OneHolder, Holding, LiveGameIsStoppable
<1> QED
  BY <1>1, <1>2, <1>3 DEF Inv

-----------------------------------------------------------------------------
(* LaunchOrder, step by step.                                              *)

LEMMA LaunchOrdered ==
  ASSUME Inv, NEW k \in Keys,
         RunLaunch(k) \/ \E n \in Names, a \in Modes : LaunchInstance(k, n, a)
  PROVE  LaunchOrder'
<1> USE NoneAssumption DEF Inv, Typed, TypeOK, LaunchOrder, Ended, GoTo, gameVars,
      exitVars
<1>1. CASE ResolveFails(k)
  BY <1>1 DEF ResolveFails, bufferVars
<1>2. CASE ResolveFailed(k)
  BY <1>2 DEF ResolveFailed, Finish, EmitExit
<1>3. CASE ResolveCancelled(k)
  BY <1>3 DEF ResolveCancelled, bufferVars
<1>4. CASE Cancelled(k)
  BY <1>4 DEF Cancelled, Finish, EmitExit
<1>5. CASE Resolved(k)
  BY <1>5 DEF Resolved, EnterPresence, bufferVars
<1>6. CASE Spawn(k)
  BY <1>6 DEF Spawn, bufferVars
<1>7. CASE Register(k)
  BY <1>7 DEF Register, bufferVars
<1>8. CASE SpawnFails(k)
  BY <1>8 DEF SpawnFails, bufferVars
<1>9. CASE SpawnFailed(k)
  BY <1>9 DEF SpawnFailed, Finish, LeavePresence, EmitExit
<1>10. ASSUME NEW n \in Names, NEW a \in Modes, LaunchInstance(k, n, a)
       PROVE  LaunchOrder'
  BY <1>10 DEF LaunchInstance
<1> QED
  BY <1>1, <1>2, <1>3, <1>4, <1>5, <1>6, <1>7, <1>8, <1>9, <1>10 DEF RunLaunch

LEMMA ExitOrdered ==
  ASSUME Inv, NEW k \in Keys, GameEnds(k) \/ Watchers(k) \/ Finalizer(k)
  PROVE  LaunchOrder'
<1> USE DEF Inv, Typed, TypeOK, LaunchOrder, Ended, launchVars, engineVars, bufferVars
<1>1. CASE GameEnds(k)
  BY <1>1 DEF GameEnds, exitVars
<1>2. CASE MonitorSeesExit(k) \/ WaitFails(k)
  BY <1>2 DEF MonitorSeesExit, WaitFails
<1>3. CASE MarkerSeen(k)
  BY <1>3 DEF MarkerSeen, exitVars
<1>4. ASSUME NEW train \in BOOLEAN, OnMarker(k, train)
      PROVE  LaunchOrder'
  BY <1>4 DEF OnMarker, exitVars
<1> USE DEF gameVars
<1>5. ASSUME NEW c \in Callers, FinalizeReturns(c, k)
      PROVE  LaunchOrder'
  BY <1>5 DEF FinalizeReturns
<1>6. ASSUME NEW c \in Callers, FinalizeSeen(c, k)
      PROVE  LaunchOrder'
  BY <1>6 DEF FinalizeSeen, OnlyEndedFinalized, FirstToEnd
<1>7. CASE FinalizeCleared(k)
  BY <1>7 DEF FinalizeCleared
<1>8. CASE FinalizeFreed(k)
  BY <1>8 DEF FinalizeFreed, Finish, LeavePresence
<1>9. CASE FinalizeAnnounced(k)
  BY <1>9 DEF FinalizeAnnounced, EmitExit
<1> QED
  BY <1>1, <1>2, <1>3, <1>4, <1>5, <1>6, <1>7, <1>8, <1>9 DEF Watchers, Finalizer

LEMMA OrderStep == Inv /\ [SessionNext]_vars => LaunchOrder'
<1> SUFFICES ASSUME Inv, [SessionNext]_vars
             PROVE  LaunchOrder'
  OBVIOUS
<1> USE DEF Inv, Typed, TypeOK, LaunchOrder, Ended, launchVars, gameVars, engineVars,
      bufferVars, exitVars
<1>1. CASE ListLaunches
  BY <1>1 DEF ListLaunches
<1>2. ASSUME NEW r \in Stops, StopRequest(r)
      PROVE  LaunchOrder'
  <2>1. ASSUME NEW n \in Names, StopCalled(r, n)
        PROVE  LaunchOrder'
    BY <2>1 DEF StopCalled
  <2>2. CASE StopCheck(r) \/ StopLookup(r) \/ StopPending(r) \/ StopReply(r)
    BY <2>2 DEF StopCheck, StopLookup, StopPending, StopReply
  <2>3. CASE StopKill(r)
    BY <2>3 DEF StopKill, StopAt, Gone, StopsNamed
  <2>4. CASE StopReap(r)
    BY <2>4 DEF StopReap
  <2> QED
    BY <1>2, <2>1, <2>2, <2>3, <2>4 DEF StopRequest
<1>3. ASSUME NEW k \in Keys, TrainDeferred(k)
      PROVE  LaunchOrder'
  BY <1>3 DEF TrainDeferred
<1>4. ASSUME NEW n \in Names, TrainPicks(n) \/ ChangeBegins(n) \/ ChangeEnds(n)
      PROVE  LaunchOrder'
  BY <1>4 DEF TrainPicks, ChangeBegins, ChangeEnds
<1>5. CASE UNCHANGED vars
  BY <1>5 DEF vars
<1> QED
  BY <1>1, <1>2, <1>3, <1>4, <1>5, LaunchOrdered, ExitOrdered DEF SessionNext

-----------------------------------------------------------------------------
(* Finalizer calls: a sweep and the monitor add one, for a game that ended. *)

\* A registered game has a process: what the sweep finds gone has ended.
LEMMA SweptHaveEnded ==
  ASSUME Inv, NEW n \in DeadEntries
  PROVE  running[n] \in Keys /\ Ended(running[n])
BY DEF Inv, Typed, TypeOK, LaunchOrder, RunningEntries, DeadEntries, Gone, Ended

LEMMA CallsStep ==
  Inv /\ [SessionNext]_vars => OnlyEndedFinalized' /\ NoneAdopted'
<1> SUFFICES ASSUME Inv, [SessionNext]_vars
             PROVE  OnlyEndedFinalized' /\ NoneAdopted'
  OBVIOUS
<1> USE DEF Inv, NoneAdopted, OnlyEndedFinalized, Ended, launchVars, gameVars,
      engineVars, bufferVars, exitVars
<1>1. ASSUME NEW c, Reconcile(c), UNCHANGED <<proc, mon, adopted>>
      PROVE  OnlyEndedFinalized' /\ NoneAdopted'
  BY <1>1, SweptHaveEnded DEF Reconcile
<1>2. CASE ListLaunches
  BY <1>1, <1>2 DEF ListLaunches
<1>3. ASSUME NEW r \in Stops, StopRequest(r)
      PROVE  OnlyEndedFinalized' /\ NoneAdopted'
  <2>1. ASSUME NEW n \in Names, StopCalled(r, n)
        PROVE  OnlyEndedFinalized' /\ NoneAdopted'
    BY <1>1, <2>1 DEF StopCalled
  <2>2. CASE StopReap(r)
    BY <1>1, <2>2 DEF StopReap
  <2>3. CASE StopKill(r)
    BY <2>3 DEF StopKill, Typed, TypeOK
  <2>4. CASE StopCheck(r) \/ StopLookup(r) \/ StopPending(r) \/ StopReply(r)
    BY <2>4 DEF StopCheck, StopLookup, StopPending, StopReply
  <2> QED
    BY <1>3, <2>1, <2>2, <2>3, <2>4 DEF StopRequest
<1>4. ASSUME NEW k \in Keys, RunLaunch(k)
      PROVE  OnlyEndedFinalized' /\ NoneAdopted'
  <2>1. CASE Spawn(k)
    BY <2>1 DEF Spawn, GoTo, Typed, TypeOK, LaunchOrder, Ended
  <2>2. CASE RunLaunch(k) /\ ~Spawn(k)
    BY <2>2 DEF RunLaunch, ResolveFails, ResolveFailed, ResolveCancelled,
         Cancelled, Resolved, Register, SpawnFails, SpawnFailed
  <2> QED
    BY <1>4, <2>1, <2>2
<1>5. ASSUME NEW k \in Keys, GameEnds(k) \/ Watchers(k)
      PROVE  OnlyEndedFinalized' /\ NoneAdopted'
  <2>1. CASE GameEnds(k)
    BY <2>1 DEF GameEnds, Typed, TypeOK
  <2>2. CASE Watchers(k)
    BY <2>2 DEF Watchers, MonitorSeesExit, WaitFails, CallFinalizer, MarkerSeen,
         OnMarker, Typed, TypeOK
  <2> QED
    BY <1>5, <2>1, <2>2
<1>6. ASSUME NEW k \in Keys, Finalizer(k)
      PROVE  OnlyEndedFinalized' /\ NoneAdopted'
  BY <1>6 DEF Finalizer, FinalizeReturns, FinalizeSeen, FinalizeCleared,
       FinalizeFreed, FinalizeAnnounced
<1>7. ASSUME NEW k \in Keys, NEW n \in Names, NEW a \in Modes, LaunchInstance(k, n, a)
      PROVE  OnlyEndedFinalized' /\ NoneAdopted'
  BY <1>7 DEF LaunchInstance
<1>8. ASSUME NEW k \in Keys, TrainDeferred(k)
      PROVE  OnlyEndedFinalized' /\ NoneAdopted'
  BY <1>8 DEF TrainDeferred
<1>9. ASSUME NEW n \in Names, TrainPicks(n) \/ ChangeBegins(n) \/ ChangeEnds(n)
      PROVE  OnlyEndedFinalized' /\ NoneAdopted'
  BY <1>9 DEF TrainPicks, ChangeBegins, ChangeEnds
<1>10. CASE UNCHANGED vars
  BY <1>10 DEF vars
<1> QED
  BY <1>2, <1>3, <1>4, <1>5, <1>6, <1>7, <1>8, <1>9, <1>10 DEF SessionNext

-----------------------------------------------------------------------------
(* The running map: entries are right, and no living game loses its own.   *)

RunningRight == RunningEntries /\ LiveGameIsStoppable

\* A tracked game still has its instance, and so is the only one that has it.
LEMMA LivingHolds ==
  ASSUME Inv, NEW k \in Keys, Tracked(k)
  PROVE  Holding(k) /\ inst[k] \in Names
BY NoneAssumption DEF Inv, Typed, TypeOK, LaunchOrder, Holding, Tracked, Ended

\* What takes a launch without a living game, holding its instance, out of the
\* running map takes no living game out.
LEMMA ClearedRight ==
  ASSUME Inv, NEW k \in Keys, Holding(k), ~Tracked(k), Clear(inst[k]),
         \A n \in Names \ {inst[k]} : sessions'[n] = sessions[n],
         UNCHANGED <<inst, proc, mon>>,
         \A l \in Keys : stage[l] = "done" <=> stage'[l] = "done"
  PROVE  RunningRight'
<1>1. inst[k] \in Names
  BY DEF Inv, Typed, TypeOK, LaunchOrder, Ended, Holding
<1>2. \A l \in Keys : Tracked(l) => inst[l] \in Names \ {inst[k]}
  BY LivingHolds DEF Inv, OneHolder
<1>3. \A n \in Names : running'[n] = IF n = inst[k] THEN None ELSE running[n]
  BY <1>1 DEF Inv, Typed, TypeOK, Clear
<1>4. RunningEntries'
  BY <1>3, NoneAssumption DEF RunningEntries, Inv
<1>5. LiveGameIsStoppable'
  BY <1>2, <1>3 DEF LiveGameIsStoppable, Inv, Tracked
<1> QED
  BY <1>4, <1>5 DEF RunningRight

\* A sweep drops no living game.
LEMMA SweptRight ==
  ASSUME Inv, NEW c, Reconcile(c), UNCHANGED <<inst, stage, proc, mon, sessions>>
  PROVE  RunningRight'
<1>1. \A n \in Names : running'[n] = IF n \in DeadEntries THEN None ELSE running[n]
  BY DEF Reconcile
<1>2. \A k \in Keys : Tracked(k) => inst[k] \in Names
  BY LivingHolds
<1>3. RunningEntries'
  BY <1>1, NoneAssumption DEF Inv, RunningEntries
<1>4. LiveGameIsStoppable'
  BY <1>1, <1>2, SweptHaveEnded DEF Inv, LiveGameIsStoppable, Tracked, Ended
<1> QED
  BY <1>3, <1>4 DEF RunningRight

\* A game that run_launch registers gets the entry and the record of its
\* instance; one that ended first is not tracked.
LEMMA RegisteredRight ==
  ASSUME Inv, NEW k \in Keys, Register(k)
  PROVE  RunningRight'
<1> USE DEF Inv, Typed, TypeOK
<1>1. stage[k] = "spawned" /\ stage' = [stage EXCEPT ![k] = "done"] /\ inst' = inst
      /\ proc' = proc /\ mon' = mon
  BY DEF Register, GoTo, gameVars
<1>2. inst[k] \in Names
  BY <1>1 DEF LaunchOrder, Ended
<1>3. CASE NotEnded(k)
  <2>1. Holding(k)
    BY <1>1, <1>3 DEF NotEnded, LaunchOrder, Holding
  <2>2. \A n \in Names :
          /\ running'[n] = IF n = inst[k] THEN k ELSE running[n]
          /\ sessions'[n].key = IF n = inst[k] THEN k ELSE sessions[n].key
    BY <1>2, <1>3 DEF Register, RecordGame, Records
  <2>3. \A l \in Keys : Tracked(l) =>
          inst[l] \in Names /\ (inst[l] = inst[k] => l = k)
    BY <2>1, LivingHolds DEF OneHolder
  <2>4. RunningEntries'
    BY <1>1, <2>2 DEF RunningEntries
  <2>5. LiveGameIsStoppable'
    BY <1>1, <2>2, <2>3 DEF LiveGameIsStoppable, Tracked
  <2> QED
    BY <2>4, <2>5 DEF RunningRight
<1>4. CASE ~NotEnded(k)
  <2>1. ~Tracked(k) /\ UNCHANGED <<running, sessions>>
    BY <1>4 DEF Register, NotEnded, LaunchOrder, Ended, Tracked
  <2> QED
    BY <1>1, <2>1 DEF RunningRight, RunningEntries, LiveGameIsStoppable, Tracked
<1> QED
  BY <1>3, <1>4

\* A step that leaves the map, the records' keys and the living games alone.
LEMMA UndisturbedRight ==
  ASSUME Inv, UNCHANGED running,
         \A n \in Names : sessions'[n].key = sessions[n].key,
         \A k \in Keys : stage[k] = "done" => inst'[k] = inst[k],
         \A k \in Keys : stage[k] = "done" <=> stage'[k] = "done",
         \A k \in Keys : stage[k] = "done" /\ Tracked(k)' => Tracked(k)
  PROVE  RunningRight'
BY DEF Inv, RunningRight, RunningEntries, LiveGameIsStoppable

LEMMA RunningStep == Inv /\ [SessionNext]_vars => RunningRight'
<1> SUFFICES ASSUME Inv, [SessionNext]_vars
             PROVE  RunningRight'
  OBVIOUS
<1> USE DEF Inv, Typed, TypeOK, Tracked, launchVars, gameVars, engineVars, bufferVars,
      exitVars
<1>1. ASSUME NEW k \in Keys, RunLaunch(k)
      PROVE  RunningRight'
  <2>1. CASE Register(k)
    BY <2>1, RegisteredRight
  <2>2. CASE SpawnFails(k)
    <3>1. Holding(k) /\ ~Tracked(k)
      BY <2>2 DEF SpawnFails, GoTo, LaunchOrder, Ended, Holding, Tracked
    <3>2. \A l \in Keys : stage[l] = "done" <=> stage'[l] = "done"
      BY <2>2 DEF SpawnFails, GoTo
    <3> QED
      BY <2>2, <3>1, <3>2, ClearedRight DEF SpawnFails
  <2>3. CASE Spawn(k)
    BY <2>3, UndisturbedRight DEF Spawn, GoTo
  <2>4. CASE RunLaunch(k) /\ ~Register(k) /\ ~SpawnFails(k) /\ ~Spawn(k)
    BY <2>4, UndisturbedRight DEF RunLaunch, GoTo, ResolveFails, ResolveFailed,
       ResolveCancelled, Cancelled, Resolved, SpawnFailed
  <2> QED
    BY <1>1, <2>1, <2>2, <2>3, <2>4
<1>2. ASSUME NEW k \in Keys, GameEnds(k) \/ Watchers(k)
      PROVE  RunningRight'
  <2>1. CASE GameEnds(k)
    BY <2>1, UndisturbedRight DEF GameEnds
  <2>2. CASE MonitorSeesExit(k) \/ WaitFails(k) \/ MarkerSeen(k)
    BY <2>2, UndisturbedRight DEF MonitorSeesExit, WaitFails, MarkerSeen
  <2>3. ASSUME NEW train \in BOOLEAN, OnMarker(k, train)
        PROVE  RunningRight'
    <3>1. \A n \in Names : sessions'[n].key = sessions[n].key
      BY <2>3 DEF OnMarker, RecordMenu, Records
    <3> QED
      BY <2>3, <3>1, UndisturbedRight DEF OnMarker
  <2> QED
    BY <1>2, <2>1, <2>2, <2>3 DEF Watchers
<1>3. ASSUME NEW k \in Keys, Finalizer(k)
      PROVE  RunningRight'
  <2>1. ASSUME NEW c \in Callers, FinalizeSeen(c, k)
        PROVE  RunningRight'
    <3>1. Holding(k) /\ ~Tracked(k)
      BY <2>1 DEF FinalizeSeen, FirstToEnd, LaunchOrder, OnlyEndedFinalized, Holding,
         Ended, Tracked
    <3>2. \A n \in Names \ {inst[k]} : sessions'[n] = sessions[n]
      BY <2>1 DEF FinalizeSeen, RemoveSession
    <3> QED
      BY <2>1, <3>1, <3>2, ClearedRight DEF FinalizeSeen
  <2>2. CASE FinalizeCleared(k)
    BY <2>2, UndisturbedRight DEF FinalizeCleared, NoneAdopted
  <2>3. CASE FinalizeFreed(k) \/ FinalizeAnnounced(k)
             \/ \E c \in Callers : FinalizeReturns(c, k)
    BY <2>3, UndisturbedRight DEF FinalizeFreed, FinalizeAnnounced, FinalizeReturns
  <2> QED
    BY <1>3, <2>1, <2>2, <2>3 DEF Finalizer
<1>4. ASSUME NEW r \in Stops, StopRequest(r)
      PROVE  RunningRight'
  <2>1. ASSUME NEW n \in Names, StopCalled(r, n)
        PROVE  RunningRight'
    BY <2>1, SweptRight DEF StopCalled
  <2>2. CASE StopReap(r)
    BY <2>2, SweptRight DEF StopReap
  <2>3. CASE StopKill(r)
    BY <2>3, UndisturbedRight DEF StopKill
  <2>4. CASE StopCheck(r) \/ StopLookup(r) \/ StopPending(r) \/ StopReply(r)
    BY <2>4, UndisturbedRight DEF StopCheck, StopLookup, StopPending, StopReply
  <2> QED
    BY <1>4, <2>1, <2>2, <2>3, <2>4 DEF StopRequest
<1>5. CASE ListLaunches
  BY <1>5, SweptRight DEF ListLaunches
<1>6. ASSUME NEW k \in Keys, NEW n \in Names, NEW a \in Modes, LaunchInstance(k, n, a)
      PROVE  RunningRight'
  BY <1>6, UndisturbedRight DEF LaunchInstance, GoTo, LaunchOrder, Ended
<1>7. ASSUME NEW k \in Keys, TrainDeferred(k)
      PROVE  RunningRight'
  BY <1>7, UndisturbedRight DEF TrainDeferred
<1>8. ASSUME NEW n \in Names, TrainPicks(n) \/ ChangeBegins(n) \/ ChangeEnds(n)
      PROVE  RunningRight'
  BY <1>8, UndisturbedRight DEF TrainPicks, ChangeBegins, ChangeEnds
<1>9. CASE UNCHANGED vars
  BY <1>9, UndisturbedRight DEF vars
<1> QED
  BY <1>1, <1>2, <1>3, <1>4, <1>5, <1>6, <1>7, <1>8, <1>9 DEF SessionNext

-----------------------------------------------------------------------------
(* Who holds an instance: four kinds of step matter.                       *)

LEMMA SameHolders ==
  ASSUME OneHolder, UNCHANGED <<active, changing>>,
         \A k \in Keys : Holding(k)' = Holding(k),
         \A k \in Keys : Holding(k) => inst'[k] = inst[k]
  PROVE  OneHolder'
BY DEF OneHolder

\* The one launch that holds the instance lets it go.
LEMMA HolderLeaves ==
  ASSUME Inv, NEW k \in Keys, Holding(k), ~Holding(k)',
         active' = active \ {inst[k]}, UNCHANGED <<inst, changing>>,
         \A l \in Keys \ {k} : Holding(l)' = Holding(l)
  PROVE  OneHolder'
BY DEF Inv, OneHolder

\* The guard of launch_instance: the instance is free.
LEMMA HolderComes ==
  ASSUME Inv, NEW k \in Keys, NEW n \in Names, NEW a \in Modes, LaunchInstance(k, n, a)
  PROVE  OneHolder'
<1>1. /\ stage[k] = "unborn" /\ stage' = [stage EXCEPT ![k] = "resolving"]
      /\ inst' = [inst EXCEPT ![k] = n] /\ finAt' = finAt /\ changing' = changing
      /\ active' = active \cup {n} /\ n \notin active
  BY DEF LaunchInstance, GoTo, FreeInstance, exitVars
<1>2. finAt[k] = "none" /\ stage \in [Keys -> Stages] /\ inst \in [Keys -> Names \cup {None}]
  BY <1>1 DEF Inv, Typed, TypeOK, LaunchOrder, Ended
<1>3. ~Holding(k) /\ Holding(k)' /\ inst'[k] = n
  BY <1>1, <1>2 DEF Holding
<1>4. \A l \in Keys \ {k} : Holding(l)' = Holding(l) /\ inst'[l] = inst[l]
  BY <1>1, <1>2 DEF Holding
<1>5. n \notin changing /\ \A l \in Keys : Holding(l) => inst[l] # n
  BY <1>1 DEF Inv, OneHolder
<1>6. \A m \in Names : m \in active' <=>
        m \in changing' \/ \E l \in Keys : inst'[l] = m /\ Holding(l)'
  <2> SUFFICES ASSUME NEW m \in Names
               PROVE  m \in active' <=>
                        m \in changing' \/ \E l \in Keys : inst'[l] = m /\ Holding(l)'
    OBVIOUS
  <2>1. CASE m = n
    BY <1>1, <1>3, <2>1
  <2>2. CASE m # n
    <3>1. (\E l \in Keys : inst'[l] = m /\ Holding(l)') <=>
          \E l \in Keys : inst[l] = m /\ Holding(l)
      BY <1>3, <1>4, <2>2
    <3> QED
      BY <1>1, <2>2, <3>1 DEF Inv, OneHolder
  <2> QED
    BY <2>1, <2>2
<1>7. \A l, i \in Keys : Holding(l)' /\ Holding(i)' /\ inst'[l] = inst'[i] => l = i
  BY <1>3, <1>4, <1>5 DEF Inv, OneHolder
<1>8. \A l \in Keys : Holding(l)' => inst'[l] \notin changing'
  BY <1>1, <1>3, <1>4, <1>5 DEF Inv, OneHolder
<1> QED
  BY <1>6, <1>7, <1>8 DEF OneHolder

LEMMA ChangeHolds ==
  ASSUME Inv, NEW n \in Names, ChangeBegins(n) \/ ChangeEnds(n)
  PROVE  OneHolder'
<1>1. UNCHANGED <<inst, stage, finAt>>
  BY DEF ChangeBegins, ChangeEnds, launchVars, exitVars
<1>2. \A k \in Keys : Holding(k)' = Holding(k) /\ inst'[k] = inst[k]
  BY <1>1 DEF Holding
<1>3. CASE ChangeBegins(n)
  BY <1>2, <1>3 DEF ChangeBegins, FreeInstance, Inv, OneHolder
<1>4. CASE ChangeEnds(n)
  BY <1>2, <1>4 DEF ChangeEnds, Inv, OneHolder
<1> QED
  BY <1>3, <1>4

LEMMA LaunchHolds ==
  ASSUME Inv, NEW k \in Keys, RunLaunch(k)
  PROVE  OneHolder'
<1> USE DEF Inv, Typed, TypeOK, GoTo, Holding, exitVars, gameVars, bufferVars
<1>1. CASE \/ ResolveFailed(k) \/ ResolveCancelled(k) \/ Resolved(k)
           \/ Spawn(k) \/ Register(k) \/ SpawnFails(k)
  <2>1. UNCHANGED <<inst, active, changing, finAt>>
    BY <1>1 DEF ResolveFailed, ResolveCancelled, Resolved, Spawn, Register, SpawnFails
  <2>2. \A l \in Keys : Holding(l)' = Holding(l)
    BY <1>1, <2>1 DEF ResolveFailed, ResolveCancelled, Resolved, Spawn, Register, SpawnFails
  <2> QED
    BY <2>1, <2>2, SameHolders
<1>2. CASE ResolveFails(k) \/ Cancelled(k) \/ SpawnFailed(k)
  <2>1. /\ UNCHANGED <<inst, changing, finAt>> /\ active' = active \ {inst[k]}
        /\ stage[k] \in {"resolving", "cancelling", "unwinding"}
        /\ stage'[k] \in {"failing", "over"}
        /\ \A l \in Keys \ {k} : stage'[l] = stage[l]
    BY <1>2 DEF ResolveFails, Cancelled, SpawnFailed
  <2>2. finAt[k] = "none"
    BY <2>1 DEF LaunchOrder, Ended
  <2>3. Holding(k) /\ ~Holding(k)'
    BY <2>1, <2>2
  <2>4. \A l \in Keys \ {k} : Holding(l)' = Holding(l)
    BY <2>1
  <2> QED
    BY <2>1, <2>3, <2>4, HolderLeaves
<1> QED
  BY <1>1, <1>2 DEF RunLaunch

LEMMA FinalizerHolds ==
  ASSUME Inv, NEW k \in Keys, Finalizer(k)
  PROVE  OneHolder'
<1> USE DEF Inv, Typed, TypeOK, Holding, launchVars
<1>1. CASE FinalizeFreed(k)
  <2>1. Holding(k) /\ ~Holding(k)' /\ \A l \in Keys \ {k} : Holding(l)' = Holding(l)
    BY <1>1 DEF FinalizeFreed, LaunchOrder, Ended
  <2> QED
    BY <1>1, <2>1, HolderLeaves DEF FinalizeFreed
<1>2. CASE Finalizer(k) /\ ~FinalizeFreed(k)
  <2>1. UNCHANGED <<inst, stage, active, changing>>
    BY <1>2 DEF Finalizer, FinalizeReturns, FinalizeSeen, FinalizeCleared,
       FinalizeAnnounced, engineVars
  <2>2. \A l \in Keys : finAt'[l] \in {"freed", "done"} <=> finAt[l] \in {"freed", "done"}
    <3>1. ASSUME NEW c \in Callers, FinalizeReturns(c, k)
          PROVE  finAt' = finAt
      BY <3>1 DEF FinalizeReturns
    <3>2. ASSUME NEW c \in Callers, FinalizeSeen(c, k)
          PROVE  finAt[k] = "none" /\ finAt' = [finAt EXCEPT ![k] = "seen"]
      BY <3>2 DEF FinalizeSeen, FirstToEnd, LaunchOrder, Ended
    <3> QED
      BY <1>2, <3>1, <3>2 DEF Finalizer, FinalizeCleared, FinalizeAnnounced
  <2>3. \A l \in Keys : Holding(l)' = Holding(l)
    BY <2>1, <2>2
  <2> QED
    BY <2>1, <2>3, SameHolders
<1> QED
  BY <1>1, <1>2

LEMMA HolderStep == Inv /\ [SessionNext]_vars => OneHolder'
<1> SUFFICES ASSUME Inv, [SessionNext]_vars
             PROVE  OneHolder'
  OBVIOUS
<1>1. ASSUME UNCHANGED <<inst, stage, active, changing, finAt>>
      PROVE  OneHolder'
  <2>1. \A k \in Keys : Holding(k)' = Holding(k) /\ inst'[k] = inst[k]
    BY <1>1 DEF Holding
  <2> QED
    BY <1>1, <2>1, SameHolders DEF Inv
<1> USE DEF launchVars, gameVars, engineVars, bufferVars, exitVars
<1>2. ASSUME NEW k \in Keys, GameEnds(k) \/ Watchers(k)
      PROVE  OneHolder'
  BY <1>1, <1>2 DEF GameEnds, Watchers, MonitorSeesExit, WaitFails, MarkerSeen, OnMarker
<1>3. CASE ListLaunches
  BY <1>1, <1>3 DEF ListLaunches
<1>4. ASSUME NEW r \in Stops, StopRequest(r)
      PROVE  OneHolder'
  BY <1>1, <1>4 DEF StopRequest, StopCalled, StopCheck, StopLookup, StopPending,
     StopKill, StopReap, StopReply
<1>5. ASSUME NEW k \in Keys, TrainDeferred(k)
      PROVE  OneHolder'
  BY <1>1, <1>5 DEF TrainDeferred
<1>6. ASSUME NEW n \in Names, TrainPicks(n)
      PROVE  OneHolder'
  BY <1>1, <1>6 DEF TrainPicks
<1>7. CASE UNCHANGED vars
  BY <1>1, <1>7 DEF vars
<1> QED
  BY <1>2, <1>3, <1>4, <1>5, <1>6, <1>7, HolderComes, ChangeHolds, LaunchHolds,
     FinalizerHolds
  DEF SessionNext

-----------------------------------------------------------------------------
(* The results.                                                            *)

LEMMA InvStep == Inv /\ [SessionNext]_vars => Inv'
BY TypedStep, OrderStep, CallsStep, RunningStep, HolderStep DEF Inv, RunningRight

\* Inv keeps the instances, the running map and the launches' control states
\* consistent whatever the finalizers, sweeps, stops and launches race.
LEMMA SessionInv == SessionSpec => []Inv
BY InvInit, InvStep, PTL DEF SessionSpec

\* However many finalizers, sweeps and cancellations race, an instance is
\* active exactly while one launch or one version change holds it.
THEOREM SessionOneHolder == SessionSpec => []OneHolder
BY SessionInv, PTL DEF Inv

\* Two games of one instance are never alive together, and none is while its
\* version is being changed, but for games the wait for which failed.
THEOREM SessionOneGame == SessionSpec => []OneGame
<1>1. Inv => OneGame
  <2> SUFFICES ASSUME Inv, NEW k \in Keys, Tracked(k)
               PROVE  /\ inst[k] \in active \ changing
                      /\ \A l \in Keys \ {k} : Tracked(l) => inst[l] # inst[k]
    BY DEF OneGame
  <2> QED
    BY LivingHolds DEF Inv, OneHolder
<1> QED
  BY <1>1, SessionInv, PTL

\* A registered game is the one its session record names: no exit, late menu
\* marker or second launch of the instance takes the record from under it.
THEOREM SessionRecorded == SessionSpec => []RunningIsRecorded
<1>1. Inv => RunningIsRecorded
  BY DEF Inv, Typed, TypeOK, RunningEntries, RunningIsRecorded
<1> QED
  BY <1>1, SessionInv, PTL

\* A living game that run_launch has returned from has its running entry, so
\* a stop request finds it, unless the wait for it failed.
THEOREM SessionStoppable == SessionSpec => []LiveGameIsStoppable
BY SessionInv, PTL DEF Inv

\* Neither the presence refcount nor the agent registry keeps a launch that
\* is over, on any of the ways it can end.
THEOREM SessionNoLeak == SessionSpec => []NoLeakedRegistration
<1>1. Inv => NoLeakedRegistration
  BY DEF Inv, Typed, TypeOK, LaunchOrder, Ended, Holding, NoLeakedRegistration
<1> QED
  BY <1>1, SessionInv, PTL

\* Every launch announces its end at most once, and only when its game is
\* gone or its wait failed, its buffer is finished and its instance is free.
THEOREM SessionOneExit == SessionSpec => []OneExit
<1>1. Inv => OneExit
  BY DEF Inv, Typed, TypeOK, LaunchOrder, Holding, OneExit, Ended, Tracked
<1> QED
  BY <1>1, SessionInv, PTL

-----------------------------------------------------------------------------
(* The refinement. Held, Phase and Games are the mapping of Lifecycle.     *)

Held  == [n \in Names |-> HolderOf(n)]
Phase == [k \in Keys |-> PhaseOf(k)]
Games == {k \in Keys : Tracked(k)}
view  == <<Held, Phase, Games>>

\* The CHOOSE in HolderOf has at most one launch to choose from.
HolderKnown ==
  \A n \in Names :
    /\ n \in changing => HolderOf(n) = Change
    /\ \A k \in Keys : inst[k] = n /\ Holding(k) => HolderOf(n) = k
    /\ n \notin active => HolderOf(n) = None

LEMMA KnownHolder == OneHolder => HolderKnown
<1> SUFFICES ASSUME OneHolder, NEW n \in Names
             PROVE  /\ n \in changing => HolderOf(n) = Change
                    /\ \A k \in Keys : inst[k] = n /\ Holding(k) => HolderOf(n) = k
                    /\ n \notin active => HolderOf(n) = None
  BY DEF HolderKnown
<1>1. n \in changing => HolderOf(n) = Change
  BY DEF HolderOf
<1>2. ASSUME NEW k \in Keys, inst[k] = n, Holding(k)
      PROVE  HolderOf(n) = k
  <2>1. HolderOf(n) = CHOOSE l \in Keys : inst[l] = n /\ Holding(l)
    BY <1>2 DEF HolderOf, OneHolder
  <2>2. \A l \in Keys : inst[l] = n /\ Holding(l) => l = k
    BY <1>2 DEF OneHolder
  <2> QED
    BY <1>2, <2>1, <2>2
<1>3. n \notin active => HolderOf(n) = None
  BY DEF HolderOf, OneHolder
<1> QED
  BY <1>1, <1>2, <1>3

LEMMA KnownHolderNext == OneHolder' => HolderKnown'
BY KnownHolder, PTL

\* An instance the step does not concern keeps its holder.
LEMMA HolderKept ==
  ASSUME Inv, Inv', NEW n \in Names, n \in changing' <=> n \in changing,
         \A k \in Keys : inst'[k] = n /\ Holding(k)' <=> inst[k] = n /\ Holding(k)
  PROVE  HolderOf(n)' = HolderOf(n)
<1>1. HolderKnown /\ HolderKnown'
  BY KnownHolder, KnownHolderNext DEF Inv
<1>2. CASE n \in changing
  BY <1>1, <1>2 DEF HolderKnown
<1>3. CASE \E k \in Keys : inst[k] = n /\ Holding(k)
  BY <1>1, <1>3 DEF HolderKnown
<1>4. CASE n \notin changing /\ ~\E k \in Keys : inst[k] = n /\ Holding(k)
  <2>1. n \notin active /\ n \notin active'
    BY <1>4 DEF Inv, OneHolder
  <2> QED
    BY <1>1, <2>1 DEF HolderKnown
<1> QED
  BY <1>2, <1>3, <1>4

LEMMA PhaseKept ==
  ASSUME NEW k \in Keys, inst'[k] = inst[k], exits'[k] = exits[k],
         Holding(k)' = Holding(k), proc'[k] = "none" <=> proc[k] = "none"
  PROVE  PhaseOf(k)' = PhaseOf(k)
BY DEF PhaseOf

\* A step that moves no game, holder or launch event is a stutter.
LEMMA Unseen ==
  ASSUME Inv, Inv', UNCHANGED <<inst, exits, proc, mon, changing>>,
         \A k \in Keys : Holding(k)' = Holding(k)
  PROVE  UNCHANGED view
<1>1. \A n \in Names : HolderOf(n)' = HolderOf(n)
  BY HolderKept
<1>2. \A k \in Keys : PhaseOf(k)' = PhaseOf(k)
  BY PhaseKept
<1>3. Held' = Held /\ Phase' = Phase
  BY <1>1, <1>2 DEF Held, Phase
<1>4. Games' = Games
  BY DEF Games, Tracked
<1> QED
  BY <1>3, <1>4 DEF view

\* A launch ends: it alone leaves its instance, its phase alone changes.
LEMMA Ends ==
  ASSUME Inv, Inv', NEW k \in Keys, Holding(k), ~Holding(k)', ~Tracked(k),
         UNCHANGED <<inst, proc, mon, changing>>, inst[k] \notin active',
         exits[k] = 0, exits'[k] \in {0, 1},
         \A l \in Keys \ {k} : Holding(l)' = Holding(l) /\ exits'[l] = exits[l]
  PROVE  Lifecycle!End(k, inst[k])
<1>1. inst[k] \in Names /\ inst[k] # None
  BY NoneAssumption DEF Inv, Typed, TypeOK, LaunchOrder, Ended, Holding
<1>2. Held[inst[k]] = k /\ Held'[inst[k]] = None
  BY <1>1, KnownHolder, KnownHolderNext DEF Inv, HolderKnown, Held
<1>3. \A n \in Names \ {inst[k]} : HolderOf(n)' = HolderOf(n)
  BY HolderKept
<1>4. Held' = [Held EXCEPT ![inst[k]] = None]
  BY <1>1, <1>2, <1>3 DEF Held
<1>5. PhaseOf(k) \in {"preparing", "playing"} /\ PhaseOf(k)' \in {"ended", "announced"}
  BY <1>1 DEF PhaseOf
<1>6. \A l \in Keys \ {k} : PhaseOf(l)' = PhaseOf(l)
  BY PhaseKept
<1>7. Phase' = [Phase EXCEPT ![k] = PhaseOf(k)'] /\ Phase[k] = PhaseOf(k)
  BY <1>6 DEF Phase
<1>8. Games' = Games /\ k \notin Games
  BY DEF Games, Tracked
<1> QED
  BY <1>2, <1>4, <1>5, <1>7, <1>8 DEF Lifecycle!End, Lifecycle!Holds, Held, Phase, Games

\* launch_instance takes a free instance for a new launch.
LEMMA Begins ==
  ASSUME Inv, Inv', NEW k \in Keys, NEW n \in Names, NEW a \in Modes, LaunchInstance(k, n, a)
  PROVE  Lifecycle!Begin(k, n)
<1>1. /\ inst[k] = None /\ stage[k] = "unborn" /\ stage' = [stage EXCEPT ![k] = "resolving"]
      /\ inst' = [inst EXCEPT ![k] = n] /\ n \notin active
      /\ UNCHANGED <<finAt, proc, mon, exits, changing>>
  BY DEF LaunchInstance, GoTo, FreeInstance, exitVars, gameVars
<1>2. inst'[k] = n /\ finAt[k] = "none" /\ exits[k] = 0 /\ proc[k] = "none" /\ n # None
  BY <1>1, NoneAssumption DEF Inv, Typed, TypeOK, LaunchOrder, Ended
<1>3. ~Holding(k) /\ Holding(k)'
  BY <1>1, <1>2 DEF Inv, Typed, TypeOK, Holding
<1>4. \A l \in Keys \ {k} : Holding(l)' = Holding(l) /\ inst'[l] = inst[l]
  BY <1>1 DEF Inv, Typed, TypeOK, Holding
<1>5. HolderOf(n) = None /\ HolderOf(n)' = k
  BY <1>1, <1>2, <1>3, KnownHolder, KnownHolderNext DEF Inv, HolderKnown
<1>6. \A m \in Names \ {n} : HolderOf(m)' = HolderOf(m)
  BY <1>1, <1>2, <1>3, <1>4, HolderKept
<1>7. PhaseOf(k) = "unborn" /\ PhaseOf(k)' = "preparing"
  BY <1>1, <1>2, <1>3 DEF PhaseOf
<1>8. \A l \in Keys \ {k} : PhaseOf(l)' = PhaseOf(l)
  BY <1>1, <1>4, PhaseKept
<1>9. Held' = [Held EXCEPT ![n] = k] /\ Phase' = [Phase EXCEPT ![k] = "preparing"]
  BY <1>5, <1>6, <1>7, <1>8 DEF Held, Phase
<1>10. Games' = Games
  BY <1>1 DEF Games, Tracked
<1> QED
  BY <1>1, <1>5, <1>7, <1>9, <1>10 DEF Lifecycle!Begin, Held, Phase, Games

\* A launch that has let its instance go is announced over.
LEMMA Announces ==
  ASSUME Inv, Inv', NEW k \in Keys, inst[k] # None, ~Holding(k), exits[k] = 0,
         exits'[k] = 1, UNCHANGED <<inst, proc, mon, changing>>,
         \A l \in Keys : Holding(l)' = Holding(l),
         \A l \in Keys \ {k} : exits'[l] = exits[l]
  PROVE  Lifecycle!Announce(k)
<1>1. \A n \in Names : HolderOf(n)' = HolderOf(n)
  BY HolderKept
<1>2. PhaseOf(k) = "ended" /\ PhaseOf(k)' = "announced"
  BY DEF PhaseOf
<1>3. \A l \in Keys \ {k} : PhaseOf(l)' = PhaseOf(l)
  BY PhaseKept
<1>4. Held' = Held /\ Phase' = [Phase EXCEPT ![k] = "announced"] /\ Games' = Games
  BY <1>1, <1>2, <1>3 DEF Held, Phase, Games, Tracked
<1> QED
  BY <1>2, <1>4 DEF Lifecycle!Announce, Held, Phase, Games

\* A game starts: its launch holds the instance and no finalizer has seen it.
LEMMA Plays ==
  ASSUME Inv, Inv', NEW k \in Keys, Spawn(k)
  PROVE  Lifecycle!Play(k)
<1>1. /\ stage[k] = "starting" /\ stage' = [stage EXCEPT ![k] = "spawned"]
      /\ proc' = [proc EXCEPT ![k] = "alive"] /\ mon' = [mon EXCEPT ![k] = "watching"]
      /\ UNCHANGED <<inst, finAt, exits, changing>>
  BY DEF Spawn, GoTo, exitVars
<1>2. inst[k] # None /\ finAt[k] = "none" /\ exits[k] = 0 /\ proc[k] = "none" /\ proc'[k] = "alive"
  BY <1>1 DEF Inv, Typed, TypeOK, LaunchOrder, Ended
<1>3. Holding(k) /\ \A l \in Keys : Holding(l)' = Holding(l)
  BY <1>1, <1>2 DEF Inv, Typed, TypeOK, Holding
<1>4. \A n \in Names : HolderOf(n)' = HolderOf(n)
  BY <1>1, <1>3, HolderKept
<1>5. PhaseOf(k) = "preparing" /\ PhaseOf(k)' = "playing"
  BY <1>1, <1>2, <1>3 DEF PhaseOf
<1>6. \A l \in Keys \ {k} : PhaseOf(l)' = PhaseOf(l)
  BY <1>1, <1>3, PhaseKept DEF Inv, Typed, TypeOK
<1>7. Held' = Held /\ Phase' = [Phase EXCEPT ![k] = "playing"]
  BY <1>4, <1>5, <1>6 DEF Held, Phase
<1>8. Games' = Games \cup {k}
  BY <1>1 DEF Games, Tracked, Inv, Typed, TypeOK
<1> QED
  BY <1>5, <1>7, <1>8 DEF Lifecycle!Play, Held, Phase, Games

\* A game that ends, by itself or killed, or that is not followed any more
\* lets go of nothing yet.
LEMMA Quits ==
  ASSUME Inv, Inv', NEW k \in Keys, UNCHANGED <<inst, stage, finAt, exits, changing>>,
         \A l \in Keys : proc'[l] = "none" <=> proc[l] = "none",
         \A l \in Keys \ {k} : Tracked(l)' <=> Tracked(l),
         Tracked(k)' => Tracked(k)
  PROVE  Lifecycle!Quit(k) \/ UNCHANGED view
<1>1. \A l \in Keys : Holding(l)' = Holding(l)
  BY DEF Holding
<1>2. \A n \in Names : HolderOf(n)' = HolderOf(n)
  BY <1>1, HolderKept
<1>3. \A l \in Keys : PhaseOf(l)' = PhaseOf(l)
  BY <1>1, PhaseKept
<1>4. Held' = Held /\ Phase' = Phase
  BY <1>2, <1>3 DEF Held, Phase
<1>5. CASE Tracked(k) /\ ~Tracked(k)'
  <2>1. k \in Games /\ Games' = Games \ {k}
    BY <1>5 DEF Games
  <2> QED
    BY <1>4, <2>1 DEF Lifecycle!Quit, Held, Phase, Games
<1>6. CASE Tracked(k)' <=> Tracked(k)
  <2>1. Games' = Games
    BY <1>6 DEF Games
  <2> QED
    BY <1>4, <2>1 DEF view
<1> QED
  BY <1>5, <1>6

\* A version change takes a free instance and gives it back.
LEMMA Changes ==
  ASSUME Inv, Inv', NEW n \in Names, ChangeBegins(n) \/ ChangeEnds(n)
  PROVE  Lifecycle!BeginChange(n) \/ Lifecycle!EndChange(n)
<1>1. UNCHANGED <<inst, stage, finAt, exits, proc, mon>>
  BY DEF ChangeBegins, ChangeEnds, launchVars, exitVars, gameVars
<1>2. \A k \in Keys : Holding(k)' = Holding(k)
  BY <1>1 DEF Holding
<1>3. \A m \in Names \ {n} : HolderOf(m)' = HolderOf(m)
  BY <1>1, <1>2, HolderKept DEF ChangeBegins, ChangeEnds
<1>4. \A k \in Keys : PhaseOf(k)' = PhaseOf(k)
  BY <1>1, <1>2, PhaseKept
<1>5. Phase' = Phase /\ Games' = Games
  BY <1>1, <1>4 DEF Phase, Games, Tracked
<1>6. HolderKnown /\ HolderKnown'
  BY KnownHolder, KnownHolderNext DEF Inv
<1>7. CASE ChangeBegins(n)
  <2>1. Held[n] = None /\ Held' = [Held EXCEPT ![n] = Change]
    BY <1>3, <1>6, <1>7 DEF ChangeBegins, FreeInstance, HolderKnown, Held
  <2> QED
    BY <1>5, <2>1 DEF Lifecycle!BeginChange, Held, Phase, Games
<1>8. CASE ChangeEnds(n)
  <2>1. Held[n] = Change /\ Held' = [Held EXCEPT ![n] = None]
    BY <1>3, <1>6, <1>8 DEF ChangeEnds, HolderKnown, Held
  <2> QED
    BY <1>5, <2>1 DEF Lifecycle!EndChange, Held, Phase, Games
<1> QED
  BY <1>7, <1>8

LEMMA LaunchMaps ==
  ASSUME Inv, Inv', NEW k \in Keys, RunLaunch(k)
  PROVE  Lifecycle!Next \/ UNCHANGED view
<1> USE DEF GoTo, exitVars, gameVars, bufferVars
<1>1. CASE ResolveFails(k) \/ Cancelled(k) \/ SpawnFailed(k)
  <2>1. /\ UNCHANGED <<inst, changing, finAt, proc, mon>> /\ active' = active \ {inst[k]}
        /\ stage[k] \in {"resolving", "cancelling", "unwinding"}
        /\ stage'[k] \in {"failing", "over"}
        /\ exits' = exits \/ EmitExit(k)
        /\ \A l \in Keys \ {k} : stage'[l] = stage[l]
    BY <1>1 DEF ResolveFails, Cancelled, SpawnFailed, Inv, Typed, TypeOK
  <2>2. finAt[k] = "none" /\ exits[k] = 0 /\ proc[k] = "none" /\ inst[k] \in Names
    BY <2>1, NoneAssumption DEF Inv, Typed, TypeOK, LaunchOrder, Ended
  <2>3. Holding(k) /\ ~Holding(k)' /\ inst[k] \notin active' /\ ~Tracked(k)
    BY <2>1, <2>2 DEF Holding, Tracked
  <2>4. exits'[k] \in {0, 1} /\ \A l \in Keys \ {k} : exits'[l] = exits[l]
    BY <2>1, <2>2 DEF EmitExit, Inv, Typed, TypeOK
  <2>5. \A l \in Keys \ {k} : Holding(l)' = Holding(l)
    BY <2>1 DEF Holding
  <2>6. Lifecycle!End(k, inst[k])
    BY <2>1, <2>2, <2>3, <2>4, <2>5, Ends
  <2> QED
    BY <2>2, <2>6 DEF Lifecycle!Next
<1>2. CASE ResolveFailed(k)
  <2>1. /\ UNCHANGED <<inst, changing, finAt, proc, mon>> /\ EmitExit(k)
        /\ stage[k] = "failing" /\ stage' = [stage EXCEPT ![k] = "over"]
    BY <1>2 DEF ResolveFailed
  <2>2. inst[k] # None /\ exits[k] = 0
    BY <2>1 DEF Inv, Typed, TypeOK, LaunchOrder, Ended
  <2>3. ~Holding(k) /\ \A l \in Keys : Holding(l)' = Holding(l)
    BY <2>1 DEF Holding, Inv, Typed, TypeOK
  <2>4. exits'[k] = 1 /\ \A l \in Keys \ {k} : exits'[l] = exits[l]
    BY <2>1, <2>2 DEF EmitExit, Inv, Typed, TypeOK
  <2> QED
    BY <2>1, <2>2, <2>3, <2>4, Announces DEF Lifecycle!Next
<1>3. CASE Spawn(k)
  BY <1>3, Plays DEF Lifecycle!Next
<1>4. CASE ResolveCancelled(k) \/ Resolved(k) \/ Register(k) \/ SpawnFails(k)
  <2>1. UNCHANGED <<inst, exits, proc, mon, changing, finAt>>
    BY <1>4 DEF ResolveCancelled, Resolved, Register, SpawnFails
  <2>2. \A l \in Keys : Holding(l)' = Holding(l)
    BY <1>4, <2>1 DEF ResolveCancelled, Resolved, Register, SpawnFails, Holding,
       Inv, Typed, TypeOK
  <2> QED
    BY <2>1, <2>2, Unseen
<1> QED
  BY <1>1, <1>2, <1>3, <1>4 DEF RunLaunch

LEMMA FinalizerMaps ==
  ASSUME Inv, Inv', NEW k \in Keys, Finalizer(k)
  PROVE  Lifecycle!Next \/ UNCHANGED view
<1> USE DEF launchVars, gameVars
<1>1. CASE FinalizeFreed(k)
  <2>1. /\ UNCHANGED <<inst, stage, proc, mon, changing, exits>>
        /\ active' = active \ {inst[k]}
        /\ finAt[k] = "cleared" /\ finAt' = [finAt EXCEPT ![k] = "freed"]
    BY <1>1 DEF FinalizeFreed
  <2>2. /\ ~Tracked(k) /\ exits[k] = 0 /\ stage[k] \in {"spawned", "done"}
        /\ inst[k] \in Names
    BY <2>1, NoneAssumption DEF Inv, Typed, TypeOK, LaunchOrder, Ended, Tracked
  <2>3. Holding(k) /\ ~Holding(k)' /\ inst[k] \notin active'
    BY <2>1, <2>2 DEF Holding, Inv, Typed, TypeOK
  <2>4. \A l \in Keys \ {k} : Holding(l)' = Holding(l) /\ exits'[l] = exits[l]
    BY <2>1 DEF Holding, Inv, Typed, TypeOK
  <2>5. Lifecycle!End(k, inst[k])
    BY <2>1, <2>2, <2>3, <2>4, Ends
  <2> QED
    BY <2>2, <2>5 DEF Lifecycle!Next
<1>2. CASE FinalizeAnnounced(k)
  <2>1. /\ UNCHANGED <<inst, stage, proc, mon, changing>> /\ EmitExit(k)
        /\ finAt[k] = "freed" /\ finAt' = [finAt EXCEPT ![k] = "done"]
    BY <1>2 DEF FinalizeAnnounced
  <2>2. exits[k] = 0 /\ inst[k] # None
    BY <2>1 DEF Inv, Typed, TypeOK, LaunchOrder, Ended
  <2>3. ~Holding(k) /\ \A l \in Keys : Holding(l)' = Holding(l)
    BY <2>1 DEF Holding, Inv, Typed, TypeOK
  <2>4. exits'[k] = 1 /\ \A l \in Keys \ {k} : exits'[l] = exits[l]
    BY <2>1, <2>2 DEF EmitExit, Inv, Typed, TypeOK
  <2> QED
    BY <2>1, <2>2, <2>3, <2>4, Announces DEF Lifecycle!Next
<1>3. ASSUME UNCHANGED <<inst, stage, proc, mon, exits, changing>>,
             \A l \in Keys : finAt'[l] \in {"freed", "done"} <=> finAt[l] \in {"freed", "done"}
      PROVE  UNCHANGED view
  <2>1. \A l \in Keys : Holding(l)' = Holding(l)
    BY <1>3 DEF Holding
  <2> QED
    BY <1>3, <2>1, Unseen
<1>4. CASE FinalizeCleared(k)
  BY <1>3, <1>4 DEF FinalizeCleared, Inv, Typed, TypeOK
<1>5. ASSUME NEW c \in Callers, FinalizeReturns(c, k)
      PROVE  UNCHANGED view
  BY <1>3, <1>5 DEF FinalizeReturns
<1>6. ASSUME NEW c \in Callers, FinalizeSeen(c, k)
      PROVE  UNCHANGED view
  <2>1. finAt[k] = "none"
    BY <1>6 DEF FinalizeSeen, FirstToEnd, Inv, LaunchOrder, Ended
  <2> QED
    BY <1>3, <1>6, <2>1 DEF FinalizeSeen, Inv, Typed, TypeOK
<1> QED
  BY <1>1, <1>2, <1>4, <1>5, <1>6 DEF Finalizer

LEMMA StopMaps ==
  ASSUME Inv, Inv', NEW r \in Stops, StopRequest(r)
  PROVE  Lifecycle!Next \/ UNCHANGED view
<1> USE DEF launchVars, gameVars, exitVars
<1>1. CASE StopKill(r)
  <2>1. stopTarget[r] \in Keys /\ UNCHANGED <<inst, stage, mon, finAt, exits, changing>>
    BY <1>1 DEF StopKill, StopAt, Inv, Typed, StopsNamed
  <2>2. CASE ~Gone(stopTarget[r]) /\ proc' = [proc EXCEPT ![stopTarget[r]] = "dead"]
    BY <2>1, <2>2, Quits DEF Lifecycle!Next, Gone, Tracked, Inv, Typed, TypeOK
  <2>3. CASE UNCHANGED proc
    <3>1. \A k \in Keys : Holding(k)' = Holding(k)
      BY <2>1 DEF Holding
    <3> QED
      BY <2>1, <2>3, <3>1, Unseen
  <2> QED
    BY <1>1, <2>2, <2>3 DEF StopKill
<1>2. CASE StopRequest(r) /\ ~StopKill(r)
  <2>1. UNCHANGED <<inst, stage, finAt, exits, proc, mon, changing>>
    BY <1>2 DEF StopRequest, StopCalled, StopCheck, StopLookup, StopPending,
       StopReap, StopReply
  <2>2. \A k \in Keys : Holding(k)' = Holding(k)
    BY <2>1 DEF Holding
  <2> QED
    BY <2>1, <2>2, Unseen
<1> QED
  BY <1>1, <1>2

LEMMA MapsStep == Inv /\ Inv' /\ [SessionNext]_vars => [Lifecycle!Next]_view
<1> SUFFICES ASSUME Inv, Inv', [SessionNext]_vars
             PROVE  Lifecycle!Next \/ UNCHANGED view
  OBVIOUS
<1> USE DEF launchVars, gameVars, exitVars
<1>1. ASSUME UNCHANGED <<inst, stage, finAt, exits, proc, mon, changing>>
      PROVE  UNCHANGED view
  <2>1. \A k \in Keys : Holding(k)' = Holding(k)
    BY <1>1 DEF Holding
  <2> QED
    BY <1>1, <2>1, Unseen
<1>2. ASSUME NEW k \in Keys, NEW n \in Names, NEW a \in Modes, LaunchInstance(k, n, a)
      PROVE  Lifecycle!Next
  BY <1>2, Begins DEF Lifecycle!Next
<1>3. ASSUME NEW k \in Keys, GameEnds(k) \/ MonitorSeesExit(k) \/ WaitFails(k)
      PROVE  Lifecycle!Next \/ UNCHANGED view
  <2>1. /\ UNCHANGED <<inst, stage, finAt, exits, changing>>
        /\ \A l \in Keys : proc'[l] = "none" <=> proc[l] = "none"
        /\ \A l \in Keys \ {k} : proc'[l] = proc[l] /\ mon'[l] = mon[l]
        /\ Tracked(k)' => Tracked(k)
    BY <1>3 DEF GameEnds, MonitorSeesExit, WaitFails, Tracked, Inv, Typed, TypeOK
  <2> QED
    BY <2>1, Quits DEF Lifecycle!Next, Tracked
<1>4. ASSUME NEW k \in Keys, Watchers(k)
      PROVE  Lifecycle!Next \/ UNCHANGED view
  BY <1>1, <1>3, <1>4 DEF Watchers, MarkerSeen, OnMarker
<1>5. CASE ListLaunches
  BY <1>1, <1>5 DEF ListLaunches
<1>6. ASSUME NEW k \in Keys, TrainDeferred(k)
      PROVE  UNCHANGED view
  BY <1>1, <1>6 DEF TrainDeferred
<1>7. ASSUME NEW n \in Names, TrainPicks(n)
      PROVE  UNCHANGED view
  BY <1>1, <1>7 DEF TrainPicks
<1>8. ASSUME NEW n \in Names, ChangeBegins(n) \/ ChangeEnds(n)
      PROVE  Lifecycle!Next
  BY <1>8, Changes DEF Lifecycle!Next
<1>9. CASE UNCHANGED vars
  BY <1>1, <1>9 DEF vars
<1> QED
  BY <1>2, <1>3, <1>4, <1>5, <1>6, <1>7, <1>8, <1>9, LaunchMaps, FinalizerMaps,
     StopMaps
  DEF SessionNext

LEMMA MapsInit == Init => Lifecycle!Init
<1> SUFFICES ASSUME Init
             PROVE  Lifecycle!Init
  OBVIOUS
<1>1. \A n \in Names : HolderOf(n) = None
  BY DEF Init, HolderOf, Holding
<1>2. \A k \in Keys : PhaseOf(k) = "unborn"
  BY DEF Init, PhaseOf
<1> QED
  BY <1>1, <1>2 DEF Lifecycle!Init, Init, Tracked

\* The engine's locks, threads and maps implement the promised lifecycle: an
\* instance has one holder, a launch lets go of it only after its game, and
\* its end is announced once and last.
THEOREM SessionRefines == SessionSpec => ImplementsLifecycle
<1>1. Inv /\ Inv' /\ [SessionNext]_vars =>
        [Lifecycle!Next]_<<[n \in Names |-> HolderOf(n)], [k \in Keys |-> PhaseOf(k)],
                           {k \in Keys : Tracked(k)}>>
  BY MapsStep DEF view, Held, Phase, Games
<1> QED
  BY <1>1, MapsInit, SessionInv, PTL DEF SessionSpec, ImplementsLifecycle, Lifecycle!Spec
=============================================================================
