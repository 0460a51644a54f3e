------------------------ MODULE SingleInstanceProofs ------------------------
(***************************************************************************)
(* Proofs that one guarded copy of the launcher works on the data          *)
(* directory, that ui.port names it, and that an acknowledged launch is    *)
(* imported or queued, for any number of copies, attempts, connections and *)
(* kills.                                                                  *)
(***************************************************************************)
EXTENDS SingleInstance, TLAPS

-----------------------------------------------------------------------------
(* Typing.  A copy never connects more often than its runs of acquire let  *)
(* it, and what is connected to is a copy.                                 *)

Limit(p) == IF p \in offered THEN 2 * MaxTries ELSE MaxTries

Bounded ==
    \A p \in Procs :
        /\ tries[p] <= Limit(p)
        /\ at[p] \in {"try", "read", "forward"} => tries[p] < Limit(p)
        /\ at[p] = "off" => tries[p] = 0 /\ p \notin offered
        /\ at[p] \in {"await", "forwarded"} => tries[p] >= 1

Addressed ==
    /\ \A p \in Procs : at[p] = "forward" => pid[p] \in Procs
    /\ \A a \in Attempts : conn[a] # "none" => to[a] \in Procs

Typed == TypeOK /\ Bounded /\ Addressed

LEMMA Numbers == MaxTries \in Nat /\ MaxTries > 0 /\ MaxConns \in Nat /\ MaxKills \in Nat
BY SingleAssumption DEF SingleAssumption

LEMMA TypedInit == Init => Typed
BY Numbers, SingleAssumption
   DEF Init, Typed, TypeOK, Bounded, Addressed, Limit, SingleAssumption, Phases, Waiting, ConnStates

LEMMA EndsTyped ==
    ASSUME TypeOK, Addressed, NEW p \in Procs, ProcessEnds(p)
    PROVE  /\ lock' \in Procs \cup {None} /\ portFile' \in Procs \cup {None}
           /\ state' \in [Procs -> {"none", "Starting", "Running", "Closing"}]
           /\ engine' \subseteq Procs /\ lost' \subseteq Attempts /\ posted' \subseteq Attempts
           /\ queued' \in [Procs -> SUBSET Attempts]
           /\ conn' \in [Attempts -> ConnStates]
           /\ guarded' = guarded /\ to' = to /\ imported' = imported
           /\ \A a \in Attempts : conn'[a] # "none" => to'[a] \in Procs
BY DEF TypeOK, Addressed, ProcessEnds, FileLeft, ConnStates

LEMMA TypedClient == ASSUME Typed, NEW p \in Procs, ClientStep(p) PROVE Typed'
<1> USE Numbers DEF Typed, TypeOK, Bounded, Addressed, Limit, Phases, Waiting, Goto,
                    fileVars, connVars, clientVars
<1>1. CASE TakesLock(p) \/ LockIsHeld(p) \/ LockUnusable(p) \/ BindFails(p)
  BY <1>1 DEF TakesLock, LockIsHeld, LockUnusable, BindFails
<1>2. CASE BecomesPrimary(p)
  BY <1>2 DEF BecomesPrimary
<1>3. CASE ReadsPortFile(p)
  BY <1>3 DEF ReadsPortFile
<1>4. CASE Connects(p)
  <2>1. tries' \in [Procs -> 0..(2 * MaxTries)] /\ pid[p] \in Procs
    BY <1>4 DEF Connects
  <2>2. conn' \in [Attempts -> ConnStates] /\ to' \in [Attempts -> Procs \cup {None}]
    BY <1>4, <2>1 DEF Connects, ConnStates
  <2>3. ASSUME NEW a \in Attempts, conn'[a] # "none"
        PROVE  to'[a] \in Procs
    <3>1. CASE a = <<p, tries[p] + 1>> /\ Listening(pid[p])
      BY <1>4, <2>1, <2>3, <3>1 DEF Connects
    <3>2. CASE ~(a = <<p, tries[p] + 1>> /\ Listening(pid[p]))
      <4>1. conn'[a] = conn[a] /\ to'[a] = to[a]
        BY <1>4, <3>2 DEF Connects
      <4> QED
        BY <2>3, <4>1
    <3> QED
      BY <3>1, <3>2
  <2> QED
    BY <1>4, <2>1, <2>2, <2>3 DEF Connects
<1>5. CASE AnsweredOk(p) \/ NotTaken(p) \/ Retries(p) \/ DeadlinePasses(p) \/ GivesUp(p)
  BY <1>5 DEF AnsweredOk, NotTaken, Retries, TriesLeft, DeadlinePasses, GivesUp
<1>6. CASE KillsHolder(p)
  <2>1. pid[p] \in Procs /\ ProcessEnds(pid[p])
    BY <1>6, SingleAssumption DEF KillsHolder, SingleAssumption
  <2> QED
    BY <1>6, <2>1, EndsTyped DEF KillsHolder
<1> QED
  BY <1>1, <1>2, <1>3, <1>4, <1>5, <1>6 DEF ClientStep

LEMMA TypedMain == ASSUME Typed, NEW p \in Procs, MainStep(p) \/ Start(p) \/ Killed(p) PROVE Typed'
<1> USE Numbers DEF Typed, TypeOK, Bounded, Addressed, Limit, Phases, Waiting, Goto,
                    fileVars, connVars, clientVars
<1>1. CASE Start(p) \/ EngineStarts(p) \/ EngineFails(p) \/ UiFails(p) \/ UiEnds(p)
  BY <1>1 DEF Start, EngineStarts, EngineFails, UiFails, UiEnds
<1>2. CASE FatalExit(p) \/ Exits(p) \/ Killed(p)
  BY <1>2, EndsTyped DEF FatalExit, Exits, Killed
<1>3. CASE UiReady(p) \/ Closes(p)
  BY <1>3 DEF UiReady, Closes, Imported
<1>4. CASE EngineStops(p) \/ DropsGuard(p) \/ Unlocks(p)
  BY <1>4 DEF EngineStops, DropsGuard, Unlocks
<1> QED
  BY <1>1, <1>2, <1>3, <1>4 DEF MainStep

LEMMA TypedConn == ASSUME Typed, NEW a \in Attempts, ConnStep(a) PROVE Typed'
<1> USE DEF Typed, TypeOK, Bounded, Addressed, Limit, fileVars, clientVars, ConnStates
<1>1. CASE TakesStarting(a)
  BY <1>1 DEF TakesStarting
<1>2. CASE TakesClosing(a) \/ TakesRunning(a) \/ TooManyConns(a) \/ HandlerTimesOut(a)
  BY <1>2 DEF TakesClosing, TakesRunning, TooManyConns, HandlerTimesOut
<1>3. CASE Posts(a) \/ RunsClosure(a)
  BY <1>3 DEF Posts, RunsClosure
<1> QED
  BY <1>1, <1>2, <1>3 DEF ConnStep

LEMMA TypedStep == Typed /\ [Next]_vars => Typed'
<1> SUFFICES ASSUME Typed, [Next]_vars PROVE Typed'
  OBVIOUS
<1>1. ASSUME NEW p \in Procs, NEW r \in Procs, Relaunches(p, r) PROVE Typed'
  BY <1>1, EndsTyped, Numbers
     DEF Relaunches, Typed, TypeOK, Bounded, Addressed, Limit, Phases, Waiting, clientVars
<1>2. CASE UNCHANGED vars
  BY <1>2 DEF vars, Typed, TypeOK, Bounded, Addressed, Limit
<1> QED
  BY <1>1, <1>2, TypedClient, TypedMain, TypedConn DEF Next

LEMMA TypedAlways == Spec => []Typed
BY TypedInit, TypedStep, PTL DEF Spec

\* Every variable keeps its type: in particular a second launch connects no more
\* often than its two runs of acquire allow (claim_instance offers once).
THEOREM SingleTyping == Spec => []TypeOK
<1>1. Typed => TypeOK
  BY DEF Typed
<1> QED
  BY <1>1, TypedInit, TypedStep, PTL DEF Spec
-----------------------------------------------------------------------------
(* The lock.  A guarded copy holds it from become_primary to the drop of   *)
(* its guard, ui.port names it until just before, and its engine works on  *)
(* the data directory only in between, or past its 5 s of shutdown.        *)

Working == {"ui", "loop", "ended", "shutdown", "drop", "unlock", "after"}

Guarding ==
    \A p \in Procs :
        /\ at[p] \in Waiting \cup {"off", "bind"} => p \notin guarded
        /\ at[p] = "bind" => lock = p
        /\ p \in guarded /\ at[p] \in Serving => lock = p /\ portFile = p
        /\ p \in guarded /\ at[p] = "unlock" => lock = p
        /\ at[p] \in {"drop", "unlock"} => p \in guarded
        /\ p \in engine => at[p] \in Working

LEMMA EndsGuarding ==
    ASSUME NEW p \in Procs, ProcessEnds(p)
    PROVE  /\ guarded' = guarded /\ portFile' = portFile /\ engine' = engine \ {p}
           /\ \A q \in Procs \ {p} : lock = q => lock' = q
BY SingleAssumption DEF SingleAssumption, ProcessEnds, FileLeft

LEMMA GuardingStep == Typed /\ Guarding /\ [Next]_vars => Guarding'
<1> SUFFICES ASSUME Typed, Guarding, [Next]_vars PROVE Guarding'
  OBVIOUS
<1> USE DEF Waiting, Serving, Working, Goto
<1>0. None \notin Procs /\ at \in [Procs -> Phases]
  BY SingleAssumption DEF SingleAssumption, Typed, TypeOK
<1>1. ASSUME NEW p \in Procs, TakesLock(p) \/ LockIsHeld(p) \/ LockUnusable(p) \/ BindFails(p)
      PROVE  Guarding'
  BY <1>0, <1>1 DEF TakesLock, LockIsFree, LockIsHeld, LockUnusable, BindFails, fileVars, Guarding
<1>2. ASSUME NEW p \in Procs, BecomesPrimary(p) PROVE Guarding'
  BY <1>0, <1>2 DEF BecomesPrimary, Guarding
<1>3. ASSUME NEW p \in Procs,
             ReadsPortFile(p) \/ Connects(p) \/ AnsweredOk(p) \/ NotTaken(p) \/ Start(p)
      PROVE  Guarding'
  BY <1>0, <1>3 DEF ReadsPortFile, Connects, AnsweredOk, NotTaken, Start, fileVars, Guarding
<1>4. ASSUME NEW p \in Procs, Retries(p) \/ DeadlinePasses(p) \/ GivesUp(p) PROVE Guarding'
  BY <1>0, <1>4 DEF Retries, DeadlinePasses, GivesUp, fileVars, Guarding
<1>5. ASSUME NEW p \in Procs, KillsHolder(p) PROVE Guarding'
  <2>1. pid[p] \in Procs /\ ProcessEnds(pid[p]) /\ at[p] = "stuck"
    BY <1>0, <1>5 DEF KillsHolder, Typed, TypeOK
  <2>2. at' = [at EXCEPT ![pid[p]] = "gone", ![p] = "try"]
    BY <1>5 DEF KillsHolder
  <2> QED
    BY <1>0, <2>1, <2>2, EndsGuarding DEF Guarding
<1>6. ASSUME NEW p \in Procs, FatalExit(p) \/ Exits(p) \/ Killed(p) PROVE Guarding'
  <2>1. ProcessEnds(p) /\ at' = [at EXCEPT ![p] = "gone"]
    BY <1>6 DEF FatalExit, Exits, Killed
  <2> QED
    BY <1>0, <2>1, EndsGuarding DEF Guarding
<1>7. ASSUME NEW p \in Procs, NEW r \in Procs, Relaunches(p, r) PROVE Guarding'
  <2>1. ProcessEnds(p) /\ at[r] = "off" /\ at' = [at EXCEPT ![p] = "gone", ![r] = "try"]
    BY <1>7 DEF Relaunches
  <2> QED
    BY <1>0, <2>1, EndsGuarding DEF Guarding
<1>8. ASSUME NEW p \in Procs, EngineStarts(p) \/ EngineFails(p) \/ UiFails(p) \/ UiEnds(p)
      PROVE  Guarding'
  BY <1>0, <1>8 DEF EngineStarts, EngineFails, UiFails, UiEnds, fileVars, Guarding
<1>9. ASSUME NEW p \in Procs, UiReady(p) \/ Closes(p) PROVE Guarding'
  BY <1>0, <1>9 DEF UiReady, Closes, fileVars, Guarding
<1>10. ASSUME NEW p \in Procs, EngineStops(p) PROVE Guarding'
  BY <1>0, <1>10 DEF EngineStops, fileVars, Guarding
<1>11. ASSUME NEW p \in Procs, DropsGuard(p) \/ Unlocks(p) PROVE Guarding'
  BY <1>0, <1>11 DEF DropsGuard, Unlocks, Guarding
<1>12. ASSUME NEW a \in Attempts, ConnStep(a) PROVE Guarding'
  BY <1>12 DEF ConnStep, TakesStarting, TakesClosing, TakesRunning, TooManyConns, Posts,
               HandlerTimesOut, RunsClosure, fileVars, Guarding
<1>13. CASE UNCHANGED vars
  BY <1>13 DEF vars, Guarding
<1> QED
  BY <1>1, <1>2, <1>3, <1>4, <1>5, <1>6, <1>7, <1>8, <1>9, <1>10, <1>11, <1>12, <1>13
     DEF Next, ClientStep, MainStep

LEMMA GuardingAlways == Spec => []Guarding
<1>1. Init => Guarding
  BY DEF Init, Guarding, Waiting, Serving, Working
<1> QED
  BY <1>1, TypedInit, TypedStep, GuardingStep, PTL DEF Spec

\* Two guarded copies never work on the data directory together, except while
\* one is past its 5 s of shutdown (main, InstanceGuard).
THEOREM SingleOneEngine == Spec => []OneEngine
<1>1. Typed /\ Guarding => OneEngine
  BY DEF Typed, TypeOK, Guarding, Serving, Working, OneEngine
<1> QED
  BY <1>1, TypedAlways, GuardingAlways, PTL

\* ui.port always names the copy that holds the lock, through crashes, kills and
\* the hand-over from one copy to the next (become_primary, Drop).
THEOREM SinglePortFile == Spec => []PortFileOfHolder
<1>1. Typed /\ Guarding => PortFileOfHolder
  BY DEF Typed, TypeOK, Guarding, Serving, PortFileOfHolder
<1> QED
  BY <1>1, TypedAlways, GuardingAlways, PTL

-----------------------------------------------------------------------------
(* Acknowledged launches.                                                  *)

Kept(a) ==
    \/ a \in imported \cup lost
    \/ a \in queued[to[a]] /\ state[to[a]] = "Starting"

Acknowledged ==
    /\ \A a \in Attempts : conn[a] = "ok" => Kept(a)
    /\ \A p \in Procs : at[p] = "forwarded" => conn[Current(p)] = "ok"

LEMMA EndsKept ==
    ASSUME Typed, Acknowledged, NEW p \in Procs, ProcessEnds(p)
    PROVE  /\ \A a \in Attempts : conn'[a] = "ok" => conn[a] = "ok" /\ Kept(a)'
           /\ \A a \in Attempts : conn[a] = "ok" => conn'[a] = "ok"
BY DEF ProcessEnds, Typed, TypeOK, Addressed, Acknowledged, Kept

LEMMA CurrentTyped ==
    Typed => \A p \in Procs : at[p] \in {"await", "forwarded"} => Current(p) \in Attempts
BY Numbers DEF Typed, TypeOK, Bounded, Limit, Current, Attempts

LEMMA AcknowledgedStep == Typed /\ Typed' /\ Acknowledged /\ [Next]_vars => Acknowledged'
<1> SUFFICES ASSUME Typed, Typed', Acknowledged, [Next]_vars PROVE Acknowledged'
  OBVIOUS
<1>0. at \in [Procs -> Phases] /\ at' \in [Procs -> Phases]
  BY DEF Typed, TypeOK
<1>1. ASSUME NEW p \in Procs,
             TakesLock(p) \/ LockIsHeld(p) \/ LockUnusable(p) \/ BindFails(p) \/ ReadsPortFile(p)
      PROVE  Acknowledged'
  BY <1>0, <1>1 DEF TakesLock, LockIsHeld, LockUnusable, BindFails, ReadsPortFile, Goto,
                    connVars, clientVars, Acknowledged, Kept, Current
<1>2. ASSUME NEW p \in Procs, BecomesPrimary(p) PROVE Acknowledged'
  BY <1>0, <1>2 DEF BecomesPrimary, Goto, connVars, clientVars, Typed, TypeOK, Addressed,
                    Acknowledged, Kept, Current
<1>3. ASSUME NEW p \in Procs, Connects(p) PROVE Acknowledged'
  <2>1. \A a \in Attempts : conn'[a] = "ok" => conn[a] = "ok" /\ to'[a] = to[a]
    BY <1>3 DEF Connects, Typed, TypeOK
  <2>2. \A q \in Procs : at'[q] = "forwarded" => q # p /\ at[q] = "forwarded"
    BY <1>0, <1>3 DEF Connects, Goto
  <2>3. \A q \in Procs \ {p} : Current(q)' = Current(q)
    BY <1>3 DEF Connects, Current, Typed, TypeOK
  <2>4. \A q \in Procs \ {p} : at[q] = "forwarded" => conn'[Current(q)] = conn[Current(q)]
    <3>1. conn' = [conn EXCEPT ![<<p, tries[p] + 1>>] = "sent"] \/ conn' = conn
      BY <1>3 DEF Connects
    <3>2. \A q \in Procs \ {p} : Current(q) # <<p, tries[p] + 1>>
      BY DEF Current
    <3>3. conn \in [Attempts -> ConnStates]
      BY DEF Typed, TypeOK
    <3> QED
      BY <3>1, <3>2, <3>3, CurrentTyped
  <2> QED
    BY <1>3, <2>1, <2>2, <2>3, <2>4 DEF Connects, Acknowledged, Kept
<1>4. ASSUME NEW p \in Procs, AnsweredOk(p) PROVE Acknowledged'
  BY <1>0, <1>4 DEF AnsweredOk, Goto, connVars, clientVars, Acknowledged, Kept, Current
<1>5. ASSUME NEW p \in Procs,
             NotTaken(p) \/ Retries(p) \/ DeadlinePasses(p) \/ GivesUp(p) \/ Start(p)
      PROVE  Acknowledged'
  BY <1>0, <1>5 DEF NotTaken, Retries, DeadlinePasses, GivesUp, Start, Goto,
                    connVars, clientVars, Acknowledged, Kept, Current
<1>6. ASSUME NEW q \in Procs, ProcessEnds(q), tries' = tries,
             \A p \in Procs : at'[p] = "forwarded" => at[p] = "forwarded"
      PROVE  Acknowledged'
  BY <1>6, EndsKept, CurrentTyped DEF Acknowledged, Current
<1>7. ASSUME NEW p \in Procs, KillsHolder(p) PROVE Acknowledged'
  <2>1. pid[p] \in Procs /\ ProcessEnds(pid[p]) /\ tries' = tries
    BY <1>7, SingleAssumption DEF KillsHolder, SingleAssumption, Typed, TypeOK
  <2>2. \A q \in Procs : at'[q] = "forwarded" => at[q] = "forwarded"
    BY <1>0, <1>7 DEF KillsHolder
  <2> QED
    BY <1>6, <2>1, <2>2
<1>8. ASSUME NEW p \in Procs, FatalExit(p) \/ Exits(p) \/ Killed(p) PROVE Acknowledged'
  BY <1>0, <1>6, <1>8 DEF FatalExit, Exits, Killed, Goto, clientVars
<1>9. ASSUME NEW p \in Procs, NEW r \in Procs, Relaunches(p, r) PROVE Acknowledged'
  BY <1>0, <1>6, <1>9 DEF Relaunches, clientVars
<1>10. ASSUME NEW p \in Procs, EngineStarts(p) \/ EngineFails(p) \/ UiFails(p) \/ UiEnds(p)
       PROVE  Acknowledged'
  BY <1>0, <1>10 DEF EngineStarts, EngineFails, UiFails, UiEnds, Goto, connVars, clientVars,
                     Acknowledged, Kept, Current
<1>11. ASSUME NEW p \in Procs, UiReady(p) \/ Closes(p) PROVE Acknowledged'
  <2>1. /\ conn' = conn /\ tries' = tries
        /\ \A q \in Procs : at'[q] = "forwarded" => at[q] = "forwarded"
    BY <1>0, <1>11 DEF UiReady, Closes, Goto, connVars, clientVars
  <2>2. \A a \in Attempts : conn[a] = "ok" => Kept(a)'
    BY <1>11 DEF UiReady, Closes, Imported, connVars, Typed, TypeOK, Addressed, Acknowledged, Kept
  <2> QED
    BY <2>1, <2>2 DEF Acknowledged, Current
<1>12. ASSUME NEW p \in Procs, EngineStops(p) \/ DropsGuard(p) \/ Unlocks(p) PROVE Acknowledged'
  BY <1>0, <1>12 DEF EngineStops, DropsGuard, Unlocks, Goto, connVars, clientVars,
                     Acknowledged, Kept, Current
<1>13. ASSUME NEW a \in Attempts, ConnStep(a) PROVE Acknowledged'
  <2>1. /\ at' = at /\ tries' = tries /\ to' = to /\ state' = state /\ lost' = lost
        /\ \A b \in Attempts : conn[b] = "ok" => conn'[b] = "ok"
    BY <1>13 DEF ConnStep, TakesStarting, TakesClosing, TakesRunning, TooManyConns, Posts,
                 HandlerTimesOut, RunsClosure, clientVars, Typed, TypeOK
  <2>2. \A b \in Attempts : conn'[b] = "ok" => Kept(b)'
    <3>1. CASE TakesStarting(a)
      BY <3>1 DEF TakesStarting, Typed, TypeOK, Addressed, Acknowledged, Kept
    <3>2. CASE RunsClosure(a)
      BY <3>2 DEF RunsClosure, Typed, TypeOK, Acknowledged, Kept
    <3>3. CASE ~TakesStarting(a) /\ ~RunsClosure(a)
      BY <1>13, <3>3 DEF ConnStep, TakesClosing, TakesRunning, TooManyConns, Posts,
                         HandlerTimesOut, Typed, TypeOK, Acknowledged, Kept
    <3> QED
      BY <3>1, <3>2, <3>3
  <2> QED
    BY <2>1, <2>2, CurrentTyped DEF Acknowledged, Current
<1>14. CASE UNCHANGED vars
  BY <1>14 DEF vars, Acknowledged, Kept, Current
<1> QED
  BY <1>1, <1>2, <1>3, <1>4, <1>5, <1>7, <1>8, <1>9, <1>10, <1>11, <1>12, <1>13, <1>14
     DEF Next, ClientStep, MainStep

\* Whatever was answered ok has been imported, is in a queue that ready will
\* take over, or was queued by a copy that never came up (Shared::take, ready).
THEOREM SingleAcknowledged == Spec => []AcknowledgedIsKept
<1>1. Init => Acknowledged
  BY DEF Init, Acknowledged
<1>2. Typed /\ Acknowledged => AcknowledgedIsKept
  BY CurrentTyped DEF Acknowledged, Kept, AcknowledgedIsKept
<1> QED
  BY <1>1, <1>2, TypedInit, TypedStep, AcknowledgedStep, PTL DEF Spec
-----------------------------------------------------------------------------
(* Who has a launch in hand: a copy that listens is guarded and has not    *)
(* ended, one with a queue is still coming up, and what is queued or       *)
(* posted has not been disposed of.                                        *)

Serves(p) == p \in guarded /\ at[p] \in Serving
Listeners ==
    \A q \in Procs :
        /\ state[q] # "none" => q \in guarded /\ at[q] \in Serving \cup {"unlock", "after"}
        /\ state[q] = "Starting" => at[q] \in {"start", "fatal", "ui", "ended"}

Disposed(a) == a \in imported \cup lost
Held == {"sent", "waiting", "posted"}

InHand ==
    /\ imported \cap lost = {}
    /\ \A q \in Procs : \A a \in queued[q] :
        state[q] = "Starting" /\ to[a] = q /\ conn[a] = "ok" /\ ~Disposed(a)
    /\ \A a \in Attempts :
        /\ conn[a] = "none" => to[a] = None
        /\ conn[a] \in Held => state[to[a]] # "none"
        /\ conn[a] \in {"none", "sent", "waiting"} => ~Disposed(a) /\ a \notin posted
        /\ conn[a] = "posted" => a \in posted
        /\ a \in posted =>
             conn[a] \in {"posted", "busy"} /\ ~Disposed(a) /\ state[to[a]] # "none"

NotYetMade == \A p \in Procs, n \in 1..(2 * MaxTries) : n > tries[p] => conn[<<p, n>>] = "none"

Handing == Listeners /\ InHand /\ NotYetMade

LEMMA HandingInit == Init => Handing
BY DEF Init, Handing, Listeners, InHand, NotYetMade, Attempts, Held, Disposed

\* The end of a process: what it had queued is lost, what it had posted gone.
LEMMA EndsHanding ==
    ASSUME Typed, Handing, NEW q \in Procs, ProcessEnds(q), tries' = tries,
           \A p \in Procs \ {q} : state[p] # "none" => at'[p] = at[p]
    PROVE  Handing'
<1> USE DEF Handing, Typed, TypeOK, Addressed
<1>1. Listeners'
  BY DEF ProcessEnds, Listeners
<1>2. ASSUME NEW p \in Procs, NEW a \in queued'[p]
      PROVE  state'[p] = "Starting" /\ to'[a] = p /\ conn'[a] = "ok" /\ ~Disposed(a)'
  <2>1. p # q /\ a \in queued[p] /\ a \in Attempts
    BY <1>2 DEF ProcessEnds
  <2>2. a \notin queued[q]
    BY <2>1 DEF InHand
  <2> QED
    BY <2>1, <2>2 DEF ProcessEnds, InHand, Disposed
<1>3. ASSUME NEW a \in Attempts
      PROVE  /\ conn'[a] = "none" => to'[a] = None
             /\ conn'[a] \in Held => state'[to'[a]] # "none"
             /\ conn'[a] \in {"none", "sent", "waiting"} => ~Disposed(a)' /\ a \notin posted'
             /\ conn'[a] = "posted" => a \in posted'
             /\ a \in posted' =>
                  conn'[a] \in {"posted", "busy"} /\ ~Disposed(a)' /\ state'[to'[a]] # "none"
  <2>1. /\ conn'[a] = IF to[a] = q /\ conn[a] \in Held THEN "dropped" ELSE conn[a]
        /\ a \in posted' <=> a \in posted /\ to[a] # q
        /\ to' = to /\ imported' = imported /\ lost' = lost \cup queued[q]
        /\ \A p \in Procs : state'[p] = IF p = q THEN "none" ELSE state[p]
    BY DEF ProcessEnds, Held
  <2>2. a \in queued[q] => conn[a] = "ok"
    BY DEF InHand
  <2>3. conn[a] # "none" => to[a] \in Procs
    OBVIOUS
  <2> QED
    BY <2>1, <2>2, <2>3 DEF InHand, Disposed, Held
<1>4. NotYetMade'
  BY DEF ProcessEnds, NotYetMade, Attempts
<1>5. (imported \cap lost)' = {}
  BY DEF ProcessEnds, InHand, Disposed
<1> QED
  BY <1>1, <1>2, <1>3, <1>4, <1>5 DEF InHand

\* Steps that only move main() of a copy, or its connection threads' answers.
LEMMA QuietHanding ==
    ASSUME Typed, Handing,
           UNCHANGED <<conn, to, tries, posted, imported, lost, queued>>, Listeners',
           \A q \in Procs : state'[q] = state[q]
    PROVE  Handing'
BY DEF Handing, InHand, NotYetMade, Disposed, Held, Typed, TypeOK, Addressed

LEMMA ClientHanding == ASSUME Typed, Guarding, Handing, NEW p \in Procs, ClientStep(p) PROVE Handing'
<1> USE DEF Goto, Waiting, fileVars, connVars, clientVars
<1>0. /\ at \in [Procs -> Phases] /\ state \in [Procs -> {"none", "Starting", "Running", "Closing"}]
      /\ conn \in [Attempts -> ConnStates] /\ to \in [Attempts -> Procs \cup {None}]
      /\ tries \in [Procs -> 0..(2 * MaxTries)]
  BY DEF Typed, TypeOK
<1>1. ASSUME TakesLock(p) \/ LockIsHeld(p) \/ LockUnusable(p) \/ BindFails(p) \/ ReadsPortFile(p)
      PROVE  Handing'
  <2>1. Listeners'
    BY <1>0, <1>1 DEF TakesLock, LockIsHeld, LockUnusable, BindFails, ReadsPortFile, Handing,
                      Listeners, Serving
  <2> QED
    BY <1>1, <2>1, QuietHanding DEF TakesLock, LockIsHeld, LockUnusable, BindFails, ReadsPortFile
<1>2. ASSUME AnsweredOk(p) \/ NotTaken(p) \/ Retries(p) \/ DeadlinePasses(p) \/ GivesUp(p)
      PROVE  Handing'
  <2>1. Listeners'
    BY <1>0, <1>2 DEF AnsweredOk, NotTaken, Retries, DeadlinePasses, GivesUp, Handing, Listeners, Serving
  <2> QED
    BY <1>2, <2>1, QuietHanding DEF AnsweredOk, NotTaken, Retries, DeadlinePasses, GivesUp
<1>3. CASE BecomesPrimary(p)
  <2>1. Listeners'
    BY <1>0, <1>3 DEF BecomesPrimary, Handing, Listeners, Serving
  <2>2. state[p] = "none"
    BY <1>3 DEF BecomesPrimary, Handing, Listeners, Serving
  <2>3. InHand'
    BY <1>0, <1>3, <2>2 DEF BecomesPrimary, Handing, InHand, Disposed, Held, Typed, Addressed
  <2> QED
    BY <1>3, <2>1, <2>3 DEF BecomesPrimary, Handing, NotYetMade
<1>4. CASE Connects(p)
  <2>1. Listeners'
    BY <1>0, <1>4 DEF Connects, Handing, Listeners, Serving
  <2>2. <<p, tries[p] + 1>> \in Attempts /\ pid[p] \in Procs
    BY <1>4, Numbers DEF Connects, Typed, TypeOK, Bounded, Addressed, Limit, Attempts
  <2> PICK c \in Attempts : c = <<p, tries[p] + 1>>
    BY <2>2
  <2>3. conn[c] = "none"
    BY <1>4, <2>2, Numbers DEF Connects, Handing, NotYetMade, Attempts, Typed, TypeOK
  <2>4. CASE Listening(pid[p])
    <3>1. /\ conn'[c] = "sent" /\ to'[c] = pid[p] /\ state[pid[p]] # "none"
          /\ \A a \in Attempts \ {c} : conn'[a] = conn[a] /\ to'[a] = to[a]
          /\ UNCHANGED <<state, queued, posted, imported, lost>>
      BY <1>0, <1>4, <2>2, <2>4 DEF Connects, Listening
    <3>2. ASSUME NEW q \in Procs, NEW a \in queued'[q]
          PROVE  state'[q] = "Starting" /\ to'[a] = q /\ conn'[a] = "ok" /\ ~Disposed(a)'
      <4>1. a \in Attempts /\ a # c
        BY <2>3, <3>1, <3>2 DEF Handing, InHand, Typed, TypeOK
      <4> QED
        BY <3>1, <3>2, <4>1 DEF Handing, InHand, Disposed
    <3>3. ~Disposed(c)' /\ c \notin posted'
      BY <2>2, <2>3, <3>1 DEF Handing, InHand, Disposed
    <3>4. InHand'
      BY <3>1, <3>2, <3>3 DEF Handing, InHand, Disposed, Held
    <3>5. NotYetMade'
      <4> SUFFICES ASSUME NEW r \in Procs, NEW n \in 1..(2 * MaxTries), n > tries'[r]
                   PROVE  conn'[<<r, n>>] = "none"
        BY DEF NotYetMade
      <4>1. <<r, n>> # c /\ n > tries[r] /\ <<r, n>> \in Attempts
        BY <1>0, <1>4, Numbers DEF Connects, Attempts
      <4> QED
        BY <3>1, <4>1 DEF Handing, NotYetMade
    <3> QED
      BY <2>1, <3>4, <3>5 DEF Handing
  <2>5. CASE ~Listening(pid[p])
    <3>1. UNCHANGED <<conn, to, state, queued, posted, imported, lost>>
      BY <1>4, <2>5 DEF Connects
    <3>2. NotYetMade'
      BY <1>0, <1>4, <3>1, Numbers DEF Connects, Handing, NotYetMade
    <3> QED
      BY <2>1, <3>1, <3>2 DEF Handing, InHand, Disposed
  <2> QED
    BY <2>4, <2>5
<1>5. CASE KillsHolder(p)
  <2>1. /\ pid[p] \in Procs /\ ProcessEnds(pid[p]) /\ tries' = tries /\ at[p] = "stuck"
        /\ at' = [at EXCEPT ![pid[p]] = "gone", ![p] = "try"]
    BY <1>5, SingleAssumption DEF KillsHolder, SingleAssumption, Typed, TypeOK
  <2>2. state[p] = "none"
    BY <2>1 DEF Handing, Listeners, Serving
  <2> QED
    BY <1>0, <2>1, <2>2, EndsHanding
<1> QED
  BY <1>1, <1>2, <1>3, <1>4, <1>5 DEF ClientStep

LEMMA MainHanding ==
    ASSUME Typed, Guarding, Handing, NEW p \in Procs, MainStep(p) \/ Start(p) \/ Killed(p)
    PROVE  Handing'
<1> USE DEF Goto, fileVars, connVars, clientVars
<1>0. /\ at \in [Procs -> Phases] /\ state \in [Procs -> {"none", "Starting", "Running", "Closing"}]
      /\ queued \in [Procs -> SUBSET Attempts]
  BY DEF Typed, TypeOK
<1>1. ASSUME Start(p) \/ EngineStarts(p) \/ EngineFails(p) \/ UiFails(p) \/ UiEnds(p)
      PROVE  Handing'
  <2>1. Listeners'
    BY <1>0, <1>1 DEF Start, EngineStarts, EngineFails, UiFails, UiEnds, Handing, Listeners, Serving
  <2> QED
    BY <1>1, <2>1, QuietHanding DEF Start, EngineStarts, EngineFails, UiFails, UiEnds
<1>2. ASSUME EngineStops(p) \/ DropsGuard(p) \/ Unlocks(p)
      PROVE  Handing'
  <2>1. Listeners'
    BY <1>0, <1>2 DEF EngineStops, DropsGuard, Unlocks, Handing, Listeners, Serving
  <2> QED
    BY <1>2, <2>1, QuietHanding DEF EngineStops, DropsGuard, Unlocks
<1>3. CASE FatalExit(p) \/ Exits(p) \/ Killed(p)
  <2>1. ProcessEnds(p) /\ at' = [at EXCEPT ![p] = "gone"] /\ tries' = tries
    BY <1>3 DEF FatalExit, Exits, Killed
  <2> QED
    BY <1>0, <2>1, EndsHanding
<1>4. CASE UiReady(p) \/ Closes(p)
  <2>1. Listeners'
    BY <1>0, <1>4 DEF UiReady, Closes, Handing, Listeners, Serving
  <2>2. CASE p \notin guarded
    <3>1. UNCHANGED <<conn, to, tries, posted, imported, lost, queued, state>>
      BY <1>4, <2>2 DEF UiReady, Closes
    <3> QED
      BY <2>1, <3>1, QuietHanding
  <2>3. CASE p \in guarded
    <3>1. /\ UNCHANGED <<conn, to, tries, posted>>
          /\ queued' = [queued EXCEPT ![p] = {}]
          /\ state'[p] # "none" /\ \A q \in Procs \ {p} : state'[q] = state[q]
          /\ \A a \in Attempts : Disposed(a)' <=> Disposed(a) \/ a \in queued[p]
      BY <1>0, <1>4, <2>3 DEF UiReady, Closes, Imported, Disposed
    <3>2. ASSUME NEW q \in Procs, NEW a \in queued'[q]
          PROVE  state'[q] = "Starting" /\ to'[a] = q /\ conn'[a] = "ok" /\ ~Disposed(a)'
      <4>1. q # p /\ a \in queued[q] /\ a \in Attempts
        BY <1>0, <3>1, <3>2
      <4>2. a \notin queued[p]
        BY <4>1 DEF Handing, InHand
      <4> QED
        BY <3>1, <4>1, <4>2 DEF Handing, InHand
    <3>3. \A a \in queued[p] : conn[a] = "ok"
      BY DEF Handing, InHand
    <3>4. ASSUME NEW a \in Attempts
          PROVE  /\ conn'[a] = "none" => to'[a] = None
                 /\ conn'[a] \in Held => state'[to'[a]] # "none"
                 /\ conn'[a] \in {"none", "sent", "waiting"} => ~Disposed(a)' /\ a \notin posted'
                 /\ conn'[a] = "posted" => a \in posted'
                 /\ a \in posted' =>
                      conn'[a] \in {"posted", "busy"} /\ ~Disposed(a)' /\ state'[to'[a]] # "none"
      <4>1. conn[a] # "none" => to[a] \in Procs
        BY DEF Typed, Addressed
      <4> QED
        BY <3>1, <3>3, <4>1 DEF Handing, InHand, Held
    <3>5. (imported \cap lost)' = {}
      BY <1>4, <2>3 DEF UiReady, Closes, Imported, Handing, InHand, Disposed
    <3> QED
      BY <2>1, <3>1, <3>2, <3>4, <3>5 DEF Handing, InHand, NotYetMade
  <2> QED
    BY <2>2, <2>3
<1> QED
  BY <1>1, <1>2, <1>3, <1>4 DEF MainStep

LEMMA ConnHanding == ASSUME Typed, Handing, NEW a \in Attempts, ConnStep(a) PROVE Handing'
<1> USE DEF fileVars, clientVars
<1>0. /\ conn \in [Attempts -> ConnStates] /\ queued \in [Procs -> SUBSET Attempts]
      /\ conn[a] # "none" => to[a] \in Procs
  BY DEF Typed, TypeOK, Addressed
<1>1. UNCHANGED <<at, guarded, state, to, lost, tries>>
  BY DEF ConnStep, TakesStarting, TakesClosing, TakesRunning, TooManyConns, Posts,
         HandlerTimesOut, RunsClosure
<1>2. conn[a] # "none"
  BY DEF ConnStep, TakesStarting, TakesClosing, TakesRunning, TooManyConns, Posts,
         HandlerTimesOut, RunsClosure, Handing, InHand
<1>3. Listeners'
  BY <1>1 DEF Handing, Listeners
<1>4. conn'[a] # "none" /\ \A b \in Attempts \ {a} : conn'[b] = conn[b]
  BY <1>0, <1>2 DEF ConnStep, TakesStarting, TakesClosing, TakesRunning, TooManyConns, Posts,
         HandlerTimesOut, RunsClosure
<1>5. NotYetMade'
  BY <1>1, <1>2, <1>4 DEF Handing, NotYetMade, Attempts
<1>6. \A b \in Attempts \ {a} : (b \in posted' <=> b \in posted) /\ (Disposed(b)' <=> Disposed(b))
  BY <1>1 DEF ConnStep, TakesStarting, TakesClosing, TakesRunning, TooManyConns, Posts,
         HandlerTimesOut, RunsClosure, Disposed
<1>7. \A q \in Procs : \A b \in queued'[q] : b \in Attempts /\ (b # a => b \in queued[q])
  BY <1>0 DEF ConnStep, TakesStarting, TakesClosing, TakesRunning, TooManyConns, Posts,
         HandlerTimesOut, RunsClosure
<1>8. ASSUME NEW q \in Procs, a \in queued'[q]
      PROVE  state'[q] = "Starting" /\ to'[a] = q /\ conn'[a] = "ok" /\ ~Disposed(a)'
  <2>1. CASE TakesStarting(a)
    <3>1. a \notin queued[q] /\ ~Disposed(a)
      BY <2>1 DEF TakesStarting, Handing, InHand
    <3> QED
      BY <1>0, <1>1, <1>8, <2>1, <3>1 DEF TakesStarting, Disposed
  <2>2. CASE ~TakesStarting(a)
    <3>1. a \in queued[q]
      BY <1>8, <2>2 DEF ConnStep, TakesClosing, TakesRunning, TooManyConns, Posts,
         HandlerTimesOut, RunsClosure
    <3>2. conn[a] = "ok" /\ a \notin posted
      BY <3>1 DEF Handing, InHand
    <3> QED
      BY <2>2, <3>2 DEF ConnStep, TakesClosing, TakesRunning, TooManyConns, Posts,
         HandlerTimesOut, RunsClosure
  <2> QED
    BY <2>1, <2>2
<1>9. /\ conn'[a] = "none" => to'[a] = None
      /\ conn'[a] \in Held => state'[to'[a]] # "none"
      /\ conn'[a] \in {"none", "sent", "waiting"} => ~Disposed(a)' /\ a \notin posted'
      /\ conn'[a] = "posted" => a \in posted'
      /\ a \in posted' =>
           conn'[a] \in {"posted", "busy"} /\ ~Disposed(a)' /\ state'[to'[a]] # "none"
  <2> USE DEF Handing, InHand, Disposed, Held
  <2>1. CASE TakesStarting(a) \/ TakesClosing(a) \/ TakesRunning(a) \/ TooManyConns(a)
    BY <1>0, <1>1, <2>1 DEF TakesStarting, TakesClosing, TakesRunning, TooManyConns
  <2>2. CASE Posts(a) \/ HandlerTimesOut(a) \/ RunsClosure(a)
    BY <1>0, <1>1, <2>2 DEF Posts, HandlerTimesOut, RunsClosure
  <2> QED
    BY <2>1, <2>2 DEF ConnStep
<1>10. InHand'
  <2>1. ASSUME NEW q \in Procs, NEW b \in queued'[q]
        PROVE  state'[q] = "Starting" /\ to'[b] = q /\ conn'[b] = "ok" /\ ~Disposed(b)'
    BY <1>1, <1>4, <1>6, <1>7, <1>8, <2>1 DEF Handing, InHand
  <2>2. (imported \cap lost)' = {}
    BY <1>1 DEF ConnStep, TakesStarting, TakesClosing, TakesRunning, TooManyConns, Posts,
         HandlerTimesOut, RunsClosure, Handing, InHand, Disposed
  <2> QED
    BY <1>1, <1>4, <1>6, <1>9, <2>1, <2>2 DEF Handing, InHand, Held
<1> QED
  BY <1>3, <1>5, <1>10 DEF Handing

LEMMA HandingStep == Typed /\ Guarding /\ Handing /\ [Next]_vars => Handing'
<1> SUFFICES ASSUME Typed, Guarding, Handing, [Next]_vars PROVE Handing'
  OBVIOUS
<1>1. ASSUME NEW p \in Procs, NEW r \in Procs, Relaunches(p, r) PROVE Handing'
  <2>1. /\ ProcessEnds(p) /\ at[r] = "off" /\ at' = [at EXCEPT ![p] = "gone", ![r] = "try"]
        /\ tries' = tries
    BY <1>1 DEF Relaunches, clientVars
  <2>2. state[r] = "none" /\ at \in [Procs -> Phases]
    BY <2>1 DEF Handing, Listeners, Serving, Typed, TypeOK
  <2> QED
    BY <2>1, <2>2, EndsHanding
<1>2. CASE UNCHANGED vars
  BY <1>2 DEF vars, Handing, Listeners, InHand, NotYetMade, Disposed
<1> QED
  BY <1>1, <1>2, ClientHanding, MainHanding, ConnHanding DEF Next

LEMMA HandingAlways == Spec => []Handing
BY HandingInit, HandingStep, TypedAlways, GuardingAlways, PTL DEF Spec

-----------------------------------------------------------------------------
(* The refinement. Fates and Answers are the mapping of Desk.              *)

Fates   == [a \in Attempts |-> FateOf(a)]
Answers == [a \in Attempts |-> AnswerOf(a)]
view    == <<DeskOf, to, Fates, Answers>>

IInv == Typed /\ Guarding /\ Handing

DeskRead ==
    /\ \A p \in Procs : Serves(p) <=> DeskOf = p
    /\ (\A p \in Procs : ~Serves(p)) => DeskOf = None

LEMMA DeskIsRead == IInv => DeskRead
BY SingleAssumption
   DEF SingleAssumption, IInv, Guarding, Typed, TypeOK, DeskOf, Serves, DeskRead

LEMMA SameDesk ==
    ASSUME DeskRead, DeskRead', \A p \in Procs : Serves(p)' <=> Serves(p)
    PROVE  DeskOf' = DeskOf
<1>1. CASE \E p \in Procs : Serves(p)
  BY <1>1 DEF DeskRead
<1>2. CASE \A p \in Procs : ~Serves(p)
  BY <1>2 DEF DeskRead
<1> QED
  BY <1>1, <1>2

\* The launches that are queued are the desk's.
LEMMA QueuedAtDesk ==
    ASSUME IInv, NEW q \in Procs, NEW a \in queued[q]
    PROVE  DeskOf = q /\ FateOf(a) = "queued" /\ a \in Attempts
<1>1. a \in Attempts /\ Serves(q)
  BY DEF IInv, Handing, InHand, Listeners, Typed, TypeOK, Serves, Serving
<1>2. ~Disposed(a)
  BY DEF IInv, Handing, InHand
<1> QED
  BY <1>1, <1>2, DeskIsRead DEF DeskRead, FateOf, Disposed

\* Every attempt is disposed of, queued or open.
LEMMA FatesRead ==
    ASSUME IInv, NEW a \in Attempts
    PROVE  /\ FateOf(a) = "imported" <=> a \in imported
           /\ FateOf(a) = "lost" <=> a \notin imported /\ a \in lost
           /\ FateOf(a) = "queued" <=> \E q \in Procs : a \in queued[q]
           /\ FateOf(a) \in {"open", "queued", "imported", "lost"}
<1>1. \A q \in Procs : a \in queued[q] => ~Disposed(a)
  BY DEF IInv, Handing, InHand
<1>2. ~(a \in imported /\ a \in lost)
  BY DEF IInv, Handing, InHand
<1> QED
  BY <1>1, <1>2 DEF FateOf, Disposed

LEMMA SameFate ==
    ASSUME NEW a \in Attempts, a \in imported' <=> a \in imported, a \in lost' <=> a \in lost,
           \A q \in Procs : a \in queued'[q] <=> a \in queued[q]
    PROVE  FateOf(a)' = FateOf(a)
BY DEF FateOf

\* A step that neither a sender nor another copy sees.
LEMMA Unseen ==
    ASSUME DeskRead, DeskRead', UNCHANGED <<to, imported, lost>>,
           \A q \in Procs : queued'[q] = queued[q],
           \A p \in Procs : Serves(p)' <=> Serves(p),
           \A a \in Attempts : AnswerOf(a)' = AnswerOf(a)
    PROVE  UNCHANGED view
<1>1. \A a \in Attempts : FateOf(a)' = FateOf(a)
  BY SameFate
<1> QED
  BY <1>1, SameDesk DEF view, Fates, Answers

LEMMA SameAnswers ==
    ASSUME conn' = conn
    PROVE  \A a \in Attempts : AnswerOf(a)' = AnswerOf(a)
BY DEF AnswerOf

\* A process ends.  If it serves, its queue is lost; whoever waits for it is
\* told so.
LEMMA EndMaps ==
    ASSUME IInv, DeskRead, DeskRead', NEW q \in Procs, ProcessEnds(q), ~Serves(q)',
           \A p \in Procs \ {q} : Serves(p)' <=> Serves(p)
    PROVE  \E as \in SUBSET Attempts : Desk!Refuses(as) \/ Desk!Leaves(as)
<1> DEFINE as == {a \in Attempts : to[a] = q /\ conn[a] \in Held}
<1>1. /\ as \in SUBSET Attempts /\ to' = to /\ imported' = imported
      /\ lost' = lost \cup queued[q] /\ queued' = [queued EXCEPT ![q] = {}]
  BY DEF ProcessEnds
<1>2. \A a \in Attempts : AnswerOf(a)' = IF a \in as THEN "no" ELSE AnswerOf(a)
  BY DEF ProcessEnds, AnswerOf, Held
<1>3. \A a \in as : to[a] # None /\ AnswerOf(a) = "none"
  BY SingleAssumption DEF SingleAssumption, AnswerOf, Held
<1>4. Desk!Refused(as)
  BY <1>1, <1>2, <1>3 DEF Desk!Refused, Desk!Sent, Answers
<1>5. queued \in [Procs -> SUBSET Attempts]
  BY DEF IInv, Typed, TypeOK
<1>6. CASE Serves(q)
  <2>1. DeskOf = q /\ DeskOf' = None
    <3>1. \A p \in Procs \ {q} : ~Serves(p)
      BY <1>6 DEF DeskRead
    <3> QED
      BY <1>6, <3>1 DEF DeskRead
  <2>2. \A a \in Attempts : FateOf(a)' = IF FateOf(a) = "queued" THEN "lost" ELSE FateOf(a)
    <3> SUFFICES ASSUME NEW a \in Attempts
                 PROVE  FateOf(a)' = IF FateOf(a) = "queued" THEN "lost" ELSE FateOf(a)
      OBVIOUS
    <3>1. CASE FateOf(a) = "queued"
      <4>1. a \in queued[q] /\ a \notin imported
        BY <2>1, <3>1, FatesRead, QueuedAtDesk
      <4>2. a \notin imported' /\ a \in lost' /\ \A p \in Procs : a \notin queued'[p]
        <5>1. \A p \in Procs : a \in queued[p] => p = q
          BY <2>1, QueuedAtDesk
        <5> QED
          BY <1>1, <1>5, <4>1, <5>1
      <4> QED
        BY <3>1, <4>2 DEF FateOf
    <3>2. CASE FateOf(a) # "queued"
      <4>1. \A p \in Procs : a \notin queued[p] /\ a \notin queued'[p]
        BY <1>1, <1>5, <3>2, FatesRead
      <4> QED
        BY <1>1, <3>2, <4>1, SameFate
    <3> QED
      BY <3>1, <3>2
  <2>3. Desk!QueueBecomes("lost")
    BY <2>2 DEF Desk!QueueBecomes, Fates
  <2>4. Desk!Leaves(as)
    BY <1>1, <1>4, <2>1, <2>3, SingleAssumption DEF Desk!Leaves, SingleAssumption
  <2> QED
    BY <1>1, <2>4
<1>7. CASE ~Serves(q)
  <2>1. queued[q] = {} /\ DeskOf' = DeskOf
    <3>1. \A a \in queued[q] : FALSE
      BY <1>7, QueuedAtDesk DEF DeskRead
    <3> QED
      BY <1>7, <3>1, SameDesk
  <2>2. \A p \in Procs : queued'[p] = queued[p]
    BY <1>1, <1>5, <2>1
  <2>3. \A a \in Attempts : FateOf(a)' = FateOf(a)
    BY <1>1, <2>1, <2>2, SameFate
  <2>4. Desk!Refuses(as)
    BY <1>1, <1>4, <2>1, <2>3 DEF Desk!Refuses, Fates
  <2> QED
    BY <1>1, <2>4
<1> QED
  BY <1>6, <1>7

LEMMA ClientMaps ==
    ASSUME IInv, DeskRead, DeskRead', NEW p \in Procs, ClientStep(p)
    PROVE  Desk!Next \/ UNCHANGED view
<1> USE DEF Goto, fileVars, connVars, clientVars
<1>0. at \in [Procs -> Phases]
  BY DEF IInv, Typed, TypeOK
<1>1. ASSUME TakesLock(p) \/ LockIsHeld(p) \/ LockUnusable(p) \/ BindFails(p) \/ ReadsPortFile(p)
      PROVE  UNCHANGED view
  <2>1. \A q \in Procs : Serves(q)' <=> Serves(q)
    BY <1>0, <1>1 DEF TakesLock, LockIsHeld, LockUnusable, BindFails, ReadsPortFile, IInv, Guarding,
                      Waiting, Serves, Serving
  <2> QED
    BY <1>1, <2>1, Unseen, SameAnswers
       DEF TakesLock, LockIsHeld, LockUnusable, BindFails, ReadsPortFile
<1>2. ASSUME AnsweredOk(p) \/ NotTaken(p) \/ Retries(p) \/ DeadlinePasses(p) \/ GivesUp(p)
      PROVE  UNCHANGED view
  <2>1. \A q \in Procs : Serves(q)' <=> Serves(q)
    BY <1>0, <1>2 DEF AnsweredOk, NotTaken, Retries, DeadlinePasses, GivesUp, Serves, Serving
  <2> QED
    BY <1>2, <2>1, Unseen, SameAnswers DEF AnsweredOk, NotTaken, Retries, DeadlinePasses, GivesUp
<1>3. CASE BecomesPrimary(p)
  <2>1. lock = p /\ ~Serves(p) /\ Serves(p)'
    BY <1>0, <1>3 DEF BecomesPrimary, IInv, Guarding, Serves, Serving
  <2>2. \A q \in Procs : ~Serves(q)
    BY <2>1 DEF IInv, Guarding, Serves
  <2>3. DeskOf = None /\ DeskOf' = p
    BY <2>1, <2>2 DEF DeskRead
  <2>4. UNCHANGED <<to, conn, queued, imported, lost>>
    BY <1>3 DEF BecomesPrimary
  <2>5. \A a \in Attempts : FateOf(a)' = FateOf(a) /\ AnswerOf(a)' = AnswerOf(a)
    BY <2>4, SameFate, SameAnswers
  <2>6. Desk!Opens(p)
    BY <2>3, <2>4, <2>5 DEF Desk!Opens, Fates, Answers
  <2> QED
    BY <2>6 DEF Desk!Next
<1>4. CASE Connects(p)
  <2>1. \A q \in Procs : Serves(q)' <=> Serves(q)
    BY <1>0, <1>4 DEF Connects, Serves, Serving
  <2>2. UNCHANGED <<queued, imported, lost>>
    BY <1>4 DEF Connects
  <2>3. CASE Listening(pid[p])
    <3>1. <<p, tries[p] + 1>> \in Attempts /\ pid[p] \in Procs
      BY <1>4, Numbers DEF Connects, IInv, Typed, TypeOK, Bounded, Addressed, Limit, Attempts
    <3> PICK c \in Attempts : c = <<p, tries[p] + 1>>
      BY <3>1
    <3>2. conn[c] = "none" /\ to[c] = None
      BY <1>4, <3>1, Numbers
         DEF Connects, IInv, Handing, InHand, NotYetMade, Attempts, Typed, TypeOK
    <3>3. to' = [to EXCEPT ![c] = pid[p]] /\ conn' = [conn EXCEPT ![c] = "sent"]
      BY <1>4, <2>3 DEF Connects
    <3>4. \A a \in Attempts : AnswerOf(a)' = AnswerOf(a)
      BY <3>2, <3>3 DEF IInv, Typed, TypeOK, AnswerOf
    <3>5. \A a \in Attempts : FateOf(a)' = FateOf(a)
      BY <2>2, SameFate
    <3>6. DeskOf' = DeskOf
      BY <2>1, SameDesk
    <3>7. Desk!Sends(c, pid[p])
      BY <3>2, <3>3, <3>4, <3>5, <3>6 DEF Desk!Sends, Desk!Sent, Fates, Answers
    <3> QED
      BY <3>1, <3>7 DEF Desk!Next
  <2>4. CASE ~Listening(pid[p])
    BY <1>4, <2>1, <2>2, <2>4, Unseen, SameAnswers DEF Connects
  <2> QED
    BY <2>3, <2>4
<1>5. CASE KillsHolder(p)
  <2>1. PICK q \in Procs : q = pid[p]
    BY <1>5, SingleAssumption DEF KillsHolder, SingleAssumption, IInv, Typed, TypeOK
  <2>2. ProcessEnds(q) /\ at[p] = "stuck" /\ at' = [at EXCEPT ![q] = "gone", ![p] = "try"]
    BY <1>5, <2>1 DEF KillsHolder
  <2>3. ~Serves(q)' /\ \A r \in Procs \ {q} : Serves(r)' <=> Serves(r)
    BY <1>0, <2>2 DEF ProcessEnds, Serves, Serving
  <2> QED
    BY <2>2, <2>3, EndMaps DEF Desk!Next
<1> QED
  BY <1>1, <1>2, <1>3, <1>4, <1>5 DEF ClientStep

LEMMA MainMaps ==
    ASSUME IInv, DeskRead, DeskRead', NEW p \in Procs, MainStep(p) \/ Start(p) \/ Killed(p)
    PROVE  Desk!Next \/ UNCHANGED view
<1> USE DEF Goto, fileVars, connVars, clientVars
<1>0. at \in [Procs -> Phases] /\ queued \in [Procs -> SUBSET Attempts]
  BY DEF IInv, Typed, TypeOK
<1>1. ASSUME \/ Start(p) \/ EngineStarts(p) \/ EngineFails(p) \/ UiFails(p) \/ UiEnds(p)
             \/ EngineStops(p) \/ Unlocks(p)
      PROVE  UNCHANGED view
  <2>1. \A q \in Procs : Serves(q)' <=> Serves(q)
    BY <1>0, <1>1 DEF Start, EngineStarts, EngineFails, UiFails, UiEnds, EngineStops, Unlocks,
                      Serves, Serving
  <2> QED
    BY <1>1, <2>1, Unseen, SameAnswers
       DEF Start, EngineStarts, EngineFails, UiFails, UiEnds, EngineStops, Unlocks
<1>2. CASE FatalExit(p) \/ Exits(p) \/ Killed(p)
  <2>1. ProcessEnds(p) /\ at' = [at EXCEPT ![p] = "gone"]
    BY <1>2 DEF FatalExit, Exits, Killed
  <2>2. ~Serves(p)' /\ \A q \in Procs \ {p} : Serves(q)' <=> Serves(q)
    BY <1>0, <2>1 DEF ProcessEnds, Serves, Serving
  <2> QED
    BY <2>1, <2>2, EndMaps DEF Desk!Next
<1>3. CASE DropsGuard(p)
  <2>1. UNCHANGED <<to, conn, queued, imported, lost>>
    BY <1>3 DEF DropsGuard
  <2>2. Serves(p) /\ ~Serves(p)' /\ \A q \in Procs \ {p} : Serves(q)' <=> Serves(q)
    BY <1>0, <1>3 DEF DropsGuard, IInv, Guarding, Serves, Serving
  <2>3. DeskOf = p /\ DeskOf' = None
    BY <2>2 DEF DeskRead
  <2>4. ASSUME NEW a \in Attempts PROVE FateOf(a) # "queued"
    <3>1. \A q \in Procs : a \in queued[q] => q = p
      BY <2>3, QueuedAtDesk
    <3>2. a \notin queued[p]
      BY <1>3 DEF DropsGuard, IInv, Handing, InHand, Listeners
    <3> QED
      BY <3>1, <3>2, FatesRead
  <2>5. \A a \in Attempts : FateOf(a)' = FateOf(a) /\ AnswerOf(a)' = AnswerOf(a)
    BY <2>1, SameFate, SameAnswers
  <2>6. Desk!QueueBecomes("lost")
    BY <2>4, <2>5 DEF Desk!QueueBecomes, Fates
  <2>7. Desk!Refused({})
    BY <2>5 DEF Desk!Refused, Answers
  <2>8. Desk!Leaves({})
    BY <2>1, <2>3, <2>6, <2>7, SingleAssumption DEF SingleAssumption, Desk!Leaves
  <2> QED
    BY <2>8 DEF Desk!Next
<1>4. CASE UiReady(p) \/ Closes(p)
  <2>1. \A q \in Procs : Serves(q)' <=> Serves(q)
    BY <1>0, <1>4 DEF UiReady, Closes, Serves, Serving
  <2>2. CASE p \notin guarded
    BY <1>4, <2>1, <2>2, Unseen, SameAnswers DEF UiReady, Closes
  <2>3. CASE p \in guarded
    <3>1. DeskOf = p /\ DeskOf' = p
      BY <1>4, <2>1, <2>3 DEF UiReady, Closes, Serves, Serving, DeskRead
    <3>2. UNCHANGED <<to, conn>> /\ queued' = [queued EXCEPT ![p] = {}]
      BY <1>4, <2>3 DEF UiReady, Closes
    <3>3. \A a \in Attempts : FateOf(a) = "queued" <=> a \in queued[p]
      BY <3>1, FatesRead, QueuedAtDesk
    <3>4. \A a \in queued[p] : a \notin imported /\ a \notin lost
      BY DEF IInv, Handing, InHand, Disposed
    <3>5. \A a \in Attempts, q \in Procs : a \notin queued'[q]
      BY <1>0, <3>1, <3>2, QueuedAtDesk
    <3>6. \A a \in Attempts : AnswerOf(a)' = AnswerOf(a)
      BY <3>2, SameAnswers
    <3>7. CASE UiReady(p)
      <4>1. imported' = imported \cup queued[p] /\ lost' = lost
        BY <2>3, <3>7 DEF UiReady, Imported
      <4>2. ASSUME NEW a \in Attempts
            PROVE  FateOf(a)' = IF FateOf(a) = "queued" THEN "imported" ELSE FateOf(a)
        <5>1. CASE a \in queued[p]
          <6>1. a \in imported' /\ a \notin lost'
            BY <3>4, <4>1, <5>1
          <6>2. FateOf(a)' = "imported"
            BY <3>5, <6>1 DEF FateOf
          <6> QED
            BY <3>3, <5>1, <6>2
        <5>2. CASE a \notin queued[p]
          <6>1. \A q \in Procs : a \notin queued[q]
            BY <3>3, <5>2, FatesRead
          <6> QED
            BY <3>3, <3>5, <4>1, <5>2, <6>1, SameFate
        <5> QED
          BY <5>1, <5>2
      <4>3. Desk!QueueBecomes("imported")
        BY <4>2 DEF Desk!QueueBecomes, Fates
      <4> QED
        BY <3>1, <3>2, <3>6, <4>3, SingleAssumption
           DEF SingleAssumption, Desk!EmptiesQueue, Desk!Next, Answers
    <3>8. CASE Closes(p)
      <4>1. imported' = imported /\ lost' = lost \cup queued[p]
        BY <2>3, <3>8 DEF Closes
      <4>2. ASSUME NEW a \in Attempts
            PROVE  FateOf(a)' = IF FateOf(a) = "queued" THEN "lost" ELSE FateOf(a)
        <5>1. CASE a \in queued[p]
          <6>1. a \notin imported' /\ a \in lost'
            BY <3>4, <4>1, <5>1
          <6>2. FateOf(a)' = "lost"
            BY <3>5, <6>1 DEF FateOf
          <6> QED
            BY <3>3, <5>1, <6>2
        <5>2. CASE a \notin queued[p]
          <6>1. \A q \in Procs : a \notin queued[q]
            BY <3>3, <5>2, FatesRead
          <6> QED
            BY <3>3, <3>5, <4>1, <5>2, <6>1, SameFate
        <5> QED
          BY <5>1, <5>2
      <4>3. Desk!QueueBecomes("lost")
        BY <4>2 DEF Desk!QueueBecomes, Fates
      <4> QED
        BY <3>1, <3>2, <3>6, <4>3, SingleAssumption
           DEF SingleAssumption, Desk!EmptiesQueue, Desk!Next, Answers
    <3> QED
      BY <1>4, <3>7, <3>8
  <2> QED
    BY <2>2, <2>3
<1> QED
  BY <1>1, <1>2, <1>3, <1>4 DEF MainStep

\* A launch that is refused: nothing becomes of it, its sender is told so.
LEMMA RefusalMaps ==
    ASSUME IInv, DeskRead, DeskRead', NEW a \in Attempts, conn[a] \in Held,
           UNCHANGED <<at, guarded, to, imported, lost, queued>>,
           NEW c \in {"closing", "busy", "dropped"}, conn' = [conn EXCEPT ![a] = c]
    PROVE  Desk!Refuses({a})
<1>1. \A p \in Procs : Serves(p)' <=> Serves(p)
  BY DEF Serves
<1>2. to[a] # None /\ AnswerOf(a) = "none"
  BY SingleAssumption DEF SingleAssumption, IInv, Typed, Addressed, AnswerOf, Held
<1>3. \A b \in Attempts : AnswerOf(b)' = IF b = a THEN "no" ELSE AnswerOf(b)
  BY DEF IInv, Typed, TypeOK, AnswerOf
<1>4. Desk!Refused({a})
  BY <1>2, <1>3 DEF Desk!Refused, Desk!Sent, Answers
<1>5. \A b \in Attempts : FateOf(b)' = FateOf(b)
  BY SameFate
<1> QED
  BY <1>1, <1>4, <1>5, SameDesk DEF Desk!Refuses, Fates

LEMMA ConnMaps ==
    ASSUME IInv, DeskRead, DeskRead', NEW a \in Attempts, ConnStep(a)
    PROVE  Desk!Next \/ UNCHANGED view
<1> USE DEF fileVars, clientVars
<1>0. /\ conn \in [Attempts -> ConnStates] /\ queued \in [Procs -> SUBSET Attempts]
      /\ conn[a] # "none" => to[a] \in Procs
  BY DEF IInv, Typed, TypeOK, Addressed
<1>1. UNCHANGED <<at, guarded, to, lost>>
  BY DEF ConnStep, TakesStarting, TakesClosing, TakesRunning, TooManyConns, Posts,
         HandlerTimesOut, RunsClosure
<1>2. \A p \in Procs : Serves(p)' <=> Serves(p)
  BY <1>1 DEF Serves
<1>3. DeskOf' = DeskOf
  BY <1>2, SameDesk
<1>4. CASE TakesStarting(a)
  <2>1. /\ conn[a] = "sent" /\ to[a] \in Procs /\ state[to[a]] = "Starting"
        /\ queued' = [queued EXCEPT ![to[a]] = @ \cup {a}]
        /\ conn' = [conn EXCEPT ![a] = "ok"] /\ imported' = imported
    BY <1>0, <1>4 DEF TakesStarting
  <2>2. DeskOf = to[a] /\ to[a] # None
    BY <2>1, SingleAssumption
       DEF SingleAssumption, IInv, Handing, Listeners, Serves, Serving, DeskRead
  <2>3. ~Disposed(a) /\ \A q \in Procs : a \notin queued[q]
    BY <2>1 DEF IInv, Handing, InHand
  <2>4. FateOf(a) = "open" /\ AnswerOf(a) = "none"
    BY <2>1, <2>3 DEF FateOf, AnswerOf, Disposed
  <2>5. FateOf(a)' = "queued"
    BY <1>0, <1>1, <2>1, <2>3 DEF FateOf, Disposed
  <2>6. \A b \in Attempts \ {a} : FateOf(b)' = FateOf(b)
    BY <1>0, <1>1, <2>1, SameFate
  <2>7. \A b \in Attempts : AnswerOf(b)' = IF b = a THEN "ok" ELSE AnswerOf(b)
    BY <1>0, <2>1 DEF AnswerOf
  <2>8. /\ Fates' = [Fates EXCEPT ![a] = "queued"] /\ Answers' = [Answers EXCEPT ![a] = "ok"]
        /\ Fates[a] = "open" /\ Answers[a] = "none"
    BY <2>4, <2>5, <2>6, <2>7 DEF Fates, Answers
  <2>9. Desk!Queues(a)
    BY <1>1, <1>3, <2>2, <2>8 DEF Desk!Queues, Desk!AtDesk, Fates, Answers
  <2> QED
    BY <2>9 DEF Desk!Next
<1>5. CASE TakesClosing(a) \/ TooManyConns(a) \/ HandlerTimesOut(a)
  <2>1. PICK c \in {"closing", "busy", "dropped"} : conn' = [conn EXCEPT ![a] = c]
    BY <1>5 DEF TakesClosing, TooManyConns, HandlerTimesOut
  <2>2. conn[a] \in Held /\ UNCHANGED <<imported, queued>>
    BY <1>5 DEF TakesClosing, TooManyConns, HandlerTimesOut, Held
  <2>3. Desk!Refuses({a})
    BY <1>1, <2>1, <2>2, RefusalMaps
  <2> QED
    BY <2>3 DEF Desk!Next
<1>6. CASE Posts(a)
  <2>1. conn[a] = "waiting" /\ UNCHANGED <<imported, queued>>
    BY <1>6 DEF Posts
  <2>2. CASE conn' = [conn EXCEPT ![a] = "posted"]
    <3>1. \A b \in Attempts : AnswerOf(b)' = AnswerOf(b)
      BY <1>0, <2>1, <2>2 DEF AnswerOf
    <3> QED
      BY <1>1, <1>2, <2>1, <3>1, Unseen
  <2>3. CASE conn' = [conn EXCEPT ![a] = "busy"]
    <3>1. conn[a] \in Held
      BY <2>1 DEF Held
    <3>2. Desk!Refuses({a})
      BY <1>1, <2>1, <2>3, <3>1, RefusalMaps
    <3> QED
      BY <3>2 DEF Desk!Next
  <2> QED
    BY <1>6, <2>2, <2>3 DEF Posts
<1>7. CASE TakesRunning(a)
  <2>1. \A b \in Attempts : AnswerOf(b)' = AnswerOf(b)
    BY <1>0, <1>7 DEF TakesRunning, AnswerOf
  <2> QED
    BY <1>1, <1>2, <1>7, <2>1, Unseen DEF TakesRunning
<1>8. CASE RunsClosure(a)
  <2>1. /\ a \in posted /\ at[to[a]] = "loop" /\ imported' = imported \cup {a}
        /\ queued' = queued
        /\ conn' = [conn EXCEPT ![a] = IF conn[a] = "posted" THEN "ok" ELSE conn[a]]
    BY <1>8 DEF RunsClosure
  <2>2. /\ conn[a] \in {"posted", "busy"} /\ ~Disposed(a) /\ state[to[a]] # "none"
        /\ \A q \in Procs : a \notin queued[q]
    BY <2>1 DEF IInv, Handing, InHand
  <2>3. DeskOf = to[a] /\ to[a] \in Procs /\ to[a] # None
    BY <1>0, <2>1, <2>2, SingleAssumption
       DEF SingleAssumption, IInv, Handing, Listeners, Serves, Serving, DeskRead
  <2>4. FateOf(a) = "open" /\ AnswerOf(a) = IF conn[a] = "posted" THEN "none" ELSE "no"
    BY <2>2 DEF FateOf, AnswerOf, Disposed
  <2>5. FateOf(a)' = "imported"
    BY <1>1, <2>1, <2>2 DEF FateOf, Disposed
  <2>6. \A b \in Attempts \ {a} : FateOf(b)' = FateOf(b)
    BY <1>1, <2>1, SameFate
  <2>7. AnswerOf(a)' = IF conn[a] = "posted" THEN "ok" ELSE "no"
    BY <1>0, <2>1, <2>2 DEF AnswerOf
  <2>8. \A b \in Attempts \ {a} : AnswerOf(b)' = AnswerOf(b)
    BY <1>0, <2>1 DEF AnswerOf
  <2>9. Fates' = [Fates EXCEPT ![a] = "imported"] /\ Fates[a] = "open"
    BY <2>4, <2>5, <2>6 DEF Fates
  <2>10. Answers' = [Answers EXCEPT ![a] = IF @ = "none" THEN "ok" ELSE @]
    BY <2>4, <2>7, <2>8 DEF Answers
  <2>11. Desk!Imports(a)
    BY <1>1, <1>3, <2>3, <2>9, <2>10 DEF Desk!Imports, Desk!AtDesk, Fates, Answers
  <2> QED
    BY <2>11 DEF Desk!Next
<1> QED
  BY <1>4, <1>5, <1>6, <1>7, <1>8 DEF ConnStep

LEMMA DeskStep == IInv /\ DeskRead /\ DeskRead' /\ [Next]_vars => Desk!Next \/ UNCHANGED view
<1> SUFFICES ASSUME IInv, DeskRead, DeskRead', [Next]_vars
             PROVE  Desk!Next \/ UNCHANGED view
  OBVIOUS
<1>1. ASSUME NEW p \in Procs, NEW r \in Procs, Relaunches(p, r)
      PROVE  Desk!Next \/ UNCHANGED view
  <2>1. ProcessEnds(p) /\ at[r] = "off" /\ at' = [at EXCEPT ![p] = "gone", ![r] = "try"]
    BY <1>1 DEF Relaunches
  <2>2. ~Serves(p)' /\ \A q \in Procs \ {p} : Serves(q)' <=> Serves(q)
    BY <2>1 DEF ProcessEnds, Serves, Serving, IInv, Typed, TypeOK
  <2> QED
    BY <2>1, <2>2, EndMaps DEF Desk!Next
<1>2. CASE UNCHANGED vars
  <2>1. \A q \in Procs : Serves(q)' <=> Serves(q)
    BY <1>2 DEF vars, Serves
  <2> QED
    BY <1>2, <2>1, Unseen, SameAnswers DEF vars
<1> QED
  BY <1>1, <1>2, ClientMaps, MainMaps, ConnMaps DEF Next

LEMMA DeskInit == Init => Desk!Init
<1> SUFFICES ASSUME Init PROVE Desk!Init
  OBVIOUS
<1>1. DeskOf = None
  BY DEF Init, DeskOf
<1>2. \A a \in Attempts : FateOf(a) = "open" /\ AnswerOf(a) = "none"
  BY DEF Init, FateOf, AnswerOf
<1> QED
  BY <1>1, <1>2 DEF Init, Desk!Init

\* To the user the copies are one desk that takes launches in: only the copy
\* with the lock does, each launch is imported at most once, and ok is said of
\* none that is not imported or queued (single_instance.rs, take_second_launch).
THEOREM SingleRefines == Spec => ImplementsDesk
<1>1. DeskRead /\ DeskRead' /\ IInv /\ [Next]_vars =>
        [Desk!Next]_<<DeskOf, to, [a \in Attempts |-> FateOf(a)], [a \in Attempts |-> AnswerOf(a)]>>
  BY DeskStep DEF view, Fates, Answers
<1>2. Typed /\ Guarding /\ Handing => IInv
  BY DEF IInv
<1> QED
  BY <1>1, <1>2, DeskInit, DeskIsRead, TypedAlways, GuardingAlways, HandingAlways, PTL
     DEF Spec, ImplementsDesk, Desk!Spec, Desk!vars
=============================================================================
