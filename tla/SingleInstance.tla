--------------------------- MODULE SingleInstance ---------------------------
(***************************************************************************)
(* Copies of the launcher started on one data directory                    *)
(* (native/app/src/single_instance.rs and main.rs).                        *)
(*                                                                         *)
(* The first copy holds the lock on ui.lock and listens on the port it     *)
(* wrote to ui.port.  A later copy hands its arguments over and exits, or  *)
(* waits for the lock of one that is closing, or offers to kill one that   *)
(* does not answer.  An attempt <<p, n>> is the n-th connection of copy p; *)
(* its connection thread lives in the copy it was sent to and goes on      *)
(* after p has stopped waiting for the answer.                             *)
(*                                                                         *)
(* Steps are the points between which other copies, connection threads     *)
(* and the UI thread can come in.  Times are left out: a deadline may pass *)
(* whenever the code waits with one.                                       *)
(***************************************************************************)
EXTENDS Integers, FiniteSets

CONSTANTS
    Procs,      \* copies of the launcher
    None,
    MaxTries,   \* bound: connections of one call of acquire (10 s of retries in the code)
    MaxConns,   \* MAX_CONCURRENT, connections handled at once
    MaxKills    \* bound: copies that crash or are killed from outside

ASSUME SingleAssumption ==
    /\ None \notin Procs
    /\ MaxTries \in Nat \ {0} /\ MaxConns \in Nat \ {0} /\ MaxKills \in Nat

Attempts == Procs \X (1..(2 * MaxTries))    \* acquire runs at most twice

VARIABLES
    at,         \* at[p]: where main() of copy p is
    lock,       \* the copy whose InstanceGuard holds ui.lock
    portFile,   \* the copy whose port, token and pid are in ui.port
    guarded,    \* copies that got an InstanceGuard (the others run unguarded)
    state,      \* state[p]: Shared::state of p, "none" when p does not listen
    queued,     \* queued[p]: the attempts in State::Starting of p
    engine,     \* copies whose engine works on the data directory
    conn,       \* conn[a]: where the connection thread of attempt a is
    to,         \* to[a]: the copy attempt a was sent to
    posted,     \* attempts whose closure is in the event loop of its copy
    imported,   \* attempts whose window was raised and files imported
    lost,       \* attempts that were queued by a copy that never came up
    tries,      \* tries[p]: connections p has made
    pid,        \* pid[p]: the pid p last read from ui.port in this acquire
    offered,    \* copies that have offered to kill the lock holder
    kills       \* copies killed from outside so far

clientVars == <<tries, pid, offered>>
connVars == <<conn, to, posted, imported>>
fileVars == <<lock, portFile>>
vars == <<at, lock, portFile, guarded, state, queued, engine, conn, to, posted,
          imported, lost, tries, pid, offered, kills>>

Waiting == {"try", "read", "forward", "await", "decide", "stuck"}
Phases == Waiting \cup {"off", "bind", "start", "fatal", "ui", "loop", "ended",
                        "shutdown", "drop", "unlock", "after", "forwarded", "gone"}
ConnStates == {"none", "sent", "waiting", "posted", "ok", "closing", "busy", "dropped"}

\* The connection p is waiting on.
Current(p) == <<p, tries[p]>>

\* Attempts copy q has threads for (the counter `busy` of serve).
Handled(q) == {a \in Attempts : to[a] = q /\ conn[a] \in {"waiting", "posted"}}

\* A copy that accepts connections: the serve thread runs until the process ends.
Listening(q) == state[q] # "none"

Init ==
    /\ at = [p \in Procs |-> "off"]
    /\ lock = None /\ portFile = None
    /\ guarded = {} /\ engine = {} /\ posted = {} /\ imported = {} /\ lost = {}
    /\ state = [p \in Procs |-> "none"]
    /\ queued = [p \in Procs |-> {}]
    /\ conn = [a \in Attempts |-> "none"]
    /\ to = [a \in Attempts |-> None]
    /\ tries = [p \in Procs |-> 0]
    /\ pid = [p \in Procs |-> None]
    /\ offered = {} /\ kills = 0

Goto(p, phase) == at' = [at EXCEPT ![p] = phase]

-----------------------------------------------------------------------------
(* What the operating system does when process p ends, however it ends: its  *)
(* lock, threads and memory are gone; ui.port stays as it is.               *)

FileRemoved == None                                               \* (mutant)
FileLeft == portFile

ProcessEnds(p) ==
    /\ lock' = IF lock = p THEN None ELSE lock
    /\ state' = [state EXCEPT ![p] = "none"]
    /\ engine' = engine \ {p}
    /\ lost' = lost \cup queued[p]
    /\ queued' = [queued EXCEPT ![p] = {}]
    /\ posted' = {a \in posted : to[a] # p}
    /\ conn' = [a \in Attempts |->
                  IF to[a] = p /\ conn[a] \in {"sent", "waiting", "posted"}
                  THEN "dropped" ELSE conn[a]]
    /\ portFile' = FileLeft
    /\ UNCHANGED <<guarded, to, imported>>

-----------------------------------------------------------------------------
(* acquire: the loop of a copy that wants the lock.                         *)

\* The user starts the program, or opens a .mrpack file with it.
Start(p) ==
    /\ at[p] = "off"
    /\ Goto(p, "try")
    /\ UNCHANGED <<fileVars, guarded, state, queued, engine, connVars, lost, clientVars, kills>>

\* try_lock_exclusive
LockIsShared == TRUE                                              \* (mutant)
LockIsFree == lock = None

TakesLock(p) ==
    /\ at[p] = "try" /\ LockIsFree
    /\ lock' = p
    /\ Goto(p, "bind")
    /\ UNCHANGED <<portFile, guarded, state, queued, engine, connVars, lost, clientVars, kills>>

LockIsHeld(p) ==
    /\ at[p] = "try" /\ lock # None
    /\ Goto(p, "read")
    /\ UNCHANGED <<fileVars, guarded, state, queued, engine, connVars, lost, clientVars, kills>>

\* ui.lock cannot be opened or locked at all: Claim::Unguarded.
LockUnusable(p) ==
    /\ at[p] = "try"
    /\ Goto(p, "start")
    /\ UNCHANGED <<fileVars, guarded, state, queued, engine, connVars, lost, clientVars, kills>>

\* become_primary
BecomesPrimary(p) ==
    /\ at[p] = "bind"
    /\ portFile' = p
    /\ guarded' = guarded \cup {p}
    /\ state' = [state EXCEPT ![p] = "Starting"]
    /\ Goto(p, "start")
    /\ UNCHANGED <<lock, queued, engine, connVars, lost, clientVars, kills>>

\* No port, or ui.port cannot be written: the lock file is dropped with the error.
BindFails(p) ==
    /\ at[p] = "bind"
    /\ lock' = None
    /\ Goto(p, "start")
    /\ UNCHANGED <<portFile, guarded, state, queued, engine, connVars, lost, clientVars, kills>>

ReadsPortFile(p) ==
    /\ at[p] = "read"
    /\ \/ portFile = None /\ Goto(p, "decide") /\ UNCHANGED pid
       \/ portFile # None /\ Goto(p, "forward") /\ pid' = [pid EXCEPT ![p] = portFile]
    /\ UNCHANGED <<fileVars, guarded, state, queued, engine, connVars, lost, tries, offered, kills>>

\* forward: connect and send, or find nobody there.
Connects(p) ==
    /\ at[p] = "forward"
    /\ tries' = [tries EXCEPT ![p] = @ + 1]
    /\ IF Listening(pid[p])
       THEN /\ conn' = [conn EXCEPT ![<<p, tries[p] + 1>>] = "sent"]
            /\ to' = [to EXCEPT ![<<p, tries[p] + 1>>] = pid[p]]
            /\ Goto(p, "await")
       ELSE /\ Goto(p, "decide")
            /\ UNCHANGED <<conn, to>>
    /\ UNCHANGED <<fileVars, guarded, state, queued, engine, posted, imported, lost,
                   pid, offered, kills>>

AnsweredOk(p) ==
    /\ at[p] = "await" /\ conn[Current(p)] = "ok"
    /\ Goto(p, "forwarded")
    /\ UNCHANGED <<fileVars, guarded, state, queued, engine, connVars, lost, clientVars, kills>>

Refused(p) == conn[Current(p)] \in {"closing", "busy", "dropped"}   \* (mutant)
\* Another answer, a closed connection, or REPLY_TIMEOUT, which does not
\* depend on what the thread at the other end is doing.
MayBeRefused(p) == TRUE

NotTaken(p) ==
    /\ at[p] = "await" /\ MayBeRefused(p)
    /\ Goto(p, "decide")
    /\ UNCHANGED <<fileVars, guarded, state, queued, engine, connVars, lost, clientVars, kills>>

\* Connections one run of claim_instance may still make.
TriesLeft(p) == tries[p] < IF p \in offered THEN 2 * MaxTries ELSE MaxTries

Retries(p) ==
    /\ at[p] = "decide" /\ TriesLeft(p)
    /\ Goto(p, "try")
    /\ UNCHANGED <<fileVars, guarded, state, queued, engine, connVars, lost, clientVars, kills>>

DeadlinePasses(p) ==
    /\ at[p] = "decide"
    /\ Goto(p, "stuck")
    /\ UNCHANGED <<fileVars, guarded, state, queued, engine, connVars, lost, clientVars, kills>>

-----------------------------------------------------------------------------
(* claim_instance on Acquire::Unresponsive.                                 *)

\* The user lets p kill the process it read from ui.port.  kill_stuck_instance
\* looks the pid up now: q may have become anything since.
KillsHolder(p) ==
    LET q == pid[p] IN
    /\ at[p] = "stuck" /\ q # None /\ p \notin offered
    /\ offered' = offered \cup {p}
    /\ at[q] \notin {"off", "gone", "forwarded"}
    /\ at' = [at EXCEPT ![q] = "gone", ![p] = "try"]
    /\ ProcessEnds(q)
    /\ pid' = [pid EXCEPT ![p] = None]
    /\ UNCHANGED <<tries, kills>>

\* The user says no, the process is not there any more, p offered it before,
\* or ui.port never named one: a dialog, and the copy exits.
GivesUp(p) ==
    /\ at[p] = "stuck"
    /\ Goto(p, "gone")
    /\ UNCHANGED <<fileVars, guarded, state, queued, engine, connVars, lost, clientVars, kills>>

-----------------------------------------------------------------------------
(* A connection thread of the copy to[a].                                   *)

\* Shared::take, after the accept loop let the connection in.
TakesStarting(a) ==
    LET q == to[a] IN
    /\ conn[a] = "sent" /\ Cardinality(Handled(q)) < MaxConns /\ state[q] = "Starting"
    /\ queued' = [queued EXCEPT ![q] = @ \cup {a}]
    /\ conn' = [conn EXCEPT ![a] = "ok"]
    /\ UNCHANGED <<at, fileVars, guarded, state, engine, to, posted, imported, lost,
                   clientVars, kills>>

TakesClosing(a) ==
    LET q == to[a] IN
    /\ conn[a] = "sent" /\ Cardinality(Handled(q)) < MaxConns /\ state[q] = "Closing"
    /\ conn' = [conn EXCEPT ![a] = "closing"]
    /\ UNCHANGED <<at, fileVars, guarded, state, queued, engine, to, posted, imported,
                   lost, clientVars, kills>>

\* The handler is cloned under the lock of the state and called without it.
TakesRunning(a) ==
    LET q == to[a] IN
    /\ conn[a] = "sent" /\ Cardinality(Handled(q)) < MaxConns /\ state[q] = "Running"
    /\ conn' = [conn EXCEPT ![a] = "waiting"]
    /\ UNCHANGED <<at, fileVars, guarded, state, queued, engine, to, posted, imported,
                   lost, clientVars, kills>>

TooManyConns(a) ==
    /\ conn[a] = "sent" /\ Cardinality(Handled(to[a])) >= MaxConns
    /\ conn' = [conn EXCEPT ![a] = "dropped"]
    /\ UNCHANGED <<at, fileVars, guarded, state, queued, engine, to, posted, imported,
                   lost, clientVars, kills>>

\* take_second_launch, one caller at a time: the closure is posted to the event
\* loop, or refused when the loop is over.
Posts(a) ==
    LET q == to[a] IN
    /\ conn[a] = "waiting"
    /\ \A b \in Handled(q) : conn[b] # "posted"
    /\ IF at[q] = "loop"
       THEN /\ conn' = [conn EXCEPT ![a] = "posted"]
            /\ posted' = posted \cup {a}
       ELSE /\ conn' = [conn EXCEPT ![a] = "busy"]
            /\ UNCHANGED posted
    /\ UNCHANGED <<at, fileVars, guarded, state, queued, engine, to, imported, lost,
                   clientVars, kills>>

\* SECOND_LAUNCH_TIMEOUT, or the loop ended with the closure in it.
HandlerTimesOut(a) ==
    /\ conn[a] = "posted"
    /\ conn' = [conn EXCEPT ![a] = "busy"]
    /\ UNCHANGED <<at, fileVars, guarded, state, queued, engine, to, posted, imported,
                   lost, clientVars, kills>>

\* The UI thread runs the closure, for a caller that still waits or not.
RunsClosure(a) ==
    /\ a \in posted /\ at[to[a]] = "loop"
    /\ posted' = posted \ {a}
    /\ imported' = imported \cup {a}
    /\ conn' = [conn EXCEPT ![a] = IF @ = "posted" THEN "ok" ELSE @]
    /\ UNCHANGED <<at, fileVars, guarded, state, queued, engine, to, lost, clientVars, kills>>

-----------------------------------------------------------------------------
(* main() of a copy that runs, guarded or not.                              *)

EngineStarts(p) ==
    /\ at[p] = "start"
    /\ engine' = engine \cup {p}
    /\ Goto(p, "ui")
    /\ UNCHANGED <<fileVars, guarded, state, queued, connVars, lost, clientVars, kills>>

\* A dialog is shown; the guard is alive and its threads go on meanwhile.
EngineFails(p) ==
    /\ at[p] = "start"
    /\ Goto(p, "fatal")
    /\ UNCHANGED <<fileVars, guarded, state, queued, engine, connVars, lost, clientVars, kills>>

\* process::exit(1): nothing is dropped, ui.port stays.
FatalExit(p) ==
    /\ at[p] = "fatal"
    /\ Goto(p, "gone")
    /\ ProcessEnds(p)
    /\ UNCHANGED <<clientVars, kills>>

ImportedLater(p) == imported                                      \* (mutant)
\* InstanceGuard::ready: the handler is installed, what was queued is imported.
Imported(p) == imported \cup queued[p]

UiReady(p) ==
    /\ at[p] = "ui"
    /\ IF p \in guarded
       THEN /\ state' = [state EXCEPT ![p] = "Running"]
            /\ imported' = Imported(p)
            /\ queued' = [queued EXCEPT ![p] = {}]
       ELSE UNCHANGED <<state, imported, queued>>
    /\ Goto(p, "loop")
    /\ UNCHANGED <<fileVars, guarded, engine, conn, to, posted, lost, clientVars, kills>>

\* No window could be made, or building the UI panicked.
UiFails(p) ==
    /\ at[p] = "ui"
    /\ Goto(p, "ended")
    /\ UNCHANGED <<fileVars, guarded, state, queued, engine, connVars, lost, clientVars, kills>>

\* The window is closed, fails, or its thread panics.
UiEnds(p) ==
    /\ at[p] = "loop"
    /\ Goto(p, "ended")
    /\ UNCHANGED <<fileVars, guarded, state, queued, engine, connVars, lost, clientVars, kills>>

\* InstanceGuard::closing: the state that held the queue is replaced.
Closes(p) ==
    /\ at[p] = "ended"
    /\ IF p \in guarded
       THEN /\ state' = [state EXCEPT ![p] = "Closing"]
            /\ lost' = lost \cup queued[p]
            /\ queued' = [queued EXCEPT ![p] = {}]
       ELSE UNCHANGED <<state, lost, queued>>
    /\ Goto(p, "shutdown")
    /\ UNCHANGED <<fileVars, guarded, engine, connVars, clientVars, kills>>

\* engine.shutdown ends, or its 5 s do and the engine keeps running for now.
EngineStops(p) ==
    /\ at[p] = "shutdown"
    /\ \/ engine' = engine \ {p}
       \/ engine' = engine
    /\ Goto(p, IF p \in guarded THEN "drop" ELSE "after")
    /\ UNCHANGED <<fileVars, guarded, state, queued, connVars, lost, clientVars, kills>>

\* Drop of InstanceGuard, up to the fields ...
DropsGuard(p) ==
    /\ at[p] = "drop"
    /\ portFile' = None
    /\ Goto(p, "unlock")
    /\ UNCHANGED <<lock, guarded, state, queued, engine, connVars, lost, clientVars, kills>>

\* ... and its field _lock.
Unlocks(p) ==
    /\ at[p] = "unlock"
    /\ lock' = None
    /\ Goto(p, "after")
    /\ UNCHANGED <<portFile, guarded, state, queued, engine, connVars, lost, clientVars, kills>>

Exits(p) ==
    /\ at[p] = "after"
    /\ Goto(p, "gone")
    /\ ProcessEnds(p)
    /\ UNCHANGED <<clientVars, kills>>

\* After an update, or on the software renderer: a new copy, without arguments.
Relaunches(p, r) ==
    /\ at[p] = "after" /\ at[r] = "off"
    /\ at' = [at EXCEPT ![p] = "gone", ![r] = "try"]
    /\ ProcessEnds(p)
    /\ UNCHANGED <<clientVars, kills>>

\* A crash, or somebody kills the process.
Killed(p) ==
    /\ at[p] \notin {"off", "gone", "forwarded"} /\ kills < MaxKills
    /\ kills' = kills + 1
    /\ Goto(p, "gone")
    /\ ProcessEnds(p)
    /\ UNCHANGED clientVars

-----------------------------------------------------------------------------

ClientStep(p) ==
    \/ TakesLock(p) \/ LockIsHeld(p) \/ LockUnusable(p) \/ BecomesPrimary(p) \/ BindFails(p)
    \/ ReadsPortFile(p) \/ Connects(p) \/ AnsweredOk(p) \/ NotTaken(p)
    \/ Retries(p) \/ DeadlinePasses(p) \/ KillsHolder(p) \/ GivesUp(p)

MainStep(p) ==
    \/ EngineStarts(p) \/ EngineFails(p) \/ FatalExit(p) \/ UiReady(p) \/ UiFails(p)
    \/ UiEnds(p) \/ Closes(p) \/ EngineStops(p) \/ DropsGuard(p) \/ Unlocks(p) \/ Exits(p)

ConnStep(a) ==
    \/ TakesStarting(a) \/ TakesClosing(a) \/ TakesRunning(a) \/ TooManyConns(a)
    \/ Posts(a) \/ HandlerTimesOut(a) \/ RunsClosure(a)

Next ==
    \/ \E p \in Procs : Start(p) \/ ClientStep(p) \/ MainStep(p) \/ Killed(p)
    \/ \E p, r \in Procs : Relaunches(p, r)
    \/ \E a \in Attempts : ConnStep(a)

Spec == Init /\ [][Next]_vars

\* A copy that waits takes its steps: it waits for the lock, an answer or the
\* user with a deadline or a dialog that the user answers.  acquire looks at its
\* deadline in every round, so it cannot miss it for ever (SF).  Nothing is
\* assumed of the copy that holds the lock: it may hang at any point.
Fairness ==
    \A p \in Procs : WF_vars(ClientStep(p)) /\ SF_vars(DeadlinePasses(p))

FairSpec == Spec /\ Fairness

-----------------------------------------------------------------------------
(* Properties                                                               *)

\* Types of the variables.
TypeOK ==
    /\ at \in [Procs -> Phases]
    /\ lock \in Procs \cup {None} /\ portFile \in Procs \cup {None}
    /\ guarded \subseteq Procs /\ engine \subseteq Procs /\ offered \subseteq Procs
    /\ state \in [Procs -> {"none", "Starting", "Running", "Closing"}]
    /\ queued \in [Procs -> SUBSET Attempts]
    /\ conn \in [Attempts -> ConnStates]
    /\ to \in [Attempts -> Procs \cup {None}]
    /\ posted \subseteq Attempts /\ imported \subseteq Attempts /\ lost \subseteq Attempts
    /\ tries \in [Procs -> 0..(2 * MaxTries)]
    /\ pid \in [Procs -> Procs \cup {None}]
    /\ kills \in 0..MaxKills

\* Two guarded copies never work on the data directory at the same time: the
\* lock goes after engine.shutdown (main.rs), and a copy whose shutdown took
\* longer than its 5 s is the only one that may overlap with the next.
OneEngine ==
    \A p, q \in engine \cap guarded :
        at[p] # "after" /\ at[q] # "after" => p = q

\* From become_primary to the drop of its guard.
Serving == {"start", "fatal", "ui", "loop", "ended", "shutdown", "drop"}

\* From become_primary to the drop of the guard, ui.port names the copy that
\* holds the lock: the one before removed its own file while it still held the
\* lock, and nobody else writes it (Drop for InstanceGuard).
PortFileOfHolder ==
    \A p \in guarded :
        at[p] \in Serving => lock = p /\ portFile = p

\* A launch that was answered ok was imported, or waits in the queue of a copy
\* that is still starting, or was in the queue of one that never came up (ready
\* and take exclude each other).
AcknowledgedIsKept ==
    \A p \in Procs : at[p] = "forwarded" =>
        LET a == Current(p) IN
        \/ a \in imported \cup lost
        \/ a \in queued[to[a]] /\ state[to[a]] = "Starting"

\* Who serves the directory, what became of a launch and what its sender is
\* answered, whatever lock, queue or thread that is read from.
DeskOf == IF lock \in guarded /\ at[lock] \in Serving THEN lock ELSE None
FateOf(a) ==
    CASE a \in imported -> "imported"
      [] a \in lost -> "lost"
      [] \E q \in Procs : a \in queued[q] -> "queued"
      [] OTHER -> "open"
AnswerOf(a) ==
    CASE conn[a] = "ok" -> "ok"
      [] conn[a] \in {"closing", "busy", "dropped"} -> "no"
      [] OTHER -> "none"

Desk == INSTANCE LaunchDesk WITH
    Copies <- Procs, Launches <- Attempts, Nobody <- None,
    desk   <- DeskOf,
    sentTo <- to,
    fate   <- [a \in Attempts |-> FateOf(a)],
    answer <- [a \in Attempts |-> AnswerOf(a)]

\* To whoever opens the program or a file, the copies are one LaunchDesk: no
\* crash, kill, hand-over or late closure makes two copies take launches, one
\* launch be imported twice, or ok be said of a launch nobody kept.
ImplementsDesk == Desk!Spec

\* A second launch never hangs, whatever the lock holder does or does not do:
\* it hands itself over, takes the lock, or ends with the question or the
\* message about the stuck copy (acquire, claim_instance).
SecondLaunchEnds ==
    \A p \in Procs : (at[p] = "try") ~> (at[p] \notin Waiting)
=============================================================================
