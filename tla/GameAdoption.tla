---------------------------- MODULE GameAdoption ----------------------------
(***************************************************************************)
(* GameLaunch across launcher restarts. Games are detached: they survive   *)
(* the launcher, and the next engine adopts the ones running-games.json    *)
(* records (adopt_running_games in native/engine/src/api/game_launch.rs,   *)
(* live_sessions in native/engine/src/game_sessions.rs), in a background   *)
(* task that runs beside everything else the engine does.                  *)
(*                                                                         *)
(* inst and agent keep what a record holds of the game beside its key: the *)
(* instance it is filed under and the agent flag.                          *)
(***************************************************************************)
EXTENDS GameLaunch

CONSTANT MaxRestarts  \* bound on the launcher restarts

ASSUME RestartAssumption == MaxRestarts \in Nat

VARIABLES
  adoptAt,     \* where adopt_running_games is
  snapshot,    \* the records live_sessions read, [Names -> record]
  kept,        \* the names whose game it verified and has not handled yet
  adoptee,     \* the name being adopted, or None
  announcing,  \* keys whose launch has yet to announce its end, though
               \* adoption has taken the game up anew in the same session
  restarts

\* History of this session's adoption: the names it passed over because they
\* were active, and those it marked active although they were already.
VARIABLES skipped, doubled

adoptVars == <<adoptAt, snapshot, kept, adoptee, announcing, skipped, doubled>>
allVars   == <<vars, adoptVars, restarts>>

AdoptionInit ==
  /\ Init
  /\ adoptAt = "read"
  /\ snapshot = sessions
  /\ kept = {}
  /\ adoptee = None
  /\ announcing = {}
  /\ skipped = {}
  /\ doubled = {}
  /\ restarts = 0

AdoptAt(from, to) == adoptAt = from /\ adoptAt' = to

-----------------------------------------------------------------------------
(* live_sessions: the records are read, the processes behind them are      *)
(* looked up (an await), and the file is rewritten from what was read.     *)

ReadSessions ==
  /\ IF \A n \in Names : sessions[n] = NoRecord
       THEN AdoptAt("read", "done") ELSE AdoptAt("read", "probe")
  /\ snapshot' = sessions
  /\ UNCHANGED <<vars, kept, adoptee, announcing, skipped, doubled, restarts>>

\* command_lines: a record is verified when its pid runs the game it names. A
\* record without a key is one a late marker made: it has no pid. The lookup may
\* time out or fail for any of them, which reads as not running.
Verifiable(n) == snapshot[n].key # None /\ proc[snapshot[n].key] = "alive"

ProbeProcesses ==
  /\ AdoptAt("probe", "rewrite")
  /\ kept' \in SUBSET {n \in Names : Verifiable(n)}
  /\ UNCHANGED <<vars, snapshot, adoptee, announcing, skipped, doubled, restarts>>

ToBeAdopted(n) == IF n \in kept THEN NoRecord ELSE sessions[n]       \* (mutant)
Surviving(n)   == IF n \in kept THEN sessions[n] ELSE NoRecord

RewriteSessions ==
  /\ AdoptAt("rewrite", "each")
  /\ sessions' = [n \in Names |-> Surviving(n)]
  /\ UNCHANGED <<launchVars, gameVars, engineVars, bufferVars, adopted,
                 exitVars, exits, stopVars, training, changing, snapshot, kept,
                 adoptee, announcing, skipped, doubled, restarts>>

-----------------------------------------------------------------------------
(* adopt_running_games, one verified record after another.                 *)

AdoptSkips(n) ==
  /\ adoptAt = "each" /\ n \in kept /\ n \in active
  /\ kept' = kept \ {n}
  /\ skipped' = skipped \cup {n}
  /\ UNCHANGED <<vars, adoptAt, snapshot, adoptee, announcing, doubled, restarts>>

\* The instance is not active: load_instance is awaited before it is marked,
\* and anyone may take the instance meanwhile.
AdoptLoads(n) ==
  /\ n \in kept /\ FreeInstance(n)
  /\ AdoptAt("each", "load")
  /\ kept' = kept \ {n}
  /\ adoptee' = n
  /\ UNCHANGED <<vars, snapshot, announcing, skipped, doubled, restarts>>

MarkPlayers(n) ==                                                  \* (mutant)
  active' = IF snapshot[n].key \in agent THEN active ELSE active \cup {n}
MarkActive(n) == active' = active \cup {n}

\* An adopted game gets a finalizer and an exit flag of its own. Of a game this
\* session launched, that ended and is taken up from the list read before, the
\* launch's monitor and sweeps find their own finalizer already run: all that
\* may be left of it is its announcement.
OwnFinalizer(k) ==
  /\ mon' = [mon EXCEPT ![k] = IF @ = "off" THEN "off" ELSE "published"]
  /\ calls' = {call \in calls : call[2] # k}
  /\ exitSeen' = exitSeen \ {k}
  /\ finAt' = [finAt EXCEPT ![k] = "none"]
  /\ finBy' = [finBy EXCEPT ![k] = None]
  /\ announcing' = IF finAt[k] = "freed" THEN announcing \cup {k} ELSE announcing

\* The insert into active_instances is not looked at.
AdoptMarks ==
  /\ AdoptAt("load", "enter")
  /\ LET k == snapshot[adoptee].key IN
       /\ buffer' = [buffer EXCEPT ![k] = "running"]
       /\ wantsTrain' = wantsTrain \ {k}
       /\ marker' = [marker EXCEPT ![k] =
                       IF @ = "firing" THEN @
                       ELSE IF snapshot[adoptee].menu = None THEN "none" ELSE "fired"]
       /\ MarkActive(adoptee)
       /\ EnterPresence(k)
       /\ registry' = IF k \in agent THEN registry \cup {k} ELSE registry
       /\ adopted' = adopted \cup {k}
       /\ OwnFinalizer(k)
  /\ doubled' = IF adoptee \in active THEN doubled \cup {adoptee} ELSE doubled
  /\ UNCHANGED <<launchVars, proc, running, pendingStops, autoTrained, sessions,
                 exits, stopVars, training, changing, snapshot, kept, adoptee,
                 skipped, restarts>>

EnterNothing(n) == UNCHANGED running                               \* (mutant)
EnterRunning(n) == running' = [running EXCEPT ![n] = snapshot[n].key]

AdoptEnters ==
  /\ AdoptAt("enter", "each")
  /\ EnterRunning(adoptee)
  /\ adoptee' = None
  /\ UNCHANGED <<launchVars, gameVars, active, pendingStops, live, registry,
                 bufferVars, sessions, adopted, exitVars, exits, stopVars,
                 training, changing, snapshot, kept, announcing, skipped,
                 doubled, restarts>>

NoneLoading == adoptee = None                                      \* (mutant)
AllAdopted  == kept = {}

AdoptDone ==
  /\ AllAdopted
  /\ AdoptAt("each", "done")
  /\ UNCHANGED <<vars, snapshot, kept, adoptee, announcing, skipped, doubled, restarts>>

Adopt ==
  \/ ReadSessions \/ ProbeProcesses \/ RewriteSessions
  \/ \E n \in Names : AdoptSkips(n) \/ AdoptLoads(n)
  \/ AdoptMarks \/ AdoptEnters \/ AdoptDone

-----------------------------------------------------------------------------
(* The launcher is closed or killed at any point and started again: its    *)
(* memory and its tasks are gone, the games and the session file are not.  *)
Restart ==
  /\ restarts < MaxRestarts
  /\ restarts' = restarts + 1
  /\ stage' = [k \in Keys |-> IF inst[k] = None THEN "unborn" ELSE "over"]
  /\ mon' = [k \in Keys |-> "off"]
  /\ marker' = [k \in Keys |-> "none"]
  /\ active' = {} /\ pendingStops' = {} /\ live' = {} /\ registry' = {}
  /\ running' = [n \in Names |-> None]
  /\ buffer' = [k \in Keys |-> "absent"]
  /\ wantsTrain' = {} /\ autoTrained' = {} /\ adopted' = {}
  /\ exitSeen' = {} /\ calls' = {}
  /\ finAt' = [k \in Keys |-> "none"] /\ finBy' = [k \in Keys |-> None]
  /\ exits' = [k \in Keys |-> 0]
  /\ stopAt' = [r \in Stops |-> "idle"]
  /\ stopName' = [r \in Stops |-> None] /\ stopTarget' = [r \in Stops |-> None]
  /\ training' = {} /\ changing' = {}
  /\ adoptAt' = "read" /\ kept' = {} /\ adoptee' = None
  /\ announcing' = {} /\ skipped' = {} /\ doubled' = {}
  /\ snapshot' = [n \in Names |-> NoRecord]
  /\ UNCHANGED <<inst, agent, proc, sessions>>

\* The last step of the finalizer of a launch whose game was adopted anew.
LateAnnounce(k) ==
  /\ k \in announcing
  /\ announcing' = announcing \ {k}
  /\ registry' = registry \ {k}
  /\ EmitExit(k)
  /\ UNCHANGED <<launchVars, gameVars, active, running, pendingStops, live,
                 bufferVars, sessions, adopted, exitVars, stopVars, training,
                 changing, adoptAt, snapshot, kept, adoptee, skipped, doubled,
                 restarts>>

\* Requests do not wait for adoption: the engine takes any step beside it.
Engine == SessionNext /\ UNCHANGED <<adoptVars, restarts>>

AdoptionNext == Engine \/ Adopt \/ (\E k \in Keys : LateAnnounce(k)) \/ Restart

AdoptionSpec == AdoptionInit /\ [][AdoptionNext]_allVars

-----------------------------------------------------------------------------
(* Properties.                                                             *)

\* An adopted game holds its instance from the moment it is marked active
\* until its finalizer frees it.
AdoptHolding(k) == k \in adopted /\ finAt[k] \notin {"freed", "done"}

\* Across restarts too an instance has one holder, a launch of this session,
\* an adopted game or a version change, and is active exactly then, unless
\* adoption marked it although it had been taken since it was looked at.
OneHolderAcrossRestarts ==
  /\ \A n \in Names \ doubled :
       n \in active <=> \/ n \in changing
                        \/ \E k \in Keys : inst[k] = n /\ (Holding(k) \/ AdoptHolding(k))
  /\ \A k, l \in Keys :
       /\ Holding(k) \/ AdoptHolding(k)
       /\ Holding(l) \/ AdoptHolding(l)
       /\ inst[k] = inst[l] /\ inst[k] \notin doubled
       => k = l

\* Once adoption is done, Play stays blocked while a recorded game lives:
\* whichever step of a launch, an exit or an earlier adoption the launcher was
\* closed at, the record that is left is one the next engine takes up. Only an
\* instance taken before adoption got to it is excepted.
RecordedGameBlocksPlay ==
  adoptAt = "done" =>
    \A n \in Names \ (skipped \cup doubled) : LET k == sessions[n].key IN
      k # None => (Tracked(k) => n \in active /\ running[n] = k)

\* Whatever the launcher went through, once adoption is done no second game is
\* started in the directory of one that lives and is recorded, unless the
\* instance was taken before adoption got to it: this is what
\* running-games.json is for (game_sessions.rs).
NoSecondGame ==
  [][\A k, l \in Keys :
       /\ proc[k] # "alive" /\ proc'[k] = "alive"
       /\ proc[l] = "alive" /\ sessions[inst[k]].key = l
       /\ adoptAt = "done"
       => inst[k] \in skipped \cup doubled]_allVars

\* No sweep, exit or launch drops the record of a registered living game, and
\* of adoption's steps only the rewrite does, of a game registered since it
\* read the file or one whose process it failed to look up.
RecordLostOnlyToRewrite ==
  [][\A n \in Names \ doubled : LET k == running[n] IN
       k # None =>
         (Tracked(k) /\ sessions[n].key = k /\ sessions'[n].key # k
            => adoptAt = "rewrite" /\ adoptAt' = "each" /\ n \notin kept)]_allVars

\* A game adopted from an earlier session is announced over at most once, and
\* only when it is.
AdoptedExitOnce ==
  \A k \in adopted : mon[k] = "off" => exits[k] <= 1 /\ (exits[k] = 1 => proc[k] = "dead")

\* Adoption says Play is blocked and Stop kills the game: an adopted game that
\* lives is the running entry of its instance, unless the instance was taken
\* while adoption loaded it.
AdoptedGameIsRunning ==
  \A k \in adopted :
    proc[k] = "alive" /\ adoptee = None /\ inst[k] \notin doubled => running[inst[k]] = k

\* No monitor watches an adopted game, so its end is noticed by sweeps alone:
\* until its finalizer has run, the game is a running entry, which every sweep
\* looks at, or is about to be one, or has its finalizer called or under way.
\* None is forgotten, whoever sweeps, stops or is told of its end at the same
\* time; else the instance would stay blocked until the next restart.
AdoptedGameIsWatched ==
  \A k \in adopted :
    inst[k] \notin doubled =>
      \/ running[inst[k]] = k \/ adoptee = inst[k]
      \/ \E c \in Callers : <<c, k>> \in calls
      \/ finAt[k] # "none"

-----------------------------------------------------------------------------
(* What the code's documentation says of adoption.                         *)

\* "Play is blocked, Stop kills it" (adopt_running_games): an adopted game that
\* lives is the running entry of its instance, whoever came in between.
StopKillsAdoptedGame ==
  \A k \in adopted : proc[k] = "alive" /\ adoptee = None => running[inst[k]] = k
=============================================================================
