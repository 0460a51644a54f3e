-------------------------- MODULE InstanceLifecycle --------------------------
(***************************************************************************)
(* What the launcher promises about instances, without threads or maps: an *)
(* instance is held by one launch or one version change at a time, a       *)
(* launch is let go only once its game is over as far as the system can    *)
(* tell, and its end is announced once. GameLaunch implements this.        *)
(***************************************************************************)
CONSTANTS Names, Keys, None,
          Change   \* the holder of an instance whose version is being changed

VARIABLES
  holder,  \* [Names -> who holds the instance]
  phase,   \* [Keys -> how far the launch has got]
  games    \* the launches whose game is alive and followed

Phases == {"unborn", "preparing", "playing", "ended", "announced"}

TypeOK ==
  /\ holder \in [Names -> Keys \cup {None, Change}]
  /\ phase \in [Keys -> Phases]
  /\ games \subseteq Keys

Init ==
  /\ holder = [n \in Names |-> None]
  /\ phase = [k \in Keys |-> "unborn"]
  /\ games = {}

Holds(k, n) == holder[n] = k

Begin(k, n) ==
  /\ phase[k] = "unborn" /\ holder[n] = None
  /\ holder' = [holder EXCEPT ![n] = k]
  /\ phase' = [phase EXCEPT ![k] = "preparing"]
  /\ UNCHANGED games

Play(k) ==
  /\ phase[k] = "preparing"
  /\ phase' = [phase EXCEPT ![k] = "playing"]
  /\ games' = games \cup {k}
  /\ UNCHANGED holder

\* The game ends, or the launcher can no longer tell.
Quit(k) ==
  /\ k \in games
  /\ games' = games \ {k}
  /\ UNCHANGED <<holder, phase>>

\* The launch lets its instance go; a launch without a game may be announced
\* over in the same step.
End(k, n) ==
  /\ phase[k] \in {"preparing", "playing"} /\ Holds(k, n) /\ k \notin games
  /\ holder' = [holder EXCEPT ![n] = None]
  /\ \E p \in {"ended", "announced"} : phase' = [phase EXCEPT ![k] = p]
  /\ UNCHANGED games

Announce(k) ==
  /\ phase[k] = "ended"
  /\ phase' = [phase EXCEPT ![k] = "announced"]
  /\ UNCHANGED <<holder, games>>

BeginChange(n) ==
  /\ holder[n] = None
  /\ holder' = [holder EXCEPT ![n] = Change]
  /\ UNCHANGED <<phase, games>>

EndChange(n) ==
  /\ holder[n] = Change
  /\ holder' = [holder EXCEPT ![n] = None]
  /\ UNCHANGED <<phase, games>>

Next ==
  \/ \E k \in Keys : Play(k) \/ Quit(k) \/ Announce(k)
  \/ \E k \in Keys, n \in Names : Begin(k, n) \/ End(k, n)
  \/ \E n \in Names : BeginChange(n) \/ EndChange(n)

Spec == Init /\ [][Next]_<<holder, phase, games>>
=============================================================================
