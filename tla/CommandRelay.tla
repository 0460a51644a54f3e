---------------------------- MODULE CommandRelay ----------------------------
(***************************************************************************)
(* What the command relay of a launch promises agents, without queues,     *)
(* slots or polls: a command leaves the relay once, for the mod, with its  *)
(* caller's timeout or with the launch, and a caller is told one thing, a  *)
(* result only if the mod had the command. AgentRelay implements this      *)
(* specification.                                                          *)
(***************************************************************************)
CONSTANT Calls

VARIABLES
  place,  \* [Calls -> where the call's command is]
  told,   \* [Calls -> what its caller has been told]
  up      \* the launch runs

vars == <<place, told, up>>

TypeOK ==
  /\ place \in [Calls -> {"unsent", "relay", "mod", "lost", "over"}]
  /\ told \in [Calls -> {"nothing", "open", "result", "gone", "timed out", "refused"}]
  /\ up \in BOOLEAN

Init ==
  /\ place = [c \in Calls |-> "unsent"]
  /\ told = [c \in Calls |-> "nothing"]
  /\ up = TRUE

Tell(c, from, to) == told[c] = from /\ told' = [told EXCEPT ![c] = to]

Refuse(c) ==
  /\ Tell(c, "nothing", "refused")
  /\ UNCHANGED <<place, up>>

Submit(c) ==
  /\ place[c] = "unsent"
  /\ Tell(c, "nothing", "open")
  /\ place' = [place EXCEPT ![c] = "relay"]
  /\ UNCHANGED up

\* A batch goes to the mod, or is lost with the connection that carried it.
Collect(cs, to) ==
  /\ \A c \in cs : place[c] = "relay"
  /\ place' = [c \in Calls |-> IF c \in cs THEN to ELSE place[c]]
  /\ UNCHANGED <<told, up>>

\* The mod is done with a command. Its caller, if it still waits, is told, unless
\* the post of the result is lost.
Finish(c) ==
  /\ place[c] = "mod"
  /\ place' = [place EXCEPT ![c] = "over"]
  /\ Tell(c, "open", "result") \/ UNCHANGED told
  /\ UNCHANGED up

\* A caller that times out takes its command along, unless it is under way.
TimeOut(c) ==
  /\ Tell(c, "open", "timed out")
  /\ \/ place[c] = "relay" /\ place' = [place EXCEPT ![c] = "over"]
     \/ UNCHANGED place
  /\ UNCHANGED up

GameEnds ==
  /\ up /\ up' = FALSE
  /\ UNCHANGED <<place, told>>

\* The relay is closed: commands not under way are dropped, callers told.
Close(cs, ds) ==
  /\ ~up
  /\ \A c \in cs : told[c] = "open"
  /\ \A c \in ds : place[c] = "relay"
  /\ told' = [c \in Calls |-> IF c \in cs THEN "gone" ELSE told[c]]
  /\ place' = [c \in Calls |-> IF c \in ds THEN "over" ELSE place[c]]
  /\ UNCHANGED up

Next ==
  \/ \E c \in Calls : Refuse(c) \/ Submit(c) \/ Finish(c) \/ TimeOut(c)
  \/ \E cs \in SUBSET Calls, to \in {"mod", "lost"} : Collect(cs, to)
  \/ GameEnds
  \/ \E cs, ds \in SUBSET Calls : Close(cs, ds)

Spec == Init /\ [][Next]_vars
=============================================================================
