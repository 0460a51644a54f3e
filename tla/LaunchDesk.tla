----------------------------- MODULE LaunchDesk -----------------------------
(***************************************************************************)
(* What the copies of the launcher on one data directory promise together, *)
(* without locks, files, threads or phases: one copy at a time serves the  *)
(* directory, a launch is taken in only by the copy it was sent to and     *)
(* while that one serves, it is imported at most once, and ok means it is  *)
(* imported or queued.  SingleInstance implements this specification.      *)
(***************************************************************************)
CONSTANTS Copies, Launches, Nobody

VARIABLES
    desk,    \* the copy that serves the directory, or Nobody
    sentTo,  \* [Launches -> the copy it was sent to, or Nobody]
    fate,    \* [Launches -> what became of it]
    answer   \* [Launches -> what its sender is answered]

vars == <<desk, sentTo, fate, answer>>

TypeOK ==
    /\ desk \in Copies \cup {Nobody}
    /\ sentTo \in [Launches -> Copies \cup {Nobody}]
    /\ fate \in [Launches -> {"open", "queued", "imported", "lost"}]
    /\ answer \in [Launches -> {"none", "ok", "no"}]

Init ==
    /\ desk = Nobody
    /\ sentTo = [a \in Launches |-> Nobody]
    /\ fate = [a \in Launches |-> "open"]
    /\ answer = [a \in Launches |-> "none"]

Sent(a) == sentTo[a] # Nobody

\* a is open, and in the hands of the copy that serves.
AtDesk(a) == desk # Nobody /\ sentTo[a] = desk /\ fate[a] = "open"

\* What was queued goes one way, all of it.
QueueBecomes(end) ==
    fate' = [a \in Launches |-> IF fate[a] = "queued" THEN end ELSE fate[a]]

Refused(as) ==
    /\ \A a \in as : Sent(a) /\ answer[a] = "none"
    /\ answer' = [a \in Launches |-> IF a \in as THEN "no" ELSE answer[a]]

Opens(p) ==
    /\ desk = Nobody /\ desk' = p
    /\ UNCHANGED <<sentTo, fate, answer>>

Sends(a, p) ==
    /\ ~Sent(a)
    /\ sentTo' = [sentTo EXCEPT ![a] = p]
    /\ UNCHANGED <<desk, fate, answer>>

\* The copy that serves is still starting: the launch is for later.
Queues(a) ==
    /\ AtDesk(a) /\ answer[a] = "none"
    /\ fate' = [fate EXCEPT ![a] = "queued"]
    /\ answer' = [answer EXCEPT ![a] = "ok"]
    /\ UNCHANGED <<desk, sentTo>>

\* The window is raised and the files imported, possibly after the sender was
\* told no.
Imports(a) ==
    /\ AtDesk(a)
    /\ fate' = [fate EXCEPT ![a] = "imported"]
    /\ answer' = [answer EXCEPT ![a] = IF @ = "none" THEN "ok" ELSE @]
    /\ UNCHANGED <<desk, sentTo>>

\* The copy that serves has come up, or gives up coming up.
EmptiesQueue ==
    /\ desk # Nobody
    /\ QueueBecomes("imported") \/ QueueBecomes("lost")
    /\ UNCHANGED <<desk, sentTo, answer>>

Refuses(as) == Refused(as) /\ UNCHANGED <<desk, sentTo, fate>>

\* The copy stops serving, in order or not: what it had queued goes with it.
Leaves(as) ==
    /\ desk # Nobody /\ desk' = Nobody
    /\ QueueBecomes("lost")
    /\ Refused(as)
    /\ UNCHANGED sentTo

Next ==
    \/ \E p \in Copies : Opens(p)
    \/ \E a \in Launches, p \in Copies : Sends(a, p)
    \/ \E a \in Launches : Queues(a) \/ Imports(a)
    \/ EmptiesQueue
    \/ \E as \in SUBSET Launches : Refuses(as) \/ Leaves(as)

Spec == Init /\ [][Next]_vars
=============================================================================
