---------------------------- MODULE VerifiedFile ----------------------------
(***************************************************************************)
(* What download_file promises of one destination, without locks, hosts,   *)
(* attempts or .part files: calls have turns, the destination is replaced  *)
(* in one step by a content that the call whose turn it is accepts, that   *)
(* step is also what lets the call answer ok, and nothing else touches the *)
(* destination.  A call that is cut off may leave a file operation in      *)
(* flight: from then on the destination is loose, and nothing is promised  *)
(* of it until the launcher is started anew.  Downloads implements this    *)
(* specification.                                                          *)
(***************************************************************************)
CONSTANTS
    Calls,
    Contents,  \* what files can hold, Missing among them
    Missing,   \* what the destination is when there is none
    Nobody

VARIABLES
    file,      \* the destination: a content or Missing
    turn,      \* the call whose turn it is, or Nobody
    accepts,   \* the contents that pass its verification
    answer,    \* what it will answer
    loose      \* an operation of a call that was cut off may still land

vars == <<file, turn, accepts, answer, loose>>

TypeOK ==
    /\ file \in Contents
    /\ turn \in Calls \cup {Nobody}
    /\ accepts \subseteq Contents
    /\ answer \in {"none", "ok", "error"}
    /\ loose \in BOOLEAN

Init ==
    /\ file \in Contents
    /\ turn = Nobody /\ accepts = {} /\ answer = "none"
    /\ loose = FALSE

Undecided == turn # Nobody /\ answer = "none"

Begins(c) ==
    /\ turn = Nobody /\ turn' = c
    /\ accepts' \in SUBSET (Contents \ {Missing})
    /\ UNCHANGED <<file, answer, loose>>

\* What is there passes, or is what was downloaded.
Finds ==
    /\ Undecided /\ file \in accepts
    /\ answer' = "ok"
    /\ UNCHANGED <<file, turn, accepts, loose>>

\* A content is put in the place of a different one.
Replaces(f) ==
    /\ Undecided /\ f \in accepts /\ f # file
    /\ file' = f /\ answer' = "ok"
    /\ UNCHANGED <<turn, accepts, loose>>

Fails ==
    /\ Undecided
    /\ answer' = "error"
    /\ UNCHANGED <<file, turn, accepts, loose>>

\* The call has answered, or was cut off: the destination stays, for now.
Ends ==
    /\ turn # Nobody
    /\ turn' = Nobody /\ accepts' = {} /\ answer' = "none"
    /\ loose' \in {loose, TRUE}
    /\ UNCHANGED file

\* Something lands, or a call took what had landed for its own.
Slips(f) ==
    /\ loose
    /\ file' = f
    /\ UNCHANGED answer \/ (Undecided /\ answer' = "ok")
    /\ UNCHANGED <<turn, accepts, loose>>

Restarts ==
    /\ turn' = Nobody /\ accepts' = {} /\ answer' = "none" /\ loose' = FALSE
    /\ UNCHANGED file

Next ==
    \/ \E c \in Calls : Begins(c)
    \/ Finds \/ Fails \/ Ends \/ Restarts
    \/ \E f \in Contents : Replaces(f) \/ Slips(f)

Spec == Init /\ [][Next]_vars
=============================================================================
