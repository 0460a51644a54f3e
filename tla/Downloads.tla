------------------------------ MODULE Downloads ------------------------------
(***************************************************************************)
(* Verified downloads into one destination file                            *)
(* (native/engine/src/download.rs, HttpClient::download_file).             *)
(*                                                                         *)
(* Calls for the same destination take turns through a lock object that is *)
(* looked up by path and forgotten when nobody uses it.  The holder        *)
(* resumes or restarts <dest>.part from a host or its mirror and renames   *)
(* it over the destination once it is verified.  Files survive a crash of  *)
(* the launcher; locks, calls and the mirror preference do not.  A call    *)
(* that is dropped gives up its lock at once, but a file operation it had  *)
(* handed to the runtime's blocking pool still takes effect, later.        *)
(*                                                                         *)
(* A file's content is the sequence of its blocks, each marked with the    *)
(* version it comes from.  Servers may replace the version they serve at   *)
(* any time.                                                               *)
(***************************************************************************)
EXTENDS Integers, FiniteSets, Sequences

CONSTANTS
  Calls,       \* callers of download_file, one call at a time each
  Locks,       \* lock objects
  Versions,    \* contents a server may have under the URL
  Blocks,      \* blocks of the longest version
  Size,        \* [Versions -> blocks of the version]
  Attempts,    \* HttpOptions::download_attempts (5 in the code)
  MaxLate,     \* bound on the operations of dropped calls in flight at a time
  None

ASSUME DownloadsAssumption ==
  /\ IsFiniteSet(Calls)
  /\ Blocks \in Nat \ {0} /\ Attempts \in Nat \ {0} /\ MaxLate \in Nat
  /\ Size \in [Versions -> 1 .. Blocks]
  /\ None \notin Calls \cup Versions \cup Locks
  /\ \E names \in [Calls -> Locks] : \A c, d \in Calls : c # d => names[c] # names[d]

VARIABLES
  file,     \* the destination's blocks, or <<>>: not there
  part,     \* the blocks of <dest>.part, or <<>>: empty or not there
  identity, \* history: flips when the destination is replaced (its mtime)
  entry,    \* dest_locks of the path: a lock object or None
  ref,      \* [Calls -> the lock object the call has a reference to, or None]
  holder,   \* [Locks -> the call that has its guard, or None]
  want,     \* [Calls -> how the call verifies, and the version by sha1]
  at,       \* [Calls -> where the call is]
  second,   \* calls that are at their second host
  host,     \* [Calls -> the host the call asks now]
  tries,    \* [Calls -> requests made to that host]
  body,     \* [Calls -> the version of the response it reads]
  outcome,  \* [Calls -> what it will return]
  prefer,   \* the mirror is preferred: prefer_mirror_until has not passed
  late,     \* [Calls -> the file operation a dropped call left in flight, or "none"]
  stray     \* history: a call was dropped with one since the launcher started

files == <<file, part, identity>>
pool == <<late, stray>>
locks == <<entry, ref, holder>>
steps == <<at, second, host, tries, body, outcome>>
vars == <<file, part, identity, entry, ref, holder, want, at, second, host,
          tries, body, outcome, prefer, late, stray>>

Hosts == {"primary", "mirror"}
Other(h) == IF h = "primary" THEN "mirror" ELSE "primary"
Unset == [by |-> "nothing", version |-> None]
Wants == [by : {"sha1", "size"}, version : Versions] \cup {Unset}
Phases == {"idle", "waiting", "present", "request", "receiving", "finalize",
           "outage", "return", "release"}

\* The calls that have the guard of their lock.
Inside == {"present", "request", "receiving", "finalize", "outage", "return"}

Contents == UNION {[1 .. n -> Versions] : n \in 0 .. Blocks}
Whole(v) == [i \in 1 .. Size[v] |-> v]

\* What a call's verification can tell: sha1 every block, size only their
\* number.  Without either no file counts as present, and any body that was
\* received passes (BodyEnds).
SameLength(c, f) ==                                                \* (mutant)
  want[c].by # "nothing" /\ Len(f) = Size[want[c].version]
Verifies(c, f) ==
  \/ want[c].by = "sha1" /\ f = Whole(want[c].version)
  \/ want[c].by = "size" /\ Len(f) = Size[want[c].version]

\* What an operation on the .part can be: the rename over the destination, a
\* write through the handle, or a truncation (File::create) or removal.
Operations == {"move", "write", "clear"}

TypeOK ==
  /\ file \in Contents /\ part \in Contents /\ identity \in BOOLEAN
  /\ entry \in Locks \cup {None}
  /\ ref \in [Calls -> Locks \cup {None}]
  /\ holder \in [Locks -> Calls \cup {None}]
  /\ want \in [Calls -> Wants]
  /\ at \in [Calls -> Phases]
  /\ second \subseteq Calls
  /\ host \in [Calls -> Hosts]
  /\ tries \in [Calls -> 0 .. Attempts]
  /\ body \in [Calls -> Versions \cup {None}]
  /\ outcome \in [Calls -> {"none", "ok", "error"}]
  /\ prefer \in BOOLEAN
  /\ late \in [Calls -> Operations \cup {"none"}] /\ stray \in BOOLEAN

Init ==
  /\ file \in Contents
  /\ part = <<>> /\ identity = FALSE
  /\ entry = None
  /\ ref = [c \in Calls |-> None] /\ holder = [l \in Locks |-> None]
  /\ want = [c \in Calls |-> Unset]
  /\ at = [c \in Calls |-> "idle"]
  /\ second = {}
  /\ host = [c \in Calls |-> "primary"]
  /\ tries = [c \in Calls |-> 0]
  /\ body = [c \in Calls |-> None]
  /\ outcome = [c \in Calls |-> "none"]
  /\ prefer = FALSE
  /\ late = [c \in Calls |-> "none"] /\ stray = FALSE

Goes(c, from, to) == at[c] = from /\ at' = [at EXCEPT ![c] = to]
Returns(c, from, o) == Goes(c, from, "return") /\ outcome' = [outcome EXCEPT ![c] = o]

-----------------------------------------------------------------------------
(* The lock of the destination.                                            *)

\* Arc::strong_count: the map's reference and those of the calls.
StrongCount(l) == Cardinality({c \in Calls : ref[c] = l}) + (IF entry = l THEN 1 ELSE 0)

\* What is left of a call that is over: nothing.
Forget(cs) ==
  /\ want' = [c \in Calls |-> IF c \in cs THEN Unset ELSE want[c]]
  /\ second' = second \ cs
  /\ host' = [c \in Calls |-> IF c \in cs THEN "primary" ELSE host[c]]
  /\ tries' = [c \in Calls |-> IF c \in cs THEN 0 ELSE tries[c]]
  /\ body' = [c \in Calls |-> IF c \in cs THEN None ELSE body[c]]
  /\ outcome' = [c \in Calls |-> IF c \in cs THEN "none" ELSE outcome[c]]

\* dest_lock: the lock in the map, or a new one.
LooksUp(c) ==
  /\ Goes(c, "idle", "waiting")
  /\ IF entry # None THEN UNCHANGED entry
                     ELSE \E l \in Locks : StrongCount(l) = 0 /\ entry' = l
  /\ ref' = [ref EXCEPT ![c] = entry']
  /\ UNCHANGED <<files, holder, want, second, host, tries, body, outcome, prefer, pool>>

\* The call's turn comes, whose options matter from now on; via_mirror picks
\* its first host.
TakesTurn(c, w) ==
  /\ Goes(c, "waiting", "present")
  /\ holder[ref[c]] = None
  /\ holder' = [holder EXCEPT ![ref[c]] = c]
  /\ want' = [want EXCEPT ![c] = w]
  /\ \/ /\ host' = [host EXCEPT ![c] = IF prefer THEN "mirror" ELSE "primary"]
        /\ UNCHANGED second
     \/ second' = second \cup {c} /\ UNCHANGED host     \* a host without a mirror
  /\ UNCHANGED <<files, entry, ref, tries, body, outcome, prefer, pool>>

\* The guard is dropped ...
Unlocks(c) ==
  /\ Goes(c, "return", "release")
  /\ holder' = [holder EXCEPT ![ref[c]] = None]
  /\ Forget({c})
  /\ UNCHANGED <<files, entry, ref, prefer, pool>>

\* ... and then release_dest_lock: the map and this call, nobody else.
NoMore(c) == StrongCount(ref[c]) <= 3                              \* (mutant)
Unused(c) == StrongCount(ref[c]) <= 2

Releases(c) ==
  /\ Goes(c, "release", "idle")
  /\ entry' = IF Unused(c) THEN None ELSE entry
  /\ ref' = [ref EXCEPT ![c] = None]
  /\ UNCHANGED <<files, holder, want, second, host, tries, body, outcome, prefer, pool>>

\* What the call may have handed to the blocking pool and not yet awaited.
InFlight(c) ==
  CASE at[c] = "request"   -> {"clear"}
    [] at[c] = "receiving" -> {"write", "clear"}
    [] at[c] = "finalize"  -> {"move", "clear"}
    [] OTHER -> {}

\* The future is dropped (engine shutdown): the guard and the reference go,
\* the map keeps the lock, and an operation in flight stays in flight.
Cancelled(c) ==
  /\ at[c] \notin {"idle", "release"}
  /\ at' = [at EXCEPT ![c] = "idle"]
  /\ holder' = IF holder[ref[c]] = c THEN [holder EXCEPT ![ref[c]] = None] ELSE holder
  /\ ref' = [ref EXCEPT ![c] = None]
  /\ Forget({c})
  /\ \/ UNCHANGED pool
     \/ /\ late[c] = "none" /\ Cardinality({d \in Calls : late[d] # "none"}) < MaxLate
        /\ \E op \in InFlight(c) : late' = [late EXCEPT ![c] = op]
        /\ stray' = TRUE
  /\ UNCHANGED <<files, entry, prefer>>

\* It lands, or fails.  A write reaches the file the handle was opened for,
\* whatever its name is by now, and what others have meanwhile done to that
\* file is not followed: any content may result.
Lands(c) ==
  /\ late[c] # "none"
  /\ late' = [late EXCEPT ![c] = "none"]
  /\ \/ UNCHANGED files
     \/ /\ late[c] = "move" /\ part # <<>>
        /\ file' = part /\ part' = <<>> /\ identity' = ~identity
     \/ late[c] = "clear" /\ part' = <<>> /\ UNCHANGED <<file, identity>>
     \/ /\ late[c] = "write"
        /\ \E f \in Contents : \/ part' = f /\ UNCHANGED <<file, identity>>
                               \/ file' = f /\ identity' = ~identity /\ UNCHANGED part
  /\ UNCHANGED <<locks, want, steps, prefer, stray>>

-----------------------------------------------------------------------------
(* via_mirror                                                              *)

\* The first host failed as an outage: the other one is asked from now on,
\* starting over with the .part as it is.
FallsBack(c) ==
  /\ c \notin second
  /\ Goes(c, "outage", "present")
  /\ prefer' = (host[c] = "primary")
  /\ host' = [host EXCEPT ![c] = Other(@)]
  /\ tries' = [tries EXCEPT ![c] = 0]
  /\ second' = second \cup {c}
  /\ UNCHANGED <<files, locks, want, body, outcome, pool>>

BothFailed(c) ==
  /\ c \in second
  /\ Returns(c, "outage", "error")
  /\ UNCHANGED <<files, locks, want, second, host, tries, body, prefer, pool>>

\* mirror_sticky has passed.
PreferenceExpires ==
  /\ prefer
  /\ prefer' = FALSE
  /\ UNCHANGED <<files, locks, want, steps, pool>>

-----------------------------------------------------------------------------
(* download_inner                                                          *)

\* Already present and verified, or a .part that verifies is a finished
\* download (the latter by sha1 only).
ChecksPresent(c) ==
  /\ \/ Verifies(c, file) /\ Returns(c, "present", "ok")
     \/ /\ ~Verifies(c, file)
        /\ IF want[c].by = "sha1" /\ Verifies(c, part)
             THEN Goes(c, "present", "finalize")
             ELSE Goes(c, "present", "request")
        /\ UNCHANGED outcome
  /\ UNCHANGED <<files, locks, want, second, host, tries, body, prefer, pool>>

\* A network error, no answer in time, or a 5xx: an outage.  Any other
\* status is an answer.
NoAnswer(c) ==
  /\ tries[c] < Attempts
  /\ Goes(c, "request", "outage")
  /\ UNCHANGED <<files, locks, want, second, host, tries, body, outcome, prefer, pool>>

Refuses(c) ==
  /\ tries[c] < Attempts
  /\ Returns(c, "request", "error")
  /\ UNCHANGED <<files, locks, want, second, host, tries, body, prefer, pool>>

Forgets(c) == UNCHANGED tries                                      \* (mutant)
Counts(c) == tries' = [tries EXCEPT ![c] = @ + 1]

\* 200: the .part is started anew.
SendsAll(c, v) ==
  /\ tries[c] < Attempts
  /\ Goes(c, "request", "receiving")
  /\ Counts(c)
  /\ body' = [body EXCEPT ![c] = v]
  /\ part' = <<>>
  /\ UNCHANGED <<file, identity, locks, want, second, host, outcome, prefer, pool>>

\* 206: the rest of what the server has now is appended, if it has more.
SendsRest(c, v) ==
  /\ part # <<>> /\ Len(part) < Size[v] /\ tries[c] < Attempts
  /\ Goes(c, "request", "receiving")
  /\ Counts(c)
  /\ body' = [body EXCEPT ![c] = v]
  /\ UNCHANGED <<files, locks, want, second, host, outcome, prefer, pool>>

\* 416: nothing is left to send.  The .part is the whole file, or is dropped
\* and the next attempt starts over.
NothingLeft(c) ==
  /\ \E v \in Versions : Len(part) >= Size[v]
  /\ tries[c] < Attempts
  /\ Counts(c)
  /\ IF Verifies(c, part)
       THEN Goes(c, "request", "finalize") /\ UNCHANGED part
       ELSE /\ at[c] = "request"
            /\ part' = <<>>
            /\ UNCHANGED at
  /\ UNCHANGED <<file, identity, locks, want, second, host, body, outcome, prefer, pool>>

Receives(c) ==
  /\ at[c] = "receiving" /\ Len(part) < Size[body[c]]
  /\ part' = Append(part, body[c])
  /\ UNCHANGED <<file, identity, locks, want, steps, prefer, pool>>

\* The connection breaks, or no data comes for the stall timeout.
Interrupted(c) ==
  /\ Goes(c, "receiving", "request")
  /\ UNCHANGED <<files, locks, want, second, host, tries, body, outcome, prefer, pool>>

\* The directory cannot be made, or a chunk cannot be written: any error that is
\* not an answer of the server counts as an outage.
DiskFails(c) ==
  /\ at[c] \in {"present", "receiving"}
  /\ at' = [at EXCEPT ![c] = "outage"]
  /\ UNCHANGED <<files, locks, want, second, host, tries, body, outcome, prefer, pool>>

TriesUsedUp(c) ==
  /\ tries[c] >= Attempts
  /\ Goes(c, "request", "outage")
  /\ UNCHANGED <<files, locks, want, second, host, tries, body, outcome, prefer, pool>>

\* The body ends; one shorter than announced is an interrupted one.
\* Only a stray operation can make the .part differ from what was received.
IsComplete(c) == Len(part) = Size[body[c]] \/ stray

\* What was received is verified: a wrong sha1 is final, a wrong size an outage.
BodyEnds(c) ==
  /\ at[c] = "receiving" /\ IsComplete(c)
  /\ IF want[c].by = "nothing" \/ Verifies(c, part)
       THEN Goes(c, "receiving", "finalize") /\ UNCHANGED <<part, outcome>>
       ELSE /\ part' = <<>>
            /\ IF want[c].by = "sha1"
                 THEN Returns(c, "receiving", "error")
                 ELSE Goes(c, "receiving", "outage") /\ UNCHANGED outcome
  /\ UNCHANGED <<file, identity, locks, want, second, host, tries, body, prefer, pool>>

\* finalize_part: without a sha1 an identical file keeps its identity.
NeverSame(c) == FALSE                                              \* (mutant)
SameContent(c) == want[c].by # "sha1" /\ part # <<>> /\ part = file

Finalizes(c) ==
  /\ part # <<>>
  /\ Returns(c, "finalize", "ok")
  /\ IF SameContent(c) THEN UNCHANGED <<file, identity>>
                       ELSE file' = part /\ identity' = ~identity
  /\ part' = <<>>
  /\ UNCHANGED <<locks, want, second, host, tries, body, prefer, pool>>

RemovesFirst(c) ==                                                 \* (mutant)
  /\ ~SameContent(c)
  /\ Goes(c, "finalize", "outage")
  /\ file' = <<>>
  /\ UNCHANGED <<part, identity, locks, want, second, host, tries, body, outcome, prefer, pool>>

\* The file cannot be moved over the destination, which may be in use.  Unless
\* a verified one is there by now this is an outage: the .part stays, and the
\* other host is asked.
RenameFails(c) ==
  /\ ~SameContent(c)
  /\ \/ Verifies(c, file) /\ Returns(c, "finalize", "ok")
     \/ ~Verifies(c, file) /\ Goes(c, "finalize", "outage") /\ UNCHANGED outcome
  /\ UNCHANGED <<files, locks, want, second, host, tries, body, prefer, pool>>

-----------------------------------------------------------------------------
\* The launcher dies at any step and is started again.
Crash ==
  /\ at' = [c \in Calls |-> "idle"]
  /\ entry' = None
  /\ ref' = [c \in Calls |-> None] /\ holder' = [l \in Locks |-> None]
  /\ prefer' = FALSE
  /\ Forget(Calls)
  /\ late' = [c \in Calls |-> "none"] /\ stray' = FALSE
  /\ UNCHANGED files

Step(c) ==
  \/ \E w \in Wants : TakesTurn(c, w)
  \/ Unlocks(c) \/ Releases(c)
  \/ FallsBack(c) \/ BothFailed(c)
  \/ ChecksPresent(c) \/ NoAnswer(c) \/ Refuses(c)
  \/ \E v \in Versions : SendsAll(c, v) \/ SendsRest(c, v)
  \/ NothingLeft(c) \/ Receives(c) \/ Interrupted(c) \/ DiskFails(c)
  \/ TriesUsedUp(c) \/ BodyEnds(c) \/ Finalizes(c) \/ RenameFails(c)

Next ==
  \/ \E c \in Calls : LooksUp(c) \/ Step(c) \/ Cancelled(c) \/ Lands(c)
  \/ PreferenceExpires \/ Crash

Spec == Init /\ [][Next]_vars

-----------------------------------------------------------------------------
(* Properties.                                                             *)

\* "Concurrent calls for the same dest are serialized" (download_file): one
\* call at a time works on the .part and the destination, whatever locks were
\* forgotten and created in between. What a dropped call left in flight takes
\* no turn (Lands).
OneWriter ==
  \A c, d \in Calls : at[c] \in Inside /\ at[d] \in Inside => c = d

\* A call returns Ok only with a file in place, the very content if it gave a
\* sha1, whatever .part it resumed, whichever hosts it was sent from and
\* whichever rename failed (download_inner): as long as no call was dropped
\* amid a file operation since the launcher started.
OkIsVerified ==
  ~stray =>
    \A c \in Calls :
      at[c] = "return" /\ outcome[c] = "ok" =>
        /\ file # <<>>
        /\ want[c].by = "sha1" => file = Whole(want[c].version)

\* A download never replaces the destination by the same content: its mtime,
\* which the AOT cache stamps, changes only with its bytes (finalize_part). A
\* rename that lands after its call was dropped is not a download's.
IdentityKept == [][identity' # identity /\ ~stray => file' # file]_vars

\* The destination as its readers see it: the call inside has the turn. A
\* download without sha1 and size is as long as the version it was sent last.
AsLongAs(vs) == UNION {[1 .. Size[v] -> Versions] : v \in vs}
Turn ==
  IF \E c \in Calls : at[c] \in Inside THEN CHOOSE c \in Calls : at[c] \in Inside ELSE None
AcceptedBy(w) ==
  CASE w.by = "sha1" -> {Whole(w.version)}
    [] w.by = "size" -> AsLongAs({w.version})
    [] OTHER -> AsLongAs(Versions)
Accepts == IF Turn = None THEN {} ELSE AcceptedBy(want[Turn])
Answer == IF Turn = None THEN "none" ELSE outcome[Turn]

Destination == INSTANCE VerifiedFile WITH
  Missing <- <<>>, Nobody <- None,
  turn <- Turn, accepts <- Accepts, answer <- Answer, loose <- stray

\* Locks, .part files, hosts, failed renames and crashes implement a
\* destination that is only ever replaced in one step, by what the call whose
\* turn it is accepts and together with its Ok; an error, a crash or a dropped
\* call leaves it as it was, except that an operation the dropped call had in
\* flight may still land until the launcher is started anew (download_file).
ImplementsVerifiedFile == Destination!Spec

\* How far a call is from its next request or its answer.
Distance ==
  [present |-> 4, receiving |-> 4, request |-> 3, finalize |-> 2, outage |-> 1, return |-> 0]

Moves(c) == at'[c] # at[c] \/ tries'[c] # tries[c] \/ host'[c] # host[c]
Pays(c) ==
  \/ c \notin second /\ c \in second'
  \/ /\ c \in second <=> c \in second'
     /\ \/ tries[c] < tries'[c] /\ tries'[c] <= Attempts
        \/ tries'[c] = tries[c] /\ Distance[at'[c]] < Distance[at[c]]

\* A call cannot go on for ever, whatever servers, the disk and the operations
\* of dropped calls do: each of its steps takes it to its second host, of which
\* it has one, or uses up a request of that host's attempts, or brings it nearer
\* to its next request or its answer. The steps between that only receive are
\* bounded by the body (via_mirror, download_inner).
EffortIsBounded ==
  [][\A c \in Calls : at[c] \in Inside /\ at'[c] \in Inside /\ Moves(c) => Pays(c)]_vars
=============================================================================
