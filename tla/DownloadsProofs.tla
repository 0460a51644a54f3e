--------------------------- MODULE DownloadsProofs ---------------------------
(***************************************************************************)
(* Proofs that calls for one destination take turns, that Ok means         *)
(* verified and that equal content keeps its file, for any numbers of      *)
(* calls, locks, versions, blocks and attempts.                            *)
(***************************************************************************)
EXTENDS Downloads, FiniteSetTheorems, TLAPS

-----------------------------------------------------------------------------
(* Typing.                                                                 *)

\* A body is read only of a version some server has.
BodyKnown == \A c \in Calls : at[c] = "receiving" => body[c] \in Versions

Typed == TypeOK /\ BodyKnown

\* A file is a sequence of blocks no longer than the longest version.
LEMMA ContentIsSeq ==
  ASSUME NEW f
  PROVE  f \in Contents <=> f \in Seq(Versions) /\ Len(f) <= Blocks
<1>1. ASSUME f \in Contents PROVE f \in Seq(Versions) /\ Len(f) <= Blocks
  <2>1. PICK n \in 0 .. Blocks : f \in [1 .. n -> Versions]
    BY <1>1 DEF Contents
  <2>2. n \in Nat /\ n <= Blocks
    BY DownloadsAssumption DEF DownloadsAssumption
  <2> QED
    BY <2>1, <2>2
<1>2. ASSUME f \in Seq(Versions), Len(f) <= Blocks PROVE f \in Contents
  <2>1. Len(f) \in 0 .. Blocks /\ f \in [1 .. Len(f) -> Versions]
    BY <1>2, DownloadsAssumption DEF DownloadsAssumption
  <2> QED
    BY <2>1 DEF Contents
<1> QED
  BY <1>1, <1>2

LEMMA SizeTyped == \A v \in Versions : Size[v] \in 1 .. Blocks /\ Size[v] \in Nat \ {0}
BY DownloadsAssumption DEF DownloadsAssumption

LEMMA WholeTyped ==
  ASSUME NEW v \in Versions
  PROVE  Whole(v) \in Contents /\ Len(Whole(v)) = Size[v] /\ Whole(v) # <<>>
<1>1. Whole(v) \in [1 .. Size[v] -> Versions] /\ Size[v] \in Nat \ {0} /\ Size[v] \in 0 .. Blocks
  BY SizeTyped DEF Whole
<1> QED
  BY <1>1 DEF Contents

LEMMA EmptyTyped == <<>> \in Contents
<1>1. <<>> \in [1 .. 0 -> Versions] /\ 0 \in 0 .. Blocks
  BY DownloadsAssumption DEF DownloadsAssumption
<1> QED
  BY <1>1 DEF Contents

LEMMA AppendTyped ==
  ASSUME NEW f \in Contents, NEW v \in Versions, NEW w \in Versions, Len(f) < Size[w]
  PROVE  Append(f, v) \in Contents
<1>1. f \in Seq(Versions)
  BY ContentIsSeq
<1>2. Size[w] \in Nat /\ Size[w] <= Blocks /\ Blocks \in Nat /\ Len(f) \in Nat
  BY <1>1, DownloadsAssumption DEF DownloadsAssumption
<1>3. Len(f) + 1 <= Blocks
  BY <1>2
<1>4. Append(f, v) \in Seq(Versions) /\ Len(Append(f, v)) = Len(f) + 1
  BY <1>1
<1> QED
  BY <1>3, <1>4, ContentIsSeq

\* What a call accepts is a file, and never an empty one.
LEMMA AcceptedTyped ==
  ASSUME NEW w \in Wants
  PROVE  AcceptedBy(w) \subseteq Contents \ {<<>>}
<1>1. ASSUME NEW v \in Versions, NEW f \in [1 .. Size[v] -> Versions]
      PROVE  f \in Contents \ {<<>>}
  <2>1. Size[v] \in 0 .. Blocks /\ Size[v] \in Nat \ {0}
    BY SizeTyped, DownloadsAssumption DEF DownloadsAssumption
  <2> QED
    BY <2>1 DEF Contents
<1>2. \A vs \in SUBSET Versions : AsLongAs(vs) \subseteq Contents \ {<<>>}
  BY <1>1 DEF AsLongAs
<1>3. CASE w.by = "sha1" /\ w.version \in Versions
  BY <1>3, WholeTyped DEF AcceptedBy
<1>4. CASE w.by = "size" /\ w.version \in Versions
  BY <1>2, <1>4 DEF AcceptedBy
<1>5. CASE w = Unset
  BY <1>2, <1>5 DEF AcceptedBy, Unset
<1> QED
  BY <1>3, <1>4, <1>5 DEF Wants

\* Every file as long as a version is accepted when nothing is verified.
LEMMA LengthAccepted ==
  ASSUME NEW f \in Contents, NEW vs \in SUBSET Versions, NEW v \in vs, Len(f) = Size[v]
  PROVE  f \in AsLongAs(vs)
<1>1. f \in [1 .. Size[v] -> Versions]
  BY ContentIsSeq
<1> QED
  BY <1>1 DEF AsLongAs

\* What verifies is accepted.
LEMMA VerifiedAccepted ==
  ASSUME Typed, NEW c \in Calls, NEW f \in Contents, Verifies(c, f)
  PROVE  f \in AcceptedBy(want[c])
<1>1. want[c] \in Wants
  BY DEF Typed, TypeOK
<1>2. CASE want[c].by = "sha1"
  BY <1>2 DEF Verifies, AcceptedBy
<1>3. CASE want[c].by = "size"
  <2>1. want[c].version \in Versions /\ Len(f) = Size[want[c].version]
    BY <1>1, <1>3 DEF Wants, Unset, Verifies
  <2> QED
    BY <1>3, <2>1, LengthAccepted DEF AcceptedBy
<1> QED
  BY <1>2, <1>3 DEF Verifies

LEMMA TypedInit == Init => Typed
<1> SUFFICES ASSUME Init PROVE Typed
  OBVIOUS
<1>1. file \in Contents /\ part \in Contents
  BY EmptyTyped DEF Init
<1>2. want \in [Calls -> Wants] /\ tries \in [Calls -> 0 .. Attempts]
  BY DownloadsAssumption DEF Init, Wants, Unset, DownloadsAssumption
<1> QED
  BY <1>1, <1>2 DEF Init, Typed, TypeOK, BodyKnown, Hosts, Phases

LEMMA CountsTyped ==
  ASSUME Typed, NEW c \in Calls, tries[c] < Attempts, Counts(c)
  PROVE  tries' \in [Calls -> 0 .. Attempts]
BY DownloadsAssumption DEF DownloadsAssumption, Typed, TypeOK, Counts

LEMMA ForgetTyped ==
  ASSUME Typed, NEW cs \in SUBSET Calls, Forget(cs)
  PROVE  /\ want' \in [Calls -> Wants] /\ second' \subseteq Calls
         /\ host' \in [Calls -> Hosts] /\ tries' \in [Calls -> 0 .. Attempts]
         /\ body' \in [Calls -> Versions \cup {None}]
         /\ outcome' \in [Calls -> {"none", "ok", "error"}]
         /\ \A c \in Calls \ cs : body'[c] = body[c]
BY DownloadsAssumption DEF DownloadsAssumption, Typed, TypeOK, Forget, Wants, Unset, Hosts

LEMMA TypedStep == Typed /\ [Next]_vars => Typed'
<1> SUFFICES ASSUME Typed, [Next]_vars PROVE Typed'
  OBVIOUS
<1> USE DEF pool
<1>1. ASSUME NEW c \in Calls, LooksUp(c) PROVE Typed'
  BY <1>1 DEF LooksUp, Goes, files, Typed, TypeOK, BodyKnown, Phases
<1>2. ASSUME NEW c \in Calls, NEW w \in Wants, TakesTurn(c, w) PROVE Typed'
  BY <1>2 DEF TakesTurn, Goes, files, Typed, TypeOK, BodyKnown, Phases, Hosts
<1>3. ASSUME NEW c \in Calls, Unlocks(c) PROVE Typed'
  <2>1. Forget({c}) /\ {c} \in SUBSET Calls
    BY <1>3 DEF Unlocks
  <2>2. c \in Calls /\ at' = [at EXCEPT ![c] = "release"]
    BY <1>3 DEF Unlocks, Goes
  <2> QED
    BY <1>3, <2>1, <2>2, ForgetTyped DEF Unlocks, files, Typed, TypeOK, BodyKnown, Phases
<1>4. ASSUME NEW c \in Calls, Releases(c) PROVE Typed'
  BY <1>4 DEF Releases, Goes, files, Typed, TypeOK, BodyKnown, Phases
<1>5. ASSUME NEW c \in Calls, Cancelled(c) PROVE Typed'
  <2>1. Forget({c}) /\ {c} \in SUBSET Calls
    BY <1>5 DEF Cancelled
  <2>2. late' \in [Calls -> Operations \cup {"none"}] /\ stray' \in BOOLEAN
    BY <1>5 DEF Cancelled, InFlight, Operations, Typed, TypeOK
  <2> QED
    BY <1>5, <2>1, <2>2, ForgetTyped DEF Cancelled, files, Typed, TypeOK, BodyKnown, Phases
<1>6. ASSUME NEW c \in Calls, FallsBack(c) \/ BothFailed(c) PROVE Typed'
  <2>1. [tries EXCEPT ![c] = 0] \in [Calls -> 0 .. Attempts]
    BY DownloadsAssumption DEF DownloadsAssumption, Typed, TypeOK
  <2> QED
    BY <1>6, <2>1 DEF FallsBack, BothFailed, Returns, Goes, Other, files, locks,
              Typed, TypeOK, BodyKnown, Phases, Hosts
<1>7. ASSUME PreferenceExpires PROVE Typed'
  BY <1>7 DEF PreferenceExpires, files, locks, steps, Typed, TypeOK, BodyKnown
<1>8. ASSUME NEW c \in Calls, ChecksPresent(c) \/ NoAnswer(c) \/ Refuses(c) PROVE Typed'
  BY <1>8 DEF ChecksPresent, NoAnswer, Refuses, Returns, Goes, files, locks,
              Typed, TypeOK, BodyKnown, Phases
<1>9. ASSUME NEW c \in Calls, NEW v \in Versions, SendsAll(c, v) \/ SendsRest(c, v) PROVE Typed'
  <2>1. tries' \in [Calls -> 0 .. Attempts]
    BY <1>9, CountsTyped DEF SendsAll, SendsRest, Typed, TypeOK
  <2>2. /\ part' \in Contents
        /\ at' = [at EXCEPT ![c] = "receiving"] /\ body' = [body EXCEPT ![c] = v]
    BY <1>9, EmptyTyped DEF SendsAll, SendsRest, Goes, files, Typed, TypeOK
  <2>3. UNCHANGED <<file, identity, locks, want, second, host, outcome, prefer, pool>>
    BY <1>9 DEF SendsAll, SendsRest, files
  <2> QED
    BY <2>1, <2>2, <2>3 DEF locks, Typed, TypeOK, BodyKnown, Phases
<1>10. ASSUME NEW c \in Calls, NothingLeft(c) PROVE Typed'
  BY <1>10, EmptyTyped, CountsTyped DEF NothingLeft, Goes, files, locks,
                           Typed, TypeOK, BodyKnown, Phases
<1>11. ASSUME NEW c \in Calls, Receives(c) PROVE Typed'
  <2>1. body[c] \in Versions /\ part' = Append(part, body[c]) /\ part' \in Contents
    BY <1>11, AppendTyped DEF Receives, Typed, TypeOK, BodyKnown
  <2> QED
    BY <1>11, <2>1 DEF Receives, steps, locks, Typed, TypeOK, BodyKnown
<1>12. ASSUME NEW c \in Calls, Interrupted(c) \/ DiskFails(c) \/ TriesUsedUp(c) PROVE Typed'
  BY <1>12 DEF Interrupted, DiskFails, TriesUsedUp, Goes, files, locks, Typed, TypeOK, BodyKnown, Phases
<1>13. ASSUME NEW c \in Calls, BodyEnds(c) PROVE Typed'
  BY <1>13, EmptyTyped DEF BodyEnds, Returns, Goes, locks, Typed, TypeOK, BodyKnown, Phases
<1>14. ASSUME NEW c \in Calls, Finalizes(c) \/ RenameFails(c) PROVE Typed'
  BY <1>14, EmptyTyped DEF Finalizes, RenameFails, Returns, Goes, files, locks,
                           Typed, TypeOK, BodyKnown, Phases
<1>15. ASSUME Crash PROVE Typed'
  BY <1>15, ForgetTyped DEF Crash, files, Typed, TypeOK, BodyKnown, Phases
<1>16. CASE UNCHANGED vars
  BY <1>16 DEF vars, Typed, TypeOK, BodyKnown
<1>17. ASSUME NEW c \in Calls, Lands(c) PROVE Typed'
  <2>1. file' \in Contents /\ part' \in Contents /\ identity' \in BOOLEAN
    BY <1>17, EmptyTyped DEF Lands, files, Typed, TypeOK
  <2>2. late' \in [Calls -> Operations \cup {"none"}]
    BY <1>17 DEF Lands, Typed, TypeOK
  <2> QED
    BY <1>17, <2>1, <2>2 DEF Lands, steps, locks, Typed, TypeOK, BodyKnown
<1> QED
  BY <1>1, <1>2, <1>3, <1>4, <1>5, <1>6, <1>7, <1>8, <1>9, <1>10, <1>11, <1>12,
     <1>13, <1>14, <1>15, <1>16, <1>17 DEF Next, Step

\* Every variable keeps its type: contents never outgrow a version, and no call
\* asks a host more often than its attempts allow (download_inner).
THEOREM DownloadsTyping == Spec => []TypeOK
<1>1. Typed => TypeOK
  BY DEF Typed
<1> QED
  BY <1>1, TypedInit, TypedStep, PTL DEF Spec
-----------------------------------------------------------------------------
(* Calls take turns.  A call that is not idle refers to a lock, and a lock *)
(* that is referred to is the one in the map: release_dest_lock forgets it *)
(* only when the call that releases it is the last.  So the calls inside   *)
(* hold the guard of one lock.                                             *)

Referring ==
  \A c \in Calls :
    /\ at[c] # "idle" => ref[c] \in Locks
    /\ ref[c] # None => entry = ref[c]
    /\ at[c] \in Inside => holder[ref[c]] = c

LEMMA RefersOnce ==
  ASSUME NEW c \in Calls, NEW d \in Calls, c # d, ref[c] # None,
         ref[d] = ref[c], entry = ref[c]
  PROVE  ~Unused(c)
<1> DEFINE R == {x \in Calls : ref[x] = ref[c]}
<1>1. IsFiniteSet(R)
  BY FS_Subset, DownloadsAssumption DEF DownloadsAssumption
<1>2. {c, d} \subseteq R /\ Cardinality({c, d}) = 2
  <2>1. IsFiniteSet({c}) /\ Cardinality({c}) = 1
    BY FS_Singleton
  <2>2. Cardinality({c} \cup {d}) = 2
    BY <2>1, FS_AddElement
  <2> QED
    BY <2>2, {c} \cup {d} = {c, d}
<1>3. Cardinality(R) \in Nat /\ Cardinality(R) >= 2
  BY <1>1, <1>2, FS_Subset, FS_CardinalityType
<1> QED
  BY <1>3 DEF Unused, StrongCount

LEMMA OneInside == Referring => OneWriter
BY DownloadsAssumption DEF DownloadsAssumption, Referring, OneWriter, Inside

LEMMA OneInsideNext == Referring' => OneWriter'
BY DownloadsAssumption DEF DownloadsAssumption, Referring, OneWriter, Inside

LEMMA ReferringStep == Typed /\ Referring /\ [Next]_vars => Referring'
<1> SUFFICES ASSUME Typed, Referring, [Next]_vars PROVE Referring'
  OBVIOUS
<1> USE DEF Inside
<1>1. ASSUME NEW c \in Calls, LooksUp(c) PROVE Referring'
  <2>1. entry' \in Locks /\ (entry # None => entry' = entry)
    BY <1>1 DEF LooksUp, Typed, TypeOK
  <2> QED
    BY <1>1, <2>1, DownloadsAssumption
       DEF LooksUp, Goes, Typed, TypeOK, Referring, DownloadsAssumption
<1>2. ASSUME NEW c \in Calls, NEW w \in Wants, TakesTurn(c, w) PROVE Referring'
  BY <1>2, DownloadsAssumption
     DEF TakesTurn, Goes, Typed, TypeOK, Referring, DownloadsAssumption
<1>3. ASSUME NEW c \in Calls, Unlocks(c) PROVE Referring'
  BY <1>3 DEF Unlocks, Goes, Typed, TypeOK, Referring
<1>4. ASSUME NEW c \in Calls, Releases(c) PROVE Referring'
  <2>1. ref[c] \in Locks /\ ref[c] # None /\ entry = ref[c]
    BY <1>4, DownloadsAssumption DEF Releases, Goes, Referring, DownloadsAssumption
  <2>2. \A d \in Calls \ {c} : ref[d] # None => entry' = ref[d]
    BY <1>4, <2>1, RefersOnce DEF Releases, Referring
  <2> QED
    BY <1>4, <2>2 DEF Releases, Goes, Typed, TypeOK, Referring
<1>5. ASSUME NEW c \in Calls, Cancelled(c) PROVE Referring'
  BY <1>5 DEF Cancelled, Typed, TypeOK, Referring
<1>6. ASSUME NEW c \in Calls, FallsBack(c) \/ BothFailed(c) PROVE Referring'
  BY <1>6 DEF FallsBack, BothFailed, Returns, Goes, locks, Typed, TypeOK, Referring
<1>7. ASSUME NEW c \in Calls, ChecksPresent(c) \/ NoAnswer(c) \/ Refuses(c) PROVE Referring'
  BY <1>7 DEF ChecksPresent, NoAnswer, Refuses, Returns, Goes, locks, Typed, TypeOK, Referring
<1>8. ASSUME NEW c \in Calls, NEW v \in Versions, SendsAll(c, v) \/ SendsRest(c, v)
      PROVE  Referring'
  BY <1>8 DEF SendsAll, SendsRest, Goes, locks, Typed, TypeOK, Referring
<1>9. ASSUME NEW c \in Calls, NothingLeft(c) \/ BodyEnds(c) PROVE Referring'
  BY <1>9 DEF NothingLeft, BodyEnds, Returns, Goes, locks, Typed, TypeOK, Referring
<1>10. ASSUME NEW c \in Calls, Interrupted(c) \/ DiskFails(c) \/ TriesUsedUp(c) PROVE Referring'
  BY <1>10 DEF Interrupted, DiskFails, TriesUsedUp, Goes, locks, Typed, TypeOK, Referring
<1>11. ASSUME NEW c \in Calls, Finalizes(c) \/ RenameFails(c) PROVE Referring'
  BY <1>11 DEF Finalizes, RenameFails, Returns, Goes, locks, Typed, TypeOK, Referring
<1>12. ASSUME Crash PROVE Referring'
  BY <1>12 DEF Crash, Referring
<1>13. CASE \/ PreferenceExpires \/ UNCHANGED vars
            \/ \E c \in Calls : Receives(c) \/ Lands(c)
  BY <1>13 DEF PreferenceExpires, Receives, Lands, vars, locks, steps, Referring
<1> QED
  BY <1>1, <1>2, <1>3, <1>4, <1>5, <1>6, <1>7, <1>8, <1>9, <1>10, <1>11, <1>12, <1>13
     DEF Next, Step

\* Concurrent calls for a destination are serialized, although its lock is
\* forgotten and made anew (download_file, release_dest_lock).
THEOREM DownloadsSerialized == Spec => []OneWriter
<1>1. Init => Referring
  BY DEF Init, Referring, Inside
<1> QED
  BY <1>1, TypedInit, TypedStep, ReferringStep, OneInside, PTL DEF Spec
-----------------------------------------------------------------------------
(* Only a call that is about to return has an answer.                      *)

Answered == \A c \in Calls : at[c] # "return" => outcome[c] = "none"

LEMMA AnsweredStep == Typed /\ Answered /\ [Next]_vars => Answered'
<1> SUFFICES ASSUME Typed, Answered, [Next]_vars PROVE Answered'
  OBVIOUS
<1> USE DEF Typed, TypeOK, Answered
<1>1. ASSUME NEW c \in Calls, LooksUp(c) \/ Releases(c) PROVE Answered'
  BY <1>1 DEF LooksUp, Releases, Goes
<1>2. ASSUME NEW c \in Calls, NEW w \in Wants, TakesTurn(c, w) PROVE Answered'
  BY <1>2 DEF TakesTurn, Goes
<1>3. ASSUME NEW c \in Calls, Unlocks(c) \/ Cancelled(c) PROVE Answered'
  BY <1>3 DEF Unlocks, Cancelled, Goes, Forget
<1>4. ASSUME NEW c \in Calls,
             FallsBack(c) \/ NoAnswer(c) \/ Interrupted(c) \/ DiskFails(c) \/ TriesUsedUp(c)
      PROVE  Answered'
  BY <1>4 DEF FallsBack, NoAnswer, Interrupted, DiskFails, TriesUsedUp, Goes
<1>5. ASSUME NEW c \in Calls, BothFailed(c) \/ Refuses(c) \/ Finalizes(c) \/ RenameFails(c)
      PROVE  Answered'
  BY <1>5 DEF BothFailed, Refuses, Finalizes, RenameFails, Returns, Goes
<1>6. ASSUME NEW c \in Calls, ChecksPresent(c) \/ BodyEnds(c) PROVE Answered'
  BY <1>6 DEF ChecksPresent, BodyEnds, Returns, Goes
<1>7. ASSUME NEW c \in Calls, NEW v \in Versions, SendsAll(c, v) \/ SendsRest(c, v)
      PROVE  Answered'
  BY <1>7 DEF SendsAll, SendsRest, Goes
<1>8. ASSUME NEW c \in Calls, NothingLeft(c) \/ Receives(c) PROVE Answered'
  BY <1>8 DEF NothingLeft, Receives, Goes, steps
<1>9. ASSUME Crash PROVE Answered'
  BY <1>9 DEF Crash, Forget
<1>10. CASE PreferenceExpires \/ UNCHANGED vars \/ \E c \in Calls : Lands(c)
  BY <1>10 DEF PreferenceExpires, Lands, vars, steps
<1> QED
  BY <1>1, <1>2, <1>3, <1>4, <1>5, <1>6, <1>7, <1>8, <1>9, <1>10 DEF Next, Step

-----------------------------------------------------------------------------
(* Ok means verified.  Only the call inside changes the files, so what it  *)
(* found out about them on its way still holds when it renames the .part,  *)
(* unless a dropped call left something in flight.                         *)

Pending == {"request", "receiving", "finalize"}

Sound(c) ==
  /\ late[c] = "none"
  /\ at[c] = "finalize" => part \in AcceptedBy(want[c])
  /\ at[c] \in Pending => ~Verifies(c, file)
  /\ at[c] = "return" /\ outcome[c] = "ok" =>
       file # <<>> /\ (want[c].by = "sha1" => file = Whole(want[c].version))

Checked == ~stray => \A c \in Calls : Sound(c)

\* What a call wants tells what it accepts and what verifies.
LEMMA SameWants ==
  ASSUME NEW c \in Calls, want'[c] = want[c]
  PROVE  /\ AcceptedBy(want[c])' = AcceptedBy(want[c])
         /\ \A f : Verifies(c, f)' <=> Verifies(c, f)
         /\ Whole(want[c].version)' = Whole(want[c].version)
BY DEF AcceptedBy, AsLongAs, Whole, Verifies

\* A call that is left alone, and files that are: nothing is lost.
LEMMA SoundStays ==
  ASSUME NEW c \in Calls, Sound(c), late'[c] = "none", at'[c] = at[c], want'[c] = want[c],
         outcome'[c] = outcome[c], file' = file, part' = part
  PROVE  Sound(c)'
BY SameWants DEF Sound

\* Calls at any other place know nothing of the files.
LEMMA SoundElsewhere ==
  ASSUME NEW c \in Calls, late'[c] = "none",
         at'[c] \in {"idle", "waiting", "present", "outage", "release"}
  PROVE  Sound(c)'
BY DEF Sound, Pending

\* The call inside takes a step: it is the only one that knows of the files.
LEMMA SoundInside ==
  ASSUME Typed, OneWriter, NEW c \in Calls, NEW d \in Calls, at[c] \in Inside, d # c,
         at'[d] = at[d], late'[d] = "none"
  PROVE  Sound(d)'
<1>1. at[d] \in Phases \ Inside
  BY DEF Typed, TypeOK, OneWriter
<1> QED
  BY <1>1, SoundElsewhere DEF Phases, Inside

LEMMA CheckedStep == Typed /\ OneWriter /\ Checked /\ Answered /\ [Next]_vars => Checked'
<1> SUFFICES ASSUME Typed, OneWriter, Checked, Answered, [Next]_vars, ~stray', NEW d \in Calls
             PROVE  Sound(d)'
  BY DEF Checked
<1> USE DEF pool
<1>1. ASSUME Crash PROVE Sound(d)'
  BY <1>1, SoundElsewhere DEF Crash
<1>2. ASSUME NEW c \in Calls, ~stray, \A x \in Calls : late'[x] = "none",
             \/ LooksUp(c) \/ Releases(c) \/ Unlocks(c) \/ Cancelled(c)
             \/ \E w \in Wants : TakesTurn(c, w)
             \/ FallsBack(c) \/ NoAnswer(c) \/ DiskFails(c) \/ TriesUsedUp(c)
      PROVE  Sound(d)'
  <2>1. /\ \A x \in Calls \ {c} : at'[x] = at[x] /\ want'[x] = want[x] /\ outcome'[x] = outcome[x]
        /\ at'[c] \in {"idle", "waiting", "present", "outage", "release"}
        /\ file' = file /\ part' = part
    BY <1>2 DEF LooksUp, Releases, Unlocks, Cancelled, TakesTurn, FallsBack, NoAnswer,
                DiskFails, TriesUsedUp, Goes, Forget, files, Typed, TypeOK
  <2> QED
    BY <1>2, <2>1, SoundStays, SoundElsewhere DEF Checked
<1>3. ASSUME NEW c \in Calls, ~stray, \A x \in Calls : late'[x] = "none", Sound(c),
             \/ BothFailed(c) \/ Refuses(c) \/ ChecksPresent(c) \/ Interrupted(c)
             \/ \E v \in Versions : SendsAll(c, v) \/ SendsRest(c, v)
             \/ NothingLeft(c) \/ Receives(c) \/ BodyEnds(c)
             \/ Finalizes(c) \/ RenameFails(c)
      PROVE  Sound(d)'
  <2>1. /\ \A x \in Calls \ {c} : at'[x] = at[x]
        /\ at[c] \in Inside /\ want' = want
    BY <1>3 DEF BothFailed, Refuses, ChecksPresent, Interrupted, SendsAll, SendsRest,
                NothingLeft, Receives, BodyEnds, Finalizes, RenameFails, Returns, Goes,
                steps, Inside, Typed, TypeOK
  <2>2. d # c => Sound(d)'
    BY <1>3, <2>1, SoundInside
  <2>3. /\ \A f : Verifies(c, f)' <=> Verifies(c, f)
        /\ AcceptedBy(want[c])' = AcceptedBy(want[c])
        /\ Whole(want[c].version)' = Whole(want[c].version)
        /\ AcceptedBy(want[c]) \subseteq Contents \ {<<>>}
        /\ want[c] \in Wants /\ file \in Contents /\ part \in Contents
    BY <2>1, SameWants, AcceptedTyped DEF Typed, TypeOK
  <2>4. \A f \in Contents : Verifies(c, f) => f \in AcceptedBy(want[c])
    BY VerifiedAccepted
  <2>5. at \in [Calls -> Phases] /\ outcome \in [Calls -> {"none", "ok", "error"}]
    BY DEF Typed, TypeOK
  <2>6. at[c] = "finalize" /\ want[c].by = "sha1" => part = Whole(want[c].version)
    BY <1>3, <2>3 DEF Sound, AcceptedBy
  <2>7. CASE BothFailed(c) \/ Refuses(c)
    BY <1>3, <2>2, <2>5, <2>7 DEF BothFailed, Refuses, Returns, Goes, Sound, Pending
  <2>8. CASE ChecksPresent(c)
    <3>1. file' = file /\ part' = part
      BY <2>8 DEF ChecksPresent, files
    <3>2. CASE Verifies(c, file)
      <4>1. at'[c] = "return" /\ file \in AcceptedBy(want[c])
        BY <2>3, <2>4, <2>5, <2>8, <3>2 DEF ChecksPresent, Returns, Goes
      <4>2. want[c].by = "sha1" => file = Whole(want[c].version)
        BY <4>1 DEF AcceptedBy
      <4>3. file # <<>>
        BY <2>3, <4>1
      <4> QED
        BY <1>3, <2>1, <2>2, <2>3, <3>1, <4>1, <4>2, <4>3 DEF Sound, Pending
    <3>3. CASE ~Verifies(c, file)
      <4>1. \/ at'[c] = "request"
            \/ at'[c] = "finalize" /\ part \in AcceptedBy(want[c])
        BY <2>3, <2>4, <2>5, <2>8, <3>3 DEF ChecksPresent, Goes
      <4> QED
        BY <1>3, <2>1, <2>2, <2>3, <3>1, <3>3, <4>1 DEF Sound, Pending
    <3> QED
      BY <3>2, <3>3
  <2>9. CASE Interrupted(c) \/ Receives(c) \/ \E v \in Versions : SendsAll(c, v) \/ SendsRest(c, v)
    <3>1. file' = file /\ at[c] \in Pending /\ at'[c] \in {"request", "receiving"}
      BY <2>5, <2>9 DEF Interrupted, Receives, SendsAll, SendsRest, Goes, files, steps, Pending
    <3> QED
      BY <1>3, <2>1, <2>2, <2>3, <3>1 DEF Sound, Pending
  <2>10. CASE NothingLeft(c)
    <3>1. file' = file /\ at[c] \in Pending
      BY <2>10 DEF NothingLeft, Goes, Pending
    <3>2. \/ at'[c] = "request"
          \/ at'[c] = "finalize" /\ part' = part /\ part \in AcceptedBy(want[c])
      BY <2>3, <2>4, <2>5, <2>10 DEF NothingLeft, Goes
    <3> QED
      BY <1>3, <2>1, <2>2, <2>3, <3>1, <3>2 DEF Sound, Pending
  <2>11. CASE BodyEnds(c)
    <3>1. file' = file /\ at[c] \in Pending
      BY <2>11 DEF BodyEnds, Pending
    <3>2. want[c].by = "nothing" => part \in AcceptedBy(want[c])
      <4>1. body[c] \in Versions /\ Len(part) = Size[body[c]]
        BY <1>3, <2>11 DEF BodyEnds, IsComplete, Typed, BodyKnown
      <4> QED
        BY <2>3, <4>1, LengthAccepted DEF AcceptedBy
    <3>3. \/ at'[c] = "return" /\ outcome'[c] = "error"
          \/ at'[c] = "outage"
          \/ at'[c] = "finalize" /\ part' = part /\ part \in AcceptedBy(want[c])
      BY <2>3, <2>4, <2>5, <2>11, <3>2 DEF BodyEnds, Returns, Goes
    <3> QED
      BY <1>3, <2>1, <2>2, <2>3, <3>1, <3>3 DEF Sound, Pending
  <2>12. CASE Finalizes(c)
    <3>1. /\ at[c] = "finalize" /\ at'[c] = "return" /\ part # <<>>
          /\ file' = part
      BY <2>5, <2>12 DEF Finalizes, SameContent, Returns, Goes
    <3> QED
      BY <1>3, <2>1, <2>2, <2>3, <2>6, <3>1 DEF Sound, Pending
  <2>13. CASE RenameFails(c)
    <3>1. at[c] = "finalize" /\ ~Verifies(c, file)
      BY <1>3, <2>13 DEF RenameFails, Returns, Goes, Sound, Pending
    <3>2. at'[c] = "outage"
      BY <2>5, <2>13, <3>1 DEF RenameFails, Goes
    <3> QED
      BY <1>3, <2>2, <3>2, SoundElsewhere
  <2> QED
    BY <1>3, <2>7, <2>8, <2>9, <2>10, <2>11, <2>12, <2>13
<1>4. ASSUME ~stray, \A x \in Calls : late'[x] = "none", PreferenceExpires \/ UNCHANGED vars
      PROVE  Sound(d)'
  BY <1>4, SoundStays DEF PreferenceExpires, vars, files, steps, Checked
<1>5. CASE stray
  BY <1>1, <1>5 DEF Next, Step, LooksUp, TakesTurn, Unlocks, Releases, Cancelled, Lands,
         FallsBack, BothFailed, PreferenceExpires, ChecksPresent, NoAnswer, Refuses,
         SendsAll, SendsRest, NothingLeft, Receives, Interrupted, DiskFails, TriesUsedUp,
         BodyEnds, Finalizes, RenameFails, vars
<1>6. CASE ~stray
  <2>1. \A c \in Calls : Sound(c) /\ late[c] = "none"
    BY <1>6 DEF Checked, Sound
  <2>2. \A c \in Calls : ~Lands(c)
    BY <2>1 DEF Lands
  <2>3. CASE ~Crash
    <3>1. \A c \in Calls : late'[c] = "none"
      BY <2>1, <2>2, <2>3 DEF Next, Step, LooksUp, TakesTurn, Unlocks, Releases, Cancelled,
         FallsBack, BothFailed, PreferenceExpires, ChecksPresent, NoAnswer, Refuses,
         SendsAll, SendsRest, NothingLeft, Receives, Interrupted, DiskFails, TriesUsedUp,
         BodyEnds, Finalizes, RenameFails, vars
    <3> QED
      BY <1>2, <1>3, <1>4, <1>6, <2>1, <2>2, <2>3, <3>1 DEF Next, Step
  <2> QED
    BY <1>1, <2>3
<1> QED
  BY <1>5, <1>6

-----------------------------------------------------------------------------
(* The inductive invariant.                                                *)

DInv == Typed /\ Referring /\ Checked /\ Answered

LEMMA DInvStep == DInv /\ [Next]_vars => DInv'
BY TypedStep, ReferringStep, CheckedStep, AnsweredStep, OneInside, OneInsideNext DEF DInv

LEMMA DInvAlways == Spec => []DInv
<1>1. Init => Checked
  BY DEF Init, Checked, Sound, Pending
<1>2. Init => Referring
  BY DEF Init, Referring, Inside
<1>3. Init => Answered
  BY DEF Init, Answered
<1>4. Init => DInv
  BY <1>1, <1>2, <1>3, TypedInit DEF DInv
<1> QED
  BY <1>4, DInvStep, PTL DEF Spec

\* Ok means a file in place, of a call with a sha1 that very content, after any
\* resumption, fallback, failed rename, crash and change of the servers, unless
\* a call was dropped amid a file operation (download_inner, finalize_part).
THEOREM DownloadsVerified == Spec => []OkIsVerified
<1>1. DInv => OkIsVerified
  BY DEF DInv, Checked, Sound, OkIsVerified
<1> QED
  BY <1>1, DInvAlways, PTL

LEMMA IdentityStep == DInv /\ [Next]_vars => (identity' # identity /\ ~stray => file' # file)
<1> SUFFICES ASSUME DInv, [Next]_vars, identity' # identity, ~stray PROVE file' # file
  OBVIOUS
<1>1. \A c \in Calls : Sound(c) /\ ~Lands(c)
  BY DEF DInv, Checked, Sound, Lands
<1>2. PICK c \in Calls : Finalizes(c)
  BY <1>1 DEF Next, Step, vars, files, LooksUp, TakesTurn, Unlocks, Releases, Cancelled,
         FallsBack, BothFailed, PreferenceExpires, ChecksPresent, NoAnswer, Refuses,
         SendsAll, SendsRest, NothingLeft, Receives, Interrupted, DiskFails, TriesUsedUp,
         BodyEnds, RenameFails, Crash
<1>3. /\ ~SameContent(c) /\ part # <<>> /\ file' = part
      /\ part \in AcceptedBy(want[c]) /\ ~Verifies(c, file)
  BY <1>1, <1>2 DEF Finalizes, Returns, Goes, Sound, Pending
<1>4. CASE want[c].by = "sha1"
  BY <1>3, <1>4 DEF AcceptedBy, Verifies
<1>5. CASE want[c].by # "sha1"
  BY <1>3, <1>5 DEF SameContent
<1> QED
  BY <1>4, <1>5

\* A download only ever replaces the destination by different content
\* (finalize_part).
THEOREM DownloadsKeepIdentity == Spec => IdentityKept
BY IdentityStep, DInvAlways, PTL DEF Spec, IdentityKept
-----------------------------------------------------------------------------
(* A call's effort.                                                        *)

\* A step of one call, which comes nearer to the end or starts or ends the turn.
LEMMA OneMoves ==
  ASSUME Typed, NEW d \in Calls, NEW to \in Phases, at' = [at EXCEPT ![d] = to],
         \A c \in Calls \ {d} : tries'[c] = tries[c] /\ host'[c] = host[c],
         at[d] \in Inside /\ to \in Inside => Pays(d)
  PROVE  \A c \in Calls : at[c] \in Inside /\ at'[c] \in Inside /\ Moves(c) => Pays(c)
BY DEF Typed, TypeOK, Moves

LEMMA EffortStep ==
  Typed /\ [Next]_vars =>
    \A c \in Calls : at[c] \in Inside /\ at'[c] \in Inside /\ Moves(c) => Pays(c)
<1> DEFINE Bounded ==
      \A c \in Calls : at[c] \in Inside /\ at'[c] \in Inside /\ Moves(c) => Pays(c)
<1> SUFFICES ASSUME Typed, [Next]_vars PROVE Bounded
  OBVIOUS
<1>1. ASSUME NEW d \in Calls, LooksUp(d) \/ Releases(d) PROVE Bounded
  BY <1>1, OneMoves DEF LooksUp, Releases, Goes, Phases, Inside
<1>2. ASSUME NEW d \in Calls, NEW w \in Wants, TakesTurn(d, w) PROVE Bounded
  <2>1. \A c \in Calls \ {d} : tries'[c] = tries[c] /\ host'[c] = host[c]
    BY <1>2 DEF TakesTurn, Typed, TypeOK
  <2> QED
    BY <1>2, <2>1, OneMoves DEF TakesTurn, Goes, Phases, Inside
<1>3. ASSUME NEW d \in Calls, Unlocks(d) \/ Cancelled(d) PROVE Bounded
  <2>1. \A c \in Calls \ {d} : tries'[c] = tries[c] /\ host'[c] = host[c]
    BY <1>3 DEF Unlocks, Cancelled, Forget
  <2> QED
    BY <1>3, <2>1, OneMoves DEF Unlocks, Cancelled, Goes, Phases, Inside
<1>4. ASSUME NEW d \in Calls, NEW to \in Phases, at' = [at EXCEPT ![d] = to],
             UNCHANGED <<second, host, tries>>,
             at[d] \in Inside /\ to \in Inside => Distance[to] < Distance[at[d]]
      PROVE  Bounded
  BY <1>4, OneMoves DEF Pays, Typed, TypeOK
<1>5. ASSUME NEW d \in Calls, NEW to \in Phases, at' = [at EXCEPT ![d] = to],
             UNCHANGED <<second, host>>, tries[d] < Attempts, Counts(d)
      PROVE  Bounded
  <2>1. tries[d] < tries'[d] /\ tries'[d] <= Attempts
        /\ \A c \in Calls \ {d} : tries'[c] = tries[c]
    BY <1>5, DownloadsAssumption DEF Counts, Typed, TypeOK, DownloadsAssumption
  <2> QED
    BY <1>5, <2>1, OneMoves DEF Pays
<1>6. ASSUME NEW d \in Calls, FallsBack(d) PROVE Bounded
  <2>1. \A c \in Calls \ {d} : tries'[c] = tries[c] /\ host'[c] = host[c]
    BY <1>6 DEF FallsBack, Typed, TypeOK
  <2>2. Pays(d)
    BY <1>6 DEF FallsBack, Pays
  <2> QED
    BY <1>6, <2>1, <2>2, OneMoves DEF FallsBack, Goes, Phases
<1>7. ASSUME NEW d \in Calls, BothFailed(d) \/ ChecksPresent(d) \/ NoAnswer(d) \/ Refuses(d)
      PROVE  Bounded
  BY <1>4, <1>7 DEF BothFailed, ChecksPresent, NoAnswer, Refuses, Returns, Goes, Distance, Phases
<1>8. ASSUME NEW d \in Calls, Interrupted(d) \/ DiskFails(d) \/ TriesUsedUp(d) PROVE Bounded
  BY <1>4, <1>8 DEF Interrupted, DiskFails, TriesUsedUp, Goes, Distance, Phases
<1>9. ASSUME NEW d \in Calls, BodyEnds(d) \/ Finalizes(d) \/ RenameFails(d) PROVE Bounded
  BY <1>4, <1>9 DEF BodyEnds, Finalizes, RenameFails, Returns, Goes, Distance, Phases
<1>10. ASSUME NEW d \in Calls, NEW v \in Versions, SendsAll(d, v) \/ SendsRest(d, v)
       PROVE  Bounded
  BY <1>5, <1>10 DEF SendsAll, SendsRest, Goes, Phases
<1>11. ASSUME NEW d \in Calls, NothingLeft(d) PROVE Bounded
  <2>1. CASE at' = [at EXCEPT ![d] = "finalize"]
    BY <1>5, <1>11, <2>1 DEF NothingLeft, Phases
  <2>2. CASE at' = [at EXCEPT ![d] = "request"]
    BY <1>5, <1>11, <2>2 DEF NothingLeft, Phases
  <2> QED
    BY <1>11, <2>1, <2>2 DEF NothingLeft, Goes, Typed, TypeOK
<1>12. ASSUME \/ \E d \in Calls : Receives(d) \/ Lands(d)
              \/ PreferenceExpires \/ UNCHANGED vars
       PROVE  Bounded
  BY <1>12 DEF Receives, Lands, PreferenceExpires, vars, steps, Moves
<1>13. CASE Crash
  BY <1>13 DEF Crash, Inside
<1> QED
  BY <1>1, <1>2, <1>3, <1>6, <1>7, <1>8, <1>9, <1>10, <1>11, <1>12, <1>13 DEF Next, Step

\* No call asks for ever: whatever the servers send and the disk refuses, each
\* step spends its second host, a request, or the way to the next one
\* (via_mirror, download_inner).
THEOREM DownloadsBounded == Spec => EffortIsBounded
<1>1. DInv /\ [Next]_vars =>
        \A c \in Calls : at[c] \in Inside /\ at'[c] \in Inside /\ Moves(c) => Pays(c)
  BY EffortStep DEF DInv
<1> QED
  BY <1>1, DInvAlways, PTL DEF Spec, EffortIsBounded
-----------------------------------------------------------------------------
(* The refinement.  The call inside has the turn; there is one at most, so *)
(* Turn, Accepts and Answer are what it wants and what it will return.     *)

LEMMA TurnRead ==
  ASSUME OneWriter, NEW c \in Calls, at[c] \in Inside
  PROVE  Turn = c /\ Turn # None /\ Answer = outcome[c] /\ Accepts = AcceptedBy(want[c])
<1>1. Turn = c
  BY DEF Turn, OneWriter
<1>2. c # None
  BY DownloadsAssumption DEF DownloadsAssumption
<1> QED
  BY <1>1, <1>2 DEF Accepts, Answer

LEMMA TurnReadNext ==
  ASSUME OneWriter', NEW c \in Calls, at'[c] \in Inside
  PROVE  Turn' = c /\ Turn' # None /\ Answer' = outcome'[c] /\ Accepts' = AcceptedBy(want[c])'
<1>1. Turn' = c
  BY DEF Turn, OneWriter
<1>2. c # None
  BY DownloadsAssumption DEF DownloadsAssumption
<1> QED
  BY <1>1, <1>2 DEF Accepts, Answer, AcceptedBy, AsLongAs, Whole

LEMMA NoTurn ==
  ASSUME \A c \in Calls : at[c] \notin Inside
  PROVE  Turn = None /\ Accepts = {} /\ Answer = "none"
BY DEF Turn, Accepts, Answer

LEMMA NoTurnNext ==
  ASSUME \A c \in Calls : at'[c] \notin Inside
  PROVE  Turn' = None /\ Accepts' = {} /\ Answer' = "none"
BY DEF Turn, Accepts, Answer

\* A step in which the same call stays inside, wanting and answering what it
\* did, is seen in the file only.
LEMMA SameTurn ==
  ASSUME OneWriter, OneWriter',
         \A c \in Calls : at'[c] \in Inside <=> at[c] \in Inside,
         \A c \in Calls : at[c] \in Inside => want'[c] = want[c] /\ outcome'[c] = outcome[c]
  PROVE  Turn' = Turn /\ Accepts' = Accepts /\ Answer' = Answer
<1>1. CASE \E c \in Calls : at[c] \in Inside
  <2>1. PICK c \in Calls : at[c] \in Inside /\ at'[c] \in Inside
    BY <1>1
  <2> QED
    BY <2>1, TurnRead, TurnReadNext, SameWants
<1>2. CASE \A c \in Calls : at[c] \notin Inside
  BY <1>2, NoTurn, NoTurnNext
<1> QED
  BY <1>1, <1>2

LEMMA TurnStays ==
  ASSUME OneWriter, OneWriter', file' = file, stray' = stray,
         \A c \in Calls : at'[c] \in Inside <=> at[c] \in Inside,
         \A c \in Calls : at[c] \in Inside => want'[c] = want[c] /\ outcome'[c] = outcome[c]
  PROVE  UNCHANGED Destination!vars
BY SameTurn DEF Destination!vars

\* The call inside ends, or is cut off: the turn is over.
LEMMA TurnEnds ==
  ASSUME OneWriter, file' = file, stray' \in {stray, TRUE},
         \E c \in Calls : at[c] \in Inside, \A c \in Calls : at'[c] \notin Inside
  PROVE  Destination!Ends
<1>1. PICK c \in Calls : at[c] \in Inside
  OBVIOUS
<1> QED
  BY <1>1, TurnRead, NoTurnNext DEF Destination!Ends

\* The call inside is about to return o.
LEMMA TurnAnswers ==
  ASSUME DInv, OneWriter, OneWriter', NEW c \in Calls, NEW o, NEW from \in Inside \ {"return"},
         Returns(c, from, o), want' = want
  PROVE  /\ Destination!Undecided /\ Answer' = o
         /\ Turn' = Turn /\ Accepts' = Accepts
<1>1. at[c] \in Inside /\ at'[c] \in Inside /\ outcome'[c] = o /\ outcome[c] = "none"
  BY DEF Returns, Goes, DInv, Answered, Typed, TypeOK, Inside
<1> QED
  BY <1>1, TurnRead, TurnReadNext, SameWants DEF Destination!Undecided

\* A file that verifies is one that the call inside accepts.
LEMMA FileAccepted ==
  ASSUME Typed, OneWriter, NEW c \in Calls, at[c] \in Inside, Verifies(c, file)
  PROVE  file \in Accepts
BY TurnRead, VerifiedAccepted DEF Typed, TypeOK

LEMMA FileInit == Init => Destination!Init
<1> SUFFICES ASSUME Init PROVE Destination!Init
  OBVIOUS
<1>1. \A c \in Calls : at[c] \notin Inside
  BY DEF Init, Inside
<1> QED
  BY <1>1, NoTurn DEF Init, Destination!Init

LEMMA FileStep == DInv /\ DInv' /\ [Next]_vars => [Destination!Next]_Destination!vars
<1> SUFFICES ASSUME DInv, DInv', [Next]_vars PROVE [Destination!Next]_Destination!vars
  OBVIOUS
<1> USE DEF pool
<1>0. Typed /\ Checked /\ Answered /\ OneWriter /\ OneWriter' /\ at \in [Calls -> Phases]
  BY OneInside, OneInsideNext DEF DInv, Typed, TypeOK
<1>1. ASSUME NEW c \in Calls, LooksUp(c) \/ Releases(c) PROVE UNCHANGED Destination!vars
  BY <1>0, <1>1, TurnStays DEF LooksUp, Releases, Goes, files, Inside
<1>2. ASSUME NEW c \in Calls, NEW w \in Wants, TakesTurn(c, w) PROVE Destination!Next
  <2>1. at[c] = "waiting" /\ at' = [at EXCEPT ![c] = "present"]
    BY <1>2 DEF TakesTurn, Goes
  <2>2. \A d \in Calls : at[d] \notin Inside
    <3> SUFFICES ASSUME NEW d \in Calls, at[d] \in Inside PROVE FALSE
      OBVIOUS
    <3>1. d # c /\ at'[d] \in Inside /\ at'[c] \in Inside
      BY <1>0, <2>1 DEF Inside
    <3> QED
      BY <1>0, <3>1 DEF OneWriter
  <2>3. /\ at'[c] \in Inside /\ outcome'[c] = "none" /\ file' = file /\ stray' = stray
        /\ want'[c] = w
    BY <1>0, <1>2, <2>1 DEF TakesTurn, files, Inside, Answered, Typed, TypeOK
  <2>4. Turn' = c /\ Answer' = "none" /\ Accepts' = AcceptedBy(want[c])'
    BY <1>0, <2>3, TurnReadNext
  <2>5. Accepts' \in SUBSET (Contents \ {<<>>})
    <3>1. AcceptedBy(want[c])' = AcceptedBy(w)
      BY <2>3 DEF AcceptedBy, AsLongAs, Whole
    <3> QED
      BY <2>4, <3>1, AcceptedTyped
  <2>6. Destination!Begins(c)
    BY <2>2, <2>3, <2>4, <2>5, NoTurn DEF Destination!Begins
  <2> QED
    BY <2>6 DEF Destination!Next
<1>3. ASSUME NEW c \in Calls, Unlocks(c) PROVE Destination!Ends
  <2>1. /\ at[c] \in Inside /\ file' = file /\ stray' = stray
        /\ at' = [at EXCEPT ![c] = "release"]
    BY <1>3 DEF Unlocks, Goes, files, Inside
  <2>2. \A d \in Calls : at'[d] \notin Inside
    BY <1>0, <2>1 DEF OneWriter, Inside
  <2> QED
    BY <1>0, <2>1, <2>2, TurnEnds
<1>4. ASSUME NEW c \in Calls, Cancelled(c) PROVE Destination!Ends \/ UNCHANGED Destination!vars
  <2>1. /\ file' = file /\ at' = [at EXCEPT ![c] = "idle"]
        /\ \A d \in Calls \ {c} : want'[d] = want[d] /\ outcome'[d] = outcome[d]
    BY <1>4 DEF Cancelled, Forget, files
  <2>2. CASE at[c] \in Inside
    <3>1. \A d \in Calls : at'[d] \notin Inside
      BY <1>0, <2>1, <2>2 DEF OneWriter, Inside
    <3>2. stray' \in {stray, TRUE}
      BY <1>4 DEF Cancelled
    <3> QED
      BY <1>0, <2>1, <2>2, <3>1, <3>2, TurnEnds
  <2>3. CASE at[c] \notin Inside
    <3>1. InFlight(c) = {}
      BY <2>3 DEF InFlight, Inside
    <3>2. stray' = stray
      BY <1>4, <3>1 DEF Cancelled
    <3> QED
      BY <1>0, <2>1, <2>3, <3>2, TurnStays DEF Inside
  <2> QED
    BY <2>2, <2>3
<1>5. ASSUME NEW c \in Calls,
             \/ FallsBack(c) \/ NoAnswer(c) \/ Interrupted(c) \/ DiskFails(c) \/ TriesUsedUp(c)
      PROVE  UNCHANGED Destination!vars
  BY <1>0, <1>5, TurnStays
     DEF FallsBack, NoAnswer, Interrupted, DiskFails, TriesUsedUp, Goes, files, Inside
<1>6. ASSUME NEW c \in Calls, BothFailed(c) \/ Refuses(c)
      PROVE  Destination!Fails
  <2>1. PICK from \in Inside \ {"return"} : /\ Returns(c, from, "error")
                                            /\ want' = want /\ file' = file /\ stray' = stray
    BY <1>6 DEF BothFailed, Refuses, files, Inside
  <2> QED
    BY <1>0, <2>1, TurnAnswers DEF Destination!Fails
<1>7. ASSUME NEW c \in Calls, ChecksPresent(c) \/ RenameFails(c)
      PROVE  Destination!Finds \/ UNCHANGED Destination!vars
  <2>1. at[c] \in Inside /\ want' = want /\ file' = file /\ stray' = stray
    BY <1>7 DEF ChecksPresent, RenameFails, Returns, Goes, files, Inside
  <2>2. CASE Verifies(c, file)
    <3>1. PICK from \in Inside \ {"return"} : Returns(c, from, "ok")
      BY <1>7, <2>2 DEF ChecksPresent, RenameFails, Inside
    <3>2. file \in Accepts
      BY <1>0, <2>1, <2>2, FileAccepted
    <3> QED
      BY <1>0, <2>1, <3>1, <3>2, TurnAnswers DEF Destination!Finds
  <2>3. CASE ~Verifies(c, file)
    <3>1. outcome' = outcome /\ \A d \in Calls : at'[d] \in Inside <=> at[d] \in Inside
      BY <1>0, <1>7, <2>3 DEF ChecksPresent, RenameFails, Goes, Inside
    <3> QED
      BY <1>0, <2>1, <3>1, TurnStays
  <2> QED
    BY <2>2, <2>3
<1>8. ASSUME NEW c \in Calls, NEW v \in Versions, SendsAll(c, v) \/ SendsRest(c, v)
      PROVE  UNCHANGED Destination!vars
  BY <1>0, <1>8, TurnStays DEF SendsAll, SendsRest, Goes, files, Inside
<1>9. ASSUME NEW c \in Calls, NothingLeft(c) \/ Receives(c) PROVE UNCHANGED Destination!vars
  BY <1>0, <1>9, TurnStays DEF NothingLeft, Receives, Goes, steps, Inside
<1>10. ASSUME NEW c \in Calls, BodyEnds(c)
       PROVE  Destination!Fails \/ UNCHANGED Destination!vars
  <2>1. file' = file /\ want' = want /\ stray' = stray
    BY <1>10 DEF BodyEnds
  <2>2. CASE Returns(c, "receiving", "error")
    <3>1. "receiving" \in Inside \ {"return"}
      BY DEF Inside
    <3> QED
      BY <1>0, <2>1, <2>2, <3>1, TurnAnswers DEF Destination!Fails
  <2>3. CASE outcome' = outcome
    BY <1>0, <1>10, <2>1, <2>2, <2>3, TurnStays DEF BodyEnds, Goes, Inside
  <2> QED
    BY <1>10, <2>2, <2>3 DEF BodyEnds
<1>11. ASSUME NEW c \in Calls, Finalizes(c) PROVE Destination!Next
  <2>1. /\ Returns(c, "finalize", "ok") /\ at[c] = "finalize" /\ at[c] \in Inside
        /\ "finalize" \in Inside \ {"return"} /\ want' = want /\ stray' = stray
        /\ file' = part /\ part \in Contents
    BY <1>0, <1>11 DEF Finalizes, SameContent, Returns, Goes, Inside, Typed, TypeOK
  <2>2. /\ Destination!Undecided /\ Answer' = "ok"
        /\ Turn' = Turn /\ Accepts' = Accepts
    BY <1>0, <2>1, TurnAnswers
  <2>3. CASE stray
    BY <2>1, <2>2, <2>3 DEF Destination!Slips, Destination!Next
  <2>4. CASE ~stray
    <3>1. part \in Accepts
      BY <1>0, <2>1, <2>4, TurnRead DEF Checked, Sound
    <3>2. CASE part = file
      BY <2>1, <2>2, <3>1, <3>2 DEF Destination!Finds, Destination!Next
    <3>3. CASE part # file
      BY <2>1, <2>2, <3>1, <3>3 DEF Destination!Replaces, Destination!Next
    <3> QED
      BY <3>2, <3>3
  <2> QED
    BY <2>3, <2>4
<1>12. ASSUME Crash PROVE Destination!Restarts
  <2>1. file' = file /\ stray' = FALSE /\ \A c \in Calls : at'[c] \notin Inside
    BY <1>12 DEF Crash, files, Inside
  <2> QED
    BY <2>1, NoTurnNext DEF Destination!Restarts
<1>13. ASSUME NEW c \in Calls, Lands(c) PROVE Destination!Next
  <2>1. stray
    BY <1>0, <1>13 DEF Lands, Checked, Sound
  <2>2. stray' = stray /\ UNCHANGED <<at, want, outcome>>
    BY <1>13 DEF Lands, steps
  <2>3. file' \in Contents
    BY DEF DInv, Typed, TypeOK
  <2>4. Turn' = Turn /\ Accepts' = Accepts /\ Answer' = Answer
    BY <1>0, <2>2, SameTurn
  <2> QED
    BY <2>1, <2>2, <2>3, <2>4 DEF Destination!Slips, Destination!Next
<1>14. CASE PreferenceExpires \/ UNCHANGED vars
  BY <1>0, <1>14, TurnStays DEF PreferenceExpires, vars, files, steps
<1> QED
  BY <1>1, <1>2, <1>3, <1>4, <1>5, <1>6, <1>7, <1>8, <1>9, <1>10, <1>11, <1>12, <1>13, <1>14
     DEF Next, Step, Destination!Next

\* Every behaviour of the calls, their locks, .part files, hosts, failed renames
\* and crashes is one of a destination that is only replaced in one step by what
\* the call whose turn it is accepts, and that is loose only from a call dropped
\* amid a file operation to the next start (download_file).
THEOREM DownloadsRefine == Spec => ImplementsVerifiedFile
BY FileInit, FileStep, DInvAlways, PTL DEF Spec, ImplementsVerifiedFile, Destination!Spec

=============================================================================
