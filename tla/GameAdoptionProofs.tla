-------------------------- MODULE GameAdoptionProofs --------------------------
(***************************************************************************)
(* Proofs that adoption is safe across any number of launcher restarts at  *)
(* any steps, whatever is launched, stopped or changed beside it, for any  *)
(* numbers of instances, launches and stop requests.                       *)
(***************************************************************************)
EXTENDS GameAdoption, GameLaunchProofs

-----------------------------------------------------------------------------
(* The inductive invariant.                                                *)

AdoptionTyped ==
  /\ adoptAt \in {"read", "probe", "rewrite", "each", "load", "enter", "done"}
  /\ snapshot \in [Names -> Records]
  /\ kept \subseteq Names /\ skipped \subseteq Names /\ doubled \subseteq Names
  /\ announcing \subseteq Keys
  /\ adoptee \in Names \cup {None}
  /\ adoptee # None <=> adoptAt \in {"load", "enter"}
  /\ kept # {} => adoptAt \in {"rewrite", "each", "load", "enter"}
  /\ adoptee \notin kept

\* How a key's stage, process, monitor and finalizer go together. A game of an
\* earlier session is "over" with a process; one is finalized only after it
\* ended, and was launched by this session or adopted.
KeyOrder ==
  \A k \in Keys :
    /\ inst[k] = None <=> stage[k] = "unborn"
    /\ proc[k] # "none" => stage[k] \in {"spawned", "done", "over"}
    /\ mon[k] # "off" <=> stage[k] \in {"spawned", "done"}
    /\ mon[k] # "off" => proc[k] # "none"
    /\ k \in exitSeen <=> finAt[k] # "none"
    /\ k \in exitSeen => Gone(k) /\ (mon[k] # "off" \/ k \in adopted)
    /\ k \in adopted => /\ stage[k] \in {"done", "over"} /\ proc[k] # "none"
                        /\ mon[k] # "watching"
    /\ mon[k] = "off" /\ proc[k] # "none" =>
         exits[k] = IF k \in adopted /\ finAt[k] = "done" THEN 1 ELSE 0
    /\ k \in announcing => mon[k] # "off"

\* Finalizers are called for games that have gone, of this session or adopted.
GoneCalled ==
  \A c \in Callers, k \in Keys : <<c, k>> \in calls =>
    Gone(k) /\ (mon[k] # "off" \/ k \in adopted)

\* A record with a key, in the file or as it was read, names a game of its
\* instance that was registered.
RecordsSpawned ==
  \A n \in Names, k \in Keys : k \in {sessions[n].key, snapshot[n].key} =>
    inst[k] = n /\ proc[k] # "none" /\ stage[k] \in {"done", "over"}

\* A finalizer removes the record before it frees the instance.
RecordsHeld ==
  \A n \in Names, k \in Keys : sessions[n].key = k =>
    finAt[k] = "none" \/ (finAt[k] = "seen" /\ k \in adopted)

EntriesRight ==
  \A n \in Names, k \in Keys : running[n] = k =>
    /\ inst[k] = n
    /\ stage[k] = "done" \/ k \in adopted
    /\ n \notin doubled => finAt[k] = "none"

\* The names adoption has yet to handle, with the one it is handling.
Pending == IF adoptee = None THEN kept ELSE kept \cup {adoptee}

\* Adoption takes up one game of a name and has not begun before the rewrite.
\* A record of an earlier session is one it read. Between the mark and the
\* entry nobody has touched what it marked, unless the mark came too late.
AdoptionOrder ==
  /\ adoptAt \in {"read", "probe", "rewrite"} => adopted = {}
  /\ \A n \in Pending : snapshot[n].key \in Keys
  /\ \A k \in adopted : inst[k] \notin kept /\ (adoptAt = "load" => inst[k] # adoptee)
  /\ \A k, l \in adopted : inst[k] = inst[l] => k = l
  /\ adoptAt # "read" =>
       \A n \in Names, k \in Keys :
         sessions[n].key = k /\ mon[k] = "off" => snapshot[n].key = k
  /\ adoptAt = "enter" => snapshot[adoptee].key \in adopted
  /\ adoptAt = "enter" /\ adoptee \notin doubled =>
       /\ running[adoptee] = None
       /\ finAt[snapshot[adoptee].key] = "none"
       /\ \A c \in Callers : <<c, snapshot[adoptee].key>> \notin calls

\* A recorded game that lives has its running entry, or adoption has yet to
\* get to it, passed over it or marked it too late.
RecordedCovered ==
  adoptAt \in {"each", "load", "enter", "done"} =>
    \A n \in Names \ (skipped \cup doubled), k \in Keys :
      sessions[n].key = k /\ Tracked(k) => n \in Pending \/ running[n] = k

AdoptedEntered ==
  \A k \in adopted : proc[k] = "alive" /\ inst[k] \notin doubled =>
    running[inst[k]] = k \/ (adoptAt = "enter" /\ inst[k] = adoptee)

Has(k) == Holding(k) \/ AdoptHolding(k)

OneOwner ==
  /\ \A n \in Names \ doubled :
       n \in active <=> n \in changing \/ \E k \in Keys : inst[k] = n /\ Has(k)
  /\ \A k, l \in Keys :
       Has(k) /\ Has(l) /\ inst[k] = inst[l] /\ inst[k] \notin doubled => k = l
  /\ \A k \in Keys : Has(k) /\ inst[k] \notin doubled => inst[k] \notin changing

KeysRight    == KeyOrder /\ GoneCalled /\ RecordsSpawned /\ RecordsHeld /\ EntriesRight
AdoptedRight == AdoptionOrder /\ RecordedCovered /\ AdoptedEntered

AInv == Typed /\ AdoptionTyped /\ KeysRight /\ AdoptedRight /\ OneOwner

-----------------------------------------------------------------------------
(* The first state.                                                        *)

LEMMA AInvInit == AdoptionInit => AInv
<1> SUFFICES ASSUME AdoptionInit PROVE AInv
  OBVIOUS
<1> USE NoneAssumption DEF AdoptionInit
<1>1. Typed
  BY TypedInit
<1>2. AdoptionTyped
  BY <1>1 DEF AdoptionTyped, Typed, TypeOK
<1>3. KeyOrder /\ GoneCalled
  BY DEF Init, KeyOrder, GoneCalled
<1>4. RecordsSpawned /\ RecordsHeld /\ EntriesRight
  BY DEF Init, NoRecord, RecordsSpawned, RecordsHeld, EntriesRight
<1>5. AdoptedRight
  BY DEF Init, NoRecord, AdoptedRight, AdoptionOrder, RecordedCovered, AdoptedEntered, Pending
<1>6. OneOwner
  BY DEF Init, OneOwner, Has, Holding, AdoptHolding
<1> QED
  BY <1>1, <1>2, <1>3, <1>4, <1>5, <1>6 DEF AInv, KeysRight

-----------------------------------------------------------------------------
(* A restart: nothing is active, and the games of before are "over".       *)

LEMMA RestartKeeps == AInv /\ Restart => AInv'
<1> SUFFICES ASSUME AInv, Restart PROVE AInv'
  OBVIOUS
<1> USE NoneAssumption DEF Restart
<1>1. Typed'
  BY DEF AInv, Typed, TypeOK, StopsNamed, Stages, FinSteps, StopSteps
<1>2. AdoptionTyped'
  BY DEF AInv, Typed, TypeOK, AdoptionTyped, Records, NoRecord
<1>3. KeyOrder'
  BY DEF AInv, Typed, TypeOK, KeysRight, KeyOrder
<1>4. GoneCalled' /\ EntriesRight' /\ RecordsHeld'
  BY DEF GoneCalled, EntriesRight, RecordsHeld
<1>5. RecordsSpawned'
  BY DEF AInv, KeysRight, RecordsSpawned, NoRecord
<1>6. AdoptedRight'
  BY DEF AdoptedRight, AdoptionOrder, RecordedCovered, AdoptedEntered, Pending
<1>7. OneOwner'
  BY DEF OneOwner, Has, Holding, AdoptHolding
<1> QED
  BY <1>1, <1>2, <1>3, <1>4, <1>5, <1>6, <1>7 DEF AInv, KeysRight

-----------------------------------------------------------------------------
(* What the invariant says of holders.                                     *)

\* What has an entry holds its instance.
LEMMA EntryHas ==
  ASSUME AInv, NEW n \in Names \ doubled, NEW k \in Keys, running[n] = k
  PROVE  Has(k) /\ inst[k] = n /\ (stage[k] = "done" \/ k \in adopted)
BY DEF AInv, KeysRight, EntriesRight, Has, Holding, AdoptHolding

\* A game of this session that is recorded holds its instance.
LEMMA RecordHas ==
  ASSUME AInv, NEW n \in Names, NEW k \in Keys, sessions[n].key = k, mon[k] # "off"
  PROVE  Has(k) /\ inst[k] = n /\ stage[k] = "done"
BY DEF AInv, KeysRight, KeyOrder, RecordsSpawned, RecordsHeld, Has, Holding

\* An adopted game that lives holds its instance.
LEMMA AdoptedHas ==
  ASSUME AInv, NEW k \in adopted, proc[k] = "alive"
  PROVE  k \in Keys /\ Has(k) /\ stage[k] \in {"done", "over"}
BY DEF AInv, Typed, TypeOK, KeysRight, KeyOrder, Gone, Has, AdoptHolding

\* Two that hold an instance are one, unless adoption doubled it.
LEMMA HoldersSame ==
  ASSUME AInv, NEW k \in Keys, NEW l \in Keys, Has(k), Has(l),
         inst[k] = inst[l], inst[k] \notin doubled
  PROVE  k = l
BY DEF AInv, OneOwner

LEMMA HolderNamed ==
  ASSUME AInv, NEW k \in Keys, Has(k)
  PROVE  inst[k] \in Names
BY NoneAssumption DEF AInv, Typed, TypeOK, KeysRight, KeyOrder, Has, Holding, AdoptHolding

\* The game being entered holds its instance alone.
LEMMA EnteredHas ==
  ASSUME AInv, adoptAt = "enter", adoptee \notin doubled
  PROVE  LET k == snapshot[adoptee].key IN
           /\ k \in Keys /\ k \in adopted /\ adoptee \in Names /\ inst[k] = adoptee
           /\ Has(k) /\ stage[k] \in {"done", "over"}
<1>1. adoptee \in Names /\ snapshot[adoptee].key \in adopted
      /\ finAt[snapshot[adoptee].key] = "none"
  BY DEF AInv, AdoptionTyped, AdoptedRight, AdoptionOrder
<1>2. snapshot[adoptee].key \in Keys
  BY <1>1 DEF AInv, Typed, TypeOK
<1> QED
  BY <1>1, <1>2 DEF AInv, KeysRight, KeyOrder, RecordsSpawned, Has, AdoptHolding

-----------------------------------------------------------------------------
(* The steps of adoption.                                                  *)

LEMMA AdoptTyped == AInv /\ Adopt => Typed' /\ AdoptionTyped'
<1> SUFFICES ASSUME AInv, Adopt PROVE Typed' /\ AdoptionTyped'
  OBVIOUS
<1> USE NoneAssumption DEF AInv, Typed, TypeOK, StopsNamed, AdoptionTyped, AdoptAt, launchVars,
      gameVars, engineVars, bufferVars, exitVars, stopVars, vars
<1>1. CASE ReadSessions
  BY <1>1 DEF ReadSessions
<1>2. CASE ProbeProcesses
  BY <1>2 DEF ProbeProcesses
<1>3. CASE RewriteSessions
  <2>1. NoRecord \in Records
    BY DEF NoRecord, Records
  <2> QED
    BY <1>3, <2>1 DEF RewriteSessions, Surviving
<1>4. ASSUME NEW n \in Names, AdoptSkips(n) \/ AdoptLoads(n)
      PROVE  Typed' /\ AdoptionTyped'
  BY <1>4 DEF AdoptSkips, AdoptLoads
<1>5. CASE AdoptMarks
  <2>1. adoptee \in Names /\ snapshot[adoptee].key \in Keys
    BY <1>5 DEF AdoptMarks, AdoptedRight, AdoptionOrder, Pending
  <2>2. live' \subseteq Keys
    BY <1>5, <2>1 DEF AdoptMarks, EnterPresence
  <2>3. /\ mon' \in [Keys -> {"off", "watching", "published"}]
        /\ calls' \subseteq Callers \X Keys /\ exitSeen' \subseteq Keys
        /\ finAt' \in [Keys -> FinSteps] /\ finBy' \in [Keys -> Callers \cup {None}]
        /\ announcing' \subseteq Keys
    BY <1>5, <2>1 DEF AdoptMarks, OwnFinalizer, FinSteps
  <2> QED
    BY <1>5, <2>1, <2>2, <2>3 DEF AdoptMarks, MarkActive
<1>6. CASE AdoptEnters
  <2>1. adoptee \in Names /\ snapshot[adoptee].key \in Keys
    BY <1>6 DEF AdoptEnters, AdoptedRight, AdoptionOrder, Pending
  <2> QED
    BY <1>6, <2>1 DEF AdoptEnters, EnterRunning
<1>7. CASE AdoptDone
  BY <1>7 DEF AdoptDone, AllAdopted
<1> QED
  BY <1>1, <1>2, <1>3, <1>4, <1>5, <1>6, <1>7 DEF Adopt

\* What the steps of adoption that only look at the engine leave as it is.
LEMMA EngineUntouched ==
  ASSUME AInv, UNCHANGED vars
  PROVE  /\ KeysRight /\ UNCHANGED <<snapshot, announcing>> /\ doubled \subseteq doubled' => KeysRight'
         /\ UNCHANGED doubled => OneOwner'
<1> USE DEF vars, launchVars, gameVars, engineVars, exitVars
<1>1. \A k \in Keys : Has(k)' = Has(k) /\ inst'[k] = inst[k] /\ Gone(k)' = Gone(k)
  BY DEF Has, Holding, AdoptHolding, Gone
<1>2. ASSUME UNCHANGED <<snapshot, announcing>>, doubled \subseteq doubled' PROVE KeysRight'
  BY <1>2 DEF AInv, KeysRight, KeyOrder, GoneCalled, RecordsSpawned, RecordsHeld, EntriesRight, Gone
<1>3. ASSUME UNCHANGED doubled PROVE OneOwner'
  BY <1>1, <1>3 DEF AInv, OneOwner
<1> QED
  BY <1>2, <1>3

LEMMA AdoptLooks ==
  ASSUME AInv, \/ ReadSessions \/ ProbeProcesses \/ AdoptDone
               \/ \E n \in Names : AdoptSkips(n) \/ AdoptLoads(n)
  PROVE  KeysRight' /\ AdoptedRight' /\ OneOwner'
<1>1. UNCHANGED <<vars, announcing, doubled>>
  BY DEF ReadSessions, ProbeProcesses, AdoptDone, AdoptSkips, AdoptLoads
<1>2. OneOwner' /\ (UNCHANGED snapshot => KeysRight')
  BY <1>1, EngineUntouched DEF AInv
<1>3. /\ UNCHANGED <<sessions, proc, mon, inst, stage, finAt, calls, running, active, adopted>>
      /\ sessions \in [Names -> Records]
  BY <1>1 DEF vars, launchVars, gameVars, engineVars, exitVars, AInv, Typed, TypeOK
<1>4. \A k \in Keys : Tracked(k)' = Tracked(k)
  BY <1>3 DEF Tracked
<1> USE NoneAssumption, <1>1, <1>3, <1>4
    DEF AInv, AdoptionTyped, AdoptAt, Pending, AdoptedRight
<1>5. CASE ReadSessions
  <2>1. adoptAt = "read" /\ kept = {} /\ adoptee = None /\ adopted = {}
        /\ snapshot' = sessions /\ UNCHANGED <<kept, adoptee, skipped>>
        /\ adoptAt' \in {"probe", "done"}
    BY <1>5 DEF ReadSessions, AdoptionOrder
  <2>2. adoptAt' = "done" => \A n \in Names : sessions[n] = NoRecord
    BY <1>5 DEF ReadSessions
  <2>3. KeysRight'
    <3>1. RecordsSpawned'
      BY <2>1 DEF KeysRight, RecordsSpawned
    <3>2. KeyOrder' /\ GoneCalled' /\ RecordsHeld' /\ EntriesRight'
      BY <1>1 DEF KeysRight, KeyOrder, GoneCalled, RecordsHeld, EntriesRight, Gone, vars,
                  launchVars, gameVars, engineVars, exitVars
    <3> QED
      BY <3>1, <3>2 DEF KeysRight
  <2>4. AdoptionOrder' /\ AdoptedEntered'
    BY <2>1 DEF AdoptionOrder, AdoptedEntered
  <2>5. RecordedCovered'
    BY <2>1, <2>2 DEF RecordedCovered, NoRecord
  <2> QED
    BY <1>2, <2>3, <2>4, <2>5
<1>6. CASE ProbeProcesses
  <2>1. adoptAt = "probe" /\ adoptAt' = "rewrite" /\ adoptee = None /\ adopted = {}
        /\ UNCHANGED <<snapshot, adoptee, skipped>>
        /\ kept' \subseteq {n \in Names : Verifiable(n)}
    BY <1>6 DEF ProbeProcesses, AdoptionOrder
  <2>2. \A n \in kept' : snapshot[n].key \in Keys
    BY <2>1 DEF Verifiable, Records
  <2> QED
    BY <1>2, <2>1, <2>2 DEF AdoptionOrder, RecordedCovered, AdoptedEntered
<1>7. CASE AdoptDone
  <2>1. adoptAt = "each" /\ adoptAt' = "done" /\ kept = {} /\ adoptee = None
        /\ UNCHANGED <<snapshot, kept, adoptee, skipped>>
    BY <1>7 DEF AdoptDone, AllAdopted
  <2> QED
    BY <1>2, <2>1 DEF AdoptionOrder, RecordedCovered, AdoptedEntered
<1>8. ASSUME NEW n \in Names, AdoptSkips(n)
      PROVE  KeysRight' /\ AdoptedRight' /\ OneOwner'
  <2>1. adoptAt = "each" /\ adoptAt' = "each" /\ adoptee = None /\ kept' = kept \ {n}
        /\ skipped' = skipped \cup {n} /\ UNCHANGED <<snapshot, adoptee>>
    BY <1>8 DEF AdoptSkips
  <2> QED
    BY <1>2, <2>1 DEF AdoptionOrder, RecordedCovered, AdoptedEntered
<1>9. ASSUME NEW n \in Names, AdoptLoads(n)
      PROVE  KeysRight' /\ AdoptedRight' /\ OneOwner'
  <2>1. adoptAt = "each" /\ adoptAt' = "load" /\ adoptee = None /\ adoptee' = n
        /\ n \in kept /\ kept' = kept \ {n}
        /\ UNCHANGED <<snapshot, skipped>>
    BY <1>9 DEF AdoptLoads
  <2>2. Pending' = Pending
    BY <2>1
  <2>3. AdoptionOrder'
    BY <2>1, <2>2 DEF AdoptionOrder
  <2>4. RecordedCovered' /\ AdoptedEntered'
    BY <2>1, <2>2 DEF RecordedCovered, AdoptedEntered
  <2> QED
    BY <1>2, <2>1, <2>3, <2>4
<1> QED
  BY <1>5, <1>6, <1>7, <1>8, <1>9

\* The rewrite drops what was not verified, and leaves the rest to be handled.
LEMMA AdoptRewrites == AInv /\ RewriteSessions => KeysRight' /\ AdoptedRight' /\ OneOwner'
<1> SUFFICES ASSUME AInv, RewriteSessions PROVE KeysRight' /\ AdoptedRight' /\ OneOwner'
  OBVIOUS
<1> USE NoneAssumption DEF AInv, KeysRight, AdoptedRight, Pending
<1>1. /\ adoptAt = "rewrite" /\ adoptAt' = "each" /\ adopted = {} /\ adoptee = None
      /\ UNCHANGED <<inst, stage, agent, proc, mon, active, running, adopted, exitSeen, finAt,
                     calls, exits, changing, snapshot, kept, adoptee, announcing, skipped, doubled>>
      /\ sessions' = [n \in Names |-> Surviving(n)]
  BY DEF RewriteSessions, AdoptAt, AdoptionOrder, AdoptionTyped, launchVars, gameVars, engineVars,
         exitVars
<1>2. \A n \in Names, k \in Keys : sessions'[n].key = k => n \in kept /\ sessions[n].key = k
  BY <1>1 DEF Surviving, NoRecord
<1>3. KeyOrder' /\ GoneCalled' /\ EntriesRight'
  BY <1>1 DEF KeyOrder, GoneCalled, EntriesRight, Gone
<1>4. OneOwner'
  BY <1>1 DEF OneOwner, Has, Holding, AdoptHolding
<1>5. RecordsSpawned' /\ RecordsHeld'
  BY <1>1, <1>2 DEF RecordsSpawned, RecordsHeld
<1>6. AdoptionOrder' /\ AdoptedEntered'
  BY <1>1, <1>2 DEF AdoptionOrder, AdoptedEntered
<1>7. RecordedCovered'
  BY <1>1, <1>2 DEF RecordedCovered
<1> QED
  BY <1>3, <1>4, <1>5, <1>6, <1>7

\* The game that is adopted was not adopted before. Its instance has no holder,
\* unless somebody took it while it was loaded.
LEMMA AdoptTakes == AInv /\ AdoptMarks => KeysRight' /\ AdoptedRight' /\ OneOwner'
<1> SUFFICES ASSUME AInv, AdoptMarks PROVE KeysRight' /\ AdoptedRight' /\ OneOwner'
  OBVIOUS
<1> DEFINE k == snapshot[adoptee].key
<1> USE NoneAssumption DEF AInv, KeysRight, AdoptedRight, Pending
<1>1. /\ adoptAt = "load" /\ adoptAt' = "enter" /\ adoptee \in Names
      /\ active' = active \cup {adoptee} /\ adopted' = adopted \cup {k}
      /\ doubled' = IF adoptee \in active THEN doubled \cup {adoptee} ELSE doubled
      /\ UNCHANGED <<inst, stage, proc, running, sessions, exits, changing, snapshot, kept,
                     adoptee, skipped>>
      /\ OwnFinalizer(k)
  BY DEF AdoptMarks, AdoptAt, MarkActive, AdoptionTyped, launchVars
<1>2. /\ k \in Keys /\ inst[k] = adoptee /\ proc[k] # "none" /\ k \notin adopted
      /\ stage[k] \in {"done", "over"} /\ adoptee \notin kept
  BY <1>1 DEF AdoptionOrder, AdoptionTyped, RecordsSpawned
<1>3. /\ \A l \in Keys \ {k} : /\ mon'[l] = mon[l] /\ finAt'[l] = finAt[l]
                               /\ l \in exitSeen' <=> l \in exitSeen
                               /\ l \in announcing' <=> l \in announcing
                               /\ Gone(l)' = Gone(l) /\ Tracked(l)' = Tracked(l)
                               /\ l \in adopted' <=> l \in adopted
      /\ mon'[k] = IF mon[k] = "off" THEN "off" ELSE "published"
      /\ finAt'[k] = "none" /\ k \notin exitSeen'
      /\ k \in announcing' => k \in announcing \/ finAt[k] = "freed"
      /\ \A c \in Callers, l \in Keys : <<c, l>> \in calls' => l # k /\ <<c, l>> \in calls
  BY <1>1, <1>2 DEF OwnFinalizer, Gone, Tracked, Typed, TypeOK
<1>4. KeyOrder'
  BY <1>1, <1>2, <1>3 DEF KeyOrder
<1>5. GoneCalled'
  BY <1>1, <1>3 DEF GoneCalled
<1>6. RecordsSpawned' /\ RecordsHeld' /\ EntriesRight'
  BY <1>1, <1>2, <1>3 DEF RecordsSpawned, RecordsHeld, EntriesRight
<1>7. adoptee \notin doubled' =>
        adoptee \notin active /\ adoptee \notin doubled /\ adoptee \notin changing
          /\ \A l \in Keys : Has(l) => inst[l] # adoptee
  BY <1>1 DEF OneOwner
<1>8. AdoptionOrder'
  <2>1. \A l \in adopted : inst[l] # adoptee
    BY <1>1 DEF AdoptionOrder
  <2>2. adoptee \notin doubled' => running[adoptee] = None
    BY <1>1, <1>7, EntryHas DEF Typed, TypeOK
  <2>3. adoptAt' # "read" => \A n \in Names, l \in Keys :
          sessions'[n].key = l /\ mon'[l] = "off" => snapshot'[n].key = l
    BY <1>1, <1>2, <1>3 DEF AdoptionOrder
  <2> QED
    BY <1>1, <1>2, <1>3, <2>1, <2>2, <2>3 DEF AdoptionOrder
<1>9. RecordedCovered' /\ AdoptedEntered'
  <2>1. \A l \in Keys : Tracked(l)' => Tracked(l)
    BY <1>1, <1>3 DEF Tracked
  <2> QED
    BY <1>1, <1>2, <2>1 DEF RecordedCovered, AdoptedEntered
<1>10. OneOwner'
  <2>1. Has(k)' /\ \A l \in Keys \ {k} : Has(l)' = Has(l)
    BY <1>1, <1>2, <1>3 DEF Has, Holding, AdoptHolding
  <2>2. \A n \in Names \ doubled' : n \in active' <=>
          n \in changing' \/ \E l \in Keys : inst'[l] = n /\ Has(l)'
    <3> SUFFICES ASSUME NEW n \in Names \ doubled'
                 PROVE  n \in active' <=> n \in changing \/ \E l \in Keys : inst[l] = n /\ Has(l)'
      BY <1>1
    <3>1. CASE n = adoptee
      BY <1>1, <1>2, <2>1, <3>1
    <3>2. CASE n # adoptee
      BY <1>1, <1>2, <2>1, <3>2 DEF OneOwner
    <3> QED
      BY <3>1, <3>2
  <2>3. \A l, i \in Keys :
          Has(l)' /\ Has(i)' /\ inst'[l] = inst'[i] /\ inst'[l] \notin doubled' => l = i
    BY <1>1, <1>2, <1>7, <2>1 DEF OneOwner
  <2>4. \A l \in Keys : Has(l)' /\ inst'[l] \notin doubled' => inst'[l] \notin changing'
    BY <1>1, <1>2, <1>7, <2>1 DEF OneOwner
  <2> QED
    BY <2>2, <2>3, <2>4 DEF OneOwner
<1> QED
  BY <1>4, <1>5, <1>6, <1>8, <1>9, <1>10

\* Only the game that was marked can be recorded and live: a launch would hold
\* the instance with it.
LEMMA AdoptRegisters == AInv /\ AdoptEnters => KeysRight' /\ AdoptedRight' /\ OneOwner'
<1> SUFFICES ASSUME AInv, AdoptEnters PROVE KeysRight' /\ AdoptedRight' /\ OneOwner'
  OBVIOUS
<1> DEFINE k == snapshot[adoptee].key
<1> USE NoneAssumption DEF AInv, KeysRight, AdoptedRight, Pending
<1>1. /\ adoptAt = "enter" /\ adoptAt' = "each" /\ adoptee \in Names /\ adoptee' = None
      /\ running' = [running EXCEPT ![adoptee] = k] /\ running \in [Names -> Keys \cup {None}]
      /\ UNCHANGED <<inst, stage, proc, mon, active, sessions, exitSeen, finAt, calls, exits,
                     adopted, changing, snapshot, kept, announcing, skipped, doubled>>
  BY DEF AdoptEnters, AdoptAt, EnterRunning, AdoptionTyped, Typed, TypeOK, launchVars, gameVars,
         exitVars
<1>2. k \in Keys /\ inst[k] = adoptee /\ k \in adopted
  BY <1>1 DEF AdoptionOrder, AdoptionTyped, RecordsSpawned
<1>3. \A n \in Names : running'[n] = IF n = adoptee THEN k ELSE running[n]
  BY <1>1
<1>4. \A l \in Keys : Gone(l)' = Gone(l) /\ Tracked(l)' = Tracked(l) /\ Has(l)' = Has(l)
  BY <1>1 DEF Gone, Tracked, Has, Holding, AdoptHolding
<1>5. KeyOrder' /\ GoneCalled' /\ RecordsSpawned' /\ RecordsHeld'
  BY <1>1, <1>4 DEF KeyOrder, GoneCalled, RecordsSpawned, RecordsHeld
<1>6. OneOwner'
  BY <1>1, <1>4 DEF OneOwner
<1>7. EntriesRight'
  BY <1>1, <1>2, <1>3 DEF EntriesRight, AdoptionOrder
<1>8. AdoptionOrder'
  BY <1>1, <1>2 DEF AdoptionOrder, AdoptionTyped
<1>9. RecordedCovered'
  <2> SUFFICES ASSUME NEW n \in Names \ (skipped \cup doubled), NEW l \in Keys,
                      sessions[n].key = l, Tracked(l)
               PROVE  n \in kept \/ running'[n] = l
    BY <1>1, <1>4 DEF RecordedCovered
  <2>1. CASE n # adoptee
    BY <1>1, <1>3, <2>1 DEF RecordedCovered
  <2>2. CASE n = adoptee /\ mon[l] = "off"
    BY <1>1, <1>3, <2>2 DEF AdoptionOrder
  <2>3. CASE n = adoptee /\ mon[l] # "off"
    <3>1. Has(l) /\ inst[l] = adoptee
      BY <2>3, RecordHas
    <3>2. Has(k)
      BY <1>1, <2>3, EnteredHas
    <3> QED
      BY <1>2, <1>3, <2>3, <3>1, <3>2, HoldersSame
  <2> QED
    BY <2>1, <2>2, <2>3
<1>10. AdoptedEntered'
  <2> SUFFICES ASSUME NEW l \in adopted, proc[l] = "alive", inst[l] \notin doubled
               PROVE  running'[inst[l]] = l
    BY <1>1 DEF AdoptedEntered
  <2>1. inst[l] \in Names
    BY AdoptedHas, HolderNamed
  <2> QED
    BY <1>1, <1>2, <1>3, <2>1 DEF AdoptedEntered, AdoptionOrder
<1> QED
  BY <1>5, <1>6, <1>7, <1>8, <1>9, <1>10

LEMMA AdoptKeeps == AInv /\ Adopt => AInv'
BY AdoptTyped, AdoptLooks, AdoptRewrites, AdoptTakes, AdoptRegisters DEF Adopt, AInv

\* A late announcement is of a launch of this session, whose count no property
\* of adopted games looks at.
LEMMA AnnounceKeeps == ASSUME AInv, NEW k \in Keys, LateAnnounce(k) PROVE AInv'
<1> USE DEF LateAnnounce, EmitExit, launchVars, gameVars, bufferVars, exitVars, stopVars
<1>1. Typed' /\ AdoptionTyped'
  BY DEF AInv, Typed, TypeOK, StopsNamed, AdoptionTyped
<1>2. KeyOrder'
  BY DEF AInv, Typed, TypeOK, KeysRight, KeyOrder, Gone
<1>3. GoneCalled' /\ RecordsSpawned' /\ RecordsHeld' /\ EntriesRight'
  BY DEF AInv, KeysRight, GoneCalled, RecordsSpawned, RecordsHeld, EntriesRight, Gone
<1>4. AdoptedRight'
  BY DEF AInv, AdoptedRight, AdoptionOrder, RecordedCovered, AdoptedEntered, Pending, Tracked
<1>5. OneOwner'
  BY DEF AInv, OneOwner, Has, Holding, AdoptHolding
<1> QED
  BY <1>1, <1>2, <1>3, <1>4, <1>5 DEF AInv, KeysRight

-----------------------------------------------------------------------------
(* The engine's steps: control states and finalizer calls.                 *)

LEMMA LaunchKeepsOrder ==
  ASSUME AInv, NEW k \in Keys,
         RunLaunch(k) \/ \E n \in Names, a \in Modes : LaunchInstance(k, n, a),
         UNCHANGED announcing
  PROVE  KeyOrder'
<1> USE NoneAssumption DEF AInv, Typed, TypeOK, KeysRight, KeyOrder, Gone, GoTo, gameVars, exitVars
<1>1. CASE ResolveFails(k) \/ ResolveCancelled(k) \/ Resolved(k)
  BY <1>1 DEF ResolveFails, ResolveCancelled, Resolved
<1>2. CASE ResolveFailed(k)
  BY <1>2 DEF ResolveFailed, EmitExit
<1>3. CASE Cancelled(k)
  BY <1>3 DEF Cancelled, EmitExit
<1>4. CASE Spawn(k)
  BY <1>4 DEF Spawn
<1>5. CASE Register(k)
  BY <1>5 DEF Register
<1>6. CASE SpawnFails(k)
  BY <1>6 DEF SpawnFails
<1>7. CASE SpawnFailed(k)
  BY <1>7 DEF SpawnFailed, EmitExit
<1>8. ASSUME NEW n \in Names, NEW a \in Modes, LaunchInstance(k, n, a)
      PROVE  KeyOrder'
  BY <1>8 DEF LaunchInstance
<1> QED
  BY <1>1, <1>2, <1>3, <1>4, <1>5, <1>6, <1>7, <1>8 DEF RunLaunch

LEMMA ExitKeepsOrder ==
  ASSUME AInv, NEW k \in Keys, GameEnds(k) \/ Watchers(k) \/ Finalizer(k), UNCHANGED announcing
  PROVE  KeyOrder'
<1> USE DEF AInv, Typed, TypeOK, KeysRight, KeyOrder, Gone, launchVars, engineVars, bufferVars
<1>1. CASE GameEnds(k)
  BY <1>1 DEF GameEnds, exitVars
<1>2. CASE MonitorSeesExit(k) \/ WaitFails(k)
  BY <1>2 DEF MonitorSeesExit, WaitFails
<1>3. CASE MarkerSeen(k)
  BY <1>3 DEF MarkerSeen, exitVars
<1>4. ASSUME NEW train \in BOOLEAN, OnMarker(k, train)
      PROVE  KeyOrder'
  BY <1>4 DEF OnMarker, exitVars
<1> USE DEF gameVars
<1>5. ASSUME NEW c \in Callers, FinalizeReturns(c, k)
      PROVE  KeyOrder'
  BY <1>5 DEF FinalizeReturns
<1>6. ASSUME NEW c \in Callers, FinalizeSeen(c, k)
      PROVE  KeyOrder'
  BY <1>6 DEF FinalizeSeen, GoneCalled, FirstToEnd
<1>7. CASE FinalizeCleared(k)
  BY <1>7 DEF FinalizeCleared
<1>8. CASE FinalizeFreed(k)
  BY <1>8 DEF FinalizeFreed
<1>9. CASE FinalizeAnnounced(k)
  BY <1>9 DEF FinalizeAnnounced, EmitExit
<1> QED
  BY <1>1, <1>2, <1>3, <1>4, <1>5, <1>6, <1>7, <1>8, <1>9 DEF Watchers, Finalizer

LEMMA KeyOrderStep == AInv /\ SessionNext /\ UNCHANGED announcing => KeyOrder'
<1> SUFFICES ASSUME AInv, SessionNext, UNCHANGED announcing
             PROVE  KeyOrder'
  OBVIOUS
<1> USE DEF AInv, Typed, TypeOK, KeysRight, KeyOrder, Gone, launchVars, gameVars, engineVars,
      bufferVars, exitVars
<1>1. CASE ListLaunches
  BY <1>1 DEF ListLaunches
<1>2. ASSUME NEW r \in Stops, StopRequest(r)
      PROVE  KeyOrder'
  <2>1. ASSUME NEW n \in Names, StopCalled(r, n)
        PROVE  KeyOrder'
    BY <2>1 DEF StopCalled
  <2>2. CASE StopCheck(r) \/ StopLookup(r) \/ StopPending(r) \/ StopReply(r)
    BY <2>2 DEF StopCheck, StopLookup, StopPending, StopReply
  <2>3. CASE StopKill(r)
    BY <2>3 DEF StopKill
  <2>4. CASE StopReap(r)
    BY <2>4 DEF StopReap
  <2> QED
    BY <1>2, <2>1, <2>2, <2>3, <2>4 DEF StopRequest
<1>3. ASSUME NEW k \in Keys, TrainDeferred(k)
      PROVE  KeyOrder'
  BY <1>3 DEF TrainDeferred
<1>4. ASSUME NEW n \in Names, TrainPicks(n) \/ ChangeBegins(n) \/ ChangeEnds(n)
      PROVE  KeyOrder'
  BY <1>4 DEF TrainPicks, ChangeBegins, ChangeEnds
<1> QED
  BY <1>1, <1>2, <1>3, <1>4, LaunchKeepsOrder, ExitKeepsOrder DEF SessionNext

LEMMA AdoptedStay == SessionNext => UNCHANGED adopted
<1> SUFFICES ASSUME SessionNext PROVE UNCHANGED adopted
  OBVIOUS
<1>1. ASSUME NEW k \in Keys, RunLaunch(k) PROVE UNCHANGED adopted
  BY <1>1 DEF RunLaunch, ResolveFails, ResolveFailed, ResolveCancelled, Cancelled, Resolved,
     Spawn, Register, SpawnFails, SpawnFailed
<1>2. ASSUME NEW k \in Keys, GameEnds(k) \/ Watchers(k) \/ Finalizer(k)
      PROVE  UNCHANGED adopted
  BY <1>2 DEF GameEnds, Watchers, MonitorSeesExit, WaitFails, MarkerSeen, OnMarker, Finalizer,
     FinalizeReturns, FinalizeSeen, FinalizeCleared, FinalizeFreed, FinalizeAnnounced
<1>3. ASSUME NEW r \in Stops, StopRequest(r)
      PROVE  UNCHANGED adopted
  BY <1>3 DEF StopRequest, StopCalled, StopCheck, StopLookup, StopPending, StopKill, StopReap,
     StopReply
<1> QED
  BY <1>1, <1>2, <1>3 DEF SessionNext, LaunchInstance, ListLaunches, TrainDeferred, TrainPicks,
     ChangeBegins, ChangeEnds

\* What a sweep finds in a running entry has gone.
LEMMA SweptHaveGone ==
  ASSUME AInv, NEW n \in DeadEntries
  PROVE  /\ running[n] \in Keys /\ Gone(running[n])
         /\ mon[running[n]] # "off" \/ running[n] \in adopted
BY DEF AInv, Typed, TypeOK, KeysRight, KeyOrder, EntriesRight, DeadEntries

LEMMA GoneCalledStep == AInv /\ SessionNext => GoneCalled'
<1> SUFFICES ASSUME AInv, SessionNext
             PROVE  GoneCalled'
  OBVIOUS
<1> USE AdoptedStay DEF AInv, KeysRight, GoneCalled, Gone, launchVars, gameVars, engineVars,
      bufferVars, exitVars
<1>1. ASSUME NEW c, Reconcile(c), UNCHANGED <<mon, proc>>
      PROVE  GoneCalled'
  BY <1>1, SweptHaveGone DEF Reconcile
<1>2. CASE ListLaunches
  BY <1>1, <1>2 DEF ListLaunches
<1>3. ASSUME NEW r \in Stops, StopRequest(r)
      PROVE  GoneCalled'
  <2>1. ASSUME NEW n \in Names, StopCalled(r, n)
        PROVE  GoneCalled'
    BY <1>1, <2>1 DEF StopCalled
  <2>2. CASE StopReap(r)
    BY <1>1, <2>2 DEF StopReap
  <2>3. CASE StopKill(r)
    BY <2>3 DEF StopKill, Typed, TypeOK
  <2>4. CASE StopCheck(r) \/ StopLookup(r) \/ StopPending(r) \/ StopReply(r)
    BY <2>4 DEF StopCheck, StopLookup, StopPending, StopReply
  <2> QED
    BY <1>3, <2>1, <2>2, <2>3, <2>4 DEF StopRequest
<1>4. ASSUME NEW k \in Keys, RunLaunch(k)
      PROVE  GoneCalled'
  <2>1. CASE Spawn(k)
    BY <2>1 DEF Spawn, GoTo, Typed, TypeOK, KeyOrder
  <2>2. CASE RunLaunch(k) /\ ~Spawn(k)
    BY <2>2 DEF RunLaunch, ResolveFails, ResolveFailed, ResolveCancelled,
         Cancelled, Resolved, Register, SpawnFails, SpawnFailed
  <2> QED
    BY <1>4, <2>1, <2>2
<1>5. ASSUME NEW k \in Keys, GameEnds(k) \/ Watchers(k)
      PROVE  GoneCalled'
  <2>1. CASE GameEnds(k)
    BY <2>1 DEF GameEnds, Typed, TypeOK
  <2>2. CASE MonitorSeesExit(k) \/ WaitFails(k)
    BY <2>2 DEF MonitorSeesExit, WaitFails, CallFinalizer, KeyOrder, Typed, TypeOK
  <2>3. CASE Watchers(k) /\ ~MonitorSeesExit(k) /\ ~WaitFails(k)
    BY <2>3 DEF Watchers, MarkerSeen, OnMarker
  <2> QED
    BY <1>5, <2>1, <2>2, <2>3
<1>6. ASSUME NEW k \in Keys, Finalizer(k)
      PROVE  GoneCalled'
  BY <1>6 DEF Finalizer, FinalizeReturns, FinalizeSeen, FinalizeCleared,
       FinalizeFreed, FinalizeAnnounced
<1>7. ASSUME NEW k \in Keys, NEW n \in Names, NEW a \in Modes, LaunchInstance(k, n, a)
      PROVE  GoneCalled'
  BY <1>7 DEF LaunchInstance
<1>8. ASSUME NEW k \in Keys, TrainDeferred(k)
      PROVE  GoneCalled'
  BY <1>8 DEF TrainDeferred
<1>9. ASSUME NEW n \in Names, TrainPicks(n) \/ ChangeBegins(n) \/ ChangeEnds(n)
      PROVE  GoneCalled'
  BY <1>9 DEF TrainPicks, ChangeBegins, ChangeEnds
<1> QED
  BY <1>2, <1>3, <1>4, <1>5, <1>6, <1>7, <1>8, <1>9 DEF SessionNext

-----------------------------------------------------------------------------
(* The engine's steps: records and running entries.                        *)

\* Nobody finalizes an adopted game before it has its entry: no monitor
\* watches it, and a sweep looks at entries.
LEMMA QuietStays ==
  ASSUME AInv, SessionNext, NEW k \in adopted, finAt[k] = "none",
         \A c \in Callers : <<c, k>> \notin calls, \A n \in Names : running[n] # k
  PROVE  finAt'[k] = "none" /\ \A c \in Callers : <<c, k>> \notin calls'
<1>0. k \in Keys /\ mon[k] # "watching" /\ k \notin exitSeen
  BY DEF AInv, Typed, TypeOK, KeysRight, KeyOrder
<1> USE <1>0 DEF launchVars, gameVars, engineVars, bufferVars, exitVars
<1>1. ASSUME NEW c, Reconcile(c), UNCHANGED finAt
      PROVE  finAt'[k] = "none" /\ \A d \in Callers : <<d, k>> \notin calls'
  BY <1>1 DEF Reconcile, DeadEntries
<1>2. ASSUME NEW l \in Keys, RunLaunch(l)
      PROVE  UNCHANGED <<finAt, calls>>
  BY <1>2 DEF RunLaunch, ResolveFails, ResolveFailed, ResolveCancelled, Cancelled, Resolved,
     Spawn, Register, SpawnFails, SpawnFailed
<1>3. ASSUME NEW l \in Keys, GameEnds(l) \/ Watchers(l)
      PROVE  finAt'[k] = "none" /\ \A d \in Callers : <<d, k>> \notin calls'
  BY <1>3 DEF GameEnds, Watchers, MonitorSeesExit, WaitFails, CallFinalizer, MarkerSeen, OnMarker
<1>4. ASSUME NEW l \in Keys, Finalizer(l)
      PROVE  finAt'[k] = "none" /\ \A d \in Callers : <<d, k>> \notin calls'
  <2>1. ASSUME NEW c \in Callers, FinalizeSeen(c, l)
        PROVE  finAt'[k] = "none" /\ \A d \in Callers : <<d, k>> \notin calls'
    BY <2>1 DEF FinalizeSeen
  <2>2. ASSUME NEW c \in Callers, FinalizeReturns(c, l)
        PROVE  finAt'[k] = "none" /\ \A d \in Callers : <<d, k>> \notin calls'
    BY <2>2 DEF FinalizeReturns
  <2>3. CASE FinalizeCleared(l) \/ FinalizeFreed(l) \/ FinalizeAnnounced(l)
    BY <2>3 DEF AInv, Typed, TypeOK, FinalizeCleared, FinalizeFreed, FinalizeAnnounced
  <2> QED
    BY <1>4, <2>1, <2>2, <2>3 DEF Finalizer
<1>5. ASSUME NEW r \in Stops, StopRequest(r)
      PROVE  finAt'[k] = "none" /\ \A d \in Callers : <<d, k>> \notin calls'
  <2>1. ASSUME NEW n \in Names, StopCalled(r, n)
        PROVE  finAt'[k] = "none" /\ \A d \in Callers : <<d, k>> \notin calls'
    BY <1>1, <2>1 DEF StopCalled
  <2>2. CASE StopReap(r)
    BY <1>1, <2>2 DEF StopReap
  <2>3. CASE StopCheck(r) \/ StopLookup(r) \/ StopPending(r) \/ StopKill(r) \/ StopReply(r)
    BY <2>3 DEF StopCheck, StopLookup, StopPending, StopKill, StopReply
  <2> QED
    BY <1>5, <2>1, <2>2, <2>3 DEF StopRequest
<1>6. CASE ListLaunches
  BY <1>1, <1>6 DEF ListLaunches
<1>7. ASSUME \/ \E l \in Keys, n \in Names, a \in Modes : LaunchInstance(l, n, a)
             \/ \E l \in Keys : TrainDeferred(l)
             \/ \E n \in Names : TrainPicks(n) \/ ChangeBegins(n) \/ ChangeEnds(n)
      PROVE  UNCHANGED <<finAt, calls>>
  BY <1>7 DEF LaunchInstance, TrainDeferred, TrainPicks, ChangeBegins, ChangeEnds
<1> QED
  BY <1>2, <1>3, <1>4, <1>5, <1>6, <1>7 DEF SessionNext

RecordsRight == RecordsSpawned /\ RecordsHeld /\ EntriesRight /\ AdoptedRight

\* An entry may go if its game has gone, a record may go at all.
EntryKept(n) ==
  \/ running'[n] = running[n]
  \/ running'[n] = None /\ (n \notin doubled => \A k \in Keys : running[n] = k => Gone(k))
RecordKept(n) == sessions'[n].key \in {sessions[n].key, None}

\* A key whose game was started keeps its place, and lives on or not at all.
KeyKept(k) ==
  /\ inst[k] # None => inst'[k] = inst[k]
  /\ stage[k] \in {"done", "over"} => stage'[k] = stage[k]
  /\ proc[k] # "none" => proc'[k] # "none"
  /\ proc'[k] = "alive" => proc[k] \in {"alive", "none"}
  /\ mon'[k] = "off" => mon[k] = "off"
  /\ mon[k] = "published" => mon'[k] = "published"

LEMMA RecordsKept ==
  ASSUME AInv, SessionNext, UNCHANGED adoptVars,
         \A k \in Keys : KeyKept(k),
         \A n \in Names : EntryKept(n) /\ RecordKept(n),
         \A n \in Names, k \in Keys : sessions'[n].key = k =>
           finAt'[k] = "none" \/ (finAt'[k] = "seen" /\ k \in adopted),
         \A n \in Names \ doubled, k \in Keys : running'[n] = k => finAt'[k] = "none"
  PROVE  RecordsRight'
<1>0. adopted' = adopted
  BY AdoptedStay
<1> USE NoneAssumption, <1>0 DEF AInv, KeysRight, AdoptedRight, adoptVars
<1>1. Pending' = Pending
  BY DEF Pending
<1>2. \A k \in Keys : proc[k] # "none" => inst[k] # None /\ inst'[k] = inst[k] /\ proc'[k] # "none"
  BY DEF KeyOrder, KeyKept
<1>3. \A n \in Names, k \in Keys : sessions'[n].key = k => sessions[n].key = k
  BY DEF RecordKept
<1>4. \A n \in Names, k \in Keys : running'[n] = k => running[n] = k
  BY DEF EntryKept
<1>5. \A k \in Keys : proc[k] # "none" /\ Tracked(k)' => Tracked(k)
  BY DEF Tracked, KeyKept
<1>6. RecordsSpawned' /\ RecordsHeld'
  BY <1>2, <1>3 DEF RecordsSpawned, RecordsHeld, KeyKept
<1>7. EntriesRight'
  <2> SUFFICES ASSUME NEW n \in Names, NEW k \in Keys, running'[n] = k
               PROVE  inst'[k] = n /\ (stage'[k] = "done" \/ k \in adopted)
    BY DEF EntriesRight
  <2>1. inst[k] = n /\ (stage[k] = "done" \/ k \in adopted)
    BY <1>4 DEF EntriesRight
  <2>2. proc[k] # "none"
    BY <2>1 DEF KeyOrder
  <2> QED
    BY <1>2, <2>1, <2>2 DEF KeyKept
<1>8. \A k \in adopted : k \in Keys /\ inst'[k] = inst[k]
  BY <1>2 DEF KeyOrder, Typed, TypeOK
<1>9. AdoptionOrder'
  <2>1. adoptAt # "read" => \A n \in Names, k \in Keys :
          sessions'[n].key = k /\ mon'[k] = "off" => snapshot[n].key = k
    BY <1>3 DEF AdoptionOrder, KeyKept
  <2>2. ASSUME adoptAt = "enter", adoptee \notin doubled
        PROVE  /\ running'[adoptee] = None
               /\ finAt'[snapshot[adoptee].key] = "none"
               /\ \A c \in Callers : <<c, snapshot[adoptee].key>> \notin calls'
    <3>1. snapshot[adoptee].key \in adopted /\ snapshot[adoptee].key \in Keys
          /\ adoptee \in Names /\ inst[snapshot[adoptee].key] = adoptee
      BY <2>2, EnteredHas
    <3>2. \A n \in Names : running[n] # snapshot[adoptee].key
      BY <2>2, <3>1 DEF EntriesRight, AdoptionOrder
    <3>3. running'[adoptee] = None
      BY <2>2, <3>1 DEF AdoptionOrder, EntryKept
    <3> QED
      BY <2>2, <3>1, <3>2, <3>3, QuietStays DEF AdoptionOrder
  <2> QED
    BY <1>1, <1>8, <2>1, <2>2 DEF AdoptionOrder
<1>10. RecordedCovered'
  <2> SUFFICES ASSUME adoptAt \in {"each", "load", "enter", "done"},
                      NEW n \in Names \ (skipped \cup doubled),
                      NEW k \in Keys, sessions'[n].key = k, Tracked(k)'
               PROVE  n \in Pending \/ running'[n] = k
    BY <1>1 DEF RecordedCovered
  <2>1. sessions[n].key = k
    BY <1>3
  <2>2. Tracked(k)
    BY <1>5, <2>1 DEF RecordsSpawned
  <2> QED
    BY <2>1, <2>2 DEF RecordedCovered, EntryKept, Gone, Tracked
<1>11. AdoptedEntered'
  <2> SUFFICES ASSUME NEW k \in adopted, proc'[k] = "alive", inst'[k] \notin doubled
               PROVE  running'[inst'[k]] = k \/ (adoptAt = "enter" /\ inst'[k] = adoptee)
    BY DEF AdoptedEntered
  <2>1. k \in Keys /\ proc[k] = "alive"
    BY <1>8 DEF KeyOrder, KeyKept
  <2>2. inst'[k] = inst[k] /\ inst[k] \in Names
    BY <1>8, <2>1, AdoptedHas, HolderNamed
  <2> QED
    BY <2>1, <2>2 DEF AdoptedEntered, EntryKept, Gone
<1> QED
  BY <1>6, <1>7, <1>9, <1>10, <1>11 DEF RecordsRight

\* The holder of an instance takes only its own entry away.
LEMMA OwnEntryOnly ==
  ASSUME AInv, NEW k \in Keys, Has(k), NEW l \in Keys, running[inst[k]] = l,
         inst[k] \notin doubled
  PROVE  l = k /\ (stage[k] = "done" \/ k \in adopted)
<1>1. inst[k] \in Names \ doubled
  BY HolderNamed
<1> QED
  BY <1>1, EntryHas, HoldersSame

\* A registered launch gets the entry and the record of its instance; an
\* adopted game of that instance would hold it.
LEMMA RegisteredRecords ==
  ASSUME AInv, SessionNext, UNCHANGED adoptVars, NEW k \in Keys, Register(k), NotEnded(k)
  PROVE  RecordsRight'
<1> USE NoneAssumption DEF AInv, KeysRight, AdoptedRight, adoptVars, Pending
<1>1. /\ stage[k] = "spawned" /\ stage' = [stage EXCEPT ![k] = "done"]
      /\ UNCHANGED <<inst, proc, mon, active, adopted, finAt, calls>>
      /\ running' = [running EXCEPT ![inst[k]] = k] /\ RecordGame(inst[k], k)
  BY DEF Register, GoTo, gameVars, exitVars
<1>2. /\ inst[k] \in Names /\ Has(k) /\ mon[k] # "off" /\ proc[k] # "none" /\ k \notin adopted
      /\ finAt[k] = "none"
  BY <1>1 DEF NotEnded, KeyOrder, Typed, TypeOK, Has, Holding
<1>3. \A n \in Names : /\ running'[n] = IF n = inst[k] THEN k ELSE running[n]
                       /\ sessions'[n].key = IF n = inst[k] THEN k ELSE sessions[n].key
  BY <1>1, <1>2 DEF RecordGame, Records, Typed, TypeOK
<1>4. \A l \in Keys : stage'[l] = IF l = k THEN "done" ELSE stage[l]
  BY <1>1 DEF Typed, TypeOK
<1>5. RecordsSpawned' /\ RecordsHeld' /\ EntriesRight'
  BY <1>1, <1>2, <1>3, <1>4 DEF RecordsSpawned, RecordsHeld, EntriesRight
<1>6. AdoptionOrder'
  <2>1. ASSUME adoptAt = "enter", adoptee \notin doubled PROVE inst[k] # adoptee
    BY <1>1, <1>2, <2>1, EnteredHas, HoldersSame
  <2>2. adoptAt # "read" => \A n \in Names, l \in Keys :
          sessions'[n].key = l /\ mon'[l] = "off" => snapshot'[n].key = l
    BY <1>1, <1>2, <1>3 DEF AdoptionOrder
  <2>3. adoptAt = "enter" /\ adoptee \notin doubled => running'[adoptee] = None
    BY <1>3, <2>1 DEF AdoptionOrder, AdoptionTyped
  <2> QED
    BY <1>1, <2>2, <2>3 DEF AdoptionOrder
<1>7. RecordedCovered'
  BY <1>1, <1>2, <1>3 DEF RecordedCovered, Tracked
<1>8. AdoptedEntered'
  <2> SUFFICES ASSUME NEW l \in adopted, proc[l] = "alive", inst[l] \notin doubled
               PROVE  running'[inst[l]] = l \/ (adoptAt = "enter" /\ inst[l] = adoptee)
    BY <1>1 DEF AdoptedEntered
  <2>1. l \in Keys /\ Has(l) /\ inst[l] \in Names
    BY AdoptedHas, HolderNamed
  <2>2. inst[l] # inst[k]
    BY <1>2, <2>1, HoldersSame
  <2> QED
    BY <1>3, <2>1, <2>2 DEF AdoptedEntered
<1> QED
  BY <1>5, <1>6, <1>7, <1>8 DEF RecordsRight

LEMMA RecordsStep ==
  ASSUME AInv, SessionNext, UNCHANGED adoptVars
  PROVE  RecordsRight'
<1> USE DEF AInv, Typed, TypeOK, KeysRight, launchVars, gameVars, engineVars, bufferVars, exitVars
<1>1. ASSUME UNCHANGED <<running, finAt>>, \A n \in Names : sessions'[n].key = sessions[n].key,
             \A k \in Keys : KeyKept(k)
      PROVE  RecordsRight'
  BY <1>1, RecordsKept DEF EntryKept, RecordKept, RecordsHeld, EntriesRight
<1>2. ASSUME NEW c, Reconcile(c), UNCHANGED <<inst, stage, proc, mon, sessions, finAt>>
      PROVE  RecordsRight'
  <2>1. \A n \in Names : EntryKept(n)
    BY <1>2, SweptHaveGone DEF Reconcile, EntryKept
  <2>2. \A n \in Names, k \in Keys : running'[n] = k => running[n] = k
    BY <2>1, NoneAssumption DEF EntryKept
  <2> QED
    BY <1>2, <2>1, <2>2, RecordsKept DEF RecordKept, KeyKept, RecordsHeld, EntriesRight
<1>3. ASSUME NEW k \in Keys, RunLaunch(k)
      PROVE  RecordsRight'
  <2>1. CASE Register(k)
    <3>1. CASE NotEnded(k)
      BY <2>1, <3>1, RegisteredRecords
    <3>2. CASE ~NotEnded(k)
      BY <1>1, <2>1, <3>2 DEF Register, GoTo, KeyKept
    <3> QED
      BY <3>1, <3>2
  <2>2. CASE SpawnFails(k)
    <3>1. Has(k) /\ stage[k] = "starting" /\ k \notin adopted
      BY <2>2 DEF SpawnFails, GoTo, KeyOrder, Has, Holding
    <3>2. \A n \in Names : EntryKept(n)
      BY <2>2, <3>1, OwnEntryOnly DEF SpawnFails, Clear, EntryKept
    <3>3. UNCHANGED <<proc, mon, sessions, finAt>> /\ \A l \in Keys : KeyKept(l)
      BY <2>2 DEF SpawnFails, GoTo, KeyKept
    <3>4. \A n \in Names, l \in Keys : running'[n] = l => running[n] = l
      BY <3>2, NoneAssumption DEF EntryKept
    <3> QED
      BY <3>2, <3>3, <3>4, RecordsKept DEF RecordKept, RecordsHeld, EntriesRight
  <2>3. CASE Spawn(k)
    BY <1>1, <2>3 DEF Spawn, GoTo, KeyOrder, KeyKept
  <2>4. CASE RunLaunch(k) /\ ~Register(k) /\ ~SpawnFails(k) /\ ~Spawn(k)
    BY <1>1, <2>4 DEF RunLaunch, GoTo, ResolveFails, ResolveFailed, ResolveCancelled, Cancelled,
       Resolved, SpawnFailed, KeyKept
  <2> QED
    BY <1>3, <2>1, <2>2, <2>3, <2>4
<1>4. ASSUME NEW k \in Keys, GameEnds(k) \/ Watchers(k)
      PROVE  RecordsRight'
  <2>1. CASE GameEnds(k)
    BY <1>1, <2>1 DEF GameEnds, KeyKept
  <2>2. CASE MonitorSeesExit(k) \/ WaitFails(k) \/ MarkerSeen(k)
    BY <1>1, <2>2 DEF MonitorSeesExit, WaitFails, MarkerSeen, KeyKept
  <2>3. ASSUME NEW train \in BOOLEAN, OnMarker(k, train)
        PROVE  RecordsRight'
    <3>1. \A n \in Names : sessions'[n].key = sessions[n].key
      BY <2>3 DEF OnMarker, RecordMenu, Records
    <3> QED
      BY <1>1, <2>3, <3>1 DEF OnMarker, KeyKept
  <2> QED
    BY <1>4, <2>1, <2>2, <2>3 DEF Watchers
<1>5. ASSUME NEW k \in Keys, Finalizer(k)
      PROVE  RecordsRight'
  <2>1. ASSUME NEW s \in FinSteps, finAt' = [finAt EXCEPT ![k] = s], s # "none",
               Has(k), Gone(k), Clear(inst[k]) \/ (UNCHANGED running /\ k \in exitSeen),
               \/ RemoveSession(inst[k])
               \/ UNCHANGED sessions /\ s = "seen" /\ k \in adopted
               \/ UNCHANGED sessions /\ finAt[k] # "none" /\ ~ (finAt[k] = "seen" /\ k \in adopted),
               UNCHANGED <<inst, stage, proc, mon>>
        PROVE  RecordsRight'
    <3>1. \A n \in Names : EntryKept(n)
      BY <2>1, OwnEntryOnly DEF Clear, EntryKept
    <3>2. \A n \in Names : RecordKept(n)
      BY <2>1 DEF RemoveSession, NoRecord, RecordKept
    <3>3. \A n \in Names, l \in Keys : sessions'[n].key = l =>
            finAt'[l] = "none" \/ (finAt'[l] = "seen" /\ l \in adopted)
      <4> SUFFICES ASSUME NEW n \in Names, NEW l \in Keys, sessions'[n].key = l
                   PROVE  finAt'[l] = "none" \/ (finAt'[l] = "seen" /\ l \in adopted)
        OBVIOUS
      <4>1. sessions[n].key = l /\ inst[l] = n
        BY <3>2, NoneAssumption DEF RecordKept, RecordsSpawned
      <4>2. RemoveSession(inst[k]) => l # k
        BY <4>1, NoneAssumption DEF RemoveSession, NoRecord
      <4> QED
        BY <2>1, <4>1, <4>2 DEF RecordsHeld
    <3>4. \A n \in Names \ doubled, l \in Keys : running'[n] = l => finAt'[l] = "none"
      <4> SUFFICES ASSUME NEW n \in Names \ doubled, NEW l \in Keys, running'[n] = l
                   PROVE  finAt'[l] = "none"
        OBVIOUS
      <4>1. running[n] = l /\ inst[l] = n /\ finAt[l] = "none"
        BY <3>1, NoneAssumption DEF EntryKept, EntriesRight
      <4>2. l # k
        BY <2>1, <4>1, NoneAssumption DEF Clear, KeyOrder
      <4> QED
        BY <2>1, <4>1, <4>2
    <3> QED
      BY <2>1, <3>1, <3>2, <3>3, <3>4, RecordsKept DEF KeyKept
  <2>2. ASSUME NEW c \in Callers, FinalizeSeen(c, k)
        PROVE  RecordsRight'
    <3>1. Has(k) /\ Gone(k)
      BY <2>2 DEF FinalizeSeen, FirstToEnd, KeyOrder, GoneCalled, Has, Holding, AdoptHolding
    <3> QED
      BY <2>1, <2>2, <3>1 DEF FinalizeSeen, FinSteps
  <2>3. CASE FinalizeCleared(k)
    <3>1. Has(k) /\ Gone(k) /\ k \in exitSeen
      BY <2>3 DEF FinalizeCleared, KeyOrder, Has, Holding, AdoptHolding
    <3> QED
      BY <2>1, <2>3, <3>1 DEF FinalizeCleared, FinSteps
  <2>4. CASE FinalizeFreed(k)
    <3>1. Has(k) /\ Gone(k) /\ k \in exitSeen
      BY <2>4 DEF FinalizeFreed, KeyOrder, Has, Holding, AdoptHolding
    <3> QED
      BY <2>1, <2>4, <3>1 DEF FinalizeFreed, FinSteps
  <2>5. CASE FinalizeAnnounced(k)
    <3>1. \A n \in Names : EntryKept(n) /\ RecordKept(n)
      BY <2>5 DEF FinalizeAnnounced, EntryKept, RecordKept
    <3>2. \A n \in Names, l \in Keys : sessions[n].key = l => l # k
      BY <2>5 DEF FinalizeAnnounced, RecordsHeld
    <3>3. \A n \in Names \ doubled, l \in Keys : running[n] = l => l # k
      BY <2>5 DEF FinalizeAnnounced, EntriesRight
    <3> QED
      BY <2>5, <3>1, <3>2, <3>3, RecordsKept
      DEF FinalizeAnnounced, KeyKept, RecordsHeld, EntriesRight
  <2>6. ASSUME NEW c \in Callers, FinalizeReturns(c, k) PROVE RecordsRight'
    BY <1>1, <2>6 DEF FinalizeReturns, KeyKept
  <2> QED
    BY <1>5, <2>2, <2>3, <2>4, <2>5, <2>6 DEF Finalizer
<1>6. ASSUME NEW r \in Stops, StopRequest(r)
      PROVE  RecordsRight'
  <2>1. ASSUME NEW n \in Names, StopCalled(r, n)
        PROVE  RecordsRight'
    BY <1>2, <2>1 DEF StopCalled
  <2>2. CASE StopReap(r)
    BY <1>2, <2>2 DEF StopReap
  <2>3. CASE StopKill(r)
    BY <1>1, <2>3 DEF StopKill, KeyKept
  <2>4. CASE StopCheck(r) \/ StopLookup(r) \/ StopPending(r) \/ StopReply(r)
    BY <1>1, <2>4 DEF StopCheck, StopLookup, StopPending, StopReply, KeyKept
  <2> QED
    BY <1>6, <2>1, <2>2, <2>3, <2>4 DEF StopRequest
<1>7. CASE ListLaunches
  BY <1>2, <1>7 DEF ListLaunches
<1>8. ASSUME NEW k \in Keys, NEW n \in Names, NEW a \in Modes, LaunchInstance(k, n, a)
      PROVE  RecordsRight'
  BY <1>1, <1>8 DEF LaunchInstance, GoTo, KeyKept
<1>9. ASSUME NEW k \in Keys, TrainDeferred(k)
      PROVE  RecordsRight'
  BY <1>1, <1>9 DEF TrainDeferred, KeyKept
<1>10. ASSUME NEW n \in Names, TrainPicks(n) \/ ChangeBegins(n) \/ ChangeEnds(n)
       PROVE  RecordsRight'
  BY <1>1, <1>10 DEF TrainPicks, ChangeBegins, ChangeEnds, KeyKept
<1> QED
  BY <1>3, <1>4, <1>5, <1>6, <1>7, <1>8, <1>9, <1>10 DEF SessionNext

-----------------------------------------------------------------------------
(* The engine's steps: who has an instance.                                *)

LEMMA SameOwners ==
  ASSUME AInv, UNCHANGED <<active, changing, doubled>>,
         \A k \in Keys : Has(k)' = Has(k),
         \A k \in Keys : Has(k) => inst'[k] = inst[k]
  PROVE  OneOwner'
BY DEF AInv, OneOwner

LEMMA OwnerLeaves ==
  ASSUME AInv, NEW k \in Keys, Has(k), ~Has(k)',
         active' = active \ {inst[k]}, UNCHANGED <<inst, changing, doubled>>,
         \A l \in Keys \ {k} : Has(l)' = Has(l)
  PROVE  OneOwner'
BY DEF AInv, OneOwner

LEMMA OwnerComes ==
  ASSUME AInv, NEW k \in Keys, NEW n \in Names, NEW a \in Modes, LaunchInstance(k, n, a),
         UNCHANGED doubled
  PROVE  OneOwner'
<1>1. /\ stage[k] = "unborn" /\ stage' = [stage EXCEPT ![k] = "resolving"]
      /\ inst' = [inst EXCEPT ![k] = n] /\ finAt' = finAt /\ changing' = changing
      /\ active' = active \cup {n} /\ n \notin active /\ adopted' = adopted
  BY DEF LaunchInstance, GoTo, FreeInstance, exitVars
<1>2. finAt[k] = "none" /\ k \notin adopted /\ stage \in [Keys -> Stages]
      /\ inst \in [Keys -> Names \cup {None}]
  BY <1>1 DEF AInv, Typed, TypeOK, KeysRight, KeyOrder
<1>3. ~Has(k) /\ Has(k)' /\ inst'[k] = n
  BY <1>1, <1>2 DEF Has, Holding, AdoptHolding
<1>4. \A l \in Keys \ {k} : Has(l)' = Has(l) /\ inst'[l] = inst[l]
  BY <1>1, <1>2 DEF Has, Holding, AdoptHolding
<1>5. n \notin doubled => n \notin changing /\ \A l \in Keys : Has(l) => inst[l] # n
  BY <1>1 DEF AInv, OneOwner
<1>6. \A m \in Names \ doubled : m \in active' <=>
        m \in changing' \/ \E l \in Keys : inst'[l] = m /\ Has(l)'
  <2> SUFFICES ASSUME NEW m \in Names \ doubled
               PROVE  m \in active' <=>
                        m \in changing' \/ \E l \in Keys : inst'[l] = m /\ Has(l)'
    OBVIOUS
  <2>1. CASE m = n
    BY <1>1, <1>3, <2>1
  <2>2. CASE m # n
    <3>1. (\E l \in Keys : inst'[l] = m /\ Has(l)') <=> \E l \in Keys : inst[l] = m /\ Has(l)
      BY <1>3, <1>4, <2>2
    <3> QED
      BY <1>1, <2>2, <3>1 DEF AInv, OneOwner
  <2> QED
    BY <2>1, <2>2
<1>7. \A l, i \in Keys :
        Has(l)' /\ Has(i)' /\ inst'[l] = inst'[i] /\ inst'[l] \notin doubled' => l = i
  BY <1>3, <1>4, <1>5 DEF AInv, OneOwner
<1>8. \A l \in Keys : Has(l)' /\ inst'[l] \notin doubled' => inst'[l] \notin changing'
  BY <1>1, <1>3, <1>4, <1>5 DEF AInv, OneOwner
<1> QED
  BY <1>6, <1>7, <1>8 DEF OneOwner

LEMMA ChangeOwns ==
  ASSUME AInv, NEW n \in Names, ChangeBegins(n) \/ ChangeEnds(n), UNCHANGED doubled
  PROVE  OneOwner'
<1>1. UNCHANGED <<inst, stage, finAt, adopted>>
  BY DEF ChangeBegins, ChangeEnds, launchVars, exitVars
<1>2. \A k \in Keys : Has(k)' = Has(k) /\ inst'[k] = inst[k]
  BY <1>1 DEF Has, Holding, AdoptHolding
<1>3. CASE ChangeBegins(n)
  BY <1>2, <1>3 DEF ChangeBegins, FreeInstance, AInv, OneOwner
<1>4. CASE ChangeEnds(n)
  BY <1>2, <1>4 DEF ChangeEnds, AInv, OneOwner
<1> QED
  BY <1>3, <1>4

LEMMA LaunchOwns ==
  ASSUME AInv, NEW k \in Keys, RunLaunch(k), UNCHANGED doubled
  PROVE  OneOwner'
<1> USE DEF AInv, Typed, TypeOK, KeysRight, GoTo, Has, Holding, AdoptHolding, exitVars,
      gameVars, bufferVars
<1>1. CASE \/ ResolveFailed(k) \/ ResolveCancelled(k) \/ Resolved(k)
           \/ Spawn(k) \/ Register(k) \/ SpawnFails(k)
  <2>1. UNCHANGED <<inst, active, changing, finAt, adopted>>
    BY <1>1 DEF ResolveFailed, ResolveCancelled, Resolved, Spawn, Register, SpawnFails
  <2>2. \A l \in Keys : Has(l)' = Has(l)
    BY <1>1, <2>1 DEF ResolveFailed, ResolveCancelled, Resolved, Spawn, Register, SpawnFails
  <2> QED
    BY <2>1, <2>2, SameOwners
<1>2. CASE ResolveFails(k) \/ Cancelled(k) \/ SpawnFailed(k)
  <2>1. /\ UNCHANGED <<inst, changing, finAt, adopted>> /\ active' = active \ {inst[k]}
        /\ stage[k] \in {"resolving", "cancelling", "unwinding"}
        /\ stage'[k] \in {"failing", "over"}
        /\ \A l \in Keys \ {k} : stage'[l] = stage[l]
    BY <1>2 DEF ResolveFails, Cancelled, SpawnFailed
  <2>2. finAt[k] = "none" /\ k \notin adopted
    BY <2>1 DEF KeyOrder
  <2>3. Has(k) /\ ~Has(k)'
    BY <2>1, <2>2
  <2>4. \A l \in Keys \ {k} : Has(l)' = Has(l)
    BY <2>1
  <2> QED
    BY <2>1, <2>3, <2>4, OwnerLeaves
<1> QED
  BY <1>1, <1>2 DEF RunLaunch

LEMMA FinalizerOwns ==
  ASSUME AInv, NEW k \in Keys, Finalizer(k), UNCHANGED doubled
  PROVE  OneOwner'
<1> USE DEF AInv, Typed, TypeOK, KeysRight, Has, Holding, AdoptHolding, launchVars
<1>1. CASE FinalizeFreed(k)
  <2>1. Has(k) /\ ~Has(k)' /\ \A l \in Keys \ {k} : Has(l)' = Has(l)
    BY <1>1 DEF FinalizeFreed, KeyOrder
  <2> QED
    BY <1>1, <2>1, OwnerLeaves DEF FinalizeFreed
<1>2. CASE Finalizer(k) /\ ~FinalizeFreed(k)
  <2>1. UNCHANGED <<inst, stage, active, changing, adopted>>
    BY <1>2 DEF Finalizer, FinalizeReturns, FinalizeSeen, FinalizeCleared,
       FinalizeAnnounced, engineVars
  <2>2. \A l \in Keys : finAt'[l] \in {"freed", "done"} <=> finAt[l] \in {"freed", "done"}
    <3>1. ASSUME NEW c \in Callers, FinalizeReturns(c, k)
          PROVE  finAt' = finAt
      BY <3>1 DEF FinalizeReturns
    <3>2. ASSUME NEW c \in Callers, FinalizeSeen(c, k)
          PROVE  finAt[k] = "none" /\ finAt' = [finAt EXCEPT ![k] = "seen"]
      BY <3>2 DEF FinalizeSeen, FirstToEnd, KeyOrder
    <3> QED
      BY <1>2, <3>1, <3>2 DEF Finalizer, FinalizeCleared, FinalizeAnnounced
  <2>3. \A l \in Keys : Has(l)' = Has(l)
    BY <2>1, <2>2
  <2> QED
    BY <2>1, <2>3, SameOwners
<1> QED
  BY <1>1, <1>2

LEMMA OwnerStep == AInv /\ SessionNext /\ UNCHANGED doubled => OneOwner'
<1> SUFFICES ASSUME AInv, SessionNext, UNCHANGED doubled
             PROVE  OneOwner'
  OBVIOUS
<1>1. ASSUME UNCHANGED <<inst, stage, active, changing, finAt, adopted>>
      PROVE  OneOwner'
  <2>1. \A k \in Keys : Has(k)' = Has(k) /\ inst'[k] = inst[k]
    BY <1>1 DEF Has, Holding, AdoptHolding
  <2> QED
    BY <1>1, <2>1, SameOwners
<1> USE DEF launchVars, gameVars, engineVars, bufferVars, exitVars
<1>2. ASSUME NEW k \in Keys, GameEnds(k) \/ Watchers(k)
      PROVE  OneOwner'
  BY <1>1, <1>2 DEF GameEnds, Watchers, MonitorSeesExit, WaitFails, MarkerSeen, OnMarker
<1>3. CASE ListLaunches
  BY <1>1, <1>3 DEF ListLaunches
<1>4. ASSUME NEW r \in Stops, StopRequest(r)
      PROVE  OneOwner'
  BY <1>1, <1>4 DEF StopRequest, StopCalled, StopCheck, StopLookup, StopPending,
     StopKill, StopReap, StopReply
<1>5. ASSUME NEW k \in Keys, TrainDeferred(k)
      PROVE  OneOwner'
  BY <1>1, <1>5 DEF TrainDeferred
<1>6. ASSUME NEW n \in Names, TrainPicks(n)
      PROVE  OneOwner'
  BY <1>1, <1>6 DEF TrainPicks
<1> QED
  BY <1>2, <1>3, <1>4, <1>5, <1>6, OwnerComes, ChangeOwns, LaunchOwns, FinalizerOwns
  DEF SessionNext

-----------------------------------------------------------------------------
(* The invariant holds, and settles each of the properties.                *)

LEMMA EngineKeeps == AInv /\ Engine => AInv'
<1> SUFFICES ASSUME AInv, Engine PROVE AInv'
  OBVIOUS
<1>1. SessionNext /\ UNCHANGED adoptVars
  BY DEF Engine
<1>2. Typed' /\ AdoptionTyped'
  BY <1>1, TypedStep DEF AInv, AdoptionTyped, adoptVars
<1>3. UNCHANGED <<announcing, doubled>>
  BY <1>1 DEF adoptVars
<1> QED
  BY <1>1, <1>2, <1>3, KeyOrderStep, GoneCalledStep, RecordsStep, OwnerStep
  DEF AInv, KeysRight, RecordsRight

LEMMA AInvStep == AInv /\ [AdoptionNext]_allVars => AInv'
<1> SUFFICES ASSUME AInv, [AdoptionNext]_allVars PROVE AInv'
  OBVIOUS
<1>1. CASE UNCHANGED allVars
  <2>1. UNCHANGED <<vars, adoptAt, snapshot, kept, adoptee, announcing, skipped, doubled>>
    BY <1>1 DEF allVars, adoptVars
  <2>2. Typed' /\ AdoptionTyped' /\ KeysRight' /\ OneOwner'
    BY <2>1, EngineUntouched, TypedStep DEF AInv, AdoptionTyped
  <2>3. AdoptedRight'
    BY <2>1 DEF AInv, AdoptedRight, AdoptionOrder, RecordedCovered, AdoptedEntered, Pending,
       Tracked, vars, launchVars, gameVars, engineVars, exitVars
  <2> QED
    BY <2>2, <2>3 DEF AInv
<1> QED
  BY <1>1, EngineKeeps, AdoptKeeps, AnnounceKeeps, RestartKeeps DEF AdoptionNext

LEMMA AdoptionInv == AdoptionSpec => []AInv
<1>1. AInv /\ [AdoptionNext]_allVars => AInv'
  BY AInvStep
<1> QED
  BY AInvInit, <1>1, PTL DEF AdoptionSpec

LEMMA AInvHolders == AInv => OneHolderAcrossRestarts
BY DEF AInv, OneOwner, OneHolderAcrossRestarts, Has

LEMMA AInvExits == AInv => AdoptedExitOnce
BY DEF AInv, KeysRight, KeyOrder, Gone, AdoptedExitOnce, Typed, TypeOK

LEMMA AInvAdopted == AInv => AdoptedGameIsRunning
BY DEF AInv, AdoptedRight, AdoptedEntered, AdoptedGameIsRunning, AdoptionTyped

LEMMA AInvBlocks == AInv => RecordedGameBlocksPlay
<1> SUFFICES ASSUME AInv, adoptAt = "done", NEW n \in Names \ (skipped \cup doubled),
                    sessions[n].key # None, Tracked(sessions[n].key)
             PROVE  n \in active /\ running[n] = sessions[n].key
  BY DEF RecordedGameBlocksPlay
<1> DEFINE k == sessions[n].key
<1>1. k \in Keys
  BY DEF AInv, Typed, TypeOK, Records
<1>2. Pending = {}
  BY DEF AInv, AdoptionTyped, Pending
<1>3. running[n] = k
  BY <1>1, <1>2 DEF AInv, AdoptedRight, RecordedCovered
<1>4. Has(k) /\ inst[k] = n
  BY <1>1, <1>3, EntryHas
<1> QED
  BY <1>1, <1>3, <1>4 DEF AInv, OneOwner

\* Of all steps, adoption's, restarts and the engine's, only a spawn brings a
\* process to life.
LEMMA OnlySpawnStarts ==
  ASSUME AInv, [AdoptionNext]_allVars, NEW k \in Keys, proc[k] # "alive", proc'[k] = "alive"
  PROVE  Spawn(k)
<1> USE DEF allVars, vars, launchVars, gameVars, engineVars, bufferVars, exitVars, stopVars
<1>1. SessionNext
  BY DEF AdoptionNext, Engine, Restart, LateAnnounce, Adopt, ReadSessions, ProbeProcesses,
     RewriteSessions, AdoptSkips, AdoptLoads, AdoptMarks, AdoptEnters, AdoptDone
<1>2. \A l \in Keys : ~ GameEnds(l)
  BY DEF AInv, Typed, TypeOK, GameEnds
<1>3. \A l \in Keys : ~ Watchers(l) /\ ~ Finalizer(l) /\ ~ TrainDeferred(l)
  BY DEF Watchers, MonitorSeesExit, WaitFails, MarkerSeen, OnMarker, Finalizer, FinalizeReturns,
     FinalizeSeen, FinalizeCleared, FinalizeFreed, FinalizeAnnounced, TrainDeferred
<1>4. \A r \in Stops : ~ StopRequest(r)
  <2> SUFFICES ASSUME NEW r \in Stops, StopRequest(r) PROVE FALSE
    OBVIOUS
  <2>1. CASE StopKill(r)
    BY <2>1 DEF AInv, Typed, TypeOK, StopKill
  <2> QED
    BY <2>1 DEF StopRequest, StopCalled, StopCheck, StopLookup, StopPending, StopReap, StopReply
<1>5. ~ ListLaunches /\ \A n \in Names : ~ TrainPicks(n) /\ ~ ChangeBegins(n) /\ ~ ChangeEnds(n)
  BY DEF ListLaunches, TrainPicks, ChangeBegins, ChangeEnds
<1>6. \A l \in Keys, n \in Names, a \in Modes : ~ LaunchInstance(l, n, a)
  BY DEF LaunchInstance
<1>7. PICK l \in Keys : RunLaunch(l)
  BY <1>1, <1>2, <1>3, <1>4, <1>5, <1>6 DEF SessionNext
<1>8. Spawn(l)
  BY <1>7 DEF RunLaunch, ResolveFails, ResolveFailed, ResolveCancelled, Cancelled, Resolved,
     Register, SpawnFails, SpawnFailed
<1>9. l = k
  BY <1>8 DEF AInv, Typed, TypeOK, Spawn
<1> QED
  BY <1>8, <1>9

\* A launch that spawns holds its instance, and so does a recorded game that
\* lives: one of this session until its finalizer has removed the record, an
\* earlier one from the time it is adopted.
LEMMA AInvSpawns ==
  AInv /\ [AdoptionNext]_allVars =>
    \A k, l \in Keys :
      /\ proc[k] # "alive" /\ proc'[k] = "alive"
      /\ proc[l] = "alive" /\ sessions[inst[k]].key = l
      /\ adoptAt = "done"
      => inst[k] \in skipped \cup doubled
<1> SUFFICES ASSUME AInv, [AdoptionNext]_allVars, NEW k \in Keys, NEW l \in Keys,
                    proc[k] # "alive", proc'[k] = "alive",
                    proc[l] = "alive", sessions[inst[k]].key = l, adoptAt = "done",
                    inst[k] \notin skipped \cup doubled
             PROVE  FALSE
  OBVIOUS
<1>1. stage[k] = "starting"
  BY OnlySpawnStarts DEF Spawn, GoTo
<1>2. finAt[k] = "none" /\ k \notin adopted
  BY <1>1 DEF AInv, KeysRight, KeyOrder
<1>3. Has(k)
  BY <1>1, <1>2 DEF Has, Holding
<1>4. inst[k] \in Names \ (skipped \cup doubled)
  BY <1>3, HolderNamed
<1>5. CASE mon[l] # "off"
  BY <1>1, <1>3, <1>4, <1>5, RecordHas, HoldersSame
<1>6. CASE mon[l] = "off"
  <2>1. Pending = {}
    BY DEF AInv, AdoptionTyped, Pending
  <2>2. running[inst[k]] = l
    BY <1>4, <1>6, <2>1 DEF AInv, AdoptedRight, RecordedCovered, Tracked
  <2> QED
    BY <1>1, <1>2, <1>3, <1>4, <2>2, OwnEntryOnly
<1> QED
  BY <1>5, <1>6

\* No step of the engine takes the record of a registered living game away: a
\* finalizer and a registration belong to the holder of the instance, which is
\* that game.
LEMMA EngineKeepsRecord ==
  ASSUME AInv, SessionNext, NEW n \in Names \ doubled, NEW l \in Keys, running[n] = l,
         Tracked(l), sessions[n].key = l
  PROVE  sessions'[n].key = l
<1>1. Has(l) /\ inst[l] = n /\ (stage[l] = "done" \/ l \in adopted) /\ ~Gone(l)
  BY EntryHas DEF Tracked, Gone
<1>2. ASSUME NEW k \in Keys, Has(k), k # l PROVE inst[k] # n
  BY <1>1, <1>2, HoldersSame
<1> USE DEF AInv, Typed, TypeOK, KeysRight, bufferVars
<1>3. ASSUME NEW k \in Keys, Register(k)
      PROVE  sessions'[n].key = l
  <2>1. stage[k] = "spawned" /\ (sessions' = sessions \/ (NotEnded(k) /\ RecordGame(inst[k], k)))
    BY <1>3 DEF Register, GoTo
  <2>2. NotEnded(k) => Has(k) /\ k # l
    BY <1>1, <2>1 DEF NotEnded, KeyOrder, Has, Holding
  <2> QED
    BY <1>2, <2>1, <2>2 DEF RecordGame
<1>4. ASSUME NEW k \in Keys, RunLaunch(k), ~Register(k)
      PROVE  UNCHANGED sessions
  BY <1>4 DEF RunLaunch, ResolveFails, ResolveFailed, ResolveCancelled, Cancelled, Resolved,
     Spawn, SpawnFails, SpawnFailed
<1>5. ASSUME NEW k \in Keys, GameEnds(k) \/ Watchers(k)
      PROVE  sessions'[n].key = l
  BY <1>5 DEF GameEnds, Watchers, MonitorSeesExit, WaitFails, MarkerSeen, OnMarker, RecordMenu,
     Records
<1>6. ASSUME NEW k \in Keys, Finalizer(k)
      PROVE  sessions'[n].key = l
  <2>1. ASSUME NEW c \in Callers, FinalizeSeen(c, k) \/ FinalizeCleared(k)
        PROVE  sessions'[n].key = l
    <3>1. Has(k) /\ k # l
      BY <1>1, <2>1 DEF FinalizeSeen, FinalizeCleared, FirstToEnd, GoneCalled, KeyOrder, Has,
         Holding, AdoptHolding
    <3> QED
      BY <1>2, <2>1, <3>1 DEF FinalizeSeen, FinalizeCleared, RemoveSession
  <2>2. CASE FinalizeFreed(k) \/ FinalizeAnnounced(k)
             \/ \E c \in Callers : FinalizeReturns(c, k)
    BY <2>2 DEF FinalizeFreed, FinalizeAnnounced, FinalizeReturns
  <2>3. "list" \in Callers
    BY DEF Callers
  <2> QED
    BY <1>6, <2>1, <2>2, <2>3 DEF Finalizer
<1>7. ASSUME NEW r \in Stops, StopRequest(r)
      PROVE  UNCHANGED sessions
  BY <1>7 DEF StopRequest, StopCalled, StopCheck, StopLookup, StopPending, StopKill, StopReap,
     StopReply
<1>8. ASSUME \/ ListLaunches \/ \E k \in Keys : TrainDeferred(k)
             \/ \E m \in Names : TrainPicks(m) \/ ChangeBegins(m) \/ ChangeEnds(m)
             \/ \E k \in Keys, m \in Names, a \in Modes : LaunchInstance(k, m, a)
      PROVE  UNCHANGED sessions
  BY <1>8 DEF ListLaunches, TrainDeferred, TrainPicks, ChangeBegins, ChangeEnds, LaunchInstance
<1> QED
  BY <1>3, <1>4, <1>5, <1>6, <1>7, <1>8 DEF SessionNext

\* Of the other steps only the rewrite does, of a game it does not keep.
LEMMA AInvRecords ==
  AInv /\ [AdoptionNext]_allVars =>
    \A n \in Names \ doubled : LET k == running[n] IN
      k # None =>
        (Tracked(k) /\ sessions[n].key = k /\ sessions'[n].key # k
           => adoptAt = "rewrite" /\ adoptAt' = "each" /\ n \notin kept)
<1> SUFFICES ASSUME AInv, [AdoptionNext]_allVars, NEW n \in Names \ doubled, running[n] # None,
                    Tracked(running[n]), sessions[n].key = running[n],
                    sessions'[n].key # running[n]
             PROVE  adoptAt = "rewrite" /\ adoptAt' = "each" /\ n \notin kept
  OBVIOUS
<1>1. running[n] \in Keys
  BY DEF AInv, Typed, TypeOK
<1>2. ~SessionNext
  BY <1>1, EngineKeepsRecord
<1>3. RewriteSessions
  BY <1>2 DEF AdoptionNext, Engine, Restart, LateAnnounce, Adopt, ReadSessions, ProbeProcesses,
     AdoptSkips, AdoptLoads, AdoptMarks, AdoptEnters, AdoptDone, allVars, vars
<1> QED
  BY <1>3 DEF RewriteSessions, AdoptAt, Surviving

-----------------------------------------------------------------------------
(* No adopted game goes out of the sweeps' sight.                          *)

InSight(k) ==
  running[inst[k]] = k \/ (\E c \in Callers : <<c, k>> \in calls) \/ finAt[k] # "none"

\* What does not end the entry, the call or the finalizer of a game.
LEMMA InSightKept ==
  ASSUME NEW k \in Keys, InSight(k), inst'[k] = inst[k],
         running'[inst[k]] = running[inst[k]],
         \A c \in Callers : <<c, k>> \in calls => <<c, k>> \in calls' \/ finAt'[k] # "none",
         finAt[k] # "none" => finAt'[k] # "none"
  PROVE  InSight(k)'
BY DEF InSight, Callers

\* An adopted game that is not finalized holds its instance: whoever launches
\* or finalizes another there would hold it too.
LEMMA SightedHas ==
  ASSUME AInv, NEW k \in adopted, finAt[k] = "none", inst[k] \notin doubled,
         NEW l \in Keys, Has(l), l # k
  PROVE  inst[l] # inst[k]
<1>1. k \in Keys /\ Has(k)
  BY DEF AInv, Typed, TypeOK, Has, AdoptHolding
<1> QED
  BY <1>1, HoldersSame

\* A launch takes a fresh key, and nothing else files a key.
LEMMA KeysStay ==
  ASSUME AInv, SessionNext, NEW k \in adopted
  PROVE  inst'[k] = inst[k]
<1> USE DEF launchVars
<1>1. k \in Keys /\ stage[k] # "unborn"
  BY DEF AInv, Typed, TypeOK, KeysRight, KeyOrder
<1>2. ASSUME NEW l \in Keys, NEW n \in Names, NEW a \in Modes, LaunchInstance(l, n, a)
      PROVE  inst'[k] = inst[k]
  BY <1>1, <1>2 DEF LaunchInstance, GoTo, AInv, Typed, TypeOK
<1>3. ASSUME NEW l \in Keys, RunLaunch(l)
      PROVE  UNCHANGED inst
  BY <1>3 DEF RunLaunch, ResolveFails, ResolveFailed, ResolveCancelled, Cancelled, Resolved,
     Spawn, Register, SpawnFails, SpawnFailed
<1>4. ASSUME NEW l \in Keys, GameEnds(l) \/ Watchers(l) \/ Finalizer(l)
      PROVE  UNCHANGED inst
  BY <1>4 DEF GameEnds, Watchers, MonitorSeesExit, WaitFails, MarkerSeen, OnMarker, Finalizer,
     FinalizeReturns, FinalizeSeen, FinalizeCleared, FinalizeFreed, FinalizeAnnounced
<1>5. ASSUME NEW r \in Stops, StopRequest(r)
      PROVE  UNCHANGED inst
  BY <1>5 DEF StopRequest, StopCalled, StopCheck, StopLookup, StopPending, StopKill, StopReap,
     StopReply
<1> QED
  BY <1>2, <1>3, <1>4, <1>5 DEF SessionNext, ListLaunches, TrainDeferred, TrainPicks,
     ChangeBegins, ChangeEnds

LEMMA EngineKeepsSight ==
  ASSUME AInv, SessionNext, NEW k \in adopted, inst[k] \notin doubled, InSight(k)
  PROVE  InSight(k)'
<1>1. /\ k \in Keys /\ stage[k] \in {"done", "over"} /\ inst[k] \in Names
      /\ k \in exitSeen <=> finAt[k] # "none"
  BY DEF AInv, Typed, TypeOK, KeysRight, KeyOrder
<1> USE <1>1, KeysStay DEF AInv, Typed, TypeOK, launchVars, gameVars, engineVars, bufferVars, exitVars
<1>2. ASSUME UNCHANGED <<running, finAt>>, calls \subseteq calls'
      PROVE  InSight(k)'
  BY <1>2, InSightKept
<1>3. ASSUME NEW c \in Callers, Reconcile(c), UNCHANGED finAt
      PROVE  InSight(k)'
  <2>1. calls \subseteq calls' /\ inst'[k] = inst[k]
    BY <1>3 DEF Reconcile
  <2>2. CASE inst[k] \in DeadEntries /\ running[inst[k]] = k
    BY <1>3, <2>2 DEF Reconcile, InSight
  <2>3. CASE inst[k] \notin DeadEntries
    BY <1>3, <2>1, <2>3, InSightKept DEF Reconcile
  <2>4. CASE running[inst[k]] # k
    BY <1>3, <2>1, <2>4 DEF InSight
  <2> QED
    BY <2>2, <2>3, <2>4
<1>4. ASSUME NEW l \in Keys, RunLaunch(l)
      PROVE  InSight(k)'
  <2>1. CASE (Register(l) /\ NotEnded(l)) \/ SpawnFails(l)
    <3>1. Has(l) /\ l # k /\ inst[l] \in Names
      BY <2>1, HolderNamed DEF NotEnded, Register, SpawnFails, GoTo, Has, Holding, KeysRight, KeyOrder
    <3>2. UNCHANGED <<inst, finAt, calls>>
          /\ \A n \in Names \ {inst[l]} : running'[n] = running[n]
      BY <2>1 DEF Register, SpawnFails, Clear
    <3>3. CASE finAt[k] = "none"
      BY <3>1, <3>2, <3>3, SightedHas, InSightKept
    <3>4. CASE finAt[k] # "none"
      BY <3>2, <3>4 DEF InSight
    <3> QED
      BY <3>3, <3>4
  <2>2. CASE Register(l) /\ ~NotEnded(l)
    BY <1>2, <2>2 DEF Register
  <2>3. CASE RunLaunch(l) /\ ~Register(l) /\ ~SpawnFails(l)
    BY <1>2, <2>3 DEF RunLaunch, ResolveFails, ResolveFailed, ResolveCancelled, Cancelled,
       Resolved, Spawn, SpawnFailed
  <2> QED
    BY <1>4, <2>1, <2>2, <2>3
<1>5. ASSUME NEW l \in Keys, GameEnds(l) \/ Watchers(l)
      PROVE  InSight(k)'
  BY <1>2, <1>5 DEF GameEnds, Watchers, MonitorSeesExit, WaitFails, CallFinalizer, MarkerSeen,
     OnMarker
<1>6. ASSUME NEW l \in Keys, Finalizer(l)
      PROVE  InSight(k)'
  <2>1. ASSUME NEW c \in Callers, FinalizeSeen(c, l)
        PROVE  InSight(k)'
    <3>1. UNCHANGED inst /\ calls' = calls \ {<<c, l>>} /\ finAt' = [finAt EXCEPT ![l] = "seen"]
          /\ running' = [running EXCEPT ![inst[l]] = None]
      BY <2>1 DEF FinalizeSeen, Clear
    <3>2. CASE l = k \/ finAt[k] # "none"
      BY <3>1, <3>2 DEF InSight
    <3>3. CASE l # k /\ finAt[k] = "none"
      <4>1. Has(l)
        BY <2>1 DEF FinalizeSeen, FirstToEnd, KeysRight, KeyOrder, GoneCalled, Has, Holding,
                    AdoptHolding
      <4>2. inst[l] # inst[k]
        BY <3>3, <4>1, SightedHas
      <4> QED
        BY <3>1, <3>3, <4>2, InSightKept
    <3> QED
      BY <3>2, <3>3
  <2>2. ASSUME NEW c \in Callers, FinalizeReturns(c, l)
        PROVE  InSight(k)'
    BY <2>2, InSightKept DEF FinalizeReturns, LostTheRace
  <2>3. CASE FinalizeCleared(l) \/ FinalizeFreed(l) \/ FinalizeAnnounced(l)
    BY <2>3, InSightKept DEF FinalizeCleared, FinalizeFreed, FinalizeAnnounced
  <2> QED
    BY <1>6, <2>1, <2>2, <2>3 DEF Finalizer
<1>7. ASSUME NEW r \in Stops, StopRequest(r)
      PROVE  InSight(k)'
  <2>1. r \in Callers
    BY DEF Callers
  <2>2. ASSUME NEW n \in Names, StopCalled(r, n)
        PROVE  InSight(k)'
    BY <1>3, <2>1, <2>2 DEF StopCalled
  <2>3. CASE StopReap(r)
    BY <1>3, <2>1, <2>3 DEF StopReap
  <2>4. CASE StopCheck(r) \/ StopLookup(r) \/ StopPending(r) \/ StopKill(r) \/ StopReply(r)
    BY <1>2, <2>4 DEF StopCheck, StopLookup, StopPending, StopKill, StopReply
  <2> QED
    BY <1>7, <2>2, <2>3, <2>4 DEF StopRequest
<1>8. CASE ListLaunches
  BY <1>3, <1>8 DEF ListLaunches, Callers
<1>9. ASSUME NEW l \in Keys, NEW n \in Names, NEW a \in Modes, LaunchInstance(l, n, a)
      PROVE  InSight(k)'
  BY <1>2, <1>9 DEF LaunchInstance, GoTo
<1>10. ASSUME \/ \E l \in Keys : TrainDeferred(l)
              \/ \E n \in Names : TrainPicks(n) \/ ChangeBegins(n) \/ ChangeEnds(n)
       PROVE  InSight(k)'
  BY <1>2, <1>10 DEF TrainDeferred, TrainPicks, ChangeBegins, ChangeEnds
<1> QED
  BY <1>4, <1>5, <1>6, <1>7, <1>8, <1>9, <1>10 DEF SessionNext

LEMMA AdoptKeepsSight == AInv /\ AdoptedGameIsWatched /\ Adopt => AdoptedGameIsWatched'
<1> SUFFICES ASSUME AInv, AdoptedGameIsWatched, Adopt,
                    NEW k \in adopted', inst'[k] \notin doubled'
             PROVE  InSight(k)' \/ adoptee' = inst'[k]
  BY DEF AdoptedGameIsWatched, InSight, Callers
<1> USE NoneAssumption DEF launchVars, exitVars, engineVars
<1>1. k \in Keys
  BY AdoptTyped DEF Typed, TypeOK
<1>2. ASSUME UNCHANGED <<inst, running, calls, finAt, adopted, doubled>>,
             adoptee # None => adoptee' = adoptee
      PROVE  InSight(k)' \/ adoptee' = inst'[k]
  BY <1>1, <1>2 DEF AInv, Typed, TypeOK, KeysRight, KeyOrder, AdoptedGameIsWatched, InSight, Callers
<1>3. CASE ReadSessions \/ ProbeProcesses \/ RewriteSessions \/ AdoptDone
  BY <1>2, <1>3 DEF ReadSessions, ProbeProcesses, RewriteSessions, AdoptDone, vars
<1>4. ASSUME NEW n \in Names, AdoptSkips(n) \/ AdoptLoads(n)
      PROVE  InSight(k)' \/ adoptee' = inst'[k]
  BY <1>2, <1>4 DEF AdoptSkips, AdoptLoads, AdoptAt, AInv, AdoptionTyped, vars
<1>5. CASE AdoptMarks
  <2> DEFINE j == snapshot[adoptee].key
  <2>1. /\ adoptee \in Names /\ j \in Keys /\ inst[j] = adoptee
        /\ adopted' = adopted \cup {j} /\ UNCHANGED <<inst, running, adoptee>>
        /\ calls' = {call \in calls : call[2] # j} /\ finAt' = [finAt EXCEPT ![j] = "none"]
        /\ doubled \subseteq doubled'
    BY <1>5 DEF AdoptMarks, AdoptAt, OwnFinalizer, AInv, AdoptionTyped, AdoptedRight,
                AdoptionOrder, Pending, KeysRight, RecordsSpawned
  <2>2. CASE k = j
    BY <2>1, <2>2
  <2>3. CASE k # j
    BY <1>1, <2>1, <2>3 DEF AdoptedGameIsWatched, InSight, Callers, AInv, Typed, TypeOK
  <2> QED
    BY <2>2, <2>3
<1>6. CASE AdoptEnters
  <2>1. /\ adoptee \in Names /\ UNCHANGED <<inst, calls, finAt, adopted, doubled>>
        /\ running' = [running EXCEPT ![adoptee] = snapshot[adoptee].key]
        /\ snapshot[adoptee].key \in adopted /\ inst[snapshot[adoptee].key] = adoptee
    BY <1>6 DEF AdoptEnters, AdoptAt, EnterRunning, AInv, Typed, TypeOK, AdoptionTyped,
                AdoptedRight, AdoptionOrder, Pending, KeysRight, RecordsSpawned
  <2>2. CASE inst[k] = adoptee
    <3>1. k = snapshot[adoptee].key
      BY <2>1, <2>2 DEF AInv, AdoptedRight, AdoptionOrder
    <3> QED
      BY <2>1, <2>2, <3>1 DEF InSight, AInv, Typed, TypeOK
  <2>3. CASE inst[k] # adoptee
    <3>1. InSight(k) /\ UNCHANGED inst
      BY <2>1, <2>3 DEF AdoptedGameIsWatched, InSight
    <3>2. inst[k] \in Names
      BY <1>1, <2>1 DEF AInv, Typed, TypeOK, KeysRight, KeyOrder
    <3>3. running'[inst[k]] = running[inst[k]]
      BY <2>1, <2>3, <3>2 DEF AInv, Typed, TypeOK
    <3> QED
      BY <1>1, <2>1, <3>1, <3>3, InSightKept
  <2> QED
    BY <2>2, <2>3
<1> QED
  BY <1>3, <1>4, <1>5, <1>6 DEF Adopt

LEMMA WatchedStep ==
  AInv /\ AdoptedGameIsWatched /\ [AdoptionNext]_allVars => AdoptedGameIsWatched'
<1> SUFFICES ASSUME AInv, AdoptedGameIsWatched, [AdoptionNext]_allVars
             PROVE  AdoptedGameIsWatched'
  OBVIOUS
<1>1. CASE UNCHANGED allVars \/ \E k \in Keys : LateAnnounce(k)
  BY <1>1 DEF LateAnnounce, AdoptedGameIsWatched, Callers, allVars, adoptVars, vars, launchVars,
              engineVars, exitVars
<1>2. CASE Engine
  <2> SUFFICES ASSUME NEW k \in adopted', inst'[k] \notin doubled'
               PROVE  InSight(k)' \/ adoptee' = inst'[k]
    BY DEF AdoptedGameIsWatched, InSight, Callers
  <2>1. SessionNext /\ k \in adopted /\ UNCHANGED <<doubled, adoptee>>
    BY <1>2, AdoptedStay DEF Engine, adoptVars
  <2>2. inst'[k] = inst[k]
    BY <2>1, KeysStay
  <2> QED
    BY <2>1, <2>2, EngineKeepsSight DEF AdoptedGameIsWatched, InSight
<1>3. CASE Restart
  BY <1>3 DEF Restart, AdoptedGameIsWatched
<1> QED
  BY <1>1, <1>2, <1>3, AdoptKeepsSight DEF AdoptionNext

-----------------------------------------------------------------------------
(* The theorems.                                                           *)

\* The record of running games, the adoption state and all the engine state
\* keep their types through any number of restarts, and adoption has a game at
\* hand exactly while it loads and enters one.
THEOREM AdoptionTypes == AdoptionSpec => [](Typed /\ AdoptionTyped)
<1>1. AInv => Typed /\ AdoptionTyped
  BY DEF AInv
<1> QED
  BY AdoptionInv, <1>1, PTL

\* Whenever the launcher was closed and whatever runs beside adoption, an
\* instance has one holder: a launch, an adopted game or a version change
\* (adopt_running_games, finalize_exit).
THEOREM AdoptionOneHolder == AdoptionSpec => []OneHolderAcrossRestarts
BY AdoptionInv, AInvHolders, PTL

\* A recorded game that lives blocks Play once adoption is done, unless its
\* instance was taken before adoption got to it.
THEOREM AdoptionBlocksPlay == AdoptionSpec => []RecordedGameBlocksPlay
BY AdoptionInv, AInvBlocks, PTL

\* Launches, exits, sweeps and restarts leave the record of a registered
\* living game alone; the rewrite of running-games.json is all that drops it.
THEOREM AdoptionKeepsRecord == AdoptionSpec => RecordLostOnlyToRewrite
BY AdoptionInv, AInvRecords, PTL DEF AdoptionSpec, RecordLostOnlyToRewrite

\* The end of an adopted game is announced once at most, and only when it ended.
THEOREM AdoptionExitOnce == AdoptionSpec => []AdoptedExitOnce
BY AdoptionInv, AInvExits, PTL

\* Stop finds an adopted game: it is the running entry of its instance, unless
\* the instance was taken while adoption loaded it.
THEOREM AdoptionGameRunning == AdoptionSpec => []AdoptedGameIsRunning
BY AdoptionInv, AInvAdopted, PTL

\* No adopted game is forgotten: until it is finalized it is where a sweep sees
\* it, unless its instance was taken while adoption loaded it (reconcile_running).
THEOREM AdoptionGameWatched == AdoptionSpec => []AdoptedGameIsWatched
<1>1. AdoptionInit => AdoptedGameIsWatched
  BY DEF AdoptionInit, Init, AdoptedGameIsWatched
<1> QED
  BY <1>1, AdoptionInv, WatchedStep, PTL DEF AdoptionSpec

\* A second game is not started beside a recorded one after adoption, whenever
\* and however often the launcher was closed, unless the instance was taken
\* before adoption got to it (game_sessions.rs, adopt_running_games).
THEOREM AdoptionNoSecondGame == AdoptionSpec => NoSecondGame
BY AdoptionInv, AInvSpawns, PTL DEF AdoptionSpec, NoSecondGame
=============================================================================
