-------------------------- MODULE RelayBudgetProofs ---------------------------
(***************************************************************************)
(* Proofs that with one tokio worker, the default of Config::workers, the  *)
(* rate window and the daily quota hold, and an account is refused only at *)
(* a limit, for any limits and any numbers of connections and accounts.    *)
(* With more workers DailyBudget fails: a clock read before midnight may   *)
(* be used after one that was read later.                                  *)
(***************************************************************************)
EXTENDS RelayLimitsProofs

\* The clock readings that are, or may be, about to be used.
Readings == {now} \cup {began[c] : c \in Stamped}
                  \cup (IF pruning = None THEN {} ELSE {pruning})

\* With one worker a call that has read the clock is the next to lock.
Solo ==
  /\ \A c, d \in Stamped : c = d
  /\ pruning # None => Stamped = {}
  /\ \A t \in Readings : t <= now

\* An entry's bytes are what was charged on its day, none later; an entry that
\* is gone takes no charge with it.
Budgeted(e, charged, t) ==
  IF e = None
    THEN \A d \in Days : d >= Day(t) => charged[d] = 0
    ELSE /\ e.day <= Day(t) /\ charged[e.day] = e.bytes
         /\ \A d \in Days : d > e.day => charged[d] = 0

\* An entry counts every start of its account that is still in the window.
Windowed(e, own, times, t) ==
  LET window == {c \in own : times[c] > t - Window} IN
    IF e = None THEN window = {} ELSE window \subseteq e.starts /\ e.starts \subseteq own

Own(s) == {c \in bound : sub[c] = s}

EntriesRight ==
  \A s \in Subs, t \in Readings :
    Budgeted(subs[s], sent[s], t) /\ Windowed(subs[s], Own(s), began, t)

BoundBefore == \A c \in bound, t \in Readings : began[c] <= t

AccountsRight == Typed /\ Solo /\ BoundBefore /\ EntriesRight /\ DailyBudget /\ RateHeld

-----------------------------------------------------------------------------
(* Days, and what happens to an entry as the clock goes on.                *)

LEMMA DayMonotone ==
  ASSUME NEW t \in Times, NEW u \in Times, t <= u
  PROVE  Day(t) <= Day(u)
<1>1. \A d \in Nat \ {0}, a, b \in Nat : a <= b => a \div d <= b \div d
  OBVIOUS
<1> QED
  BY <1>1, LimitsAssumption DEF Day, Times

LEMMA DaysNat == Days \subseteq Nat
BY LimitsAssumption DEF Day, Days, Times

LEMMA DayItself == \A t \in Times : Day(t) \in Nat /\ Day(t) <= Day(t)
<1>1. \A n \in Nat : n <= n
  OBVIOUS
<1> QED
  BY <1>1, DayTyped, DaysNat

LEMMA Ordered ==
  \A a, b, d \in Nat : a <= b => (d >= b => d = a \/ d > a) /\ (d > b => d > a)
OBVIOUS

LEMMA Upward ==
  ASSUME NEW f, NEW a \in Nat, NEW b \in Nat, a <= b, \A d \in Days : d >= a => f[d] = 0
  PROVE  \A d \in Days : d >= b => f[d] = 0
<1>1. \A d \in Nat : d >= b => d >= a
  OBVIOUS
<1> QED
  BY <1>1, DaysNat

LEMMA Later ==
  ASSUME NEW e \in Entries \cup {None}, NEW f \in [Days -> Nat], NEW own \in SUBSET Conns,
         NEW g \in [Conns -> Times], NEW t \in Times, NEW u \in Times, t <= u,
         Budgeted(e, f, t), Windowed(e, own, g, t)
  PROVE  Budgeted(e, f, u) /\ Windowed(e, own, g, u)
<1>1. Day(t) \in Nat /\ Day(u) \in Nat /\ Day(t) <= Day(u)
  BY DayTyped, DaysNat, DayMonotone
<1>2. Budgeted(e, f, u)
  <2>1. CASE e = None
    BY <1>1, <2>1, Upward DEF Budgeted
  <2>2. CASE e # None
    <3>1. e.day \in Nat
      BY <2>2, DaysNat DEF Entries
    <3>2. e.day <= Day(t) => e.day <= Day(u)
      BY <1>1, <3>1
    <3> QED
      BY <2>2, <3>2 DEF Budgeted
  <2> QED
    BY <2>1, <2>2
<1>3. \A c \in own : g[c] > u - Window => g[c] > t - Window
  BY LimitsAssumption DEF Times
<1>4. {c \in own : g[c] > u - Window} \subseteq {c \in own : g[c] > t - Window}
  BY <1>3
<1>5. Windowed(e, own, g, u)
  BY <1>4 DEF Windowed
<1> QED
  BY <1>2, <1>5

\* The day is rolled over, and the starts that have left the window are dropped.
LEMMA RolledRight ==
  ASSUME NEW e \in Entries, NEW f \in [Days -> Nat], NEW own, NEW g,
         NEW t \in Times, Budgeted(e, f, t), Windowed(e, own, g, t)
  PROVE  /\ Budgeted(Rolled(e, t), f, t) /\ Rolled(e, t).day = Day(t)
         /\ Windowed(Rolled(e, t), own, g, t) /\ Rolled(e, t).starts = e.starts
<1>1. Rolled(e, t) \in Entries /\ Rolled(e, t) # None /\ e # None
  BY UpdatesTyped, NoneAssumption
<1>2. Day(t) \in Days /\ Days \subseteq Nat /\ e.day \in Days
  BY DayTyped, DaysNat DEF Entries
<1>3. Rolled(e, t).starts = e.starts /\ Rolled(e, t).day = Day(t)
      /\ Rolled(e, t).bytes = IF e.day = Day(t) THEN e.bytes ELSE 0
  BY <1>2 DEF Rolled, Entries
<1>4. Budgeted(Rolled(e, t), f, t)
  <2>1. e.day <= Day(t) /\ f[e.day] = e.bytes /\ \A d \in Days : d > e.day => f[d] = 0
    BY <1>1 DEF Budgeted
  <2>2. e.day \in Nat /\ Day(t) \in Nat /\ Day(t) <= Day(t)
    BY <1>2, DayItself
  <2>3. f[Day(t)] = IF e.day = Day(t) THEN e.bytes ELSE 0
    <3>1. Day(t) = e.day \/ Day(t) > e.day
      BY <2>1, <2>2, Ordered
    <3> QED
      BY <1>2, <2>1, <3>1
  <2>4. \A d \in Days : d > Day(t) => d > e.day
    <3>1. \A d \in Days : d \in Nat
      BY <1>2
    <3> QED
      BY <2>1, <2>2, <3>1, Ordered
  <2> QED
    BY <1>1, <1>3, <2>1, <2>2, <2>3, <2>4 DEF Budgeted
<1> QED
  BY <1>1, <1>3, <1>4 DEF Windowed

LEMMA RecentRight ==
  ASSUME NEW e \in Entries, NEW f, NEW own, NEW t \in Times,
         Budgeted(e, f, t), Windowed(e, own, began, t)
  PROVE  /\ Budgeted(Recent(e, t), f, t) /\ Windowed(Recent(e, t), own, began, t)
         /\ Recent(e, t).starts = {c \in e.starts : began[c] > t - Window}
<1>1. Recent(e, t) \in Entries /\ Recent(e, t) # None /\ e # None
  BY UpdatesTyped, NoneAssumption
<1>2. /\ Recent(e, t).starts = {c \in e.starts : began[c] > t - Window}
      /\ Recent(e, t).day = e.day /\ Recent(e, t).bytes = e.bytes
  BY DEF Recent, Entries
<1> QED
  BY <1>1, <1>2 DEF Budgeted, Windowed

\* An entry that is dropped had nothing to remember.
LEMMA UnusedRight ==
  ASSUME NEW e \in Entries, NEW f \in [Days -> Nat], NEW own, NEW g, NEW t \in Times,
         Unused(e), Budgeted(e, f, t), Windowed(e, own, g, t)
  PROVE  Budgeted(None, f, t) /\ Windowed(None, own, g, t)
<1>1. e # None /\ e.day \in Days /\ Days \subseteq Nat /\ Day(t) \in Nat
  BY NoneAssumption, DayTyped, DaysNat DEF Entries
<1> QED
  <2>1. \A d \in Days : d >= Day(t) => f[d] = 0
    <3>1. e.day <= Day(t) /\ f[e.day] = 0 /\ \A d \in Days : d > e.day => f[d] = 0
      BY <1>1 DEF Unused, Budgeted
    <3>2. \A d \in Days : d >= Day(t) => d = e.day \/ d > e.day
      <4>1. \A d \in Days : d \in Nat /\ Day(t) \in Nat /\ e.day \in Nat
        BY <1>1
      <4> QED
        BY <3>1, <4>1, Ordered
    <3> QED
      BY <3>1, <3>2
  <2>2. {c \in own : g[c] > t - Window} = {}
    BY <1>1 DEF Unused, Windowed
  <2> QED
    BY <2>1, <2>2 DEF Budgeted, Windowed

-----------------------------------------------------------------------------
(* The readings a step leaves.                                             *)

LEMMA ReadingsTyped == Typed => Readings \subseteq Times /\ now \in Readings
BY DEF Typed, TypeOK, Readings, Stamped

LEMMA ThreadFreeSolo ==
  ASSUME Workers = 1, Typed, ThreadFree
  PROVE  Stamped = {} /\ pruning = None /\ Readings = {now}
<1>1. IsFiniteSet(Stamped) /\ Cardinality(Stamped) \in Nat
  BY ConnsAssumption, FS_Subset, FS_CardinalityType DEF Stamped
<1>2. Cardinality(Stamped) = 0 /\ pruning = None
  BY <1>1 DEF ThreadFree
<1> QED
  BY <1>1, <1>2, FS_EmptySet DEF Readings

LEMMA StampedReadings ==
  ASSUME Typed, Solo, NEW c \in Conns, at[c] = "stamped"
  PROVE  /\ Stamped = {c} /\ pruning = None /\ began[c] \in Readings
         /\ began[c] <= now
<1>1. Stamped = {c}
  BY DEF Solo, Stamped
<1> QED
  <2>1. began[c] \in Readings
    BY <1>1 DEF Readings
  <2>2. pruning = None
    BY <1>1 DEF Solo
  <2> QED
    BY <1>1, <2>1, <2>2 DEF Solo

\* Every reading after the step is one of T, or later than one.
Onward(T) == \A u \in Readings' : \E t \in T : t <= u

LEMMA ReadingsTypedAfter ==
  ASSUME Typed'
  PROVE  Readings' \subseteq Times
BY DEF Typed, TypeOK, Readings, Stamped

LEMMA TickReadings ==
  ASSUME Typed, Typed', Solo, Tick \/ UNCHANGED vars
  PROVE  Solo' /\ Onward(Readings)
<1>1. /\ Stamped' = Stamped /\ UNCHANGED <<began, pruning>>
      /\ Readings' \subseteq Readings \cup {now'}
  BY DEF Tick, vars, tasks, Stamped, Readings
<1>2. now \in Nat /\ now' \in Nat /\ now <= now' /\ Readings \subseteq Nat
  BY ReadingsTyped DEF Tick, vars, Times, Typed, TypeOK
<1>3. \A t \in Readings : t \in Nat /\ t <= now /\ t <= t
  BY <1>2 DEF Solo
<1>4. \A u \in Readings' : u \in Nat /\ u <= now'
  BY <1>1, <1>2, <1>3
<1>5. Solo'
  BY <1>1, <1>4 DEF Solo
<1>6. now \in Readings
  BY ReadingsTyped
<1> QED
  BY <1>1, <1>2, <1>3, <1>5, <1>6 DEF Onward

\* Each other step leaves the clock as the only reading.
LEMMA SettledReadings ==
  ASSUME Workers = 1, Typed, Typed', Solo,
         (\E c \in Conns : Connection(c)) \/ PruneReads \/ PruneSweeps
  PROVE  Solo' /\ Readings' = {now} /\ now' = now
<1>1. ASSUME now' = now, pruning' = None \/ (pruning' = now /\ Stamped' = {}),
             \A c, d \in Stamped' : c = d, \A c \in Stamped' : began'[c] = now,
             Stamped' # {} => pruning' = None
      PROVE  Solo' /\ Readings' = {now} /\ now' = now
  <2>1. Readings' = {now}
    BY <1>1 DEF Readings
  <2>2. now <= now'
    BY <1>1 DEF Typed, TypeOK, Times
  <2> QED
    BY <1>1, <2>1, <2>2 DEF Solo
<1>2. ASSUME NEW c \in Conns, NEW a \in Ips, Accept(c, a) \/ AcceptRejected(c, a)
      PROVE  Solo' /\ Readings' = {now} /\ now' = now
  <2>1. Stamped = {} /\ pruning = None
    BY <1>2, ThreadFreeSolo DEF Accept, AcceptRejected
  <2>2. Stamped' = {} /\ pruning' = None /\ now' = now
    BY <1>2, <2>1 DEF Accept, AcceptRejected, Goes, Stamped, Typed, TypeOK
  <2> QED
    BY <1>1, <2>2
<1>3. ASSUME NEW c \in Conns, NEW s \in Subs, AttachCalled(c, s)
      PROVE  Solo' /\ Readings' = {now} /\ now' = now
  <2>1. Stamped = {} /\ pruning = None
    BY <1>3, ThreadFreeSolo DEF AttachCalled
  <2>2. Stamped' = {c} /\ pruning' = None /\ now' = now /\ began'[c] = now
    BY <1>3, <2>1 DEF AttachCalled, Goes, Stamped, Typed, TypeOK
  <2> QED
    BY <1>1, <2>2
<1>4. ASSUME NEW c \in Conns, AttachAdmits(c) \/ AttachRefused(c)
      PROVE  Solo' /\ Readings' = {now} /\ now' = now
  <2>1. Stamped = {c} /\ pruning = None
    BY <1>4, StampedReadings DEF AttachAdmits, AttachRefused, Goes
  <2>2. Stamped' = {} /\ pruning' = None /\ now' = now
    BY <1>4, <2>1 DEF AttachAdmits, AttachRefused, Goes, Stamped, Typed, TypeOK
  <2> QED
    BY <1>1, <2>2
<1>5. ASSUME NEW c \in Conns, Dropped(c) \/ \E n \in Chunks : Charge(c, n) \/ ChargeRefused(c, n)
      PROVE  Solo' /\ Readings' = {now} /\ now' = now
  <2>1. Stamped = {} /\ pruning = None
    BY <1>5, ThreadFreeSolo DEF Dropped, Charge, ChargeRefused
  <2>2. Stamped' = {} /\ pruning' = None /\ now' = now
    BY <1>5, <2>1 DEF Dropped, Charge, ChargeRefused, Goes, tasks, Stamped, Typed, TypeOK
  <2> QED
    BY <1>1, <2>2
<1>6. CASE PruneReads \/ PruneSweeps
  <2>1. Stamped = {}
    BY <1>6, ThreadFreeSolo DEF PruneReads, PruneSweeps, Solo
  <2>2. Stamped' = {} /\ pruning' \in {None, now} /\ now' = now
    BY <1>6, <2>1 DEF PruneReads, PruneSweeps, tasks, Stamped
  <2> QED
    BY <1>1, <2>2
<1> QED
  BY <1>2, <1>3, <1>4, <1>5, <1>6 DEF Connection

-----------------------------------------------------------------------------
(* What a step has to show.                                                *)

\* What holds of an entry at the readings T holds at each reading after.
LEMMA EntriesStep ==
  ASSUME Typed', NEW T \in SUBSET Times, Onward(T),
         \A s \in Subs, t \in T :
           Budgeted(subs'[s], sent'[s], t) /\ Windowed(subs'[s], Own(s)', began', t)
  PROVE  EntriesRight'
<1> SUFFICES ASSUME NEW s \in Subs, NEW u \in Readings'
             PROVE  Budgeted(subs'[s], sent'[s], u) /\ Windowed(subs'[s], Own(s)', began', u)
  BY DEF EntriesRight
<1>1. PICK t \in T : t <= u
  BY DEF Onward
<1>2. t \in Times /\ u \in Times
  BY ReadingsTypedAfter
<1>3. subs'[s] \in Entries \cup {None} /\ sent'[s] \in [Days -> Nat]
      /\ Own(s)' \in SUBSET Conns /\ began' \in [Conns -> Times]
  BY DEF Typed, TypeOK, Own
<1> QED
  BY <1>1, <1>2, <1>3, Later

LEMMA BoundStep ==
  ASSUME Typed, Typed', NEW T \in SUBSET Times, Onward(T), bound' = bound,
         \A c \in bound, t \in T : began[c] <= t,
         \A c \in bound : began'[c] = began[c]
  PROVE  BoundBefore'
<1> SUFFICES ASSUME NEW c \in bound, NEW u \in Readings'
             PROVE  began[c] <= u
  BY DEF BoundBefore
<1>1. PICK t \in T : t <= u
  BY DEF Onward
<1>2. t \in Nat /\ u \in Nat /\ began[c] \in Nat /\ began[c] <= t
  BY ReadingsTypedAfter DEF Typed, TypeOK, Times
<1> QED
  BY <1>1, <1>2

LEMMA SameStarts ==
  ASSUME Typed, RateHeld, bound' = bound,
         \A c \in bound : sub'[c] = sub[c] /\ began'[c] = began[c]
  PROVE  RateHeld'
<1>1. \A s \in Subs, t \in Times : Starts(s, t)' = Starts(s, t)
  BY DEF Starts
<1> QED
  BY <1>1 DEF RateHeld

\* A step that touches no entry.
LEMMA QuietStep ==
  ASSUME AccountsRight, Typed', Solo', Onward(Readings), UNCHANGED <<subs, sent, bound>>,
         \A c \in bound : sub'[c] = sub[c] /\ began'[c] = began[c]
  PROVE  AccountsRight'
<1>1. ASSUME NEW s \in Subs, NEW t \in Readings
      PROVE  Windowed(subs'[s], Own(s)', began', t)
  <2>1. Own(s)' = Own(s)
    BY DEF Own
  <2>2. {c \in Own(s) : began'[c] > t - Window} = {c \in Own(s) : began[c] > t - Window}
    BY DEF Own
  <2>3. Windowed(subs[s], Own(s), began, t)
    BY DEF AccountsRight, EntriesRight
  <2> QED
    BY <2>1, <2>2, <2>3 DEF Windowed
<1>2. \A s \in Subs, t \in Readings : Budgeted(subs'[s], sent'[s], t)
  BY DEF AccountsRight, EntriesRight
<1>3. Readings \in SUBSET Times
  BY ReadingsTyped DEF AccountsRight
<1>4. EntriesRight'
  BY <1>1, <1>2, <1>3, EntriesStep
<1>5. BoundBefore'
  BY <1>3, BoundStep DEF AccountsRight, BoundBefore
<1>6. DailyBudget' /\ RateHeld'
  BY SameStarts DEF AccountsRight, DailyBudget
<1> QED
  BY <1>4, <1>5, <1>6 DEF AccountsRight

\* A step that rewrites entries as of the reading t.
LEMMA RewriteStep ==
  ASSUME AccountsRight, Typed', Solo', NEW t \in Readings, Onward({t}),
         UNCHANGED <<bound, sub, began>>, DailyBudget',
         \A s \in Subs :
           Budgeted(subs'[s], sent'[s], t) /\ Windowed(subs'[s], Own(s), began, t)
  PROVE  AccountsRight'
<1>1. \A s \in Subs : Own(s)' = Own(s)
  BY DEF Own
<1>2. {t} \in SUBSET Times
  BY ReadingsTyped DEF AccountsRight
<1>3. EntriesRight'
  BY <1>1, <1>2, EntriesStep
<1>4. BoundBefore'
  BY <1>2, BoundStep DEF AccountsRight, BoundBefore
<1>5. RateHeld'
  BY SameStarts DEF AccountsRight
<1> QED
  BY <1>3, <1>4, <1>5 DEF AccountsRight

-----------------------------------------------------------------------------
(* The steps that rewrite an entry.                                        *)

\* The account of c is rewritten as of the reading t, the others keep theirs.
LEMMA OneRewritten ==
  ASSUME AccountsRight, Typed', Solo', NEW t \in Readings, Onward({t}),
         UNCHANGED <<bound, sub, began, sent>>, NEW s \in Subs, NEW e, SetEntry(s, e),
         Budgeted(e, sent[s], t), Windowed(e, Own(s), began, t)
  PROVE  AccountsRight'
<1>1. \A r \in Subs : subs'[r] = IF r = s THEN e ELSE subs[r]
  BY DEF SetEntry, AccountsRight, Typed, TypeOK
<1>2. \A r \in Subs : Budgeted(subs'[r], sent'[r], t) /\ Windowed(subs'[r], Own(r), began, t)
  BY <1>1 DEF AccountsRight, EntriesRight
<1>3. DailyBudget'
  BY DEF AccountsRight, DailyBudget
<1> QED
  BY <1>2, <1>3, RewriteStep

LEMMA ChargeBudgeted ==
  ASSUME AccountsRight, Typed', Solo', Onward({now}), NEW c \in Conns, NEW n \in Chunks,
         Charge(c, n)
  PROVE  AccountsRight'
<1> DEFINE s == sub[c]
           e == Rolled(subs[s], now)
           f == [e EXCEPT !.bytes = @ + n]
<1>1. /\ s \in Subs /\ now \in Times /\ now \in Readings /\ n \in Nat
      /\ subs[s] \in Entries /\ sent[s] \in [Days -> Nat] /\ Day(now) \in Days
  BY ReadingsTyped, DayTyped, LimitsAssumption
     DEF Charge, AccountsRight, Typed, TypeOK, ConnsRight
<1>2. /\ e \in Entries /\ Budgeted(e, sent[s], now) /\ Windowed(e, Own(s), began, now)
      /\ e.day = Day(now) /\ e.bytes + n <= Quota /\ e # None
  BY <1>1, UpdatesTyped, RolledRight, NoneAssumption
     DEF Charge, Fits, AccountsRight, EntriesRight
<1>3. /\ UNCHANGED <<bound, sub, began>> /\ SetEntry(s, f)
      /\ sent' = [sent EXCEPT ![s][Day(now)] = @ + n]
  BY DEF Charge, tasks
<1> HIDE DEF e
<1>4. /\ f \in Entries /\ f # None /\ f.day = Day(now)
      /\ f.bytes = e.bytes + n /\ f.starts = e.starts
  BY <1>1, <1>2, LimitsAssumption, NoneAssumption DEF Entries
<1> HIDE DEF f
<1>5. /\ sent'[s] = [sent[s] EXCEPT ![Day(now)] = @ + n]
      /\ \A r \in Subs \ {s} : sent'[r] = sent[r]
      /\ \A r \in Subs : subs'[r] = IF r = s THEN f ELSE subs[r]
  BY <1>1, <1>3 DEF SetEntry, AccountsRight, Typed, TypeOK
<1>6. /\ sent'[s][Day(now)] = f.bytes
      /\ \A d \in Days \ {Day(now)} : sent'[s][d] = sent[s][d]
  <2>1. sent[s][Day(now)] = e.bytes
    BY <1>2 DEF Budgeted
  <2> QED
    BY <1>1, <1>4, <1>5, <2>1
<1>7. Budgeted(f, sent'[s], now) /\ Windowed(f, Own(s), began, now)
  <2>1. \A d \in Days : d > Day(now) => d # Day(now) /\ sent[s][d] = 0
    <3>1. \A d \in Days : d > Day(now) => d # Day(now)
      BY <1>1, DaysNat
    <3> QED
      BY <1>2, <3>1 DEF Budgeted
  <2>2. Day(now) <= Day(now)
    BY <1>1, DayItself
  <2> QED
    BY <1>2, <1>4, <1>6, <2>1, <2>2 DEF Budgeted, Windowed
<1>8. \A r \in Subs :
        Budgeted(subs'[r], sent'[r], now) /\ Windowed(subs'[r], Own(r), began, now)
  BY <1>1, <1>5, <1>7 DEF AccountsRight, EntriesRight
<1>9. DailyBudget'
  BY <1>2, <1>4, <1>5, <1>6 DEF AccountsRight, DailyBudget
<1> QED
  BY <1>1, <1>3, <1>8, <1>9, RewriteStep

LEMMA ChargeRefusedBudgeted ==
  ASSUME AccountsRight, Typed', Solo', Onward({now}), NEW c \in Conns, NEW n \in Chunks,
         ChargeRefused(c, n)
  PROVE  AccountsRight'
<1> DEFINE s == sub[c]
           e == Rolled(subs[s], now)
<1>1. /\ s \in Subs /\ now \in Times /\ now \in Readings
      /\ subs[s] \in Entries \cup {None} /\ sent[s] \in [Days -> Nat]
      /\ Budgeted(subs[s], sent[s], now) /\ Windowed(subs[s], Own(s), began, now)
  BY ReadingsTyped DEF ChargeRefused, Goes, AccountsRight, EntriesRight, Typed, TypeOK, ConnsRight
<1>2. UNCHANGED <<bound, sub, began, sent>>
  BY DEF ChargeRefused
<1>3. CASE subs[s] = None
  <2>1. subs' = [subs EXCEPT ![s] = None]
    BY <1>1, <1>3 DEF ChargeRefused, AccountsRight, Typed, TypeOK
  <2> QED
    BY <1>1, <1>2, <1>3, <2>1, OneRewritten DEF SetEntry
<1>4. CASE subs[s] # None
  <2>1. Budgeted(e, sent[s], now) /\ Windowed(e, Own(s), began, now)
    BY <1>1, <1>4, RolledRight
  <2>2. SetEntry(s, e)
    BY <1>4 DEF ChargeRefused
  <2> QED
    BY <1>1, <1>2, <2>1, <2>2, OneRewritten
<1> QED
  BY <1>3, <1>4

LEMMA DroppedBudgeted ==
  ASSUME AccountsRight, Typed', Solo', Onward({now}), NEW c \in Conns, Dropped(c)
  PROVE  AccountsRight'
<1>1. UNCHANGED <<bound, sub, began, sent>> /\ now \in Times /\ now \in Readings
  BY ReadingsTyped DEF Dropped, AccountsRight, Typed, TypeOK
<1>2. CASE c \in bound /\ subs[sub[c]] # None
  <2> DEFINE s == sub[c]
             e == [subs[s] EXCEPT !.concurrent = Less(@)]
  <2>1. /\ s \in Subs /\ subs[s] \in Entries /\ sent[s] \in [Days -> Nat]
        /\ Budgeted(subs[s], sent[s], now) /\ Windowed(subs[s], Own(s), began, now)
    BY <1>1, <1>2 DEF AccountsRight, EntriesRight, Typed, TypeOK, ConnsRight
  <2>2. e \in Entries /\ e.day = subs[s].day /\ e.bytes = subs[s].bytes /\ e.starts = subs[s].starts
    <3>1. Less(subs[s].concurrent) \in Nat
      BY <2>1 DEF Less, Entries
    <3> QED
      BY <2>1, <3>1 DEF Entries
  <2>3. SetEntry(s, IF Unused(e) THEN None ELSE e)
    BY <1>2 DEF Dropped, ReturnAccount, LeaveAccount
  <2> HIDE DEF e
  <2>4. Budgeted(e, sent[s], now) /\ Windowed(e, Own(s), began, now)
    BY <1>2, <2>1, <2>2, NoneAssumption DEF Budgeted, Windowed
  <2>5. Unused(e) => Budgeted(None, sent[s], now) /\ Windowed(None, Own(s), began, now)
    BY <1>1, <2>1, <2>2, <2>4, UnusedRight
  <2> QED
    BY <1>1, <2>1, <2>3, <2>4, <2>5, OneRewritten
<1>3. CASE ~(c \in bound /\ subs[sub[c]] # None)
  <2>1. UNCHANGED subs
    BY <1>3 DEF Dropped, ReturnAccount
  <2>2. Onward(Readings)
    BY <1>1 DEF Onward
  <2> QED
    BY <1>1, <2>1, <2>2, QuietStep
<1> QED
  BY <1>2, <1>3

LEMMA PruneBudgeted ==
  ASSUME AccountsRight, Typed', Solo', Onward({pruning}), PruneSweeps
  PROVE  AccountsRight'
<1>1. /\ UNCHANGED <<bound, sub, began, sent>> /\ pruning \in Times /\ pruning \in Readings
      /\ \A s \in Subs : subs'[s] = IF subs[s] = None THEN None ELSE Pruned(subs[s], pruning)
  BY DEF PruneSweeps, tasks, AccountsRight, Typed, TypeOK, Readings
<1>2. ASSUME NEW s \in Subs
      PROVE  Budgeted(subs'[s], sent'[s], pruning) /\ Windowed(subs'[s], Own(s), began, pruning)
  <2>1. /\ subs[s] \in Entries \cup {None} /\ sent[s] \in [Days -> Nat]
        /\ Budgeted(subs[s], sent[s], pruning) /\ Windowed(subs[s], Own(s), began, pruning)
    BY <1>1 DEF AccountsRight, EntriesRight, Typed, TypeOK
  <2>2. CASE subs[s] = None
    BY <1>1, <2>1, <2>2
  <2>3. CASE subs[s] # None
    <3> DEFINE r == Rolled(subs[s], pruning)
               p == Recent(r, pruning)
    <3>1. r \in Entries /\ Budgeted(r, sent[s], pruning) /\ Windowed(r, Own(s), began, pruning)
      BY <1>1, <2>1, <2>3, RolledRight, UpdatesTyped
    <3>2. p \in Entries /\ Budgeted(p, sent[s], pruning) /\ Windowed(p, Own(s), began, pruning)
      BY <1>1, <3>1, RecentRight, UpdatesTyped
    <3>3. Unused(p) => Budgeted(None, sent[s], pruning) /\ Windowed(None, Own(s), began, pruning)
      BY <1>1, <2>1, <3>2, UnusedRight
    <3>4. subs'[s] = IF Unused(p) THEN None ELSE p
      BY <1>1, <2>3 DEF Pruned
    <3> HIDE DEF p
    <3> QED
      BY <1>1, <3>2, <3>3, <3>4
  <2> QED
    BY <2>2, <2>3
<1>3. DailyBudget'
  BY <1>1 DEF AccountsRight, DailyBudget
<1> QED
  BY <1>1, <1>2, <1>3, RewriteStep

-----------------------------------------------------------------------------
(* attach_sub: admission.                                                  *)

\* The window as of the clock c read, which every earlier start precedes.
LEMMA AdmissionRate ==
  ASSUME AccountsRight, NEW c \in Conns, AttachAdmits(c)
  PROVE  RateHeld'
<1> DEFINE s == sub[c]
           t == began[c]
<1>1. /\ s \in Subs /\ t \in Times /\ t \in Readings /\ c \notin bound
      /\ bound' = bound \cup {c} /\ UNCHANGED <<sub, began>>
      /\ subs[s] \in Entries \cup {None}
      /\ Budgeted(subs[s], sent[s], t) /\ Windowed(subs[s], Own(s), began, t)
      /\ \A b \in bound : began[b] \in Times /\ began[b] <= t
  BY StampedReadings DEF AttachAdmits, Goes, AccountsRight, BoundBefore, EntriesRight,
     Typed, TypeOK, ConnsRight
<1> DEFINE window == {b \in Own(s) : began[b] > t - Window}
<1>2. IsFiniteSet(window) /\ Cardinality(window) < Rate
  <2>1. window \in SUBSET Conns
    BY DEF AccountsRight, Typed, TypeOK, Own
  <2>2. IsFiniteSet(window)
    BY <2>1, ConnsAssumption, FS_Subset
  <2>3. CASE subs[s] = None
    <3>1. window = {}
      BY <1>1, <2>3 DEF Windowed
    <3> QED
      BY <2>2, <3>1, FS_EmptySet, LimitsAssumption
  <2>4. CASE subs[s] # None
    <3> DEFINE r == Recent(subs[s], t)
    <3>1. /\ r \in Entries /\ Budgeted(r, sent[s], t) /\ Windowed(r, Own(s), began, t)
          /\ r # None
      BY <1>1, <2>4, RecentRight, UpdatesTyped, NoneAssumption
    <3>2. Rolled(r, t).starts = r.starts
      BY <3>1 DEF Rolled, Entries
    <3>3. Cardinality(r.starts) < Rate
      BY <2>4, <3>2 DEF AttachAdmits
    <3>4. window \subseteq r.starts /\ r.starts \in SUBSET Conns
      BY <3>1 DEF Windowed, Entries
    <3>5. Cardinality(window) <= Cardinality(r.starts) /\ IsFiniteSet(r.starts)
      BY <3>4, ConnsAssumption, FS_Subset
    <3>6. Cardinality(window) \in Nat /\ Cardinality(r.starts) \in Nat /\ Rate \in Nat
      BY <2>2, <3>5, FS_CardinalityType, LimitsAssumption
    <3> QED
      BY <2>2, <3>3, <3>5, <3>6
  <2> QED
    BY <2>3, <2>4
<1>3. ASSUME NEW r \in Subs, NEW u \in Times
      PROVE  Cardinality(Starts(r, u)') <= Rate
  <2>1. CASE c \notin Starts(r, u)'
    <3>1. Starts(r, u)' = Starts(r, u)
      BY <1>1, <2>1 DEF Starts
    <3> QED
      BY <3>1 DEF AccountsRight, RateHeld
  <2>2. CASE c \in Starts(r, u)'
    <3>1. r = s /\ u - Window < t /\ t <= u
      BY <1>1, <2>2 DEF Starts
    <3>2. Starts(r, u)' = Starts(r, u) \cup {c} /\ c \notin Starts(r, u)
      BY <1>1, <2>2 DEF Starts
    <3>3. \A b \in bound : u - Window < began[b] => began[b] > t - Window
      BY <1>1, <3>1, LimitsAssumption DEF Times
    <3>4. Starts(r, u) \subseteq window
      BY <3>1, <3>3 DEF Starts, Own
    <3>5. IsFiniteSet(Starts(r, u)) /\ Cardinality(Starts(r, u)) <= Cardinality(window)
      BY <1>2, <3>4, FS_Subset
    <3>6. Cardinality(Starts(r, u) \cup {c}) = Cardinality(Starts(r, u)) + 1
      BY <3>2, <3>5, FS_AddElement
    <3>7. Cardinality(Starts(r, u)) \in Nat /\ Cardinality(window) \in Nat /\ Rate \in Nat
      BY <1>2, <3>5, FS_CardinalityType, LimitsAssumption
    <3> HIDE DEF window
    <3> QED
      BY <1>2, <3>2, <3>5, <3>6, <3>7
  <2> QED
    BY <2>1, <2>2
<1> QED
  BY <1>3 DEF RateHeld

LEMMA AdmissionBudgeted ==
  ASSUME AccountsRight, Typed', Solo', NEW c \in Conns, Onward({began[c]}), AttachAdmits(c)
  PROVE  AccountsRight'
<1> DEFINE s == sub[c]
           t == began[c]
<1>1. /\ s \in Subs /\ t \in Times /\ t \in Readings /\ c \notin bound
      /\ bound' = bound \cup {c} /\ UNCHANGED <<sub, began, sent>>
      /\ subs[s] \in Entries \cup {None} /\ sent[s] \in [Days -> Nat]
      /\ Day(t) \in Days /\ Day(t) <= Day(t)
      /\ Budgeted(subs[s], sent[s], t) /\ Windowed(subs[s], Own(s), began, t)
  BY StampedReadings, DayTyped, DayItself
     DEF AttachAdmits, Goes, AccountsRight, EntriesRight, Typed, TypeOK, ConnsRight
<1>2. PICK f \in Entries : SetEntry(s, f) /\ Budgeted(f, sent[s], t)
                           /\ Windowed(f, Own(s) \cup {c}, began, t)
  <2>1. CASE subs[s] = None
    <3> DEFINE f == [concurrent |-> 1, day |-> Day(t), bytes |-> 0, starts |-> {c}]
    <3>1. f \in Entries /\ f # None
      BY <1>1, LimitsAssumption, NoneAssumption DEF Entries
    <3>2. SetEntry(s, f)
      BY <2>1 DEF AttachAdmits
    <3>3. \A d \in Days : d >= Day(t) => sent[s][d] = 0
      BY <1>1, <2>1 DEF Budgeted
    <3>4. sent[s][Day(t)] = 0 /\ \A d \in Days : d > Day(t) => sent[s][d] = 0
      <4>1. \A d \in Days : d > Day(t) => d >= Day(t)
        <5>1. \A d \in Days : d \in Nat /\ Day(t) \in Nat
          BY <1>1, DaysNat
        <5>2. \A d, b \in Nat : d > b => d >= b
          OBVIOUS
        <5> QED
          BY <5>1, <5>2
      <4>2. Day(t) >= Day(t)
        <5>1. \A b \in Nat : b >= b
          OBVIOUS
        <5> QED
          BY <1>1, <5>1, DayItself
      <4> QED
        BY <1>1, <3>3, <4>1, <4>2
    <3>5. Budgeted(f, sent[s], t)
      BY <1>1, <3>1, <3>4 DEF Budgeted
    <3>6. {b \in Own(s) : began[b] > t - Window} = {}
      BY <1>1, <2>1 DEF Windowed
    <3>7. Windowed(f, Own(s) \cup {c}, began, t)
      BY <3>1, <3>6 DEF Windowed
    <3> QED
      BY <3>1, <3>2, <3>5, <3>7
  <2>2. CASE subs[s] # None
    <3> DEFINE e == Rolled(Recent(subs[s], t), t)
               f == [e EXCEPT !.concurrent = @ + 1, !.starts = @ \cup {c}]
    <3>1. Recent(subs[s], t) \in Entries /\ Budgeted(Recent(subs[s], t), sent[s], t)
          /\ Windowed(Recent(subs[s], t), Own(s), began, t)
      BY <1>1, <2>2, RecentRight, UpdatesTyped
    <3>2. e \in Entries /\ Budgeted(e, sent[s], t) /\ Windowed(e, Own(s), began, t) /\ e # None
      BY <1>1, <3>1, RolledRight, UpdatesTyped, NoneAssumption
    <3>3. SetEntry(s, f)
      BY <2>2 DEF AttachAdmits
    <3> HIDE DEF e
    <3>4. f \in Entries /\ f.day = e.day /\ f.bytes = e.bytes /\ f.starts = e.starts \cup {c}
      <4>1. e.starts \cup {c} \in SUBSET Conns /\ e.concurrent + 1 \in Nat
        BY <3>2 DEF Entries
      <4>2. \A x \in Entries, y \in SUBSET Conns, n \in Nat :
              [x EXCEPT !.concurrent = n, !.starts = y] \in Entries
        BY DEF Entries
      <4>3. f \in Entries
        BY <3>2, <4>1, <4>2
      <4>4. f.day = e.day /\ f.bytes = e.bytes /\ f.starts = e.starts \cup {c}
        BY <3>2 DEF Entries
      <4> QED
        BY <4>3, <4>4
    <3> HIDE DEF f
    <3>5. Budgeted(f, sent[s], t)
      BY <3>2, <3>4, NoneAssumption DEF Budgeted
    <3>6. Windowed(f, Own(s) \cup {c}, began, t)
      BY <3>2, <3>4, NoneAssumption DEF Windowed
    <3> QED
      BY <3>3, <3>4, <3>5, <3>6
  <2> QED
    BY <2>1, <2>2
<1>3. \A r \in Subs : /\ subs'[r] = IF r = s THEN f ELSE subs[r]
                      /\ Own(r)' = IF r = s THEN Own(r) \cup {c} ELSE Own(r)
  BY <1>1, <1>2 DEF SetEntry, Own, AccountsRight, Typed, TypeOK
<1>4. \A r \in Subs :
        Budgeted(subs'[r], sent'[r], t) /\ Windowed(subs'[r], Own(r)', began', t)
  BY <1>1, <1>2, <1>3 DEF AccountsRight, EntriesRight
<1>5. EntriesRight'
  <2>1. {t} \in SUBSET Times
    BY <1>1
  <2> QED
    BY <1>4, <2>1, EntriesStep
<1>6. BoundBefore'
  <2>1. \A b \in bound' : began[b] \in Nat /\ began[b] <= t
    <3>1. t \in Nat /\ t <= t
      BY <1>1 DEF Times
    <3> QED
      BY <1>1, <3>1 DEF AccountsRight, BoundBefore, Typed, TypeOK, Times
  <2>2. \A u \in Readings' : u \in Nat /\ t \in Nat /\ t <= u
    BY <1>1, ReadingsTypedAfter DEF Onward, Times
  <2>3. \A b \in bound', u \in Readings' : began[b] <= u
    BY <2>1, <2>2
  <2> QED
    BY <1>1, <2>3 DEF BoundBefore
<1>7. DailyBudget'
  BY <1>1 DEF AccountsRight, DailyBudget
<1> QED
  BY <1>5, <1>6, <1>7, AdmissionRate DEF AccountsRight

-----------------------------------------------------------------------------
(* attach_sub: refusal, and the theorems.                                  *)

LEMMA RefusalBudgeted ==
  ASSUME AccountsRight, Typed', Solo', NEW c \in Conns, Onward({began[c]}), AttachRefused(c)
  PROVE  AccountsRight'
<1> DEFINE s == sub[c]
           t == began[c]
           e == Recent(subs[s], t)
<1>1. /\ s \in Subs /\ t \in Times /\ t \in Readings
      /\ UNCHANGED <<bound, sub, began, sent>>
      /\ subs[s] \in Entries /\ sent[s] \in [Days -> Nat]
      /\ Budgeted(subs[s], sent[s], t) /\ Windowed(subs[s], Own(s), began, t)
  BY StampedReadings
     DEF AttachRefused, Goes, AccountsRight, EntriesRight, Typed, TypeOK, ConnsRight
<1>2. /\ e \in Entries /\ Budgeted(e, sent[s], t) /\ Windowed(e, Own(s), began, t)
  BY <1>1, RecentRight, UpdatesTyped
<1>3. Budgeted(Rolled(e, t), sent[s], t) /\ Windowed(Rolled(e, t), Own(s), began, t)
  BY <1>1, <1>2, RolledRight
<1>4. SetEntry(s, subs[s]) \/ SetEntry(s, e) \/ SetEntry(s, Rolled(e, t))
  BY <1>1 DEF AttachRefused, SetEntry, AccountsRight, Typed, TypeOK
<1> QED
  BY <1>1, <1>2, <1>3, <1>4, OneRewritten

LEMMA AccountsInit == Init => AccountsRight
<1> SUFFICES ASSUME Init
             PROVE  AccountsRight
  OBVIOUS
<1>1. Readings = {0} /\ Stamped = {} /\ bound = {} /\ \A s \in Subs : Own(s) = {}
  BY NoneAssumption DEF Init, Readings, Stamped, Own
<1>2. Solo /\ BoundBefore
  BY <1>1 DEF Init, Solo, BoundBefore
<1>3. EntriesRight
  BY <1>1 DEF Init, EntriesRight, Budgeted, Windowed
<1>4. DailyBudget
  BY LimitsAssumption DEF Init, DailyBudget
<1>5. \A s \in Subs, t \in Times : Starts(s, t) = {}
  BY <1>1 DEF Starts
<1>6. RateHeld
  BY <1>5, FS_EmptySet, LimitsAssumption DEF RateHeld
<1> QED
  BY <1>2, <1>3, <1>4, <1>6, TypedInit DEF AccountsRight

LEMMA AccountsStep ==
  ASSUME Workers = 1, AccountsRight, [Next]_vars
  PROVE  AccountsRight'
<1>1. Typed'
  BY TypedStep DEF AccountsRight
<1>2. CASE Tick \/ UNCHANGED vars
  <2>1. Solo' /\ Onward(Readings)
    BY <1>1, <1>2, TickReadings DEF AccountsRight
  <2>2. UNCHANGED <<subs, sent, bound, sub, began>>
    BY <1>2 DEF Tick, vars, tasks, inner
  <2> QED
    BY <1>1, <2>1, <2>2, QuietStep
<1>3. CASE (\E c \in Conns : Connection(c)) \/ PruneReads \/ PruneSweeps
  <2>1. Solo' /\ Readings' = {now} /\ now \in Nat
    BY <1>1, <1>3, SettledReadings DEF AccountsRight, Typed, TypeOK, Times
  <2>2. Onward({now}) /\ Onward(Readings)
    <3>1. now <= now /\ now \in Readings
      BY <2>1, ReadingsTyped DEF AccountsRight
    <3> QED
      BY <2>1, <3>1 DEF Onward
  <2>3. ASSUME NEW c \in Conns, NEW a \in Ips, Accept(c, a) \/ AcceptRejected(c, a)
        PROVE  AccountsRight'
    BY <1>1, <2>1, <2>2, <2>3, QuietStep DEF Accept, AcceptRejected, inner
  <2>4. ASSUME NEW c \in Conns, NEW s \in Subs, AttachCalled(c, s)
        PROVE  AccountsRight'
    <3>1. UNCHANGED <<subs, sent, bound>> /\ c \notin bound
      BY <2>4 DEF AttachCalled, Goes, inner, AccountsRight, Typed, ConnsRight
    <3>2. \A b \in bound : sub'[b] = sub[b] /\ began'[b] = began[b]
      BY <2>4, <3>1 DEF AttachCalled, AccountsRight, Typed, TypeOK
    <3> QED
      BY <1>1, <2>1, <2>2, <3>1, <3>2, QuietStep
  <2>5. ASSUME NEW c \in Conns, AttachAdmits(c) \/ AttachRefused(c)
        PROVE  AccountsRight'
    <3>1. began[c] <= now
      BY <2>5, StampedReadings DEF AttachAdmits, AttachRefused, Goes, AccountsRight
    <3>2. Onward({began[c]})
      BY <2>1, <3>1 DEF Onward
    <3> QED
      BY <1>1, <2>1, <2>5, <3>2, AdmissionBudgeted, RefusalBudgeted
  <2>6. ASSUME NEW c \in Conns, NEW n \in Chunks, Charge(c, n) \/ ChargeRefused(c, n)
        PROVE  AccountsRight'
    BY <1>1, <2>1, <2>2, <2>6, ChargeBudgeted, ChargeRefusedBudgeted
  <2>7. ASSUME NEW c \in Conns, Dropped(c)
        PROVE  AccountsRight'
    BY <1>1, <2>1, <2>2, <2>7, DroppedBudgeted
  <2>8. CASE PruneReads
    BY <1>1, <2>1, <2>2, <2>8, QuietStep DEF PruneReads, tasks, inner
  <2>9. CASE PruneSweeps
    <3>1. pruning \in Readings /\ pruning <= now
      BY <2>9 DEF PruneSweeps, Readings, AccountsRight, Solo
    <3>2. Onward({pruning})
      BY <2>1, <3>1 DEF Onward
    <3> QED
      BY <1>1, <2>1, <2>9, <3>2, PruneBudgeted
  <2> QED
    BY <1>3, <2>3, <2>4, <2>5, <2>6, <2>7, <2>8, <2>9 DEF Connection
<1> QED
  BY <1>2, <1>3 DEF Next

LEMMA AccountsInv ==
  ASSUME Workers = 1
  PROVE  Spec => []AccountsRight
<1>1. AccountsRight /\ [Next]_vars => AccountsRight'
  BY AccountsStep
<1> QED
  BY AccountsInit, <1>1, PTL DEF Spec

\* With one worker no account is charged more than its quota in one UTC day,
\* whatever the connections, midnights, prunes and reconnections (Slot::charge,
\* roll_day, attach_sub).
THEOREM BudgetHeld ==
  ASSUME Workers = 1
  PROVE  Spec => []DailyBudget
<1>1. AccountsRight => DailyBudget
  BY DEF AccountsRight
<1> QED
  BY AccountsInv, <1>1, PTL

\* With one worker no window of RATE_WINDOW_S admits more than Rate
\* connections of an account (attach_sub).
THEOREM AdmissionsHeld ==
  ASSUME Workers = 1
  PROVE  Spec => []RateHeld
<1>1. AccountsRight => RateHeld
  BY DEF AccountsRight
<1> QED
  BY AccountsInv, <1>1, PTL

\* With one worker attach_sub refuses an account only at one of its limits.
THEOREM RefusalsJustified ==
  ASSUME Workers = 1
  PROVE  Spec => RefusedOnlyAtLimit
<1> DEFINE AtLimit(c) ==
             LET s == sub[c] IN \/ Cardinality(Attached(s)) >= PerSub
                                \/ Cardinality(Starts(s, began[c])) >= Rate
                                \/ sent[s][Day(began[c])] >= Quota
           Justified == \A c \in Conns :
                          at[c] = "stamped" /\ at'[c] = "failing" => AtLimit(c)
<1>1. ASSUME AccountsRight, [Next]_vars, NEW c \in Conns, at[c] = "stamped", at'[c] = "failing"
      PROVE  AttachRefused(c)
  <2>1. at \in [Conns -> {"new", "header", "stamped", "open", "failing", "closed"}]
    BY <1>1 DEF AccountsRight, Typed, TypeOK
  <2>2. ~(PruneReads \/ PruneSweeps \/ Tick \/ UNCHANGED vars)
    BY <1>1 DEF PruneReads, PruneSweeps, Tick, vars, tasks
  <2>3. PICK d \in Conns : Connection(d)
    BY <1>1, <2>2 DEF Next
  <2>4. ~\E a \in Ips : Accept(d, a) \/ AcceptRejected(d, a)
    BY <1>1, <2>1 DEF Accept, AcceptRejected, Goes
  <2>5. ~((\E s \in Subs : AttachCalled(d, s)) \/ AttachAdmits(d))
    BY <1>1, <2>1 DEF AttachCalled, AttachAdmits, Goes
  <2>6. ~\E n \in Chunks : Charge(d, n) \/ ChargeRefused(d, n)
    BY <1>1, <2>1 DEF Charge, ChargeRefused, Goes, tasks
  <2>7. ~Dropped(d)
    BY <1>1, <2>1 DEF Dropped
  <2>8. AttachRefused(d)
    BY <2>3, <2>4, <2>5, <2>6, <2>7 DEF Connection
  <2>9. d = c
    BY <1>1, <2>1, <2>8 DEF AttachRefused, Goes
  <2> QED
    BY <2>8, <2>9
<1>2. ASSUME Inv, AccountsRight, NEW c \in Conns, AttachRefused(c)
      PROVE  AtLimit(c)
  <2> DEFINE s == sub[c]
             t == began[c]
             e == Recent(subs[s], t)
  <2>1. /\ s \in Subs /\ t \in Times /\ t \in Readings
        /\ subs[s] \in Entries /\ subs[s] # None /\ sent[s] \in [Days -> Nat]
        /\ Budgeted(subs[s], sent[s], t) /\ Windowed(subs[s], Own(s), began, t)
        /\ \A b \in bound : began[b] <= t
    BY <1>2, StampedReadings DEF AttachRefused, Goes, AccountsRight, EntriesRight, BoundBefore,
       Typed, TypeOK, ConnsRight
  <2>2. /\ e \in Entries /\ e # None /\ Budgeted(e, sent[s], t) /\ Windowed(e, Own(s), began, t)
        /\ e.starts = {b \in subs[s].starts : began[b] > t - Window}
    BY <2>1, RecentRight, UpdatesTyped, NoneAssumption
  <2>3. CASE subs[s].concurrent >= PerSub
    BY <1>2, <2>1, <2>3 DEF Inv, SlotsCounted
  <2>4. CASE Cardinality(e.starts) >= Rate
    <3>1. e.starts \subseteq Own(s) /\ \A b \in e.starts : began[b] > t - Window /\ began[b] <= t
      BY <2>1, <2>2 DEF Windowed, Own
    <3>2. \A b \in e.starts : t - Window < began[b]
      BY <1>2, <2>1, <3>1, LimitsAssumption DEF AccountsRight, Typed, TypeOK, Times, Own
    <3>3. e.starts \subseteq Starts(s, t)
      BY <3>1, <3>2 DEF Starts, Own
    <3>4. IsFiniteSet(Starts(s, t))
      <4>1. Starts(s, t) \in SUBSET Conns
        BY <1>2 DEF Starts, AccountsRight, Typed, TypeOK
      <4> QED
        BY <4>1, ConnsAssumption, FS_Subset
    <3>5. Cardinality(e.starts) <= Cardinality(Starts(s, t)) /\ IsFiniteSet(e.starts)
      BY <3>3, <3>4, FS_Subset
    <3>6. Cardinality(e.starts) \in Nat /\ Cardinality(Starts(s, t)) \in Nat /\ Rate \in Nat
      BY <3>4, <3>5, FS_CardinalityType, LimitsAssumption
    <3> HIDE DEF e
    <3>7. Cardinality(Starts(s, t)) >= Rate
      BY <2>4, <3>5, <3>6
    <3> QED
      BY <3>7
  <2>5. CASE Rolled(e, t).bytes >= Quota
    <3>1. Rolled(e, t) # None /\ Rolled(e, t).day = Day(t) /\ Budgeted(Rolled(e, t), sent[s], t)
      BY <2>1, <2>2, RolledRight, UpdatesTyped, NoneAssumption
    <3>2. sent[s][Day(t)] = Rolled(e, t).bytes
      BY <3>1 DEF Budgeted
    <3> QED
      BY <2>5, <3>2
  <2> QED
    BY <1>2, <2>3, <2>4, <2>5 DEF AttachRefused
<1>3. Inv /\ AccountsRight /\ [Next]_vars => [Justified]_vars
  BY <1>1, <1>2
<1>4. Spec => []Inv
  BY InvInit, InvStep, PTL DEF Spec
<1>5. Spec => []AccountsRight
  BY AccountsInv
<1> QED
  BY <1>3, <1>4, <1>5, PTL DEF Spec, RefusedOnlyAtLimit
=============================================================================
