-------------------------- MODULE RelayLimitsProofs --------------------------
(***************************************************************************)
(* Proofs that the relay's counters match the slots that exist and that    *)
(* the caps hold, for any numbers of connections, accounts, addresses and  *)
(* worker threads.                                                         *)
(***************************************************************************)
EXTENDS RelayLimits, FiniteSetTheorems, TLAPS

-----------------------------------------------------------------------------
(* Typing.                                                                 *)

LEMMA DayTyped == \A t \in Times : Day(t) \in Days
BY DEF Days

LEMMA UpdatesTyped ==
  ASSUME NEW e \in Entries, NEW t \in Times
  PROVE  /\ Recent(e, t) \in Entries /\ Recent(e, t).concurrent = e.concurrent
         /\ Rolled(e, t) \in Entries /\ Rolled(e, t).concurrent = e.concurrent
<1>1. {c \in e.starts : began[c] > t - Window} \in SUBSET Conns
  BY DEF Entries
<1>2. Recent(e, t) \in Entries /\ Recent(e, t).concurrent = e.concurrent
  BY <1>1 DEF Entries, Recent
<1>3. Day(t) \in Days /\ 0 \in 0 .. Quota
  BY DayTyped, LimitsAssumption
<1>4. Rolled(e, t) \in Entries /\ Rolled(e, t).concurrent = e.concurrent
  BY <1>3 DEF Entries, Rolled
<1> QED
  BY <1>2, <1>4

\* What a connection's place in its task says of the rest of its state.
ConnsRight ==
  \A c \in Conns :
    /\ c \in Held => ip[c] \in Ips
    /\ at[c] = "stamped" \/ c \in bound => sub[c] \in Subs
    /\ at[c] \in {"new", "header", "stamped"} => c \notin bound
    /\ at[c] = "open" => c \in bound

Typed == TypeOK /\ ConnsRight

LEMMA TypedInit == Init => Typed
<1> SUFFICES ASSUME Init
             PROVE  Typed
  OBVIOUS
<1>1. 0 \in Times /\ \A s \in Subs : sent[s] \in [Days -> Nat]
  BY LimitsAssumption DEF Init, Times
<1>2. TypeOK
  BY <1>1, LimitsAssumption DEF Init, TypeOK
<1>3. ConnsRight
  BY DEF Init, ConnsRight, Held
<1> QED
  BY <1>2, <1>3 DEF Typed

\* What is written back to the map of accounts is an entry or nothing.
LEMMA EntryTyped ==
  ASSUME Typed, NEW s \in Subs, NEW e \in Entries \cup {None}, SetEntry(s, e)
  PROVE  subs' \in [Subs -> Entries \cup {None}]
BY DEF Typed, TypeOK, SetEntry

LEMMA AcceptTyped ==
  ASSUME Typed, NEW c \in Conns, NEW a \in Ips, Accept(c, a) \/ AcceptRejected(c, a)
  PROVE  Typed'
<1>1. CASE Accept(c, a)
  BY <1>1 DEF Accept, Goes, Typed, TypeOK, ConnsRight, Held
<1>2. CASE AcceptRejected(c, a)
  BY <1>2 DEF AcceptRejected, Goes, inner, Typed, TypeOK, ConnsRight, Held
<1> QED
  BY <1>1, <1>2

LEMMA AttachTyped ==
  ASSUME Typed, NEW c \in Conns,
         (\E s \in Subs : AttachCalled(c, s)) \/ AttachAdmits(c) \/ AttachRefused(c)
  PROVE  Typed'
<1>1. ASSUME NEW s \in Subs, AttachCalled(c, s)
      PROVE  Typed'
  BY <1>1 DEF AttachCalled, Goes, inner, Typed, TypeOK, ConnsRight, Held
<1>2. CASE AttachAdmits(c)
  <2> DEFINE s == sub[c]
             e == Rolled(Recent(subs[s], began[c]), began[c])
  <2>1. s \in Subs /\ began[c] \in Times /\ subs[s] \in Entries \cup {None}
    BY <1>2 DEF AttachAdmits, Goes, Typed, TypeOK, ConnsRight
  <2>2. CASE subs[s] = None
    <3>1. [concurrent |-> 1, day |-> Day(began[c]), bytes |-> 0, starts |-> {c}] \in Entries
      BY <2>1, DayTyped, LimitsAssumption DEF Entries
    <3>2. subs' \in [Subs -> Entries \cup {None}]
      BY <1>2, <2>1, <2>2, <3>1, EntryTyped DEF AttachAdmits
    <3> QED
      BY <1>2, <2>1, <3>2 DEF AttachAdmits, Goes, Typed, TypeOK, ConnsRight, Held
  <2>3. CASE subs[s] # None
    <3>1. e \in Entries
      BY <2>1, <2>3, UpdatesTyped
    <3>2. [e EXCEPT !.concurrent = @ + 1, !.starts = @ \cup {c}] \in Entries
      <4>1. e.starts \cup {c} \in SUBSET Conns /\ e.concurrent + 1 \in Nat
        BY <3>1 DEF Entries
      <4>2. \A x \in Entries, y \in SUBSET Conns, n \in Nat :
              [x EXCEPT !.concurrent = n, !.starts = y] \in Entries
        BY DEF Entries
      <4> QED
        BY <3>1, <4>1, <4>2
    <3>3. SetEntry(s, [e EXCEPT !.concurrent = @ + 1, !.starts = @ \cup {c}])
      BY <1>2, <2>3 DEF AttachAdmits
    <3>4. subs' \in [Subs -> Entries \cup {None}]
      BY <2>1, <3>2, <3>3, EntryTyped
    <3> QED
      BY <1>2, <2>1, <3>4 DEF AttachAdmits, Goes, Typed, TypeOK, ConnsRight, Held
  <2> QED
    BY <2>2, <2>3
<1>3. CASE AttachRefused(c)
  <2> DEFINE s == sub[c]
             e == Recent(subs[s], began[c])
  <2>1. s \in Subs /\ began[c] \in Times /\ subs[s] \in Entries
    BY <1>3 DEF AttachRefused, Goes, Typed, TypeOK, ConnsRight
  <2>2. e \in Entries /\ Rolled(e, began[c]) \in Entries
    BY <2>1, UpdatesTyped
  <2>3. UNCHANGED subs \/ SetEntry(s, e) \/ SetEntry(s, Rolled(e, began[c]))
    BY <1>3 DEF AttachRefused
  <2>4. subs' \in [Subs -> Entries \cup {None}]
    BY <2>1, <2>2, <2>3, EntryTyped DEF Typed, TypeOK
  <2> QED
    BY <1>3, <2>4 DEF AttachRefused, Goes, Typed, TypeOK, ConnsRight, Held
<1> QED
  BY <1>1, <1>2, <1>3

LEMMA ChargeTyped ==
  ASSUME Typed, NEW c \in Conns, NEW n \in Chunks, Charge(c, n) \/ ChargeRefused(c, n)
  PROVE  Typed'
<1> DEFINE s == sub[c]
           e == Rolled(subs[s], now)
<1>1. s \in Subs /\ now \in Times /\ n \in Nat \ {0} /\ Day(now) \in Days
  BY DayTyped, LimitsAssumption DEF Charge, ChargeRefused, Goes, Typed, TypeOK, ConnsRight
<1>2. CASE Charge(c, n)
  <2>1. e \in Entries
    BY <1>1, <1>2, UpdatesTyped DEF Charge, Typed, TypeOK
  <2>2. [e EXCEPT !.bytes = @ + n] \in Entries
    BY <1>1, <1>2, <2>1, LimitsAssumption DEF Charge, Fits, Entries
  <2>3. subs' \in [Subs -> Entries \cup {None}]
    BY <1>1, <1>2, <2>2, EntryTyped DEF Charge
  <2>4. sent' \in [Subs -> [Days -> Nat]]
    BY <1>1, <1>2 DEF Charge, Typed, TypeOK
  <2> QED
    BY <1>2, <2>3, <2>4 DEF Charge, tasks, Typed, TypeOK, ConnsRight, Held
<1>3. CASE ChargeRefused(c, n)
  <2>1. subs' \in [Subs -> Entries \cup {None}]
    <3>1. CASE subs[s] = None
      BY <1>3, <3>1 DEF ChargeRefused, Typed, TypeOK
    <3>2. CASE subs[s] # None
      <4>1. e \in Entries
        BY <1>1, <3>2, UpdatesTyped DEF Typed, TypeOK
      <4> QED
        BY <1>1, <1>3, <3>2, <4>1, EntryTyped DEF ChargeRefused
    <3> QED
      BY <3>1, <3>2
  <2> QED
    BY <1>3, <2>1 DEF ChargeRefused, Goes, Typed, TypeOK, ConnsRight, Held
<1> QED
  BY <1>2, <1>3

LEMMA DropTyped ==
  ASSUME Typed, NEW c \in Conns, Dropped(c)
  PROVE  Typed'
<1>1. subs' \in [Subs -> Entries \cup {None}]
  <2>1. CASE c \in bound /\ subs[sub[c]] # None
    <3> DEFINE e == [subs[sub[c]] EXCEPT !.concurrent = Less(@)]
    <3>1. sub[c] \in Subs /\ subs[sub[c]] \in Entries
      BY <2>1 DEF Typed, TypeOK, ConnsRight
    <3>2. e \in Entries
      BY <3>1 DEF Entries, Less
    <3>3. SetEntry(sub[c], IF Unused(e) THEN None ELSE e)
      BY <2>1 DEF Dropped, ReturnAccount, LeaveAccount
    <3> QED
      BY <3>1, <3>2, <3>3, EntryTyped
  <2>2. CASE ~(c \in bound /\ subs[sub[c]] # None)
    BY <2>2 DEF Dropped, ReturnAccount, Typed, TypeOK
  <2> QED
    BY <2>1, <2>2
<1>2. ip[c] \in Ips /\ Less(global) \in Nat /\ Less(ips[ip[c]]) \in Nat
  <2>1. \A n \in Nat : Less(n) \in Nat
    BY DEF Less
  <2>2. ip[c] \in Ips /\ global \in Nat /\ ips[ip[c]] \in Nat
    BY DEF Dropped, Typed, TypeOK, ConnsRight, Held
  <2> QED
    BY <2>1, <2>2
<1>3. ips' \in [Ips -> Nat] /\ global' \in Nat
  BY <1>2 DEF Dropped, Typed, TypeOK
<1>4. TypeOK'
  BY <1>1, <1>3 DEF Dropped, Typed, TypeOK
<1>5. ConnsRight'
  BY DEF Dropped, Typed, TypeOK, ConnsRight, Held
<1> QED
  BY <1>4, <1>5 DEF Typed

LEMMA TypedStep == Typed /\ [Next]_vars => Typed'
<1> SUFFICES ASSUME Typed, [Next]_vars
             PROVE  Typed'
  OBVIOUS
<1>1. CASE PruneReads
  BY <1>1 DEF PruneReads, tasks, inner, Typed, TypeOK, ConnsRight, Held
<1>2. CASE PruneSweeps
  <2>1. pruning \in Times
    BY <1>2 DEF PruneSweeps, Typed, TypeOK
  <2>2. \A s \in Subs : subs[s] # None => Pruned(subs[s], pruning) \in Entries \cup {None}
    BY <2>1, UpdatesTyped DEF Typed, TypeOK, Pruned
  <2>3. subs' \in [Subs -> Entries \cup {None}]
    BY <1>2, <2>2 DEF PruneSweeps
  <2> QED
    BY <1>2, <2>3 DEF PruneSweeps, tasks, Typed, TypeOK, ConnsRight, Held
<1>3. CASE Tick
  BY <1>3, LimitsAssumption DEF Tick, tasks, inner, Times, Typed, TypeOK, ConnsRight, Held
<1>4. CASE UNCHANGED vars
  BY <1>4 DEF vars, tasks, inner, Typed, TypeOK, ConnsRight, Held
<1> QED
  BY <1>1, <1>2, <1>3, <1>4, AcceptTyped, AttachTyped, ChargeTyped, DropTyped
  DEF Next, Connection

\* Every variable keeps its type: no entry ever holds more bytes than the quota
\* or a start of a connection that does not exist.
THEOREM LimitsTyping == Spec => []TypeOK
<1>1. Spec => []Typed
  BY TypedInit, TypedStep, PTL DEF Spec
<1> QED
  BY <1>1, PTL DEF Typed

-----------------------------------------------------------------------------
(* Counting. The caps hold of the counters by the guards, and of the       *)
(* connections because the counters match them.                            *)

CountersCapped ==
  /\ global <= GlobalMax
  /\ \A a \in Ips : ips[a] <= PerIp
  /\ \A s \in Subs : subs[s] # None => subs[s].concurrent <= PerSub

Inv == Typed /\ SlotsCounted /\ CountersCapped

LEMMA SlotsFinite ==
  /\ IsFiniteSet(Held)
  /\ \A a \in Ips : IsFiniteSet(From(a))
  /\ \A s \in Subs : IsFiniteSet(Attached(s))
BY ConnsAssumption, FS_Subset DEF Held, From, Attached

LEMMA InvInit == Init => Inv
<1> SUFFICES ASSUME Init
             PROVE  Inv
  OBVIOUS
<1>1. Held = {} /\ (\A a \in Ips : From(a) = {}) /\ \A s \in Subs : Attached(s) = {}
  BY DEF Init, Held, From, Attached
<1>2. SlotsCounted
  BY <1>1, FS_EmptySet DEF Init, SlotsCounted
<1>3. CountersCapped
  BY LimitsAssumption DEF Init, CountersCapped
<1> QED
  BY <1>2, <1>3, TypedInit DEF Inv

\* An account's entry may be rewritten, or dropped when nobody is attached.
EntryKept(s) ==
  \/ subs'[s] = subs[s]
  \/ subs[s] # None /\ subs'[s] # None /\ subs'[s].concurrent = subs[s].concurrent
  \/ subs[s] # None /\ subs[s].concurrent = 0 /\ subs'[s] = None

\* A step that neither takes nor returns nor binds a slot.
LEMMA SameSlots ==
  ASSUME Inv, Held' = Held, \A a \in Ips : From(a)' = From(a),
         \A s \in Subs : Attached(s)' = Attached(s) /\ EntryKept(s),
         UNCHANGED <<global, ips>>
  PROVE  SlotsCounted' /\ CountersCapped'
<1>1. \A s \in Subs : subs[s] # None /\ subs[s].concurrent = 0 => Attached(s) = {}
  BY SlotsFinite, FS_EmptySet DEF Inv, SlotsCounted
<1>2. ASSUME NEW s \in Subs
      PROVE  /\ IF subs'[s] = None THEN Attached(s)' = {}
                                   ELSE subs'[s].concurrent = Cardinality(Attached(s)')
             /\ subs'[s] # None => subs'[s].concurrent <= PerSub
  BY <1>1 DEF Inv, SlotsCounted, CountersCapped, EntryKept
<1>3. SlotsCounted'
  BY <1>2 DEF Inv, SlotsCounted
<1>4. CountersCapped'
  BY <1>2 DEF Inv, CountersCapped
<1> QED
  BY <1>3, <1>4

\* ... in particular one that leaves every task where it holds what it held.
LEMMA SameTasks ==
  ASSUME Inv, UNCHANGED <<ip, bound, global, ips>>, Held' = Held,
         \A c \in bound : sub'[c] = sub[c], \A s \in Subs : EntryKept(s)
  PROVE  SlotsCounted' /\ CountersCapped'
<1>1. \A a \in Ips : From(a)' = From(a)
  BY DEF From
<1>2. \A s \in Subs : Attached(s)' = Attached(s)
  BY DEF Attached
<1> QED
  BY <1>1, <1>2, SameSlots

LEMMA AcceptCounts ==
  ASSUME Inv, NEW c \in Conns, NEW a \in Ips, Accept(c, a)
  PROVE  SlotsCounted' /\ CountersCapped'
<1> USE DEF Inv, Typed, TypeOK
<1>1. /\ at[c] = "new" /\ at' = [at EXCEPT ![c] = "header"]
      /\ ip' = [ip EXCEPT ![c] = a] /\ UNCHANGED <<sub, bound, subs>>
      /\ global < GlobalMax /\ ips[a] < PerIp
      /\ global' = global + 1 /\ ips' = [ips EXCEPT ![a] = @ + 1]
  BY DEF Accept, Goes, Acceptable
<1>2. c \notin Held /\ Held' = Held \cup {c}
  BY <1>1 DEF Held
<1>3. \A b \in Ips : From(b)' = IF b = a THEN From(b) \cup {c} ELSE From(b)
  BY <1>1, <1>2 DEF From
<1>4. \A s \in Subs : Attached(s)' = Attached(s)
  BY <1>1, <1>2 DEF Attached, ConnsRight
<1>5. Cardinality(Held') = global'
  BY <1>1, <1>2, SlotsFinite, FS_AddElement DEF SlotsCounted
<1>6. \A b \in Ips : ips'[b] = Cardinality(From(b)') /\ ips'[b] <= PerIp
  <2>1. c \notin From(a)
    BY <1>2 DEF From
  <2>2. Cardinality(From(a) \cup {c}) = Cardinality(From(a)) + 1
    BY <2>1, SlotsFinite, FS_AddElement
  <2>3. ips'[a] = ips[a] + 1 /\ ips[a] \in Nat /\ \A b \in Ips \ {a} : ips'[b] = ips[b]
    BY <1>1
  <2>4. ips[a] = Cardinality(From(a)) /\ ips[a] + 1 <= PerIp
    BY <1>1, <2>3, LimitsAssumption DEF SlotsCounted
  <2>5. ips'[a] = Cardinality(From(a)') /\ ips'[a] <= PerIp
    BY <1>3, <2>2, <2>3, <2>4
  <2>6. \A b \in Ips \ {a} : ips'[b] = Cardinality(From(b)') /\ ips'[b] <= PerIp
    BY <1>3, <2>3 DEF SlotsCounted, CountersCapped
  <2> QED
    BY <2>5, <2>6
<1>7. global' <= GlobalMax
  BY <1>1, LimitsAssumption
<1> QED
  BY <1>1, <1>4, <1>5, <1>6, <1>7 DEF SlotsCounted, CountersCapped

\* The guard of attach_sub: a new entry starts with one, any other is below the
\* account's cap.
LEMMA AttachCounts ==
  ASSUME Inv, NEW c \in Conns, AttachAdmits(c)
  PROVE  SlotsCounted' /\ CountersCapped'
<1> USE DEF Inv, Typed, TypeOK
<1> DEFINE s == sub[c]
<1>1. /\ at[c] = "stamped" /\ at' = [at EXCEPT ![c] = "open"]
      /\ bound' = bound \cup {c} /\ UNCHANGED <<ip, sub, global, ips>>
      /\ s \in Subs /\ c \notin bound /\ began[c] \in Times
  BY DEF AttachAdmits, Goes, ConnsRight
<1>2. Held' = Held /\ c \in Held /\ \A a \in Ips : From(a)' = From(a)
  BY <1>1 DEF Held, From
<1>3. c \notin Attached(s)
      /\ \A r \in Subs : Attached(r)' = IF r = s THEN Attached(r) \cup {c} ELSE Attached(r)
  BY <1>1, <1>2 DEF Attached
<1>4. Cardinality(Attached(s) \cup {c}) = Cardinality(Attached(s)) + 1
  BY <1>1, <1>3, SlotsFinite, FS_AddElement
<1>5. /\ subs'[s] # None
      /\ subs'[s].concurrent = Cardinality(Attached(s)) + 1
      /\ subs'[s].concurrent <= PerSub
      /\ \A r \in Subs \ {s} : subs'[r] = subs[r]
  <2>1. CASE subs[s] = None
    <3>1. Cardinality(Attached(s)) = 0
      BY <1>1, <2>1, FS_EmptySet DEF SlotsCounted
    <3> DEFINE e == [concurrent |-> 1, day |-> Day(began[c]), bytes |-> 0, starts |-> {c}]
    <3>2. SetEntry(s, e)
      BY <2>1 DEF AttachAdmits
    <3>3. e \in Entries
      BY <1>1, DayTyped, LimitsAssumption DEF Entries
    <3>4. subs'[s] = e /\ \A r \in Subs \ {s} : subs'[r] = subs[r]
      BY <1>1, <3>2 DEF SetEntry
    <3>5. e.concurrent = 1 /\ 1 <= PerSub
      BY LimitsAssumption
    <3> HIDE DEF e
    <3>6. e # None
      BY <3>3, NoneAssumption
    <3> QED
      BY <3>1, <3>4, <3>5, <3>6
  <2>2. CASE subs[s] # None
    <3> DEFINE e == Rolled(Recent(subs[s], began[c]), began[c])
               f == [e EXCEPT !.concurrent = @ + 1, !.starts = @ \cup {c}]
    <3>1. SetEntry(s, f) /\ subs[s].concurrent < PerSub
      BY <2>2 DEF AttachAdmits
    <3>2. e \in Entries /\ e.concurrent = subs[s].concurrent
      BY <1>1, <2>2, UpdatesTyped
    <3>3. f.concurrent = e.concurrent + 1
      BY <3>2 DEF Entries
    <3>4. f \in Entries
      <4>1. e.starts \cup {c} \in SUBSET Conns /\ e.concurrent + 1 \in Nat
        BY <3>2 DEF Entries
      <4>2. \A x \in Entries, y \in SUBSET Conns, n \in Nat :
              [x EXCEPT !.concurrent = n, !.starts = y] \in Entries
        BY DEF Entries
      <4> QED
        BY <3>2, <4>1, <4>2
    <3>5. subs'[s] = f /\ \A r \in Subs \ {s} : subs'[r] = subs[r]
      BY <1>1, <3>1 DEF SetEntry
    <3>6. subs[s].concurrent = Cardinality(Attached(s)) /\ subs[s].concurrent \in Nat
      BY <1>1, <2>2 DEF SlotsCounted, Entries
    <3> HIDE DEF f, e
    <3> QED
      BY <3>1, <3>2, <3>3, <3>4, <3>5, <3>6, NoneAssumption, LimitsAssumption
  <2> QED
    BY <2>1, <2>2
<1>6. SlotsCounted'
  <2>1. global' = Cardinality(Held') /\ \A a \in Ips : ips'[a] = Cardinality(From(a)')
    BY <1>1, <1>2 DEF SlotsCounted
  <2>2. subs'[s] # None /\ subs'[s].concurrent = Cardinality(Attached(s)')
    BY <1>1, <1>3, <1>4, <1>5
  <2>3. \A r \in Subs \ {s} : IF subs'[r] = None THEN Attached(r)' = {}
                             ELSE subs'[r].concurrent = Cardinality(Attached(r)')
    BY <1>1, <1>3, <1>5 DEF SlotsCounted
  <2>4. \A r \in Subs : IF subs'[r] = None THEN Attached(r)' = {}
                                          ELSE subs'[r].concurrent = Cardinality(Attached(r)')
    BY <1>1, <2>2, <2>3
  <2> QED
    BY <2>1, <2>4 DEF SlotsCounted
<1>7. CountersCapped'
  BY <1>1, <1>5 DEF CountersCapped
<1> QED
  BY <1>6, <1>7

\* Returning one member of a counted set: saturating_sub never saturates.
LEMMA LessCounts ==
  ASSUME NEW S, IsFiniteSet(S), NEW c \in S
  PROVE  /\ Cardinality(S) \in Nat \ {0}
         /\ Cardinality(S \ {c}) = Less(Cardinality(S))
         /\ Less(Cardinality(S)) <= Cardinality(S)
<1>1. Cardinality(S) \in Nat /\ Cardinality(S) # 0
  BY FS_CardinalityType, FS_EmptySet
<1>2. Cardinality(S \ {c}) = Cardinality(S) - 1
  BY FS_RemoveElement
<1> QED
  BY <1>1, <1>2 DEF Less

LEMMA DropCounts ==
  ASSUME Inv, NEW c \in Conns, Dropped(c)
  PROVE  SlotsCounted' /\ CountersCapped'
<1> USE DEF Inv, Typed, TypeOK
<1>A. PICK a \in Ips : a = ip[c]
  BY DEF Dropped, Held, ConnsRight
<1>S. PICK s \in Subs \cup {None} : s = sub[c]
  OBVIOUS
<1>1. /\ at[c] \in {"header", "open", "failing"} /\ at' = [at EXCEPT ![c] = "closed"]
      /\ global' = Less(global) /\ ips' = [ips EXCEPT ![a] = Less(@)]
      /\ UNCHANGED <<ip, sub, bound>> /\ c \in Held
  BY <1>A DEF Dropped, Held
<1>2. Held' = Held \ {c}
  BY <1>1 DEF Held
<1>3. /\ c \in From(a) /\ From(a)' = From(a) \ {c}
      /\ \A b \in Ips \ {a} : From(b)' = From(b)
  BY <1>A, <1>1, <1>2 DEF From
<1>4. global' = Cardinality(Held') /\ global' <= GlobalMax
  <2>1. Cardinality(Held') = Less(Cardinality(Held)) /\ Less(Cardinality(Held)) <= Cardinality(Held)
    BY <1>1, <1>2, SlotsFinite, LessCounts
  <2>2. global = Cardinality(Held) /\ global <= GlobalMax
    BY DEF SlotsCounted, CountersCapped
  <2>3. Less(global) \in Nat
    BY DEF Less
  <2> QED
    BY <1>1, <2>1, <2>2, <2>3, LimitsAssumption
<1>5. \A b \in Ips : ips'[b] = Cardinality(From(b)') /\ ips'[b] <= PerIp
  <2>1. Cardinality(From(a) \ {c}) = Less(Cardinality(From(a)))
        /\ Less(Cardinality(From(a))) <= Cardinality(From(a))
    BY <1>1, <1>3, SlotsFinite, LessCounts
  <2>2. ips'[a] = Less(ips[a]) /\ \A b \in Ips \ {a} : ips'[b] = ips[b]
    BY <1>1
  <2>3. ips[a] \in Nat /\ Less(ips[a]) \in Nat
    BY DEF Less
  <2>4. ips[a] = Cardinality(From(a)) /\ ips[a] <= PerIp
    BY DEF SlotsCounted, CountersCapped
  <2>5. ips'[a] = Cardinality(From(a)') /\ ips'[a] <= PerIp
    BY <1>3, <2>1, <2>2, <2>3, <2>4, LimitsAssumption
  <2>6. \A b \in Ips \ {a} : ips'[b] = Cardinality(From(b)') /\ ips'[b] <= PerIp
    BY <1>3, <2>2 DEF SlotsCounted, CountersCapped
  <2> QED
    BY <2>5, <2>6
<1>6. CASE c \in bound
  <2> DEFINE e == [subs[s] EXCEPT !.concurrent = Less(@)]
  <2>1. /\ s \in Subs /\ c \in Attached(s) /\ Attached(s)' = Attached(s) \ {c}
        /\ \A r \in Subs \ {s} : Attached(r)' = Attached(r)
    BY <1>S, <1>1, <1>2, <1>6 DEF Attached, ConnsRight
  <2>2. /\ subs[s] \in Entries /\ subs[s].concurrent = Cardinality(Attached(s))
        /\ subs[s].concurrent <= PerSub /\ subs[s] # None
    BY <2>1 DEF SlotsCounted, CountersCapped
  <2>3. e \in Entries /\ e.concurrent = Less(subs[s].concurrent)
    <3>1. Less(subs[s].concurrent) \in Nat
      BY <2>2 DEF Entries, Less
    <3> QED
      BY <2>2, <3>1 DEF Entries
  <2>4. Cardinality(Attached(s) \ {c}) = e.concurrent /\ e.concurrent <= subs[s].concurrent
    BY <2>1, <2>2, <2>3, SlotsFinite, LessCounts
  <2>5. SetEntry(s, IF Unused(e) THEN None ELSE e)
    BY <1>S, <1>6, <2>2 DEF Dropped, ReturnAccount, LeaveAccount
  <2>6. /\ subs'[s] = IF Unused(e) THEN None ELSE e
        /\ \A r \in Subs \ {s} : subs'[r] = subs[r]
    BY <2>1, <2>5 DEF SetEntry
  <2>7. Unused(e) => Attached(s)' = {}
    <3>1. IsFiniteSet(Attached(s) \ {c})
      BY <2>1, SlotsFinite, FS_RemoveElement
    <3> QED
      BY <2>1, <2>4, <3>1, FS_EmptySet DEF Unused
  <2>8. e # None /\ e.concurrent <= PerSub
    BY <2>2, <2>3, <2>4, NoneAssumption, LimitsAssumption DEF Entries
  <2> HIDE DEF e
  <2>9. \A r \in Subs : /\ IF subs'[r] = None THEN Attached(r)' = {}
                           ELSE subs'[r].concurrent = Cardinality(Attached(r)')
                        /\ subs'[r] # None => subs'[r].concurrent <= PerSub
    <3>1. ASSUME NEW r \in Subs \ {s}
          PROVE  /\ IF subs'[r] = None THEN Attached(r)' = {}
                    ELSE subs'[r].concurrent = Cardinality(Attached(r)')
                 /\ subs'[r] # None => subs'[r].concurrent <= PerSub
      BY <2>1, <2>6 DEF SlotsCounted, CountersCapped
    <3>2. /\ IF subs'[s] = None THEN Attached(s)' = {}
             ELSE subs'[s].concurrent = Cardinality(Attached(s)')
          /\ subs'[s] # None => subs'[s].concurrent <= PerSub
      BY <2>1, <2>4, <2>6, <2>7, <2>8
    <3> QED
      BY <2>1, <3>1, <3>2
  <2> QED
    BY <1>4, <1>5, <2>9 DEF SlotsCounted, CountersCapped
<1>7. CASE c \notin bound
  <2>1. \A r \in Subs : Attached(r)' = Attached(r)
    BY <1>1, <1>2, <1>7 DEF Attached
  <2>2. subs' = subs
    BY <1>7 DEF Dropped, ReturnAccount
  <2> QED
    BY <1>4, <1>5, <2>1, <2>2 DEF SlotsCounted, CountersCapped
<1> QED
  BY <1>6, <1>7

\* The steps that rewrite an entry without taking, binding or returning a slot.
LEMMA OthersCount ==
  ASSUME Inv, NEW c \in Conns,
         \/ \E a \in Ips : AcceptRejected(c, a)
         \/ \E s \in Subs : AttachCalled(c, s)
         \/ AttachRefused(c)
         \/ \E n \in Chunks : Charge(c, n) \/ ChargeRefused(c, n)
  PROVE  SlotsCounted' /\ CountersCapped'
<1> USE DEF Inv, Typed, TypeOK
<1>1. ASSUME NEW a \in Ips, AcceptRejected(c, a)
      PROVE  SlotsCounted' /\ CountersCapped'
  <2>1. /\ UNCHANGED <<ip, sub, bound, global, ips, subs>>
        /\ at[c] = "new" /\ at' = [at EXCEPT ![c] = "closed"]
    BY <1>1 DEF AcceptRejected, Goes, inner
  <2>2. Held' = Held
    BY <2>1 DEF Held
  <2> QED
    BY <2>1, <2>2, SameTasks DEF EntryKept
<1>2. ASSUME NEW s \in Subs, AttachCalled(c, s)
      PROVE  SlotsCounted' /\ CountersCapped'
  <2>1. /\ UNCHANGED <<ip, bound, global, ips, subs>>
        /\ at[c] = "header" /\ at' = [at EXCEPT ![c] = "stamped"]
        /\ sub' = [sub EXCEPT ![c] = s]
    BY <1>2 DEF AttachCalled, Goes, inner
  <2>2. Held' = Held /\ \A d \in bound : sub'[d] = sub[d]
    BY <2>1 DEF Held, ConnsRight
  <2> QED
    BY <2>1, <2>2, SameTasks DEF EntryKept
<1>3. CASE AttachRefused(c)
  <2>0. PICK s \in Subs : s = sub[c]
    BY <1>3 DEF AttachRefused, Goes, ConnsRight
  <2>1. /\ UNCHANGED <<ip, sub, bound, global, ips>>
        /\ at[c] = "stamped" /\ at' = [at EXCEPT ![c] = "failing"]
    BY <1>3 DEF AttachRefused, Goes
  <2>2. Held' = Held
    BY <2>1 DEF Held
  <2> DEFINE t == began[c]
             e == Recent(subs[s], t)
             f == Rolled(e, t)
  <2>3. /\ t \in Times /\ subs[s] \in Entries /\ subs[s] # None
        /\ UNCHANGED subs \/ SetEntry(s, e) \/ SetEntry(s, f)
    BY <1>3, <2>0 DEF AttachRefused
  <2>4. /\ e \in Entries /\ e.concurrent = subs[s].concurrent
        /\ f \in Entries /\ f.concurrent = subs[s].concurrent
    BY <2>3, UpdatesTyped
  <2> HIDE DEF e, f
  <2>5. \A r \in Subs : EntryKept(r)
    BY <2>3, <2>4, NoneAssumption DEF SetEntry, EntryKept
  <2> QED
    BY <2>1, <2>2, <2>5, SameTasks
<1>4. ASSUME NEW n \in Chunks, Charge(c, n) \/ ChargeRefused(c, n)
      PROVE  SlotsCounted' /\ CountersCapped'
  <2>0. PICK s \in Subs : s = sub[c]
    BY <1>4 DEF Charge, ChargeRefused, Goes, ConnsRight
  <2>1. /\ UNCHANGED <<ip, sub, bound, global, ips>>
        /\ at[c] = "open"
        /\ UNCHANGED at \/ at' = [at EXCEPT ![c] = "failing"]
    BY <1>4 DEF Charge, ChargeRefused, Goes, tasks
  <2>2. Held' = Held
    BY <2>1 DEF Held
  <2> DEFINE e == Rolled(subs[s], now)
             f == [e EXCEPT !.bytes = @ + n]
  <2>3. \/ UNCHANGED subs
        \/ subs[s] # None /\ (SetEntry(s, e) \/ (SetEntry(s, f) /\ Fits(e, n)))
    BY <1>4, <2>0 DEF Charge, ChargeRefused
  <2>4. subs[s] # None => e \in Entries /\ e.concurrent = subs[s].concurrent
    BY UpdatesTyped
  <2>5. subs[s] # None /\ Fits(e, n) => f \in Entries /\ f.concurrent = subs[s].concurrent
    <3>1. n \in Nat
      BY LimitsAssumption
    <3> QED
      BY <2>4, <3>1, LimitsAssumption DEF Fits, Entries
  <2> HIDE DEF e, f
  <2>6. \A r \in Subs : EntryKept(r)
    BY <2>3, <2>4, <2>5, NoneAssumption DEF SetEntry, EntryKept
  <2> QED
    BY <2>1, <2>2, <2>6, SameTasks
<1> QED
  BY <1>1, <1>2, <1>3, <1>4

\* A prune removes an entry only when it counts nobody.
LEMMA PruneCounts ==
  ASSUME Inv, PruneSweeps
  PROVE  SlotsCounted' /\ CountersCapped'
<1> USE DEF Inv, Typed, TypeOK
<1>1. pruning \in Times /\ UNCHANGED <<at, ip, sub, bound, global, ips>>
  BY DEF PruneSweeps, tasks
<1>2. Held' = Held
  BY <1>1 DEF Held
<1>3. ASSUME NEW s \in Subs
      PROVE  EntryKept(s)
  <2>1. subs'[s] = IF subs[s] = None THEN None ELSE Pruned(subs[s], pruning)
    BY DEF PruneSweeps
  <2>2. CASE subs[s] = None
    BY <2>1, <2>2 DEF EntryKept
  <2>3. CASE subs[s] # None
    <3> DEFINE p == Recent(Rolled(subs[s], pruning), pruning)
    <3>1. p \in Entries /\ p.concurrent = subs[s].concurrent
      BY <1>1, <2>3, UpdatesTyped
    <3>2. subs'[s] = IF Unused(p) THEN None ELSE p
      BY <2>1, <2>3 DEF Pruned
    <3> HIDE DEF p
    <3> QED
      BY <2>3, <3>1, <3>2, NoneAssumption DEF Unused, EntryKept
  <2> QED
    BY <2>2, <2>3
<1> QED
  BY <1>1, <1>2, <1>3, SameTasks

LEMMA InvStep == Inv /\ [Next]_vars => Inv'
<1> SUFFICES ASSUME Inv, [Next]_vars
             PROVE  Inv'
  OBVIOUS
<1>1. Typed'
  BY TypedStep DEF Inv
<1>2. CASE PruneReads \/ Tick \/ UNCHANGED vars
  <2>1. UNCHANGED <<at, ip, sub, bound, global, ips, subs>>
    BY <1>2 DEF PruneReads, Tick, vars, tasks, inner
  <2>2. Held' = Held
    BY <2>1 DEF Held
  <2>3. SlotsCounted' /\ CountersCapped'
    BY <2>1, <2>2, SameTasks DEF EntryKept
  <2> QED
    BY <1>1, <2>3 DEF Inv
<1>3. CASE PruneSweeps
  BY <1>1, <1>3, PruneCounts DEF Inv
<1>4. ASSUME NEW c \in Conns, Connection(c)
      PROVE  Inv'
  BY <1>1, <1>4, AcceptCounts, AttachCounts, DropCounts, OthersCount DEF Connection, Inv
<1> QED
  BY <1>2, <1>3, <1>4 DEF Next

\* Whatever the order of accepts, attaches, refusals, charges, drops and prunes,
\* and with any number of worker threads, the relay's counters are exactly the
\* slots its connection tasks hold.
THEOREM LimitsCounted == Spec => []SlotsCounted
<1>1. Spec => []Inv
  BY InvInit, InvStep, PTL DEF Spec
<1> QED
  BY <1>1, PTL DEF Inv

\* The connections that exist never exceed the global cap, their address's or
\* their account's.
THEOREM LimitsCapped == Spec => []CapsHeld
<1>1. Spec => []Inv
  BY InvInit, InvStep, PTL DEF Spec
<1>2. Inv => CapsHeld
  <2> SUFFICES ASSUME Inv
               PROVE  CapsHeld
    OBVIOUS
  <2>1. ASSUME NEW s \in Subs
        PROVE  Cardinality(Attached(s)) <= PerSub
    <3>1. CASE subs[s] = None
      <4>1. Attached(s) = {}
        BY <3>1 DEF Inv, SlotsCounted
      <4>2. PerSub \in Nat
        BY LimitsAssumption
      <4> QED
        BY <4>1, <4>2, FS_EmptySet
    <3>2. CASE subs[s] # None
      BY <3>2 DEF Inv, SlotsCounted, CountersCapped
    <3> QED
      BY <3>1, <3>2
  <2> QED
    BY <2>1 DEF Inv, SlotsCounted, CountersCapped, CapsHeld
<1> QED
  BY <1>1, <1>2, PTL
=============================================================================
