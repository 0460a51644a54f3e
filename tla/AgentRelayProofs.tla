-------------------------- MODULE AgentRelayProofs --------------------------
(***************************************************************************)
(* Theorems about AgentRelay, for any calls, polls and bounds. The mutual  *)
(* exclusion of the entry's lock is in the actions; what is proved is that *)
(* the steps outside it (a slot taken before its poll leaves, a call that  *)
(* gives up, a result admitted before the release) never lose, copy or     *)
(* replay a command.                                                       *)
(*                                                                         *)
(* The inductive invariant follows the commands: each is in one place of   *)
(* queue, slots and batches, and once, until the mod or an abandonment has *)
(* taken it.                                                               *)
(***************************************************************************)
EXTENDS AgentRelay, FiniteSetTheorems, SequenceTheorems, WellFoundedInduction,
        TLAPS

-----------------------------------------------------------------------------
(* Sequences that hold each element at most once.                          *)

Once(s) == \A i, j \in DOMAIN s : s[i] = s[j] => i = j

LEMMA EmptyOnce == /\ Once(<<>>) /\ ToSet(<<>>) = {}
                   /\ \A S : <<>> \in Seq(S)
BY DEF Once, ToSet

\* Append, concatenation, subsequences and RemoveFirst keep a sequence distinct.
LEMMA AppendOnce ==
  ASSUME NEW S, NEW s \in Seq(S), NEW x \in S
  PROVE  /\ Append(s, x) \in Seq(S) /\ Append(s, x) # <<>>
         /\ ToSet(Append(s, x)) = ToSet(s) \cup {x}
         /\ Once(s) /\ x \notin ToSet(s) => Once(Append(s, x))
<1>1. Append(s, x) \in Seq(S) /\ Append(s, x) # <<>> /\ Len(Append(s, x)) = Len(s) + 1
  <2>1. Append(s, x) \in Seq(S) /\ Len(Append(s, x)) = Len(s) + 1 /\ Len(s) \in Nat
    BY AppendProperties
  <2>2. Append(s, x) # <<>>
    BY AppendProperties
  <2> QED
    BY <2>1, <2>2
<1>2. /\ \A i \in 1 .. Len(s) : Append(s, x)[i] = s[i]
      /\ Append(s, x)[Len(s) + 1] = x
  OBVIOUS
<1>3. DOMAIN s = 1 .. Len(s) /\ DOMAIN Append(s, x) = 1 .. Len(s) + 1 /\ Len(s) \in Nat
  BY <1>1
<1>4. ToSet(Append(s, x)) = ToSet(s) \cup {x}
  BY <1>1, <1>2, <1>3 DEF ToSet
<1>5. Once(s) /\ x \notin ToSet(s) => Once(Append(s, x))
  BY <1>1, <1>2, <1>3 DEF ToSet, Once
<1> QED
  BY <1>1, <1>4, <1>5

LEMMA ConcatOnce ==
  ASSUME NEW S, NEW s \in Seq(S), NEW t \in Seq(S)
  PROVE  /\ s \o t \in Seq(S)
         /\ ToSet(s \o t) = ToSet(s) \cup ToSet(t)
         /\ Once(s) /\ Once(t) /\ ToSet(s) \cap ToSet(t) = {} => Once(s \o t)
<1>1. /\ s \o t \in Seq(S) /\ Len(s \o t) = Len(s) + Len(t) /\ Len(s) \in Nat /\ Len(t) \in Nat
      /\ DOMAIN s = 1 .. Len(s) /\ DOMAIN t = 1 .. Len(t) /\ DOMAIN (s \o t) = 1 .. Len(s) + Len(t)
  OBVIOUS
<1>2. /\ \A i \in 1 .. Len(s) : (s \o t)[i] = s[i]
      /\ \A i \in 1 .. Len(t) : (s \o t)[i + Len(s)] = t[i]
  BY <1>1
<1>3. \A i \in Len(s) + 1 .. Len(s) + Len(t) : (s \o t)[i] = t[i - Len(s)] /\ i - Len(s) \in 1 .. Len(t)
  BY <1>1
<1>4. ToSet(s \o t) = ToSet(s) \cup ToSet(t)
  <2>1. ToSet(s) \subseteq ToSet(s \o t)
    BY <1>1, <1>2 DEF ToSet
  <2>2. ToSet(t) \subseteq ToSet(s \o t)
    <3> SUFFICES ASSUME NEW i \in 1 .. Len(t) PROVE t[i] \in ToSet(s \o t)
      BY <1>1 DEF ToSet
    <3>1. i + Len(s) \in DOMAIN (s \o t) /\ (s \o t)[i + Len(s)] = t[i]
      BY <1>1, <1>2
    <3> QED
      BY <3>1 DEF ToSet
  <2>3. ToSet(s \o t) \subseteq ToSet(s) \cup ToSet(t)
    <3> SUFFICES ASSUME NEW i \in 1 .. Len(s) + Len(t)
                 PROVE  (s \o t)[i] \in ToSet(s) \cup ToSet(t)
      BY <1>1 DEF ToSet
    <3>1. CASE i <= Len(s)
      BY <1>1, <1>2, <3>1 DEF ToSet
    <3>2. CASE i > Len(s)
      BY <1>1, <1>3, <3>2 DEF ToSet
    <3> QED
      BY <1>1, <3>1, <3>2
  <2> QED
    BY <2>1, <2>2, <2>3
<1>5. ASSUME Once(s), Once(t), ToSet(s) \cap ToSet(t) = {} PROVE Once(s \o t)
  <2> SUFFICES ASSUME NEW i \in DOMAIN (s \o t), NEW j \in DOMAIN (s \o t), (s \o t)[i] = (s \o t)[j]
               PROVE  i = j
    BY DEF Once
  <2>1. CASE i <= Len(s) /\ j <= Len(s)
    BY <1>1, <1>2, <1>5, <2>1 DEF Once
  <2>2. CASE i > Len(s) /\ j > Len(s)
    <3>1. i - Len(s) = j - Len(s)
      BY <1>1, <1>3, <1>5, <2>2 DEF Once
    <3> QED
      BY <1>1, <3>1
  <2>3. CASE i <= Len(s) /\ j > Len(s)
    <3>1. (s \o t)[i] \in ToSet(s) /\ (s \o t)[j] \in ToSet(t)
      BY <1>1, <1>2, <1>3, <2>3 DEF ToSet
    <3> QED
      BY <1>5, <3>1
  <2>4. CASE i > Len(s) /\ j <= Len(s)
    <3>1. (s \o t)[j] \in ToSet(s) /\ (s \o t)[i] \in ToSet(t)
      BY <1>1, <1>2, <1>3, <2>4 DEF ToSet
    <3> QED
      BY <1>5, <3>1
  <2> QED
    BY <1>1, <2>1, <2>2, <2>3, <2>4
<1> QED
  BY <1>1, <1>4, <1>5

LEMMA SubSeqOnce ==
  ASSUME NEW S, NEW s \in Seq(S), NEW m \in 1 .. Len(s) + 1, NEW n \in 0 .. Len(s)
  PROVE  /\ SubSeq(s, m, n) \in Seq(S)
         /\ ToSet(SubSeq(s, m, n)) = {s[i] : i \in m .. n}
         /\ Once(s) => Once(SubSeq(s, m, n))
<1>1. /\ SubSeq(s, m, n) \in Seq(S)
      /\ Len(SubSeq(s, m, n)) = IF m <= n THEN n - m + 1 ELSE 0
      /\ DOMAIN s = 1 .. Len(s) /\ Len(s) \in Nat
  OBVIOUS
<1>2. DOMAIN SubSeq(s, m, n) = 1 .. (IF m <= n THEN n - m + 1 ELSE 0)
  BY <1>1
<1>3. \A i \in DOMAIN SubSeq(s, m, n) :
        SubSeq(s, m, n)[i] = s[m + i - 1] /\ m + i - 1 \in m .. n /\ m + i - 1 \in 1 .. Len(s)
  BY <1>1, <1>2
<1>4. \A k \in m .. n : k - m + 1 \in DOMAIN SubSeq(s, m, n) /\ SubSeq(s, m, n)[k - m + 1] = s[k]
  BY <1>1, <1>2
<1>5. ToSet(SubSeq(s, m, n)) = {s[i] : i \in m .. n}
  <2>1. ToSet(SubSeq(s, m, n)) \subseteq {s[i] : i \in m .. n}
    BY <1>3 DEF ToSet
  <2>2. {s[i] : i \in m .. n} \subseteq ToSet(SubSeq(s, m, n))
    <3> SUFFICES ASSUME NEW i \in m .. n PROVE s[i] \in ToSet(SubSeq(s, m, n))
      OBVIOUS
    <3> QED
      BY <1>4 DEF ToSet
  <2> QED
    BY <2>1, <2>2
<1>6. Once(s) => Once(SubSeq(s, m, n))
  BY <1>1, <1>2, <1>3 DEF Once
<1> QED
  BY <1>1, <1>5, <1>6

\* A nonempty set of naturals has a smallest element: where RemoveFirst cuts and
\* which waiter release_pollers_locked wakes.
LEMMA Smallest ==
  ASSUME NEW I \in SUBSET Nat, I # {}
  PROVE  /\ Min(I) \in I
         /\ \A j \in I : Min(I) <= j
<1> DEFINE R == {ss \in Nat \X Nat : ss[1] < ss[2]}
<1>0. IsWellFoundedOn(R, Nat)
  BY NatLessThanWellFounded DEF OpToRel
<1> HIDE DEF R
<1>1. PICK x \in I : \A y \in I : ~(<<y, x>> \in R)
  BY <1>0, WFMin
<1>2. ASSUME NEW y \in I PROVE x <= y
  <2>1. <<y, x>> \in Nat \X Nat /\ ~(<<y, x>> \in R)
    BY <1>1
  <2>2. ~(y < x)
    BY <2>1 DEF R
  <2> QED
    BY <2>2
<1> QED
  BY <1>2 DEF Min

LEMMA RemoveOnce ==
  ASSUME NEW S, NEW s \in Seq(S), NEW e
  PROVE  /\ RemoveFirst(s, e) \in Seq(S)
         /\ RemoveFirst(<<>>, e) = <<>>
         /\ ToSet(RemoveFirst(s, e)) \subseteq ToSet(s)
         /\ ToSet(s) \ {e} \subseteq ToSet(RemoveFirst(s, e))
         /\ Once(s) => Once(RemoveFirst(s, e)) /\ e \notin ToSet(RemoveFirst(s, e))
<1>1. RemoveFirst(<<>>, e) = <<>>
  BY DEF RemoveFirst
<1>2. CASE ~\E i \in 1 .. Len(s) : s[i] = e
  BY <1>1, <1>2 DEF RemoveFirst, ToSet
<1>3. CASE \E i \in 1 .. Len(s) : s[i] = e
  <2> DEFINE I == {i \in 1 .. Len(s) : s[i] = e}
             k == Min(I)
             a == SubSeq(s, 1, k - 1)
             b == SubSeq(s, k + 1, Len(s))
  <2>1. I # {} /\ I \in SUBSET Nat /\ Len(s) \in Nat /\ DOMAIN s = 1 .. Len(s)
    BY <1>3
  <2>2. k \in I
    <3> HIDE DEF I
    <3> QED BY <2>1, Smallest
  <2>3. k \in 1 .. Len(s) /\ s[k] = e
    BY <2>2
  <2>4. RemoveFirst(s, e) = a \o b
    BY <1>3, <2>1 DEF RemoveFirst, RemoveAt, SelectInSeq
  <2> HIDE DEF I, k
  <2>5. /\ a \in Seq(S) /\ ToSet(a) = {s[i] : i \in 1 .. k - 1} /\ (Once(s) => Once(a))
        /\ b \in Seq(S) /\ ToSet(b) = {s[i] : i \in k + 1 .. Len(s)} /\ (Once(s) => Once(b))
    BY <2>1, <2>3, SubSeqOnce
  <2> HIDE DEF a, b
  <2>6. /\ a \o b \in Seq(S) /\ ToSet(a \o b) = ToSet(a) \cup ToSet(b)
        /\ Once(a) /\ Once(b) /\ ToSet(a) \cap ToSet(b) = {} => Once(a \o b)
    <3>1. a \in Seq(S) /\ b \in Seq(S)
      BY <2>5
    <3> QED
      BY <3>1, ConcatOnce
  <2>7. ToSet(s) \ {e} \subseteq ToSet(a \o b) /\ ToSet(a \o b) \subseteq ToSet(s)
    <3>1. ToSet(s) = {s[i] : i \in 1 .. Len(s)}
      BY <2>1 DEF ToSet
    <3>2. \A i \in 1 .. Len(s) : i \in 1 .. k - 1 \/ i = k \/ i \in k + 1 .. Len(s)
      BY <2>1, <2>3
    <3>3. 1 .. k - 1 \subseteq 1 .. Len(s) /\ k + 1 .. Len(s) \subseteq 1 .. Len(s)
      BY <2>1, <2>3
    <3>4. ToSet(a) \subseteq ToSet(s) /\ ToSet(b) \subseteq ToSet(s)
      BY <2>5, <3>1, <3>3
    <3>5. ASSUME NEW i \in 1 .. Len(s), s[i] # e
          PROVE  s[i] \in ToSet(a) \/ s[i] \in ToSet(b)
      <4>1. i \in 1 .. k - 1 \/ i \in k + 1 .. Len(s)
        BY <2>3, <3>2, <3>5
      <4> QED
        BY <2>5, <4>1
    <3>6. ToSet(s) \ {e} \subseteq ToSet(a) \cup ToSet(b)
      BY <3>1, <3>5
    <3> QED
      BY <2>6, <3>4, <3>6
  <2>8. ASSUME Once(s) PROVE Once(a \o b) /\ e \notin ToSet(a \o b)
    <3>1. ToSet(a) \cap ToSet(b) = {}
      <4>1. \A i \in 1 .. k - 1, j \in k + 1 .. Len(s) :
              i \in 1 .. Len(s) /\ j \in 1 .. Len(s) /\ i # j
        BY <2>1, <2>3
      <4>2. \A i \in 1 .. k - 1, j \in k + 1 .. Len(s) : s[i] # s[j]
        BY <2>1, <2>8, <4>1 DEF Once
      <4> QED
        BY <2>5, <4>2
    <3>2. e \notin ToSet(a) /\ e \notin ToSet(b)
      BY <2>1, <2>3, <2>5, <2>8 DEF Once
    <3> QED
      BY <2>5, <2>6, <2>8, <3>1, <3>2
  <2> QED
    BY <1>1, <2>4, <2>6, <2>7, <2>8
<1> QED
  BY <1>2, <1>3

-----------------------------------------------------------------------------
(* Where commands are.                                                     *)

Slots == {s \in [full : BOOLEAN, commands : Seq(Calls)] : ~s.full => s = Empty}

Apart(q, sl, bt) ==
  /\ Once(q)
  /\ \A p \in Polls : Once(sl[p].commands) /\ Once(bt[p])
  /\ \A c \in Calls, p \in Polls :
       c \in ToSet(q) => c \notin ToSet(sl[p].commands) /\ c \notin ToSet(bt[p])
  /\ \A c \in Calls, p, r \in Polls :
       c \in ToSet(sl[p].commands) =>
         c \notin ToSet(bt[r]) /\ (c \in ToSet(sl[r].commands) => r = p)
  /\ \A c \in Calls, p, r \in Polls :
       c \in ToSet(bt[p]) /\ c \in ToSet(bt[r]) => r = p

Here(c, q, sl, bt) ==
  \/ c \in ToSet(q)
  \/ \E p \in Polls : c \in ToSet(sl[p].commands) \/ c \in ToSet(bt[p])

\* release_pollers_locked leaves queue and waiters as they were, or moves the
\* whole queue into the empty slot of a waiter; work never stays beside a waiter.
LEMMA HandOverMoves ==
  ASSUME NEW q \in Seq(Calls), NEW ws \in Seq(Polls), NEW sl \in [Polls -> Slots]
  PROVE  LET after == HandOver(q, ws, sl) IN
           /\ after.waiters \in Seq(Polls)
           /\ after.queue # <<>> => after.waiters = <<>>
           /\ \/ after.queue = q /\ after.slot = sl
              \/ \E p \in Polls : /\ ~sl[p].full
                                 /\ after.queue = <<>>
                                 /\ after.slot = [sl EXCEPT ![p] = Parcel(q)]
<1> DEFINE T == Takers(ws, sl)
           k == Min(T)
<1>1. CASE q = <<>> \/ ws = <<>>
  BY <1>1 DEF HandOver
<1>2. CASE q # <<>> /\ ws # <<>> /\ T = {}
  BY <1>2 DEF HandOver
<1>3. CASE q # <<>> /\ ws # <<>> /\ T # {}
  <2>1. T \in SUBSET Nat /\ DOMAIN ws = 1 .. Len(ws) /\ Len(ws) \in Nat
    BY DEF Takers
  <2>2. k \in T
    <3> HIDE DEF T
    <3> QED BY <1>3, <2>1, Smallest
  <2> DEFINE rest == SubSeq(ws, k + 1, Len(ws))
             to == [sl EXCEPT ![ws[k]] = Parcel(q)]
             after == HandOver(q, ws, sl)
  <2>3. after = [queue |-> <<>>, waiters |-> rest, slot |-> to]
    BY <1>3 DEF HandOver, Min
  <2>4. k \in 1 .. Len(ws) /\ ws[k] \in Polls /\ ~sl[ws[k]].full
    BY <2>1, <2>2 DEF Takers
  <2> HIDE DEF k, after
  <2>5. rest \in Seq(Polls)
    BY <2>1, <2>4
  <2>6. \E p \in Polls : ~sl[p].full /\ to = [sl EXCEPT ![p] = Parcel(q)]
    BY <2>4
  <2> HIDE DEF rest, to
  <2>7. after.queue = <<>> /\ after.waiters = rest /\ after.slot = to
    BY <2>3
  <2>8. \E p \in Polls : /\ ~sl[p].full
                        /\ after.queue = <<>>
                        /\ after.slot = [sl EXCEPT ![p] = Parcel(q)]
    BY <2>6, <2>7
  <2>9. after.waiters \in Seq(Polls) /\ (after.queue # <<>> => after.waiters = <<>>)
    BY <2>5, <2>7
  <2> QED
    BY <2>8, <2>9 DEF after
<1> QED
  BY <1>1, <1>2, <1>3

\* Such a move keeps every command where exactly one taker will find it.
LEMMA MoveKeepsApart ==
  ASSUME NEW q \in Seq(Calls), NEW sl \in [Polls -> Slots],
         NEW bt \in [Polls -> Seq(Calls)], Apart(q, sl, bt),
         NEW p \in Polls, ~sl[p].full
  PROVE  LET to == [sl EXCEPT ![p] = Parcel(q)] IN
           /\ to \in [Polls -> Slots]
           /\ Apart(<<>>, to, bt)
           /\ \A c \in Calls : Here(c, <<>>, to, bt) <=> Here(c, q, sl, bt)
<1> DEFINE to == [sl EXCEPT ![p] = Parcel(q)]
<1>1. Parcel(q) \in Slots /\ Parcel(q).commands = q
  BY DEF Parcel, Slots
<1>2. /\ to \in [Polls -> Slots] /\ to[p].commands = q
      /\ \A r \in Polls \ {p} : to[r] = sl[r]
  BY <1>1
<1>3. sl[p].commands = <<>>
  BY DEF Slots, Empty
<1> HIDE DEF to
<1>4. Apart(<<>>, to, bt)
  <2>1. Once(<<>>) /\ \A r \in Polls : Once(to[r].commands) /\ Once(bt[r])
    BY <1>2, EmptyOnce DEF Apart
  <2>2. ASSUME NEW c \in Calls, NEW r \in Polls, NEW u \in Polls,
               c \in ToSet(to[r].commands)
        PROVE  c \notin ToSet(bt[u]) /\ (c \in ToSet(to[u].commands) => u = r)
    BY <1>2, <2>2 DEF Apart
  <2> QED
    BY <2>1, <2>2, EmptyOnce DEF Apart
<1>5. ASSUME NEW c \in Calls PROVE Here(c, <<>>, to, bt) <=> Here(c, q, sl, bt)
  BY <1>2, <1>3, EmptyOnce DEF Here
<1> QED
  BY <1>2, <1>4, <1>5 DEF to

\* ReleasePollers, as the actions use it.
LEMMA ReleaseKeepsApart ==
  ASSUME NEW q \in Seq(Calls), NEW ws \in Seq(Polls), NEW sl \in [Polls -> Slots],
         NEW bt \in [Polls -> Seq(Calls)], Apart(q, sl, bt),
         ReleasePollers(q, ws, sl)
  PROVE  /\ queue' \in Seq(Calls) /\ waiters' \in Seq(Polls) /\ slot' \in [Polls -> Slots]
         /\ queue' # <<>> => waiters' = <<>>
         /\ Apart(queue', slot', bt)
         /\ \A c \in Calls : Here(c, queue', slot', bt) <=> Here(c, q, sl, bt)
<1> DEFINE after == HandOver(q, ws, sl)
<1>1. queue' = after.queue /\ waiters' = after.waiters /\ slot' = after.slot
  BY DEF ReleasePollers
<1>2. /\ after.waiters \in Seq(Polls)
      /\ after.queue # <<>> => after.waiters = <<>>
      /\ \/ after.queue = q /\ after.slot = sl
         \/ \E p \in Polls : /\ ~sl[p].full
                            /\ after.queue = <<>>
                            /\ after.slot = [sl EXCEPT ![p] = Parcel(q)]
  BY HandOverMoves
<1> HIDE DEF after
<1>3. CASE after.queue = q /\ after.slot = sl
  BY <1>1, <1>2, <1>3
<1>4. CASE \E p \in Polls : /\ ~sl[p].full
                           /\ after.queue = <<>>
                           /\ after.slot = [sl EXCEPT ![p] = Parcel(q)]
  <2>1. PICK p \in Polls : /\ ~sl[p].full
                          /\ after.queue = <<>>
                          /\ after.slot = [sl EXCEPT ![p] = Parcel(q)]
    BY <1>4
  <2> DEFINE to == [sl EXCEPT ![p] = Parcel(q)]
  <2>2. /\ to \in [Polls -> Slots]
        /\ Apart(<<>>, to, bt)
        /\ \A c \in Calls : Here(c, <<>>, to, bt) <=> Here(c, q, sl, bt)
    BY <2>1, MoveKeepsApart
  <2>3. queue' = <<>> /\ slot' = to /\ waiters' \in Seq(Polls)
    BY <1>1, <1>2, <2>1
  <2> HIDE DEF to
  <2> QED
    BY <2>2, <2>3, EmptyOnce
<1> QED
  BY <1>2, <1>3, <1>4

-----------------------------------------------------------------------------
(* The inductive invariant.                                                *)

InPlace(c) == Here(c, queue, slot, batch)

\* A call that has not queued its command yet.
Unqueued == {"idle", "admitted", "refused"}

Typed == TypeOK /\ slot \in [Polls -> Slots]

\* Only a poll that leaves or replies carries a batch.
BatchInHand == \A p \in Polls : pollAt[p] \in {"idle", "entering", "parked"} => batch[p] = <<>>

Fresh ==
  \A c \in Calls : callAt[c] \in Unqueued =>
    mod[c] = "unseen" /\ channel[c] = "nothing" /\ ~InPlace(c)

OnceOnly == \A c \in Calls : mod[c] # "unseen" => ~InPlace(c)

Kept == \A c \in inflight : InPlace(c) \/ mod[c] # "unseen"

IInv ==
  /\ Typed /\ Apart(queue, slot, batch) /\ BatchInHand
  /\ Fresh /\ OnceOnly /\ Kept
  /\ NoPollSleepsOnWork /\ WaitingIsInflight

LEMMA SlotsAreTyped ==
  ASSUME TypeOK PROVE slot \in [Polls -> Slots]
BY DEF TypeOK, Slots

LEMMA InitIInv == ASSUME Init PROVE IInv
<1> USE RelayAssumption DEF Init
<1>1. Empty \in Slots /\ Empty.commands = <<>>
  BY EmptyOnce DEF Empty, Slots
<1>2. TypeOK
  BY EmptyOnce, <1>1 DEF TypeOK, CallSteps, Slots
<1>3. Apart(queue, slot, batch) /\ \A c \in Calls : ~InPlace(c)
  BY <1>1, EmptyOnce DEF Apart, InPlace, Here
<1> QED
  BY <1>1, <1>2, <1>3
     DEF IInv, Typed, BatchInHand, Fresh, OnceOnly, Kept, NoPollSleepsOnWork,
         WaitingIsInflight, Unqueued

-----------------------------------------------------------------------------
(* Every step keeps it.                                                    *)

\* Steps that move no command.
LEMMA StillApart ==
  ASSUME IInv, UNCHANGED <<queue, slot, batch>>
  PROVE  /\ Apart(queue, slot, batch)'
         /\ \A c \in Calls : InPlace(c)' <=> InPlace(c)
BY DEF IInv, InPlace

LEMMA CallStep ==
  ASSUME IInv, NEW c \in Calls,
         CallTool(c) \/ QueueFull(c) \/ Answered(c) \/ GiveUp(c)
  PROVE  /\ IInv'
         /\ \A d \in Calls : InPlace(d)' <=> InPlace(d)
<1> USE DEF CallGoes, Unqueued
<1>1. UNCHANGED <<release, queue, waiters, inflight, slot, channel, pollAt,
                  batch, mod, hangs>>
  BY DEF CallTool, QueueFull, Answered, GiveUp
<1>2. Apart(queue, slot, batch)' /\ \A d \in Calls : InPlace(d)' <=> InPlace(d)
  BY <1>1, StillApart
<1>3. PICK to \in CallSteps : callAt' = [callAt EXCEPT ![c] = to]
  BY DEF CallTool, QueueFull, Answered, GiveUp, CallSteps
<1>4. Typed'
  BY <1>1, <1>3 DEF IInv, Typed, TypeOK
<1>5. callAt'[c] = "waiting" => FALSE
  BY DEF CallTool, QueueFull, Answered, GiveUp, IInv, Typed, TypeOK
<1>6. callAt'[c] \in Unqueued => callAt[c] \in Unqueued
  BY DEF CallTool, QueueFull, Answered, GiveUp, IInv, Typed, TypeOK
<1>7. c \in inflight => callAt'[c] = "giving up"
  BY DEF CallTool, QueueFull, Answered, GiveUp, IInv, Typed, TypeOK, WaitingIsInflight
<1>8. Fresh'
  BY <1>1, <1>2, <1>3, <1>6 DEF IInv, Typed, TypeOK, Fresh
<1>9. WaitingIsInflight'
  BY <1>1, <1>3, <1>5, <1>7 DEF IInv, Typed, TypeOK, WaitingIsInflight
<1> QED
  BY <1>1, <1>2, <1>4, <1>8, <1>9
     DEF IInv, BatchInHand, OnceOnly, Kept, NoPollSleepsOnWork, Typed, TypeOK

LEMMA EnqueueStep ==
  ASSUME IInv, NEW c \in Calls, Enqueue(c)
  PROVE  /\ IInv'
         /\ \A d \in Calls : InPlace(d)' <=> InPlace(d) \/ d = c
<1> USE DEF CallGoes, Unqueued
<1> DEFINE q == Append(queue, c)
<1>1. /\ callAt[c] = "admitted" /\ callAt' = [callAt EXCEPT ![c] = "waiting"]
      /\ inflight' = inflight \cup {c}
      /\ ReleasePollers(q, waiters, slot)
      /\ UNCHANGED <<release, channel, pollAt, batch, mod, hangs>>
  BY DEF Enqueue
<1>2. /\ queue \in Seq(Calls) /\ waiters \in Seq(Polls) /\ slot \in [Polls -> Slots]
      /\ batch \in [Polls -> Seq(Calls)] /\ Apart(queue, slot, batch)
  BY DEF IInv, Typed, TypeOK
<1>3. ~InPlace(c) /\ mod[c] = "unseen" /\ channel[c] = "nothing"
  BY <1>1 DEF IInv, Fresh
<1>4. q \in Seq(Calls) /\ ToSet(q) = ToSet(queue) \cup {c} /\ Once(q)
  BY <1>2, <1>3, AppendOnce DEF Apart, InPlace, Here
<1> HIDE DEF q
<1>5. Apart(q, slot, batch)
  BY <1>2, <1>3, <1>4 DEF Apart, InPlace, Here
<1>6. \A d \in Calls : Here(d, q, slot, batch) <=> InPlace(d) \/ d = c
  BY <1>4 DEF InPlace, Here
<1>7. /\ queue' \in Seq(Calls) /\ waiters' \in Seq(Polls) /\ slot' \in [Polls -> Slots]
      /\ queue' # <<>> => waiters' = <<>>
      /\ Apart(queue', slot', batch)
      /\ \A d \in Calls : Here(d, queue', slot', batch) <=> Here(d, q, slot, batch)
  BY <1>1, <1>2, <1>4, <1>5, ReleaseKeepsApart
<1>8. Apart(queue, slot, batch)' /\ \A d \in Calls : InPlace(d)' <=> InPlace(d) \/ d = c
  BY <1>1, <1>6, <1>7 DEF InPlace
<1>9. Typed'
  BY <1>1, <1>7 DEF IInv, Typed, TypeOK, Slots, CallSteps
<1>10. Fresh' /\ OnceOnly' /\ Kept'
  BY <1>1, <1>3, <1>8 DEF IInv, Typed, TypeOK, Fresh, OnceOnly, Kept
<1>11. BatchInHand' /\ NoPollSleepsOnWork' /\ WaitingIsInflight'
  BY <1>1, <1>3, <1>7 DEF IInv, Typed, TypeOK, BatchInHand, NoPollSleepsOnWork, WaitingIsInflight
<1> QED
  BY <1>8, <1>9, <1>10, <1>11 DEF IInv

LEMMA AbandonStep ==
  ASSUME IInv, NEW c \in Calls, Abandon(c)
  PROVE  /\ IInv'
         /\ \A d \in Calls : /\ InPlace(d)' => InPlace(d)
                             /\ InPlace(d) /\ d # c => InPlace(d)'
<1> USE DEF CallGoes, Unqueued
<1>1. /\ callAt[c] = "giving up" /\ callAt' = [callAt EXCEPT ![c] = "timed out"]
      /\ inflight' = inflight \ {c}
      /\ queue' = RemoveFirst(queue, c)
      /\ UNCHANGED <<release, waiters, slot, channel, pollAt, batch, mod, hangs>>
  BY DEF Abandon
<1>2. queue \in Seq(Calls) /\ Apart(queue, slot, batch)
  BY DEF IInv, Typed, TypeOK
<1>3. /\ queue' \in Seq(Calls) /\ (queue = <<>> => queue' = <<>>) /\ Once(queue')
      /\ ToSet(queue') \subseteq ToSet(queue) /\ ToSet(queue) \ {c} \subseteq ToSet(queue')
  BY <1>1, <1>2, RemoveOnce DEF Apart
<1>4. Apart(queue', slot', batch')
  BY <1>1, <1>2, <1>3 DEF Apart
<1>5. \A d \in Calls : /\ InPlace(d)' => InPlace(d)
                       /\ InPlace(d) /\ d # c => InPlace(d)'
  BY <1>1, <1>3 DEF InPlace, Here
<1>6. Typed'
  BY <1>1, <1>3 DEF IInv, Typed, TypeOK, CallSteps
<1>7. Fresh' /\ OnceOnly' /\ Kept'
  BY <1>1, <1>5 DEF IInv, Typed, TypeOK, Fresh, OnceOnly, Kept
<1>8. BatchInHand' /\ NoPollSleepsOnWork' /\ WaitingIsInflight'
  BY <1>1, <1>3 DEF IInv, Typed, TypeOK, BatchInHand, NoPollSleepsOnWork, WaitingIsInflight
<1> QED
  BY <1>4, <1>5, <1>6, <1>7, <1>8 DEF IInv

LEMMA PollStartsStep ==
  ASSUME IInv, NEW p \in Polls, PollStarts(p)
  PROVE  /\ IInv'
         /\ \A d \in Calls : InPlace(d)' <=> InPlace(d)
<1>1. /\ pollAt[p] = "idle" /\ pollAt' = [pollAt EXCEPT ![p] = "entering"]
      /\ UNCHANGED <<release, queue, waiters, inflight, slot, callAt, channel,
                     batch, mod, hangs>>
  BY DEF PollStarts, PollGoes
<1>2. Apart(queue, slot, batch)' /\ \A d \in Calls : InPlace(d)' <=> InPlace(d)
  BY <1>1, StillApart
<1> QED
  BY <1>1, <1>2
     DEF IInv, Typed, TypeOK, BatchInHand, Fresh, OnceOnly, Kept,
         NoPollSleepsOnWork, WaitingIsInflight

\* A poll that finds work takes the whole queue, one that finds none parks.
LEMMA PollEntersStep ==
  ASSUME IInv, NEW p \in Polls, PollEnters(p)
  PROVE  /\ IInv'
         /\ \A d \in Calls : InPlace(d)' <=> InPlace(d)
<1>1. /\ pollAt[p] = "entering" /\ batch[p] = <<>>
      /\ UNCHANGED <<release, inflight, slot, callAt, channel, mod, hangs>>
  BY DEF PollEnters, PollGoes, IInv, BatchInHand
<1>2. /\ queue \in Seq(Calls) /\ waiters \in Seq(Polls) /\ slot \in [Polls -> Slots]
      /\ batch \in [Polls -> Seq(Calls)] /\ Apart(queue, slot, batch)
      /\ pollAt \in [Polls -> {"idle", "entering", "parked", "leaving", "replying"}]
  BY DEF IInv, Typed, TypeOK
<1>3. CASE queue # <<>>
  <2>1. /\ pollAt' = [pollAt EXCEPT ![p] = "replying"]
        /\ batch' = [batch EXCEPT ![p] = queue]
        /\ queue' = <<>> /\ waiters' = waiters
    BY <1>3 DEF PollEnters, PollGoes
  <2>2. batch'[p] = queue /\ \A r \in Polls \ {p} : batch'[r] = batch[r]
    BY <1>2, <2>1
  <2>3. Apart(queue', slot', batch')
    BY <1>1, <1>2, <2>1, <2>2, EmptyOnce DEF Apart
  <2>4. \A d \in Calls : InPlace(d)' <=> InPlace(d)
    BY <1>1, <1>2, <2>1, <2>2, EmptyOnce DEF InPlace, Here
  <2>5. Typed'
    BY <1>1, <1>2, <2>1, EmptyOnce DEF IInv, Typed, TypeOK
  <2>6. BatchInHand'
    BY <1>2, <2>1, <2>2 DEF IInv, BatchInHand
  <2>7. Fresh' /\ OnceOnly' /\ Kept'
    BY <1>1, <2>4 DEF IInv, Typed, TypeOK, Fresh, OnceOnly, Kept
  <2> QED
    BY <1>1, <2>1, <2>3, <2>4, <2>5, <2>6, <2>7 DEF IInv, NoPollSleepsOnWork, WaitingIsInflight
<1>4. CASE queue = <<>>
  <2>1. /\ pollAt' = [pollAt EXCEPT ![p] = "parked"]
        /\ waiters' = Append(waiters, p)
        /\ queue' = queue /\ batch' = batch
    BY <1>4 DEF PollEnters, PollGoes
  <2>2. Apart(queue, slot, batch)' /\ \A d \in Calls : InPlace(d)' <=> InPlace(d)
    BY <1>1, <2>1, StillApart
  <2>3. Typed'
    BY <1>1, <1>2, <2>1 DEF IInv, Typed, TypeOK
  <2>4. BatchInHand'
    BY <1>1, <1>2, <2>1 DEF IInv, BatchInHand
  <2>5. Fresh' /\ OnceOnly' /\ Kept'
    BY <1>1, <2>2 DEF IInv, Typed, TypeOK, Fresh, OnceOnly, Kept
  <2> QED
    BY <1>1, <1>4, <2>1, <2>2, <2>3, <2>4, <2>5 DEF IInv, NoPollSleepsOnWork, WaitingIsInflight
<1> QED
  BY <1>3, <1>4

\* The batch moves from the slot into the poll's hand.
LEMMA PollTakesStep ==
  ASSUME IInv, NEW p \in Polls, PollTakes(p)
  PROVE  /\ IInv'
         /\ \A d \in Calls : InPlace(d)' <=> InPlace(d)
<1>1. /\ pollAt[p] = "parked" /\ batch[p] = <<>>
      /\ pollAt' = [pollAt EXCEPT ![p] = "leaving"]
      /\ batch' = [batch EXCEPT ![p] = slot[p].commands]
      /\ slot' = [slot EXCEPT ![p] = Empty]
      /\ UNCHANGED <<release, queue, waiters, inflight, callAt, channel, mod, hangs>>
  BY DEF PollTakes, PollGoes, IInv, BatchInHand
<1>2. /\ slot \in [Polls -> Slots] /\ batch \in [Polls -> Seq(Calls)]
      /\ slot[p].commands \in Seq(Calls) /\ Apart(queue, slot, batch)
      /\ pollAt \in [Polls -> {"idle", "entering", "parked", "leaving", "replying"}]
  BY DEF IInv, Typed, TypeOK, Slots
<1>3. Empty \in Slots /\ Empty.commands = <<>>
  BY EmptyOnce DEF Empty, Slots
<1>4. /\ slot' \in [Polls -> Slots] /\ slot'[p].commands = <<>>
      /\ \A r \in Polls \ {p} : slot'[r] = slot[r]
      /\ batch'[p] = slot[p].commands /\ \A r \in Polls \ {p} : batch'[r] = batch[r]
  BY <1>1, <1>2, <1>3
<1>5. Apart(queue', slot', batch')
  <2>1. \A r \in Polls : Once(slot'[r].commands) /\ Once(batch'[r])
    BY <1>2, <1>4, EmptyOnce DEF Apart
  <2>2. \A c \in Calls, r \in Polls :
          c \in ToSet(queue) => c \notin ToSet(slot'[r].commands) /\ c \notin ToSet(batch'[r])
    BY <1>2, <1>4, EmptyOnce DEF Apart
  <2>3. ASSUME NEW c \in Calls, NEW r \in Polls, NEW u \in Polls,
               c \in ToSet(slot'[r].commands)
        PROVE  c \notin ToSet(batch'[u]) /\ (c \in ToSet(slot'[u].commands) => u = r)
    <3>1. r # p /\ c \in ToSet(slot[r].commands)
      BY <1>4, <2>3, EmptyOnce
    <3>2. c \notin ToSet(slot[p].commands) /\ c \notin ToSet(batch[u])
      BY <1>2, <3>1 DEF Apart
    <3>3. c \notin ToSet(batch'[u])
      BY <1>4, <3>2
    <3>4. c \in ToSet(slot'[u].commands) => u = r
      BY <1>2, <1>4, <3>1, EmptyOnce DEF Apart
    <3> QED
      BY <3>3, <3>4
  <2>4. ASSUME NEW c \in Calls, NEW r \in Polls, NEW u \in Polls,
               c \in ToSet(batch'[r]), c \in ToSet(batch'[u])
        PROVE  u = r
    <3>1. \A o \in Polls : c \in ToSet(slot[p].commands) => c \notin ToSet(batch[o])
      BY <1>2 DEF Apart
    <3>2. CASE r = p /\ u # p
      <4>1. c \in ToSet(slot[p].commands) /\ c \in ToSet(batch[u])
        BY <1>4, <2>4, <3>2
      <4> QED
        BY <3>1, <4>1
    <3>3. CASE r # p /\ u = p
      <4>1. c \in ToSet(slot[p].commands) /\ c \in ToSet(batch[r])
        BY <1>4, <2>4, <3>3
      <4> QED
        BY <3>1, <4>1
    <3>4. CASE r # p /\ u # p
      <4>1. c \in ToSet(batch[r]) /\ c \in ToSet(batch[u])
        BY <1>4, <2>4, <3>4
      <4> QED
        BY <1>2, <4>1 DEF Apart
    <3> QED
      BY <3>2, <3>3, <3>4
  <2> QED
    BY <1>1, <1>2, <2>1, <2>2, <2>3, <2>4 DEF Apart
<1>6. \A d \in Calls : InPlace(d)' <=> InPlace(d)
  BY <1>1, <1>2, <1>4, EmptyOnce DEF InPlace, Here
<1>7. Typed'
  <2>1. \A r \in Polls : slot'[r] \in [full : BOOLEAN, commands : Seq(Calls)]
                         /\ (~slot'[r].full => slot'[r] = Empty)
    BY <1>4 DEF Slots
  <2> QED
    BY <1>1, <1>2, <1>4, <2>1 DEF IInv, Typed, TypeOK
<1>8. BatchInHand'
  BY <1>1, <1>2, <1>4 DEF IInv, BatchInHand
<1>9. Fresh' /\ OnceOnly' /\ Kept'
  BY <1>1, <1>6 DEF IInv, Typed, TypeOK, Fresh, OnceOnly, Kept
<1> QED
  BY <1>1, <1>5, <1>6, <1>7, <1>8, <1>9 DEF IInv, NoPollSleepsOnWork, WaitingIsInflight

\* PollGuard::drop: what is left in the slot goes back to the head of the
\* queue, or straight on to another waiter; nothing is lost or copied.
LEMMA DropGuardKeeps ==
  ASSUME IInv, NEW p \in Polls, DropGuard(p)
  PROVE  /\ queue' \in Seq(Calls) /\ waiters' \in Seq(Polls) /\ slot' \in [Polls -> Slots]
         /\ queue' # <<>> => waiters' = <<>>
         /\ Apart(queue', slot', batch)
         /\ \A c \in Calls : Here(c, queue', slot', batch) <=> InPlace(c)
<1> DEFINE sl == [slot EXCEPT ![p] = Empty]
           left == slot[p].commands
           q == left \o queue
           ws == RemoveFirst(waiters, p)
<1>1. /\ queue \in Seq(Calls) /\ waiters \in Seq(Polls) /\ slot \in [Polls -> Slots]
      /\ batch \in [Polls -> Seq(Calls)] /\ left \in Seq(Calls)
      /\ Apart(queue, slot, batch) /\ (queue # <<>> => waiters = <<>>)
  BY DEF IInv, Typed, TypeOK, Slots, NoPollSleepsOnWork
<1>2. Empty \in Slots /\ Empty.commands = <<>>
  BY EmptyOnce DEF Empty, Slots
<1>3. /\ sl \in [Polls -> Slots] /\ sl[p].commands = <<>>
      /\ \A r \in Polls \ {p} : sl[r] = slot[r]
  BY <1>1, <1>2
<1>4. ws \in Seq(Polls) /\ (waiters = <<>> => ws = <<>>)
  BY <1>1, RemoveOnce
<1>5. /\ q \in Seq(Calls) /\ ToSet(q) = ToSet(left) \cup ToSet(queue)
      /\ Once(left) /\ Once(queue) /\ ToSet(left) \cap ToSet(queue) = {} => Once(q)
  BY <1>1, ConcatOnce
<1>6. CASE left = <<>>
  <2>1. queue' = queue /\ waiters' = ws /\ slot' = sl
    BY <1>6 DEF DropGuard, Leftovers
  <2> HIDE DEF sl, q, ws
  <2>2. Apart(queue, sl, batch)
    BY <1>1, <1>3, <1>6, EmptyOnce DEF Apart
  <2>3. \A c \in Calls : Here(c, queue, sl, batch) <=> InPlace(c)
    BY <1>1, <1>3, <1>6, EmptyOnce DEF Here, InPlace
  <2> QED
    BY <1>1, <1>3, <1>4, <2>1, <2>2, <2>3
<1>7. CASE left # <<>>
  <2>1. ReleasePollers(q, ws, sl)
    BY <1>7 DEF DropGuard, Leftovers
  <2> HIDE DEF sl, q, ws
  <2>2. ToSet(left) \subseteq Calls /\ ToSet(queue) \subseteq Calls
    BY <1>1 DEF ToSet
  <2> HIDE DEF left
  <2>3. left = slot[p].commands
    BY DEF left
  <2>4. Once(q)
    BY <1>1, <1>5, <2>2, <2>3 DEF Apart
  <2>5. Apart(q, sl, batch)
    <3>1. \A r \in Polls : Once(sl[r].commands) /\ Once(batch[r])
      BY <1>1, <1>3, EmptyOnce DEF Apart
    <3>2. ASSUME NEW c \in Calls, NEW r \in Polls, c \in ToSet(q)
          PROVE  c \notin ToSet(sl[r].commands) /\ c \notin ToSet(batch[r])
      <4>1. CASE c \in ToSet(queue)
        BY <1>1, <1>3, <4>1, EmptyOnce DEF Apart
      <4>2. CASE c \in ToSet(slot[p].commands)
        BY <1>1, <1>3, <4>2, EmptyOnce DEF Apart
      <4> QED
        BY <1>5, <2>3, <3>2, <4>1, <4>2
    <3>3. ASSUME NEW c \in Calls, NEW r \in Polls, NEW u \in Polls,
                 c \in ToSet(sl[r].commands)
          PROVE  c \notin ToSet(batch[u]) /\ (c \in ToSet(sl[u].commands) => u = r)
      BY <1>1, <1>3, <3>3, EmptyOnce DEF Apart
    <3> QED
      BY <1>1, <2>4, <3>1, <3>2, <3>3 DEF Apart
  <2>6. \A c \in Calls : Here(c, q, sl, batch) <=> InPlace(c)
    BY <1>1, <1>3, <1>5, <2>3, EmptyOnce DEF Here, InPlace
  <2> QED
    BY <1>1, <1>3, <1>4, <1>5, <2>1, <2>5, <2>6, ReleaseKeepsApart
<1> QED
  BY <1>6, <1>7

LEMMA PollLeavesStep ==
  ASSUME IInv, NEW p \in Polls, PollLeaves(p) \/ PollDropped(p)
  PROVE  /\ IInv'
         /\ \A d \in Calls : InPlace(d)' <=> InPlace(d)
<1>1. /\ DropGuard(p) /\ hangs' \in 0 .. MaxHangs
      /\ UNCHANGED <<release, inflight, callAt, channel, batch, mod>>
  BY RelayAssumption DEF PollLeaves, PollDropped, IInv, Typed, TypeOK
<1>2. /\ queue' \in Seq(Calls) /\ waiters' \in Seq(Polls) /\ slot' \in [Polls -> Slots]
      /\ queue' # <<>> => waiters' = <<>>
      /\ Apart(queue', slot', batch)
      /\ \A c \in Calls : Here(c, queue', slot', batch) <=> InPlace(c)
  BY <1>1, DropGuardKeeps
<1>3. Apart(queue, slot, batch)' /\ \A c \in Calls : InPlace(c)' <=> InPlace(c)
  BY <1>1, <1>2 DEF InPlace
<1>4. pollAt \in [Polls -> {"idle", "entering", "parked", "leaving", "replying"}]
  BY DEF IInv, Typed, TypeOK
<1>5. /\ pollAt' \in [Polls -> {"idle", "entering", "parked", "leaving", "replying"}]
      /\ \A r \in Polls \ {p} : pollAt'[r] = pollAt[r]
      /\ pollAt'[p] = "replying" \/ pollAt[p] = "parked"
  <2>1. CASE PollLeaves(p)
    BY <1>4, <2>1 DEF PollLeaves, PollGoes
  <2>2. CASE PollDropped(p)
    BY <1>4, <2>2 DEF PollDropped, PollGoes
  <2> QED
    BY <2>1, <2>2
<1>6. Typed'
  <2>1. \A r \in Polls : slot'[r] \in [full : BOOLEAN, commands : Seq(Calls)]
                         /\ (~slot'[r].full => slot'[r] = Empty)
    BY <1>2 DEF Slots
  <2>2. slot' \in [Polls -> [full : BOOLEAN, commands : Seq(Calls)]]
    BY <1>2, <2>1
  <2> QED
    BY <1>1, <1>2, <1>5, <2>1, <2>2 DEF IInv, Typed, TypeOK
<1>7. BatchInHand'
  BY <1>1, <1>4, <1>5 DEF IInv, BatchInHand
<1>8. Fresh' /\ OnceOnly' /\ Kept'
  BY <1>1, <1>3 DEF IInv, Typed, TypeOK, Fresh, OnceOnly, Kept
<1> QED
  BY <1>1, <1>2, <1>3, <1>6, <1>7, <1>8 DEF IInv, NoPollSleepsOnWork, WaitingIsInflight

\* The batch reaches the mod, or is lost with its connection: either way it
\* is in no place any more.
LEMMA PollRepliesStep ==
  ASSUME IInv, NEW p \in Polls, NEW fate \in {"held", "lost"}, PollReplies(p, fate)
  PROVE  /\ IInv'
         /\ \A d \in Calls : /\ InPlace(d)' <=> InPlace(d) /\ d \notin ToSet(batch[p])
                             /\ d \in ToSet(batch[p]) => InPlace(d)
<1>1. /\ pollAt[p] = "replying" /\ pollAt' = [pollAt EXCEPT ![p] = "idle"]
      /\ hangs' \in 0 .. MaxHangs
      /\ mod' = [c \in Calls |-> IF c \in ToSet(batch[p]) THEN fate ELSE mod[c]]
      /\ batch' = [batch EXCEPT ![p] = <<>>]
      /\ UNCHANGED <<release, queue, waiters, inflight, slot, callAt, channel>>
  BY RelayAssumption DEF PollReplies, PollGoes, IInv, Typed, TypeOK
<1>2. /\ slot \in [Polls -> Slots] /\ batch \in [Polls -> Seq(Calls)] /\ queue \in Seq(Calls)
      /\ pollAt \in [Polls -> {"idle", "entering", "parked", "leaving", "replying"}]
      /\ mod \in [Calls -> {"unseen", "held", "posting", "done", "unposted", "lost"}]
      /\ Apart(queue, slot, batch)
  BY DEF IInv, Typed, TypeOK
<1>3. /\ batch' \in [Polls -> Seq(Calls)] /\ batch'[p] = <<>>
      /\ \A r \in Polls \ {p} : batch'[r] = batch[r]
  BY <1>1, <1>2, EmptyOnce
<1>4. Apart(queue', slot', batch')
  BY <1>1, <1>2, <1>3, EmptyOnce DEF Apart
<1>5. ASSUME NEW c \in Calls
      PROVE  InPlace(c)' <=> InPlace(c) /\ c \notin ToSet(batch[p])
  <2>1. CASE c \in ToSet(batch[p])
    BY <1>1, <1>2, <1>3, <2>1, EmptyOnce DEF Apart, InPlace, Here
  <2>2. CASE c \notin ToSet(batch[p])
    BY <1>1, <1>3, <2>2, EmptyOnce DEF InPlace, Here
  <2> QED
    BY <2>1, <2>2
<1>6. mod' \in [Calls -> {"unseen", "held", "posting", "done", "unposted", "lost"}]
  BY <1>1, <1>2
<1>7. \A c \in Calls : /\ c \in ToSet(batch[p]) => mod'[c] # "unseen" /\ InPlace(c)
                       /\ c \notin ToSet(batch[p]) => mod'[c] = mod[c]
  BY <1>1 DEF InPlace, Here
<1>8. Typed'
  BY <1>1, <1>2, <1>3, <1>6 DEF IInv, Typed, TypeOK
<1>9. BatchInHand'
  BY <1>1, <1>2, <1>3 DEF IInv, BatchInHand
<1>10. Fresh' /\ OnceOnly' /\ Kept'
  BY <1>1, <1>5, <1>7 DEF IInv, Typed, TypeOK, Fresh, OnceOnly, Kept
<1> QED
  BY <1>1, <1>4, <1>5, <1>7, <1>8, <1>9, <1>10 DEF IInv, NoPollSleepsOnWork, WaitingIsInflight

LEMMA ModStep ==
  ASSUME IInv, NEW c \in Calls, ModPosts(c) \/ PostLost(c) \/ Complete(c)
  PROVE  /\ IInv'
         /\ \A d \in Calls : InPlace(d)' <=> InPlace(d)
<1>1. /\ mod[c] # "unseen"
      /\ UNCHANGED <<release, queue, waiters, slot, callAt, pollAt, batch, hangs>>
  BY DEF ModPosts, PostLost, Complete
<1>2. Apart(queue, slot, batch)' /\ \A d \in Calls : InPlace(d)' <=> InPlace(d)
  BY <1>1, StillApart
<1>3. /\ mod' \in [Calls -> {"unseen", "held", "posting", "done", "unposted", "lost"}]
      /\ mod'[c] # "unseen" /\ \A d \in Calls \ {c} : mod'[d] = mod[d]
  BY DEF ModPosts, PostLost, Complete, IInv, Typed, TypeOK
<1>4. ~(callAt[c] \in Unqueued)
  BY <1>1 DEF IInv, Fresh
<1>5. CASE ModPosts(c) \/ PostLost(c)
  <2>1. UNCHANGED <<inflight, channel>>
    BY <1>5 DEF ModPosts, PostLost
  <2> QED
    BY <1>1, <1>2, <1>3, <1>4, <2>1
       DEF IInv, Typed, TypeOK, BatchInHand, Fresh, OnceOnly, Kept,
           NoPollSleepsOnWork, WaitingIsInflight
<1>6. CASE Complete(c)
  <2>1. /\ inflight' = inflight \ {c}
        /\ channel' = IF c \in inflight THEN [channel EXCEPT ![c] = "result"] ELSE channel
    BY <1>6 DEF Complete
  <2>2. /\ channel' \in [Calls -> {"nothing", "result", "gone"}]
        /\ c \in inflight => channel'[c] = "result"
        /\ c \notin inflight => channel'[c] = channel[c]
        /\ \A d \in Calls \ {c} : channel'[d] = channel[d]
    BY <2>1 DEF IInv, Typed, TypeOK
  <2>3. Typed'
    BY <1>1, <1>3, <2>1, <2>2 DEF IInv, Typed, TypeOK
  <2>4. Fresh' /\ OnceOnly' /\ Kept'
    BY <1>1, <1>2, <1>3, <1>4, <2>1, <2>2 DEF IInv, Typed, TypeOK, Fresh, OnceOnly, Kept
  <2>5. WaitingIsInflight'
    BY <1>1, <2>1, <2>2 DEF IInv, Typed, TypeOK, WaitingIsInflight
  <2> QED
    BY <1>1, <1>2, <2>3, <2>4, <2>5 DEF IInv, BatchInHand, NoPollSleepsOnWork
<1> QED
  BY <1>2, <1>5, <1>6

LEMMA ReleaseStep ==
  ASSUME IInv, ReleaseBegins \/ ReleaseDrains
  PROVE  /\ IInv'
         /\ \A d \in Calls : InPlace(d)' => InPlace(d)
<1>1. CASE ReleaseBegins
  <2>1. /\ release' = "begun"
        /\ UNCHANGED <<queue, waiters, inflight, slot, callAt, channel, pollAt,
                       batch, mod, hangs>>
    BY <1>1 DEF ReleaseBegins
  <2>2. Apart(queue, slot, batch)' /\ \A d \in Calls : InPlace(d)' <=> InPlace(d)
    BY <2>1, StillApart
  <2> QED
    BY <2>1, <2>2
       DEF IInv, Typed, TypeOK, BatchInHand, Fresh, OnceOnly, Kept,
           NoPollSleepsOnWork, WaitingIsInflight
<1>2. CASE ReleaseDrains
  <2>1. /\ release' = "done"
        /\ channel' = [c \in Calls |-> IF c \in inflight THEN "gone" ELSE channel[c]]
        /\ inflight' = {} /\ queue' = <<>> /\ waiters' = <<>>
        /\ slot' = [p \in Polls |-> IF p \in ToSet(waiters) /\ ~slot[p].full
                                      THEN Parcel(<<>>) ELSE slot[p]]
        /\ UNCHANGED <<callAt, pollAt, batch, mod, hangs>>
    BY <1>2 DEF ReleaseDrains, FailInflight
  <2>2. /\ slot \in [Polls -> Slots] /\ Apart(queue, slot, batch)
        /\ channel \in [Calls -> {"nothing", "result", "gone"}]
    BY DEF IInv, Typed, TypeOK
  <2>3. Parcel(<<>>) \in Slots /\ Parcel(<<>>).commands = <<>>
    BY EmptyOnce DEF Parcel, Slots
  <2>4. slot' \in [Polls -> Slots]
    BY <2>1, <2>2, <2>3
  <2>5. \A p \in Polls : slot'[p].commands = slot[p].commands
    <3> SUFFICES ASSUME NEW p \in Polls PROVE slot'[p].commands = slot[p].commands
      OBVIOUS
    <3>1. ~slot[p].full => slot[p].commands = <<>>
      BY <2>2 DEF Slots, Empty
    <3> QED
      BY <2>1, <2>3, <3>1
  <2>6. Apart(queue', slot', batch')
    BY <2>1, <2>2, <2>5, EmptyOnce DEF Apart
  <2>7. \A c \in Calls : InPlace(c)' => InPlace(c)
    BY <2>1, <2>5, EmptyOnce DEF InPlace, Here
  <2>8. Typed'
    <3>1. \A r \in Polls : slot'[r] \in [full : BOOLEAN, commands : Seq(Calls)]
                           /\ (~slot'[r].full => slot'[r] = Empty)
      BY <2>4 DEF Slots
    <3>2. slot' \in [Polls -> [full : BOOLEAN, commands : Seq(Calls)]]
      BY <2>4, <3>1
    <3>3. channel' \in [Calls -> {"nothing", "result", "gone"}]
      BY <2>1, <2>2
    <3> QED
      BY <2>1, <2>4, <3>1, <3>2, <3>3, EmptyOnce DEF IInv, Typed, TypeOK
  <2>9. Fresh' /\ OnceOnly' /\ Kept' /\ WaitingIsInflight'
    <3>1. \A c \in inflight : callAt[c] \notin Unqueued
      BY DEF IInv, WaitingIsInflight, Unqueued
    <3> QED
      BY <2>1, <2>2, <2>7, <3>1 DEF IInv, Typed, TypeOK, Fresh, OnceOnly, Kept, WaitingIsInflight
  <2> QED
    BY <2>1, <2>6, <2>7, <2>8, <2>9 DEF IInv, BatchInHand, NoPollSleepsOnWork
<1> QED
  BY <1>1, <1>2

LEMMA StutterStep ==
  ASSUME IInv, UNCHANGED vars PROVE IInv'
<1>1. Apart(queue, slot, batch)' /\ \A d \in Calls : InPlace(d)' <=> InPlace(d)
  BY StillApart DEF vars
<1> QED
  BY <1>1
     DEF vars, IInv, Typed, TypeOK, BatchInHand, Fresh, OnceOnly, Kept,
         NoPollSleepsOnWork, WaitingIsInflight

LEMMA NextIInv ==
  ASSUME IInv, [Next]_vars PROVE IInv'
<1>1. ASSUME NEW c \in Calls, CallSide(c) \/ ModPosts(c) \/ PostLost(c) \/ Complete(c) PROVE IInv'
  BY <1>1, CallStep, EnqueueStep, AbandonStep, ModStep DEF CallSide
<1>2. ASSUME NEW p \in Polls, PollSide(p) PROVE IInv'
  BY <1>2, PollStartsStep, PollEntersStep, PollTakesStep, PollLeavesStep,
     PollRepliesStep DEF PollSide
<1> QED
  BY <1>1, <1>2, ReleaseStep, StutterStep DEF Next

LEMMA RelayInvariant == Spec => []IInv
<1>1. Init => IInv
  BY InitIInv
<1>2. IInv /\ [Next]_vars => IInv'
  BY NextIInv
<1> QED
  BY <1>1, <1>2, PTL DEF Spec

-----------------------------------------------------------------------------
(* The theorems.                                                           *)

\* The three kinds of places a copy can be in.
InQueue(c, x) == \E i \in DOMAIN queue : queue[i] = c /\ x = <<"queue", i>>
InSlot(c, x, p) == \E i \in DOMAIN slot[p].commands : slot[p].commands[i] = c /\ x = <<p, "slot", i>>
InBatch(c, x, p) == \E i \in DOMAIN batch[p] : batch[p][i] = c /\ x = <<p, "batch", i>>

LEMMA CopyIsPlaced ==
  ASSUME NEW c \in Calls, NEW x
  PROVE  x \in Copies(c) <=>
           InQueue(c, x) \/ \E p \in Polls : InSlot(c, x, p) \/ InBatch(c, x, p)
<1> DEFINE Q == {<<"queue", i>> : i \in {j \in DOMAIN queue : queue[j] = c}}
           S(p) == {<<p, "slot", i>> : i \in {j \in DOMAIN slot[p].commands : slot[p].commands[j] = c}}
           B(p) == {<<p, "batch", i>> : i \in {j \in DOMAIN batch[p] : batch[p][j] = c}}
<1>1. x \in Q <=> InQueue(c, x)
  BY Zenon DEF InQueue
<1>2. ASSUME NEW p PROVE /\ x \in S(p) <=> InSlot(c, x, p)
                         /\ x \in B(p) <=> InBatch(c, x, p)
  BY Zenon DEF InSlot, InBatch
<1> DEFINE US == UNION {S(p) : p \in Polls}
           UB == UNION {B(p) : p \in Polls}
<1>3. Copies(c) = Q \cup US \cup UB
  BY Zenon DEF Copies
<1> HIDE DEF Q, S, B
<1>4. x \in US <=> \E p \in Polls : x \in S(p)
  BY Zenon
<1>5. x \in UB <=> \E p \in Polls : x \in B(p)
  BY Zenon
<1> HIDE DEF US, UB
<1>6. x \in Copies(c) <=> x \in Q \/ x \in US \/ x \in UB
  BY <1>3
<1> QED
  BY Zenon, <1>1, <1>2, <1>4, <1>5, <1>6

\* A command in no place has no copy; otherwise it has exactly one.
LEMMA CopiesOfPlaced ==
  ASSUME IInv, NEW c \in Calls
  PROVE  /\ Copies(c) = {} <=> ~InPlace(c)
         /\ Cardinality(Copies(c)) <= 1
<1>1. /\ queue \in Seq(Calls) /\ batch \in [Polls -> Seq(Calls)]
      /\ \A p \in Polls : slot[p].commands \in Seq(Calls)
      /\ Apart(queue, slot, batch)
  BY DEF IInv, Typed, TypeOK
<1>2. Copies(c) = {} <=> ~InPlace(c)
  <2>1. c \in ToSet(queue) <=> \E x : InQueue(c, x)
    BY DEF InQueue, ToSet
  <2>2. ASSUME NEW p PROVE /\ c \in ToSet(slot[p].commands) <=> \E x : InSlot(c, x, p)
                           /\ c \in ToSet(batch[p]) <=> \E x : InBatch(c, x, p)
    BY DEF InSlot, InBatch, ToSet
  <2> QED
    BY Zenon, <2>1, <2>2, CopyIsPlaced DEF InPlace, Here
<1>3. ASSUME NEW x \in Copies(c), NEW y \in Copies(c) PROVE x = y
  <2>1. /\ InQueue(c, x) => c \in ToSet(queue)
        /\ InQueue(c, y) => c \in ToSet(queue)
        /\ InQueue(c, x) /\ InQueue(c, y) => x = y
    BY <1>1 DEF InQueue, Apart, Once, ToSet
  <2>2. ASSUME NEW p \in Polls
        PROVE  /\ InSlot(c, x, p) => c \in ToSet(slot[p].commands)
               /\ InSlot(c, y, p) => c \in ToSet(slot[p].commands)
               /\ InSlot(c, x, p) /\ InSlot(c, y, p) => x = y
    BY <1>1 DEF InSlot, Apart, Once, ToSet
  <2>3. ASSUME NEW p \in Polls
        PROVE  /\ InBatch(c, x, p) => c \in ToSet(batch[p])
               /\ InBatch(c, y, p) => c \in ToSet(batch[p])
               /\ InBatch(c, x, p) /\ InBatch(c, y, p) => x = y
    BY <1>1 DEF InBatch, Apart, Once, ToSet
  <2>4. /\ InQueue(c, x) \/ \E p \in Polls : InSlot(c, x, p) \/ InBatch(c, x, p)
        /\ InQueue(c, y) \/ \E p \in Polls : InSlot(c, y, p) \/ InBatch(c, y, p)
    BY <1>3, CopyIsPlaced
  <2> QED
    BY <1>1, <2>1, <2>2, <2>3, <2>4 DEF Apart
<1>4. Cardinality(Copies(c)) <= 1
  <2> DEFINE C == Copies(c)
  <2>1. \A x, y \in C : x = y
    BY <1>3
  <2> HIDE DEF C
  <2>2. C = {} \/ \E x : C = {x}
    BY <2>1
  <2>3. Cardinality(C) = 0 \/ Cardinality(C) = 1
    BY <2>2, FS_EmptySet, FS_Singleton
  <2> QED
    BY <2>3 DEF C
<1> QED
  BY <1>2, <1>4

\* Queue, waiters, slots and channels keep their types, and a slot holds
\* commands only once a batch was parked in it (PollWaiter).
THEOREM RelayTyping == Spec => []TypeOK
<1>1. IInv => TypeOK
  BY DEF IInv, Typed
<1> QED
  BY <1>1, RelayInvariant, PTL

\* No command is carried by two polls, and none the mod has had is handed out
\* again (release_pollers_locked, PollGuard::drop), for any polls and hang-ups.
THEOREM RelayHandedOverOnce == Spec => []HandedOverOnce
<1>1. IInv => HandedOverOnce
  BY CopiesOfPlaced DEF IInv, OnceOnly, HandedOverOnce
<1> QED
  BY <1>1, RelayInvariant, PTL

\* A dropped poll never swallows the command of a call that waits
\* (PollGuard::drop).
THEOREM RelayNothingSwallowed == Spec => []NothingSwallowed
<1>1. ASSUME IInv PROVE NothingSwallowed
  <2>1. inflight \subseteq Calls
    BY <1>1 DEF IInv, Typed, TypeOK
  <2> QED
    BY <1>1, <2>1, CopiesOfPlaced DEF IInv, Kept, NothingSwallowed
<1> QED
  BY <1>1, RelayInvariant, PTL

\* Work is never left queued beside a parked poll (release_pollers_locked).
THEOREM RelayNoPollSleeps == Spec => []NoPollSleepsOnWork
<1>1. IInv => NoPollSleepsOnWork
  BY DEF IInv
<1> QED
  BY <1>1, RelayInvariant, PTL

\* A waiting call is in flight or answered, and a settled one is in flight no
\* more (complete_command, release_launch, PendingCall's abandonment).
THEOREM RelayWaitingIsInflight == Spec => []WaitingIsInflight
<1>1. IInv => WaitingIsInflight
  BY DEF IInv
<1> QED
  BY <1>1, RelayInvariant, PTL
-----------------------------------------------------------------------------
(* The refinement. Places and Replies are the mapping of Commands.         *)

Places  == [c \in Calls |-> PlaceOf(c)]
Replies == [c \in Calls |-> ToldOf(c)]
view    == <<Places, Replies, release = "none">>

PlacesRead ==
  \A c \in Calls :
    /\ InPlace(c) => PlaceOf(c) = "relay" /\ mod[c] = "unseen" /\ callAt[c] \notin Unqueued
    /\ ~InPlace(c) =>
         /\ mod[c] \in {"held", "posting"} => PlaceOf(c) = "mod"
         /\ mod[c] = "lost" => PlaceOf(c) = "lost"
         /\ mod[c] \in {"done", "unposted"} => PlaceOf(c) = "over"
         /\ mod[c] = "unseen" /\ callAt[c] \in Unqueued => PlaceOf(c) = "unsent"
         /\ mod[c] = "unseen" /\ callAt[c] \notin Unqueued => PlaceOf(c) = "over"

LEMMA PlacesAreRead == IInv => PlacesRead
<1> SUFFICES ASSUME IInv, NEW c \in Calls
             PROVE  PlacesRead!(c)
  BY DEF PlacesRead
<1>1. Copies(c) = {} <=> ~InPlace(c)
  BY CopiesOfPlaced
<1>2. InPlace(c) => mod[c] = "unseen" /\ callAt[c] \notin Unqueued
  BY DEF IInv, OnceOnly, Fresh
<1> QED
  BY <1>1, <1>2 DEF PlaceOf, Unqueued

\* Where a command is depends on these three only.
LEMMA SamePlace ==
  ASSUME PlacesRead, PlacesRead', NEW c \in Calls,
         InPlace(c)' <=> InPlace(c), mod'[c] = mod[c], IInv,
         callAt'[c] \in Unqueued <=> callAt[c] \in Unqueued
  PROVE  PlaceOf(c)' = PlaceOf(c)
<1>1. mod[c] \in {"unseen", "held", "posting", "done", "unposted", "lost"}
  BY DEF IInv, Typed, TypeOK
<1> QED
  BY <1>1 DEF PlacesRead

LEMMA SameReply ==
  ASSUME NEW c \in Calls, callAt'[c] = callAt[c], channel'[c] = channel[c]
  PROVE  ToldOf(c)' = ToldOf(c)
BY DEF ToldOf

\* A step of which the mod and the callers see nothing.
LEMMA Hidden ==
  ASSUME IInv, PlacesRead, PlacesRead',
         \A c \in Calls : InPlace(c)' <=> InPlace(c),
         UNCHANGED <<release, callAt, channel, mod>>
  PROVE  UNCHANGED view
<1>1. \A c \in Calls : PlaceOf(c)' = PlaceOf(c) /\ ToldOf(c)' = ToldOf(c)
  BY SamePlace, SameReply
<1> QED
  BY <1>1 DEF view, Places, Replies

LEMMA CallMaps ==
  ASSUME IInv, IInv', PlacesRead, PlacesRead', NEW c \in Calls,
         CallTool(c) \/ QueueFull(c) \/ Answered(c) \/ GiveUp(c)
  PROVE  Commands!Refuse(c) \/ UNCHANGED view
<1> USE DEF CallGoes
<1>1. UNCHANGED <<release, queue, waiters, inflight, slot, channel, pollAt,
                  batch, mod, hangs>>
  BY DEF CallTool, QueueFull, Answered, GiveUp
<1>2. \A d \in Calls : InPlace(d)' <=> InPlace(d)
  BY CallStep
<1>3. callAt \in [Calls -> CallSteps] /\ callAt' \in [Calls -> CallSteps]
  BY DEF IInv, Typed, TypeOK
<1>4. \A d \in Calls \ {c} : callAt'[d] = callAt[d]
  BY <1>3 DEF CallTool, QueueFull, Answered, GiveUp
<1>5. callAt'[c] \in Unqueued <=> callAt[c] \in Unqueued
  BY <1>3 DEF CallTool, QueueFull, Answered, GiveUp, Unqueued
<1>6. Places' = Places
  <2>1. \A d \in Calls : PlaceOf(d)' = PlaceOf(d)
    BY <1>1, <1>2, <1>4, <1>5, SamePlace
  <2> QED
    BY <2>1 DEF Places
<1>7. \A d \in Calls \ {c} : ToldOf(d)' = ToldOf(d)
  BY <1>1, <1>4, SameReply
<1>8. CASE callAt'[c] = "refused"
  <2>1. ToldOf(c) = "nothing" /\ ToldOf(c)' = "refused"
    BY <1>3, <1>8 DEF CallTool, QueueFull, Answered, GiveUp, ToldOf
  <2>2. Replies[c] = "nothing" /\ Replies' = [Replies EXCEPT ![c] = "refused"]
    BY <1>7, <2>1 DEF Replies
  <2> QED
    BY <1>1, <1>6, <2>2 DEF Commands!Refuse, Commands!Tell, Places, Replies
<1>9. CASE callAt'[c] # "refused"
  <2>1. ToldOf(c)' = ToldOf(c)
    <3>1. channel[c] \in {"nothing", "result", "gone"}
      BY DEF IInv, Typed, TypeOK
    <3>2. CASE CallTool(c)
      BY <1>3, <1>9, <3>2 DEF CallTool, ToldOf
    <3>3. CASE Answered(c)
      BY <1>3, <3>1, <3>3 DEF Answered, ToldOf
    <3>4. CASE GiveUp(c)
      BY <1>1, <1>3, <3>4 DEF GiveUp, ToldOf
    <3>5. ~QueueFull(c)
      BY <1>3, <1>9 DEF QueueFull
    <3> QED
      BY <3>2, <3>3, <3>4, <3>5
  <2>2. Replies' = Replies
    BY <1>7, <2>1 DEF Replies
  <2> QED
    BY <1>1, <1>6, <2>2 DEF view
<1> QED
  BY <1>8, <1>9

LEMMA EnqueueMaps ==
  ASSUME IInv, IInv', PlacesRead, PlacesRead', NEW c \in Calls, Enqueue(c)
  PROVE  Commands!Submit(c)
<1>1. /\ callAt[c] = "admitted" /\ callAt' = [callAt EXCEPT ![c] = "waiting"]
      /\ UNCHANGED <<release, channel, mod>>
  BY DEF Enqueue, CallGoes
<1>2. /\ callAt'[c] = "waiting" /\ \A d \in Calls \ {c} : callAt'[d] = callAt[d]
  BY <1>1 DEF IInv, Typed, TypeOK
<1>3. mod[c] = "unseen" /\ channel[c] = "nothing" /\ ~InPlace(c)
  BY <1>1 DEF IInv, Fresh, Unqueued
<1>4. \A d \in Calls : InPlace(d)' <=> InPlace(d) \/ d = c
  BY EnqueueStep
<1>5. PlaceOf(c) = "unsent" /\ PlaceOf(c)' = "relay"
  BY <1>1, <1>3, <1>4 DEF PlacesRead, Unqueued
<1>6. \A d \in Calls \ {c} : PlaceOf(d)' = PlaceOf(d)
  BY <1>1, <1>2, <1>4, SamePlace
<1>7. ToldOf(c) = "nothing" /\ ToldOf(c)' = "open"
  BY <1>1, <1>2, <1>3 DEF ToldOf
<1>8. \A d \in Calls \ {c} : ToldOf(d)' = ToldOf(d)
  BY <1>1, <1>2, SameReply
<1>9. Places[c] = "unsent" /\ Places' = [Places EXCEPT ![c] = "relay"]
  BY <1>5, <1>6 DEF Places
<1>10. Replies[c] = "nothing" /\ Replies' = [Replies EXCEPT ![c] = "open"]
  BY <1>7, <1>8 DEF Replies
<1> QED
  BY <1>1, <1>9, <1>10 DEF Commands!Submit, Commands!Tell, Places, Replies

\* The command goes with its caller if it is still queued; one in a slot or a
\* batch stays under way.
LEMMA AbandonMaps ==
  ASSUME IInv, IInv', PlacesRead, PlacesRead', NEW c \in Calls, Abandon(c)
  PROVE  Commands!TimeOut(c)
<1>1. /\ callAt[c] = "giving up" /\ callAt' = [callAt EXCEPT ![c] = "timed out"]
      /\ UNCHANGED <<release, channel, mod>>
  BY DEF Abandon, CallGoes
<1>2. /\ callAt'[c] = "timed out" /\ \A d \in Calls \ {c} : callAt'[d] = callAt[d]
  BY <1>1 DEF IInv, Typed, TypeOK
<1>3. \A d \in Calls : /\ InPlace(d)' => InPlace(d)
                       /\ InPlace(d) /\ d # c => InPlace(d)'
  BY AbandonStep
<1>4. \A d \in Calls \ {c} : PlaceOf(d)' = PlaceOf(d)
  BY <1>1, <1>2, <1>3, SamePlace
<1>5. ToldOf(c) = "open" /\ ToldOf(c)' = "timed out"
  BY <1>1, <1>2 DEF ToldOf
<1>6. \A d \in Calls \ {c} : ToldOf(d)' = ToldOf(d)
  BY <1>1, <1>2, SameReply
<1>7. Replies[c] = "open" /\ Replies' = [Replies EXCEPT ![c] = "timed out"]
  BY <1>5, <1>6 DEF Replies
<1>8. CASE InPlace(c) /\ ~InPlace(c)'
  <2>1. PlaceOf(c) = "relay" /\ PlaceOf(c)' = "over"
    BY <1>1, <1>2, <1>8 DEF PlacesRead, Unqueued
  <2>2. Places[c] = "relay" /\ Places' = [Places EXCEPT ![c] = "over"]
    BY <1>4, <2>1 DEF Places
  <2> QED
    BY <1>1, <1>7, <2>2 DEF Commands!TimeOut, Commands!Tell, Places, Replies
<1>9. CASE InPlace(c)' <=> InPlace(c)
  <2>1. PlaceOf(c)' = PlaceOf(c)
    BY <1>1, <1>2, <1>9, SamePlace DEF Unqueued
  <2>2. Places' = Places
    BY <1>4, <2>1 DEF Places
  <2> QED
    BY <1>1, <1>7, <2>2 DEF Commands!TimeOut, Commands!Tell, Places, Replies
<1> QED
  BY <1>3, <1>8, <1>9

LEMMA PollMaps ==
  ASSUME IInv, IInv', PlacesRead, PlacesRead', NEW p \in Polls,
         PollStarts(p) \/ PollEnters(p) \/ PollTakes(p) \/ PollLeaves(p) \/ PollDropped(p)
  PROVE  UNCHANGED view
<1>1. UNCHANGED <<release, callAt, channel, mod>>
  BY DEF PollStarts, PollEnters, PollTakes, PollLeaves, PollDropped
<1>2. \A c \in Calls : InPlace(c)' <=> InPlace(c)
  BY PollStartsStep, PollEntersStep, PollTakesStep, PollLeavesStep
<1> QED
  BY <1>1, <1>2, Hidden

\* The batch reaches the mod, or is lost with its connection.
LEMMA ReplyMaps ==
  ASSUME IInv, IInv', PlacesRead, PlacesRead', NEW p \in Polls,
         NEW fate \in {"held", "lost"}, PollReplies(p, fate)
  PROVE  \E cs \in SUBSET Calls, to \in {"mod", "lost"} : Commands!Collect(cs, to)
<1> DEFINE cs == ToSet(batch[p])
           to == IF fate = "held" THEN "mod" ELSE "lost"
<1>1. /\ mod' = [c \in Calls |-> IF c \in cs THEN fate ELSE mod[c]]
      /\ UNCHANGED <<release, callAt, channel>>
  BY DEF PollReplies
<1>2. cs \in SUBSET Calls
  <2>1. batch[p] \in Seq(Calls)
    BY DEF IInv, Typed, TypeOK
  <2> QED
    BY <2>1 DEF ToSet
<1>3. \A c \in Calls : /\ InPlace(c)' <=> InPlace(c) /\ c \notin cs
                       /\ c \in cs => InPlace(c)
  BY PollRepliesStep
<1> HIDE DEF cs
<1>4. \A c \in cs : PlaceOf(c) = "relay" /\ PlaceOf(c)' = to
  BY <1>1, <1>2, <1>3 DEF PlacesRead
<1>5. \A c \in Calls \ cs : PlaceOf(c)' = PlaceOf(c)
  BY <1>1, <1>3, SamePlace
<1>6. \A c \in Calls : ToldOf(c)' = ToldOf(c)
  BY <1>1, SameReply
<1> HIDE DEF to
<1>7. /\ \A c \in cs : Places[c] = "relay"
      /\ Places' = [c \in Calls |-> IF c \in cs THEN to ELSE Places[c]]
  BY <1>2, <1>4, <1>5 DEF Places
<1>8. Replies' = Replies
  BY <1>6 DEF Replies
<1>9. Commands!Collect(cs, to)
  BY <1>1, <1>7, <1>8 DEF Commands!Collect, Places, Replies
<1>10. to \in {"mod", "lost"}
  BY DEF to
<1> QED
  BY <1>2, <1>9, <1>10

LEMMA PostMaps ==
  ASSUME IInv, IInv', PlacesRead, PlacesRead', NEW c \in Calls,
         ModPosts(c) \/ PostLost(c)
  PROVE  Commands!Finish(c) \/ UNCHANGED view
<1>1. mod[c] = "held" /\ UNCHANGED <<release, callAt, channel>>
  BY DEF ModPosts, PostLost
<1>2. /\ mod'[c] \in {"posting", "done", "unposted"}
      /\ \A d \in Calls \ {c} : mod'[d] = mod[d]
  BY DEF ModPosts, PostLost, IInv, Typed, TypeOK
<1>3. \A d \in Calls : InPlace(d)' <=> InPlace(d)
  BY ModStep
<1>4. ~InPlace(c)
  BY <1>1 DEF IInv, OnceOnly
<1>5. \A d \in Calls \ {c} : PlaceOf(d)' = PlaceOf(d)
  BY <1>1, <1>2, <1>3, SamePlace
<1>6. Replies' = Replies
  <2>1. \A d \in Calls : ToldOf(d)' = ToldOf(d)
    BY <1>1, SameReply
  <2> QED
    BY <2>1 DEF Replies
<1>7. PlaceOf(c) = "mod" /\ PlaceOf(c)' = IF mod'[c] = "posting" THEN "mod" ELSE "over"
  BY <1>1, <1>2, <1>3, <1>4 DEF PlacesRead
<1>8. CASE mod'[c] # "posting"
  <2>1. Places[c] = "mod" /\ Places' = [Places EXCEPT ![c] = "over"]
    BY <1>5, <1>7, <1>8 DEF Places
  <2> QED
    BY <1>1, <1>6, <2>1 DEF Commands!Finish, Places, Replies
<1>9. CASE mod'[c] = "posting"
  <2>1. Places' = Places
    BY <1>5, <1>7, <1>9 DEF Places
  <2> QED
    BY <1>1, <1>6, <2>1 DEF view
<1> QED
  BY <1>2, <1>8, <1>9

\* The result is told to a caller that still waits for it, to nobody else.
LEMMA CompleteMaps ==
  ASSUME IInv, IInv', PlacesRead, PlacesRead', NEW c \in Calls, Complete(c)
  PROVE  Commands!Finish(c)
<1>1. /\ mod[c] = "posting" /\ mod' = [mod EXCEPT ![c] = "done"]
      /\ channel' = IF c \in inflight THEN [channel EXCEPT ![c] = "result"] ELSE channel
      /\ UNCHANGED <<release, callAt>>
  BY DEF Complete
<1>2. /\ mod'[c] = "done" /\ \A d \in Calls \ {c} : mod'[d] = mod[d]
      /\ \A d \in Calls \ {c} : channel'[d] = channel[d]
      /\ c \in inflight => channel'[c] = "result"
      /\ c \notin inflight => channel'[c] = channel[c]
  BY <1>1 DEF IInv, Typed, TypeOK
<1>3. \A d \in Calls : InPlace(d)' <=> InPlace(d)
  BY ModStep
<1>4. ~InPlace(c)
  BY <1>1 DEF IInv, OnceOnly
<1>5. \A d \in Calls \ {c} : PlaceOf(d)' = PlaceOf(d) /\ ToldOf(d)' = ToldOf(d)
  BY <1>1, <1>2, <1>3, SamePlace, SameReply
<1>6. PlaceOf(c) = "mod" /\ PlaceOf(c)' = "over"
  BY <1>1, <1>2, <1>3, <1>4 DEF PlacesRead
<1>7. Places[c] = "mod" /\ Places' = [Places EXCEPT ![c] = "over"]
  BY <1>5, <1>6 DEF Places
<1>8. CASE c \in inflight /\ callAt[c] = "waiting"
  <2>1. ToldOf(c) = "open" /\ ToldOf(c)' = "result"
    BY <1>1, <1>2, <1>8 DEF IInv, WaitingIsInflight, ToldOf
  <2>2. Replies[c] = "open" /\ Replies' = [Replies EXCEPT ![c] = "result"]
    BY <1>5, <2>1 DEF Replies
  <2> QED
    BY <1>1, <1>7, <2>2 DEF Commands!Finish, Commands!Tell, Places, Replies
<1>9. CASE c \notin inflight \/ callAt[c] # "waiting"
  <2>1. ToldOf(c)' = ToldOf(c)
    BY <1>1, <1>2, <1>9 DEF IInv, WaitingIsInflight, ToldOf
  <2>2. Replies' = Replies
    BY <1>5, <2>1 DEF Replies
  <2> QED
    BY <1>1, <1>7, <2>2 DEF Commands!Finish, Places, Replies
<1> QED
  BY <1>8, <1>9

\* The release tells every call that waits, and drops what is still queued.
LEMMA DrainMaps ==
  ASSUME IInv, IInv', PlacesRead, PlacesRead', ReleaseDrains
  PROVE  \E cs, ds \in SUBSET Calls : Commands!Close(cs, ds)
<1> DEFINE cs == {c \in inflight : callAt[c] = "waiting"}
           ds == {c \in Calls : InPlace(c) /\ ~InPlace(c)'}
<1>1. /\ release = "begun" /\ release' = "done"
      /\ channel' = [c \in Calls |-> IF c \in inflight THEN "gone" ELSE channel[c]]
      /\ UNCHANGED <<callAt, mod>>
  BY DEF ReleaseDrains, FailInflight
<1>2. inflight \subseteq Calls /\ cs \in SUBSET Calls /\ ds \in SUBSET Calls
  BY DEF IInv, Typed, TypeOK
<1>3. \A c \in Calls : InPlace(c)' => InPlace(c)
  BY ReleaseStep
<1>4. \A c \in inflight : callAt[c] \in {"waiting", "giving up"} /\ channel[c] = "nothing"
  BY DEF IInv, WaitingIsInflight
<1>5. \A c \in cs : ToldOf(c) = "open" /\ ToldOf(c)' = "gone"
  BY <1>1, <1>2, <1>4 DEF ToldOf
<1>6. \A c \in Calls \ cs : ToldOf(c)' = ToldOf(c)
  BY <1>1, <1>4 DEF ToldOf
<1>7. \A c \in ds : PlaceOf(c) = "relay" /\ PlaceOf(c)' = "over"
  BY <1>1 DEF PlacesRead
<1>8. \A c \in Calls \ ds : PlaceOf(c)' = PlaceOf(c)
  BY <1>1, <1>3, SamePlace
<1> HIDE DEF cs, ds
<1>9. /\ \A c \in cs : Replies[c] = "open"
      /\ Replies' = [c \in Calls |-> IF c \in cs THEN "gone" ELSE Replies[c]]
  BY <1>2, <1>5, <1>6 DEF Replies
<1>10. /\ \A c \in ds : Places[c] = "relay"
       /\ Places' = [c \in Calls |-> IF c \in ds THEN "over" ELSE Places[c]]
  BY <1>2, <1>7, <1>8 DEF Places
<1>11. Commands!Close(cs, ds)
  BY <1>1, <1>9, <1>10 DEF Commands!Close, Places, Replies
<1> QED
  BY <1>2, <1>11

LEMMA CommandsStep ==
  IInv /\ IInv' /\ PlacesRead /\ PlacesRead' /\ [Next]_vars => [Commands!Next]_view
<1> SUFFICES ASSUME IInv, IInv', PlacesRead, PlacesRead', [Next]_vars
             PROVE  Commands!Next \/ UNCHANGED view
  OBVIOUS
<1>1. ASSUME NEW c \in Calls, CallSide(c) \/ ModPosts(c) \/ PostLost(c) \/ Complete(c)
      PROVE  Commands!Next \/ UNCHANGED view
  BY <1>1, CallMaps, EnqueueMaps, AbandonMaps, PostMaps, CompleteMaps
     DEF CallSide, Commands!Next
<1>2. ASSUME NEW p \in Polls, PollSide(p)
      PROVE  Commands!Next \/ UNCHANGED view
  BY <1>2, PollMaps, ReplyMaps DEF PollSide, Commands!Next
<1>3. CASE ReleaseBegins
  <2>1. /\ release = "none" /\ release' = "begun"
        /\ UNCHANGED <<queue, slot, batch, callAt, channel, mod>>
    BY <1>3 DEF ReleaseBegins
  <2>2. \A c \in Calls : InPlace(c)' <=> InPlace(c)
    BY <2>1, StillApart
  <2>3. \A c \in Calls : PlaceOf(c)' = PlaceOf(c) /\ ToldOf(c)' = ToldOf(c)
    BY <2>1, <2>2, SamePlace, SameReply
  <2>4. Places' = Places /\ Replies' = Replies
    BY <2>3 DEF Places, Replies
  <2>5. Commands!GameEnds
    BY <2>1, <2>4 DEF Commands!GameEnds, Places, Replies
  <2> QED
    BY <2>5 DEF Commands!Next
<1>4. CASE ReleaseDrains
  BY <1>4, DrainMaps DEF Commands!Next
<1>5. CASE UNCHANGED vars
  <2>1. \A c \in Calls : InPlace(c)' <=> InPlace(c)
    BY <1>5, StillApart DEF vars
  <2> QED
    BY <1>5, <2>1, Hidden DEF vars
<1> QED
  BY <1>1, <1>2, <1>3, <1>4, <1>5 DEF Next

LEMMA CommandsInit == Init => Commands!Init
<1> SUFFICES ASSUME Init
             PROVE  Commands!Init
  OBVIOUS
<1>1. PlacesRead
  BY InitIInv, PlacesAreRead
<1>2. \A c \in Calls : mod[c] = "unseen" /\ callAt[c] = "idle" /\ callAt[c] \in Unqueued
  BY DEF Init, Unqueued
<1>3. \A c \in Calls : PlaceOf(c) = "unsent" /\ ToldOf(c) = "nothing"
  BY <1>1, <1>2 DEF PlacesRead, ToldOf
<1> QED
  BY <1>3 DEF Commands!Init, Init

\* To its callers and the mod the queue, the slots and the polls are one relay:
\* a command leaves it once, and a caller is told one thing, a result only when
\* the mod had the command (call_tool, await_commands, complete_command,
\* release_launch).
THEOREM RelayRefines == Spec => ImplementsCommands
<1>1. IInv /\ IInv' /\ PlacesRead /\ PlacesRead' /\ [Next]_vars =>
        [Commands!Next]_<<[c \in Calls |-> PlaceOf(c)], [c \in Calls |-> ToldOf(c)],
                          release = "none">>
  BY CommandsStep DEF view, Places, Replies
<1> QED
  BY <1>1, CommandsInit, PlacesAreRead, RelayInvariant, PTL
     DEF Spec, ImplementsCommands, Commands!Spec, Commands!vars
=============================================================================
