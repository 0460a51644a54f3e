----------------------------- MODULE RelayLimits -----------------------------
(***************************************************************************)
(* The limit accounting of the Ruta relay (services/ruta-relay/src/        *)
(* limits.rs), driven by the connection tasks and the maintenance task of  *)
(* server.rs: slots, per-address and per-account caps, the one-minute rate *)
(* window and the daily byte quota.                                        *)
(* Operators marked (mutant) are plausible bugs the properties are tested  *)
(* against.                                                                *)
(*                                                                         *)
(* Every method is one section under the mutex, but attach_sub and prune   *)
(* read the clock before they take it: they are two steps. With one tokio  *)
(* worker (the default) no other call comes in between; with more it may.  *)
(***************************************************************************)
EXTENDS Integers, FiniteSets

CONSTANTS
  Conns,      \* connections, each used once
  Ips, Subs,  \* source addresses and accounts
  None,
  GlobalMax, PerIp, PerSub, Rate, Quota,  \* the limits of Config
  Chunks,     \* sizes of the chunks read from a socket
  Window,     \* RATE_WINDOW_S
  DayLength,  \* 86400 in the code
  MaxTime,    \* bound on the clock
  Workers     \* tokio worker threads (Config::workers)

ASSUME LimitsAssumption ==
  /\ {GlobalMax, PerIp, PerSub, Rate, Quota, Window, DayLength, Workers} \subseteq Nat \ {0}
  /\ Chunks \subseteq Nat \ {0} /\ MaxTime \in Nat
ASSUME ConnsAssumption == IsFiniteSet(Conns)

VARIABLES
  at,      \* [Conns -> where its task is]
  ip, sub, \* [Conns -> its address, and the account its grant names]
  bound,   \* connections whose Slot has a sub
  began,   \* [Conns -> the clock its attach_sub read]
  global,  \* Inner::global
  ips,     \* Inner::ips; an address that is not in the map has 0
  subs,    \* Inner::subs, [Subs -> SubEntry or None]
  now,     \* now_unix()
  pruning, \* the clock a prune in progress read, or None
  sent     \* [Subs -> [day -> bytes charged on it]], what the quota is about

tasks  == <<at, ip, sub, bound, began>>
inner  == <<global, ips, subs>>
vars   == <<tasks, inner, now, pruning, sent>>

Times == 0 .. MaxTime
Day(t) == t \div DayLength      \* utc_day_start
Days  == {Day(t) : t \in Times}

\* starts holds a timestamp for each connection it counts: began of it.
Entries == [concurrent : Nat, day : Days, bytes : 0 .. Quota, starts : SUBSET Conns]
ASSUME NoneAssumption == None \notin Subs /\ None \notin Times /\ None \notin Entries

TypeOK ==
  /\ at \in [Conns -> {"new", "header", "stamped", "open", "failing", "closed"}]
  /\ ip \in [Conns -> Ips \cup {None}]
  /\ sub \in [Conns -> Subs \cup {None}]
  /\ bound \subseteq Conns
  /\ began \in [Conns -> Times]
  /\ global \in Nat
  /\ ips \in [Ips -> Nat]
  /\ subs \in [Subs -> Entries \cup {None}]
  /\ now \in Times
  /\ pruning \in Times \cup {None}
  /\ sent \in [Subs -> [Days -> Nat]]

Init ==
  /\ at = [c \in Conns |-> "new"]
  /\ ip = [c \in Conns |-> None] /\ sub = [c \in Conns |-> None]
  /\ bound = {}
  /\ began = [c \in Conns |-> 0]
  /\ global = 0
  /\ ips = [a \in Ips |-> 0]
  /\ subs = [s \in Subs |-> None]
  /\ now = 0 /\ pruning = None
  /\ sent = [s \in Subs |-> [d \in Days |-> 0]]

Goes(c, from, to) == at[c] = from /\ at' = [at EXCEPT ![c] = to]

\* A thread is left to run another call while some wait between their clock
\* reading and the mutex.
Stamped == {c \in Conns : at[c] = "stamped"}
ThreadFree == Cardinality(Stamped) + (IF pruning = None THEN 0 ELSE 1) < Workers

-----------------------------------------------------------------------------
(* Limits::accept, in the accept loop.                                     *)

WithinOneMore(a) == global <= GlobalMax /\ ips[a] < PerIp            \* (mutant)
Acceptable(a)    == global < GlobalMax /\ ips[a] < PerIp

Accept(c, a) ==
  /\ ThreadFree
  /\ Acceptable(a)
  /\ Goes(c, "new", "header")
  /\ ip' = [ip EXCEPT ![c] = a]
  /\ ips' = [ips EXCEPT ![a] = @ + 1]
  /\ global' = global + 1
  /\ UNCHANGED <<sub, bound, began, subs, now, pruning, sent>>

\* Busy or Limit: the connection never gets a Slot.
AcceptRejected(c, a) ==
  /\ ThreadFree
  /\ ~Acceptable(a)
  /\ Goes(c, "new", "closed")
  /\ UNCHANGED <<ip, sub, bound, began, inner, now, pruning, sent>>

-----------------------------------------------------------------------------
(* Limits::attach_sub, once the grant names the account.                   *)

AttachCalled(c, s) ==
  /\ ThreadFree
  /\ Goes(c, "header", "stamped")
  /\ sub' = [sub EXCEPT ![c] = s]
  /\ began' = [began EXCEPT ![c] = now]
  /\ UNCHANGED <<ip, bound, inner, now, pruning, sent>>

\* The entry with the starts that have left the window dropped, and with the
\* bytes of another day forgotten.
Stale(e, t)  == e                                                   \* (mutant)
Recent(e, t) == [e EXCEPT !.starts = {c \in @ : began[c] > t - Window}]
Rolled(e, t) == IF e.day = Day(t) THEN e ELSE [e EXCEPT !.day = Day(t), !.bytes = 0]

SetEntry(s, e) == subs' = [subs EXCEPT ![s] = e]

AttachAdmits(c) ==
  LET s == sub[c]  t == began[c]  e == Rolled(Recent(subs[s], t), t) IN
  /\ Goes(c, "stamped", "open")
  /\ IF subs[s] = None
       THEN SetEntry(s, [concurrent |-> 1, day |-> Day(t), bytes |-> 0, starts |-> {c}])
       ELSE /\ subs[s].concurrent < PerSub
            /\ Cardinality(e.starts) < Rate
            /\ e.bytes < Quota
            /\ SetEntry(s, [e EXCEPT !.concurrent = @ + 1, !.starts = @ \cup {c}])
  /\ bound' = bound \cup {c}
  /\ UNCHANGED <<ip, sub, began, global, ips, now, pruning, sent>>

\* The checks come one after another, each after its part of the update.
AttachRefused(c) ==
  LET s == sub[c]  t == began[c]  e == Recent(subs[s], t) IN
  /\ Goes(c, "stamped", "failing")
  /\ subs[s] # None
  /\ \/ subs[s].concurrent >= PerSub /\ UNCHANGED subs
     \/ /\ subs[s].concurrent < PerSub /\ Cardinality(e.starts) >= Rate
        /\ SetEntry(s, e)
     \/ /\ subs[s].concurrent < PerSub /\ Cardinality(e.starts) < Rate
        /\ Rolled(e, t).bytes >= Quota
        /\ SetEntry(s, Rolled(e, t))
  /\ UNCHANGED <<ip, sub, bound, began, global, ips, now, pruning, sent>>

-----------------------------------------------------------------------------
(* Slot::charge, before each chunk of either direction is forwarded.       *)

Fits(e, n) == e.bytes + n <= Quota

Charge(c, n) ==
  LET s == sub[c]  e == Rolled(subs[s], now) IN
  /\ ThreadFree
  /\ at[c] = "open" /\ subs[s] # None
  /\ Fits(e, n)
  /\ SetEntry(s, [e EXCEPT !.bytes = @ + n])
  /\ sent' = [sent EXCEPT ![s][Day(now)] = @ + n]
  /\ UNCHANGED <<tasks, global, ips, now, pruning>>

\* A refused chunk is not billed and ends the session.
ChargeRefused(c, n) ==
  LET s == sub[c]  e == Rolled(subs[s], now) IN
  /\ ThreadFree
  /\ Goes(c, "open", "failing")
  /\ IF subs[s] = None THEN UNCHANGED subs
                       ELSE ~Fits(e, n) /\ SetEntry(s, e)
  /\ UNCHANGED <<ip, sub, bound, began, global, ips, now, pruning, sent>>

-----------------------------------------------------------------------------
(* The task ends, in any way and at any await: Slot::drop.                 *)

Idle(e)     == e.concurrent = 0                                     \* (mutant)
Unbilled(e) == e.concurrent = 0 /\ e.bytes = 0                      \* (mutant)
Unused(e)   == e.concurrent = 0 /\ e.bytes = 0 /\ e.starts = {}

Less(n) == IF n = 0 THEN 0 ELSE n - 1      \* saturating_sub(1)

LeaveAccount(s) ==
  LET e == [subs[s] EXCEPT !.concurrent = Less(@)] IN
    SetEntry(s, IF Unused(e) THEN None ELSE e)

ReturnAddressOnly(c) == UNCHANGED subs                              \* (mutant)
ReturnAccount(c) ==
  IF c \in bound /\ subs[sub[c]] # None THEN LeaveAccount(sub[c]) ELSE UNCHANGED subs

Dropped(c) ==
  /\ ThreadFree
  /\ at[c] \in {"header", "open", "failing"}
  /\ at' = [at EXCEPT ![c] = "closed"]
  /\ global' = Less(global)
  /\ ips' = [ips EXCEPT ![ip[c]] = Less(@)]
  /\ ReturnAccount(c)
  /\ UNCHANGED <<ip, sub, bound, began, now, pruning, sent>>

-----------------------------------------------------------------------------
(* Limits::prune, the maintenance task.                                    *)

PruneReads ==
  /\ ThreadFree
  /\ pruning = None
  /\ pruning' = now
  /\ UNCHANGED <<tasks, inner, now, sent>>

Pruned(e, t) == LET p == Recent(Rolled(e, t), t) IN IF Unused(p) THEN None ELSE p

PruneSweeps ==
  /\ pruning # None
  /\ subs' = [s \in Subs |-> IF subs[s] = None THEN None ELSE Pruned(subs[s], pruning)]
  /\ pruning' = None
  /\ UNCHANGED <<tasks, global, ips, now, sent>>

Tick ==
  /\ now < MaxTime
  /\ now' = now + 1
  /\ UNCHANGED <<tasks, inner, pruning, sent>>

-----------------------------------------------------------------------------
Connection(c) ==
  \/ \E a \in Ips : Accept(c, a) \/ AcceptRejected(c, a)
  \/ \E s \in Subs : AttachCalled(c, s)
  \/ AttachAdmits(c) \/ AttachRefused(c)
  \/ \E n \in Chunks : Charge(c, n) \/ ChargeRefused(c, n)
  \/ Dropped(c)

Next ==
  \/ \E c \in Conns : Connection(c)
  \/ PruneReads \/ PruneSweeps
  \/ Tick

Spec == Init /\ [][Next]_vars

-----------------------------------------------------------------------------
(* Properties.                                                             *)

Held == {c \in Conns : at[c] \in {"header", "stamped", "open", "failing"}}
From(a) == {c \in Held : ip[c] = a}
Attached(s) == {c \in Held \cap bound : sub[c] = s}

\* The counters never drift from the slots that exist: whatever order slots
\* are taken, bound, refused and dropped in, nothing is lost or returned twice,
\* and a bound slot's account keeps its entry for charge (accept, attach_sub,
\* Slot::drop, prune).
SlotsCounted ==
  /\ global = Cardinality(Held)
  /\ \A a \in Ips : ips[a] = Cardinality(From(a))
  /\ \A s \in Subs :
       IF subs[s] = None THEN Attached(s) = {}
                         ELSE subs[s].concurrent = Cardinality(Attached(s))

\* The connections themselves, not the counters, stay within the caps.
CapsHeld ==
  /\ Cardinality(Held) <= GlobalMax
  /\ \A a \in Ips : Cardinality(From(a)) <= PerIp
  /\ \A s \in Subs : Cardinality(Attached(s)) <= PerSub

Starts(s, t) == {c \in bound : sub[c] = s /\ t - Window < began[c] /\ began[c] <= t}

\* No minute holds more than Rate admissions of an account: closing and
\* reopening, a drop or a prune in between does not refill the window.
RateHeld == \A s \in Subs, t \in Times : Cardinality(Starts(s, t)) <= Rate

\* An account is never charged more than its quota in one UTC day, over all its
\* connections and across midnight, prunes and reconnections.
DailyBudget == \A s \in Subs, d \in Days : sent[s][d] <= Quota

\* An account is refused only when it is at a limit: no drift, stale window or
\* refused chunk blocks one that is within them all.
RefusedOnlyAtLimit ==
  [][\A c \in Conns : LET s == sub[c] IN
       at[c] = "stamped" /\ at'[c] = "failing" =>
         \/ Cardinality(Attached(s)) >= PerSub
         \/ Cardinality(Starts(s, began[c])) >= Rate
         \/ sent[s][Day(began[c])] >= Quota]_vars
=============================================================================
