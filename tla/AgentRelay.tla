----------------------------- MODULE AgentRelay -----------------------------
(***************************************************************************)
(* The command relay of one agent launch (native/engine/src/agent.rs): an  *)
(* agent's call_tool queues a command, the game's mod collects it with a   *)
(* long poll (await_commands) and posts the result (complete_command),     *)
(* while timeouts, hang-ups and the launch's release race all three.       *)
(*                                                                         *)
(* queue, waiters and inflight are guarded by the entry's mutex, a         *)
(* waiter's slot and a call's oneshot channel are not: an action is one    *)
(* locked section, or one step between two of them.                        *)
(***************************************************************************)
EXTENDS Integers, FiniteSets, SequencesExt

CONSTANTS
  Calls,     \* the calls agents make, each with the command it queues
  Polls,     \* the mod's poll requests, each reusable
  MaxQueue,  \* MAX_QUEUE (100 in the code)
  MaxHangs   \* bound on the polls whose connection is lost

ASSUME RelayAssumption == MaxQueue \in Nat \ {0} /\ MaxHangs \in Nat

VARIABLES
  release,   \* how far release_launch has got; "none": is_running
  queue,     \* LaunchInner::queue
  waiters,   \* LaunchInner::waiters, oldest first
  inflight,  \* keys of LaunchInner::inflight
  slot,      \* [Polls -> the batch parked in its PollWaiter, or Empty]
  callAt,    \* [Calls -> where call_tool / PendingCall::wait is]
  channel,   \* [Calls -> what its oneshot channel holds]
  pollAt,    \* [Polls -> where await_commands is]
  batch,     \* [Polls -> the commands it is about to answer with]
  mod,       \* [Calls -> what the mod has done with the command]
  hangs      \* polls lost so far

vars == <<release, queue, waiters, inflight, slot, callAt, channel, pollAt,
          batch, mod, hangs>>

\* A waiter's slot is None until a batch, empty at a release, is parked in it.
Empty == [full |-> FALSE, commands |-> <<>>]
Parcel(s) == [full |-> TRUE, commands |-> s]

CallSteps == {"idle", "admitted", "waiting", "giving up",
              "answered", "gone", "timed out", "refused"}
Settled == {"answered", "gone", "timed out", "refused"}

TypeOK ==
  /\ release \in {"none", "begun", "done"}
  /\ queue \in Seq(Calls)
  /\ waiters \in Seq(Polls)
  /\ inflight \subseteq Calls
  /\ slot \in [Polls -> [full : BOOLEAN, commands : Seq(Calls)]]
  /\ \A p \in Polls : ~slot[p].full => slot[p] = Empty
  /\ callAt \in [Calls -> CallSteps]
  /\ channel \in [Calls -> {"nothing", "result", "gone"}]
  /\ pollAt \in [Polls -> {"idle", "entering", "parked", "leaving", "replying"}]
  /\ batch \in [Polls -> Seq(Calls)]
  /\ mod \in [Calls -> {"unseen", "held", "posting", "done", "unposted", "lost"}]
  /\ hangs \in 0 .. MaxHangs

Init ==
  /\ release = "none"
  /\ queue = <<>> /\ waiters = <<>> /\ inflight = {}
  /\ slot = [p \in Polls |-> Empty]
  /\ callAt = [c \in Calls |-> "idle"]
  /\ channel = [c \in Calls |-> "nothing"]
  /\ pollAt = [p \in Polls |-> "idle"]
  /\ batch = [p \in Polls |-> <<>>]
  /\ mod = [c \in Calls |-> "unseen"]
  /\ hangs = 0

CallGoes(c, from, to) == callAt[c] = from /\ callAt' = [callAt EXCEPT ![c] = to]
PollGoes(p, from, to) == pollAt[p] = from /\ pollAt' = [pollAt EXCEPT ![p] = to]

-----------------------------------------------------------------------------
(* release_pollers_locked: the oldest waiter that holds no batch gets the  *)
(* whole queue; the full ones before it leave the list empty-handed. With  *)
(* no waiter the queue stays put. The result is assigned to all three.     *)

Takers(ws, sl) == {i \in DOMAIN ws : ~sl[ws[i]].full}

HandOver(q, ws, sl) ==
  IF q = <<>> \/ ws = <<>> THEN [queue |-> q, waiters |-> ws, slot |-> sl]
  ELSE IF Takers(ws, sl) = {} THEN [queue |-> q, waiters |-> <<>>, slot |-> sl]
  ELSE LET i == CHOOSE i \in Takers(ws, sl) : \A j \in Takers(ws, sl) : i <= j
       IN [queue |-> <<>>, waiters |-> SubSeq(ws, i + 1, Len(ws)),
           slot |-> [sl EXCEPT ![ws[i]] = Parcel(q)]]

Queued(q, ws, sl) ==                                               \* (mutant)
  /\ queue' = q /\ waiters' = ws /\ slot' = sl
Replayed(q, ws, sl) ==                                             \* (mutant)
  LET after == HandOver(q, ws, sl) IN
    /\ queue' = q /\ waiters' = after.waiters /\ slot' = after.slot
ReleasePollers(q, ws, sl) ==
  LET after == HandOver(q, ws, sl) IN
    /\ queue' = after.queue /\ waiters' = after.waiters /\ slot' = after.slot

-----------------------------------------------------------------------------
(* call_tool and PendingCall.                                              *)

\* get_launch and is_running, before the entry's lock is taken.
CallTool(c) ==
  /\ IF release = "none" THEN CallGoes(c, "idle", "admitted")
                         ELSE CallGoes(c, "idle", "refused")
  /\ UNCHANGED <<release, queue, waiters, inflight, slot, channel, pollAt,
                 batch, mod, hangs>>

Enqueue(c) ==
  /\ Len(queue) < MaxQueue
  /\ CallGoes(c, "admitted", "waiting")
  /\ inflight' = inflight \cup {c}
  /\ ReleasePollers(Append(queue, c), waiters, slot)
  /\ UNCHANGED <<release, channel, pollAt, batch, mod, hangs>>

QueueFull(c) ==
  /\ Len(queue) >= MaxQueue
  /\ CallGoes(c, "admitted", "refused")
  /\ UNCHANGED <<release, queue, waiters, inflight, slot, channel, pollAt,
                 batch, mod, hangs>>

Answered(c) ==
  /\ channel[c] # "nothing"
  /\ IF channel[c] = "result" THEN CallGoes(c, "waiting", "answered")
                              ELSE CallGoes(c, "waiting", "gone")
  /\ UNCHANGED <<release, queue, waiters, inflight, slot, channel, pollAt,
                 batch, mod, hangs>>

\* The deadline passes, or the agent hangs up: only then is the lock taken to
\* abandon the command, and a result may come in between.
GiveUp(c) ==
  /\ channel[c] = "nothing"
  /\ CallGoes(c, "waiting", "giving up")
  /\ UNCHANGED <<release, queue, waiters, inflight, slot, channel, pollAt,
                 batch, mod, hangs>>

\* position and remove: the command, if no poll has taken it yet.
Abandon(c) ==
  /\ CallGoes(c, "giving up", "timed out")
  /\ inflight' = inflight \ {c}
  /\ queue' = RemoveFirst(queue, c)
  /\ UNCHANGED <<release, waiters, slot, channel, pollAt, batch, mod, hangs>>

-----------------------------------------------------------------------------
(* await_commands and PollGuard.                                           *)

PollStarts(p) ==
  /\ release = "none"
  /\ PollGoes(p, "idle", "entering")
  /\ UNCHANGED <<release, queue, waiters, inflight, slot, callAt, channel,
                 batch, mod, hangs>>

PollEnters(p) ==
  /\ IF queue # <<>>
       THEN /\ PollGoes(p, "entering", "replying")
            /\ batch' = [batch EXCEPT ![p] = queue]
            /\ queue' = <<>>
            /\ UNCHANGED waiters
       ELSE /\ PollGoes(p, "entering", "parked")
            /\ waiters' = Append(waiters, p)
            /\ UNCHANGED <<queue, batch>>
  /\ UNCHANGED <<release, inflight, slot, callAt, channel, mod, hangs>>

\* Woken by a delivery or by the 25 s poll timeout: take() without the lock.
PollTakes(p) ==
  /\ PollGoes(p, "parked", "leaving")
  /\ batch' = [batch EXCEPT ![p] = slot[p].commands]
  /\ slot' = [slot EXCEPT ![p] = Empty]
  /\ UNCHANGED <<release, queue, waiters, inflight, callAt, channel, mod, hangs>>

\* PollGuard::drop: the poll leaves the waiters; a batch still in its slot
\* goes back to the head of the queue and is handed to the next poll.
Swallowed(p) == <<>>                                               \* (mutant)
Leftovers(p) == slot[p].commands

DropGuard(p) ==
  IF Leftovers(p) = <<>>
    THEN /\ waiters' = RemoveFirst(waiters, p)
         /\ slot' = [slot EXCEPT ![p] = Empty]
         /\ UNCHANGED queue
    ELSE ReleasePollers(Leftovers(p) \o queue, RemoveFirst(waiters, p),
                        [slot EXCEPT ![p] = Empty])

PollLeaves(p) ==
  /\ PollGoes(p, "leaving", "replying")
  /\ DropGuard(p)
  /\ UNCHANGED <<release, inflight, callAt, channel, batch, mod, hangs>>

\* The mod hangs up on a parked poll.
PollDropped(p) ==
  /\ hangs < MaxHangs
  /\ hangs' = hangs + 1
  /\ PollGoes(p, "parked", "idle")
  /\ DropGuard(p)
  /\ UNCHANGED <<release, inflight, callAt, channel, batch, mod>>

\* The response reaches the mod, or its connection is lost with the batch.
PollReplies(p, fate) ==
  /\ PollGoes(p, "replying", "idle")
  /\ fate = "lost" => hangs < MaxHangs
  /\ hangs' = IF fate = "lost" THEN hangs + 1 ELSE hangs
  /\ mod' = [c \in Calls |-> IF c \in ToSet(batch[p]) THEN fate ELSE mod[c]]
  /\ batch' = [batch EXCEPT ![p] = <<>>]
  /\ UNCHANGED <<release, queue, waiters, inflight, slot, callAt, channel>>

-----------------------------------------------------------------------------
(* The mod's result: admitted while the launch runs (launch_for_bridge),   *)
(* then completed under the lock, unless its post never arrives.           *)

ModPosts(c) ==
  /\ mod[c] = "held"
  /\ mod' = [mod EXCEPT ![c] = IF release = "none" THEN "posting" ELSE "done"]
  /\ UNCHANGED <<release, queue, waiters, inflight, slot, callAt, channel,
                 pollAt, batch, hangs>>

\* Posting is best effort: a timeout, a lost connection or an interrupt ends it
\* with a log line, and nothing is sent again (postResult, handleCommand).
PostLost(c) ==
  /\ mod[c] = "held"
  /\ mod' = [mod EXCEPT ![c] = "unposted"]
  /\ UNCHANGED <<release, queue, waiters, inflight, slot, callAt, channel,
                 pollAt, batch, hangs>>

Complete(c) ==
  /\ mod[c] = "posting"
  /\ mod' = [mod EXCEPT ![c] = "done"]
  /\ channel' = IF c \in inflight THEN [channel EXCEPT ![c] = "result"] ELSE channel
  /\ inflight' = inflight \ {c}
  /\ UNCHANGED <<release, queue, waiters, slot, callAt, pollAt, batch, hangs>>

-----------------------------------------------------------------------------
(* release_launch: the entry leaves the registry and stops running, then   *)
(* everything pending is settled under its lock.                           *)

ReleaseBegins ==
  /\ release = "none"
  /\ release' = "begun"
  /\ UNCHANGED <<queue, waiters, inflight, slot, callAt, channel, pollAt,
                 batch, mod, hangs>>

FailTimedOut ==                                                    \* (mutant)
  channel' = [c \in Calls |-> IF c \in inflight THEN "timed out" ELSE channel[c]]
FailNothing  == UNCHANGED channel                                  \* (mutant)
FailInflight == channel' = [c \in Calls |-> IF c \in inflight THEN "gone" ELSE channel[c]]

ReleaseDrains ==
  /\ release = "begun"
  /\ release' = "done"
  /\ FailInflight
  /\ inflight' = {}
  /\ queue' = <<>>
  /\ waiters' = <<>>
  /\ slot' = [p \in Polls |-> IF p \in ToSet(waiters) /\ ~slot[p].full
                                THEN Parcel(<<>>) ELSE slot[p]]
  /\ UNCHANGED <<callAt, pollAt, batch, mod, hangs>>

-----------------------------------------------------------------------------
CallSide(c) ==
  \/ CallTool(c) \/ Enqueue(c) \/ QueueFull(c)
  \/ Answered(c) \/ GiveUp(c) \/ Abandon(c)

PollSide(p) ==
  \/ PollStarts(p) \/ PollEnters(p) \/ PollTakes(p) \/ PollLeaves(p)
  \/ PollDropped(p)
  \/ \E fate \in {"held", "lost"} : PollReplies(p, fate)

Next ==
  \/ \E c \in Calls : CallSide(c) \/ ModPosts(c) \/ PostLost(c) \/ Complete(c)
  \/ \E p \in Polls : PollSide(p)
  \/ ReleaseBegins \/ ReleaseDrains

Spec == Init /\ [][Next]_vars

\* The runtime carries every handler through, and the mod keeps polling, takes
\* every command it was handed in turn and tries to post a result of it once:
\* whether the post arrives is not promised, PostLost may come first. Nor is a
\* timeout of a call, a hang-up or a release, and a parked poll without a batch
\* may wait its 25 s.
FairRelay ==
  /\ Spec
  /\ WF_vars(ReleaseDrains)
  /\ \A c \in Calls : /\ WF_vars(Enqueue(c)) /\ WF_vars(QueueFull(c))
                      /\ WF_vars(Answered(c)) /\ WF_vars(Abandon(c))
                      /\ WF_vars(ModPosts(c)) /\ WF_vars(Complete(c))
  /\ \A p \in Polls : /\ WF_vars(PollStarts(p)) /\ WF_vars(PollEnters(p))
                      /\ WF_vars(slot[p].full /\ PollTakes(p))
                      /\ WF_vars(PollLeaves(p))
                      /\ WF_vars(PollReplies(p, "held"))

-----------------------------------------------------------------------------
(* Properties.                                                             *)

\* Where a command is before the mod has it.
Copies(c) ==
  {<<"queue", i>> : i \in {j \in DOMAIN queue : queue[j] = c}}
  \cup (UNION {{<<p, "slot", i>> : i \in {j \in DOMAIN slot[p].commands : slot[p].commands[j] = c}} : p \in Polls})
  \cup (UNION {{<<p, "batch", i>> : i \in {j \in DOMAIN batch[p] : batch[p][j] = c}} : p \in Polls})

\* Two polls never carry the same command, and one the mod has had is never
\* handed out again: parked, dropped and timed-out polls replay nothing
\* (release_pollers_locked, PollGuard).
HandedOverOnce ==
  \A c \in Calls : /\ Cardinality(Copies(c)) <= 1
                   /\ mod[c] # "unseen" => Copies(c) = {}

\* A dropped poll never swallows commands: while a call waits, its command is
\* queued, parked or with the mod, unless the response that carried it was lost.
NothingSwallowed ==
  \A c \in inflight : Copies(c) # {} \/ mod[c] # "unseen"

\* Commands are never left queued beside a parked poll that could carry them.
NoPollSleepsOnWork == queue # <<>> => waiters = <<>>

\* A call that waits is in flight or has its answer in its channel, and one
\* that was settled is in flight no more: release, result and abandonment each
\* take it out once.
WaitingIsInflight ==
  /\ \A c \in Calls : callAt[c] = "waiting" => c \in inflight \/ channel[c] # "nothing"
  /\ \A c \in inflight : callAt[c] \in {"waiting", "giving up"} /\ channel[c] = "nothing"

\* While the mod keeps polling, a call is settled without its timeout unless the
\* response or the post that carried it was lost: no interleaving of polls,
\* hang-ups and the release strands its command. Two polls that time out for
\* ever could pass it back and forth (PollGuard).
PolledCallIsSettled ==
  \/ []<><<\E p \in Polls : ~slot[p].full /\ PollTakes(p)>>_vars
  \/ \A c \in Calls :
       callAt[c] = "waiting" ~>
         callAt[c] # "waiting" \/ mod[c] \in {"lost", "unposted"} \/ release # "none"

\* Where a command is and what its caller has been told, whatever queue, slot,
\* batch or channel that is read from. A result or an end that is in the
\* channel of a waiting call counts as told: it can only be answered with it.
PlaceOf(c) ==
  CASE Copies(c) # {} -> "relay"
    [] mod[c] \in {"held", "posting"} -> "mod"
    [] mod[c] = "lost" -> "lost"
    [] mod[c] \in {"done", "unposted"} -> "over"
    [] OTHER -> IF callAt[c] \in {"idle", "admitted", "refused"} THEN "unsent" ELSE "over"
ToldOf(c) ==
  CASE callAt[c] \in {"idle", "admitted"} -> "nothing"
    [] callAt[c] = "waiting" -> IF channel[c] = "nothing" THEN "open" ELSE channel[c]
    [] callAt[c] = "giving up" -> "open"
    [] callAt[c] = "answered" -> "result"
    [] OTHER -> callAt[c]

Commands == INSTANCE CommandRelay WITH
  place <- [c \in Calls |-> PlaceOf(c)],
  told  <- [c \in Calls |-> ToldOf(c)],
  up    <- release = "none"

\* To agents the relay is a CommandRelay: no race of polls, hang-ups, timeouts
\* and the release makes a command leave the relay twice, or makes a caller be
\* told two things or a result the mod did not post (agent.rs).
ImplementsCommands == Commands!Spec

\* "Dropping it (or timing out) drops the command from the queue so the mod
\* cannot execute it late" (PendingCall).
GivenUpIsNotQueued == \A c \in ToSet(queue) : callAt[c] # "timed out"
=============================================================================
