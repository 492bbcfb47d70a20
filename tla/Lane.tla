-------------------------------- MODULE Lane --------------------------------
(***************************************************************************)
(* pkg/director/lane.go: the ticket lane that makes the segments of one    *)
(* stream publish in arrival order although each is packetized or          *)
(* transcoded in its own goroutine, and its two users in                   *)
(* stream_session.go, AddToWebRTC (lane sourceLane) and Transcode (lane    *)
(* renditions): both claim a turn in arrival order, work, wait for the     *)
(* turn, publish, and release the turn on every exit (a deferred call).    *)
(*                                                                         *)
(* Every critical section of lane.mu is one action.  A channel of the      *)
(* waiters map is only ever closed, so it is represented by membership of  *)
(* its ticket in waiters (registered, open) or woken (closed).             *)
(***************************************************************************)
EXTENDS Naturals, Sequences

CONSTANT MaxTurns   \* bound: how many segments arrive

ASSUME LaneAssumption == MaxTurns \in Nat

VARIABLES
  next,       \* lane.next: the next ticket to hand out
  head,       \* lane.head: the ticket whose turn it is
  done,       \* lane.done: released tickets the head has not passed yet
  waiters,    \* keys of lane.waiters
  woken,      \* tickets whose waiters channel has been closed
  pc,         \* where each ticket's goroutine is
  published,  \* the tickets published on the bus, in order
  late,       \* history: tickets overtaken between their grant and their
              \* publication
  ctxDone     \* the context of the goroutines has ended

laneVars == <<next, head, done, waiters, woken, pc, published, late, ctxDone>>

Tickets == 0 .. (MaxTurns - 1)

(***************************************************************************)
(* unclaimed: the segment has not arrived; working: packetizing or at the  *)
(* transcoder; waiting: in the select of wait; granted: wait returned      *)
(* true, not yet published; leaving: about to run the deferred release.    *)
(***************************************************************************)
Places == {"unclaimed", "working", "waiting", "granted", "leaving", "released"}

LaneInit ==
  /\ next = 0
  /\ head = 0
  /\ done = {}
  /\ waiters = {}
  /\ woken = {}
  /\ pc = [t \in Tickets |-> "unclaimed"]
  /\ published = <<>>
  /\ late = {}
  /\ ctxDone = FALSE

Goto(t, place) == pc' = [pc EXCEPT ![t] = place]

\* turn: a segment arrives and claims the next ticket.
Turn ==
  /\ next < MaxTurns
  /\ next' = next + 1
  /\ Goto(next, "working")
  /\ UNCHANGED <<head, done, waiters, woken, published, late, ctxDone>>

\* The work failed or was skipped: return without asking for the turn.
GiveUp(t) ==
  /\ pc[t] = "working"
  /\ Goto(t, "leaving")
  /\ UNCHANGED <<next, head, done, waiters, woken, published, late, ctxDone>>

\* Mutant: wait reports true without looking at the head again.
AnswerUnchecked(t, h) == "granted"

\* What wait returns: true exactly when it is the ticket's turn.
Answer(t, h) == IF h = t THEN "granted" ELSE "leaving"

\* The first critical section of wait.
WaitEnter(t) ==
  /\ pc[t] = "working"
  /\ IF head >= t
     THEN Goto(t, Answer(t, head)) /\ UNCHANGED waiters
     ELSE Goto(t, "waiting") /\ waiters' = waiters \cup {t}
  /\ UNCHANGED <<next, head, done, woken, published, late, ctxDone>>

\* wait returns because the ticket's channel was closed.
Wake(t) ==
  /\ pc[t] = "waiting"
  /\ t \in woken
  /\ Goto(t, Answer(t, head))
  /\ UNCHANGED <<next, head, done, waiters, woken, published, late, ctxDone>>

\* wait returns false because the context ended; its channel stays registered.
Cancelled(t) ==
  /\ pc[t] = "waiting"
  /\ ctxDone
  /\ Goto(t, "leaving")
  /\ UNCHANGED <<next, head, done, waiters, woken, published, late, ctxDone>>

\* Mutant: the abandoned waiters are dropped from the map but not closed.
OvertakenForgotten(t) == {}

\* The registered waiters that t's expiring timer overtakes.
Overtaken(t) == waiters \cap (head .. (t - 1))

(***************************************************************************)
(* wait returns because the patience timer fired: the tickets before t     *)
(* that have not published are abandoned and t goes.                       *)
(***************************************************************************)
Expire(t) ==
  /\ pc[t] = "waiting"
  /\ IF head < t
     THEN /\ head' = t
          /\ done' = done \ (head .. (t - 1))
          /\ waiters' = waiters \ (head .. t)
          /\ woken' = woken \cup Overtaken(t)
          /\ late' = late \cup {u \in head .. (t - 1) : pc[u] = "granted"}
     ELSE UNCHANGED <<head, done, waiters, woken, late>>
  /\ Goto(t, Answer(t, head'))
  /\ UNCHANGED <<next, published, ctxDone>>

\* bus.PublishSegment, after wait returned true.
Publish(t) ==
  /\ pc[t] = "granted"
  /\ published' = Append(published, t)
  /\ Goto(t, "leaving")
  /\ UNCHANGED <<next, head, done, waiters, woken, late, ctxDone>>

\* Mutant: release does not notice that the ticket was abandoned.
PassedUnchecked(t) == FALSE

\* The ticket was abandoned by the segments behind it.
Passed(t) == t < head

\* Mutant: the head moves past one released ticket only (if for for).
AdvancesOnce(h, d) == h = IF head \in d THEN head + 1 ELSE head

\* h is where the loop of release leaves the head, given the done tickets d.
Advances(h, d) ==
  /\ h \notin d
  /\ \A k \in head .. (h - 1) : k \in d

\* release, run once per ticket as the deferred call.
Release(t) ==
  /\ pc[t] = "leaving"
  /\ IF Passed(t)
     THEN UNCHANGED <<head, done, waiters, woken>>
     ELSE \E h \in head .. next :
            /\ Advances(h, done \cup {t})
            /\ head' = h
            /\ done' = (done \cup {t}) \ (head .. (h - 1))
            /\ woken' = woken \cup (waiters \cap {h})
            /\ waiters' = waiters \ {h}
  /\ Goto(t, "released")
  /\ UNCHANGED <<next, published, late, ctxDone>>

\* The goroutines' context ends (shutdown).
Cancel ==
  /\ ~ctxDone
  /\ ctxDone' = TRUE
  /\ UNCHANGED <<next, head, done, waiters, woken, pc, published, late>>

\* A step of the goroutine of ticket t other than its timer or cancellation.
Step(t) == GiveUp(t) \/ WaitEnter(t) \/ Wake(t) \/ Publish(t) \/ Release(t)

LaneNext ==
  \/ Turn
  \/ Cancel
  \/ \E t \in Tickets : Step(t) \/ Cancelled(t) \/ Expire(t)

LaneSpec == LaneInit /\ [][LaneNext]_laneVars

(***************************************************************************)
(* Fairness: a goroutine that can run does run, and the work it does       *)
(* before asking for its turn ends (packetizing and the gateway's HTTP     *)
(* round trip return).  Nothing is assumed of the patience timers: every   *)
(* turn must come round without them.                                      *)
(***************************************************************************)
LaneFairSpec == LaneSpec /\ \A t \in Tickets : WF_laneVars(Step(t))

(***************************************************************************)
(* Properties.                                                             *)
(***************************************************************************)
\* The types, and the hygiene of the maps: lane.done holds only claimed
\* tickets the head has not passed, so a late release leaves nothing behind.
LaneTypeOK ==
  /\ next \in 0 .. MaxTurns
  /\ head \in 0 .. next
  /\ done \subseteq head .. (next - 1)
  /\ waiters \subseteq 0 .. (next - 1)
  /\ woken \subseteq 0 .. (next - 1)
  /\ pc \in [Tickets -> Places]
  /\ published \in Seq(Tickets)
  /\ late \subseteq Tickets
  /\ ctxDone \in BOOLEAN

\* A goroutine blocked in wait whose turn has come or gone has been woken:
\* neither release nor an expiring timer forgets to close its channel
\* (lane.go:75-90, 102-109), so it never sits out its patience for nothing.
NoLostWakeup ==
  \A t \in Tickets : pc[t] = "waiting" /\ head >= t => t \in woken

\* The ticket at the head has not been released: the head never comes to
\* rest on a finished segment, which would hold every segment behind it
\* until a patience timer (lane.go:101-105).
HeadIsLive ==
  head < next => pc[head] # "released"

\* Segments reach the bus in arrival order: "its work must be discarded,
\* not published late and out of order" (lane.go:43-46).  The one exception
\* is a segment that was told to go and then overtaken by a patience timer
\* before it had published, which nothing asks again.
PublishedInOrder ==
  \A i, j \in 1 .. Len(published) :
    i < j => published[i] < published[j] \/ published[j] \in late

\* A segment the head has passed before its wait returned is never told to
\* publish, whichever of wake-up, timer and context it returns on
\* (lane.go:49-52, 67-72, 91).
AbandonedIsRefused ==
  [][\A t \in Tickets :
       pc[t] \in {"working", "waiting"} /\ t < head => pc'[t] # "granted"]_laneVars

\* What the rest of the server is promised of a lane (module OrderedFeed).
Feed == INSTANCE OrderedFeed WITH arrived <- next, feed <- published, overtaken <- late

\* The lane implements that promise.
ImplementsFeed == Feed!Spec

\* Without the help of any timer every waiting goroutine gets out of wait,
\* and every claimed turn is released.
EveryTurnComesRound ==
  \A t \in Tickets : pc[t] = "working" ~> pc[t] = "released"

=============================================================================
