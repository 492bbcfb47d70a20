-------------------------------- MODULE Bus --------------------------------
(***************************************************************************)
(* pkg/bus: the fan-out of one streamer's events (bus.go) and segments     *)
(* (segchanman.go) to subscribers that come, lag and go.                   *)
(*                                                                         *)
(* An event goes from Publish to a subscriber's queue, from there through  *)
(* a deliver goroutine of the subscriber into its channel.  A segment goes *)
(* straight into the channel of the subscriber, or is dropped; the latest  *)
(* segments are kept to replay to newcomers.  Publish, Subscribe and       *)
(* Unsubscribe hold the bus's mutexes throughout and touch each subscriber *)
(* under its own, so each is one action; deliver goroutines, readers and   *)
(* the handlers of disconnected viewers run in between.                    *)
(***************************************************************************)
EXTENDS Naturals, Sequences, FiniteSets

CONSTANTS
  Subs,        \* connections, each of which subscribes at most once
  QueueLimit,  \* maxQueuedMessages, the limit of a viewer's queue
  ChanCap,     \* capacity of a subscriber's event channel
  SegCap,      \* chanSize, the capacity of a segment channel
  BufSize,     \* bufSize, the segments kept for replay
  Replays,     \* how many segments subscribers ask to have replayed
  MaxItems     \* bound: events and segments published

ASSUME BusAssumption ==
  /\ IsFiniteSet(Subs)
  /\ QueueLimit \in Nat \ {0} /\ ChanCap \in Nat \ {0} /\ SegCap \in Nat /\ BufSize \in Nat
  /\ Replays \subseteq 0 .. SegCap
  /\ MaxItems \in Nat

Kinds == {"none", "plain", "viewer", "segment"}

VARIABLES
  kind,      \* what each connection subscribed as
  clients,   \* b.clients: event subscribers
  presence,  \* b.presence: the count of channel connections
  present,   \* sub.present
  queue,     \* sub.queue
  hold,      \* the event the deliver goroutine took off the queue, or none
  runs,      \* the deliver goroutine runs
  closed,    \* sub.closed, and sub.done
  ch,        \* sub.ch or segChan.C
  segChans,  \* b.segChans: segment subscribers
  gone,      \* segment subscribers whose context has ended
  segBuf,    \* b.segBuf
  events,    \* the events published so far
  segs,      \* the segments published so far
  ended,     \* how many of them belong to ended sessions
  got,       \* what each connection has read
  since,     \* the events, or segments, published when it subscribed
  dropped    \* segments a connection that lags or has ended did not get

msgVars == <<clients, presence, present, queue, hold, runs, closed, events>>
segVars == <<segChans, gone, segBuf, segs, ended, dropped>>
vars == <<kind, ch, got, since, msgVars, segVars>>

Init ==
  /\ kind = [s \in Subs |-> "none"]
  /\ clients = {}
  /\ presence = 0
  /\ present = [s \in Subs |-> FALSE]
  /\ queue = [s \in Subs |-> <<>>]
  /\ hold = [s \in Subs |-> <<>>]
  /\ runs = [s \in Subs |-> FALSE]
  /\ closed = [s \in Subs |-> FALSE]
  /\ ch = [s \in Subs |-> <<>>]
  /\ segChans = {} /\ gone = {}
  /\ segBuf = <<>>
  /\ events = 0 /\ segs = 0 /\ ended = 0
  /\ got = [s \in Subs |-> <<>>]
  /\ since = [s \in Subs |-> 0]
  /\ dropped = [s \in Subs |-> {}]

-----------------------------------------------------------------------------
\* Events.

\* Subscribe and SubscribeViewer.
Subscribe(s, k) ==
  /\ kind[s] = "none"
  /\ kind' = [kind EXCEPT ![s] = k]
  /\ present' = [present EXCEPT ![s] = (k = "viewer")]
  /\ presence' = IF k = "viewer" THEN presence + 1 ELSE presence
  /\ clients' = clients \cup {s}
  /\ runs' = [runs EXCEPT ![s] = TRUE]
  /\ since' = [since EXCEPT ![s] = events]
  /\ UNCHANGED <<ch, got, queue, hold, closed, events, segVars>>

\* Whether enqueue finds the queue full: only a viewer's has a limit.
Overflows(s) == kind[s] = "viewer" /\ Len(queue[s]) >= QueueLimit

\* The subscribers enqueue closes.
Overflowing == {s \in clients : ~closed[s] /\ Overflows(s)}

\* Mutant: enqueue does not look whether the subscriber is closed.
ReachedClosed == {s \in clients : ~Overflows(s)}

\* The subscribers that get the event.
Reached == {s \in clients : ~closed[s] /\ ~Overflows(s)}

\* Mutant: a viewer that was counted out stays marked as present.
LeavingStillPresent == [s \in Subs |-> present[s]]

\* The present marks after an event was refused by the closed subscribers.
Leaving == [s \in Subs |-> present[s] /\ ~(s \in clients /\ (closed[s] \/ Overflows(s)))]

(***************************************************************************)
(* Publish: enqueue for every subscriber.  A viewer whose queue is full is *)
(* closed, counted out, and its connection cancelled.                      *)
(***************************************************************************)
Publish ==
  /\ events + segs < MaxItems
  /\ events' = events + 1
  /\ queue' = [s \in Subs |-> IF s \in Reached THEN Append(queue[s], events')
                              ELSE IF s \in Overflowing THEN <<>> ELSE queue[s]]
  /\ closed' = [s \in Subs |-> closed[s] \/ s \in Overflowing]
  /\ presence' = presence - Cardinality({s \in clients \ Reached : present[s]})
  /\ present' = Leaving
  /\ UNCHANGED <<kind, ch, got, since, clients, hold, runs, segVars>>

\* Unsubscribe, when the connection's handler returns.
Unsubscribe(s) ==
  /\ s \in clients
  /\ clients' = clients \ {s}
  /\ presence' = IF present[s] THEN presence - 1 ELSE presence
  /\ closed' = [closed EXCEPT ![s] = TRUE]
  /\ queue' = [queue EXCEPT ![s] = <<>>]
  /\ UNCHANGED <<kind, ch, got, since, present, hold, runs, events, segVars>>

\* deliver takes the next event off the queue.
Take(s) ==
  /\ runs[s] /\ hold[s] = <<>> /\ ~closed[s]
  /\ queue[s] # <<>>
  /\ hold' = [hold EXCEPT ![s] = <<Head(queue[s])>>]
  /\ queue' = [queue EXCEPT ![s] = Tail(@)]
  /\ UNCHANGED <<kind, ch, got, since, clients, presence, present, runs, closed, events, segVars>>

\* deliver sends the event it holds.
Send(s) ==
  /\ runs[s] /\ hold[s] # <<>>
  /\ Len(ch[s]) < ChanCap
  /\ ch' = [ch EXCEPT ![s] = @ \o hold[s]]
  /\ hold' = [hold EXCEPT ![s] = <<>>]
  /\ UNCHANGED <<kind, got, since, clients, presence, present, queue, runs, closed, events, segVars>>

\* Mutant: deliver waits for its channel alone.
MayStopIdle(s) == closed[s] /\ hold[s] = <<>>

\* deliver sees that the subscriber is closed, waiting or sending.
MayStop(s) == closed[s]

DeliverStops(s) ==
  /\ runs[s]
  /\ MayStop(s)
  /\ runs' = [runs EXCEPT ![s] = FALSE]
  /\ hold' = [hold EXCEPT ![s] = <<>>]
  /\ UNCHANGED <<kind, ch, got, since, clients, presence, present, queue, closed, events, segVars>>

-----------------------------------------------------------------------------
\* Segments.

\* Mutant: the replay starts at the oldest segment kept.
ReplayOldest(n) == SubSeq(segBuf, 1, IF n > Len(segBuf) THEN Len(segBuf) ELSE n)

\* The last n segments kept, or all there are.
Replay(n) == SubSeq(segBuf, IF n > Len(segBuf) THEN 1 ELSE Len(segBuf) - n + 1, Len(segBuf))

\* SubscribeSegmentBuf, and SubscribeSegment, which asks for no replay.
SubscribeSegmentBuf(s, n) ==
  /\ kind[s] = "none"
  /\ kind' = [kind EXCEPT ![s] = "segment"]
  /\ ch' = [ch EXCEPT ![s] = Replay(n)]
  /\ segChans' = segChans \cup {s}
  /\ since' = [since EXCEPT ![s] = segs - Len(Replay(n))]
  /\ UNCHANGED <<got, msgVars, gone, segBuf, segs, ended, dropped>>

\* The connection ends; its handler has not unsubscribed yet.
ContextEnds(s) ==
  /\ s \in segChans \ gone
  /\ gone' = gone \cup {s}
  /\ UNCHANGED <<kind, ch, got, since, msgVars, segChans, segBuf, segs, ended, dropped>>

UnsubscribeSegment(s) ==
  /\ s \in segChans
  /\ segChans' = segChans \ {s}
  /\ UNCHANGED <<kind, ch, got, since, msgVars, gone, segBuf, segs, ended, dropped>>

Lagging == {s \in segChans : Len(ch[s]) >= SegCap}

\* The buffer PublishSegment keeps.
Kept(b) == IF Len(b) > BufSize THEN Tail(b) ELSE b

\* PublishSegment: kept for replay, and sent to every subscriber with room,
\* those whose context has ended perhaps excepted.
PublishSegment ==
  /\ events + segs < MaxItems
  /\ segs' = segs + 1
  /\ segBuf' = Kept(Append(segBuf, segs'))
  /\ \E skipped \in SUBSET (segChans \cap gone) :
       LET without == Lagging \cup skipped IN
       /\ ch' = [s \in Subs |-> IF s \in segChans \ without THEN Append(ch[s], segs') ELSE ch[s]]
       /\ dropped' = [s \in Subs |-> IF s \in without THEN dropped[s] \cup {segs'} ELSE dropped[s]]
  /\ UNCHANGED <<kind, got, since, msgVars, segChans, gone, ended>>

\* Mutant: the segments kept stay for the next session.
EndSessionKeeping ==
  /\ ended < segs
  /\ ended' = segs
  /\ UNCHANGED <<kind, ch, got, since, msgVars, segChans, gone, segBuf, segs, dropped>>

\* EndSession forgets what was kept.
EndSession ==
  /\ ended < segs
  /\ ended' = segs
  /\ segBuf' = <<>>
  /\ UNCHANGED <<kind, ch, got, since, msgVars, segChans, gone, segs, dropped>>

-----------------------------------------------------------------------------
\* The connection's handler reads its channel.
Read(s) ==
  /\ ch[s] # <<>>
  /\ s \in clients \cup segChans
  /\ got' = [got EXCEPT ![s] = Append(@, Head(ch[s]))]
  /\ ch' = [ch EXCEPT ![s] = Tail(@)]
  /\ UNCHANGED <<kind, since, msgVars, segVars>>

Deliver(s) == Take(s) \/ Send(s) \/ DeliverStops(s)

Next ==
  \/ Publish \/ PublishSegment \/ EndSession
  \/ \E s \in Subs :
       \/ \E k \in {"plain", "viewer"} : Subscribe(s, k)
       \/ \E n \in Replays : SubscribeSegmentBuf(s, n)
       \/ Unsubscribe(s) \/ UnsubscribeSegment(s) \/ ContextEnds(s) \/ Read(s) \/ Deliver(s)

Spec == Init /\ [][Next]_vars

(***************************************************************************)
(* Fairness: deliver goroutines run.  Nobody has to read or to leave.      *)
(***************************************************************************)
FairSpec ==
  /\ Spec
  /\ \A s \in Subs : WF_vars(Deliver(s))

-----------------------------------------------------------------------------
Items == 1 .. MaxItems

\* Types.
TypeOK ==
  /\ kind \in [Subs -> Kinds]
  /\ clients \subseteq Subs /\ segChans \subseteq Subs /\ gone \subseteq Subs
  /\ presence \in Nat
  /\ present \in [Subs -> BOOLEAN] /\ runs \in [Subs -> BOOLEAN] /\ closed \in [Subs -> BOOLEAN]
  /\ queue \in [Subs -> Seq(Items)] /\ hold \in [Subs -> Seq(Items)]
  /\ ch \in [Subs -> Seq(Items)] /\ got \in [Subs -> Seq(Items)]
  /\ segBuf \in Seq(Items)
  /\ events \in 0 .. MaxItems /\ segs \in 0 .. MaxItems /\ ended \in 0 .. segs
  /\ since \in [Subs -> 0 .. MaxItems]
  /\ dropped \in [Subs -> SUBSET Items]

\* The presence count is the number of viewers subscribed and not cut off,
\* however overflows, events and unsubscriptions of the same viewer fall:
\* "Internal subscriptions and closed viewers aren't present" (bus.go:163).
PresenceCountsViewers ==
  presence = Cardinality({s \in clients : kind[s] = "viewer" /\ ~closed[s]})

Run(from, to) == [i \in 1 .. (to - from) |-> from + i]

\* An event subscriber that was not cut off has every event published since
\* it subscribed, once and in order, in its hands or on the way; one that
\* was has had a beginning of them: "a teleport cannot overtake its
\* cancellation" (bus.go:16).
EventsInOrder ==
  \A s \in Subs : kind[s] \in {"plain", "viewer"} =>
    LET all == got[s] \o ch[s] \o hold[s] \o queue[s]
    IN /\ all = Run(since[s], since[s] + Len(all))
       /\ s \in clients /\ ~closed[s] => since[s] + Len(all) = events

\* A segment subscriber gets the segments in order and none twice, with
\* nothing missing between what was replayed to it and what was published
\* next; only a segment that found its channel full, or the connection
\* ended, is missing.
SegmentsInOrder ==
  \A s \in Subs : kind[s] = "segment" =>
    LET all == got[s] \o ch[s]
        has == {all[i] : i \in 1 .. Len(all)}
    IN /\ \A i, j \in 1 .. Len(all) : i < j => all[i] < all[j]
       /\ s \in segChans => has \cup dropped[s] = (since[s] + 1) .. segs
       /\ has \cap dropped[s] = {}

\* What is replayed to a newcomer is the end of the session under way, no
\* more than bufSize segments of it, and never one of a session that has
\* ended (segchanman.go:133-137, 153-161).
ReplayIsCurrent ==
  /\ Len(segBuf) <= BufSize
  /\ \A i \in 1 .. Len(segBuf) : segBuf[i] = segs - Len(segBuf) + i
  /\ segs - Len(segBuf) >= ended
  /\ segs > ended /\ BufSize > 0 => segBuf # <<>>

\* No deliver goroutine outlives its subscriber, not even one blocked on the
\* channel of a viewer that stopped reading.
DeliverEnds ==
  \A s \in Subs : closed[s] ~> ~runs[s]

=============================================================================
