----------------------------- MODULE BusProofs ------------------------------
(***************************************************************************)
(* What holds of the bus for any number of subscribers, any capacities and *)
(* any number of events: the presence count is right, no event is lost or  *)
(* overtaken, what is replayed is current, and the segments a subscriber   *)
(* gets come in the order they were published in.                          *)
(***************************************************************************)
EXTENDS Bus, TLAPS, FiniteSetTheorems, SequenceTheorems

\* What a subscriber has read, what is in its channel, what its deliver
\* goroutine holds and what is in its queue follow each other.
Chain(s) ==
  LET c == since[s] + Len(got[s])
      h == c + Len(ch[s])
      q == h + Len(hold[s])
  IN /\ \A i \in 1 .. Len(got[s]) : got[s][i] = since[s] + i
     /\ \A i \in 1 .. Len(ch[s]) : ch[s][i] = c + i
     /\ \A i \in 1 .. Len(hold[s]) : hold[s][i] = h + i
     /\ \A i \in 1 .. Len(queue[s]) : queue[s][i] = q + i
     /\ s \in clients /\ ~closed[s] => q + Len(queue[s]) = events

\* What each subscriber has in hand.
Held(s) ==
  /\ Len(hold[s]) <= 1
  /\ closed[s] => queue[s] = <<>>
  /\ kind[s] \in {"none", "segment"} =>
       ~runs[s] /\ ~closed[s] /\ queue[s] = <<>> /\ hold[s] = <<>>
  /\ kind[s] = "none" => got[s] = <<>> /\ ch[s] = <<>>
  /\ kind[s] \in {"plain", "viewer"} => Chain(s)

\* Who subscribes to what, and who is marked as present.
Sorted ==
  /\ events + segs <= MaxItems
  /\ \A s \in clients : /\ kind[s] \in {"plain", "viewer"}
                        /\ present[s] <=> kind[s] = "viewer" /\ ~closed[s]
  /\ \A s \in segChans : kind[s] = "segment"

Viewers == {s \in clients : kind[s] = "viewer" /\ ~closed[s]}

Inv ==
  /\ TypeOK /\ Sorted
  /\ \A s \in Subs : Held(s)
  /\ PresenceCountsViewers /\ ReplayIsCurrent

\* A bus without subscribers.
LEMMA BusInit == Init => Inv
<1> SUFFICES ASSUME Init PROVE Inv
  OBVIOUS
<1>0. << >> \in Seq(Items) /\ Len(<< >>) = 0
  BY EmptySeq
<1>1. TypeOK
  BY <1>0, BusAssumption DEF Init, TypeOK, Kinds
<1>2. Sorted
  BY BusAssumption DEF Init, Sorted
<1>3. \A s \in Subs : Held(s)
  BY <1>0 DEF Init, Held
<1>4. PresenceCountsViewers
  <2>1. {s \in clients : kind[s] = "viewer" /\ ~closed[s]} = {}
    BY DEF Init
  <2> QED BY <2>1, FS_EmptySet DEF Init, PresenceCountsViewers
<1>5. ReplayIsCurrent
  BY <1>0, BusAssumption DEF Init, ReplayIsCurrent
<1> QED BY <1>1, <1>2, <1>3, <1>4, <1>5 DEF Inv

\* The items in the replay buffer, after one more.
LEMMA KeptProperties ==
  ASSUME NEW b \in Seq(Items), NEW e \in Items
  PROVE  LET k == Kept(Append(b, e))
             o == IF Len(b) + 1 > BufSize THEN 1 ELSE 0
         IN /\ k \in Seq(Items) /\ Len(k) = Len(b) + 1 - o
            /\ \A i \in 1 .. Len(k) : k[i] = IF i + o <= Len(b) THEN b[i + o] ELSE e
<1> DEFINE a == Append(b, e)
<1>1. /\ a \in Seq(Items) /\ a # << >> /\ Len(b) \in Nat /\ Len(a) = Len(b) + 1
      /\ \A i \in 1 .. Len(b) : a[i] = b[i]
      /\ a[Len(b) + 1] = e
  BY AppendProperties
<1> HIDE DEF a
<1>2. CASE Len(a) > BufSize
  <2>1. /\ Kept(a) = Tail(a) /\ Tail(a) \in Seq(Items) /\ Len(Tail(a)) = Len(a) - 1
        /\ \A i \in 1 .. Len(Tail(a)) : Tail(a)[i] = a[i + 1]
    BY <1>1, <1>2, HeadTailProperties DEF Kept
  <2> QED BY <1>1, <1>2, <2>1 DEF a
<1>3. CASE ~(Len(a) > BufSize)
  <2>1. Kept(a) = a
    BY <1>3 DEF Kept
  <2> QED BY <1>1, <1>3, <2>1 DEF a
<1> QED BY <1>2, <1>3

\* What is replayed are segments.
LEMMA ReplayProperties ==
  ASSUME TypeOK, NEW n \in Replays
  PROVE  Replay(n) \in Seq(Items) /\ Len(Replay(n)) <= Len(segBuf)
<1> DEFINE m == IF n > Len(segBuf) THEN 1 ELSE Len(segBuf) - n + 1
<1>1. Len(segBuf) \in Nat /\ n \in Nat /\ \A i \in 1 .. Len(segBuf) : segBuf[i] \in Items
  BY ElementOfSeq, BusAssumption DEF TypeOK
<1>2. m \in Int /\ m >= 1
  BY <1>1
<1> HIDE DEF m
<1>3. \A i \in m .. Len(segBuf) : segBuf[i] \in Items
  BY <1>1, <1>2
<1>4. /\ SubSeq(segBuf, m, Len(segBuf)) \in Seq(Items)
      /\ Len(SubSeq(segBuf, m, Len(segBuf))) = IF m <= Len(segBuf) THEN Len(segBuf) - m + 1 ELSE 0
  BY <1>1, <1>2, <1>3, SubSeqProperties
<1>5. Replay(n) = SubSeq(segBuf, m, Len(segBuf))
  BY DEF Replay, m
<1> QED BY <1>1, <1>2, <1>4, <1>5

\* The viewers are finitely many.
LEMMA ViewersFinite ==
  ASSUME TypeOK
  PROVE  /\ IsFiniteSet(clients) /\ IsFiniteSet(Viewers) /\ Cardinality(Viewers) \in Nat
BY BusAssumption, FS_Subset, FS_CardinalityType DEF TypeOK, Viewers

\* Every step keeps the presence count right.
LEMMA BusPresence ==
  ASSUME Inv, Next
  PROVE  presence' \in Nat /\ presence' = Cardinality(Viewers')
<1>0. TypeOK /\ Sorted /\ presence = Cardinality(Viewers)
  BY DEF Inv, PresenceCountsViewers, Viewers
<1>1. IsFiniteSet(clients) /\ IsFiniteSet(Viewers) /\ Cardinality(Viewers) \in Nat
  BY <1>0, ViewersFinite
<1>2. ASSUME NEW s \in Subs, NEW k \in {"plain", "viewer"}, Subscribe(s, k)
      PROVE  presence' \in Nat /\ presence' = Cardinality(Viewers')
  <2>0. /\ s \notin clients /\ ~closed[s]
    BY <1>0, <1>2 DEF Inv, Sorted, Held, Subscribe
  <2>1. CASE k = "viewer"
    <3>1. Viewers' = Viewers \cup {s} /\ s \notin Viewers
      BY <1>0, <1>2, <2>0, <2>1 DEF Subscribe, Viewers, TypeOK
    <3>2. Cardinality(Viewers') = Cardinality(Viewers) + 1
      BY <1>1, <3>1, FS_AddElement
    <3> QED BY <1>0, <1>1, <1>2, <2>1, <3>2 DEF Subscribe
  <2>2. CASE k = "plain"
    <3>1. Viewers' = Viewers
      BY <1>0, <1>2, <2>0, <2>2 DEF Subscribe, Viewers, TypeOK
    <3> QED BY <1>0, <1>1, <1>2, <2>2, <3>1 DEF Subscribe
  <2> QED BY <2>1, <2>2
<1>3. ASSUME NEW s \in Subs, Unsubscribe(s)
      PROVE  presence' \in Nat /\ presence' = Cardinality(Viewers')
  <2>1. CASE s \in Viewers
    <3>1. Viewers' = Viewers \ {s} /\ presence' = presence - 1
      BY <1>0, <1>3, <2>1 DEF Unsubscribe, Viewers, TypeOK, Sorted
    <3>2. Cardinality(Viewers') = Cardinality(Viewers) - 1 /\ IsFiniteSet(Viewers')
      BY <1>1, <2>1, <3>1, FS_RemoveElement
    <3>3. Cardinality(Viewers') \in Nat
      BY <3>2, FS_CardinalityType
    <3> QED BY <1>0, <3>1, <3>2, <3>3
  <2>2. CASE s \notin Viewers
    <3>1. Viewers' = Viewers /\ presence' = presence
      BY <1>0, <1>3, <2>2 DEF Unsubscribe, Viewers, TypeOK, Sorted
    <3> QED BY <1>0, <1>1, <3>1
  <2> QED BY <2>1, <2>2
<1>4. ASSUME Publish PROVE presence' \in Nat /\ presence' = Cardinality(Viewers')
  <2> DEFINE out == {s \in clients \ Reached : present[s]}
  <2>1. Viewers' = Viewers \ out /\ Viewers \cap out = out
    <3>1. Viewers' = {s \in Viewers : ~Overflows(s)}
      BY <1>0, <1>4 DEF Publish, Viewers, Overflowing, TypeOK
    <3>2. out = {s \in Viewers : Overflows(s)}
      BY <1>0 DEF Reached, Viewers, Sorted
    <3> QED BY <3>1, <3>2
  <2>2. presence' = presence - Cardinality(out)
    BY <1>4 DEF Publish
  <2> HIDE DEF out
  <2>3. Cardinality(Viewers') = Cardinality(Viewers) - Cardinality(out) /\ IsFiniteSet(Viewers')
    <3>1. /\ IsFiniteSet(Viewers \ out)
          /\ Cardinality(Viewers \ out) = Cardinality(Viewers) - Cardinality(Viewers \cap out)
      BY <1>1, FS_Difference
    <3> QED BY <2>1, <3>1
  <2>4. Cardinality(Viewers') \in Nat
    BY <2>3, FS_CardinalityType
  <2> QED BY <1>0, <2>2, <2>3, <2>4
<1>5. CASE UNCHANGED <<clients, closed, presence>> /\ \A s \in clients : kind'[s] = kind[s]
  <2>1. Viewers' = Viewers
    BY <1>5 DEF Viewers
  <2> QED BY <1>0, <1>1, <1>5, <2>1
<1>6. ASSUME NEW s \in Subs, NEW n \in Replays, SubscribeSegmentBuf(s, n)
      PROVE  UNCHANGED <<clients, closed, presence>> /\ \A t \in clients : kind'[t] = kind[t]
  BY <1>0, <1>6 DEF SubscribeSegmentBuf, msgVars, TypeOK, Sorted
<1>7. ASSUME NEW s \in Subs, ContextEnds(s) \/ UnsubscribeSegment(s) \/ Read(s) \/ Deliver(s)
      PROVE  UNCHANGED <<clients, closed, presence, kind>>
  BY <1>7 DEF ContextEnds, UnsubscribeSegment, Read, Deliver, Take, Send, DeliverStops, msgVars
<1>8. ASSUME PublishSegment \/ EndSession
      PROVE  UNCHANGED <<clients, closed, presence, kind>>
  BY <1>8 DEF PublishSegment, EndSession, msgVars
<1> QED BY <1>2, <1>3, <1>4, <1>5, <1>6, <1>7, <1>8 DEF Next

\* Every step keeps the types.
LEMMA BusTypes == ASSUME Inv, Next PROVE TypeOK'
<1> USE DEF Inv, TypeOK
<1>0. presence' \in Nat
  BY BusPresence
<1>1. << >> \in Seq(Items)
  BY EmptySeq
<1>2. ASSUME NEW s \in Subs, NEW k \in {"plain", "viewer"}, Subscribe(s, k) PROVE TypeOK'
  BY <1>0, <1>2 DEF Subscribe, segVars, Kinds
<1>3. ASSUME Publish PROVE TypeOK'
  <2>1. events' \in Items /\ events' = events + 1 /\ events' \in 0 .. MaxItems
    BY <1>3, BusAssumption DEF Publish, Items
  <2>2. \A s \in Subs : Append(queue[s], events') \in Seq(Items)
    BY <2>1, AppendProperties
  <2>3. queue' \in [Subs -> Seq(Items)]
    BY <1>1, <1>3, <2>2 DEF Publish
  <2>4. present' \in [Subs -> BOOLEAN] /\ closed' \in [Subs -> BOOLEAN]
    BY <1>3 DEF Publish, Leaving
  <2> QED BY <1>0, <1>3, <2>1, <2>3, <2>4 DEF Publish, segVars
<1>4. ASSUME NEW s \in Subs, Unsubscribe(s) PROVE TypeOK'
  BY <1>0, <1>1, <1>4 DEF Unsubscribe, segVars
<1>5. ASSUME NEW s \in Subs, Take(s) PROVE TypeOK'
  <2>1. Head(queue[s]) \in Items /\ Tail(queue[s]) \in Seq(Items)
    BY <1>5, HeadTailProperties DEF Take
  <2>2. <<Head(queue[s])>> \in Seq(Items)
    BY <2>1
  <2> QED BY <1>5, <2>1, <2>2 DEF Take, segVars
<1>6. ASSUME NEW s \in Subs, Send(s) PROVE TypeOK'
  <2>1. ch[s] \o hold[s] \in Seq(Items)
    BY ConcatProperties
  <2> QED BY <1>1, <1>6, <2>1 DEF Send, segVars
<1>7. ASSUME NEW s \in Subs, DeliverStops(s) PROVE TypeOK'
  BY <1>1, <1>7 DEF DeliverStops, segVars
<1>8. ASSUME NEW s \in Subs, NEW n \in Replays, SubscribeSegmentBuf(s, n) PROVE TypeOK'
  <2>1. Replay(n) \in Seq(Items) /\ Len(Replay(n)) <= Len(segBuf)
    BY ReplayProperties
  <2>2. segs - Len(Replay(n)) \in 0 .. MaxItems
    <3>1. Len(Replay(n)) \in Nat /\ Len(segBuf) \in Nat /\ ended \in Nat
      BY <2>1
    <3>2. segs - Len(segBuf) >= ended /\ segs \in 0 .. MaxItems
      BY DEF ReplayIsCurrent
    <3> QED BY <2>1, <3>1, <3>2, BusAssumption
  <2> QED BY <1>8, <2>1, <2>2 DEF SubscribeSegmentBuf, msgVars, Kinds
<1>9. ASSUME NEW s \in Subs, ContextEnds(s) \/ UnsubscribeSegment(s) PROVE TypeOK'
  BY <1>9 DEF ContextEnds, UnsubscribeSegment, msgVars
<1>10. ASSUME PublishSegment PROVE TypeOK'
  <2>1. segs' = segs + 1 /\ segs' \in Items /\ segs' \in 0 .. MaxItems /\ ended' \in 0 .. segs'
    BY <1>10, BusAssumption DEF PublishSegment, Items
  <2>2. segBuf' \in Seq(Items)
    BY <1>10, <2>1, KeptProperties DEF PublishSegment
  <2>3. \A s \in Subs : Append(ch[s], segs') \in Seq(Items)
    BY <2>1, AppendProperties
  <2>4. ch' \in [Subs -> Seq(Items)] /\ dropped' \in [Subs -> SUBSET Items]
    BY <1>10, <2>1, <2>3 DEF PublishSegment
  <2> QED BY <1>10, <2>1, <2>2, <2>4 DEF PublishSegment, msgVars
<1>11. ASSUME EndSession PROVE TypeOK'
  BY <1>1, <1>11 DEF EndSession, msgVars
<1>12. ASSUME NEW s \in Subs, Read(s) PROVE TypeOK'
  <2>1. Head(ch[s]) \in Items /\ Tail(ch[s]) \in Seq(Items)
    BY <1>12, HeadTailProperties DEF Read
  <2>2. Append(got[s], Head(ch[s])) \in Seq(Items)
    BY <2>1, AppendProperties
  <2> QED BY <1>12, <2>1, <2>2 DEF Read, msgVars, segVars
<1> QED BY <1>2, <1>3, <1>4, <1>5, <1>6, <1>7, <1>8, <1>9, <1>10, <1>11, <1>12 DEF Next, Deliver

\* Every step keeps the subscribers sorted.
LEMMA BusSorted == ASSUME Inv, Next PROVE Sorted'
<1> USE BusAssumption DEF Inv, TypeOK, Sorted
<1>1. ASSUME NEW s \in Subs, NEW k \in {"plain", "viewer"}, Subscribe(s, k) PROVE Sorted'
  <2>1. s \notin clients /\ s \notin segChans /\ ~closed[s]
    BY <1>1 DEF Subscribe, Held
  <2> QED BY <1>1, <2>1 DEF Subscribe, segVars
<1>2. ASSUME Publish PROVE Sorted'
  <2>1. events' + segs' <= MaxItems /\ clients' = clients /\ kind' = kind /\ segChans' = segChans
    BY <1>2 DEF Publish, segVars
  <2>2. ASSUME NEW s \in clients PROVE present'[s] <=> kind[s] = "viewer" /\ ~closed'[s]
    <3>1. present'[s] = (present[s] /\ ~(closed[s] \/ Overflows(s)))
      BY <1>2 DEF Publish, Leaving
    <3>2. closed'[s] = (closed[s] \/ (~closed[s] /\ Overflows(s)))
      BY <1>2 DEF Publish, Overflowing
    <3> QED BY <3>1, <3>2
  <2> QED BY <2>1, <2>2
<1>3. ASSUME NEW s \in Subs, Unsubscribe(s) PROVE Sorted'
  BY <1>3 DEF Unsubscribe, segVars
<1>4. ASSUME NEW s \in Subs, Deliver(s) PROVE Sorted'
  BY <1>4 DEF Deliver, Take, Send, DeliverStops, segVars
<1>5. ASSUME NEW s \in Subs, NEW n \in Replays, SubscribeSegmentBuf(s, n) PROVE Sorted'
  BY <1>5 DEF SubscribeSegmentBuf, msgVars
<1>6. ASSUME NEW s \in Subs, ContextEnds(s) \/ UnsubscribeSegment(s) \/ Read(s) PROVE Sorted'
  BY <1>6 DEF ContextEnds, UnsubscribeSegment, Read, msgVars, segVars
<1>7. ASSUME PublishSegment \/ EndSession PROVE Sorted'
  BY <1>7 DEF PublishSegment, EndSession, msgVars
<1> QED BY <1>1, <1>2, <1>3, <1>4, <1>5, <1>6, <1>7 DEF Next

\* Every step keeps what is replayed current.
LEMMA BusReplay == ASSUME Inv, Next PROVE ReplayIsCurrent'
<1>0. /\ segBuf \in Seq(Items) /\ Len(segBuf) \in Nat /\ segs \in 0 .. MaxItems
      /\ ended \in 0 .. segs /\ ReplayIsCurrent
  BY DEF Inv, TypeOK
<1>1. ASSUME PublishSegment PROVE ReplayIsCurrent'
  <2> DEFINE o == IF Len(segBuf) + 1 > BufSize THEN 1 ELSE 0
  <2>1. segs' = segs + 1 /\ segs' \in Items /\ ended' = ended
    BY <1>0, <1>1, BusAssumption DEF PublishSegment, Items, Inv, TypeOK
  <2>2. /\ Len(segBuf') = Len(segBuf) + 1 - o
        /\ \A i \in 1 .. Len(segBuf') :
             segBuf'[i] = IF i + o <= Len(segBuf) THEN segBuf[i + o] ELSE segs'
    BY <1>0, <1>1, <2>1, KeptProperties, SMTT(40) DEF PublishSegment
  <2>3. Len(segBuf') <= BufSize
    BY <1>0, <2>2, BusAssumption DEF ReplayIsCurrent
  <2>4. ASSUME NEW i \in 1 .. Len(segBuf') PROVE segBuf'[i] = segs' - Len(segBuf') + i
    <3>1. o \in {0, 1} /\ i + o \in 1 .. Len(segBuf) + 1
      BY <1>0, <2>2
    <3> HIDE DEF o
    <3>2. CASE i + o <= Len(segBuf)
      <4>1. segBuf'[i] = segBuf[i + o] /\ segBuf[i + o] = segs - Len(segBuf) + (i + o)
        BY <1>0, <2>2, <3>1, <3>2 DEF ReplayIsCurrent
      <4> QED BY <1>0, <2>1, <2>2, <3>1, <4>1
    <3>3. CASE ~(i + o <= Len(segBuf))
      BY <1>0, <2>1, <2>2, <3>1, <3>3
    <3> QED BY <3>2, <3>3
  <2>5. segs' - Len(segBuf') >= ended'
    BY <1>0, <2>1, <2>2 DEF ReplayIsCurrent
  <2>6. BufSize > 0 => segBuf' # <<>>
    <3> SUFFICES ASSUME BufSize > 0 PROVE Len(segBuf') > 0
      OBVIOUS
    <3>1. CASE Len(segBuf) = 0
      BY <2>2, <3>1, BusAssumption
    <3>2. CASE Len(segBuf) > 0
      BY <1>0, <2>2, <3>2
    <3> QED BY <1>0, <3>1, <3>2
  <2> QED BY <2>3, <2>4, <2>5, <2>6 DEF ReplayIsCurrent
<1>2. ASSUME EndSession PROVE ReplayIsCurrent'
  <2>1. segBuf' = << >> /\ segs' = segs /\ ended' = segs
    BY <1>2 DEF EndSession
  <2> QED BY <1>0, <2>1, BusAssumption, EmptySeq DEF ReplayIsCurrent
<1>3. CASE UNCHANGED <<segBuf, segs, ended>>
  BY <1>0, <1>3 DEF ReplayIsCurrent
<1>4. ASSUME NEW s \in Subs,
             \/ \E k \in {"plain", "viewer"} : Subscribe(s, k)
             \/ \E n \in Replays : SubscribeSegmentBuf(s, n)
             \/ Unsubscribe(s) \/ UnsubscribeSegment(s) \/ ContextEnds(s) \/ Read(s) \/ Deliver(s)
      PROVE  UNCHANGED <<segBuf, segs, ended>>
  BY <1>4 DEF Subscribe, SubscribeSegmentBuf, Unsubscribe, UnsubscribeSegment, ContextEnds, Read,
              Deliver, Take, Send, DeliverStops, segVars
<1>5. ASSUME Publish PROVE UNCHANGED <<segBuf, segs, ended>>
  BY <1>5 DEF Publish, segVars
<1> QED BY <1>1, <1>2, <1>3, <1>4, <1>5 DEF Next

\* A subscriber whose things are left alone.
LEMMA HeldSame ==
  ASSUME NEW t \in Subs, Held(t),
         kind'[t] = kind[t], got'[t] = got[t], hold'[t] = hold[t], queue'[t] = queue[t],
         since'[t] = since[t], runs'[t] = runs[t], closed'[t] = closed[t],
         ch'[t] = ch[t] \/ kind[t] = "segment",
         t \in clients' => t \in clients, events' = events \/ t \notin clients \/ closed[t]
  PROVE  Held(t)'
BY DEF Held, Chain

\* Every step moves events along, or drops the last of a closed subscriber.
LEMMA BusHeld == ASSUME Inv, Next PROVE \A t \in Subs : Held(t)'
<1> USE DEF Inv
<1>0. /\ TypeOK
      /\ \A t \in Subs : Held(t)
      /\ \A t \in Subs : /\ Len(got[t]) \in Nat /\ Len(ch[t]) \in Nat /\ Len(hold[t]) \in Nat
                         /\ Len(queue[t]) \in Nat /\ since[t] \in Nat
      /\ events \in Nat /\ segs \in Nat
  BY DEF TypeOK
<1> DEFINE Sized(t) == /\ Len(got[t]) \in Nat /\ Len(ch[t]) \in Nat /\ Len(hold[t]) \in Nat
                       /\ Len(queue[t]) \in Nat /\ since[t] \in Nat
<1>s. \A t \in Subs : Sized(t)
  BY <1>0
<1>1. ASSUME NEW s \in Subs, NEW k \in {"plain", "viewer"}, Subscribe(s, k), NEW t \in Subs
      PROVE  Held(t)'
  <2>1. CASE t = s
    <3>1. /\ kind[s] = "none" /\ kind'[s] = k /\ since'[s] = events /\ events' = events
          /\ UNCHANGED <<got, ch, hold, queue, closed>>
      BY <1>0, <1>1 DEF Subscribe, TypeOK
    <3>2. got[s] = << >> /\ ch[s] = << >> /\ hold[s] = << >> /\ queue[s] = << >> /\ ~closed[s]
      BY <1>0, <3>1 DEF Held
    <3> QED BY <1>0, <2>1, <3>1, <3>2 DEF Held, Chain
  <2>2. CASE t # s
    BY <1>0, <1>1, <2>2, HeldSame DEF Subscribe, TypeOK
  <2> QED BY <2>1, <2>2
<1>2. ASSUME Publish, NEW t \in Subs PROVE Held(t)'
  <2>0. /\ UNCHANGED <<kind, ch, got, since, clients, hold, runs>> /\ events' = events + 1
        /\ queue'[t] = IF t \in Reached THEN Append(queue[t], events')
                       ELSE IF t \in Overflowing THEN <<>> ELSE queue[t]
        /\ closed'[t] = (closed[t] \/ t \in Overflowing)
    BY <1>2 DEF Publish
  <2>1. CASE t \in Reached
    <3>1. t \in clients /\ ~closed[t] /\ t \notin Overflowing
      BY <2>1 DEF Reached, Overflowing
    <3>2. kind[t] \in {"plain", "viewer"} /\ Chain(t)
      BY <1>0, <3>1 DEF Sorted, Held
    <3>3. events + 1 \in Items /\ queue[t] \in Seq(Items)
      BY <1>0, <1>2, BusAssumption DEF Publish, Items, TypeOK
    <3>4. /\ queue'[t] = Append(queue[t], events + 1) /\ Len(queue'[t]) = Len(queue[t]) + 1
          /\ \A i \in 1 .. Len(queue[t]) : queue'[t][i] = queue[t][i]
          /\ queue'[t][Len(queue[t]) + 1] = events + 1
      BY <2>0, <2>1, <3>3, AppendProperties
    <3> DEFINE n == Len(queue[t])
               d == since[t] + Len(got[t]) + Len(ch[t]) + Len(hold[t])
    <3>5. n \in Nat /\ d \in Nat /\ d + n = events
      <4> DEFINE g == Len(got[t])
                 c == Len(ch[t])
                 h == Len(hold[t])
      <4>1. since[t] \in Nat /\ g \in Nat /\ c \in Nat /\ h \in Nat /\ n \in Nat
        BY <1>s
      <4>2. d = since[t] + g + c + h /\ d + n = events
        BY <3>1, <3>2 DEF Chain
      <4> HIDE DEF g, c, h, n, d
      <4> QED BY <4>1, <4>2
    <3>6. ASSUME NEW i \in 1 .. Len(queue'[t])
          PROVE  queue'[t][i] = d + i
      <4>1. CASE i \in 1 .. n
        BY <3>2, <3>4, <4>1 DEF Chain
      <4>2. CASE i = n + 1
        <5>1. queue'[t][i] = events + 1
          BY <3>4, <4>2
        <5> HIDE DEF n, d
        <5> QED BY <3>5, <4>2, <5>1
      <4>3. i \in 1 .. n + 1
        BY <3>4
      <4> HIDE DEF n, d
      <4> QED BY <3>5, <4>1, <4>2, <4>3
    <3>7. Chain(t)'
      <4>1. d + Len(queue'[t]) = events + 1
        <5>1. Len(queue'[t]) = n + 1
          BY <3>4
        <5> HIDE DEF n, d
        <5> QED BY <3>5, <5>1
      <4> QED BY <2>0, <3>2, <3>6, <4>1 DEF Chain
    <3> QED BY <1>0, <2>0, <3>1, <3>2, <3>7 DEF Held
  <2>2. CASE t \in Overflowing
    <3>1. t \notin Reached /\ t \in clients
      BY <2>2 DEF Reached, Overflowing
    <3>2. queue'[t] = << >> /\ closed'[t] /\ Len(queue'[t]) = 0
      <4>1. queue'[t] = << >>
        BY <2>0, <2>2, <3>1
      <4>2. closed'[t]
        BY <2>0, <2>2
      <4> QED BY <4>1, <4>2, EmptySeq
    <3>3. kind[t] \in {"plain", "viewer"} /\ Chain(t)
      BY <1>0, <3>1 DEF Sorted, Held
    <3> QED BY <1>0, <2>0, <3>2, <3>3 DEF Held, Chain
  <2>3. CASE t \notin Reached /\ t \notin Overflowing
    <3>1. t \notin clients \/ closed[t]
      BY <2>3 DEF Reached, Overflowing
    <3> QED BY <1>0, <2>0, <2>3, <3>1, HeldSame DEF TypeOK
  <2> QED BY <2>1, <2>2, <2>3
<1>3. ASSUME NEW s \in Subs, Unsubscribe(s), NEW t \in Subs PROVE Held(t)'
  <2>1. CASE t = s
    <3>1. /\ queue'[s] = << >> /\ Len(queue'[s]) = 0 /\ closed'[s] /\ s \in clients
          /\ UNCHANGED <<kind, ch, got, since, hold, runs, events>>
      BY <1>0, <1>3 DEF Unsubscribe, TypeOK
    <3>2. kind[s] \in {"plain", "viewer"} /\ Chain(s)
      BY <1>0, <3>1 DEF Sorted, Held
    <3> QED BY <1>0, <2>1, <3>1, <3>2 DEF Held, Chain
  <2>2. CASE t # s
    BY <1>0, <1>3, <2>2, HeldSame DEF Unsubscribe, TypeOK
  <2> QED BY <2>1, <2>2
<1>4. ASSUME NEW s \in Subs, Take(s), NEW t \in Subs PROVE Held(t)'
  <2>1. CASE t = s
    <3>1. /\ runs[s] /\ hold[s] = << >> /\ ~closed[s] /\ queue[s] # << >>
          /\ hold'[s] = <<Head(queue[s])>> /\ queue'[s] = Tail(queue[s])
          /\ UNCHANGED <<kind, ch, got, since, clients, closed, runs, events>>
      BY <1>0, <1>4 DEF Take, TypeOK
    <3>2. kind[s] \in {"plain", "viewer"} /\ Chain(s)
      BY <1>0, <3>1 DEF TypeOK, Kinds, Held
    <3>3. /\ Len(queue'[s]) = Len(queue[s]) - 1 /\ Len(queue[s]) > 0
          /\ \A i \in 1 .. Len(queue'[s]) : queue'[s][i] = queue[s][i + 1]
      BY <1>0, <3>1, HeadTailProperties DEF TypeOK
    <3>4. Len(hold[s]) = 0 /\ Len(hold'[s]) = 1 /\ hold'[s][1] = queue[s][1]
      BY <1>0, <3>1, <3>3 DEF TypeOK
    <3> DEFINE h == since[s] + Len(got[s]) + Len(ch[s])
    <3>5. h \in Nat /\ \A i \in 1 .. Len(queue[s]) : queue[s][i] = h + i
      BY <1>0, <3>2, <3>4 DEF Chain
    <3>6. hold'[s][1] = h + 1
      BY <1>0, <3>3, <3>4, <3>5
    <3>7. ASSUME NEW i \in 1 .. Len(queue'[s]) PROVE queue'[s][i] = h + 1 + i
      <4>1. i + 1 \in 1 .. Len(queue[s])
        BY <1>0, <3>3
      <4>2. queue[s][i + 1] = h + (i + 1)
        BY <3>5, <4>1
      <4> HIDE DEF h
      <4> QED BY <3>3, <3>5, <4>2
    <3>8. s \in clients /\ ~closed[s] => h + 1 + Len(queue'[s]) = events
      <4>1. s \in clients /\ ~closed[s] => h + Len(hold[s]) + Len(queue[s]) = events
        BY <3>2 DEF Chain
      <4> DEFINE n == Len(queue[s])
      <4>2. n \in Nat /\ Len(queue'[s]) = n - 1 /\ (s \in clients /\ ~closed[s] => h + 0 + n = events)
        BY <1>s, <3>3, <3>4, <4>1
      <4> HIDE DEF h, n
      <4> QED BY <3>5, <4>2
    <3>9. Chain(s)'
      <4>1. \A i \in 1 .. Len(hold'[s]) : hold'[s][i] = h + i
        BY <3>4, <3>6
      <4> QED BY <1>0, <3>1, <3>2, <3>4, <3>7, <3>8, <4>1 DEF Chain
    <3> QED BY <1>0, <2>1, <3>1, <3>2, <3>4, <3>9 DEF Held
  <2>2. CASE t # s
    BY <1>0, <1>4, <2>2, HeldSame DEF Take, TypeOK
  <2> QED BY <2>1, <2>2
<1>5. ASSUME NEW s \in Subs, Send(s), NEW t \in Subs PROVE Held(t)'
  <2>1. CASE t = s
    <3>1. /\ runs[s] /\ hold[s] # << >> /\ hold'[s] = << >> /\ ch'[s] = ch[s] \o hold[s]
          /\ UNCHANGED <<kind, got, since, clients, queue, closed, runs, events>>
      BY <1>0, <1>5 DEF Send, TypeOK
    <3>2. kind[s] \in {"plain", "viewer"} /\ Chain(s)
      BY <1>0, <3>1 DEF TypeOK, Kinds, Held
    <3>3. Len(hold[s]) = 1 /\ Len(hold'[s]) = 0
      <4>1. Len(hold[s]) # 0
        BY <1>0, <3>1, EmptySeq DEF TypeOK
      <4> DEFINE n == Len(hold[s])
      <4>2. n # 0 /\ n \in Nat /\ n <= 1
        BY <1>0, <4>1 DEF Held
      <4>3. Len(hold'[s]) = 0
        BY <3>1, EmptySeq
      <4> HIDE DEF n
      <4>4. n = 1
        BY <4>2
      <4> QED BY <4>3, <4>4 DEF n
    <3>s. Sized(s)
      BY <1>s
    <3>4. /\ Len(ch'[s]) = Len(ch[s]) + Len(hold[s])
          /\ \A i \in 1 .. Len(ch[s]) + Len(hold[s]) :
               ch'[s][i] = IF i <= Len(ch[s]) THEN ch[s][i] ELSE hold[s][i - Len(ch[s])]
      BY <1>0, <3>1, ConcatProperties DEF TypeOK
    <3>5. ASSUME NEW i \in 1 .. Len(ch'[s]) PROVE ch'[s][i] = since[s] + Len(got[s]) + i
      <4>1. CASE i <= Len(ch[s])
        <5>1. i \in 1 .. Len(ch[s]) /\ ch'[s][i] = ch[s][i]
          BY <3>s, <3>3, <3>4, <4>1
        <5> QED BY <3>2, <5>1 DEF Chain
      <4>2. CASE i = Len(ch[s]) + 1
        <5>1. ch'[s][i] = hold[s][1] /\ hold[s][1] = since[s] + Len(got[s]) + Len(ch[s]) + 1
          <6>1. 1 \in 1 .. Len(hold[s]) /\ i - Len(ch[s]) = 1 /\ ~(i <= Len(ch[s]))
            BY <3>s, <3>3, <4>2
          <6>2. ch'[s][i] = hold[s][1]
            BY <3>s, <3>3, <3>4, <4>2, <6>1
          <6> QED BY <3>2, <6>1, <6>2 DEF Chain
        <5> QED BY <3>s, <4>2, <5>1, SMTT(40)
      <4> QED BY <3>s, <3>3, <3>4, <4>1, <4>2
    <3>6. Chain(s)'
      <4>1. since[s] + Len(got[s]) + Len(ch'[s]) + Len(hold'[s])
              = since[s] + Len(got[s]) + Len(ch[s]) + Len(hold[s])
        <5> DEFINE a == since[s] + Len(got[s])
                   c == Len(ch[s])
        <5>1. a \in Nat /\ c \in Nat /\ Len(ch'[s]) = c + 1 /\ Len(hold'[s]) = 0 /\ Len(hold[s]) = 1
          BY <3>s, <3>3, <3>4
        <5> HIDE DEF a, c
        <5>2. a + (c + 1) + 0 = a + c + 1
          BY <5>1
        <5>3. a + Len(ch'[s]) + Len(hold'[s]) = a + c + Len(hold[s])
          BY <5>1, <5>2
        <5> QED BY <5>3 DEF a, c
      <4>2. \A i \in 1 .. Len(hold'[s]) : FALSE
        BY <3>3
      <4>3. \A i \in 1 .. Len(queue[s]) :
              queue[s][i] = since[s] + Len(got[s]) + Len(ch'[s]) + Len(hold'[s]) + i
        BY <3>2, <4>1 DEF Chain
      <4>4. s \in clients /\ ~closed[s] =>
              since[s] + Len(got[s]) + Len(ch'[s]) + Len(hold'[s]) + Len(queue[s]) = events
        BY <3>2, <4>1 DEF Chain
      <4> QED BY <3>1, <3>2, <3>5, <4>2, <4>3, <4>4 DEF Chain
    <3> QED BY <1>0, <2>1, <3>1, <3>2, <3>3, <3>6 DEF Held
  <2>2. CASE t # s
    BY <1>0, <1>5, <2>2, HeldSame DEF Send, TypeOK
  <2> QED BY <2>1, <2>2
<1>6. ASSUME NEW s \in Subs, DeliverStops(s), NEW t \in Subs PROVE Held(t)'
  <2>1. CASE t = s
    <3>1. /\ closed[s] /\ hold'[s] = << >> /\ Len(hold'[s]) = 0 /\ ~runs'[s]
          /\ UNCHANGED <<kind, ch, got, since, clients, queue, closed, events>>
      BY <1>0, <1>6 DEF DeliverStops, MayStop, TypeOK
    <3>2. queue[s] = << >> /\ Len(queue[s]) = 0
      BY <1>0, <3>1 DEF Held
    <3> QED BY <1>0, <2>1, <3>1, <3>2 DEF Held, Chain
  <2>2. CASE t # s
    BY <1>0, <1>6, <2>2, HeldSame DEF DeliverStops, TypeOK
  <2> QED BY <2>1, <2>2
<1>7. ASSUME NEW s \in Subs, NEW n \in Replays, SubscribeSegmentBuf(s, n), NEW t \in Subs
      PROVE  Held(t)'
  <2>1. CASE t = s
    <3>1. kind[s] = "none" /\ kind'[s] = "segment" /\ UNCHANGED <<hold, queue, closed, runs>>
      BY <1>0, <1>7 DEF SubscribeSegmentBuf, msgVars, TypeOK
    <3> QED BY <1>0, <2>1, <3>1 DEF Held
  <2>2. CASE t # s
    BY <1>0, <1>7, <2>2, HeldSame DEF SubscribeSegmentBuf, msgVars, TypeOK
  <2> QED BY <2>1, <2>2
<1>8. ASSUME PublishSegment, NEW t \in Subs PROVE Held(t)'
  <2>1. ch'[t] = ch[t] \/ kind[t] = "segment"
    BY <1>8 DEF PublishSegment, Sorted
  <2> QED BY <1>0, <1>8, <2>1, HeldSame DEF PublishSegment, msgVars
<1>9. ASSUME NEW s \in Subs, Read(s), NEW t \in Subs PROVE Held(t)'
  <2>1. CASE t = s
    <3>1. /\ ch[s] # << >> /\ got'[s] = Append(got[s], Head(ch[s])) /\ ch'[s] = Tail(ch[s])
          /\ s \in clients \cup segChans
          /\ UNCHANGED <<kind, since, clients, hold, queue, closed, runs, events>>
      BY <1>0, <1>9 DEF Read, msgVars, TypeOK
    <3>2. CASE kind[s] = "segment"
      BY <1>0, <2>1, <3>1, <3>2 DEF Held
    <3>3. CASE kind[s] # "segment"
      <4>1. kind[s] \in {"plain", "viewer"} /\ Chain(s)
        BY <1>0, <3>1, <3>3 DEF Sorted, Held
      <4>2. /\ Len(ch'[s]) = Len(ch[s]) - 1 /\ Len(ch[s]) > 0 /\ Head(ch[s]) = ch[s][1]
            /\ \A i \in 1 .. Len(ch'[s]) : ch'[s][i] = ch[s][i + 1]
        BY <1>0, <3>1, HeadTailProperties DEF TypeOK
      <4>3. /\ Len(got'[s]) = Len(got[s]) + 1
            /\ \A i \in 1 .. Len(got[s]) : got'[s][i] = got[s][i]
            /\ got'[s][Len(got[s]) + 1] = ch[s][1]
        BY <1>0, <3>1, <4>2, AppendProperties, HeadTailProperties DEF TypeOK
      <4>4. ASSUME NEW i \in 1 .. Len(got'[s]) PROVE got'[s][i] = since[s] + i
        <5>1. CASE i \in 1 .. Len(got[s])
          BY <4>1, <4>3, <5>1 DEF Chain
        <5>2. CASE i = Len(got[s]) + 1
          <6>1. ch[s][1] = since[s] + Len(got[s]) + 1
            BY <1>0, <4>1, <4>2 DEF Chain
          <6> QED BY <1>0, <4>3, <5>2, <6>1
        <5> QED BY <1>0, <4>3, <5>1, <5>2
      <4>5. ASSUME NEW i \in 1 .. Len(ch'[s]) PROVE ch'[s][i] = since[s] + Len(got'[s]) + i
        <5>1. i + 1 \in 1 .. Len(ch[s])
          BY <1>0, <4>2
        <5>2. ch[s][i + 1] = since[s] + Len(got[s]) + (i + 1)
          BY <4>1, <5>1 DEF Chain
        <5> DEFINE g == Len(got[s])
        <5>3. /\ g \in Nat /\ since[s] \in Nat /\ Len(got'[s]) = g + 1
              /\ ch'[s][i] = since[s] + g + (i + 1)
          BY <1>s, <4>2, <4>3, <5>2
        <5> HIDE DEF g
        <5>4. since[s] + g + (i + 1) = since[s] + (g + 1) + i
          BY <5>3
        <5> QED BY <5>3, <5>4
      <4>6. since[s] + Len(got'[s]) + Len(ch'[s]) = since[s] + Len(got[s]) + Len(ch[s])
        <5> DEFINE g == Len(got[s])
                   c == Len(ch[s])
        <5>1. /\ g \in Nat /\ c \in Nat /\ since[s] \in Nat
              /\ Len(got'[s]) = g + 1 /\ Len(ch'[s]) = c - 1
          BY <1>s, <4>2, <4>3
        <5> HIDE DEF g, c
        <5>2. since[s] + (g + 1) + (c - 1) = since[s] + g + c
          BY <5>1, SMTT(40)
        <5> QED BY <5>1, <5>2 DEF g, c
      <4>7. Chain(s)'
        BY <1>0, <3>1, <4>1, <4>4, <4>5, <4>6 DEF Chain
      <4> QED BY <1>0, <2>1, <3>1, <4>1, <4>7 DEF Held
    <3> QED BY <3>2, <3>3
  <2>2. CASE t # s
    BY <1>0, <1>9, <2>2, HeldSame DEF Read, msgVars, TypeOK
  <2> QED BY <2>1, <2>2
<1>10. ASSUME NEW t \in Subs,
              EndSession \/ \E s \in Subs : ContextEnds(s) \/ UnsubscribeSegment(s)
       PROVE  Held(t)'
  BY <1>0, <1>10, HeldSame DEF EndSession, ContextEnds, UnsubscribeSegment, msgVars
<1> QED BY <1>1, <1>2, <1>3, <1>4, <1>5, <1>6, <1>7, <1>8, <1>9, <1>10 DEF Next, Deliver

\* The invariant is inductive.
LEMMA BusInductive == Spec => []Inv
<1>1. Inv /\ [Next]_vars => Inv'
  <2> SUFFICES ASSUME Inv, [Next]_vars PROVE Inv'
    OBVIOUS
  <2>1. CASE Next
    <3>1. PresenceCountsViewers'
      BY <2>1, BusPresence DEF PresenceCountsViewers, Viewers
    <3> QED BY <2>1, <3>1, BusTypes, BusSorted, BusHeld, BusReplay DEF Inv
  <2>2. CASE UNCHANGED vars
    BY <2>2 DEF vars, msgVars, segVars, Inv, TypeOK, Sorted, Held, Chain, PresenceCountsViewers,
                ReplayIsCurrent
  <2> QED BY <2>1, <2>2
<1> QED BY <1>1, BusInit, PTL DEF Spec

\* The links of the chain, put together, are one run of events.
LEMMA ChainIsRun ==
  ASSUME TypeOK, NEW s \in Subs, Chain(s)
  PROVE  LET all == got[s] \o ch[s] \o hold[s] \o queue[s]
         IN /\ all = Run(since[s], since[s] + Len(all))
            /\ s \in clients /\ ~closed[s] => since[s] + Len(all) = events
<1> DEFINE a == got[s] \o ch[s]
           b == a \o hold[s]
           all == b \o queue[s]
           lg == Len(got[s])
           lc == Len(ch[s])
           lh == Len(hold[s])
           lq == Len(queue[s])
           f == since[s]
<1>1. /\ got[s] \in Seq(Items) /\ ch[s] \in Seq(Items) /\ hold[s] \in Seq(Items)
      /\ queue[s] \in Seq(Items) /\ f \in Nat /\ lg \in Nat /\ lc \in Nat /\ lh \in Nat /\ lq \in Nat
  BY DEF TypeOK
<1>2. /\ a \in Seq(Items) /\ Len(a) = lg + lc
      /\ \A i \in 1 .. lg + lc : a[i] = IF i <= lg THEN got[s][i] ELSE ch[s][i - lg]
  BY <1>1, ConcatProperties
<1>a. a \in Seq(Items) /\ hold[s] \in Seq(Items)
  BY <1>1, <1>2
<1> HIDE DEF a
<1>3. /\ b \in Seq(Items) /\ Len(b) = Len(a) + lh
      /\ \A i \in 1 .. Len(a) + lh : b[i] = IF i <= Len(a) THEN a[i] ELSE hold[s][i - Len(a)]
  BY <1>a, ConcatProperties
<1>b. b \in Seq(Items) /\ queue[s] \in Seq(Items)
  BY <1>1, <1>3
<1> HIDE DEF b
<1>4. /\ all \in Seq(Items) /\ Len(all) = Len(b) + lq
      /\ \A i \in 1 .. Len(b) + lq : all[i] = IF i <= Len(b) THEN b[i] ELSE queue[s][i - Len(b)]
  BY <1>b, ConcatProperties
<1>5. /\ \A i \in 1 .. lg : got[s][i] = f + i
      /\ \A i \in 1 .. lc : ch[s][i] = f + lg + i
      /\ \A i \in 1 .. lh : hold[s][i] = f + lg + lc + i
      /\ \A i \in 1 .. lq : queue[s][i] = f + lg + lc + lh + i
      /\ s \in clients /\ ~closed[s] => f + lg + lc + lh + lq = events
  BY DEF Chain
<1> DEFINE n == Len(all)
<1> HIDE DEF all, lg, lc, lh, lq, f
<1>6. Len(a) = lg + lc /\ Len(b) = lg + lc + lh /\ n = lg + lc + lh + lq /\ n \in Nat
  <2>1. n = Len(b) + lq
    BY <1>4
  <2> HIDE DEF n
  <2>2. n = lg + lc + lh + lq
    BY <1>2, <1>3, <2>1
  <2>3. n \in Nat
    BY <1>1, <2>2
  <2> QED BY <1>2, <1>3, <2>2, <2>3
<1>7. \A i \in 1 .. lg + lc : a[i] = f + i
  <2> SUFFICES ASSUME NEW i \in 1 .. lg + lc PROVE a[i] = f + i
    OBVIOUS
  <2>1. CASE i <= lg
    BY <1>1, <1>2, <1>5, <2>1, SMTT(40)
  <2>2. CASE ~(i <= lg)
    <3>1. i - lg \in 1 .. lc /\ f + lg + (i - lg) = f + i
      BY <1>1, <2>2
    <3> QED BY <1>2, <1>5, <2>2, <3>1
  <2> QED BY <2>1, <2>2
<1>8. \A i \in 1 .. lg + lc + lh : b[i] = f + i
  <2> SUFFICES ASSUME NEW i \in 1 .. lg + lc + lh PROVE b[i] = f + i
    OBVIOUS
  <2> DEFINE m == lg + lc
  <2>0. m \in Nat /\ Len(a) = m
    BY <1>1, <1>2
  <2>1. CASE i <= m
    BY <1>1, <1>3, <1>6, <1>7, <2>0, <2>1
  <2>2. CASE ~(i <= m)
    <3>1. i - m \in 1 .. lh /\ f + m + (i - m) = f + i
      BY <1>1, <2>0, <2>2
    <3>2. b[i] = hold[s][i - m] /\ hold[s][i - m] = f + m + (i - m)
      BY <1>1, <1>3, <1>5, <2>0, <2>2, <3>1
    <3> QED BY <3>1, <3>2
  <2> QED BY <2>1, <2>2
<1>9. \A i \in 1 .. n : all[i] = f + i
  <2> SUFFICES ASSUME NEW i \in 1 .. n PROVE all[i] = f + i
    OBVIOUS
  <2> DEFINE m == lg + lc + lh
  <2>0. m \in Nat /\ Len(b) = m /\ n = m + lq
    BY <1>1, <1>6
  <2>1. all[i] = IF i <= m THEN b[i] ELSE queue[s][i - m]
    BY <1>4, <2>0
  <2>2. i \in 1 .. m + lq
    BY <2>0
  <2> HIDE DEF n
  <2>3. CASE i <= m
    BY <1>1, <1>8, <2>0, <2>1, <2>2, <2>3
  <2>4. CASE ~(i <= m)
    <3>1. i - m \in 1 .. lq /\ f + m + (i - m) = f + i
      BY <1>1, <2>0, <2>2, <2>4
    <3>2. all[i] = queue[s][i - m] /\ queue[s][i - m] = f + lg + lc + lh + (i - m)
      BY <1>5, <2>1, <2>4, <3>1
    <3>3. f + lg + lc + lh = f + m
      BY <1>1
    <3> QED BY <3>1, <3>2, <3>3
  <2> QED BY <2>3, <2>4
<1>10. all = Run(f, f + n)
  <2>1. all = [i \in 1 .. n |-> all[i]]
    BY <1>4
  <2>2. 1 .. (f + n) - f = 1 .. n
    <3> HIDE DEF n
    <3> QED BY <1>1, <1>6
  <2>3. Run(f, f + n) = [i \in 1 .. n |-> f + i]
    BY <2>2 DEF Run
  <2> QED BY <1>9, <2>1, <2>3
<1>11. s \in clients /\ ~closed[s] => f + n = events
  <2> HIDE DEF n
  <2>1. f + n = f + lg + lc + lh + lq
    BY <1>1, <1>6
  <2> QED BY <1>5, <2>1
<1> QED BY <1>10, <1>11 DEF a, b, all, f

\* Viewers are counted exactly, however overflows, events and
\* unsubscriptions interleave (Publish, Unsubscribe and presentCount of
\* pkg/bus/bus.go).
THEOREM BusPresenceCounts == Spec => []PresenceCountsViewers
<1>1. Inv => PresenceCountsViewers
  BY DEF Inv
<1> QED BY <1>1, BusInductive, PTL

\* Every event subscriber gets a run of the events without a gap, up to the
\* last one unless it was cut off (enqueue and deliver of pkg/bus/bus.go).
THEOREM BusEventsInOrder == Spec => []EventsInOrder
<1>1. Inv => EventsInOrder
  BY ChainIsRun DEF Inv, Held, EventsInOrder
<1> QED BY <1>1, BusInductive, PTL

\* What is replayed to a newcomer is the end of the session under way
\* (PublishSegment and EndSession of pkg/bus/segchanman.go).
THEOREM BusReplayIsCurrent == Spec => []ReplayIsCurrent
<1>1. Inv => ReplayIsCurrent
  BY DEF Inv
<1> QED BY <1>1, BusInductive, PTL

\* The types: no channel, queue or buffer ever holds anything but what was
\* published (pkg/bus).
THEOREM BusTypeOK == Spec => []TypeOK
<1>1. Inv => TypeOK
  BY DEF Inv
<1> QED BY <1>1, BusInductive, PTL

-----------------------------------------------------------------------------
(***************************************************************************)
(* Segments.                                                               *)
(***************************************************************************)
\* What a segment subscriber has read, followed by what it can still read.
Feed(s) == got[s] \o ch[s]

\* The segments in a sequence of segments.
InFeed(a) == {a[i] : i \in 1 .. Len(a)}

\* A sequence of segments is in order and without repetition.
Rising(a) == \A i, j \in 1 .. Len(a) : i < j => a[i] < a[j]

\* The segments a subscriber gets and those it misses are apart, come after
\* its subscription, and are all there are since then.
Fed(s) ==
  /\ kind[s] = "none" => dropped[s] = {}
  /\ kind[s] = "segment" =>
       /\ since[s] <= segs
       /\ Rising(Feed(s))
       /\ InFeed(Feed(s)) \subseteq (since[s] + 1) .. segs
       /\ dropped[s] \subseteq (since[s] + 1) .. segs
       /\ InFeed(Feed(s)) \cap dropped[s] = {}
       /\ s \in segChans => (since[s] + 1) .. segs \subseteq InFeed(Feed(s)) \cup dropped[s]

\* Reading moves the next segment from the channel to what was read.
LEMMA ReadFeed ==
  ASSUME NEW S, NEW g \in Seq(S), NEW c \in Seq(S), c # << >>
  PROVE  Append(g, Head(c)) \o Tail(c) = g \o c
<1> DEFINE h == Head(c)
           t == Tail(c)
<1>1. h \in S /\ t \in Seq(S)
  BY HeadTailProperties
<1>2. c = <<h>> \o t
  <2>1. /\ Len(t) = Len(c) - 1 /\ Len(c) \in Nat /\ h = c[1]
        /\ \A i \in 1 .. Len(t) : t[i] = c[i + 1]
    BY HeadTailProperties
  <2>2. <<h>> \in Seq(S) /\ Len(<<h>>) = 1 /\ <<h>>[1] = h
    BY <1>1
  <2> DEFINE d == <<h>> \o t
             e == <<h>>
  <2> HIDE DEF h, t, e
  <2>3. e \in Seq(S) /\ t \in Seq(S) /\ Len(e) = 1 /\ e[1] = h
    BY <1>1, <2>2 DEF e
  <2>4. /\ e \o t \in Seq(S) /\ Len(e \o t) = 1 + Len(t)
        /\ \A i \in 1 .. 1 + Len(t) : (e \o t)[i] = IF i <= 1 THEN e[i] ELSE t[i - 1]
    <3>1. /\ e \o t \in Seq(S) /\ Len(e \o t) = Len(e) + Len(t)
          /\ \A i \in 1 .. Len(e) + Len(t) : (e \o t)[i] = IF i <= Len(e) THEN e[i] ELSE t[i - Len(e)]
      BY <2>3, ConcatProperties
    <3> QED BY <2>3, <3>1
  <2>5. Len(e \o t) = Len(c)
    BY <2>1, <2>4
  <2>6. ASSUME NEW i \in 1 .. Len(c) PROVE (e \o t)[i] = c[i]
    <3>1. CASE i = 1
      BY <2>1, <2>3, <2>4, <3>1
    <3>2. CASE i # 1
      <4>1. i - 1 \in 1 .. Len(t) /\ i \in 1 .. 1 + Len(t) /\ ~(i <= 1) /\ (i - 1) + 1 = i
        BY <2>1, <3>2
      <4>2. (e \o t)[i] = t[i - 1] /\ t[i - 1] = c[i]
        BY <2>1, <2>4, <4>1
      <4> QED BY <4>2
    <3> QED BY <3>1, <3>2
  <2>7. e \o t = c
    BY <2>4, <2>5, <2>6, SeqEqual
  <2> QED BY <2>7 DEF e
<1>3. <<h>> \in Seq(S) /\ Append(g, h) = g \o <<h>>
  BY <1>1, AppendIsConcat
<1>4. (g \o <<h>>) \o t = g \o (<<h>> \o t)
  BY <1>1, <1>3, ConcatAssociative
<1> QED BY <1>2, <1>3, <1>4

\* A segment sent to the channel comes last in the feed.
LEMMA SendFeed ==
  ASSUME NEW S, NEW g \in Seq(S), NEW c \in Seq(S), NEW x \in S
  PROVE  g \o Append(c, x) = Append(g \o c, x)
<1>1. g \o c \in Seq(S) /\ <<x>> \in Seq(S)
  BY ConcatProperties
<1>2. Append(c, x) = c \o <<x>> /\ Append(g \o c, x) = (g \o c) \o <<x>>
  BY <1>1, AppendIsConcat
<1>3. (g \o c) \o <<x>> = g \o (c \o <<x>>)
  BY <1>1, ConcatAssociative
<1> QED BY <1>2, <1>3

\* A segment later than all others keeps a feed in order.
LEMMA LaterSegment ==
  ASSUME NEW a \in Seq(Items), NEW n \in Nat, n + 1 \in Items, Rising(a), InFeed(a) \subseteq 0 .. n
  PROVE  /\ Rising(Append(a, n + 1))
         /\ InFeed(Append(a, n + 1)) = InFeed(a) \cup {n + 1}
<1> DEFINE b == Append(a, n + 1)
<1>1. /\ Len(a) \in Nat /\ Len(b) = Len(a) + 1 /\ b[Len(a) + 1] = n + 1
      /\ \A i \in 1 .. Len(a) : b[i] = a[i]
  BY AppendProperties
<1>2. \A i \in 1 .. Len(a) : a[i] \in Nat /\ a[i] < n + 1
  <2> SUFFICES ASSUME NEW i \in 1 .. Len(a) PROVE a[i] \in Nat /\ a[i] < n + 1
    OBVIOUS
  <2>1. a[i] \in 0 .. n
    BY DEF InFeed
  <2> QED BY <2>1
<1> HIDE DEF b
<1>3. Rising(b)
  <2> SUFFICES ASSUME NEW i \in 1 .. Len(b), NEW j \in 1 .. Len(b), i < j PROVE b[i] < b[j]
    BY DEF Rising
  <2>1. i \in 1 .. Len(a) /\ (j \in 1 .. Len(a) \/ j = Len(a) + 1)
    BY <1>1
  <2> QED BY <1>1, <1>2, <2>1 DEF Rising
<1>4. InFeed(b) = InFeed(a) \cup {n + 1}
  <2>1. 1 .. Len(b) = (1 .. Len(a)) \cup {Len(a) + 1}
    BY <1>1
  <2> QED BY <1>1, <2>1 DEF InFeed
<1> QED BY <1>3, <1>4 DEF b

\* What is replayed are the latest segments, in order.
LEMMA ReplayRises ==
  ASSUME TypeOK, ReplayIsCurrent, NEW n \in Replays
  PROVE  /\ Rising(Replay(n))
         /\ Len(Replay(n)) \in 0 .. segs
         /\ InFeed(Replay(n)) = (segs - Len(Replay(n)) + 1) .. segs
<1> DEFINE l == Len(segBuf)
           m == IF n > l THEN 1 ELSE l - n + 1
           r == Replay(n)
           k == Len(r)
<1>1. /\ l \in Nat /\ n \in Nat /\ segs \in Nat /\ \A i \in 1 .. l : segBuf[i] \in Items
      /\ \A i \in 1 .. l : segBuf[i] = segs - l + i
      /\ segs - l >= 0
  <2>1. segs - l >= ended /\ ended \in Nat /\ l \in Nat /\ segs \in Nat
    BY BusAssumption DEF TypeOK, ReplayIsCurrent
  <2> QED BY <2>1, ElementOfSeq, BusAssumption DEF TypeOK, ReplayIsCurrent
<1>2. m \in Nat /\ m >= 1 /\ m <= l + 1
  BY <1>1
<1>r. r = SubSeq(segBuf, m, l)
  BY DEF Replay
<1> HIDE DEF l, m, r
<1>3. /\ k = l - m + 1 /\ k \in Nat
      /\ \A i \in 1 .. k : r[i] = segBuf[m + i - 1]
  <2>1. \A i \in m .. l : segBuf[i] \in Items
    BY <1>1, <1>2
  <2>2. m \in Int /\ l \in Int
    BY <1>1, <1>2
  <2> DEFINE q == SubSeq(segBuf, m, l)
  <2>3. /\ Len(q) = IF m <= l THEN l - m + 1 ELSE 0
        /\ \A i \in 1 .. (l - m + 1) : q[i] = segBuf[m + i - 1]
    BY <2>1, <2>2, SubSeqProperties
  <2> HIDE DEF q
  <2>4. Len(q) = l - m + 1 /\ Len(q) \in Nat
    BY <1>1, <1>2, <2>3
  <2>5. r = q
    BY <1>r DEF q
  <2> QED BY <2>3, <2>4, <2>5
<1> HIDE DEF k
<1>4. ASSUME NEW i \in 1 .. k PROVE r[i] = segs - k + i
  <2>1. m + i - 1 \in 1 .. l
    BY <1>1, <1>2, <1>3
  <2>2. r[i] = segs - l + (m + i - 1)
    BY <1>1, <1>3, <2>1
  <2> QED BY <1>1, <1>2, <1>3, <2>2
<1>5. k \in 0 .. segs
  BY <1>1, <1>2, <1>3
<1>6. ASSUME NEW i \in 1 .. k, NEW j \in 1 .. k, i < j PROVE r[i] < r[j]
  <2>1. r[i] = segs - k + i /\ r[j] = segs - k + j
    BY <1>4, <1>6
  <2> QED BY <1>1, <1>5, <1>6, <2>1
<1>7. {r[i] : i \in 1 .. k} = (segs - k + 1) .. segs
  <2>1. ASSUME NEW x \in (segs - k + 1) .. segs PROVE x \in {r[i] : i \in 1 .. k}
    <3>1. x - (segs - k) \in 1 .. k /\ segs - k + (x - (segs - k)) = x
      BY <1>1, <1>5
    <3> QED BY <1>4, <3>1
  <2>2. ASSUME NEW i \in 1 .. k PROVE r[i] \in (segs - k + 1) .. segs
    <3>1. r[i] = segs - k + i
      BY <1>4
    <3> QED BY <1>1, <1>5, <3>1
  <2> QED BY <2>1, <2>2
<1> QED BY <1>5, <1>6, <1>7 DEF Rising, InFeed, r, k

\* A subscriber whose feed a step leaves alone.
LEMMA FedSame ==
  ASSUME NEW s \in Subs, Fed(s), kind'[s] = kind[s], Feed(s)' = Feed(s),
         since'[s] = since[s], dropped'[s] = dropped[s], segs' = segs, s \in segChans' => s \in segChans
  PROVE  Fed(s)'
BY DEF Fed

\* Every step keeps what subscribers are fed in order and complete.
LEMMA BusFed ==
  ASSUME Inv, \A s \in Subs : Fed(s), [Next]_vars
  PROVE  \A s \in Subs : Fed(s)'
<1>0. /\ TypeOK /\ Sorted /\ ReplayIsCurrent /\ \A t \in Subs : Held(t)
      /\ \A t \in Subs : got[t] \in Seq(Items) /\ ch[t] \in Seq(Items)
      /\ segs \in Nat /\ MaxItems \in Nat
  BY BusAssumption DEF Inv, TypeOK
<1>1. ASSUME UNCHANGED <<kind, ch, got, since, dropped, segs>>, segChans' \subseteq segChans, NEW t \in Subs
      PROVE  Fed(t)'
  BY <1>1, FedSame DEF Feed
<1>2. CASE Publish \/ EndSession \/ UNCHANGED vars
  BY <1>1, <1>2 DEF Publish, EndSession, vars, segVars
<1>3. ASSUME NEW s \in Subs, Unsubscribe(s) \/ UnsubscribeSegment(s) \/ ContextEnds(s) \/ Take(s) \/ DeliverStops(s),
             NEW t \in Subs
      PROVE  Fed(t)'
  BY <1>1, <1>3 DEF Unsubscribe, UnsubscribeSegment, ContextEnds, Take, DeliverStops, segVars
<1>4. ASSUME NEW s \in Subs, NEW k \in {"plain", "viewer"}, Subscribe(s, k), NEW t \in Subs
      PROVE  Fed(t)'
  <2>1. CASE t = s
    <3>1. kind'[t] = k
      BY <1>0, <1>4, <2>1 DEF Subscribe, TypeOK
    <3> QED BY <1>4, <3>1 DEF Fed
  <2>2. CASE t # s
    BY <1>0, <1>4, <2>2, FedSame DEF Subscribe, TypeOK, segVars, Feed
  <2> QED BY <2>1, <2>2
<1>5. ASSUME NEW s \in Subs, Send(s), NEW t \in Subs PROVE Fed(t)'
  <2>1. CASE t = s
    <3>1. kind[t] \notin {"none", "segment"} /\ kind' = kind
      BY <1>0, <1>5, <2>1 DEF Send, Held
    <3> QED BY <3>1 DEF Fed
  <2>2. CASE t # s
    BY <1>0, <1>5, <2>2, FedSame DEF Send, TypeOK, segVars, Feed
  <2> QED BY <2>1, <2>2
<1>6. ASSUME NEW s \in Subs, Read(s), NEW t \in Subs PROVE Fed(t)'
  <2>1. CASE t = s
    <3>1. ch[t] # << >> /\ got'[t] = Append(got[t], Head(ch[t])) /\ ch'[t] = Tail(ch[t])
      BY <1>0, <1>6, <2>1 DEF Read, TypeOK
    <3>2. Feed(t)' = Feed(t)
      BY <1>0, <3>1, ReadFeed DEF Feed
    <3> QED BY <1>6, <3>2, FedSame DEF Read, segVars
  <2>2. CASE t # s
    BY <1>0, <1>6, <2>2, FedSame DEF Read, TypeOK, segVars, Feed
  <2> QED BY <2>1, <2>2
<1>7. ASSUME NEW s \in Subs, NEW n \in Replays, SubscribeSegmentBuf(s, n), NEW t \in Subs
      PROVE  Fed(t)'
  <2>1. CASE t = s
    <3> DEFINE r == Replay(n)
    <3>0. r \in Seq(Items)
      BY <1>0, ReplayProperties
    <3>1. /\ kind[t] = "none" /\ kind'[t] = "segment" /\ ch'[t] = r /\ got'[t] = got[t]
          /\ since'[t] = segs - Len(r) /\ UNCHANGED <<segs, dropped>>
      BY <1>0, <1>7, <2>1 DEF SubscribeSegmentBuf, TypeOK
    <3>2. Rising(r) /\ Len(r) \in 0 .. segs /\ InFeed(r) = (segs - Len(r) + 1) .. segs
      BY <1>0, ReplayRises
    <3> HIDE DEF r
    <3>3. Feed(t)' = r
      <4>1. got[t] = << >>
        BY <1>0, <3>1 DEF Held
      <4>2. << >> \o r = r
        BY <3>0, ConcatEmptySeq
      <4> QED BY <3>1, <4>1, <4>2 DEF Feed
    <3>4. dropped'[t] = {} /\ since'[t] <= segs'
      BY <1>0, <3>1, <3>2 DEF Fed
    <3>5. InFeed(Feed(t)') = (since'[t] + 1) .. segs'
      BY <3>1, <3>2, <3>3
    <3>6. Rising(Feed(t)')
      BY <3>2, <3>3
    <3> QED BY <3>1, <3>4, <3>5, <3>6 DEF Fed
  <2>2. CASE t # s
    BY <1>0, <1>7, <2>2, FedSame DEF SubscribeSegmentBuf, TypeOK, Feed
  <2> QED BY <2>1, <2>2
<1>8. ASSUME PublishSegment, NEW t \in Subs PROVE Fed(t)'
  <2>1. CASE kind[t] # "segment"
    <3>1. kind' = kind /\ t \notin segChans /\ dropped'[t] = dropped[t]
      BY <1>0, <1>8, <2>1 DEF PublishSegment, Sorted, Lagging
    <3> QED BY <2>1, <3>1 DEF Fed
  <2>2. CASE kind[t] = "segment"
    <3>1. /\ UNCHANGED <<kind, since, segChans, got>> /\ segs' = segs + 1 /\ segs + 1 \in Items
      BY <1>0, <1>8 DEF PublishSegment, TypeOK, Items
    <3>2. \/ t \notin segChans /\ ch'[t] = ch[t] /\ dropped'[t] = dropped[t]
          \/ ch'[t] = ch[t] /\ dropped'[t] = dropped[t] \cup {segs + 1}
          \/ ch'[t] = Append(ch[t], segs + 1) /\ dropped'[t] = dropped[t]
      BY <1>0, <1>8 DEF PublishSegment, Lagging
    <3> DEFINE f == since[t]
               a == Feed(t)
               b == Feed(t)'
               d == dropped[t]
               e == dropped'[t]
    <3>3. /\ f \in Nat /\ f <= segs /\ Rising(a) /\ InFeed(a) \subseteq (f + 1) .. segs
          /\ d \subseteq (f + 1) .. segs /\ InFeed(a) \cap d = {}
          /\ t \in segChans => (f + 1) .. segs \subseteq InFeed(a) \cup d
      BY <1>0, <2>2 DEF Fed, TypeOK
    <3>4. a \in Seq(Items)
      BY <1>0, ConcatProperties DEF Feed
    <3>5. ch'[t] = ch[t] => b = a
      BY <3>1 DEF Feed
    <3>6. ch'[t] = Append(ch[t], segs + 1) => b = Append(a, segs + 1)
      <4>1. got[t] \o Append(ch[t], segs + 1) = Append(got[t] \o ch[t], segs + 1)
        <5> DEFINE g == got[t]
                   c == ch[t]
                   x == segs + 1
        <5>1. g \in Seq(Items) /\ c \in Seq(Items) /\ x \in Items
          BY <1>0, <3>1
        <5> HIDE DEF g, c, x
        <5>2. g \o Append(c, x) = Append(g \o c, x)
          BY <5>1, SendFeed
        <5> QED BY <5>2 DEF g, c, x
      <4> QED BY <3>1, <4>1 DEF Feed
    <3> HIDE DEF f, a, b, d, e
    <3>7. /\ Rising(Append(a, segs + 1))
          /\ InFeed(Append(a, segs + 1)) = InFeed(a) \cup {segs + 1}
      <4>1. InFeed(a) \subseteq 0 .. segs
        BY <1>0, <3>3
      <4> QED BY <1>0, <3>1, <3>3, <3>4, <4>1, LaterSegment
    <3>8. (f + 1) .. (segs + 1) = ((f + 1) .. segs) \cup {segs + 1} /\ segs + 1 \notin (f + 1) .. segs
      BY <1>0, <3>3
    <3>9. /\ f <= segs + 1 /\ Rising(b) /\ InFeed(b) \subseteq (f + 1) .. (segs + 1)
          /\ e \subseteq (f + 1) .. (segs + 1) /\ InFeed(b) \cap e = {}
          /\ t \in segChans => (f + 1) .. (segs + 1) \subseteq InFeed(b) \cup e
      <4>0. f <= segs + 1
        BY <1>0, <3>3
      <4>1. CASE t \notin segChans /\ b = a /\ e = d
        BY <3>3, <3>8, <4>0, <4>1
      <4>2. CASE b = a /\ e = d \cup {segs + 1}
        BY <3>3, <3>8, <4>0, <4>2
      <4>3. CASE b = Append(a, segs + 1) /\ e = d
        BY <3>3, <3>7, <3>8, <4>0, <4>3
      <4> QED BY <3>2, <3>5, <3>6, <4>1, <4>2, <4>3 DEF d, e
    <3> QED BY <2>2, <3>1, <3>9 DEF Fed, f, b, e
  <2> QED BY <2>1, <2>2
<1> QED BY <1>2, <1>3, <1>4, <1>5, <1>6, <1>7, <1>8 DEF Next, Deliver

\* A segment subscriber gets the segments in order and none twice, from the
\* replay on, and only those that found its channel full or the connection
\* ended are missing (SubscribeSegmentBuf and PublishSegment of
\* pkg/bus/segchanman.go).
THEOREM BusSegmentsInOrder == Spec => []SegmentsInOrder
<1> DEFINE AllFed == \A s \in Subs : Fed(s)
<1>1. Init => AllFed
  BY DEF Init, Fed
<1>2. Inv /\ AllFed /\ [Next]_vars => AllFed'
  BY BusFed
<1>3. AllFed => SegmentsInOrder
  <2> SUFFICES ASSUME AllFed, NEW s \in Subs, kind[s] = "segment"
               PROVE  LET all == got[s] \o ch[s]
                          has == {all[i] : i \in 1 .. Len(all)}
                      IN /\ \A i, j \in 1 .. Len(all) : i < j => all[i] < all[j]
                         /\ s \in segChans => has \cup dropped[s] = (since[s] + 1) .. segs
                         /\ has \cap dropped[s] = {}
    BY DEF SegmentsInOrder
  <2> DEFINE all == Feed(s)
             has == InFeed(Feed(s))
  <2>1. /\ Rising(all) /\ has \subseteq (since[s] + 1) .. segs
        /\ dropped[s] \subseteq (since[s] + 1) .. segs /\ has \cap dropped[s] = {}
        /\ s \in segChans => (since[s] + 1) .. segs \subseteq has \cup dropped[s]
    BY DEF Fed
  <2> HIDE DEF has
  <2>2. s \in segChans => has \cup dropped[s] = (since[s] + 1) .. segs
    BY <2>1
  <2> QED BY <2>1, <2>2 DEF has, Feed, InFeed, Rising
<1> QED BY <1>1, <1>2, <1>3, BusInductive, PTL DEF Spec

=============================================================================
