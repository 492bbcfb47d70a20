--------------------------- MODULE DirectorProofs ---------------------------
(***************************************************************************)
(* Proofs about pkg/director, for every number of segments: the lane that  *)
(* makes the segments of a stream publish in arrival order (Lane), and the *)
(* teardown of a stream session (StreamSession), in which, but for         *)
(* sessions that had a segment on its way through the director meanwhile,  *)
(* no goroutine sends on the uploader's closed channel and every recording *)
(* is closed.                                                              *)
(***************************************************************************)
EXTENDS Lane, StreamSession, TLAPS

-----------------------------------------------------------------------------
(***************************************************************************)
(* The inductive invariant behind the wake-ups.  From the head on, done    *)
(* holds exactly the released tickets: this is why the loop of release can *)
(* skip them without waking anybody and why the ticket it stops at is      *)
(* live.  A waiter that has not been woken is registered and still ahead.  *)
(***************************************************************************)
Claimed ==
  \A t \in Tickets : t < next <=> pc[t] # "unclaimed"

DoneIsReleased ==
  /\ head \notin done
  /\ \A t \in Tickets : t >= head => (t \in done <=> pc[t] = "released")

WaiterIsRegistered ==
  \A t \in Tickets : pc[t] = "waiting" => t \in woken \/ (t \in waiters /\ head < t)

LaneInv == LaneTypeOK /\ Claimed /\ DoneIsReleased /\ WaiterIsRegistered

(***************************************************************************)
(* The inductive invariant behind the order: whoever is told to publish    *)
(* and has not been overtaken is the head, and what has been published or  *)
(* overtaken is not ahead of it.                                           *)
(***************************************************************************)
GrantedIsHead ==
  \A t \in Tickets : pc[t] = "granted" /\ t \notin late => t = head

LateIsPassed ==
  \A t \in late : t < head

PublishedIsBehind ==
  \A i \in 1 .. Len(published) :
    published[i] <= head /\ pc[published[i]] \in {"leaving", "released"}

OrderInv == GrantedIsHead /\ LateIsPassed /\ PublishedIsBehind /\ PublishedInOrder

-----------------------------------------------------------------------------
\* newLane satisfies the wake-up invariant.
LEMMA InitLaneInv == LaneInit => LaneInv
<1> SUFFICES ASSUME LaneInit PROVE LaneInv
  OBVIOUS
<1>1. next \in 0 .. MaxTurns /\ head \in 0 .. next
  BY LaneAssumption DEF LaneInit
<1>2. pc \in [Tickets -> Places] /\ published \in Seq(Tickets)
  BY DEF LaneInit, Places
<1>5. ctxDone \in BOOLEAN /\ late \subseteq Tickets
  BY DEF LaneInit
<1>3. done = {} /\ waiters = {} /\ woken = {}
  BY DEF LaneInit
<1>4. Claimed /\ DoneIsReleased /\ WaiterIsRegistered
  BY LaneAssumption DEF LaneInit, Claimed, DoneIsReleased, WaiterIsRegistered, Tickets
<1> QED BY <1>1, <1>2, <1>3, <1>4, <1>5 DEF LaneInv, LaneTypeOK

\* Every critical section of the lane, and every step of its users, keeps it.
LEMMA NextLaneInv == LaneInv /\ [LaneNext]_laneVars => LaneInv'
<1> SUFFICES ASSUME LaneInv, [LaneNext]_laneVars PROVE LaneInv'
  OBVIOUS
<1> USE LaneAssumption DEF LaneInv, Tickets, Goto
<1>1. CASE Turn
  <2>1. LaneTypeOK'
    BY <1>1 DEF Turn, LaneTypeOK, Places
  <2>2. Claimed'
    BY <1>1 DEF Turn, LaneTypeOK, Claimed
  <2>3. DoneIsReleased'
    BY <1>1 DEF Turn, LaneTypeOK, Claimed, DoneIsReleased
  <2>4. WaiterIsRegistered'
    BY <1>1 DEF Turn, LaneTypeOK, WaiterIsRegistered
  <2> QED BY <2>1, <2>2, <2>3, <2>4
<1>2. CASE Cancel
  BY <1>2 DEF Cancel, LaneTypeOK, Claimed, DoneIsReleased, WaiterIsRegistered
<1>3. ASSUME NEW t \in Tickets, GiveUp(t) \/ Wake(t) \/ Cancelled(t) PROVE LaneInv'
  <2>1. LaneTypeOK'
    BY <1>3 DEF GiveUp, Wake, Cancelled, Answer, LaneTypeOK, Places
  <2>2. Claimed'
    BY <1>3 DEF GiveUp, Wake, Cancelled, Answer, LaneTypeOK, Claimed
  <2>3. DoneIsReleased'
    BY <1>3 DEF GiveUp, Wake, Cancelled, Answer, LaneTypeOK, DoneIsReleased
  <2>4. WaiterIsRegistered'
    BY <1>3 DEF GiveUp, Wake, Cancelled, Answer, LaneTypeOK, WaiterIsRegistered
  <2> QED BY <2>1, <2>2, <2>3, <2>4
<1>4. ASSUME NEW t \in Tickets, WaitEnter(t) PROVE LaneInv'
  <2>0. t < next /\ waiters' \subseteq waiters \cup {t}
    BY <1>4 DEF WaitEnter, Claimed
  <2>1. LaneTypeOK'
    BY <1>4, <2>0 DEF WaitEnter, Answer, LaneTypeOK, Places
  <2>2. Claimed'
    BY <1>4 DEF WaitEnter, Answer, LaneTypeOK, Claimed
  <2>3. DoneIsReleased'
    BY <1>4 DEF WaitEnter, Answer, LaneTypeOK, DoneIsReleased
  <2>4. WaiterIsRegistered'
    BY <1>4 DEF WaitEnter, Answer, LaneTypeOK, WaiterIsRegistered
  <2> QED BY <2>1, <2>2, <2>3, <2>4
<1>5. ASSUME NEW t \in Tickets, Publish(t) PROVE LaneInv'
  <2>1. LaneTypeOK'
    BY <1>5 DEF Publish, LaneTypeOK, Places
  <2>2. Claimed' /\ DoneIsReleased' /\ WaiterIsRegistered'
    BY <1>5 DEF Publish, LaneTypeOK, Claimed, DoneIsReleased, WaiterIsRegistered
  <2> QED BY <2>1, <2>2
<1>6. ASSUME NEW t \in Tickets, Expire(t) PROVE LaneInv'
  <2> DEFINE place == Answer(t, head')
  <2>0. /\ pc[t] = "waiting"
        /\ pc' = [pc EXCEPT ![t] = place]
        /\ place \in {"granted", "leaving"}
        /\ next' = next /\ published' = published /\ ctxDone' = ctxDone
        /\ t < next
    BY <1>6 DEF Expire, Answer, Claimed
  <2>3. late' \subseteq Tickets
    <3>1. late' = late \/ late' = late \cup {u \in head .. (t - 1) : pc[u] = "granted"}
      BY <1>6 DEF Expire
    <3>2. head .. (t - 1) \subseteq Tickets
      BY DEF LaneTypeOK
    <3> QED BY <3>1, <3>2 DEF LaneTypeOK
  <2>1. CASE head < t
    <3>1. /\ head' = t
          /\ done' = done \ (head .. (t - 1))
          /\ waiters' = waiters \ (head .. t)
          /\ woken' = woken \cup (waiters \cap (head .. (t - 1)))
      BY <1>6, <2>1 DEF Expire, Overtaken
    <3>2. LaneTypeOK'
      BY <2>0, <2>1, <2>3, <3>1 DEF LaneTypeOK, Places
    <3>3. Claimed'
      BY <2>0, <3>1 DEF LaneTypeOK, Claimed
    <3>4. DoneIsReleased'
      BY <2>0, <2>1, <3>1 DEF LaneTypeOK, DoneIsReleased
    <3>5. WaiterIsRegistered'
      BY <2>0, <2>1, <3>1 DEF LaneTypeOK, WaiterIsRegistered
    <3> QED BY <3>2, <3>3, <3>4, <3>5
  <2>2. CASE ~(head < t)
    <3>1. UNCHANGED <<head, done, waiters, woken>>
      BY <1>6, <2>2 DEF Expire
    <3>2. LaneTypeOK'
      BY <2>0, <2>3, <3>1 DEF LaneTypeOK, Places
    <3>3. Claimed' /\ DoneIsReleased' /\ WaiterIsRegistered'
      BY <2>0, <3>1 DEF LaneTypeOK, Claimed, DoneIsReleased, WaiterIsRegistered
    <3> QED BY <3>2, <3>3
  <2> QED BY <2>1, <2>2
<1>7. ASSUME NEW t \in Tickets, Release(t) PROVE LaneInv'
  <2>0. /\ pc[t] = "leaving"
        /\ pc' = [pc EXCEPT ![t] = "released"]
        /\ next' = next /\ published' = published /\ ctxDone' = ctxDone
        /\ late' = late /\ t < next
    BY <1>7 DEF Release, Claimed
  <2>1. CASE t < head
    <3>1. UNCHANGED <<head, done, waiters, woken>>
      BY <1>7, <2>1 DEF Release, Passed
    <3>2. LaneTypeOK'
      BY <2>0, <3>1 DEF LaneTypeOK, Places
    <3>3. Claimed' /\ DoneIsReleased' /\ WaiterIsRegistered'
      BY <2>0, <2>1, <3>1 DEF LaneTypeOK, Claimed, DoneIsReleased, WaiterIsRegistered
    <3> QED BY <3>2, <3>3
  <2>2. CASE ~(t < head)
    <3>1. PICK h \in head .. next :
            /\ Advances(h, done \cup {t})
            /\ head' = h
            /\ done' = (done \cup {t}) \ (head .. (h - 1))
            /\ woken' = woken \cup (waiters \cap {h})
            /\ waiters' = waiters \ {h}
      BY <1>7, <2>2 DEF Release, Passed
    <3>2. /\ h \notin done \cup {t}
          /\ \A k \in head .. (h - 1) : k \in done \cup {t}
      BY <3>1 DEF Advances
    <3>3. LaneTypeOK'
      BY <2>0, <2>2, <3>1, <3>2 DEF LaneTypeOK, Places
    <3>4. Claimed'
      BY <2>0, <3>1 DEF LaneTypeOK, Claimed
    <3>5. DoneIsReleased'
      BY <2>0, <3>1, <3>2 DEF LaneTypeOK, DoneIsReleased
    <3>6. \A u \in Tickets : pc'[u] = "waiting" =>
            u \in woken' \/ (u \in waiters' /\ head' < u)
      <4> SUFFICES ASSUME NEW u \in Tickets, pc'[u] = "waiting"
                   PROVE  u \in woken' \/ (u \in waiters' /\ head' < u)
        OBVIOUS
      <4>1. pc[u] = "waiting" /\ u # t
        BY <2>0 DEF LaneTypeOK
      <4>2. u >= head => u \notin done
        BY <4>1 DEF LaneTypeOK, DoneIsReleased
      <4>3. u \in woken \/ (u \in waiters /\ h <= u)
        BY <3>2, <4>1, <4>2 DEF LaneTypeOK, WaiterIsRegistered
      <4> QED BY <3>1, <4>3 DEF LaneTypeOK
    <3> QED BY <3>3, <3>4, <3>5, <3>6 DEF WaiterIsRegistered
  <2> QED BY <2>1, <2>2 DEF LaneTypeOK
<1>8. CASE UNCHANGED laneVars
  BY <1>8 DEF laneVars, LaneTypeOK, Claimed, DoneIsReleased, WaiterIsRegistered
<1> QED
  BY <1>1, <1>2, <1>3, <1>4, <1>5, <1>6, <1>7, <1>8 DEF LaneNext, Step

\* The wake-up invariant holds in every reachable state.
THEOREM LaneInvariant == LaneSpec => []LaneInv
  BY InitLaneInv, NextLaneInv, PTL DEF LaneSpec

\* lane.next, head and the two maps keep their types, and no released ticket
\* the head has passed lingers in lane.done, whatever the order of turn, wait
\* and release calls.
THEOREM LaneTypes == LaneSpec => []LaneTypeOK
<1>1. LaneInv => LaneTypeOK
  BY DEF LaneInv
<1> QED BY <1>1, LaneInvariant, PTL

\* A goroutine in wait whose turn has come or gone has been woken: release
\* and the expiring timer close every channel they must.
THEOREM LaneNoLostWakeup == LaneSpec => []NoLostWakeup
<1>1. LaneInv => NoLostWakeup
  BY LaneAssumption DEF LaneInv, LaneTypeOK, WaiterIsRegistered, NoLostWakeup, Tickets
<1> QED BY <1>1, LaneInvariant, PTL

\* The head never rests on a ticket that has already been released.
THEOREM LaneHeadIsLive == LaneSpec => []HeadIsLive
<1>1. LaneInv => HeadIsLive
  <2> SUFFICES ASSUME LaneInv, head < next PROVE pc[head] # "released"
    BY DEF HeadIsLive
  <2> USE LaneAssumption DEF LaneInv, LaneTypeOK, Tickets
  <2>1. PICK h \in Tickets : h = head
    OBVIOUS
  <2> QED BY <2>1 DEF DoneIsReleased
<1> QED BY <1>1, LaneInvariant, PTL

-----------------------------------------------------------------------------
(***************************************************************************)
(* What an abandoned ticket may do, from the type invariant alone.         *)
(***************************************************************************)
\* One step never grants the turn to a ticket the head has passed.
LEMMA AbandonedStep ==
  ASSUME LaneTypeOK, [LaneNext]_laneVars, NEW t \in Tickets,
         pc[t] \in {"working", "waiting"}, t < head
  PROVE  pc'[t] # "granted"
<1> USE LaneAssumption DEF Tickets, Goto
<1>1. CASE Turn
  BY <1>1 DEF Turn, LaneTypeOK
<1>2. CASE Cancel \/ UNCHANGED laneVars
  BY <1>2 DEF Cancel, laneVars
<1>3. ASSUME NEW u \in Tickets, Step(u) \/ Cancelled(u) PROVE pc'[t] # "granted"
  BY <1>3 DEF Step, Cancelled, GiveUp, WaitEnter, Wake, Answer, Publish, Release, LaneTypeOK
<1>4. ASSUME NEW u \in Tickets, Expire(u) PROVE pc'[t] # "granted"
  <2>1. pc' = [pc EXCEPT ![u] = Answer(u, head')] /\ head' >= head
    BY <1>4 DEF Expire, LaneTypeOK
  <2> QED BY <2>1 DEF Answer, LaneTypeOK
<1> QED BY <1>1, <1>2, <1>3, <1>4 DEF LaneNext

\* A segment passed by the head before its wait returned is never told to
\* publish: lane.wait re-reads the head on every way out.
THEOREM LaneAbandonedIsRefused == LaneSpec => AbandonedIsRefused
<1>1. LaneTypeOK /\ [LaneNext]_laneVars =>
        [\A t \in Tickets :
           pc[t] \in {"working", "waiting"} /\ t < head => pc'[t] # "granted"]_laneVars
  BY AbandonedStep
<1> QED BY <1>1, LaneTypes, PTL DEF LaneSpec, AbandonedIsRefused

-----------------------------------------------------------------------------
\* Initially nothing has been granted or published.
LEMMA InitOrderInv == LaneInit => OrderInv
  BY DEF LaneInit, OrderInv, GrantedIsHead, LateIsPassed, PublishedIsBehind, PublishedInOrder

\* Every step keeps the order invariant: only an expiring timer moves the
\* head while a ticket is granted, and it leaves that ticket in late.
LEMMA NextOrderInv ==
  ASSUME LaneInv, OrderInv, [LaneNext]_laneVars
  PROVE  OrderInv'
<1> USE LaneAssumption DEF LaneInv, OrderInv, Tickets, Goto
<1>0. /\ \A i \in 1 .. Len(published) : published[i] \in Tickets
      /\ late \subseteq Tickets
  BY DEF LaneTypeOK
<1>1. CASE Turn
  <2>1. \A i \in 1 .. Len(published) : published[i] # next
    <3>1. next \in Tickets /\ pc[next] = "unclaimed"
      BY <1>1 DEF Turn, LaneTypeOK, Claimed
    <3> QED BY <3>1 DEF PublishedIsBehind
  <2> QED BY <1>0, <1>1, <2>1 DEF Turn, LaneTypeOK, GrantedIsHead, LateIsPassed, PublishedIsBehind, PublishedInOrder
<1>2. CASE Cancel \/ UNCHANGED laneVars
  BY <1>2 DEF Cancel, laneVars, GrantedIsHead, LateIsPassed, PublishedIsBehind, PublishedInOrder
<1>3. ASSUME NEW t \in Tickets, GiveUp(t) \/ WaitEnter(t) \/ Wake(t) \/ Cancelled(t)
      PROVE  OrderInv'
  <2>1. /\ pc[t] \in {"working", "waiting"}
        /\ pc' = [pc EXCEPT ![t] = pc'[t]]
        /\ pc'[t] = "granted" => t = head
        /\ UNCHANGED <<head, published, late>>
    BY <1>3 DEF GiveUp, WaitEnter, Wake, Cancelled, Answer, LaneTypeOK
  <2>2. GrantedIsHead' /\ LateIsPassed'
    BY <2>1 DEF GrantedIsHead, LateIsPassed, LaneTypeOK
  <2>3. PublishedIsBehind'
    BY <1>0, <2>1 DEF PublishedIsBehind, LaneTypeOK
  <2> QED BY <2>1, <2>2, <2>3 DEF PublishedInOrder
<1>4. ASSUME NEW t \in Tickets, Expire(t) PROVE OrderInv'
  <2>1. /\ pc[t] = "waiting"
        /\ pc' = [pc EXCEPT ![t] = Answer(t, head')]
        /\ published' = published
        /\ head' >= head /\ (head' # head => head' = t /\ head < t)
        /\ head' \in Nat
    BY <1>4 DEF Expire, LaneTypeOK
  <2>2. /\ head' = head => late' = late
        /\ head' # head =>
             late' = late \cup {u \in head .. (t - 1) : pc[u] = "granted"}
    BY <1>4 DEF Expire, LaneTypeOK
  <2>3. GrantedIsHead'
    <3> SUFFICES ASSUME NEW u \in Tickets, pc'[u] = "granted", u \notin late'
                 PROVE  u = head'
      BY DEF GrantedIsHead
    <3>1. CASE u = t
      BY <2>1, <3>1 DEF Answer, LaneTypeOK
    <3>2. CASE u # t
      <4>1. pc[u] = "granted" /\ u \notin late
        BY <2>1, <2>2, <3>2 DEF LaneTypeOK
      <4>2. u = head
        BY <4>1 DEF GrantedIsHead
      <4>3. head \in Nat /\ t \in Nat
        BY DEF LaneTypeOK
      <4>4. ASSUME head' # head PROVE FALSE
        <5>1. head < t
          BY <2>1, <4>4
        <5>2. u \in head .. (t - 1)
          BY <4>2, <4>3, <5>1
        <5>3. u \in late'
          BY <2>2, <4>1, <4>4, <5>2
        <5> QED BY <5>3
      <4> QED BY <4>2, <4>4
    <3> QED BY <3>1, <3>2
  <2>4. LateIsPassed'
    <3> SUFFICES ASSUME NEW u \in late' PROVE u < head'
      BY DEF LateIsPassed
    <3>1. head \in Nat /\ t \in Nat
      BY DEF LaneTypeOK
    <3>2. CASE u \in late
      <4>1. u < head /\ u \in Nat
        BY <1>0, <3>2 DEF LateIsPassed
      <4> QED BY <2>1, <3>1, <4>1
    <3>3. CASE u \notin late
      <4>1. head' # head /\ u \in head .. (t - 1)
        BY <2>2, <3>3
      <4> QED BY <2>1, <3>1, <4>1
    <3> QED BY <3>2, <3>3
  <2>5. PublishedIsBehind'
    BY <1>0, <2>1 DEF PublishedIsBehind, LaneTypeOK
  <2>6. late \subseteq late'
    BY <2>2
  <2> QED BY <2>1, <2>3, <2>4, <2>5, <2>6 DEF PublishedInOrder
<1>5. ASSUME NEW t \in Tickets, Publish(t) PROVE OrderInv'
  <2>1. /\ head' = head /\ late' = late
        /\ published' = Append(published, t)
        /\ pc' = [pc EXCEPT ![t] = "leaving"]
        /\ t = head \/ t \in late
        /\ \A i \in 1 .. Len(published) : published[i] # t
    BY <1>0, <1>5 DEF Publish, GrantedIsHead, PublishedIsBehind
  <2>2. /\ Len(published') = Len(published) + 1
        /\ \A i \in 1 .. Len(published) : published'[i] = published[i]
        /\ published'[Len(published) + 1] = t
    BY <2>1 DEF LaneTypeOK
  <2>3. \A i \in 1 .. Len(published) : published[i] < t \/ t \in late
    BY <1>0, <2>1 DEF PublishedIsBehind, LaneTypeOK
  <2>4. GrantedIsHead' /\ LateIsPassed'
    BY <2>1 DEF GrantedIsHead, LateIsPassed, LaneTypeOK
  <2>5. PublishedIsBehind'
    BY <1>0, <2>1, <2>2 DEF PublishedIsBehind, LateIsPassed, LaneTypeOK
  <2>6. PublishedInOrder'
    <3>1. ASSUME NEW i \in 1 .. Len(published'), NEW j \in 1 .. Len(published'), i < j
          PROVE  published'[i] < published'[j] \/ published'[j] \in late'
      <4>1. Len(published) \in Nat
        BY DEF LaneTypeOK
      <4>2. i \in 1 .. Len(published)
        BY <2>2, <3>1, <4>1
      <4>3. CASE j = Len(published) + 1
        BY <2>1, <2>2, <2>3, <4>2, <4>3
      <4>4. CASE j \in 1 .. Len(published)
        BY <2>1, <2>2, <3>1, <4>2, <4>4 DEF PublishedInOrder
      <4> QED BY <2>2, <4>1, <4>3, <4>4
    <3> QED BY <3>1 DEF PublishedInOrder
  <2> QED BY <2>4, <2>5, <2>6
<1>6. ASSUME NEW t \in Tickets, Release(t) PROVE OrderInv'
  <2>1. /\ pc[t] = "leaving"
        /\ pc' = [pc EXCEPT ![t] = "released"]
        /\ published' = published /\ late' = late
    BY <1>6 DEF Release
  <2>2. /\ head' \in Nat /\ head' >= head
        /\ head \notin done \cup {t} => head' = head
    BY <1>6 DEF Release, Passed, Advances, LaneTypeOK
  <2>3. \A u \in Tickets : pc[u] = "granted" /\ u \notin late =>
          u = head /\ head \notin done \cup {t}
    BY <2>1 DEF GrantedIsHead, DoneIsReleased, LaneTypeOK
  <2>4. GrantedIsHead' /\ LateIsPassed'
    BY <1>0, <2>1, <2>2, <2>3 DEF GrantedIsHead, LateIsPassed, LaneTypeOK
  <2>5. PublishedIsBehind'
    BY <1>0, <2>1, <2>2 DEF PublishedIsBehind, LaneTypeOK
  <2> QED BY <2>1, <2>4, <2>5 DEF PublishedInOrder
<1> QED BY <1>1, <1>2, <1>3, <1>4, <1>5, <1>6 DEF LaneNext, Step

\* Segments reach the bus in arrival order, but for one overtaken between
\* being told to go and publishing, whatever timers fire and contexts end.
THEOREM LanePublishedInOrder == LaneSpec => []PublishedInOrder
<1>1. OrderInv => PublishedInOrder
  BY DEF OrderInv
<1>2. LaneInv /\ OrderInv /\ [LaneNext]_laneVars => OrderInv'
  BY NextOrderInv
<1> QED BY <1>1, <1>2, InitOrderInv, LaneInvariant, PTL DEF LaneSpec

-----------------------------------------------------------------------------
\* A step of the lane is an arrival, a delivery, an overtaking or a stutter
\* of the feed.
LEMMA FeedStep ==
  ASSUME LaneInv, OrderInv, [LaneNext]_laneVars
  PROVE  [Feed!Next]_<<next, published, late>>
<1> USE LaneAssumption DEF LaneInv, OrderInv, Tickets, Goto
<1>1. CASE Turn
  BY <1>1 DEF Turn, Feed!Next, Feed!Arrive
<1>2. CASE Cancel \/ UNCHANGED laneVars
  BY <1>2 DEF Cancel, laneVars
<1>3. ASSUME NEW t \in Tickets, Publish(t) PROVE [Feed!Next]_<<next, published, late>>
  <2>1. (t = head \/ t \in late) /\ pc[t] = "granted"
    BY <1>3 DEF Publish, GrantedIsHead
  <2>2. t \in 0 .. (next - 1)
    BY <2>1 DEF Claimed, LaneTypeOK
  <2>3. \A i \in 1 .. Len(published) : published[i] # t /\ (published[i] < t \/ t \in late)
    <3> SUFFICES ASSUME NEW i \in 1 .. Len(published)
                 PROVE  published[i] # t /\ (published[i] < t \/ t \in late)
      OBVIOUS
    <3>1. published[i] \in Tickets /\ published[i] <= head
      BY DEF LaneTypeOK, PublishedIsBehind
    <3>2. published[i] # t
      BY <2>1 DEF PublishedIsBehind
    <3> QED BY <2>1, <3>1, <3>2
  <2>4. Feed!Deliver(t)
    BY <1>3, <2>3 DEF Publish, Feed!Deliver
  <2> QED BY <2>2, <2>4 DEF Feed!Next
<1>4. ASSUME NEW t \in Tickets,
             GiveUp(t) \/ WaitEnter(t) \/ Wake(t) \/ Cancelled(t) \/ Release(t)
      PROVE  UNCHANGED <<next, published, late>>
  BY <1>4 DEF GiveUp, WaitEnter, Wake, Cancelled, Release
<1>5. ASSUME NEW t \in Tickets, Expire(t) PROVE [Feed!Next]_<<next, published, late>>
  <2>1. UNCHANGED <<next, published>>
    BY <1>5 DEF Expire
  <2>2. CASE late' = late
    BY <2>1, <2>2
  <2>3. CASE late' # late
    <3>1. late' = late \cup {u \in head .. (t - 1) : pc[u] = "granted"}
      BY <1>5, <2>3 DEF Expire
    <3>2. PICK u \in head .. (t - 1) : pc[u] = "granted" /\ u \notin late
      BY <2>3, <3>1
    <3>3. u \in Tickets /\ t \in Nat /\ head \in Nat
      BY <3>2 DEF LaneTypeOK
    <3>4. \A v \in head .. (t - 1) : pc[v] = "granted" /\ v \notin late => v = u
      BY <3>2, <3>3 DEF GrantedIsHead, LaneTypeOK
    <3>5. late' = late \cup {u}
      BY <3>1, <3>2, <3>4
    <3>6. \A i \in 1 .. Len(published) : published[i] # u
      BY <3>2 DEF PublishedIsBehind
    <3>7. u \in 0 .. (next - 1)
      BY <3>2, <3>3 DEF Claimed, LaneTypeOK
    <3> QED BY <2>1, <3>5, <3>6, <3>7 DEF Feed!Next, Feed!Overtake
  <2> QED BY <2>2, <2>3
<1> QED BY <1>1, <1>2, <1>3, <1>4, <1>5 DEF LaneNext, Step

\* The lane implements the ordered feed: each arrived segment is delivered at
\* most once, and after a later one only if it was overtaken.
THEOREM LaneImplementsFeed == LaneSpec => ImplementsFeed
<1>1. LaneInit => Feed!Init
  BY DEF LaneInit, Feed!Init
<1>2. LaneInv /\ OrderInv /\ [LaneNext]_laneVars => OrderInv'
  BY NextOrderInv
<1>3. LaneInv /\ OrderInv /\ [LaneNext]_laneVars => [Feed!Next]_<<next, published, late>>
  BY FeedStep
<1> QED
  BY <1>1, <1>2, <1>3, InitOrderInv, LaneInvariant, PTL
     DEF LaneSpec, ImplementsFeed, Feed!Spec

-----------------------------------------------------------------------------

\* The stages of Start.
Phases == {"none", "starting", "started", "running", "cancelled", "drained", "closed", "gone"}

\* The shape of the state, as far as the argument needs it.
Shape ==
  /\ cur \in Nat /\ created \in Nat /\ seg \in Nat
  /\ created <= seg /\ seg <= MaxSegs
  /\ phase \in [Sessions -> Phases]
  /\ up \in [Sessions -> {"none", "open", "closed"}]
  /\ dir \in {"idle", "await", "role", "record"}
  /\ sender \in [Segs -> {"none", "called", "checked", "sent", "refused", "panic"}]
  /\ owner \in [Segs -> Nat]
  /\ \A i \in Segs : owner[i] <= created
  /\ straddled \subseteq Sessions

\* The session in the map is the only live one, and a segment the director is
\* working on belongs to it, before its teardown begins, unless the session
\* straddles.
MapInv ==
  /\ \A s \in Sessions : s > created <=> phase[s] = "none"
  /\ \A s \in Sessions : s > created => up[s] = "none"
  /\ \A s \in Sessions : phase[s] \notin {"none", "gone"} => cur = s
  /\ cur # 0 => cur \in Sessions /\ cur <= created /\ phase[cur] \notin {"none", "gone"}
  /\ dir # "idle" => seg \in Segs /\ owner[seg] \in Sessions
  /\ dir # "idle" /\ owner[seg] \notin straddled =>
       /\ cur # 0 /\ owner[seg] = cur
       /\ phase[cur] \in {"starting", "started", "running"}

\* Once ss.g is drained none of its senders is left, and the uploader is closed
\* only after that.
TeardownInv ==
  /\ \A i \in Segs : i > seg => sender[i] = "none"
  /\ \A i \in Segs : sender[i] # "none" => owner[i] \in Sessions
  /\ \A i \in Segs : \A s \in Sessions :
       sender[i] \in {"called", "checked"} /\ owner[i] = s /\ s \notin straddled
         => phase[s] \notin {"drained", "closed", "gone"}
  /\ \A s \in Sessions : up[s] = "closed" => phase[s] \in {"closed", "gone"}
  /\ \A s \in Sessions : phase[s] \in {"closed", "gone"} => up[s] # "open" \/ s \in straddled
  /\ \A i \in Segs : sender[i] = "panic" => owner[i] \in straddled

SInv == Shape /\ MapInv /\ TeardownInv

\* A director without sessions satisfies the invariant.
LEMMA SInvInit == Init => SInv
BY SessionAssumption DEF Init, SInv, Shape, MapInv, TeardownInv, Phases, Sessions, Segs

\* Every step keeps the invariant.
LEMMA SInvStep ==
  ASSUME SInv, [Next]_vars
  PROVE  SInv'
<1> USE SessionAssumption DEF SInv
<1>u. CASE UNCHANGED <<cur, created, seg, phase, up, dir, sender, owner, straddled>>
  BY <1>u DEF Shape, MapInv, TeardownInv
<1>1. ASSUME NEW isLocal \in BOOLEAN, Receive(isLocal) PROVE SInv'
  <2>0. /\ dir = "idle" /\ seg < MaxSegs /\ seg' = seg + 1 /\ dir' = "await"
        /\ owner' = [owner EXCEPT ![seg + 1] = cur']
        /\ straddled' = IF TearingDown THEN straddled \cup {cur} ELSE straddled
        /\ up' = up /\ sender' = sender
    BY <1>1 DEF Receive
  <2>1. CASE NoSession
    <3>1. /\ created' = created + 1 /\ cur' = created + 1
          /\ phase' = [phase EXCEPT ![created + 1] = "starting"]
      BY <1>1, <2>1 DEF Receive
    <3>2. created + 1 \in Sessions /\ cur = 0 /\ phase[created + 1] = "none" /\ up[created + 1] = "none"
      BY <2>0, <2>1 DEF Shape, MapInv, Sessions, NoSession
    <3>0. straddled' = straddled
      BY <2>0, <3>2 DEF TearingDown
    <3>3. Shape'
      BY <2>0, <3>0, <3>1, <3>2 DEF Shape, Phases, Segs, Sessions
    <3>4. MapInv'
      BY <2>0, <3>0, <3>1, <3>2 DEF MapInv, Shape, Sessions, Segs
    <3>5. TeardownInv'
      BY <2>0, <3>0, <3>1, <3>2, SMTT(40) DEF MapInv, Shape, Sessions, Segs, TeardownInv
    <3> QED BY <3>3, <3>4, <3>5
  <2>2. CASE ~NoSession
    <3>1. UNCHANGED <<cur, created, phase>>
      BY <1>1, <2>2 DEF Receive
    <3>2. /\ cur \in Sessions /\ cur <= created
          /\ cur \notin straddled' => phase[cur] \in {"starting", "started", "running"}
          /\ straddled \subseteq straddled' /\ straddled' \subseteq Sessions
      BY <2>0, <2>2 DEF NoSession, TearingDown, MapInv, Shape, Phases
    <3>3. Shape'
      BY <2>0, <3>1, <3>2 DEF Shape, Segs
    <3>4. MapInv'
      <4>1. seg' \in Segs /\ owner'[seg'] = cur /\ cur # 0
        BY <2>0, <3>1, <3>2 DEF Shape, Segs, Sessions
      <4> QED BY <3>1, <3>2, <2>0, <4>1 DEF MapInv
    <3>5. TeardownInv'
      BY <2>0, <3>1, <3>2 DEF MapInv, Shape, Segs, TeardownInv
    <3> QED BY <3>3, <3>4, <3>5
  <2> QED BY <2>1, <2>2
<1>2. CASE Begin \/ Refuse
  <2>1. UNCHANGED <<cur, created, seg, phase, up, sender, owner, straddled>> /\ dir # "idle" /\ dir' \in {"role", "idle"}
    BY <1>2 DEF Begin, Refuse, session
  <2> QED BY <2>1 DEF Shape, MapInv, TeardownInv
<1>3. CASE RoleFromNewSegment
  <2>1. /\ UNCHANGED <<cur, created, seg, phase, sender, owner, straddled>>
        /\ dir = "role" /\ dir' = "record" /\ Mine \in Sessions /\ Mine <= created
        /\ Mine \notin straddled => phase[Mine] \in {"starting", "started", "running"}
    BY <1>3 DEF RoleFromNewSegment, Mine, MapInv, Shape
  <2>2. up' = up \/ \E v \in {"none", "open"} : up' = [up EXCEPT ![Mine] = v]
    BY <1>3, <2>1 DEF RoleFromNewSegment, TakeRole, NewUploader
  <2>3. /\ up' \in [Sessions -> {"none", "open", "closed"}]
        /\ \A s \in Sessions : s # Mine => up'[s] = up[s]
        /\ \A s \in Sessions : up'[s] # up[s] => up'[s] # "closed"
    BY <2>2 DEF Shape
  <2>4. Shape' /\ MapInv'
    BY <2>1, <2>3 DEF Shape, MapInv, Sessions
  <2> QED BY <2>1, <2>3, <2>4 DEF Shape, TeardownInv
<1>4. CASE Record
  <2>1. /\ UNCHANGED <<cur, created, seg, phase, up, owner, straddled>>
        /\ dir = "record" /\ dir' = "idle" /\ owner[seg] \in Sessions /\ seg \in Segs
        /\ owner[seg] \notin straddled => phase[owner[seg]] \in {"starting", "started", "running"}
        /\ (sender' = sender \/ sender' = [sender EXCEPT ![seg] = "called"])
    BY <1>4 DEF Record, session, MapInv
  <2> QED BY <2>1 DEF Shape, MapInv, TeardownInv, Segs
<1>5. ASSUME NEW s \in Sessions, Started(s) PROVE SInv'
  BY <1>5 DEF Started, director, Shape, MapInv, TeardownInv, Phases
<1>6. ASSUME NEW s \in Sessions, RoleFromStart(s) PROVE SInv'
  <2>1. /\ UNCHANGED <<cur, created, seg, dir, sender, owner, straddled>>
        /\ phase[s] = "started" /\ phase' = [phase EXCEPT ![s] = "running"]
    BY <1>6 DEF RoleFromStart, director
  <2>2. up' = up \/ \E v \in {"none", "open"} : up' = [up EXCEPT ![s] = v]
    BY <1>6 DEF RoleFromStart, TakeRole, NewUploader
  <2>3. /\ up' \in [Sessions -> {"none", "open", "closed"}]
        /\ \A t \in Sessions : t # s => up'[t] = up[t]
        /\ \A t \in Sessions : up'[t] # up[t] => up'[t] # "closed"
    BY <2>2 DEF Shape
  <2>4. s = cur /\ s <= created
    BY <2>1 DEF MapInv, Sessions
  <2>5. Shape'
    BY <2>1, <2>3 DEF Shape, Phases
  <2>6. MapInv'
    BY <2>1, <2>3, <2>4 DEF Shape, MapInv, Phases, Sessions
  <2>7. TeardownInv'
    BY <2>1, <2>3, <2>4 DEF Shape, TeardownInv, Phases
  <2> QED BY <2>5, <2>6, <2>7
<1>7. ASSUME NEW s \in Sessions, Timeout(s) PROVE SInv'
  <2>1. /\ UNCHANGED <<cur, created, seg, dir, up, sender, owner>>
        /\ phase[s] = "running" /\ phase' = [phase EXCEPT ![s] = "cancelled"]
        /\ straddled' = IF dir # "idle" /\ owner[seg] = s THEN straddled \cup {s} ELSE straddled
    BY <1>7 DEF Timeout, director, Mine
  <2>2. s = cur /\ s <= created
    BY <2>1 DEF MapInv, Sessions
  <2>3. Shape'
    BY <2>1 DEF Shape, Phases
  <2>4. MapInv'
    BY <2>1, <2>2 DEF Shape, MapInv, Phases
  <2>5. TeardownInv'
    BY <2>1, <2>2 DEF Shape, TeardownInv, Phases
  <2> QED BY <2>3, <2>4, <2>5
<1>8. ASSUME NEW s \in Sessions, Drain(s) PROVE SInv'
  <2>1. /\ UNCHANGED <<cur, created, seg, dir, up, sender, owner, straddled>>
        /\ phase[s] = "cancelled" /\ phase' = [phase EXCEPT ![s] = "drained"]
        /\ \A i \in Segs : owner[i] = s => sender[i] \notin {"called", "checked"}
    BY <1>8 DEF Drain, Drained, director
  <2> QED BY <2>1 DEF Shape, MapInv, TeardownInv, Phases
<1>9. ASSUME NEW s \in Sessions, Close(s) PROVE SInv'
  <2>1. /\ UNCHANGED <<cur, created, seg, dir, sender, owner, straddled>>
        /\ phase[s] = "drained" /\ phase' = [phase EXCEPT ![s] = "closed"]
        /\ up' = [up EXCEPT ![s] = IF up[s] = "open" THEN "closed" ELSE up[s]]
    BY <1>9 DEF Close, director
  <2>2. s = cur /\ s <= created
    BY <2>1 DEF MapInv, Sessions
  <2> QED BY <2>1, <2>2 DEF Shape, MapInv, TeardownInv, Phases
<1>10. ASSUME NEW s \in Sessions, Forget(s) PROVE SInv'
  <2>1. /\ UNCHANGED <<created, seg, dir, up, sender, owner, straddled>>
        /\ phase[s] = "closed" /\ phase' = [phase EXCEPT ![s] = "gone"] /\ cur' = 0
    BY <1>10 DEF Forget, director
  <2>2. s = cur /\ (dir = "idle" \/ owner[seg] \in straddled)
    BY <2>1 DEF MapInv, Shape
  <2> QED BY <2>1, <2>2 DEF Shape, MapInv, TeardownInv, Phases
<1>11. ASSUME NEW s \in Sessions, Goroutine(s) \/ Targets(s) PROVE SInv'
  BY <1>11, <1>u DEF Goroutine, Targets, LoopsEnd, StatusDeleted, MultiEnds, MultiFails,
                    PushStarts, PushStopped, PushEnds, director
<1>12. ASSUME NEW i \in Segs, SenderChecks(i) PROVE SInv'
  <2>1. /\ UNCHANGED <<cur, created, seg, phase, up, dir, owner, straddled>>
        /\ sender[i] = "called"
        /\ (sender' = [sender EXCEPT ![i] = "refused"] \/ sender' = [sender EXCEPT ![i] = "checked"])
    BY <1>12 DEF SenderChecks, session, director
  <2> QED BY <2>1 DEF Shape, MapInv, TeardownInv
<1>13. ASSUME NEW i \in Segs, SenderSends(i) PROVE SInv'
  <2>1. /\ UNCHANGED <<cur, created, seg, phase, up, dir, owner, straddled>>
        /\ sender[i] = "checked"
    BY <1>13 DEF SenderSends, session, director
  <2>2. owner[i] \in Sessions /\ (up[owner[i]] # "closed" \/ owner[i] \in straddled)
    BY <2>1 DEF TeardownInv
  <2>3. \/ sender' = [sender EXCEPT ![i] = "sent"]
        \/ sender' = [sender EXCEPT ![i] = "panic"] /\ owner[i] \in straddled
    BY <1>13, <2>2 DEF SenderSends
  <2> QED BY <2>1, <2>3 DEF Shape, MapInv, TeardownInv
<1>14. CASE UNCHANGED vars
  BY <1>14, <1>u DEF vars
<1> QED BY <1>1, <1>2, <1>3, <1>4, <1>5, <1>6, <1>7, <1>8, <1>9, <1>10, <1>11, <1>12, <1>13, <1>14
        DEF Next, DirectorStep, SessionStep, Sender

\* The invariant holds in every reachable state.
THEOREM SessionInvariant == Spec => []SInv
<1>1. SInv /\ [Next]_vars => SInv'
  BY SInvStep
<1> QED BY <1>1, SInvInit, PTL DEF Spec

\* Draining ss.g before s3Close is enough for every session no segment of which
\* is in the director's hands between its timeout and its removal: no
\* AddSegment or Cutover sends on the closed segCh (stream_session.go:169-176).
THEOREM SessionNoSendOnClosed == Spec => []NoSendOnClosed
<1>1. SInv => NoSendOnClosed
  BY DEF SInv, TeardownInv, NoSendOnClosed
<1> QED BY <1>1, SessionInvariant, PTL

\* With the same exception, a session that has left the director's map has
\* closed its recording.
THEOREM SessionRecordingClosed == Spec => []NoRecordingLeftOpen
<1>1. SInv => NoRecordingLeftOpen
  BY DEF SInv, TeardownInv, NoRecordingLeftOpen
<1> QED BY <1>1, SessionInvariant, PTL

-----------------------------------------------------------------------------
\* What HandleMultistreamTargets and the push it starts run under.
MultiOK ==
  /\ multi \in [Sessions -> {"none", "session", "director", "ended"}]
  /\ push \in [Sessions -> {"none", "session", "director", "stopped"}]

\* Every step keeps it.
LEMMA MultiStep ==
  ASSUME SInv, MultiOK, [Next]_vars PROVE MultiOK'
<1> USE DEF MultiOK
<1>1. CASE UNCHANGED <<multi, push>>
  BY <1>1
<1>2. CASE RoleFromNewSegment
  BY <1>2 DEF RoleFromNewSegment, TakeRole
<1>3. ASSUME NEW s \in Sessions, RoleFromStart(s) PROVE MultiOK'
  BY <1>3 DEF RoleFromStart, TakeRole
<1>4. ASSUME NEW s \in Sessions, MultiEnds(s) \/ MultiFails(s) PROVE MultiOK'
  BY <1>4 DEF MultiEnds, MultiFails
<1>10. ASSUME NEW s \in Sessions, PushStarts(s) \/ PushStopped(s) \/ PushEnds(s) PROVE MultiOK'
  BY <1>10 DEF PushStarts, PushStopped, PushEnds
<1>5. CASE UNCHANGED vars
  BY <1>5 DEF vars
<1>6. ASSUME NEW isLocal \in BOOLEAN, Receive(isLocal) PROVE UNCHANGED <<multi, push>>
  BY <1>6 DEF Receive
<1>7. CASE Begin \/ Refuse \/ Record
  BY <1>7 DEF Begin, Refuse, Record, session
<1>8. ASSUME NEW s \in Sessions,
             Started(s) \/ Timeout(s) \/ Drain(s) \/ Close(s) \/ Forget(s) \/ LoopsEnd(s) \/ StatusDeleted(s)
      PROVE  UNCHANGED <<multi, push>>
  BY <1>8 DEF Started, Timeout, Drain, Close, Forget, LoopsEnd, StatusDeleted
<1>9. ASSUME NEW i \in Segs, Sender(i) PROVE UNCHANGED <<multi, push>>
  BY <1>9 DEF Sender, SenderChecks, SenderSends, session
<1> QED BY <1>1, <1>2, <1>3, <1>4, <1>5, <1>6, <1>7, <1>8, <1>9, <1>10
        DEF Next, DirectorStep, SessionStep, Goroutine, Targets

\* The director's map and the sessions keep their types; in particular the
\* session in the map is exactly the one that has started and not ended.
THEOREM SessionTypeOK == Spec => []TypeOK
<1>1. Init => MultiOK
  BY DEF Init, MultiOK
<1>2. SInv /\ MultiOK /\ [Next]_vars => MultiOK'
  BY MultiStep
<1>3. SInv /\ MultiOK => TypeOK
  <2> SUFFICES ASSUME SInv, MultiOK PROVE TypeOK
    OBVIOUS
  <2> USE SessionAssumption DEF SInv
  <2>1. cur \in 0 .. created /\ created \in 0 .. MaxSegs /\ seg \in 0 .. MaxSegs
    BY DEF Shape, MapInv
  <2>2. owner \in [Segs -> 0 .. created]
    BY DEF Shape
  <2>3. \A s \in Sessions : s = cur <=> phase[s] \notin {"none", "gone"}
    BY DEF MapInv, Sessions
  <2> QED BY <2>1, <2>2, <2>3 DEF Shape, MapInv, MultiOK, Phases, TypeOK
<1> QED BY <1>1, <1>2, <1>3, SessionInvariant, PTL DEF Spec

=============================================================================
