-------------------------- MODULE SweepLanesProofs ---------------------------
(***************************************************************************)
(* What holds of a sweep's scheduler for any number of hosts and           *)
(* repositories and any number of slots: slots are conserved, and a        *)
(* repository in a queue has a worker.                                     *)
(***************************************************************************)
EXTENDS SweepLanes, TLAPS, FiniteSetTheorems, SequenceTheorems

\* A lane waits for a slot at most once, only lanes whose worker is in its
\* select wait, such a worker waits or has been granted a slot, and whoever
\* was granted one still runs.
SlotsPlaced ==
  /\ \A j, k \in 1 .. Len(waiting) : waiting[j] = waiting[k] => j = k
  /\ \A k \in 1 .. Len(waiting) : worker[waiting[k]] = "select" /\ waiting[k] \notin granted
  /\ \A l \in Lanes : worker[l] = "select" =>
       l \in granted \/ \E k \in 1 .. Len(waiting) : waiting[k] = l
  /\ \A l \in granted : worker[l] \in {"select", "loop", "next", "work"}

\* A lane works on one repository at a time.
OneAtWork == \A l \in Lanes : \A i, j \in Busy(l) : i = j

Inv == TypeOK /\ SlotsConserved /\ SlotsPlaced /\ LaneIsServed /\ OneAtWork

\* The set of lanes that hold a slot is finite.
LEMMA GrantedFinite ==
  ASSUME TypeOK
  PROVE  IsFiniteSet(granted) /\ Cardinality(granted) \in Nat
BY SweepAssumption, FS_Subset, FS_CardinalityType DEF TypeOK

\* What RemoveAt, of SequencesExt, leaves.
LEMMA RemoveAtProperties ==
  ASSUME NEW S, NEW s \in Seq(S), NEW k \in 1 .. Len(s)
  PROVE  /\ RemoveAt(s, k) \in Seq(S)
         /\ Len(RemoveAt(s, k)) = Len(s) - 1
         /\ \A i \in 1 .. Len(s) - 1 : RemoveAt(s, k)[i] = IF i < k THEN s[i] ELSE s[i + 1]
<1> DEFINE a == SubSeq(s, 1, k - 1)
           b == SubSeq(s, k + 1, Len(s))
<1>0. Len(s) \in Nat /\ k \in Int /\ \A i \in 1 .. Len(s) : s[i] \in S
  BY ElementOfSeq
<1>1. a \in Seq(S) /\ Len(a) = k - 1 /\ \A i \in 1 .. k - 1 : a[i] = s[i]
  <2>1. \A i \in 1 .. k - 1 : s[i] \in S
    BY <1>0
  <2>2. /\ a \in Seq(S) /\ Len(a) = (IF 1 <= k - 1 THEN k - 1 - 1 + 1 ELSE 0)
        /\ \A i \in 1 .. (k - 1 - 1 + 1) : a[i] = s[1 + i - 1]
    BY <1>0, <2>1, SubSeqProperties
  <2> QED BY <1>0, <2>2
<1>2. b \in Seq(S) /\ Len(b) = Len(s) - k /\ \A i \in 1 .. Len(s) - k : b[i] = s[k + i]
  <2>1. \A i \in k + 1 .. Len(s) : s[i] \in S
    BY <1>0
  <2>2. /\ b \in Seq(S) /\ Len(b) = (IF k + 1 <= Len(s) THEN Len(s) - (k + 1) + 1 ELSE 0)
        /\ \A i \in 1 .. (Len(s) - (k + 1) + 1) : b[i] = s[k + 1 + i - 1]
    BY <1>0, <2>1, SubSeqProperties
  <2> QED BY <1>0, <2>2
<1> HIDE DEF a, b
<1>3. /\ a \o b \in Seq(S) /\ Len(a \o b) = Len(a) + Len(b)
      /\ \A i \in 1 .. Len(a) + Len(b) : (a \o b)[i] = IF i <= Len(a) THEN a[i] ELSE b[i - Len(a)]
  BY <1>1, <1>2, ConcatProperties
<1>4. RemoveAt(s, k) = a \o b
  BY DEF RemoveAt, a, b
<1>5. ASSUME NEW i \in 1 .. Len(s) - 1
      PROVE  (a \o b)[i] = IF i < k THEN s[i] ELSE s[i + 1]
  <2>1. CASE i < k
    BY <1>0, <1>1, <1>2, <1>3, <2>1
  <2>2. CASE ~(i < k)
    <3>1. (a \o b)[i] = b[i - (k - 1)] /\ i - (k - 1) \in 1 .. Len(s) - k
      BY <1>0, <1>1, <1>2, <1>3, <2>2
    <3> QED BY <1>0, <1>2, <2>2, <3>1
  <2> QED BY <2>1, <2>2
<1>6. Len(a) + Len(b) = Len(s) - 1
  BY <1>0, <1>1, <1>2
<1>7. RemoveAt(s, k) \in Seq(S) /\ Len(RemoveAt(s, k)) = Len(s) - 1
  BY <1>3, <1>4, <1>6
<1> QED BY <1>4, <1>5, <1>7

\* A new scheduler has all its slots.
LEMMA SweepInit == Init => Inv
<1> SUFFICES ASSUME Init PROVE Inv
  OBVIOUS
<1>1. TypeOK
  <2>1. waiting \in Seq(Lanes)
    BY EmptySeq DEF Init
  <2>2. 0 \in 0 .. MaxRounds - 1
    BY SweepAssumption
  <2> QED BY SweepAssumption, <2>1, <2>2 DEF Init, TypeOK, Places, Workers
<1>2. SlotsConserved
  BY SweepAssumption, FS_EmptySet DEF Init, SlotsConserved
<1>3. SlotsPlaced
  BY DEF Init, SlotsPlaced
<1>4. LaneIsServed /\ OneAtWork
  BY DEF Init, LaneIsServed, OneAtWork, Queued, Busy, Queues, AtWork
<1> QED BY <1>1, <1>2, <1>3, <1>4 DEF Inv

\* The steps of a worker that only move it, from a state with a slot to a state
\* with a slot, leave the slots as they are.
LEMMA SlotsUntouched ==
  ASSUME Inv, NEW l \in Lanes,
         l \in granted,
         NEW w \in {"loop", "next", "work"},
         worker' = [worker EXCEPT ![l] = w],
         UNCHANGED <<waiting, granted, free, leaving>>
  PROVE  SlotsConserved' /\ SlotsPlaced'
<1>1. SlotsConserved'
  BY DEF Inv, TypeOK, SlotsConserved
<1>2. SlotsPlaced'
  BY DEF Inv, TypeOK, SlotsPlaced
<1> QED BY <1>1, <1>2

\* Every step keeps the types.
LEMMA SweepTypes == ASSUME Inv, Next PROVE TypeOK'
<1> USE DEF Inv, TypeOK, Places, Queues, AtWork, Workers
<1>1. ASSUME NEW i \in Repos, NEW queue \in Queues, Add(i, queue) PROVE TypeOK'
  <2>1. LaneOf[i] \in Lanes
    BY SweepAssumption
  <2>2. Append(waiting, LaneOf[i]) \in Seq(Lanes)
    BY <2>1, AppendProperties
  <2>3. CASE live[LaneOf[i]]
    BY <1>1, <2>3 DEF Add
  <2>4. CASE ~live[LaneOf[i]] /\ free > 0
    <3>1. free' \in Nat /\ waiting' = waiting /\ leaving' = leaving
      BY <1>1, <2>4 DEF Add, Acquire
    <3>2. granted' \in SUBSET Lanes
      BY <1>1, <2>1, <2>4 DEF Add, Acquire
    <3> QED BY <1>1, <2>1, <2>4, <3>1, <3>2 DEF Add
  <2>5. CASE ~live[LaneOf[i]] /\ ~(free > 0)
    BY <1>1, <2>1, <2>2, <2>5 DEF Add, Acquire
  <2> QED BY <2>3, <2>4, <2>5
<1>2. ASSUME NEW l \in Lanes, Granted(l) PROVE TypeOK'
  BY <1>2 DEF Granted
<1>3. ASSUME NEW l \in Lanes, GiveUp(l) PROVE TypeOK'
  <2>1. \A k \in DOMAIN waiting : RemoveAt(waiting, k) \in Seq(Lanes)
    BY RemoveAtProperties
  <2> QED BY <1>3, <2>1 DEF GiveUp, PassedOn
<1>4. ASSUME NEW l \in Lanes, Quit(l) PROVE TypeOK'
  BY <1>4 DEF Quit, Abandoned
<1>5. ASSUME NEW l \in Lanes, Stop(l) PROVE TypeOK'
  BY <1>5 DEF Stop, Leave, Abandoned
<1>6. ASSUME NEW l \in Lanes, Look(l) PROVE TypeOK'
  BY <1>6 DEF Look
<1>7. ASSUME NEW l \in Lanes, Exhausted(l) PROVE TypeOK'
  BY <1>7 DEF Exhausted, Leave
<1>8. ASSUME NEW l \in Lanes, NEW i \in Repos, NextStep(l, i) PROVE TypeOK'
  BY <1>8 DEF NextStep, First, Queued
<1>9. ASSUME NEW l \in Lanes, NEW i \in Repos, WorkDone(l, i) PROVE TypeOK'
  BY <1>9 DEF WorkDone
<1>10. ASSUME NEW l \in Lanes, NEW i \in Repos, WorkDrifted(l, i) PROVE TypeOK'
  BY <1>10 DEF WorkDrifted
<1>11. ASSUME NEW l \in Lanes, NEW i \in Repos, WorkMore(l, i) PROVE TypeOK'
  <2> DEFINE n == IF place[i] = "deepening" THEN rung[i] + 1 ELSE 0
  <2>1. n \in Nat
    OBVIOUS
  <2> HIDE DEF n
  <2>2. CASE MayPush(n)
    <3>1. n \in 0 .. MaxRounds - 1
      BY <2>1, <2>2, SweepAssumption DEF MayPush
    <3> QED BY <1>11, <2>2, <3>1 DEF WorkMore, n
  <2>3. CASE ~MayPush(n)
    BY <1>11, <2>3 DEF WorkMore, n
  <2> QED BY <2>2, <2>3
<1>12. ASSUME Release PROVE TypeOK'
  <2>1. CASE SomeoneWaits
    <3>1. Head(waiting) \in Lanes /\ Tail(waiting) \in Seq(Lanes)
      BY <2>1, HeadTailProperties DEF SomeoneWaits
    <3>2. waiting' \in Seq(Lanes) /\ granted' \in SUBSET Lanes /\ free' = free
      BY <1>12, <2>1, <3>1 DEF Release
    <3>3. leaving' \in Nat
      BY <1>12 DEF Release
    <3> QED BY <1>12, <3>2, <3>3 DEF Release
  <2>2. CASE ~SomeoneWaits
    BY <1>12, <2>2 DEF Release
  <2> QED BY <2>1, <2>2
<1>13. ASSUME Cancel PROVE TypeOK'
  BY <1>13 DEF Cancel
<1> QED BY <1>1, <1>2, <1>3, <1>4, <1>5, <1>6, <1>7, <1>8, <1>9, <1>10, <1>11, <1>12, <1>13
        DEF Next, Step

\* Every step conserves the slots.
LEMMA SweepSlots == ASSUME Inv, Next PROVE SlotsConserved' /\ SlotsPlaced'
<1> USE GrantedFinite
<1>0. \A l \in Lanes : worker[l] \in {"loop", "next", "work"} => l \in granted
  BY DEF Inv, SlotsConserved
<1>1. ASSUME NEW i \in Repos, NEW queue \in Queues, Add(i, queue)
      PROVE  SlotsConserved' /\ SlotsPlaced'
  <2> DEFINE l == LaneOf[i]
  <2>1. l \in Lanes
    BY SweepAssumption
  <2> HIDE DEF l
  <2>2. CASE live[l]
    BY <1>1, <2>2 DEF Add, l, Inv, SlotsConserved, SlotsPlaced
  <2>3. CASE ~live[l]
    <3>1. /\ worker[l] = "none" /\ worker' = [worker EXCEPT ![l] = "select"]
          /\ Acquire(l) /\ leaving' = leaving
      BY <1>1, <2>1, <2>3 DEF Add, l, Inv, LaneIsServed
    <3>2. l \notin granted /\ \A k \in 1 .. Len(waiting) : waiting[k] # l
      BY <3>1 DEF Inv, SlotsPlaced
    <3>3. CASE free > 0
      <4>1. free' = free - 1 /\ granted' = granted \cup {l} /\ waiting' = waiting
        BY <3>1, <3>3 DEF Acquire
      <4>2. Cardinality(granted') = Cardinality(granted) + 1
        BY <3>2, <4>1, FS_AddElement DEF Inv
      <4>3. waiting = << >>
        BY <3>3 DEF Inv, SlotsConserved, TypeOK
      <4>4. SlotsConserved'
        BY <2>1, <3>1, <4>1, <4>2, <4>3 DEF Inv, TypeOK, SlotsConserved
      <4>5. SlotsPlaced'
        BY <2>1, <3>1, <3>2, <4>1, <4>3 DEF Inv, TypeOK, SlotsPlaced
      <4> QED BY <4>4, <4>5
    <3>4. CASE ~(free > 0)
      <4>1. free' = free /\ granted' = granted /\ waiting' = Append(waiting, l)
        BY <3>1, <3>4 DEF Acquire
      <4>2. /\ Len(waiting) \in Nat /\ Len(waiting') = Len(waiting) + 1
            /\ \A k \in 1 .. Len(waiting) : waiting'[k] = waiting[k]
            /\ waiting'[Len(waiting) + 1] = l
        BY <2>1, <4>1, AppendProperties DEF Inv, TypeOK
      <4>3. SlotsConserved'
        BY <2>1, <3>1, <3>4, <4>1 DEF Inv, TypeOK, SlotsConserved
      <4>4. \A k \in 1 .. Len(waiting') :
              \/ k \in 1 .. Len(waiting) /\ waiting'[k] = waiting[k]
              \/ k = Len(waiting) + 1 /\ waiting'[k] = l
        BY <4>2
      <4>5. \A j, k \in 1 .. Len(waiting') : waiting'[j] = waiting'[k] => j = k
        BY <3>2, <4>4 DEF Inv, SlotsPlaced
      <4>6. \A k \in 1 .. Len(waiting') : worker'[waiting'[k]] = "select" /\ waiting'[k] \notin granted'
        BY <2>1, <3>1, <3>2, <4>1, <4>4 DEF Inv, TypeOK, SlotsPlaced
      <4>7. ASSUME NEW m \in Lanes, worker'[m] = "select"
            PROVE  m \in granted' \/ \E k \in 1 .. Len(waiting') : waiting'[k] = m
        <5>1. CASE m = l
          BY <4>2, <5>1
        <5>2. CASE m # l
          <6>1. m \in granted \/ \E k \in 1 .. Len(waiting) : waiting[k] = m
            BY <2>1, <3>1, <4>7, <5>2 DEF Inv, TypeOK, SlotsPlaced
          <6> QED BY <4>1, <4>2, <6>1
        <5> QED BY <5>1, <5>2
      <4>8. \A m \in granted' : worker'[m] \in {"select", "loop", "next", "work"}
        BY <2>1, <3>1, <3>2, <4>1 DEF Inv, TypeOK, SlotsPlaced
      <4> QED BY <4>3, <4>5, <4>6, <4>7, <4>8 DEF SlotsPlaced
    <3> QED BY <3>3, <3>4
  <2> QED BY <2>2, <2>3
<1>2. ASSUME NEW l \in Lanes, Granted(l) PROVE SlotsConserved' /\ SlotsPlaced'
  BY <1>2, SlotsUntouched DEF Granted
<1>3. ASSUME NEW l \in Lanes, GiveUp(l) PROVE SlotsConserved' /\ SlotsPlaced'
  <2>0. worker[l] = "select" /\ worker' = [worker EXCEPT ![l] = "quitting"] /\ free' = free
    BY <1>3 DEF GiveUp
  <2>1. ASSUME NEW k \in DOMAIN waiting, waiting[k] = l,
               waiting' = RemoveAt(waiting, k), UNCHANGED <<granted, leaving>>
        PROVE  SlotsConserved' /\ SlotsPlaced'
    <3>0. /\ k \in 1 .. Len(waiting) /\ Len(waiting) \in Nat
          /\ Len(waiting') = Len(waiting) - 1
          /\ \A j \in 1 .. Len(waiting) - 1 :
               waiting'[j] = IF j < k THEN waiting[j] ELSE waiting[j + 1]
      BY <2>1, RemoveAtProperties DEF Inv, TypeOK
    <3>1. SlotsConserved'
      <4>1. waiting # << >>
        BY <3>0
      <4> QED BY <2>0, <2>1, <4>1 DEF Inv, TypeOK, SlotsConserved
    <3>2. \A j \in 1 .. Len(waiting') : \E n \in 1 .. Len(waiting) :
            waiting'[j] = waiting[n] /\ n # k /\ n = IF j < k THEN j ELSE j + 1
      <4> SUFFICES ASSUME NEW j \in 1 .. Len(waiting')
                   PROVE  \E n \in 1 .. Len(waiting) :
                            waiting'[j] = waiting[n] /\ n # k /\ n = IF j < k THEN j ELSE j + 1
        OBVIOUS
      <4>1. CASE j < k
        BY <3>0, <4>1
      <4>2. CASE ~(j < k)
        <5>1. j + 1 \in 1 .. Len(waiting) /\ waiting'[j] = waiting[j + 1] /\ j + 1 # k
          BY <3>0, <4>2
        <5> QED BY <4>2, <5>1
      <4> QED BY <4>1, <4>2
    <3>3. \A j, m \in 1 .. Len(waiting') : waiting'[j] = waiting'[m] => j = m
      BY <3>0, <3>2 DEF Inv, SlotsPlaced
    <3>4. \A j \in 1 .. Len(waiting') : waiting'[j] # l /\ worker[waiting'[j]] = "select"
                                       /\ waiting'[j] \notin granted
      BY <2>1, <3>0, <3>2 DEF Inv, SlotsPlaced
    <3>5. \A j \in 1 .. Len(waiting') : worker'[waiting'[j]] = "select" /\ waiting'[j] \notin granted'
      BY <2>0, <2>1, <3>4 DEF Inv, TypeOK
    <3>6. ASSUME NEW m \in Lanes, worker'[m] = "select"
          PROVE  m \in granted' \/ \E j \in 1 .. Len(waiting') : waiting'[j] = m
      <4>1. m # l /\ worker[m] = "select"
        BY <2>0, <3>6 DEF Inv, TypeOK
      <4>2. ASSUME NEW n \in 1 .. Len(waiting), waiting[n] = m
            PROVE  \E j \in 1 .. Len(waiting') : waiting'[j] = m
        <5>1. n # k
          BY <2>1, <4>1, <4>2
        <5>2. CASE n < k
          BY <3>0, <4>2, <5>2
        <5>3. CASE n > k
          <6>1. n - 1 \in 1 .. Len(waiting') /\ ~(n - 1 < k) /\ (n - 1) + 1 = n
            BY <3>0, <5>3
          <6> QED BY <3>0, <4>2, <6>1
        <5> QED BY <3>0, <5>1, <5>2, <5>3
      <4> QED BY <2>1, <4>1, <4>2 DEF Inv, SlotsPlaced
    <3>7. \A m \in granted' : worker'[m] \in {"select", "loop", "next", "work"}
      <4>1. l \notin granted
        BY <2>1, <3>0 DEF Inv, SlotsPlaced
      <4> QED BY <2>0, <2>1, <4>1 DEF Inv, TypeOK, SlotsPlaced
    <3> QED BY <3>1, <3>3, <3>5, <3>6, <3>7 DEF SlotsPlaced
  <2>2. ASSUME \A k \in DOMAIN waiting : waiting[k] # l,
               granted' = granted \ {l}, leaving' = PassedOn(leaving), waiting' = waiting
        PROVE  SlotsConserved' /\ SlotsPlaced'
    <3>0. DOMAIN waiting = 1 .. Len(waiting)
      BY DEF Inv, TypeOK
    <3>1. l \in granted
      BY <2>0, <2>2, <3>0 DEF Inv, SlotsPlaced
    <3>2. Cardinality(granted') = Cardinality(granted) - 1
      BY <2>2, <3>1, FS_RemoveElement DEF Inv
    <3>3. SlotsConserved'
      BY <2>0, <2>2, <3>2 DEF Inv, TypeOK, SlotsConserved, PassedOn
    <3>4. SlotsPlaced'
      BY <2>0, <2>2, <3>0 DEF Inv, TypeOK, SlotsPlaced
    <3> QED BY <3>3, <3>4
  <2> QED BY <1>3, <2>1, <2>2 DEF GiveUp
<1>4. ASSUME NEW l \in Lanes, Quit(l) PROVE SlotsConserved' /\ SlotsPlaced'
  BY <1>4 DEF Quit, Inv, TypeOK, SlotsConserved, SlotsPlaced
<1>5. ASSUME NEW l \in Lanes, worker[l] \in {"loop", "next"}, Leave(l)
      PROVE  SlotsConserved' /\ SlotsPlaced'
  <2>1. l \in granted
    BY <1>0, <1>5
  <2>2. Cardinality(granted') = Cardinality(granted) - 1
    BY <1>5, <2>1, FS_RemoveElement DEF Inv, Leave
  <2>3. SlotsConserved'
    <3>1. free' + Cardinality(granted') + leaving' = Limit
      <4>1. /\ free \in Nat /\ leaving \in Nat /\ Cardinality(granted) \in Nat
            /\ free + Cardinality(granted) + leaving = Limit
        BY DEF Inv, TypeOK, SlotsConserved
      <4>2. free' = free /\ leaving' = leaving + 1
        BY <1>5 DEF Leave
      <4> QED BY <2>2, <4>1, <4>2
    <3> QED BY <1>5, <3>1 DEF Inv, TypeOK, SlotsConserved, Leave
  <2>4. SlotsPlaced'
    BY <1>5, <2>1 DEF Inv, TypeOK, SlotsPlaced, Leave
  <2> QED BY <2>3, <2>4
<1>6. ASSUME NEW l \in Lanes, Look(l) PROVE SlotsConserved' /\ SlotsPlaced'
  BY <1>0, <1>6, SlotsUntouched DEF Look
<1>7. ASSUME NEW l \in Lanes, NEW i \in Repos,
             NextStep(l, i) \/ WorkDone(l, i) \/ WorkDrifted(l, i) \/ WorkMore(l, i)
      PROVE  SlotsConserved' /\ SlotsPlaced'
  <2>1. /\ l \in granted /\ UNCHANGED <<waiting, granted, free, leaving>>
        /\ worker' = [worker EXCEPT ![l] = "work"] \/ worker' = [worker EXCEPT ![l] = "loop"]
    BY <1>0, <1>7 DEF NextStep, WorkDone, WorkDrifted, WorkMore
  <2> QED BY <2>1, SlotsUntouched
<1>8. ASSUME Release PROVE SlotsConserved' /\ SlotsPlaced'
  <2>0. leaving \in Nat \ {0} /\ leaving' = leaving - 1 /\ worker' = worker
    BY <1>8 DEF Release, Inv, TypeOK
  <2>1. CASE SomeoneWaits
    <3> DEFINE h == Head(waiting)
    <3>1. granted' = granted \cup {h} /\ waiting' = Tail(waiting) /\ free' = free
      BY <1>8, <2>1 DEF Release
    <3>2. /\ h = waiting[1] /\ Len(waiting) \in Nat \ {0}
          /\ Len(waiting') = Len(waiting) - 1
          /\ \A k \in 1 .. Len(waiting) - 1 : waiting'[k] = waiting[k + 1]
      BY <2>1, <3>1, HeadTailProperties, EmptySeq DEF SomeoneWaits, Inv, TypeOK
    <3> HIDE DEF h
    <3>3. h \notin granted /\ worker[h] = "select"
      BY <3>2 DEF Inv, SlotsPlaced
    <3>4. Cardinality(granted') = Cardinality(granted) + 1
      BY <3>1, <3>3, FS_AddElement DEF Inv
    <3>5. SlotsConserved'
      <4>1. free = 0
        BY <2>1 DEF SomeoneWaits, Inv, SlotsConserved
      <4> QED BY <2>0, <3>1, <3>4, <4>1 DEF Inv, TypeOK, SlotsConserved
    <3>6. \A k \in 1 .. Len(waiting') : k + 1 \in 1 .. Len(waiting) /\ waiting'[k] = waiting[k + 1]
      BY <3>2
    <3>7. \A j, k \in 1 .. Len(waiting') : waiting'[j] = waiting'[k] => j = k
      BY <3>6 DEF Inv, SlotsPlaced
    <3>8. \A k \in 1 .. Len(waiting') : worker'[waiting'[k]] = "select" /\ waiting'[k] \notin granted'
      <4> SUFFICES ASSUME NEW k \in 1 .. Len(waiting')
                   PROVE  worker'[waiting'[k]] = "select" /\ waiting'[k] \notin granted'
        OBVIOUS
      <4>1. waiting[k + 1] # h /\ waiting[k + 1] \notin granted /\ worker[waiting[k + 1]] = "select"
        BY <3>2, <3>6 DEF Inv, SlotsPlaced
      <4> QED BY <2>0, <3>1, <3>6, <4>1
    <3>9. ASSUME NEW m \in Lanes, worker'[m] = "select"
          PROVE  m \in granted' \/ \E k \in 1 .. Len(waiting') : waiting'[k] = m
      <4>1. ASSUME NEW k \in 1 .. Len(waiting), waiting[k] = m, k # 1
            PROVE  \E j \in 1 .. Len(waiting') : waiting'[j] = m
        <5>1. k - 1 \in 1 .. Len(waiting') /\ (k - 1) + 1 = k
          BY <3>2, <4>1
        <5> QED BY <3>6, <4>1, <5>1
      <4> QED BY <2>0, <3>1, <3>2, <3>9, <4>1 DEF Inv, SlotsPlaced
    <3>10. \A m \in granted' : worker'[m] \in {"select", "loop", "next", "work"}
      BY <2>0, <3>1, <3>3 DEF Inv, SlotsPlaced
    <3> QED BY <3>5, <3>7, <3>8, <3>9, <3>10 DEF SlotsPlaced
  <2>2. CASE ~SomeoneWaits
    BY <1>8, <2>0, <2>2 DEF Release, SomeoneWaits, Inv, TypeOK, SlotsConserved, SlotsPlaced
  <2> QED BY <2>1, <2>2
<1>9. ASSUME Cancel PROVE SlotsConserved' /\ SlotsPlaced'
  BY <1>9 DEF Cancel, Inv, SlotsConserved, SlotsPlaced
<1> QED BY <1>1, <1>2, <1>3, <1>4, <1>5, <1>6, <1>7, <1>8, <1>9
        DEF Next, Step, Stop, Exhausted

\* Every step leaves a worker for what is queued.
LEMMA SweepServed == ASSUME Inv, Next PROVE LaneIsServed' /\ OneAtWork'
<1> USE SweepAssumption DEF Inv, TypeOK, LaneIsServed, OneAtWork, Queued, Busy, Queues, AtWork
<1>1. ASSUME NEW i \in Repos, NEW queue \in Queues, Add(i, queue)
      PROVE  LaneIsServed' /\ OneAtWork'
  <2>1. /\ place[i] = "out" /\ place' = [place EXCEPT ![i] = queue]
        /\ \/ live[LaneOf[i]] /\ live' = live /\ worker' = worker
           \/ /\ ~live[LaneOf[i]] /\ live' = [live EXCEPT ![LaneOf[i]] = TRUE]
              /\ worker' = [worker EXCEPT ![LaneOf[i]] = "select"]
    BY <1>1 DEF Add
  <2>2. \A l \in Lanes : Busy(l)' = Busy(l)
    BY <2>1
  <2>3. LaneOf[i] \in Lanes /\ \A l \in Lanes : l # LaneOf[i] => Queued(l)' = Queued(l)
    BY <2>1
  <2>4. LaneIsServed'
    BY <2>1, <2>2, <2>3
  <2> QED BY <2>2, <2>4
<1>2. ASSUME NEW l \in Lanes, Granted(l) \/ GiveUp(l) \/ Look(l)
      PROVE  LaneIsServed' /\ OneAtWork'
  BY <1>2, SMTT(40) DEF Granted, GiveUp, Look
<1>3. ASSUME NEW l \in Lanes, Quit(l) \/ Stop(l) PROVE LaneIsServed' /\ OneAtWork'
  <2>1. /\ worker[l] \in {"quitting", "loop"} /\ place' = Abandoned(l)
        /\ live' = [live EXCEPT ![l] = FALSE] /\ worker' = [worker EXCEPT ![l] = "none"]
    BY <1>3 DEF Quit, Stop, Leave
  <2>2. \A m \in Lanes : Busy(m)' = Busy(m)
    BY <2>1 DEF Abandoned
  <2>3. Busy(l) = {} /\ Queued(l)' = {}
    BY <2>1 DEF Abandoned
  <2>4. \A m \in Lanes : m # l => Queued(m)' = Queued(m)
    BY <2>1 DEF Abandoned
  <2>5. LaneIsServed'
    BY <2>1, <2>2, <2>3, <2>4
  <2> QED BY <2>2, <2>5
<1>4. ASSUME NEW l \in Lanes, Exhausted(l) PROVE LaneIsServed' /\ OneAtWork'
  BY <1>4 DEF Exhausted, Leave, NoStepLeft
<1>5. ASSUME NEW l \in Lanes, NEW i \in Repos, NextStep(l, i)
      PROVE  LaneIsServed' /\ OneAtWork'
  <2>1. /\ LaneOf[i] = l /\ worker[l] = "next" /\ live' = live
        /\ worker' = [worker EXCEPT ![l] = "work"]
        /\ place' = [place EXCEPT ![i] = place'[i]] /\ place'[i] \in AtWork
    BY <1>5, ZenonT(60) DEF NextStep, First
  <2>2. Busy(l) = {} /\ Busy(l)' = {i}
    BY <2>1
  <2>3. \A m \in Lanes : m # l => Busy(m)' = Busy(m) /\ Queued(m)' = Queued(m)
    BY <2>1
  <2>4. Queued(l) # {}
    BY <1>5 DEF NextStep, First
  <2>5. LaneIsServed'
    BY <2>1, <2>2, <2>3, <2>4
  <2>6. OneAtWork'
    BY <2>2, <2>3
  <2> QED BY <2>5, <2>6
<1>6. ASSUME NEW l \in Lanes, NEW i \in Repos,
             WorkDone(l, i) \/ WorkDrifted(l, i) \/ WorkMore(l, i)
      PROVE  LaneIsServed' /\ OneAtWork'
  <2>1. /\ LaneOf[i] = l /\ i \in Busy(l) /\ worker[l] = "work" /\ live' = live
        /\ worker' = [worker EXCEPT ![l] = "loop"]
        /\ place' = [place EXCEPT ![i] = place'[i]]
        /\ place'[i] \in {"done", "shallow", "ladder"}
    BY <1>6 DEF WorkDone, WorkDrifted, WorkMore
  <2>2. Busy(l)' = {}
    BY <2>1
  <2>3. \A m \in Lanes : m # l => Busy(m)' = Busy(m) /\ Queued(m)' = Queued(m)
    BY <2>1
  <2>4. LaneIsServed'
    BY <2>1, <2>2, <2>3
  <2>5. OneAtWork'
    BY <2>2, <2>3
  <2> QED BY <2>4, <2>5
<1>7. ASSUME Release \/ Cancel PROVE LaneIsServed' /\ OneAtWork'
  BY <1>7 DEF Release, Cancel
<1> QED BY <1>1, <1>2, <1>3, <1>4, <1>5, <1>6, <1>7 DEF Next, Step

\* The invariant is inductive.
LEMMA SweepInductive == Spec => []Inv
<1>1. Inv /\ [Next]_vars => Inv'
  <2> SUFFICES ASSUME Inv, [Next]_vars PROVE Inv'
    OBVIOUS
  <2>1. CASE Next
    BY <2>1, SweepTypes, SweepSlots, SweepServed DEF Inv
  <2>2. CASE UNCHANGED vars
    BY <2>2 DEF vars, Inv, TypeOK, SlotsConserved, SlotsPlaced, LaneIsServed, OneAtWork, Queued, Busy
  <2> QED BY <2>1, <2>2
<1> QED BY <1>1, SweepInit, PTL DEF Spec

\* However grants, cancellations, releases and new lanes interleave, the slots
\* of a sweep are conserved, a worker at work holds one, and none is free while
\* a lane waits (acquire, release and giveUp of pkg/atproto/sweep.go).
THEOREM SweepSlotsConserved == Spec => []SlotsConserved
<1>1. Inv => SlotsConserved
  BY DEF Inv
<1> QED BY <1>1, SweepInductive, PTL

\* A repository in the queue of a lane always has a worker: add and the end of
\* run never miss each other (pkg/atproto/sweep.go).
THEOREM SweepLaneIsServed == Spec => []LaneIsServed
<1>1. Inv => LaneIsServed
  BY DEF Inv
<1> QED BY <1>1, SweepInductive, PTL

\* The types, with the bound on a repository's windows (push of
\* pkg/atproto/sweep.go).
THEOREM SweepTypeOK == Spec => []TypeOK
<1>1. Inv => TypeOK
  BY DEF Inv
<1> QED BY <1>1, SweepInductive, PTL
=============================================================================
