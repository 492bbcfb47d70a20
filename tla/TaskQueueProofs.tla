--------------------------- MODULE TaskQueueProofs ---------------------------
(***************************************************************************)
(* Proofs about module TaskQueue, for every set of nodes and keys.         *)
(***************************************************************************)
EXTENDS TaskQueue, TLAPS

(***************************************************************************)
(* try_count and the history counter agree, rows beyond size are blank,    *)
(* and a busy worker holds a row that exists and has been handed out.      *)
(***************************************************************************)
RunsAreTries == \A i \in Ids : runs[i] = row[i].tries

BeyondSize == \A i \in Ids : i > size => row[i] = Blank

KeyedRows == \A i \in Ids : i <= size => row[i].key \in Keys

BusyHoldsRow == \A w \in Workers : at[w] = "work" => job[w] \in 1 .. size

QueueInv == TypeOK /\ RunsAreTries /\ BeyondSize /\ KeyedRows /\ BusyHoldsRow

(***************************************************************************)
(* A row that has been handed out never becomes PENDING again unless       *)
(* maintenance puts it back, which is all that keeps it from being handed  *)
(* out twice.                                                              *)
(***************************************************************************)
UniqueKeys == \A i, j \in Ids : i <= size /\ j <= size /\ row[i].key = row[j].key => i = j

OnceInv ==
  /\ UniqueKeys
  /\ \A i \in Ids : i \notin returned =>
       row[i].tries <= 1 /\ (row[i].status = "PENDING" <=> row[i].tries = 0)
  /\ \A w \in Workers :
       at[w] = "work" /\ job[w] \notin returned => row[job[w]].tries = 1

-----------------------------------------------------------------------------
\* A row fresh from EnqueueTask is a row.
LEMMA NewRowType == ASSUME NEW k \in Keys \cup {NoKey} PROVE NewRow(k) \in Rows
<1> DEFINE d == k \notin Delayed
<1>1. d \in BOOLEAN
  OBVIOUS
<1> HIDE DEF d
<1>2. [key |-> k, status |-> "PENDING", tries |-> 0, lease |-> "none", due |-> d] \in Rows
  BY <1>1, TaskQueueAssumption DEF Rows, Statuses
<1> QED BY <1>2 DEF NewRow, d

\* An empty table and idle workers satisfy the invariant.
LEMMA InitQueueInv == Init => QueueInv
<1> SUFFICES ASSUME Init PROVE QueueInv
  OBVIOUS
<1> USE TaskQueueAssumption DEF Init, Ids
<1>1. Blank \in Rows
  BY NewRowType DEF Blank
<1>2. TypeOK
  <2>1. size \in 0 .. MaxRows /\ row \in [Ids -> Rows] /\ stops \in 0 .. MaxStops
    BY <1>1
  <2>2. asking \in [Nodes -> Keys \cup {NoKey}] /\ pokers \in [Nodes -> Nat] /\ poke \in [Nodes -> BOOLEAN]
    OBVIOUS
  <2>3. /\ at \in [Workers -> {"poll", "sleep", "work", "off"}]
        /\ job \in [Workers -> 0 .. size]
        /\ runs \in [Ids -> Nat] /\ returned \subseteq Ids /\ failed \subseteq 0 .. MaxRows
    OBVIOUS
  <2> QED BY <2>1, <2>2, <2>3 DEF TypeOK
<1>3. RunsAreTries /\ BeyondSize /\ KeyedRows
  BY DEF RunsAreTries, BeyondSize, KeyedRows, Blank, NewRow
<1>4. BusyHoldsRow
  BY DEF BusyHoldsRow
<1> QED BY <1>2, <1>3, <1>4 DEF QueueInv

(***************************************************************************)
(* The actions fall into four groups by what they do to the table: those   *)
(* that leave it alone, the one that adds a row, the one that hands a row  *)
(* out, and those that change status, lease or due of existing rows.       *)
(***************************************************************************)
\* The steps that do not touch the table.
Quiet ==
  \/ \E n \in Nodes : (\E k \in Keys : EnqueueCheck(n, k)) \/ Poke(n) \/ Stop(n) \/ Restart(n)
  \/ \E w \in Workers : Sleep(w) \/ Timer(w) \/ Poked(w) \/ Leave(w)

\* The steps that relabel existing rows without handing one out.
Relabel ==
  \/ \E w \in Workers : Complete(w) \/ FailTask(w) \/ ReleaseTask(w)
  \/ \E i \in Ids : LeaseExpires(i) \/ ComesDue(i)
  \/ CleanupExpiredLocks

\* Every step is of one of the four groups.
LEMMA NextGroups ==
  Next => \/ Quiet \/ Relabel
          \/ \E n \in Nodes : EnqueueCreate(n)
          \/ \E w \in Workers : Dequeue(w)
  BY DEF Next, Quiet, Relabel, WorkerStep

\* What is typed apart from the table, and what busy workers keep, after a step.
RestOK ==
  /\ asking' \in [Nodes -> Keys \cup {NoKey}]
  /\ pokers' \in [Nodes -> Nat]
  /\ poke' \in [Nodes -> BOOLEAN]
  /\ at' \in [Workers -> {"poll", "sleep", "work", "off"}]
  /\ job' \in [Workers -> 0 .. size]
  /\ stops' \in 0 .. MaxStops
  /\ failed' \subseteq 0 .. MaxRows

\* The history grows.
Grows == returned \subseteq returned' /\ returned' \subseteq Ids

BusyKeep == \A w \in Workers : at'[w] = "work" => at[w] = "work" /\ job'[w] = job[w]

\* The steps that leave the table alone do not make a worker busy.
LEMMA QuietStep ==
  ASSUME TypeOK, Quiet
  PROVE  UNCHANGED <<size, row, runs, returned>> /\ BusyKeep /\ RestOK
<1> USE TaskQueueAssumption DEF TypeOK, BusyKeep, RestOK
<1>1. ASSUME NEW n \in Nodes, NEW k \in Keys, EnqueueCheck(n, k)
      PROVE  UNCHANGED <<size, row, runs, returned>> /\ BusyKeep /\ RestOK
  BY <1>1 DEF EnqueueCheck
<1>2. ASSUME NEW n \in Nodes, Poke(n)
      PROVE  UNCHANGED <<size, row, runs, returned>> /\ BusyKeep /\ RestOK
  <2>1. poke' \in [Nodes -> BOOLEAN]
    BY <1>2 DEF Poke
  <2>2. pokers' \in [Nodes -> Nat]
    BY <1>2 DEF Poke
  <2> QED BY <1>2, <2>1, <2>2 DEF Poke
<1>3. ASSUME NEW n \in Nodes, Stop(n) \/ Restart(n)
      PROVE  UNCHANGED <<size, row, runs, returned>> /\ BusyKeep /\ RestOK
  <2>1. poke' \in [Nodes -> BOOLEAN]
    BY <1>3 DEF Stop, Restart
  <2>2. /\ at' \in [Workers -> {"poll", "sleep", "work", "off"}]
        /\ job' \in [Workers -> 0 .. size]
        /\ BusyKeep
    BY <1>3 DEF Stop, Restart
  <2>3. /\ asking' \in [Nodes -> Keys \cup {NoKey}]
        /\ pokers' \in [Nodes -> Nat]
        /\ stops' \in 0 .. MaxStops
    BY <1>3 DEF Stop, Restart
  <2>4. failed' \subseteq 0 .. MaxRows
    <3>1. \A p \in Pools : <<n, p>> \in Workers
      BY DEF Workers
    <3>2. \A p \in Pools : job[<<n, p>>] \in 0 .. MaxRows
      BY <3>1
    <3> HIDE DEF TypeOK
    <3>3. \A x \in {job[<<n, p>>] : p \in Pools} : x \in 0 .. MaxRows
      BY <3>2, Zenon
    <3>4. failed \subseteq 0 .. MaxRows
      BY DEF TypeOK
    <3>5. failed' = failed \/ failed' = failed \cup {job[<<n, p>>] : p \in Pools}
      BY <1>3 DEF Stop, Restart
    <3> QED BY <3>3, <3>4, <3>5
  <2> QED BY <1>3, <2>1, <2>2, <2>3, <2>4 DEF Stop, Restart
<1>4. ASSUME NEW w \in Workers, Sleep(w) \/ Timer(w) \/ Poked(w) \/ Leave(w)
      PROVE  UNCHANGED <<size, row, runs, returned>> /\ BusyKeep /\ RestOK
  <2>1. poke' \in [Nodes -> BOOLEAN]
    <3>1. w[1] \in Nodes
      BY DEF Workers
    <3> QED BY <1>4, <3>1 DEF Sleep, Timer, Poked, Leave, Done
  <2>2. /\ at' \in [Workers -> {"poll", "sleep", "work", "off"}]
        /\ job' \in [Workers -> 0 .. size]
        /\ BusyKeep
    BY <1>4 DEF Sleep, Timer, Poked, Leave, Done
  <2>3. failed' \subseteq 0 .. MaxRows
    <3>1. job[w] \in 0 .. MaxRows
      OBVIOUS
    <3> QED BY <1>4, <3>1 DEF Sleep, Timer, Poked, Leave
  <2> QED BY <1>4, <2>1, <2>2, <2>3 DEF Sleep, Timer, Poked, Leave, Done
<1> QED BY <1>1, <1>2, <1>3, <1>4 DEF Quiet

\* Relabelling one row keeps its type, its key and its try count.
LEMMA RowUpdate ==
  ASSUME NEW r \in Rows, NEW st \in Statuses, NEW l \in {"none", "held", "expired"}
  PROVE  LET u == [r EXCEPT !.status = st, !.lease = l]
         IN  u \in Rows /\ u.key = r.key /\ u.tries = r.tries
  BY DEF Rows

\* Relabelling keeps every row's key and try count, the size and the history.
LEMMA RelabelStep ==
  ASSUME QueueInv, Relabel
  PROVE  /\ UNCHANGED <<size, runs>> /\ BusyKeep /\ RestOK /\ Grows
         /\ row' \in [Ids -> Rows]
         /\ \A i \in Ids : row'[i].key = row[i].key /\ row'[i].tries = row[i].tries
         /\ \A i \in Ids : i > size => row'[i] = row[i]
<1> DEFINE Kept ==
      /\ row' \in [Ids -> Rows]
      /\ \A i \in Ids : row'[i].key = row[i].key /\ row'[i].tries = row[i].tries
      /\ \A i \in Ids : i > size => row'[i] = row[i]
<1> USE TaskQueueAssumption DEF QueueInv, TypeOK
<1>1. ASSUME NEW w \in Workers, Complete(w) \/ FailTask(w) \/ ReleaseTask(w)
      PROVE  UNCHANGED <<size, runs>> /\ BusyKeep /\ RestOK /\ Grows /\ Kept
  <2>1. job[w] \in 1 .. size /\ job[w] \in Ids
    BY <1>1 DEF Complete, Completed, FailTask, ReleaseTask, BusyHoldsRow, Ids
  <2>2. PICK st \in Statuses :
          row' = [row EXCEPT ![job[w]] = [row[job[w]] EXCEPT !.status = st, !.lease = "none"]]
    <3>1. CASE Complete(w)
      <4>1. row' = [row EXCEPT ![job[w]] = [row[job[w]] EXCEPT !.status = "COMPLETED", !.lease = "none"]]
        BY <2>1, <3>1 DEF Complete, Completed
      <4> QED BY <4>1 DEF Statuses
    <3>2. CASE FailTask(w)
      <4>1. PICK st \in {"FAILED", "PENDING"} :
              row' = [row EXCEPT ![job[w]] = [row[job[w]] EXCEPT !.lease = "none", !.status = st]]
        BY <2>1, <3>2 DEF FailTask
      <4>2. row[job[w]] \in Rows
        BY <2>1
      <4>3. [row[job[w]] EXCEPT !.lease = "none", !.status = st]
              = [row[job[w]] EXCEPT !.status = st, !.lease = "none"]
        BY <4>2 DEF Rows
      <4> QED BY <4>1, <4>3 DEF Statuses
    <3>3. CASE ReleaseTask(w)
      <4>1. row' = [row EXCEPT ![job[w]] = [row[job[w]] EXCEPT !.lease = "none", !.status = "PENDING"]]
        BY <2>1, <3>3 DEF ReleaseTask
      <4>2. row[job[w]] \in Rows
        BY <2>1
      <4>3. [row[job[w]] EXCEPT !.lease = "none", !.status = "PENDING"]
              = [row[job[w]] EXCEPT !.status = "PENDING", !.lease = "none"]
        BY <4>2 DEF Rows
      <4> QED BY <4>1, <4>3 DEF Statuses
    <3> QED BY <1>1, <3>1, <3>2, <3>3
  <2> DEFINE u == [row[job[w]] EXCEPT !.status = st, !.lease = "none"]
  <2>6. u \in Rows /\ u.key = row[job[w]].key /\ u.tries = row[job[w]].tries
    BY <2>1, RowUpdate
  <2> HIDE DEF u
  <2>7. row' = [row EXCEPT ![job[w]] = u]
    BY <2>2 DEF u
  <2>3. Kept
    BY <2>1, <2>6, <2>7 DEF Ids
  <2>4. Done(w)
    BY <1>1 DEF Complete, Completed, FailTask, ReleaseTask
  <2>9. failed' = failed
    BY <1>1 DEF Complete, FailTask, ReleaseTask
  <2>5. BusyKeep /\ RestOK /\ UNCHANGED <<size, runs>>
    BY <2>4, <2>9 DEF Done, BusyKeep, RestOK
  <2>8. Grows
    BY <1>1, <2>1 DEF Complete, FailTask, ReleaseTask, Return, Grows
  <2> QED BY <2>3, <2>5, <2>8
<1>2. ASSUME NEW i \in Ids, LeaseExpires(i)
      PROVE  UNCHANGED <<size, runs>> /\ BusyKeep /\ RestOK /\ Grows /\ Kept
  <2>1. i <= size
    BY <1>2 DEF LeaseExpires, BeyondSize, Blank, NewRow, Ids
  <2> DEFINE u == [row[i] EXCEPT !.lease = "expired"]
  <2>2. row' = [row EXCEPT ![i] = u]
    BY <1>2 DEF LeaseExpires
  <2>4. u \in Rows /\ u.key = row[i].key /\ u.tries = row[i].tries
    BY DEF Rows
  <2> HIDE DEF u
  <2>3. Kept
    BY <2>1, <2>2, <2>4 DEF Ids
  <2> QED BY <1>2, <2>3 DEF LeaseExpires, BusyKeep, RestOK, Grows
<1>3. ASSUME NEW i \in Ids, ComesDue(i)
      PROVE  UNCHANGED <<size, runs>> /\ BusyKeep /\ RestOK /\ Grows /\ Kept
  <2>1. i <= size
    BY <1>3 DEF ComesDue
  <2>2. row' = [row EXCEPT ![i] = [row[i] EXCEPT !.due = TRUE]]
    BY <1>3 DEF ComesDue
  <2>3. [row[i] EXCEPT !.due = TRUE] \in Rows
    BY ZenonT(60) DEF Rows
  <2>4. Kept
    BY <2>1, <2>2, <2>3 DEF Rows, Ids
  <2> QED BY <1>3, <2>4 DEF ComesDue, BusyKeep, RestOK, Grows
<1>4. ASSUME CleanupExpiredLocks
      PROVE  UNCHANGED <<size, runs>> /\ BusyKeep /\ RestOK /\ Grows /\ Kept
  <2>1. \A i \in Ids : \/ row'[i] = row[i]
                       \/ /\ row[i].lease = "expired"
                          /\ row'[i] = [row[i] EXCEPT !.status = "PENDING", !.lease = "none"]
    BY <1>4 DEF CleanupExpiredLocks
  <2>2. \A i \in Ids : i > size => row[i].lease # "expired"
    BY DEF BeyondSize, Blank, NewRow
  <2>3. row' = [i \in Ids |-> row'[i]]
    BY <1>4 DEF CleanupExpiredLocks
  <2>4. \A i \in Ids : row'[i] \in Rows /\ row'[i].key = row[i].key /\ row'[i].tries = row[i].tries
    <3> SUFFICES ASSUME NEW i \in Ids
                 PROVE  row'[i] \in Rows /\ row'[i].key = row[i].key /\ row'[i].tries = row[i].tries
      OBVIOUS
    <3>1. row[i] \in Rows /\ "PENDING" \in Statuses
      BY DEF Statuses
    <3>2. CASE row'[i] = row[i]
      BY <3>1, <3>2, SMTT(40)
    <3> DEFINE u == [row[i] EXCEPT !.status = "PENDING", !.lease = "none"]
    <3>4. u \in Rows /\ u.key = row[i].key /\ u.tries = row[i].tries
      BY <3>1, RowUpdate
    <3> HIDE DEF u
    <3>3. CASE row'[i] = u
      BY <3>3, <3>4
    <3> QED BY <2>1, <3>2, <3>3 DEF u
  <2>5. Kept
    BY <2>1, <2>2, <2>3, <2>4
  <2>6. Grows
    BY <1>4 DEF CleanupExpiredLocks, Return, Grows
  <2> QED BY <1>4, <2>5, <2>6 DEF CleanupExpiredLocks, BusyKeep, RestOK
<1> QED BY <1>1, <1>2, <1>3, <1>4 DEF Relabel

\* EnqueueCreate either finds the key taken and changes nothing in the table,
\* or adds one pending row for a key that had none.
LEMMA CreateStep ==
  ASSUME QueueInv, NEW n \in Nodes, EnqueueCreate(n)
  PROVE  /\ UNCHANGED <<at, job, runs, stops, poke, returned, failed>>
         /\ asking' \in [Nodes -> Keys \cup {NoKey}] /\ pokers' \in [Nodes -> Nat]
         /\ \/ UNCHANGED <<size, row>>
            \/ /\ size < MaxRows /\ size' = size + 1
               /\ ~Exists(asking[n])
               /\ row' = [row EXCEPT ![size + 1] = NewRow(asking[n])]
               /\ asking[n] \in Keys
  BY TaskQueueAssumption DEF EnqueueCreate, Refused, QueueInv, TypeOK

\* DequeueTask hands out one existing pending row with tries left.
LEMMA DequeueStep ==
  ASSUME QueueInv, NEW w \in Workers, Dequeue(w)
  PROVE  /\ UNCHANGED <<size, asking, pokers, poke, stops, returned, failed>>
         /\ at' = [at EXCEPT ![w] = "work"]
         /\ \E i \in Ids :
              /\ i <= size /\ row[i].status = "PENDING" /\ row[i].tries < MaxTries
              /\ row' = [row EXCEPT ![i] = [row[i] EXCEPT !.status = "PROCESSING",
                                            !.lease = "held", !.tries = row[i].tries + 1]]
              /\ job' = [job EXCEPT ![w] = i]
              /\ runs' = [runs EXCEPT ![i] = runs[i] + 1]
<1>1. UNCHANGED <<size, asking, pokers, poke, stops, returned, failed>> /\ at' = [at EXCEPT ![w] = "work"]
  BY DEF Dequeue
<1>2. PICK i \in Candidates(w[2]) :
        /\ row' = [row EXCEPT ![i].status = "PROCESSING", ![i].lease = "held", ![i].tries = @ + 1]
        /\ job' = [job EXCEPT ![w] = i]
        /\ runs' = [runs EXCEPT ![i] = @ + 1]
  BY DEF Dequeue
<1>3. i \in Ids /\ i <= size /\ row[i].status = "PENDING" /\ row[i].tries < MaxTries
  BY <1>2, TaskQueueAssumption DEF Candidates, Eligible, Ids, QueueInv, TypeOK
<1>4. row' = [row EXCEPT ![i] = [row[i] EXCEPT !.status = "PROCESSING",
                                 !.lease = "held", !.tries = row[i].tries + 1]]
  BY <1>2, <1>3 DEF QueueInv, TypeOK, Rows
<1> QED BY <1>1, <1>2, <1>3, <1>4

-----------------------------------------------------------------------------
\* Every step of the queue keeps the table's invariant.
LEMMA NextQueueInv == QueueInv /\ [Next]_vars => QueueInv'
<1> SUFFICES ASSUME QueueInv, [Next]_vars PROVE QueueInv'
  OBVIOUS
<1> USE TaskQueueAssumption
<1>1. CASE Quiet
  <2>1. UNCHANGED <<size, row, runs, returned>> /\ BusyKeep /\ RestOK
    BY <1>1, QuietStep DEF QueueInv
  <2>2. TypeOK'
    BY <2>1 DEF QueueInv, TypeOK, RestOK
  <2>3. RunsAreTries' /\ BeyondSize' /\ KeyedRows'
    BY <2>1 DEF QueueInv, RunsAreTries, BeyondSize, KeyedRows
  <2>4. BusyHoldsRow'
    BY <2>1 DEF QueueInv, BusyHoldsRow, BusyKeep
  <2> QED BY <2>2, <2>3, <2>4 DEF QueueInv
<1>2. CASE Relabel
  <2>1. /\ UNCHANGED <<size, runs>> /\ BusyKeep /\ RestOK /\ Grows
        /\ row' \in [Ids -> Rows]
        /\ \A i \in Ids : row'[i].key = row[i].key /\ row'[i].tries = row[i].tries
        /\ \A i \in Ids : i > size => row'[i] = row[i]
    BY <1>2, RelabelStep
  <2>2. TypeOK'
    BY <2>1 DEF QueueInv, TypeOK, RestOK, Grows
  <2>3. RunsAreTries' /\ BeyondSize' /\ KeyedRows'
    BY <2>1 DEF QueueInv, RunsAreTries, BeyondSize, KeyedRows
  <2>4. BusyHoldsRow'
    BY <2>1 DEF QueueInv, BusyHoldsRow, BusyKeep
  <2> QED BY <2>2, <2>3, <2>4 DEF QueueInv
<1>3. ASSUME NEW n \in Nodes, EnqueueCreate(n) PROVE QueueInv'
  <2> DEFINE new == NewRow(asking[n])
  <2>1. /\ UNCHANGED <<at, job, runs, stops, poke, returned, failed>>
        /\ asking' \in [Nodes -> Keys \cup {NoKey}] /\ pokers' \in [Nodes -> Nat]
    BY <1>3, CreateStep
  <2>2. CASE UNCHANGED <<size, row>>
    <3>1. TypeOK'
      BY <2>1, <2>2 DEF QueueInv, TypeOK
    <3>2. RunsAreTries' /\ BeyondSize' /\ KeyedRows' /\ BusyHoldsRow'
      BY <2>1, <2>2 DEF QueueInv, RunsAreTries, BeyondSize, KeyedRows, BusyHoldsRow
    <3> QED BY <3>1, <3>2 DEF QueueInv
  <2>3. CASE ~UNCHANGED <<size, row>>
    <3>1. /\ size < MaxRows /\ size' = size + 1
          /\ row' = [row EXCEPT ![size + 1] = new]
          /\ asking[n] \in Keys
      BY <1>3, <2>3, CreateStep
    <3>2. new.key = asking[n] /\ new.tries = 0
      BY DEF NewRow
    <3>3. new \in Rows
      BY <3>1, NewRowType
    <3> HIDE DEF new
    <3>4. size + 1 \in Ids /\ size \in Nat
      BY <3>1 DEF QueueInv, TypeOK, Ids
    <3>5. TypeOK'
      <4>1. row' \in [Ids -> Rows]
        BY <3>1, <3>3 DEF QueueInv, TypeOK
      <4>2. job' \in [Workers -> 0 .. size'] /\ size' \in 0 .. MaxRows
        BY <2>1, <3>1, <3>4 DEF QueueInv, TypeOK
      <4> QED BY <2>1, <4>1, <4>2 DEF QueueInv, TypeOK
    <3>6. RunsAreTries'
      <4>1. runs[size + 1] = 0
        BY <3>4 DEF QueueInv, RunsAreTries, BeyondSize, Blank, NewRow
      <4> QED BY <2>1, <3>1, <3>2, <3>4, <4>1 DEF QueueInv, TypeOK, RunsAreTries
    <3>7. BeyondSize' /\ KeyedRows'
      BY <3>1, <3>2, <3>4 DEF QueueInv, TypeOK, BeyondSize, KeyedRows, Ids
    <3>8. BusyHoldsRow'
      BY <2>1, <3>1, <3>4 DEF QueueInv, BusyHoldsRow
    <3> QED BY <3>5, <3>6, <3>7, <3>8 DEF QueueInv
  <2> QED BY <2>2, <2>3
<1>4. ASSUME NEW w \in Workers, Dequeue(w) PROVE QueueInv'
  <2>1. UNCHANGED <<size, asking, pokers, poke, stops, returned, failed>> /\ at' = [at EXCEPT ![w] = "work"]
    BY <1>4, DequeueStep
  <2>2. PICK i \in Ids :
          /\ i <= size /\ row[i].status = "PENDING" /\ row[i].tries < MaxTries
          /\ row' = [row EXCEPT ![i] = [row[i] EXCEPT !.status = "PROCESSING",
                                        !.lease = "held", !.tries = row[i].tries + 1]]
          /\ job' = [job EXCEPT ![w] = i]
          /\ runs' = [runs EXCEPT ![i] = runs[i] + 1]
    BY <1>4, DequeueStep
  <2> DEFINE u == [row[i] EXCEPT !.status = "PROCESSING", !.lease = "held", !.tries = row[i].tries + 1]
  <2>3. row[i] \in Rows
    BY DEF QueueInv, TypeOK
  <2>4. u \in Rows /\ u.key = row[i].key /\ u.tries = row[i].tries + 1
    <3>1. row[i].tries + 1 \in 0 .. MaxTries
      BY <2>2, <2>3 DEF Rows
    <3> QED BY <2>3, <3>1 DEF Rows, Statuses
  <2>5. row' = [row EXCEPT ![i] = u]
    BY <2>2
  <2> HIDE DEF u
  <2>6. i \in 1 .. size /\ size \in Nat
    BY <2>2 DEF QueueInv, TypeOK, Ids
  <2>7. TypeOK'
    <3>1. row' \in [Ids -> Rows]
      BY <2>4, <2>5 DEF QueueInv, TypeOK
    <3>2. job' \in [Workers -> 0 .. size'] /\ runs' \in [Ids -> Nat]
      BY <2>1, <2>2, <2>6 DEF QueueInv, TypeOK
    <3> QED BY <2>1, <3>1, <3>2 DEF QueueInv, TypeOK
  <2>8. RunsAreTries'
    BY <2>2, <2>4, <2>5 DEF QueueInv, TypeOK, RunsAreTries
  <2>9. BeyondSize' /\ KeyedRows'
    BY <2>1, <2>4, <2>5, <2>6 DEF QueueInv, TypeOK, BeyondSize, KeyedRows, Ids
  <2>10. BusyHoldsRow'
    BY <2>1, <2>2, <2>6 DEF QueueInv, TypeOK, BusyHoldsRow
  <2> QED BY <2>7, <2>8, <2>9, <2>10 DEF QueueInv
<1>5. CASE UNCHANGED vars
  <2>1. TypeOK'
    BY <1>5 DEF QueueInv, TypeOK, vars
  <2>2. RunsAreTries' /\ BeyondSize' /\ KeyedRows' /\ BusyHoldsRow'
    BY <1>5 DEF QueueInv, vars, RunsAreTries, BeyondSize, KeyedRows, BusyHoldsRow
  <2> QED BY <2>1, <2>2 DEF QueueInv
<1> QED BY <1>1, <1>2, <1>3, <1>4, <1>5, NextGroups

\* The table's invariant holds in every reachable state.
THEOREM QueueInvariant == Spec => []QueueInv
  BY InitQueueInv, NextQueueInv, PTL DEF Spec

\* The rows, the pools and the pokes keep their types: in particular
\* try_count never exceeds max_tries and a worker's row exists.
THEOREM QueueTypeOK == Spec => []TypeOK
<1>1. QueueInv => TypeOK
  BY DEF QueueInv
<1> QED BY <1>1, QueueInvariant, PTL

-----------------------------------------------------------------------------
\* The empty table: nothing handed out.
LEMMA InitOnceInv == Init => OnceInv
  BY TaskQueueAssumption DEF Init, OnceInv, UniqueKeys, Blank, NewRow, Ids

\* No relabelling makes a row PENDING that maintenance has not put back.
LEMMA RelabelOnce ==
  ASSUME QueueInv, OnceInv, Relabel
  PROVE  \A i \in Ids \ returned' : row'[i].status = "PENDING" <=> row[i].status = "PENDING"
<1> DEFINE Same == \A i \in Ids \ returned' : row'[i].status = "PENDING" <=> row[i].status = "PENDING"
<1> USE TaskQueueAssumption DEF QueueInv, TypeOK
<1>1. ASSUME NEW w \in Workers, Complete(w) PROVE Same
  <2>1. job[w] \in Ids /\ returned' = returned /\ at[w] = "work"
    BY <1>1 DEF Complete, Completed, BusyHoldsRow, Ids
  <2>2. job[w] \notin returned => row[job[w]].status # "PENDING"
    BY <2>1 DEF OnceInv
  <2>3. row' = [row EXCEPT ![job[w]] = [row[job[w]] EXCEPT !.status = "COMPLETED", !.lease = "none"]]
    BY <1>1, <2>1 DEF Complete, Completed
  <2>4. row[job[w]] \in Rows
    BY <2>1
  <2>5. row'[job[w]].status = "COMPLETED"
    BY <2>1, <2>3, <2>4 DEF Rows
  <2> QED BY <2>1, <2>2, <2>3, <2>5
<1>3. ASSUME NEW w \in Workers, FailTask(w) \/ ReleaseTask(w) PROVE Same
  <2>1. job[w] \in returned' /\ \A i \in Ids : i # job[w] => row'[i] = row[i]
    BY <1>3 DEF FailTask, ReleaseTask, Return
  <2> QED BY <2>1
<1>4. ASSUME CleanupExpiredLocks PROVE Same
  BY <1>4 DEF CleanupExpiredLocks, Return
<1>2. ASSUME NEW i \in Ids, LeaseExpires(i) \/ ComesDue(i)
      PROVE  \A j \in Ids : row'[j].status = row[j].status
  <2>1. row[i] \in Rows
    OBVIOUS
  <2>2. CASE LeaseExpires(i)
    <3> DEFINE u == [row[i] EXCEPT !.lease = "expired"]
    <3>1. row' = [row EXCEPT ![i] = u]
      BY <2>2 DEF LeaseExpires
    <3>2. u.status = row[i].status
      BY <2>1 DEF Rows
    <3> HIDE DEF u
    <3> QED BY <3>1, <3>2
  <2>3. CASE ComesDue(i)
    <3> DEFINE u == [row[i] EXCEPT !.due = TRUE]
    <3>1. row' = [row EXCEPT ![i] = u]
      BY <2>3 DEF ComesDue
    <3>2. u.status = row[i].status
      BY <2>1 DEF Rows
    <3> HIDE DEF u
    <3> QED BY <3>1, <3>2
  <2> QED BY <1>2, <2>2, <2>3
<1> QED BY <1>1, <1>2, <1>3, <1>4 DEF Relabel

\* Every step but maintenance keeps a handed-out row out of the queue.
LEMMA NextOnceInv ==
  ASSUME QueueInv, OnceInv, [Next]_vars
  PROVE  OnceInv'
<1> USE TaskQueueAssumption
<1>1. CASE Quiet
  <2>1. UNCHANGED <<size, row, runs, returned>> /\ BusyKeep
    BY <1>1, QuietStep DEF QueueInv
  <2> QED BY <2>1 DEF OnceInv, UniqueKeys, BusyKeep
<1>2. CASE Relabel
  <2>1. /\ UNCHANGED <<size, runs>> /\ BusyKeep /\ Grows
        /\ \A i \in Ids : row'[i].key = row[i].key /\ row'[i].tries = row[i].tries
    BY <1>2, RelabelStep
  <2>2. \A i \in Ids \ returned' : row'[i].status = "PENDING" <=> row[i].status = "PENDING"
    BY <1>2, RelabelOnce
  <2>3. UniqueKeys'
    BY <2>1 DEF OnceInv, UniqueKeys
  <2>4. \A w \in Workers : at'[w] = "work" /\ job'[w] \notin returned' => row'[job'[w]].tries = 1
    <3> SUFFICES ASSUME NEW w \in Workers, at'[w] = "work", job'[w] \notin returned'
                 PROVE  row'[job'[w]].tries = 1
      OBVIOUS
    <3>1. at[w] = "work" /\ job'[w] = job[w] /\ job[w] \notin returned
      BY <2>1 DEF BusyKeep, Grows
    <3>2. job[w] \in Ids
      BY <3>1 DEF QueueInv, TypeOK, BusyHoldsRow, Ids
    <3> QED BY <2>1, <3>1, <3>2 DEF OnceInv
  <2>5. \A i \in Ids : i \notin returned' => i \notin returned
    BY <2>1 DEF Grows
  <2>6. \A i \in Ids : i \notin returned' =>
          row'[i].tries <= 1 /\ (row'[i].status = "PENDING" <=> row'[i].tries = 0)
    BY <2>1, <2>2, <2>5 DEF OnceInv
  <2> QED BY <2>3, <2>4, <2>6 DEF OnceInv
<1>3. ASSUME NEW n \in Nodes, EnqueueCreate(n) PROVE OnceInv'
  <2>1. UNCHANGED <<at, job, runs, returned>>
    BY <1>3, CreateStep
  <2>2. CASE UNCHANGED <<size, row>>
    BY <2>1, <2>2 DEF OnceInv, UniqueKeys
  <2>3. CASE ~UNCHANGED <<size, row>>
    <3>1. /\ size < MaxRows /\ size' = size + 1
          /\ ~Exists(asking[n])
          /\ row' = [row EXCEPT ![size + 1] = NewRow(asking[n])]
      BY <1>3, <2>3, CreateStep
    <3>2. size + 1 \in Ids /\ size \in Nat
      BY <3>1 DEF QueueInv, TypeOK, Ids
    <3>3. /\ \A i \in Ids : i # size + 1 => row'[i] = row[i]
          /\ row'[size + 1].key = asking[n]
          /\ row'[size + 1].tries = 0 /\ row'[size + 1].status = "PENDING"
      BY <3>1, <3>2 DEF QueueInv, TypeOK, NewRow
    <3>4. \A i \in Ids : i <= size => row[i].key # asking[n]
      BY <3>1 DEF Exists, Ids
    <3>5. UniqueKeys'
      BY <3>1, <3>2, <3>3, <3>4 DEF OnceInv, UniqueKeys, Ids
    <3>6. \A w \in Workers : at'[w] = "work" /\ job'[w] \notin returned' => row'[job'[w]].tries = 1
      <4>1. \A w \in Workers : at[w] = "work" => job[w] \in Ids /\ job[w] # size + 1
        BY <3>2 DEF QueueInv, TypeOK, BusyHoldsRow, Ids
      <4> QED BY <2>1, <3>3, <4>1 DEF OnceInv
    <3> QED BY <2>1, <3>2, <3>3, <3>5, <3>6 DEF OnceInv
  <2> QED BY <2>2, <2>3
<1>4. ASSUME NEW w \in Workers, Dequeue(w) PROVE OnceInv'
  <2>1. size' = size /\ returned' = returned /\ at' = [at EXCEPT ![w] = "work"]
    BY <1>4, DequeueStep
  <2>2. PICK i \in Ids :
          /\ i <= size /\ row[i].status = "PENDING" /\ row[i].tries < MaxTries
          /\ row' = [row EXCEPT ![i] = [row[i] EXCEPT !.status = "PROCESSING",
                                        !.lease = "held", !.tries = row[i].tries + 1]]
          /\ job' = [job EXCEPT ![w] = i]
    BY <1>4, DequeueStep
  <2>3. row[i] \in Rows /\ (i \notin returned => row[i].tries = 0)
    BY <2>2 DEF QueueInv, TypeOK, OnceInv
  <2> DEFINE u == [row[i] EXCEPT !.status = "PROCESSING", !.lease = "held", !.tries = row[i].tries + 1]
  <2>4. /\ u.key = row[i].key /\ u.status = "PROCESSING"
        /\ i \notin returned => u.tries = 1
    BY <2>3 DEF Rows
  <2>5. row' = [row EXCEPT ![i] = u]
    BY <2>2
  <2> HIDE DEF u
  <2>6. row'[i] = u /\ \A j \in Ids : j # i => row'[j] = row[j]
    BY <2>5 DEF QueueInv, TypeOK
  <2>7. UniqueKeys'
    BY <2>1, <2>4, <2>6 DEF OnceInv, UniqueKeys
  <2>8. \A v \in Workers : at'[v] = "work" /\ job'[v] \notin returned' => row'[job'[v]].tries = 1
    <3> SUFFICES ASSUME NEW v \in Workers, at'[v] = "work", job'[v] \notin returned'
                 PROVE  row'[job'[v]].tries = 1
      OBVIOUS
    <3>1. CASE v = w
      BY <2>1, <2>2, <2>4, <2>6, <3>1 DEF QueueInv, TypeOK
    <3>2. CASE v # w
      <4>1. at[v] = "work" /\ job'[v] = job[v]
        BY <2>1, <2>2, <3>2 DEF QueueInv, TypeOK
      <4>2. job[v] \in Ids
        BY <4>1 DEF QueueInv, TypeOK, BusyHoldsRow, Ids
      <4> QED BY <2>1, <2>4, <2>6, <4>1, <4>2 DEF OnceInv
    <3> QED BY <3>1, <3>2
  <2> QED BY <2>1, <2>4, <2>6, <2>7, <2>8 DEF OnceInv
<1>5. CASE UNCHANGED vars
  BY <1>5 DEF vars, OnceInv, UniqueKeys
<1> QED BY <1>1, <1>2, <1>3, <1>4, <1>5, NextGroups

\* For any nodes, keys and leases, of the rows of a key only one is ever handed
\* to a worker, and only once, unless its handler failed, its node stopped or
\* maintenance put it back (DequeueTask, EnqueueTask).
THEOREM QueueWindowRunsOnce == Spec => []WindowRunsOnce
<1>1. QueueInv /\ OnceInv => WindowRunsOnce
  <2> SUFFICES ASSUME QueueInv, OnceInv, NEW i \in 1 .. size, NEW j \in 1 .. size
               PROVE  /\ runs[i] <= 1 \/ i \in failed \/ i \in returned
                      /\ row[i].key = row[j].key /\ runs[i] > 0 /\ runs[j] > 0 => i = j
    BY DEF WindowRunsOnce
  <2>1. i \in Ids /\ j \in Ids /\ i <= size /\ j <= size
    BY TaskQueueAssumption DEF QueueInv, TypeOK, Ids
  <2>2. runs[i] <= 1 \/ i \in returned
    BY <2>1 DEF QueueInv, RunsAreTries, OnceInv
  <2>3. row[i].key = row[j].key => i = j
    BY <2>1 DEF OnceInv, UniqueKeys
  <2> QED BY <2>2, <2>3
<1>2. QueueInv /\ OnceInv /\ [Next]_vars => OnceInv'
  BY NextOnceInv
<1> QED BY <1>1, <1>2, InitOnceInv, QueueInvariant, PTL DEF Spec

=============================================================================
