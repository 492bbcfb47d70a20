------------------------------ MODULE TaskQueue ------------------------------
(***************************************************************************)
(* pkg/statedb/task.go and the worker loop of queue_processor.go: the task *)
(* table all nodes of a station share, the enqueuers that deduplicate by   *)
(* task key, and the two worker pools every node runs (ProcessQueue: one   *)
(* general worker, and a pool for the heavy VOD types).                    *)
(*                                                                         *)
(* Every caller of EnqueueTask gives a key and none gives a priority or a  *)
(* number of tries, so a request is its key.  One database transaction is  *)
(* one action (SQLite has a single connection, Postgres locks the row it   *)
(* selects and skips rows locked by others).  A node's queue stops as a    *)
(* whole: a DequeueTask error ends the node's errgroup, as a crash does.   *)
(***************************************************************************)
EXTENDS Naturals, FiniteSets

CONSTANTS
  Nodes,       \* the nodes sharing the database
  Keys,        \* task keys
  NoKey,       \* no key: an empty place
  TypeOf,      \* the task type enqueued under each key
  Delayed,     \* keys enqueued with a ScheduledAt in the future
  MaxRows,     \* bound: rows the table can hold
  MaxTries,    \* AppTask.MaxTries (3 unless set)
  MaxStops,    \* bound: how often nodes stop
  MaxReturned  \* bound: rows maintenance puts back into the queue

(***************************************************************************)
(* Classes of task types, by what their handler does with the row:         *)
(*   vod    - vod_process, finalize_livestream_vod: completed whether or   *)
(*            not the work succeeds; the VOD pool's types                  *)
(*   window - view_count_aggregate, cdn_log_ingest, auto_publish_vod:      *)
(*            completed on success, left alone on error                    *)
(*   fire   - notification, chat, stream_received and the branches of      *)
(*            finalize_livestream that return nil: never completed         *)
(***************************************************************************)
Types == {"vod", "window", "fire"}

ASSUME TaskQueueAssumption ==
  /\ NoKey \notin Keys
  /\ TypeOf \in [Keys -> Types]
  /\ Delayed \subseteq Keys
  /\ MaxRows \in Nat /\ MaxTries \in Nat /\ MaxStops \in Nat
  /\ MaxReturned \in Nat

Pools == {"general", "vod"}
Workers == Nodes \X Pools
Ids == 1 .. MaxRows

Statuses == {"PENDING", "PROCESSING", "COMPLETED", "FAILED"}

VARIABLES
  size,     \* number of rows of app_tasks; ids are given in creation order
  row,      \* the rows, of which the first size exist
  asking,   \* per node: the key an EnqueueTask call found absent, or none
  pokers,   \* per node: goroutines about to poke the queue
  poke,     \* per node: pokeQueue, a channel of capacity one
  at,       \* per worker: where its loop is
  job,      \* per worker: the row it was handed
  stops,    \* how many times a node has stopped
  runs,     \* per row: how many times DequeueTask has handed it out
  returned, \* history: the rows FailTask, ReleaseTask or CleanupExpiredLocks
            \* has put back into the queue
  failed    \* history: the rows whose handler returned without CompleteTask
            \* or whose node stopped over them

vars == <<size, row, asking, pokers, poke, at, job, stops, runs, returned, failed>>

\* The row EnqueueTask creates for a key.
NewRow(k) ==
  [key |-> k, status |-> "PENDING", tries |-> 0, lease |-> "none", due |-> k \notin Delayed]

\* A place of the table no row occupies yet.
Blank == NewRow(NoKey)

Rows == [key : Keys \cup {NoKey}, status : Statuses, tries : 0 .. MaxTries,
         lease : {"none", "held", "expired"}, due : BOOLEAN]

Init ==
  /\ size = 0
  /\ row = [i \in Ids |-> Blank]
  /\ asking = [n \in Nodes |-> NoKey]
  /\ pokers = [n \in Nodes |-> 0]
  /\ poke = [n \in Nodes |-> FALSE]
  /\ at = [w \in Workers |-> "poll"]
  /\ job = [w \in Workers |-> 0]
  /\ stops = 0
  /\ runs = [i \in Ids |-> 0]
  /\ returned = {}
  /\ failed = {}

Up(n) == \A p \in Pools : at[<<n, p>>] # "off"

\* GetTaskByKey.
Exists(k) == \E i \in 1 .. size : row[i].key = k

-----------------------------------------------------------------------------
\* EnqueueTask looks the key up; a task that exists is returned as it is.
EnqueueCheck(n, k) ==
  /\ Up(n)
  /\ asking[n] = NoKey
  /\ ~Exists(k)
  /\ asking' = [asking EXCEPT ![n] = k]
  /\ UNCHANGED <<size, row, pokers, poke, at, job, stops, runs, returned, failed>>

\* Mutant: the column has an index, but not a unique one.
RefusedNever(k) == FALSE

\* The unique index on task_key refuses a second row for the key.
Refused(k) == Exists(k)

(***************************************************************************)
(* EnqueueTask creates the row it found absent.  When another node has     *)
(* created it meanwhile, the existing row is returned.                     *)
(***************************************************************************)
EnqueueCreate(n) ==
  LET k == asking[n] IN
  /\ k # NoKey
  /\ IF Refused(k)
     THEN UNCHANGED <<size, row, pokers>>
     ELSE /\ size < MaxRows
          /\ size' = size + 1
          /\ row' = [row EXCEPT ![size + 1] = NewRow(k)]
          /\ pokers' = [pokers EXCEPT ![n] = @ + 1]
  /\ asking' = [asking EXCEPT ![n] = NoKey]
  /\ UNCHANGED <<poke, at, job, stops, runs, returned, failed>>

\* The goroutine EnqueueTask leaves behind pokes the queue, unless it is full.
Poke(n) ==
  /\ pokers[n] > 0
  /\ pokers' = [pokers EXCEPT ![n] = @ - 1]
  /\ poke' = [poke EXCEPT ![n] = TRUE]
  /\ UNCHANGED <<size, row, asking, at, job, stops, runs, returned, failed>>

-----------------------------------------------------------------------------
\* The task types a pool asks DequeueTask for.
PoolTypes(p) == IF p = "vod" THEN {"vod"} ELSE {"window", "fire"}

\* The WHERE clause of DequeueTask.
Eligible(r) ==
  r.status = "PENDING" /\ r.tries < MaxTries /\ r.lease # "held" /\ r.due

Candidates(p) == {i \in 1 .. size : Eligible(row[i]) /\ TypeOf[row[i].key] \in PoolTypes(p)}

\* DequeueTask hands the oldest candidate to the worker and leases it.
Dequeue(w) ==
  /\ at[w] = "poll"
  /\ \E i \in Candidates(w[2]) :
       /\ \A j \in Candidates(w[2]) : i <= j
       /\ row' = [row EXCEPT ![i].status = "PROCESSING", ![i].lease = "held", ![i].tries = @ + 1]
       /\ job' = [job EXCEPT ![w] = i]
       /\ runs' = [runs EXCEPT ![i] = @ + 1]
  /\ at' = [at EXCEPT ![w] = "work"]
  /\ UNCHANGED <<size, asking, pokers, poke, stops, returned, failed>>

\* DequeueTask found nothing: the worker waits for its timer or a poke.
Sleep(w) ==
  /\ at[w] = "poll"
  /\ Candidates(w[2]) = {}
  /\ at' = [at EXCEPT ![w] = "sleep"]
  /\ UNCHANGED <<size, row, asking, pokers, poke, job, stops, runs, returned, failed>>

\* Mutant: the worker waits for a poke only.
TimerNever(w) == FALSE /\ UNCHANGED vars

\* The one-second timer.
Timer(w) ==
  /\ at[w] = "sleep"
  /\ at' = [at EXCEPT ![w] = "poll"]
  /\ UNCHANGED <<size, row, asking, pokers, poke, job, stops, runs, returned, failed>>

\* A poke wakes one worker of the node, of whichever pool.
Poked(w) ==
  /\ at[w] = "sleep"
  /\ poke[w[1]]
  /\ poke' = [poke EXCEPT ![w[1]] = FALSE]
  /\ at' = [at EXCEPT ![w] = "poll"]
  /\ UNCHANGED <<size, row, asking, pokers, job, stops, runs, returned, failed>>

\* The worker is done with its row and asks for the next.
Done(w) ==
  /\ at' = [at EXCEPT ![w] = "poll"]
  /\ job' = [job EXCEPT ![w] = 0]
  /\ UNCHANGED <<size, asking, pokers, poke, stops, runs>>

\* CompleteTask, which does not look who holds the row.
Completed(r) == [r EXCEPT !.status = "COMPLETED", !.lease = "none"]

\* The handler ends with CompleteTask.
Complete(w) ==
  /\ at[w] = "work"
  /\ TypeOf[row[job[w]].key] # "fire"
  /\ row' = [row EXCEPT ![job[w]] = Completed(@)]
  /\ Done(w)
  /\ UNCHANGED <<returned, failed>>

\* The handler returns without CompleteTask, on an error, a recovered panic
\* or by design: the row stays as DequeueTask left it.
Leave(w) ==
  /\ at[w] = "work"
  /\ failed' = failed \cup {job[w]}
  /\ UNCHANGED <<row, returned>>
  /\ Done(w)

-----------------------------------------------------------------------------
\* The queue of a node stops; nothing of what its workers hold is released.
Stop(n) ==
  /\ Up(n)
  /\ stops < MaxStops
  /\ stops' = stops + 1
  /\ at' = [w \in Workers |-> IF w[1] = n THEN "off" ELSE at[w]]
  /\ job' = [w \in Workers |-> IF w[1] = n THEN 0 ELSE job[w]]
  /\ asking' = [asking EXCEPT ![n] = NoKey]
  /\ pokers' = [pokers EXCEPT ![n] = 0]
  /\ poke' = [poke EXCEPT ![n] = FALSE]
  /\ failed' = failed \cup {job[<<n, p>>] : p \in Pools}
  /\ UNCHANGED <<size, row, runs, returned>>

\* The node is started again.
Restart(n) ==
  /\ ~Up(n)
  /\ at' = [w \in Workers |-> IF w[1] = n THEN "poll" ELSE at[w]]
  /\ UNCHANGED <<size, row, asking, pokers, poke, job, stops, runs, returned, failed>>

\* Thirty minutes pass since the row was handed out.
LeaseExpires(i) ==
  /\ row[i].lease = "held"
  /\ row' = [row EXCEPT ![i].lease = "expired"]
  /\ UNCHANGED <<size, asking, pokers, poke, at, job, stops, runs, returned, failed>>

\* The time of a delayed task comes.
ComesDue(i) ==
  /\ i <= size
  /\ ~row[i].due
  /\ row' = [row EXCEPT ![i].due = TRUE]
  /\ UNCHANGED <<size, asking, pokers, poke, at, job, stops, runs, returned, failed>>

-----------------------------------------------------------------------------
(***************************************************************************)
(* Maintenance.  No code in the repository calls these three functions;    *)
(* they are part of the interface, so they may be called at any time.      *)
(***************************************************************************)
\* The history of it.
Return(ids) ==
  /\ returned' = returned \cup ids
  /\ Cardinality(returned') <= MaxReturned

\* FailTask: back to PENDING while tries remain.
FailTask(w) ==
  /\ at[w] = "work"
  /\ row' = [row EXCEPT ![job[w]].lease = "none",
                        ![job[w]].status = IF row[job[w]].tries >= MaxTries THEN "FAILED" ELSE "PENDING"]
  /\ Return({job[w]})
  /\ Done(w)
  /\ UNCHANGED failed

\* ReleaseTask: back to the queue.
ReleaseTask(w) ==
  /\ at[w] = "work"
  /\ row' = [row EXCEPT ![job[w]].lease = "none", ![job[w]].status = "PENDING"]
  /\ Return({job[w]})
  /\ Done(w)
  /\ UNCHANGED failed

\* CleanupExpiredLocks: every row whose lease has run out goes back.
CleanupExpiredLocks ==
  LET Expired == {i \in Ids : row[i].status = "PROCESSING" /\ row[i].lease = "expired"} IN
  /\ Expired # {}
  /\ row' = [i \in Ids |-> IF i \in Expired
                           THEN [row[i] EXCEPT !.status = "PENDING", !.lease = "none"]
                           ELSE row[i]]
  /\ Return(Expired)
  /\ UNCHANGED <<size, asking, pokers, poke, at, job, stops, runs, failed>>

-----------------------------------------------------------------------------
\* A step of a worker's loop.
WorkerStep(w) == Dequeue(w) \/ Sleep(w) \/ Timer(w) \/ Complete(w) \/ Leave(w)

Next ==
  \/ \E n \in Nodes :
       \/ \E k \in Keys : EnqueueCheck(n, k)
       \/ EnqueueCreate(n) \/ Poke(n) \/ Stop(n) \/ Restart(n)
  \/ \E w \in Workers : WorkerStep(w) \/ Poked(w) \/ FailTask(w) \/ ReleaseTask(w)
  \/ \E i \in Ids : LeaseExpires(i) \/ ComesDue(i)
  \/ CleanupExpiredLocks

Spec == Init /\ [][Next]_vars

(***************************************************************************)
(* Fairness: workers run, their timers fire and their handlers return (a   *)
(* handler has no deadline of its own; the external calls it makes do), a  *)
(* stopped node is started again, and time passes.  MaxStops makes nodes   *)
(* stop finitely often.  Nothing is assumed of the pokes.                  *)
(***************************************************************************)
FairSpec ==
  /\ Spec
  /\ \A w \in Workers : WF_vars(WorkerStep(w))
  /\ \A n \in Nodes : WF_vars(Restart(n))
  /\ \A i \in Ids : WF_vars(ComesDue(i)) /\ WF_vars(LeaseExpires(i))

-----------------------------------------------------------------------------
\* Types: a worker holds a row that exists, or none.
TypeOK ==
  /\ size \in 0 .. MaxRows
  /\ row \in [Ids -> Rows]
  /\ asking \in [Nodes -> Keys \cup {NoKey}]
  /\ pokers \in [Nodes -> Nat]
  /\ poke \in [Nodes -> BOOLEAN]
  /\ at \in [Workers -> {"poll", "sleep", "work", "off"}]
  /\ job \in [Workers -> 0 .. size]
  /\ stops \in 0 .. MaxStops
  /\ runs \in [Ids -> Nat]
  /\ returned \subseteq Ids
  /\ failed \subseteq 0 .. MaxRows   \* 0: the node of a worker without a row stopped

\* "The unique task key ensures only one node's enqueue + dequeue actually runs
\* each window" (queue_processor.go:156-157): of the rows of a key only one is
\* ever handed out, and it is handed out once, unless its handler failed, its
\* node stopped or maintenance returned it.  In particular a lease that runs
\* out under a slow handler does not give its row to a second worker.
WindowRunsOnce ==
  \A i, j \in 1 .. size :
    /\ runs[i] <= 1 \/ i \in failed \/ i \in returned
    /\ row[i].key = row[j].key /\ runs[i] > 0 /\ runs[j] > 0 => i = j

\* A window task that failed at its first try and has others left.
FailedOnce(i) ==
  /\ i \in failed /\ runs[i] = 1 /\ runs[i] < MaxTries
  /\ row[i].key \in {k \in Keys : TypeOf[k] = "window"}

\* runQueueWorker says of a failed task that "it stays locked until its lease
\* expires and then becomes eligible for retry (capped by max_tries)"
\* (queue_processor.go:203-205): a window task that failed once is eventually
\* handed out again.
FailedIsRetried ==
  \A i \in Ids : FailedOnce(i) ~> runs[i] > 1

\* Every task that is enqueued is eventually handed to a worker, although a
\* poke may wake a worker of the wrong pool or of no other node, and although
\* nothing announces that a delayed task has come due.
EveryTaskIsTaken ==
  \A i \in Ids : size >= i ~> runs[i] > 0

=============================================================================
