----------------------------- MODULE SweepLanes -----------------------------
(***************************************************************************)
(* The scheduler of a sweep (pkg/atproto/sweep.go, laneScheduler): one     *)
(* worker per host, at most Limit of them running, each working through    *)
(* its host's program of repositories; repositories may be added while it  *)
(* runs, a head check may add a repair, and the context may be cancelled.  *)
(*                                                                         *)
(* Every critical section of the scheduler's lock is one step.  A worker   *)
(* is a goroutine of run; a lane has one at a time, and those that have    *)
(* left the loop but not yet run their deferred release are counted.       *)
(***************************************************************************)
EXTENDS Naturals, Sequences, FiniteSets, SequencesExt

CONSTANTS
  Lanes,      \* hosts
  Repos,      \* repositories
  LaneOf,     \* the host of each repository
  Limit,      \* laneScheduler.free at the start (sweepConcurrency)
  MaxRounds   \* maxDeepenRounds

ASSUME SweepAssumption ==
  /\ IsFiniteSet(Lanes)
  /\ LaneOf \in [Repos -> Lanes]
  /\ Limit \in Nat \ {0}
  /\ MaxRounds \in Nat \ {0}

VARIABLES
  place,      \* where a repository is: not added, in a queue, at work, done
  rung,       \* sweepStep.Windows: the windows it has had this sweep
  live,       \* laneProgram.live
  worker,     \* where the lane's worker is
  waiting,    \* laneScheduler.waiting: lanes whose slot was promised
  granted,    \* lanes whose slot channel is closed
  free,       \* laneScheduler.free
  leaving,    \* workers that have yet to release their slot
  cancelled   \* the context has ended

vars == <<place, rung, live, worker, waiting, granted, free, leaving, cancelled>>

Queues == {"check", "shallow", "ladder"}
AtWork == {"checking", "syncing", "deepening"}
Places == {"out", "done", "dropped"} \cup Queues \cup AtWork
Workers == {"none", "select", "quitting", "loop", "next", "work"}

Queued(l) == {i \in Repos : LaneOf[i] = l /\ place[i] \in Queues}
Busy(l) == {i \in Repos : LaneOf[i] = l /\ place[i] \in AtWork}

Init ==
  /\ place = [i \in Repos |-> "out"]
  /\ rung = [i \in Repos |-> 0]
  /\ live = [l \in Lanes |-> FALSE]
  /\ worker = [l \in Lanes |-> "none"]
  /\ waiting = << >>
  /\ granted = {}
  /\ free = Limit
  /\ leaving = 0
  /\ cancelled = FALSE

(***************************************************************************)
(* add, by the plan or by the resolver (sweepPlan, feedUnresolved).        *)
(***************************************************************************)
\* acquire: a slot of the budget, or the promise of one.
Acquire(l) ==
  IF free > 0
  THEN /\ free' = free - 1
       /\ granted' = granted \cup {l}
       /\ UNCHANGED waiting
  ELSE /\ waiting' = Append(waiting, l)
       /\ UNCHANGED <<free, granted>>

Add(i, queue) ==
  LET l == LaneOf[i]
  IN /\ place[i] = "out"
     /\ place' = [place EXCEPT ![i] = queue]
     /\ IF live[l]
        THEN UNCHANGED <<live, worker, waiting, granted, free>>
        ELSE /\ live' = [live EXCEPT ![l] = TRUE]
             /\ worker' = [worker EXCEPT ![l] = "select"]
             /\ Acquire(l)
     /\ UNCHANGED <<rung, leaving, cancelled>>

(***************************************************************************)
(* run                                                                     *)
(***************************************************************************)
Granted(l) ==
  /\ worker[l] = "select" /\ l \in granted
  /\ worker' = [worker EXCEPT ![l] = "loop"]
  /\ UNCHANGED <<place, rung, live, waiting, granted, free, leaving, cancelled>>

\* Mutant: a slot granted to a worker that gives up is forgotten.
PassedOnNever(n) == n

PassedOn(n) == n + 1

\* giveUp: a promised slot is withdrawn, one granted meanwhile is passed on.
GiveUp(l) ==
  /\ worker[l] = "select" /\ cancelled
  /\ worker' = [worker EXCEPT ![l] = "quitting"]
  /\ \/ /\ \E k \in DOMAIN waiting :
             waiting[k] = l /\ waiting' = RemoveAt(waiting, k)
        /\ UNCHANGED <<granted, leaving>>
     \/ /\ \A k \in DOMAIN waiting : waiting[k] # l
        /\ granted' = granted \ {l}
        /\ leaving' = PassedOn(leaving)
        /\ UNCHANGED waiting
  /\ UNCHANGED <<place, rung, live, free, cancelled>>

\* abandon: the rest of the lane's program is left to the next sweep.
Abandoned(l) == [i \in Repos |-> IF i \in Queued(l) THEN "dropped" ELSE place[i]]

Quit(l) ==
  /\ worker[l] = "quitting"
  /\ place' = Abandoned(l)
  /\ live' = [live EXCEPT ![l] = FALSE]
  /\ worker' = [worker EXCEPT ![l] = "none"]
  /\ UNCHANGED <<rung, waiting, granted, free, leaving, cancelled>>

\* The worker leaves the loop; its slot is released by the deferred call.
Leave(l) ==
  /\ live' = [live EXCEPT ![l] = FALSE]
  /\ worker' = [worker EXCEPT ![l] = "none"]
  /\ granted' = granted \ {l}
  /\ leaving' = leaving + 1
  /\ UNCHANGED <<rung, waiting, free, cancelled>>

Stop(l) ==
  /\ worker[l] = "loop" /\ cancelled
  /\ place' = Abandoned(l)
  /\ Leave(l)

Look(l) ==
  /\ worker[l] = "loop" /\ ~cancelled
  /\ worker' = [worker EXCEPT ![l] = "next"]
  /\ UNCHANGED <<place, rung, live, waiting, granted, free, leaving, cancelled>>

\* laneProgram.next: head checks, then shallow syncs, then the ladder from its
\* lowest rung.
First(l, i) ==
  /\ i \in Queued(l)
  /\ place[i] # "check" => \A j \in Queued(l) : place[j] # "check"
  /\ place[i] = "ladder" =>
       \A j \in Queued(l) : place[j] = "ladder" /\ rung[i] <= rung[j]

NextStep(l, i) ==
  /\ worker[l] = "next" /\ First(l, i)
  /\ place' = [place EXCEPT ![i] = CASE @ = "check"   -> "checking"
                                     [] @ = "shallow" -> "syncing"
                                     [] @ = "ladder"  -> "deepening"]
  /\ worker' = [worker EXCEPT ![l] = "work"]
  /\ UNCHANGED <<rung, live, waiting, granted, free, leaving, cancelled>>

\* Mutant: the worker leaves once it has nothing left to check.
NoStepLeftUnchecked(l) == \A i \in Queued(l) : place[i] # "check"

NoStepLeft(l) == Queued(l) = {}

\* "In the same instant it observes the program empty" the lane is not live.
Exhausted(l) ==
  /\ worker[l] = "next" /\ NoStepLeft(l)
  /\ UNCHANGED place
  /\ Leave(l)

(***************************************************************************)
(* The work of one step: sweepCheck, sweepSync or sweepWindow.             *)
(***************************************************************************)
\* It wants nothing more in this sweep (also when it failed).
WorkDone(l, i) ==
  /\ worker[l] = "work" /\ i \in Busy(l)
  /\ place' = [place EXCEPT ![i] = "done"]
  /\ worker' = [worker EXCEPT ![l] = "loop"]
  /\ UNCHANGED <<rung, live, waiting, granted, free, leaving, cancelled>>

\* A head check that finds drift hands its lane a shallow sync.
WorkDrifted(l, i) ==
  /\ worker[l] = "work" /\ i \in Busy(l) /\ place[i] = "checking"
  /\ place' = [place EXCEPT ![i] = "shallow"]
  /\ worker' = [worker EXCEPT ![l] = "loop"]
  /\ UNCHANGED <<rung, live, waiting, granted, free, leaving, cancelled>>

MayPush(n) == n < MaxRounds

\* push: it wants a window, or one more, if its budget allows.
WorkMore(l, i) ==
  LET n == IF place[i] = "deepening" THEN rung[i] + 1 ELSE 0
  IN /\ worker[l] = "work" /\ i \in Busy(l)
     /\ IF MayPush(n)
        THEN /\ place' = [place EXCEPT ![i] = "ladder"]
             /\ rung' = [rung EXCEPT ![i] = n]
        ELSE /\ place' = [place EXCEPT ![i] = "done"]
             /\ UNCHANGED rung
     /\ worker' = [worker EXCEPT ![l] = "loop"]
     /\ UNCHANGED <<live, waiting, granted, free, leaving, cancelled>>

(***************************************************************************)
(* release: the slot goes to the lane that has waited longest.             *)
(***************************************************************************)
\* Mutant: the slot goes back to the budget whoever waits.
SomeoneWaitsNever == FALSE

SomeoneWaits == waiting # << >>

Release ==
  /\ leaving > 0
  /\ leaving' = leaving - 1
  /\ IF SomeoneWaits
     THEN /\ granted' = granted \cup {Head(waiting)}
          /\ waiting' = Tail(waiting)
          /\ UNCHANGED free
     ELSE /\ free' = free + 1
          /\ UNCHANGED <<granted, waiting>>
  /\ UNCHANGED <<place, rung, live, worker, cancelled>>

Cancel ==
  /\ ~cancelled
  /\ cancelled' = TRUE
  /\ UNCHANGED <<place, rung, live, worker, waiting, granted, free, leaving>>

Step(l) ==
  \/ Granted(l) \/ GiveUp(l) \/ Quit(l) \/ Stop(l) \/ Look(l) \/ Exhausted(l)
  \/ \E i \in Repos :
       NextStep(l, i) \/ WorkDone(l, i) \/ WorkDrifted(l, i) \/ WorkMore(l, i)

Next ==
  \/ \E i \in Repos : \E queue \in Queues : Add(i, queue)
  \/ \E l \in Lanes : Step(l)
  \/ Release
  \/ Cancel

Spec == Init /\ [][Next]_vars

\* A goroutine that can run does run, and a step's requests are answered or
\* time out.
FairSpec == Spec /\ WF_vars(Release) /\ \A l \in Lanes : WF_vars(Step(l))

(***************************************************************************)
(* Properties                                                              *)
(***************************************************************************)
\* Types; a repository never gets more windows in a sweep than its budget
\* (sweep.go:232).
TypeOK ==
  /\ place \in [Repos -> Places]
  /\ rung \in [Repos -> 0 .. MaxRounds - 1]
  /\ live \in [Lanes -> BOOLEAN]
  /\ worker \in [Lanes -> Workers]
  /\ waiting \in Seq(Lanes)
  /\ granted \in SUBSET Lanes
  /\ free \in Nat /\ leaving \in Nat
  /\ cancelled \in BOOLEAN

\* Slots are neither lost nor minted, however grants race with cancellation
\* ("if the slot was granted in the meantime it is passed on rather than
\* lost", sweep.go:350-351), none is idle while a lane waits for one, and a worker
\* that does requests holds one, so that at most Limit hosts are talked to.
SlotsConserved ==
  /\ free + Cardinality(granted) + leaving = Limit
  /\ \A l \in Lanes : worker[l] \in {"loop", "next", "work"} => l \in granted
  /\ waiting # << >> => free = 0

\* A host has a worker exactly while its lane is live, and a repository in a
\* queue always has a worker that will get to it: no add falls between a
\* worker's last look and its end (sweep.go:366-368).
LaneIsServed ==
  \A l \in Lanes : /\ live[l] <=> worker[l] # "none"
                   /\ worker[l] = "work" <=> Busy(l) # {}
                   /\ Queued(l) \cup Busy(l) # {} => live[l]

\* Every repository that was added is worked on to its end, or dropped because
\* the sweep was cancelled: the wait at the end of a sweep returns.
EveryRepoIsReached ==
  \A i \in Repos : place[i] \in Queues ~>
    (place[i] = "done" \/ (place[i] = "dropped" /\ cancelled))

=============================================================================
