-------------------------- MODULE LivestreamRecord --------------------------
(***************************************************************************)
(* The place.stream.livestream records of one streamer: who writes them    *)
(* (the heartbeat of the stream session, startLivestream, stopLivestream,  *)
(* a teleport, a moderator, the operator's finalize route, the idle        *)
(* finalize task and programs elsewhere), and how the node follows them    *)
(* (several firehoses, a repository walk, the index, the tasks it          *)
(* enqueues).                                                              *)
(*                                                                         *)
(* The records live in the streamer's repository at the PDS.  Every        *)
(* version is a commit, and log holds the commits in order.  Two versions  *)
(* are written at different instants and carry time stamps, so a version's *)
(* CID is represented by its place in log.  Writers take the record from   *)
(* the node's index, ask the PDS for the CID it has now, and put the       *)
(* changed record with that CID as the one to be replaced: three steps     *)
(* with anything in between.  The index is separate from the repository    *)
(* and runs behind it.                                                     *)
(*                                                                         *)
(* A tick of the clock is the 30 seconds of livestreamUpdateInterval.      *)
(***************************************************************************)
EXTENDS Naturals, Sequences, FiniteSets

CONSTANTS
  Streams,      \* bound: livestream records, numbered in the order of createdAt
  MaxWrites,    \* bound: versions others than the finalize task write
  LastAct,      \* bound: the last tick at which a streamer does anything
  MaxTime,      \* bound: the last tick
  Idle,         \* idleTimeoutSeconds, in ticks (0: none is set)
  Prompt,       \* bound: TRUE: a tick leaves no call unfinished and no due task,
                \* and after LastAct no commit undelivered
  Relays,       \* bound: commits of the repository handled at a time, one per relay
  MaxBusy,      \* bound: callers between their first and last step at a time
  MaxMishaps    \* bound: failing calls, crashes and walks, together

ASSUME LivestreamRecordAssumption ==
  /\ Streams \in Nat \ {0}
  /\ MaxWrites \in Nat /\ LastAct \in Nat /\ MaxTime \in Nat /\ Idle \in Nat
  /\ Prompt \in BOOLEAN /\ Relays \in Nat /\ MaxBusy \in Nat /\ MaxMishaps \in Nat

Uris == 1 .. Streams

\* The handlers and loops that write a livestream record.
Callers == {"beat", "stop", "start", "teleport", "moderator", "operator", "finalize"}

VARIABLES
  log,       \* the versions committed to the repository, oldest first
  pos,       \* how many of them the relays' consumers have claimed
  cursor,    \* the saved firehose cursor: where a restarted node resumes
  work,      \* the handlers of claimed commits that have not returned
  idx,       \* per record: the version in the index, 0 for none
  walk,      \* how many versions the walk under way has fetched, 0: no walk
  upset,     \* history: records whose versions did not reach the index once each
             \* and in order: a walk indexed one, a restart repeated one, or the
             \* handler of an older one came after that of a newer one
  dropped,   \* history: versions whose handler failed, or died with the node, so
             \* that what follows the indexing was never done
  session,   \* the streamer has an OAuth session on this node
  allowed,   \* StreamIsAllowed: the streamer is one of this node's
  call,      \* per caller: where it is and what it has read
  tasks,     \* finalize tasks ever enqueued
  ran,       \* those a worker has taken
  now,       \* the clock
  scheduled, \* the records ScheduleAutoPublishVOD was called for
  lost,      \* history: records whose finalize task failed or died with the node
  mishaps    \* failing calls, crashes and walks so far

pds == <<log, session, allowed>>
index == <<pos, cursor, work, idx, walk, upset, dropped, scheduled>>
queue == <<tasks, ran, lost>>
vars == <<pds, index, queue, call, now, mishaps>>

\* A caller that is doing nothing.
Quiet == [at |-> "idle", u |-> 1, rec |-> 0, swap |-> 0, time |-> 0]

Init ==
  /\ log = <<>>
  /\ pos = 0
  /\ cursor = 0
  /\ work = {}
  /\ idx = [u \in Uris |-> 0]
  /\ walk = 0
  /\ upset = {} /\ dropped = {}
  /\ session \in BOOLEAN /\ allowed \in BOOLEAN
  /\ call = [c \in Callers |-> Quiet]
  /\ tasks = {}
  /\ ran = {}
  /\ now = 1
  /\ scheduled = {}
  /\ lost = {}
  /\ mishaps = 0

-----------------------------------------------------------------------------
\* The repository.

\* The last version of u among the first n commits, 0 for none.
VersionAt(n, u) ==
  IF \E i \in 1 .. n : log[i].u = u
  THEN CHOOSE i \in 1 .. n : log[i].u = u /\ \A j \in (i + 1) .. n : log[j].u # u
  ELSE 0

\* The version the repository has of u: what getRecord answers.
Current(u) == VersionAt(Len(log), u)

Created == {u \in Uris : Current(u) # 0}

Ended(u) == Current(u) # 0 /\ log[Current(u)].ended

Version(u, seen, ended) == [u |-> u, seen |-> seen, ended |-> ended]

\* createRecord and an accepted putRecord.
Commit(v) == log' = Append(log, v) /\ UNCHANGED <<session, allowed>>

\* The callers under way.
Busy == {c \in Callers : call[c].at # "idle"}

\* The streamer, or a program of theirs, may still act.
MayAct == now <= LastAct /\ Len(log) + Cardinality(Busy) < MaxWrites

\* The bound on records leaves one for another livestream: those under way will
\* create theirs.
Spare ==
  Cardinality({c \in {"start", "moderator"} : call[c].at # "idle"}) < Cardinality(Uris \ Created)

\* Another node or the streamer's own client writes the repository, with a
\* record it has just read: a new livestream, a heartbeat or an ending.
Elsewhere ==
  /\ MayAct
  /\ \/ \E u \in Uris \ Created :
          /\ Spare
          /\ \A w \in Uris : w < u => w \in Created
          /\ Commit(Version(u, now, FALSE))
     \/ \E u \in Created :
          \/ Commit(Version(u, now, log[Current(u)].ended))
          \/ ~Ended(u) /\ Commit(Version(u, log[Current(u)].seen, TRUE))
  /\ UNCHANGED <<index, queue, call, now, mishaps>>

-----------------------------------------------------------------------------
\* The index.

\* GetLatestLivestreamForRepo: the newest record by created_at.
Latest ==
  IF \E u \in Uris : idx[u] # 0
  THEN CHOOSE u \in Uris : idx[u] # 0 /\ \A w \in Uris : idx[w] # 0 => w <= u
  ELSE 0

(***************************************************************************)
(* The finalize task handleCreateUpdate enqueues for a version, for the    *)
(* time its lastSeenAt is too old (and ten seconds, less than a tick).     *)
(* The key names the record and that time, which no other version shares.  *)
(***************************************************************************)
FinalizeTask(v) ==
  [version |-> v, u |-> log[v].u, at |-> log[v].seen + Idle, stale |-> 0]

\* Mutant: the indexed version is read after v has replaced it.
SeenEndingTooLate(v) == log[v].ended /\ ~log[v].ended

\* Whether version v is the node seeing the livestream end.
SeenEnding(v) == log[v].ended /\ (idx[log[v].u] # 0 => ~log[idx[log[v].u]].ended)

\* createOrVerify finds the version it was given; any other it replaces.
AlreadyIndexed(v) == idx[log[v].u] = v

(***************************************************************************)
(* The next commit arrives and is claimed by the consumer of one relay:    *)
(* the cursor moves past it, and the deduper has the other relays leave it *)
(* alone.  A relay handles the commits of a repository one after the       *)
(* other, several relays do so at the same time.                           *)
(***************************************************************************)
Claim ==
  /\ pos < Len(log)
  /\ Cardinality(work) < Relays
  /\ pos' = pos + 1
  /\ work' = work \cup {[v |-> pos + 1, at |-> IF log[pos + 1].ended THEN "read" ELSE "index",
                         ending |-> FALSE]}
  /\ UNCHANGED <<pds, cursor, idx, walk, upset, dropped, scheduled, queue, call, now, mishaps>>

HandlerKeeps == UNCHANGED <<pds, pos, cursor, walk, ran, lost, call, now>>

HandlerBecomes(w, next) == work' = (work \ {w}) \cup next

\* handleCreateUpdate reads the indexed version before it replaces it by one that
\* has ended.
HandlerReads(w) ==
  /\ w.at = "read"
  /\ HandlerBecomes(w, {[w EXCEPT !.at = "index", !.ending = SeenEnding(w.v)]})
  /\ UNCHANGED <<idx, upset, dropped, scheduled, tasks, mishaps>> /\ HandlerKeeps

\* CreateLivestream.  A version the index already has is left alone, side effects
\* included.
HandlerIndexes(w) ==
  LET u == log[w.v].u IN
  /\ w.at = "index"
  /\ IF AlreadyIndexed(w.v)
     THEN HandlerBecomes(w, {}) /\ UNCHANGED <<idx, upset>>
     ELSE /\ HandlerBecomes(w, {[w EXCEPT !.at = "schedule"]})
          /\ idx' = [idx EXCEPT ![u] = w.v]
          /\ upset' = IF idx[u] > w.v THEN upset \cup {u} ELSE upset
  /\ UNCHANGED <<dropped, scheduled, tasks, mishaps>> /\ HandlerKeeps

\* What follows for a streamer of this node, in the other database:
\* ScheduleAutoPublishVOD when this is the ending, else the finalize task.
HandlerSchedules(w) ==
  /\ w.at = "schedule"
  /\ HandlerBecomes(w, {})
  /\ scheduled' = IF allowed /\ w.ending THEN scheduled \cup {log[w.v].u} ELSE scheduled
  /\ tasks' = IF allowed /\ Idle # 0 /\ ~log[w.v].ended THEN tasks \cup {FinalizeTask(w.v)} ELSE tasks
  /\ UNCHANGED <<idx, upset, dropped, mishaps>> /\ HandlerKeeps

(***************************************************************************)
(* A call to one of the databases fails: the handler returns the error,    *)
(* which is logged, and the commit counts as handled.                      *)
(***************************************************************************)
HandlerFails(w) ==
  /\ mishaps < MaxMishaps
  /\ mishaps' = mishaps + 1
  /\ HandlerBecomes(w, {})
  /\ dropped' = dropped \cup {w.v}
  /\ UNCHANGED <<idx, upset, scheduled, tasks>> /\ HandlerKeeps

\* A repository walk fetches the head of the repository.
WalkFetch ==
  /\ mishaps < MaxMishaps
  /\ walk = 0
  /\ Len(log) > 0
  /\ walk' = Len(log)
  /\ mishaps' = mishaps + 1
  /\ UNCHANGED <<pds, pos, cursor, work, idx, upset, dropped, scheduled, queue, call, now>>

(***************************************************************************)
(* The walk indexes the records it fetched, as a first sync: nothing is    *)
(* scheduled.  It replaces whatever the index has, a newer version too.    *)
(***************************************************************************)
WalkIndex ==
  /\ walk # 0
  /\ walk' = 0
  /\ idx' = [u \in Uris |-> IF VersionAt(walk, u) # 0 THEN VersionAt(walk, u) ELSE idx[u]]
  /\ upset' = upset \cup {u \in Uris : idx'[u] # idx[u]}
  /\ UNCHANGED <<pds, pos, cursor, work, dropped, scheduled, queue, call, now, mishaps>>

-----------------------------------------------------------------------------
\* The writers.

\* The bound on callers under way.
Room == Cardinality(Busy) < MaxBusy

Becomes(c, r) == call' = [call EXCEPT ![c] = r]

\* Caller c has read the indexed version of u and will ask for its CID.
Reads(c, u) ==
  Becomes(c, [at |-> "get", u |-> u, rec |-> idx[u], swap |-> 0, time |-> IF c = "start" THEN now ELSE 0])

\* doUpdateLivestream, throttled, reads the latest record from the index.
BeatRead ==
  /\ session /\ MayAct
  /\ call["beat"].at = "idle" /\ Room
  /\ Latest # 0
  /\ Reads("beat", Latest)
  /\ UNCHANGED <<pds, index, queue, now, mishaps>>

\* stopLivestream refuses a record the index says has ended.
StopRead ==
  /\ session /\ MayAct
  /\ call["stop"].at = "idle" /\ Room
  /\ Latest # 0
  /\ ~log[idx[Latest]].ended
  /\ Reads("stop", Latest)
  /\ UNCHANGED <<pds, index, queue, now, mishaps>>

\* startLivestream begins with endPriorLivestream, unless there is nothing
\* to end.
StartRead ==
  /\ session /\ MayAct
  /\ call["start"].at = "idle" /\ Room /\ Spare
  /\ IF Latest # 0 /\ ~log[idx[Latest]].ended
     THEN Reads("start", Latest)
     ELSE Becomes("start", [Quiet EXCEPT !.at = "create", !.time = now])
  /\ UNCHANGED <<pds, index, queue, now, mishaps>>

\* Where a caller goes after its putRecord, or when a call fails:
\* endPriorLivestream is best effort, startLivestream goes on.
After(c) ==
  IF c = "start" /\ call[c].at # "create" THEN [call[c] EXCEPT !.at = "create"] ELSE Quiet

\* getRecord: the CID to replace.
GetRecord(c) ==
  /\ call[c].at = "get"
  /\ Becomes(c, [call[c] EXCEPT !.at = "put", !.swap = Current(call[c].u)])
  /\ UNCHANGED <<pds, index, queue, now, mishaps>>

\* endReferencedLivestream works on the record it gets from the PDS.
TeleportRead(u) ==
  /\ session /\ MayAct
  /\ call["teleport"].at = "idle" /\ Room
  /\ u \in Created /\ ~Ended(u)
  /\ Becomes("teleport", [at |-> "put", u |-> u, rec |-> Current(u), swap |-> Current(u), time |-> 0])
  /\ UNCHANGED <<pds, index, queue, now, mishaps>>

\* A moderator's updateLivestream gets the record from the PDS ...
ModeratorRead(u) ==
  /\ session /\ MayAct
  /\ call["moderator"].at = "idle" /\ Room /\ Spare
  /\ u \in Created
  /\ Becomes("moderator", [at |-> "copy", u |-> u, rec |-> Current(u), swap |-> 0, time |-> 0])
  /\ UNCHANGED <<pds, index, queue, now, mishaps>>

\* EndLivestreamRecord replaces the version the index has, and no other.
EndIndexed(c, u) ==
  /\ ~log[idx[u]].ended
  /\ Becomes(c, [at |-> "put", u |-> u, rec |-> idx[u], swap |-> idx[u], time |-> 0])

\* The operator's finalize route, asked to end the livestream too.
OperatorRead(u) ==
  /\ session /\ MayAct
  /\ call["operator"].at = "idle" /\ Room
  /\ idx[u] # 0
  /\ EndIndexed("operator", u)
  /\ UNCHANGED <<pds, index, queue, now, mishaps>>

\* Mutant: the heartbeat writes a record that has not ended.
WrittenAlive(c) ==
  Version(call[c].u,
          IF c = "beat" THEN now ELSE log[call[c].rec].seen,
          c # "beat")

\* The record a caller puts: the heartbeat moves lastSeenAt, the others end it.
Written(c) ==
  Version(call[c].u,
          IF c = "beat" THEN now ELSE log[call[c].rec].seen,
          IF c = "beat" THEN log[call[c].rec].ended ELSE TRUE)

\* The PDS accepts a putRecord only while the CID to replace is current.
Accepted(c) == call[c].swap = Current(call[c].u)

PutRecord(c) ==
  /\ call[c].at = "put"
  /\ IF Accepted(c)
     THEN Commit(Written(c))
     ELSE UNCHANGED pds
  /\ Becomes(c, After(c))
  /\ UNCHANGED <<index, queue, now, mishaps>>

\* A call to the PDS fails.
CallFails(c) ==
  /\ mishaps < MaxMishaps
  /\ call[c].at # "idle"
  /\ mishaps' = mishaps + 1
  /\ lost' = IF c = "finalize" THEN lost \cup {call[c].u} ELSE lost
  /\ Becomes(c, After(c))
  /\ UNCHANGED <<pds, index, tasks, ran, now>>

\* startLivestream creates the new record.
StartCreate ==
  /\ call["start"].at = "create"
  /\ \E u \in Uris \ Created :
       /\ \A w \in Uris : w < u => w \in Created
       /\ Commit(Version(u, call["start"].time, FALSE))
  /\ Becomes("start", Quiet)
  /\ UNCHANGED <<index, queue, now, mishaps>>

\* ... and creates a new one from it, lastSeenAt and endedAt included.
ModeratorCreate ==
  LET r == log[call["moderator"].rec] IN
  /\ call["moderator"].at = "copy"
  /\ \E u \in Uris \ Created :
       /\ \A w \in Uris : w < u => w \in Created
       /\ Commit(Version(u, r.seen, r.ended))
  /\ Becomes("moderator", Quiet)
  /\ UNCHANGED <<index, queue, now, mishaps>>

-----------------------------------------------------------------------------
\* The idle finalize task.

\* Mutant: the heartbeat is frozen as soon as the task has been rescheduled.
FrozenOnceRescheduled(t, seen) == t.stale # 0

\* heartbeatFrozen: the heartbeat is where the task left it.
HeartbeatFrozen(t, seen) == t.stale # 0 /\ t.stale = seen

\* Mutant: the task is put back without saying what it saw.
RescheduledBlank(t, seen) == [t EXCEPT !.at = now + Idle]

\* The task that gives the heartbeat one more idle window.
Rescheduled(t, seen) == [t EXCEPT !.at = now + Idle, !.stale = seen]

Due == {t \in tasks \ ran : t.at <= now}

(***************************************************************************)
(* processFinalizeLivestreamTask up to the call of the PDS.  A task is     *)
(* taken once: nothing hands it out again (module TaskQueue).              *)
(***************************************************************************)
RunFinalize(t) ==
  LET seen == log[idx[t.u]].seen IN
  /\ t \in Due
  /\ call["finalize"].at = "idle" /\ Room
  /\ ran' = ran \cup {t}
  /\ \/ /\ now - seen < Idle                     \* active: nothing to do
        /\ UNCHANGED <<tasks, call>>
     \/ /\ now - seen >= Idle
        /\ t.u = Latest /\ ~session              \* no heartbeat to wait for
        /\ UNCHANGED <<tasks, call>>
     \/ /\ now - seen >= Idle
        /\ t.u = Latest /\ session /\ ~HeartbeatFrozen(t, seen)
        /\ tasks' = tasks \cup {Rescheduled(t, seen)}
        /\ UNCHANGED call
     \/ /\ now - seen >= Idle
        /\ t.u = Latest => HeartbeatFrozen(t, seen)
        /\ IF session /\ ~log[idx[t.u]].ended
           THEN EndIndexed("finalize", t.u)
           ELSE UNCHANGED call
        /\ UNCHANGED tasks
  /\ UNCHANGED <<pds, index, lost, now, mishaps>>

-----------------------------------------------------------------------------
\* The clock and the node.

\* Thirty seconds pass.  The cursor is saved every five.
Tick ==
  /\ now < MaxTime
  /\ Prompt => /\ Due = {} /\ \A c \in Callers : call[c].at = "idle"
               /\ now >= LastAct => pos = Len(log) /\ work = {}
  /\ now' = now + 1
  /\ cursor' = pos
  /\ UNCHANGED <<pds, pos, work, idx, walk, upset, dropped, scheduled, queue, call, mishaps>>

(***************************************************************************)
(* The node dies and is started again.  The firehose resumes from the      *)
(* cursor saved last: the versions since then are handled again.  A        *)
(* handler the crash cut short is not: either the cursor was saved after   *)
(* its commit was claimed, or it has indexed its version already, and the  *)
(* version handled again is left alone.                                    *)
(***************************************************************************)
Restart ==
  /\ mishaps < MaxMishaps
  /\ mishaps' = mishaps + 1
  /\ pos' \in cursor .. pos
  /\ work' = {}
  /\ upset' = upset \cup {log[i].u : i \in (pos' + 1) .. pos}
  /\ dropped' = dropped \cup {w.v : w \in {x \in work : x.at = "schedule" \/ x.v <= pos'}}
  /\ walk' = 0
  /\ lost' = IF call["finalize"].at = "idle" THEN lost ELSE lost \cup {call["finalize"].u}
  /\ call' = [c \in Callers |-> Quiet]
  /\ UNCHANGED <<pds, cursor, idx, scheduled, tasks, ran, now>>

-----------------------------------------------------------------------------
CallerStep(c) == GetRecord(c) \/ PutRecord(c)
HandlerStep(w) == HandlerReads(w) \/ HandlerIndexes(w) \/ HandlerSchedules(w)

Next ==
  \/ Elsewhere \/ Claim \/ WalkFetch \/ WalkIndex
  \/ \E w \in work : HandlerStep(w) \/ HandlerFails(w)
  \/ BeatRead \/ StopRead \/ StartRead \/ StartCreate \/ ModeratorCreate
  \/ \E u \in Uris : TeleportRead(u) \/ ModeratorRead(u) \/ OperatorRead(u)
  \/ \E c \in Callers : CallerStep(c) \/ CallFails(c)
  \/ \E t \in tasks : RunFinalize(t)
  \/ Tick \/ Restart

Spec == Init /\ [][Next]_vars

(***************************************************************************)
(* Fairness: the relays deliver, handlers, a walk and calls to the PDS     *)
(* finish, the queue hands out tasks that are due, and time passes.  The   *)
(* streamer and the heartbeat owe nothing.                                 *)
(***************************************************************************)
FairSpec ==
  /\ Spec
  /\ WF_vars(Claim) /\ WF_vars(\E w \in work : HandlerStep(w)) /\ WF_vars(WalkIndex)
  /\ WF_vars(StartCreate) /\ WF_vars(ModeratorCreate) /\ WF_vars(Tick)
  /\ \A c \in Callers : WF_vars(CallerStep(c))
  /\ WF_vars(\E t \in tasks : RunFinalize(t))

-----------------------------------------------------------------------------
\* Types: indexed, fetched and swapped versions are versions of the repository,
\* the firehose is not ahead of it, and handlers and finalize tasks name versions.
TypeOK ==
  /\ log \in Seq([u : Uris, seen : Nat, ended : BOOLEAN])
  /\ pos \in 0 .. Len(log) /\ cursor \in 0 .. pos
  /\ work \subseteq [v : 1 .. Len(log), at : {"read", "index", "schedule"}, ending : BOOLEAN]
  /\ idx \in [Uris -> 0 .. Len(log)]
  /\ walk \in 0 .. Len(log)
  /\ upset \subseteq Uris /\ dropped \subseteq 1 .. Len(log)
  /\ session \in BOOLEAN /\ allowed \in BOOLEAN
  /\ now \in Nat
  /\ call \in [Callers -> [at : {"idle", "get", "put", "copy", "create"}, u : Uris,
                           rec : 0 .. Len(log), swap : 0 .. Len(log), time : Nat]]
  /\ tasks \subseteq [version : 1 .. Len(log), u : Uris, at : Nat, stale : Nat]
  /\ ran \subseteq tasks
  /\ scheduled \subseteq Uris
  /\ lost \subseteq Uris
  /\ mishaps \in Nat

\* A record that has ended never loses its endedAt: "Ended livestreams are not
\* supposed to start up again" (lexicons/place/stream/livestream.json:37).
EndedStaysEnded ==
  [][\A u \in Uris : Ended(u) => Ended(u)']_vars

\* An ending is undone only by a heartbeat whose copy of the record, taken
\* from the index, is not the version whose CID it then got from the PDS;
\* nothing else revives a record that has ended.
RevivedOnlyByStaleBeat ==
  [][\A u \in Uris : Ended(u) /\ ~Ended(u)' =>
       /\ call["beat"].at = "put" /\ call["beat"].u = u
       /\ call["beat"].rec # call["beat"].swap]_vars

\* The idle task ends a record only when the version it replaces in the
\* repository, and not just the index's copy, has gone without a heartbeat
\* for the idle timeout, and for two of them if it is the streamer's newest.
IdleEndSparesTheLiving ==
  [][call["finalize"].at = "put" /\ Len(log') > Len(log) /\ call'["finalize"].at = "idle" =>
       LET u == call["finalize"].u IN
       /\ now - log[Current(u)].seen >= Idle
       /\ (\A w \in Created : w <= u) => now - log[Current(u)].seen >= 2 * Idle]_vars

\* A livestream nobody keeps alive is ended at last.  If it is not, the streamer
\* has no session here or is not one of this node's; or the one attempt of its
\* finalize task met a failing PDS or a crash; or the handler of its newest
\* version failed or died before it had enqueued the task (sync.go:567-622); or
\* the index did not get its versions once each and in order: a walk that
\* indexes a version swallows its finalize task, and a task that runs while the
\* index has an older version looks at that one.
AbandonedIsEnded ==
  \A u \in Uris :
    <>[](u \in Created => \/ Ended(u) \/ ~session \/ ~allowed
                          \/ u \in lost \/ Current(u) \in dropped \/ u \in upset)

\* An ending the node learns of from the firehose reaches automatic publishing,
\* also when the index had never seen the livestream before and when relays
\* overtake one another: the version the index had is read before it is replaced
\* (sync.go:545-600).  It does not if the handler of a version with the ending
\* failed or died, since a second delivery is left alone; or after a walk or a
\* repetition put one of its versions in the index.
EndingSchedulesVod ==
  \A u \in Uris :
    Ended(u) ~> \/ u \in scheduled \/ ~Ended(u) \/ ~allowed \/ u \in upset
                \/ \E v \in dropped : log[v].u = u /\ log[v].ended

=============================================================================
