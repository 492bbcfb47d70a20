# Streamplace in TLA+

TLA+ models of the core of the Streamplace node (`pkg/`, Go), TLC configurations
that check them on small instances, and TLAPS proofs of the properties that hold
for every instance. Paths below are relative to the repository root.

1. [The system](#the-system)
2. [Inventory](#inventory)
3. [Modules and how they correspond to the code](#modules)
4. [Runs: what is checked, bounds, fairness](#runs)
5. [Proofs](#proofs)
6. [Where code and comments disagree](#disagreements)
7. [What is not modelled](#not-modelled)
8. [Plan](#plan)

## The system

A Streamplace node takes a live stream in (RTMP or WebRTC), cuts it into signed
segments of about a second, validates them and hands them to the *director*
(`pkg/director`), which keeps one *stream session* per streamer. For each segment
the session does, concurrently: packetize it and publish it on the *bus* for the
WebRTC and HLS viewers and for peer nodes; send it to a transcoder and publish
the renditions; record it to S3 (`pkg/s3`); keep the streamer's repository
records (status, livestream heartbeat, broadcast origin, view count) up to date;
and push it to multistream targets. Work that must happen once per station and
not once per node (notifications, view-count windows, VOD processing, ending an
idle livestream) goes through a *task queue* in the database that all nodes share
(`pkg/statedb`). A finished recording becomes a VOD (`pkg/vod`). The rest of the
node synchronises AT Protocol repositories into an index (`pkg/atproto`,
`pkg/model`) and serves it (`pkg/api`, `pkg/spxrpc`).

The behaviour that is hard to get right, and hard to test, is in the middle of
this: goroutines that must publish in order although they finish out of order;
a teardown that races segments still arriving; uploads of which any call may
fail; rows several nodes race for; records written from a copy that lags; and a
claim about a remote repository kept by handlers, repairs and sweeps at once.

## Inventory

| Component | State | Operations | Talks to | What is hard | What makes it correct |
|---|---|---|---|---|---|
| Publication lane, `director/lane.go` | tickets `next`, `head`; maps `done`, `waiters` | turn, wait, release | one goroutine per segment | goroutines finish in any order, give up, time out, are cancelled | arrival order at the bus; no lost wake-up; an abandoned segment is not published; every turn comes round |
| Task queue, `statedb/task.go` | `app_tasks` rows, unique `task_key` | Enqueue, Dequeue, Complete, Fail, Release, Cleanup | all nodes | look-up and insert are not atomic; leases; nodes die | a key runs at most once; nothing is forgotten |
| Queue workers, `statedb/queue_processor.go` | two pools per node, `pokeQueue` | dequeue, handle, sleep | task queue, handlers | pokes go astray; delayed tasks; handler errors and panics | every task is taken |
| Director, `director/director.go` | `streamSessions` | take a segment, create a session, forget it | sessions | the map entry outlives the session's work | one live session per streamer |
| Stream session, `director/stream_session.go`, `s3_upload.go` | errgroup, contexts, `localRole`, `s3Uploader` | Start, NewSegment, startLocalRole, teardown | director, uploader, bus, repository records | Start races NewSegment; teardown races segments | no send on a closed channel; recordings closed; a session ends |
| Live recording, `s3/s3.go` | `segCh`, current upload, part buffer, `livestreamURI` | AddSegment, Cutover, SetLivestreamURI, Close | S3, recorder | any call fails; parts straddle segments; the livestream changes meanwhile | uniform parts; index locates bytes; a fault costs one gap; Close returns |
| Recording rows, `statedb/s3_segment.go` | `s3_segments` rows | RecordStart, RecordComplete, RecordAbort | uploader, finalize, clips | rows whose object failed | open only while being written |
| Livestream record, `stream_session.go` 616-713, `queue_processor.go` 450-590, `spxrpc/place_stream_live.go`, `place_stream_moderation.go` 215-310, `atproto/sync.go` 527-624 | record in the streamer's repository, index copy, finalize tasks | heartbeat, start, stop, teleport, moderator, operator, idle finalize | PDS, firehose, index, task queue | compare-and-swap from a stale copy; an index that lags; handlers of several relays; two databases | an ended livestream stays ended; a live one is not ended; an abandoned one is |
| Status record, `stream_session.go` 468-614, 715-743 | status record, `lastStatusCID` | update, delete | PDS | delete races the last update | no status survives the stream |
| Bus, `bus/bus.go`, `segchanman.go` | subscriber queues, presence, segment channels, replay buffer | subscribe, publish, deliver, unsubscribe, end of session | everything | queue limits; overflow inside publish; readers that stop reading | order per subscriber; presence equals subscribers; no goroutine left |
| Livestream VOD, `statedb/auto_publish_vod.go`, `livestream_vod.go`, `upload.go`, `draft_video.go`, `vod/publish_video.go`, `publish_draft.go`, `admin_video.go`, `finalize_livestream.go` | upload and draft rows, track and video records, tasks | schedule, wait, finalize, publish a video or a draft, delete | task queue, recording rows, PDS | finalize by hand races automatic publishing; several calls that fail one by one; answers lost; publish races delete | a video names a whole set of live tracks; no second video or set; every VOD has an outcome |
| Readers, `s3/concat.go`, `readerat.go`, `blockcache.go` | windows over many objects | read at | VOD playback, clips | boundaries | bytes of the concatenation |
| Multipart writer, `s3/multipart_writer.go` | buffer, parts | write, close | VOD processing | part limits | bytes arrive complete |
| Named locks, `statedb/locks.go` | mutex and advisory lock per name | lock, unlock | several writers | ten attempts, holder dies | mutual exclusion across nodes |
| Resumable uploads, `upload/` | upload rows, multipart state | create, append, complete | VOD pipeline | interrupted transfers | the upload reaches processing once |
| Ingest supervision, `media/ingest_supervisor.go` and workers | worker processes | start, kick, restart | director | crash of a worker | one ingest per key |
| Live HLS, `livehls/` | playlist window | add, prune, wait | bus, viewers | late segments | media sequence only grows |
| Replication, `media`, `moq/`, `iroh/` | pulls per stream | subscribe, reconnect | peer nodes | lost and repeated segments | segments reach the director once |
| Repository sync, `atproto/firehose*.go`, `contiguity.go`, `backfill_walk.go`, `atproto.go`, `deepen.go`, `headcheck.go`, `model/repo.go` | repo row (version, repair mark, history floor), index | commit, claim, mark, sync, repair, deepen, head check | relays, hosts, index | commits lost, repeated, out of order; long walks of a moving repository; restarts | the version on a row is backed by the index; drift is found and healed |
| Sweep scheduler, `atproto/sweep.go` | lane programs, slots, waiting lanes | add, run, release, give up | repository sync | grants race cancellation; adds race a worker's end | slots conserved; every repository is reached |
| View logs, `viewlog/` | log files, windows | write, rotate, aggregate | task queue, S3 | window boundaries | each view is counted once |
| Server repository, `atproto/server_repo.go` | signed repository | put, delete | firehose clients | concurrent commits | sequence of commits |
| API, `api/`, `spxrpc/` | none of their own | request handlers | all | - | - |
| Media pipelines, `media/`, `muxl/`, `c2patypes/`, Rust | codec state | segment, sign, packetize | director | library code | - |
| Generated code, clients, `placestream/`, `iroh/`, `js/` | - | - | - | - | - |

## Modules

Modules are named for the part they model; `MC...` modules hold the instances TLC
checks and `...Proofs` modules the theorems (`DirectorProofs` those of `Lane` and of
`StreamSession`, which is why the parts of `Lane`'s specification have names of their
own). `PROJECT.json` gives the source lines
of every definition. Variables marked *history* in a module record what happened
and guard nothing; the properties use them to say exactly which behaviours are
the exception.

### Lane and OrderedFeed

One critical section of `lane.mu` is one action: `Turn` (turn), `WaitEnter` (the
head of wait), `Wake`, `Cancelled` and `Expire` (the three branches of its
select), `Release`. A waiter's channel is only ever closed, so it is a ticket in
`waiters` (registered) or `woken` (closed). Around them are the goroutines that
use a lane, AddToWebRTC and Transcode: they work, may give up (`GiveUp`), wait,
publish (`Publish`) and release in a deferred call. `pc` says where each is;
`published` is what reached the bus; the history variable `late` holds the
segments that were told to go and then overtaken by a patience timer before they
had published.

`OrderedFeed` is the abstract promise to the consumers of a stream: each arrived
segment is delivered at most once, and never after a later one unless it was
overtaken. `Lane` implements it (`arrived <- next`, `feed <- published`,
`overtaken <- late`).

### TaskQueue

`row` is the table, ids in creation order; a database transaction is one action.
EnqueueTask takes two steps, the look-up (`EnqueueCheck`) and the insert
(`EnqueueCreate`), because the code does them in two statements; the unique index
decides (`Refused`). Each node has two workers, one per pool; `at` and `job` are
the place in `runQueueWorker` and the row in hand. The payload is reduced to its
key, and a handler to what it does with the row: complete it, or leave it
(`Complete`, `Leave`). `Stop` is a crash, or a DequeueTask error, which ends the
whole errgroup; `Restart` is the operator's. FailTask, ReleaseTask and
CleanupExpiredLocks exist but nothing in the repository calls them; the bound
`MaxReturned` says how often they may, and the
history variable `returned` which rows they put back. `runs` counts hand-outs, and
`failed` holds the rows whose handler returned without CompleteTask or whose node
stopped over them (history).

### StreamSession

The director's loop is one goroutine (`dir`): `Receive` finds or creates the
session, `Begin` to `Record` are NewSegment. `Start` runs beside it (`phase`):
started, local role, running, timeout (`cancelled`), `Drain` (`ss.g.Wait`),
`Close` (`s3Close`), and `Forget`, the deferred deletion from the map. Of the
goroutines in `ss.g` the model keeps those that decide when the teardown ends:
the four update loops together, DeleteStatus, the multistream loop with the
context it got, the push to one target that this loop starts under a child of its
own context (`PushStarts`, `PushStopped`) and leaves running when it fails on the
database (`MultiFails`, `PushEnds`), and one sender to the uploader per segment. A sender takes two
steps, the look at `closed` and the send, since the two are not atomic.

The history variable `straddled` holds the sessions that had a segment in the
director's hands at some time between their timeout and their removal from the
map: a stream that resumed in that window. The shutdown of the whole director,
which cancels every session at once, is left out.

### S3Uploader

The callers are `AddSegment`, `AskCutover`, `SetLivestreamURI` and `Close`; the
upload loop is one process whose place is `pc`, with a step for each call to S3
(`Create`, `Flush`, `FlushLast`, `Complete`, `Abort`) and to the recorder (`Tag`,
`Record`). A segment is its number, which is also its start time; its bytes are
that number `Size` times, so the content of an object shows which segments it
came from, and a part boundary can fall inside a segment. `store` is what S3
holds, `rows` the `s3_segments` table. Calls of S3 may fail (up to `MaxFaults`);
`Trouble` adds database failures, an answer of CompleteMultipartUpload that is
lost after S3 did the work, and a crash. `Reorder` lets senders overtake each
other, as each runs in its own goroutine. `tagged` remembers the livestreams that were
current while a segment was queued or handled, and `stuck` the rows on which
RecordComplete or RecordAbort failed or over which the node died (history).

### LivestreamRecord

The livestream records of one streamer. `log` is the streamer's repository, a
version per commit; `idx` is the node's copy of each record. Commits reach it
through the firehoses: the consumer of a relay claims the next one (`Claim`, which
moves the cursor and has the deduper turn the other relays away), and its handler
goes through handleCreateUpdate step by step: it reads the indexed version
(`HandlerReads`, for an ending), replaces it (`HandlerIndexes`, in the index
database), and schedules what follows in the state database (`HandlerSchedules`).
Any of these calls may fail (`HandlerFails`; the error is logged and the commit
counts as handled). Up to `Relays` handlers run at a time and overtake each other.
A repository walk (`WalkFetch`, `WalkIndex`) writes the index too.

A writer takes three steps: it reads the index, asks the PDS for the current CID
(`GetRecord`) and puts its version with that CID as the one to replace
(`PutRecord`). The writers are the heartbeat (`BeatRead`), stopLivestream,
startLivestream with endPriorLivestream, a teleport and the operator's finalize
(which swap what they read), a moderator's updateLivestream (which makes a new record
of one it got from the PDS, `ModeratorRead`, `ModeratorCreate`), the idle task, and
programs elsewhere, whether or not the streamer has a session on this node. A live
version the firehose brings enqueues a finalize task for the time its heartbeat is
too old, if the streamer is one of this node's (`allowed`); `RunFinalize` is what the
task does when it is taken, once: leave an active record, put itself back for the
streamer's newest, or end the record. `Tick` is thirty seconds. `CallFails`,
`HandlerFails`, `Restart` and walks are bounded by `MaxMishaps`.

History: `lost` holds the records whose task met a failure; `dropped` the versions
whose handler failed or died before it had scheduled what follows; `upset` the
records whose versions did not reach the index once each and in order.

### Bus

An event goes from `Publish` into each subscriber's queue, from there through its
deliver goroutine (`Take`, `Send`, `DeliverStops`) into its channel, and to its
handler (`Read`). A viewer whose queue is full is closed within `Publish` and
counted out; its handler unsubscribes later. A segment goes straight into the
channel of its subscriber or is dropped; `segBuf` keeps the last ones for
newcomers until `EndSession`. Operations that hold the bus's mutexes are one
action each. A select between a full channel and an ended context may go either
way, so `PublishSegment` chooses which of the ended ones it skips. `since`, `got`
and `dropped` are history.

### RepoSync

One remote repository whose commits are numbered; commit `q` writes one record, in
a collection that is always read whole (`full`), in one that is read by time window
(`log`), or in one the node does not index (`other`). Relays hand over any commit,
in any order, again or never (`Receive`), which covers what cursors, lag and the
deduper can do. A worker applies the commit and then claims it on the row in up to
three statements (`TrackAdvance`, `TrackLook`, `TrackMark`). `SyncStart` to
`SyncRecord` are SyncBlueskyRepo with its walk; `DeepenRead` to `DeepenRecord`
DeepenRepo, which reads the row before it takes the lock; `CheckRead` and
`CheckMark` the sweep's head check. A failing request, a refused record, a parked
account and a restart are mishaps. `skipped` holds the commits that a deepening
walk claimed by writing the host's revision on the row (history).

### SweepLanes

The scheduler the sweep runs on: a worker per host, at most `Limit` with a slot.
`Add` starts a worker for a lane that has none; a worker waits for its slot
(`Granted`) or gives up when the sweep is cancelled (`GiveUp`, `Quit`), looks for
the next step of its lane (`NextStep`, `Exhausted`), works (`WorkDone`,
`WorkDrifted`, `WorkMore`: the outcomes of sweepCheck, sweepSync and sweepWindow)
and releases its slot in a deferred call (`Release`), to the lane that has waited
longest. RepoSync is the work of one step in detail; SweepLanes is what gives it
the fairness it assumes of the head check and the sync.

### LivestreamVOD

From a recording to `place.stream.video` records. Automatic publishing is one
process (`auto`): a pass lists the livestream's uploads (`OtherUploads`: a row is
found under the first livestream of its recording only, so of the finalizes by hand
just those in `leads`, which start with this livestream), looks at the recording,
waits and passes again, creates its upload and enqueues the finalize task. A
finalize by hand (`hand`) creates its own upload, and a draft unless it is to be
published. The finalize task (`task`) marks the row, runs the finalizer (whose
media work is its outcome), readies the draft, publishes if asked to and leaves a
draft if that fails. `call` is one call of PublishVideo, PublishDraft or
DeleteVideo, by a request or by the task: it reads the upload, mints the track
records one by one (`Mint`), remembers them on the row (`Remember`), puts the video
(`Put`) and tidies the draft up; or deletes the video, its tracks (`Cut`) and what
uploads remember of them (`Forget`). Each call to the database or to the PDS is one
step. A call to the PDS may be refused, or be carried out and its answer lost; a
database call may fail where the code goes on without it; a worker may stop anywhere, and its task is not run again (as the run `task_retry` shows of `TaskQueue`). History: `hit` (uploads
a fault of database or worker struck), `late` (finalizes by hand that came after
automatic publishing had looked), `lost` (videos the task put without learning of it), `torn`, `spoiled`, `thrown`, and the `crossed` of a call that overlapped another of its upload.

### How the modules fit together

The handlers that write livestream records are in `LivestreamRecord` with the
guarantee of the queue they rely on (a task is taken once) that `TaskQueue` checks
and proves; the channel the lane publishes on is the `PublishSegment` of `Bus`,
whose `SegmentsInOrder` speaks of the order `Lane` produces; the uploader that
`StreamSession` starts and closes is `S3Uploader`, which assumes of its callers
what `NoSendOnClosed` says of them; `EveryRepoIsReached` of `SweepLanes` is the
fairness of `CheckRead` and `SyncStart` in `RepoSync`. `EndingSchedulesVod` of
`LivestreamRecord` ends where `ScheduleAutoPublishVOD` of `LivestreamVOD` begins; the
rows it looks at (`open`, `recorded`) are those `S3Uploader` writes.

## Runs

| Run | Checks | Instance |
|---|---|---|
| `lane` | `LaneTypeOK`, `NoLostWakeup`, `PublishedInOrder`, `ImplementsFeed`, `EveryTurnComesRound` | 4 segments, timers at any moment |
| `taskqueue` | `WindowRunsOnce`, `EveryTaskIsTaken` | 2 nodes, a delayed key, room for a second row of it, 3 tries, two stops |
| `task_retry` | `FailedIsRetried` fails | the same, no stop and nothing returned |
| `session` | `TypeOK`, `NoSendOnClosed`, `NoRecordingLeftOpen`, `OwnSessionEnds` | 3 segments, one multistream target |
| `uploader` | `TypeOK`, `UniformParts`, `IndexMatchesObject`, `OpenRowIsCurrent`, `ObjectWithinLivestream`, `OneFaultOneGap`, `CloseReturns` | 3 segments of 1, 3, 2 bytes, parts of 2, 2 livestreams, two faults, all trouble |
| `livestream_record` | `RevivedOnlyByStaleBeat`, `IdleEndSparesTheLiving`, `AbandonedIsEnded`, `EndingSchedulesVod` | 2 livestreams, 3 versions besides the task's, 5 ticks, 2 relays, 2 callers at a time, one mishap |
| `livestream_unended` | `EndedStaysEnded` fails | 1 livestream, one relay, no mishap |
| `bus` | `PresenceCountsViewers`, `EventsInOrder`, `SegmentsInOrder`, `ReplayIsCurrent`, `DeliverEnds` | 2 connections of any kind, 4 items, limits of 1 and 2 |
| `repo_sync` | `ClaimsHoldButDeepening`, `RepairSurvives`, `DriftHealed` | 3 commits (`full`, `log`, `other`), one relay worker, one mishap |
| `repo_masked` | `GapsAreRepaired` fails | the same, no mishap |
| `sweep_lanes` | `SlotsConserved`, `LaneIsServed`, `EveryRepoIsReached` | 3 hosts, 4 repositories, one slot, 2 windows |
| `livestream_vod` | `SourceIsWhole`, `OneSetOfTracks`, `OneVideoPerRequest`, `AutoYieldsToHand`, `RepublishMintsAnew`, `EveryVODHasAnOutcome` | automatic publishing, one finalize by hand (starting with this livestream or an earlier one), 2 calls, one wait, two faults |

What a proof covers for every instance is not run again where a run would add
nothing: `HeadIsLive` and `AbandonedIsRefused` of `Lane`, and the type invariants of
`TaskQueue`, `Bus`, `LivestreamRecord`, `RepoSync` and `SweepLanes`.

**Bounds.** Four tickets are a stuck segment, two waiters behind it (one of which
times out and overtakes the other) and one claimed after that; the proofs show
that more bring nothing new. Two nodes give every race for a key and its row, and
the VOD workers of both compete for the pokes; the table has room for a second row
of the key, so that a duplicate would fit; three tries are the default, so that a task that failed once has two left. Three
segments are one that creates a session, one that arrives around its timeout and
one that meets or creates its successor. The sizes 1, 3, 2 with parts of 2 give
a segment smaller than a part, one that fills one part and starts the next, one of
exactly a part, and remainders; `QueueCap` 2 makes the queue fill. Two livestreams
are the streamer's newest and an older one, which the idle task treats
differently; five ticks are a heartbeat, the idle window, the window of a task that
put itself back, and the end. The constraint `OverlapBound` lets two handlers overlap
on versions of the same record only (those of different records touch different
rows), and starts no overlap in the middle of a write or after a mishap; what goes
wrong during one, and with one handler anything at all, is explored. `MishapBound`
keeps mishaps to streamers of this node: for the others a handler does nothing after
the indexing. `Prompt` keeps calls and deliveries from lasting
longer than a tick once the streamer has stopped acting: without it the bound on
time, and not the code, would decide whether an abandoned record is ended. On the
bus two connections cover an overflow, a lagging and a leaving subscriber at once;
four items fill a queue, a deliver goroutine's hands and a channel of one each.
Three commits are one that is claimed, one that is lost and one that shows the gap;
the lost one is a windowed record that is older than the initial window when the
repair comes, which only the repair's own starting point reaches. Three hosts and
one slot let two lanes wait at once, and one host has two repositories, so that one
joins a lane whose worker waits, works, leaves or is gone. Two calls and two faults
are a publish that fails after its first track, or a deletion that fails half way,
and the publish after it, or two calls that overlap. The constraint `OneAtATime`
keeps requests to the part of the run in which
automatic publishing has not begun, and to a finalize by hand that starts with this
livestream: what they do to an upload depends on no other upload and not on where
its recording starts, and the upload of automatic
publishing is one by hand that is to be published.

Runs say `CHECK_DEADLOCK FALSE` because the inputs are bounded and a system whose
input has ended stops.

**Fairness.** Only what the Go scheduler and the timers give: a goroutine that can
run does. Beyond that `Lane` assumes that the work before a wait ends (packetizing
and the transcoder's HTTP call return), and nothing of the patience timers.
`TaskQueue` assumes that the one-second timer fires, that handlers return (the
calls they make have time-outs; the handlers have none), that a stopped node is
started again (nodes stop finitely often) and that time passes; it assumes
nothing of the pokes. `StreamSession` assumes that loops and pushes return when their
context ends and that DeleteStatus returns; segments need not arrive, sessions need
not time out, and a multistream loop need neither fail nor drop a target. `S3Uploader` assumes that each call returns, with an answer or an error.
`LivestreamRecord` assumes that the firehoses deliver, that a handler, a call to the PDS and a walk finish, that the queue hands out what is due (`EveryTaskIsTaken`) and that
time passes; the streamer and the heartbeat owe nothing. `Bus` assumes that deliver
goroutines run; nobody has to read or to leave. `RepoSync` assumes that the sweep
comes round and syncs what it finds marked, that a walk's requests are answered or
fail, and that a worker ends the commit it has; nothing of the relays: every commit
may be lost. `SweepLanes` assumes that goroutines run and requests end.
`LivestreamVOD` assumes that a handler, a pass or a worker that has begun goes on
until it ends or fails; nothing of the streamer, of the recorder or of faults.

**Mutants.** Every property of a passing run has a mutant in `PROJECT.json`, a
plausible slip in one definition (a dropped guard, `if` for `for`, an off-by-one,
a forgotten close), under which the same run reports the property violated. The
mutated forms stand before the definitions they replace, marked `Mutant`.

## Proofs

| Module | Theorems | From |
|---|---|---|
| `DirectorProofs` | `LaneTypes`, `LaneNoLostWakeup`, `LaneHeadIsLive`, `LaneAbandonedIsRefused`, `LanePublishedInOrder`, `LaneImplementsFeed` | `LaneAssumption` |
| | `SessionTypeOK`, `SessionNoSendOnClosed`, `SessionRecordingClosed` | `SessionAssumption` |
| `TaskQueueProofs` | `QueueTypeOK`, `QueueWindowRunsOnce` | `TaskQueueAssumption` |
| `S3UploaderProofs` | `UploaderTypeOK`, `UploaderUniformParts`, `UploaderIndexMatchesObject`, `UploaderOpenRowIsCurrent`, `UploaderObjectWithinLivestream`, `UploaderOneFaultOneGap` | `UploaderAssumption` |
| `BusProofs` | `BusTypeOK`, `BusPresenceCounts`, `BusEventsInOrder`, `BusSegmentsInOrder`, `BusReplayIsCurrent` | `BusAssumption` |
| `LivestreamRecordProofs` | `RecordTypeOK`, `RecordRevivedOnlyByStaleBeat`, `RecordIdleEndSparesTheLiving` | `LivestreamRecordAssumption` |
| `RepoSyncProofs` | `RepoTypeOK`, `RepoClaimsHold`, `RepoRepairSurvives` | `RepoSyncAssumption` |
| `LivestreamVODProofs` | `VODAutoYieldsToHand`, `VODSourceIsWhole`, `VODOneSetOfTracks`, `VODRepublishMintsAnew`, `VODOneVideoPerRequest` | `VODAssumption` |
| `SweepLanesProofs` | `SweepTypeOK`, `SweepSlotsConserved`, `SweepLaneIsServed` | `SweepAssumption` |

They hold for any number of segments, nodes, keys, connections, records, writers,
relays, commits, hosts, requests and faults, and any sizes and limits. Every
safety property that a passing run checks is stated by one of them. The assumptions
are those of the modules (`ASSUME`, evaluated by TLC in every run): that constants
are numbers or sets of the kinds the code has, and that names of different things
differ.

* **Lane.** `NoLostWakeup` is not inductive: it needs that a registered waiter is
  ahead of the head or gone, that every woken or registered ticket was claimed, and
  that exactly the released tickets not yet passed are in `done` (`LaneInv`). Then
  an advancing head meets the waiter of the ticket it stops at, and every other
  waiter it passes is of a released ticket. Order adds `OrderInv`: whatever is
  published or overtaken is not ahead of the head, and a granted ticket that was
  not overtaken is the head's.
* **Task queue.** `QueueInv` ties `runs` to `try_count`, says that unused places
  are blank, that existing rows have keys, and that a busy worker holds an
  existing row. Next is split into four groups (steps that leave
  the table alone, that relabel a row, that create one, that hand one out). Once is `OnceInv`: keys are unique, a row nobody put
back is PENDING exactly while it has not been handed out, and then never again.
* **Session.** `MapInv` says that the session in the map is the only live one and
  that a segment in the director's hands belongs to it, before its teardown unless
  it straddles it. `TeardownInv` says that a drained session has no sender left,
  and that the uploader is closed only after that, with the same exception.
* **Uploader.** `PartsInv`: until its last part an object has only full parts, and
  less than a part is buffered whenever no part is due; objects not begun have no
  parts. `RowsInv`: an open row is the one of the object in hand or stuck, so while nothing is being uploaded only stuck rows are open. The other three properties speak of what is in the
  objects. `Apart`: a segment is in one place, queued, in the loop's hands, in the
  object being written or in one row. `TagInv` then follows the livestream from place
  to place. `ContentInv` is the invariant of the part buffer: the parts uploaded,
  followed by the buffer, are the indexed segments back to back, so an object that was
  completed with an empty buffer is its index. It needs that the concatenation of a
  sequence of sequences grows by what is appended; the library defines it by a
  recursive function, and the provers have no induction, so `FlattenSeq` is unfolded
  by a least counterexample (`LeastNatural`, from the well-foundedness of the
  naturals). The losses are counted: every attempt at an object was made for a
  segment of its own (`CountInv`, which bounds `objSeq`), every dropped segment and
  every object given up has cost a failed call, those about to be given up included
  (`DropInv`, `LossInv`), and without a failed call every segment is somewhere
  (`KeptInv`), which at the end of the loop leaves only the rows (`EndInv`).
* **Bus.** `EventsInOrder` speaks of a concatenation; the invariant says it of the
  four pieces (`Chain`): what was read, the channel, the deliver goroutine's hands
  and the queue follow each other without a gap, and end with the last event while
  the subscriber is open. `Held` adds that closing empties the queue, so that a
  goroutine that drops what it holds leaves no gap behind it. `PresenceCountsViewers`
  needs that a subscriber is marked present exactly while it is an open viewer,
  which is why the second of an overflow and an unsubscription does not count.
  `SegmentsInOrder` is `Fed`: what a segment subscriber was given is rising, is apart
  from what it missed, and both lie between its subscription and the last segment;
  the replay buffer is the run of last segments (`ReplayIsCurrent`), so a newcomer's
  first segments leave no gap to the next one published.
* **Livestream record.** A commit replaces the current version of the record it
  writes and of no other (`Committed`), so an ending is undone only by a writer of
  an unended version; of those that replace an existing one only the heartbeat
  writes what it read, and since its swap was accepted, what it read is not what it
  replaced. `IdleEndSparesTheLiving` needs what the idle task has in hand
  (`FinalizeReads`: it replaces the version it judged, whose age only grows) and that
  a task which put itself back is due two timeouts after the heartbeat it saw
  (`TasksWait`); that the record is the newest of
the repository makes it the newest of the index (`IndexNames`), so the task had to be
such a one. The index may go back, since handlers overtake each other; the proofs
need only that it names versions the repository has (`IndexSide`, `HandledVersion`).
* **Repository.** The claim on the row must be kept also while a repair is owed, as
  a claim of the revision the repair starts from (`Claim`, `RowClaims`). Then
  a sync that starts there or earlier (`WalkReads`) restores it, whatever commits
  were handled meanwhile; a worker that advances has applied its commit
  (`HandlersApplied`); and a deepening walk moves the floor only over records that
  were read (`DeepenReads`, `Clear`).
* **VOD.** `YieldInv` ties the row of automatic publishing to its last look: from
  then on a finalize by hand that starts with its livestream and creates a row is late. `BasicInv` says of the calls
  what their order of steps gives: tracks are remembered, published and put in whole
  sets of one upload (`WholeInv`, which is `SourceIsWhole`), a call holds tracks of its
  own upload (`OwnInv`), and a worker's call is that of its waiting task
  (`WorkerInv`). `OneSetOfTracks` needs that overlapping calls know of each other
  (`CrossInv`): then as long as an upload is not spoiled one publish at most is
  minting for it, and whatever was minted is remembered or in that publish's hands
  (`SetInv`). `RepublishMintsAnew` needs that minted tracks are new to everybody
  (`KnownInv`: no known track is beyond the count) and stay unknown to others until
  they are on the row (`PrivateInv`); then a row of an upload that is not torn
  remembers a deleted track only while the deletion that will make it forget is on
  its way, and a publish that begins meanwhile is crossed (`GoneInv`).
  `OneVideoPerRequest` counts keys: videos have different keys, a key is the draft's,
  the task's or that of a request that is over (`KeyInv`), and a draft beside the
  task's video means that an answer was lost, because a draft of an upload that is to
  be published appears only after the publish failed (`DraftInv`, `NoDraft`).
* **Sweep.** `SlotsConserved` needs where the slots are (`SlotsPlaced`): a lane
  waits at most once and only while its worker is in its select, such a worker
  waits or has been granted a slot, and a lane that holds one still runs. Then the
  worker that gives up withdraws its promise or passes its slot on, never both.

Only model-checked: liveness, which is outside what TLAPS 1.4.5 proves
(`EveryTurnComesRound`, `EveryTaskIsTaken`, `OwnSessionEnds`, `CloseReturns`,
`AbandonedIsEnded`, `EndingSchedulesVod`, `DeliverEnds`, `DriftHealed`,
`EveryRepoIsReached`, `EveryVODHasAnOutcome`). That a run's bound stands for the
code's (`MaxFaults`, `MaxSegs`) is no theorem either: the theorems hold for every
value of it.

## Disagreements

Three runs are expected to fail: each checks what the repository says of itself
against what the code does.

* `livestream_unended`: doUpdateLivestream writes the record as the index has it,
  with the CID the PDS has now (`stream_session.go:697`). If the ending reached the
  repository after the index was read, or before the index saw it, the heartbeat
  replaces the ended record by one without `endedAt` and the swap does not refuse
  it, although "Ended livestreams are not supposed to start up again"
  (`lexicons/place/stream/livestream.json:37`). `RevivedOnlyByStaleBeat` shows that
  nothing else can.
* `repo_masked`: a deepening walk writes the revision it read at the host on the
  row (`model/repo.go:217`), although it read one window and no `full` collection.
  If the firehose lost commits and the walk reads the host before the head check
  does, the row covers them, and the repair that `headcheck.go:39-44` promises never
  comes. `ClaimsHoldButDeepening` shows that nothing else can.

* `task_retry`: a failed task "stays locked until its lease expires and then becomes
  eligible for retry (capped by max_tries)" (`queue_processor.go:203-205`). Its row
  stays PROCESSING and DequeueTask asks for PENDING (`task.go:106`), and nothing calls
  the functions that would put it back: it is never handed out again. This is what
  the other modules build on where they say that a task is run once.

More follows from the same models; there the exception is written into the
property, and TLC produces the behaviour when the exception is taken out.

* A patience timer that fires after the head's ticket was told to go, and before it
  published, moves the head past it: it publishes after the segment that overtook
  it (`lane.go:81`; the comment at 43-46 says it is discarded). `late`.
* A segment that is in NewSegment when `ss.g.Wait` returns starts a sender that may
  send on the channel s3Close closes meanwhile (`s3.go:206`;
  `stream_session.go:170-172`), or creates an uploader nobody closes. `straddled`.
* When NewSegment wins the race for the local role, the multistream loop gets the
  director's context, and the session's `ss.g.Wait` waits for it for ever
  (`stream_session.go:205`). For a session that began with
  replicated segments this is always so. A database error ends that loop, but not the
  pushes it started, which wait for the same context (1141-1145, 1160-1168). `multi[s]`
  or `push[s]` is `"director"`.
* Segments queued before the livestream changed can be written to the object of the
  new one (`s3.go:382` and 275; the comment at 91 says each object stays within one
  livestream). `tagged`.
* When the answer to CompleteMultipartUpload is lost (`"reply" \in Trouble`),
  abortUpload drops the row of an object that exists, although
  `s3_segment.go:148-149` says it "never comes into existence".
* A finalize task whose call of the PDS fails, or whose node dies, is not tried
  again, and a version that a repository walk indexes first enqueues none: the
  livestream then stays live. `lost`, `upset`.
* handleCreateUpdate is "called at least once per record", so "every side effect has
  to be skipped when nothing changed" (`sync.go:41-46`), and a frame skipped in a
  crash is "re-delivered and re-indexed" (`firehose_cursor.go:46-49`). But the index
  and the tasks are in two databases: when the handler fails or dies between
  CreateLivestream (567) and ScheduleAutoPublishVOD or EnqueueTask (597, 619), the
  version is indexed, and delivered again it is taken for unchanged. The ending is
  then never published, or the record never finalized unless a later version comes.
  `dropped`.
* A publish that fails leaves a draft, and "the publish remembers any track records
  it got as far as minting on the upload, and the draft's publish reuses them"
  (`queue_processor.go:381-382`). tracksForUpload remembers a set only when all of it
  was minted (`publish_draft.go:257`), so the draft's publish mints a second set
  beside the half one. `spoiled`. (Remembering the half would break `SourceIsWhole`:
  that is the mutant.)
* DeleteVideo returns when the deletion of a track fails, before it tells the uploads
  of those already deleted (`admin_video.go:289`), so the next publish names a deleted
  track although it "must mint new ones" (294-296). `torn`. A publish that overlaps a
  deletion does the same (`crossed`), and a second video of the upload loses its
  tracks with the first.
* A finalize by hand that fails after its upload row was created leaves the row, and
  automatic publishing takes the livestream for "already finalized"
  (`auto_publish_vod.go:118`): no VOD is made of it.
* A finalize by hand of several livestreams is located at the first of them
  (`livestream_vod.go:78-86`). The automatic publishing of a later one does not list
  it and makes a second VOD of that recording, although it means to find "any other
  upload of the livestream" (`auto_publish_vod.go:106-109`). Not in `leads`. One made
  by hand after the last look is not found either. `late`.
* "A pass interrupted after creating it (or after queueing the finalize) picks it up
  again" (`auto_publish_vod.go:106-108`): the task of an interrupted pass is not run
  again, so nothing picks it up, and the upload stays as it was. `hit`.
* A putRecord of the finalize task whose answer is lost leaves a ready draft beside
  the published video (`queue_processor.go:391`). `lost`.

Seen while reading, and not in a model: Transcode goroutines check and set `ss.lp`
without a lock (`stream_session.go:913`); every change of a viewer count is sent by a
goroutine of its own (`bus.go:285`), so two may arrive in the other order; the one
general worker of a node has no deadline, so a handler that hangs stops every other
task (`queue_processor.go:187`, the models assume that handlers return); NewSegment
waits for `started` on the director's only goroutine (`stream_session.go:225`, the
model assumes that Start gets there, as validated segments let it); two goroutines
of consecutive segments may set the uploader's livestream in the other order
(`stream_session.go:390`); a caller of a named lock holds the local mutex for its ten
attempts at the advisory lock (`locks.go:58`).

## Not modelled

Paths of modelled operations that are left out: Start's error returns before it
closes `started` (`stream_session.go:112-128`); a second multistream target; the
failure of the finalize task's reads of the index (`queue_processor.go:453-515`), which
ends the task as a failing PDS does; a completeUpload without parts (`s3.go:349-352`), as
segments are not empty; a finalize task on a node without a finalizer
(`queue_processor.go:349-353`), which is configuration; records without `lastSeenAt` or
an idle timeout of their own (`Idle` is the same for all).

Of the parts that are modelled: the shutdown of the director; the content of the
status, origin and view-count loops; task priorities (no caller sets one); the size
and number limits of S3; the Postgres and SQLite locking that makes a transaction
atomic; viewer counts of the bus; identity and account events and deletions of a
repository, and the decoding of records; the plan and the report of a sweep; of VOD
publishing the operator's UpdateVideo, edits of a draft's metadata, thumbnails,
resumable uploads and what the finalizer does to the media. Whole
parts: the media pipelines (GStreamer, muxl and C2PA libraries), network
listeners, generated code (lexicon types and bindings, the larger part of the
repository's Go), clients, configuration, and the read-only API. `PROJECT.json`
lists each component with the reason.

## Plan

Done: `Lane`, `TaskQueue`, `StreamSession`, `S3Uploader`, `LivestreamRecord`, `Bus`,
`RepoSync`, `SweepLanes` and `LivestreamVOD`, with proofs of all their safety
properties. Left, in the order of what matters most:

1. Proofs of facts no run checks yet: that the task queue implements an abstract
   queue that hands each key out once; that an ended session leaves nothing behind.
2. UpdateVideo and resumable uploads in `LivestreamVOD`.
3. `StatusRecord`: the last status update against DeleteStatus.
4. Compositions: the session with its uploader (the teardown over the real queue
   instead of `NoSendOnClosed`'s abstraction); the record's index with the
   uploader's tag (two goroutines that set it in the other order); the bus behind a
   lane.
5. `Concat`: the window arithmetic of `concatWithHeader` against a reference
   definition over bounded inputs; the part sizing of the multipart writer.
6. `NamedLocks`, `LiveHLS`, the ingest supervisor.
