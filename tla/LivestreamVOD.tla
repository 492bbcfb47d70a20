---------------------------- MODULE LivestreamVOD ----------------------------
(***************************************************************************)
(* From the recording of one livestream to place.stream.video records:     *)
(* automatic publishing (statedb/auto_publish_vod.go), finalize by hand    *)
(* (spxrpc/place_stream_media_finalizelivestream.go), the task that makes  *)
(* the VOD and publishes it or readies a draft (queue_processor.go), and   *)
(* the calls that publish from an upload or a draft and delete again       *)
(* (pkg/vod).                                                              *)
(*                                                                         *)
(* One call to the database or to the streamer's PDS is one step.  A call  *)
(* to the PDS may be refused, or be carried out with its answer lost.  A   *)
(* task runs at most once (TaskQueue: a row that was handed out and failed *)
(* is never handed out again), so what stops half way stays there.  Ending *)
(* the livestream record along with a finalize is in LivestreamRecord.     *)
(***************************************************************************)
EXTENDS Naturals, FiniteSets

CONSTANTS
  AutoUpload,  \* the upload of automatic publishing, named after the livestream
  Hands,       \* the uploads of finalizes by hand, one for each request
  Calls,       \* requests to publish a video or draft, or to delete a video
  MaxWaits,    \* autoPublishVODMaxWaits
  MaxFaults    \* bound: calls that fail and processes that stop

Uploads == {AutoUpload} \cup Hands

ASSUME VODAssumption ==
  /\ AutoUpload \notin Hands
  /\ Uploads \cap Calls = {}
  /\ MaxWaits \in Nat /\ MaxFaults \in Nat

\* Who publishes: a request, or the worker that has finalized an upload.
Procs == Uploads \cup Calls

\* The streams of a recording; publishing mints a track record for each.
Kinds == {"video", "audio"}

VARIABLES
  open,        \* an object of the recording is still being written
  recorded,    \* a completed object of the recording exists
  leads,       \* finalizes by hand whose recording starts with this livestream;
               \* the others finalize an earlier livestream together with it
  auto,        \* automatic publishing: where its pass is, and its waits
  hand,        \* per finalize by hand: where its handler is
  wants,       \* per upload: its finalize task is to publish the video
  row,         \* per upload: the row and its processing status
  task,        \* per upload: where its finalize task is
  draft,       \* per upload: the draft tied to it
  remembered,  \* per upload: the track records on its row (TrackURIs)
  minted,      \* per upload and kind: the track records ever put at the PDS
  gone,        \* the track records deleted there
  video,       \* the video records at the PDS
  call,        \* per process: its call of PublishVideo, PublishDraft or DeleteVideo
  faults,      \* how many faults there were
  thrown,      \* history: uploads whose draft the streamer has discarded
  hit,         \* history: uploads whose rows or whose task a fault struck
  late,        \* history: finalizes by hand that came after automatic
               \* publishing had looked for them
  lost,        \* history, per upload: video records its task put with the answer lost
  torn,        \* history: uploads of which a DeleteVideo forgot nothing after
               \* deleting a track
  spoiled      \* history: uploads whose minting or remembering was cut short,
               \* whose tracks were deleted, or on which two calls overlapped

rows == <<row, task, draft>>
pds == <<minted, gone, video>>
history == <<thrown, hit, late, lost, torn, spoiled>>
recording == <<open, recorded, leads>>
vars == <<recording, auto, hand, wants, rows, remembered, pds, call, faults, history>>

Idle == [op |-> "none", up |-> AutoUpload, at |-> "idle", src |-> {}, cut |-> {}, crossed |-> FALSE]

Init ==
  /\ open = TRUE /\ recorded \in BOOLEAN /\ leads \in SUBSET Hands
  /\ auto = [at |-> "none", waits |-> 0]
  /\ hand = [h \in Hands |-> "idle"]
  /\ wants = [u \in Uploads |-> u = AutoUpload]
  /\ row = [u \in Uploads |-> "none"]
  /\ task = [u \in Uploads |-> "none"]
  /\ draft = [u \in Uploads |-> "none"]
  /\ remembered = [u \in Uploads |-> {}]
  /\ minted = [u \in Uploads |-> [k \in Kinds |-> 0]]
  /\ gone = {}
  /\ video = {}
  /\ call = [p \in Procs |-> Idle]
  /\ faults = 0
  /\ thrown = {} /\ hit = {} /\ late = {} /\ torn = {} /\ spoiled = {}
  /\ lost = [u \in Uploads |-> 0]

Fault ==
  /\ faults < MaxFaults
  /\ faults' = faults + 1

\* A fault strikes what the database or a worker does for the upload.
Strike(u) ==
  /\ Fault
  /\ hit' = hit \cup {u}
  /\ UNCHANGED <<thrown, late, lost, torn, spoiled>>

-----------------------------------------------------------------------------
\* The recorder completes its last object; one whose node died never is.
ObjectCompletes ==
  /\ open
  /\ open' = FALSE
  /\ recorded' = TRUE
  /\ UNCHANGED <<leads, auto, hand, wants, rows, remembered, pds, call, faults, history>>

\* ScheduleAutoPublishVOD: the node has seen the livestream end.
ScheduleAutoPublishVOD ==
  /\ auto.at = "none"
  /\ auto' = [auto EXCEPT !.at = "queued"]
  /\ UNCHANGED <<recording, hand, wants, rows, remembered, pds, call, faults, history>>

AutoKeeps == UNCHANGED <<recording, hand, wants, remembered, pds, call>>

\* The pass finds the livestream not indexed, or the setting turned off.
AutoSkips ==
  /\ auto.at = "queued"
  /\ auto' = [auto EXCEPT !.at = "done"]
  /\ UNCHANGED <<rows, faults, history>> /\ AutoKeeps

\* Mutant: only the first pass asks whether somebody was faster.
OtherUploadsAtFirst == IF auto.waits = 0 THEN {h \in leads : row[h] # "none"} ELSE {}

\* ListLivestreamUploads, without the pass's own upload.  A row is located at
\* the first livestream of its recording, so it lists only those that start
\* with this one.
OtherUploads == {h \in leads : row[h] # "none"}

\* The pass lists the uploads of the livestream; another upload ends it.
AutoLists ==
  /\ auto.at = "queued"
  /\ auto' = [auto EXCEPT !.at = IF OtherUploads # {} THEN "done" ELSE "listed"]
  /\ UNCHANGED <<rows, faults, history>> /\ AutoKeeps

(***************************************************************************)
(* The pass counts the open objects: while there are some it queues the    *)
(* next pass, up to MaxWaits times.  Then it lists the completed ones.     *)
(***************************************************************************)
AutoLooks ==
  /\ auto.at = "listed"
  /\ auto' = IF open /\ auto.waits < MaxWaits
             THEN [at |-> "queued", waits |-> auto.waits + 1]
             ELSE [auto EXCEPT !.at = IF recorded THEN "create" ELSE "done"]
  /\ UNCHANGED <<rows, faults, history>> /\ AutoKeeps

\* CreateLivestreamUpload, unless an earlier pass has created it.
AutoCreates ==
  /\ auto.at = "create"
  /\ auto' = [auto EXCEPT !.at = "enqueue"]
  /\ row' = [row EXCEPT ![AutoUpload] = IF @ = "none" THEN "new" ELSE @]
  /\ UNCHANGED <<task, draft, faults, history>> /\ AutoKeeps

\* EnqueueTask under the upload's key, and CompleteTask.
AutoEnqueues ==
  /\ auto.at = "enqueue"
  /\ auto' = [auto EXCEPT !.at = "done"]
  /\ task' = [task EXCEPT ![AutoUpload] = IF @ = "none" THEN "queued" ELSE @]
  /\ UNCHANGED <<row, draft, faults, history>> /\ AutoKeeps

\* A call of the pass fails, or its node stops; its task is not run again.
AutoStops ==
  /\ auto.at \in {"queued", "listed", "create", "enqueue"}
  /\ auto' = [auto EXCEPT !.at = "left"]
  /\ Strike(AutoUpload)
  /\ UNCHANGED rows /\ AutoKeeps

-----------------------------------------------------------------------------
HandKeeps == UNCHANGED <<recording, auto, remembered, pds, call>>

\* handlePlaceStreamMediaFinalizeLivestream has found completed objects.
HandAsks(h) ==
  /\ hand[h] = "idle"
  /\ recorded
  /\ hand' = [hand EXCEPT ![h] = "create"]
  /\ \E publish \in BOOLEAN : wants' = [wants EXCEPT ![h] = publish]
  /\ UNCHANGED <<rows, faults, history>> /\ HandKeeps

\* CreateLivestreamUpload.  It asks nothing about other uploads.
HandCreates(h) ==
  /\ hand[h] = "create"
  /\ hand' = [hand EXCEPT ![h] = IF wants[h] THEN "enqueue" ELSE "draft"]
  /\ row' = [row EXCEPT ![h] = "new"]
  /\ late' = IF auto.at \in {"listed", "create", "enqueue"} \/ row[AutoUpload] # "none"
             THEN late \cup {h} ELSE late
  /\ UNCHANGED <<wants, task, draft, faults, thrown, hit, lost, torn, spoiled>> /\ HandKeeps

\* CreateLivestreamDraft.
HandDrafts(h) ==
  /\ hand[h] = "draft"
  /\ hand' = [hand EXCEPT ![h] = "enqueue"]
  /\ draft' = [draft EXCEPT ![h] = "processing"]
  /\ UNCHANGED <<wants, row, task, faults, history>> /\ HandKeeps

\* EnqueueTask.
HandEnqueues(h) ==
  /\ hand[h] = "enqueue"
  /\ hand' = [hand EXCEPT ![h] = "done"]
  /\ task' = [task EXCEPT ![h] = "queued"]
  /\ UNCHANGED <<wants, row, draft, faults, history>> /\ HandKeeps

\* A call of the handler fails.  Only a failed EnqueueTask deletes the draft,
\* if that succeeds; the upload row stays.
HandFails(h) ==
  /\ hand[h] \in {"create", "draft", "enqueue"}
  /\ \/ UNCHANGED draft
     \/ hand[h] = "enqueue" /\ draft' = [draft EXCEPT ![h] = "none"]
  /\ hand' = [hand EXCEPT ![h] = "done"]
  /\ Strike(h)
  /\ UNCHANGED <<wants, row, task>> /\ HandKeeps

-----------------------------------------------------------------------------
(***************************************************************************)
(* Calls.  A call begins by reading the upload row, and the draft or the   *)
(* video record it is about; src is what it publishes or has yet to        *)
(* delete, cut what it has deleted.                                        *)
(***************************************************************************)
Active(p) == call[p].at \notin {"idle", "done", "failed"}

Begin(p, op, u, at, src) ==
  LET others == {q \in Procs : Active(q) /\ call[q].up = u} IN
  /\ call' = [q \in Procs |->
       IF q = p THEN [op |-> op, up |-> u, at |-> at, src |-> src, cut |-> {}, crossed |-> others # {}]
       ELSE IF q \in others THEN [call[q] EXCEPT !.crossed = TRUE] ELSE call[q]]
  /\ spoiled' = IF others # {} \/ op = "delete" THEN spoiled \cup {u} ELSE spoiled
  /\ UNCHANGED <<thrown, hit, late, lost, torn>>

\* A publish reuses the track records on the row, or mints new ones.
BeginPublish(p, op, u) ==
  Begin(p, op, u, IF remembered[u] = {} THEN "mint" ELSE "put", remembered[u])

CallKeeps == UNCHANGED <<recording, auto, hand, wants, row>>

\* publishVideo of a finished upload.
AskPublishVideo(c, u) ==
  /\ call[c].at = "idle"
  /\ row[u] = "done"
  /\ BeginPublish(c, "video", u)
  /\ UNCHANGED <<task, draft, remembered, pds, faults>> /\ CallKeeps

\* publishDraft of a ready draft.
AskPublishDraft(c, u) ==
  /\ call[c].at = "idle"
  /\ draft[u] = "ready"
  /\ BeginPublish(c, "draft", u)
  /\ UNCHANGED <<task, draft, remembered, pds, faults>> /\ CallKeeps

\* DeleteVideo reads the record and deletes it; it goes on with the tracks
\* when it was asked to and the answer arrives.
AskDeleteVideo(c) ==
  /\ call[c].at = "idle"
  /\ \E v \in video :
       /\ video' = video \ {v}
       /\ \/ Begin(c, "delete", v.up, "cut", v.source)
          \/ call' = [call EXCEPT ![c].at = "done"] /\ UNCHANGED history
  /\ UNCHANGED <<task, draft, remembered, minted, gone, faults>> /\ CallKeeps

\* The streamer discards a draft.
DeleteDraft(u) ==
  /\ draft[u] # "none"
  /\ draft' = [draft EXCEPT ![u] = "none"]
  /\ thrown' = thrown \cup {u}
  /\ UNCHANGED <<task, remembered, pds, call, faults, hit, late, lost, torn, spoiled>> /\ CallKeeps

Moves(p, at, src) ==
  call' = [call EXCEPT ![p].at = at, ![p].src = src, ![p].cut = {},
                       ![p].crossed = call[p].crossed /\ at \notin {"done", "failed"}]

\* The kind a publish mints next, and a track record of an upload.
Due(p) == IF call[p].src = {} THEN "video" ELSE "audio"
Track(u, k, n) == [up |-> u, kind |-> k, n |-> n]

\* publishTrack.
Mint(p) ==
  LET u == call[p].up
      k == Due(p)
  IN
  /\ call[p].at = "mint"
  /\ minted' = [minted EXCEPT ![u][k] = @ + 1]
  /\ Moves(p, IF k = "audio" THEN "remember" ELSE "mint",
           call[p].src \cup {Track(u, k, minted[u][k] + 1)})
  /\ UNCHANGED <<task, draft, remembered, gone, video, faults, history>> /\ CallKeeps

\* Mutant: the track minted before the failure is remembered.
KeptPart(p) == call[p].src

\* What a publish that fails while minting leaves on the upload row.
Kept(p) == remembered[call[p].up]

\* publishTrack fails; the record exists if only the answer was lost.
MintFails(p) ==
  LET u == call[p].up IN
  /\ call[p].at = "mint"
  /\ \E applied \in {0, 1} : minted' = [minted EXCEPT ![u][Due(p)] = @ + applied]
  /\ remembered' = [remembered EXCEPT ![u] = Kept(p)]
  /\ spoiled' = IF call[p].src # {} \/ minted' # minted THEN spoiled \cup {u} ELSE spoiled
  /\ Moves(p, "failed", {})
  /\ Fault
  /\ UNCHANGED <<task, draft, gone, video, thrown, hit, late, lost, torn>> /\ CallKeeps

\* Mutant: the upload row does not learn of the tracks.
NotedNever(p) == remembered[call[p].up]

\* What SetUploadTrackURIs writes.
Noted(p) == call[p].src

\* SetUploadTrackURIs; a failure of it is only logged.
Remember(p) ==
  LET u == call[p].up IN
  /\ call[p].at = "remember"
  /\ \/ /\ remembered' = [remembered EXCEPT ![u] = Noted(p)]
        /\ UNCHANGED <<faults, spoiled>>
     \/ /\ Fault
        /\ spoiled' = spoiled \cup {u}
        /\ UNCHANGED remembered
  /\ Moves(p, "put", call[p].src)
  /\ UNCHANGED <<task, draft, pds, thrown, hit, late, lost, torn>> /\ CallKeeps

\* Mutant: a draft is published under a key of its own each time.
KeyFresh(p) == <<p, "tid">>

\* The key of the video record: a draft's own, or a new one.
Key(p) == IF call[p].op = "draft" THEN <<call[p].up, "draft">> ELSE <<p, "tid">>

Published(p) ==
  {v \in video : v.key # Key(p)} \cup {[key |-> Key(p), up |-> call[p].up, source |-> call[p].src]}

\* putRecord of the video.
Put(p) ==
  /\ call[p].at = "put"
  /\ video' = Published(p)
  /\ Moves(p, IF call[p].op = "draft" THEN "tidy" ELSE "done", {})
  /\ UNCHANGED <<task, draft, remembered, minted, gone, faults, history>> /\ CallKeeps

\* The history of an answer that did not come: it makes a difference to the
\* finalize task, which leaves a draft then, and to nobody else's key.
Unanswered(p) == IF p \in Uploads THEN [lost EXCEPT ![p] = @ + 1] ELSE lost

\* putRecord is refused, or carried out with the answer lost.
PutFails(p) ==
  /\ call[p].at = "put"
  /\ \/ UNCHANGED <<video, lost>>
     \/ video' = Published(p) /\ lost' = Unanswered(p)
  /\ Moves(p, "failed", {})
  /\ Fault
  /\ UNCHANGED <<task, draft, remembered, minted, gone, thrown, hit, late, torn, spoiled>> /\ CallKeeps

\* PublishDraft deletes the draft; a failure of it is only logged.
Tidy(p) ==
  /\ call[p].at = "tidy"
  /\ \/ draft' = [draft EXCEPT ![call[p].up] = "none"] /\ UNCHANGED faults
     \/ Fault /\ UNCHANGED draft
  /\ Moves(p, "done", {})
  /\ UNCHANGED <<task, remembered, pds, history>> /\ CallKeeps

\* DeleteVideo deletes the next track, the video's first.
NextCut(p) == CHOOSE t \in call[p].src : t.kind = "video" \/ \A s \in call[p].src : s.kind # "video"

Cut(p) ==
  LET t == NextCut(p) IN
  /\ call[p].at = "cut"
  /\ gone' = gone \cup {t}
  /\ call' = [call EXCEPT ![p].src = @ \ {t}, ![p].cut = @ \cup {t},
                          ![p].at = IF call[p].src = {t} THEN "forget" ELSE "cut"]
  /\ UNCHANGED <<task, draft, remembered, minted, video, faults, history>> /\ CallKeeps

\* deleteRecord of a track fails: DeleteVideo returns at once.
CutFails(p) ==
  /\ call[p].at = "cut"
  /\ \E applied \in {{}, {NextCut(p)}} :
       /\ gone' = gone \cup applied
       /\ torn' = IF applied \cup call[p].cut = {} THEN torn ELSE torn \cup {call[p].up}
  /\ Moves(p, "failed", {})
  /\ Fault
  /\ UNCHANGED <<task, draft, remembered, minted, video, thrown, hit, late, lost, spoiled>> /\ CallKeeps

\* Mutant: the uploads are not told.
ForgottenNever(p) == remembered

\* ForgetUploadTracks: no upload remembers any of the deleted tracks.
Forgotten(p) ==
  [u \in Uploads |-> IF remembered[u] \cap call[p].cut # {} THEN {} ELSE remembered[u]]

\* DeleteVideo ends; a failure to forget is only logged.
Forget(p) ==
  /\ call[p].at = "forget"
  /\ \/ remembered' = Forgotten(p) /\ UNCHANGED <<faults, torn>>
     \/ Fault /\ torn' = torn \cup {call[p].up} /\ UNCHANGED remembered
  /\ Moves(p, "done", {})
  /\ UNCHANGED <<task, draft, pds, thrown, hit, late, lost, spoiled>> /\ CallKeeps

-----------------------------------------------------------------------------
(***************************************************************************)
(* processFinalizeLivestreamVODTask.                                       *)
(***************************************************************************)
TaskKeeps == UNCHANGED <<recording, auto, hand, wants, remembered, pds>>

\* SetUploadProcessing; a failure of it is only logged.
FinalizeStarts(u) ==
  /\ task[u] = "queued"
  /\ task' = [task EXCEPT ![u] = "work"]
  /\ \/ row' = [row EXCEPT ![u] = "processing"] /\ UNCHANGED faults
     \/ Fault /\ UNCHANGED row
  /\ UNCHANGED <<draft, call, history>> /\ TaskKeeps

\* SetDraftError, of a draft that exists.
Failed(d) == IF d = "none" THEN d ELSE "error"

\* The finalizer fails: SetUploadFailed and SetDraftError, each of which may
\* fail and be logged, then CompleteTask.
FinalizeFails(u) ==
  /\ task[u] = "work"
  /\ task' = [task EXCEPT ![u] = "completed"]
  /\ \/ /\ row' = [row EXCEPT ![u] = "error"]
        /\ draft' = [draft EXCEPT ![u] = Failed(@)]
        /\ UNCHANGED <<faults, history>>
     \/ /\ Strike(u)
        /\ \/ row' = [row EXCEPT ![u] = "error"] /\ UNCHANGED draft
           \/ draft' = [draft EXCEPT ![u] = Failed(@)] /\ UNCHANGED row
           \/ UNCHANGED <<row, draft>>
  /\ UNCHANGED call /\ TaskKeeps

\* The finalizer ends with SetUploadProcessed.
FinalizeDone(u) ==
  /\ task[u] = "work"
  /\ task' = [task EXCEPT ![u] = "mark"]
  /\ row' = [row EXCEPT ![u] = "done"]
  /\ UNCHANGED <<draft, call, faults, history>> /\ TaskKeeps

\* markDraftReadyFromUpload; without a draft there is nothing to do, and a
\* failure of it is only logged.
MarkDraftReady(u) ==
  /\ task[u] = "mark"
  /\ \/ /\ draft' = [draft EXCEPT ![u] = IF @ = "none" THEN @ ELSE "ready"]
        /\ UNCHANGED <<faults, history>>
     \/ Strike(u) /\ UNCHANGED draft
  /\ task' = [task EXCEPT ![u] = IF wants[u] /\ call[u].at = "idle" THEN "publish" ELSE "completed"]
  /\ UNCHANGED <<row, call>> /\ TaskKeeps

\* The task asks for PublishVideo.
PublishStarts(u) ==
  /\ task[u] = "publish"
  /\ task' = [task EXCEPT ![u] = "publishing"]
  /\ BeginPublish(u, "video", u)
  /\ UNCHANGED <<row, draft, faults>> /\ TaskKeeps

\* Mutant: a failed publish is only logged.
LeaveNoDraft(u) ==
  /\ draft' = draft
  /\ task' = [task EXCEPT ![u] = "completed"]

\* CreateLivestreamDraft for what could not be published.
LeaveDraft(u) ==
  /\ draft' = [draft EXCEPT ![u] = "processing"]
  /\ task' = [task EXCEPT ![u] = "mark"]

\* PublishVideo has returned.
PublishEnds(u) ==
  /\ task[u] = "publishing"
  /\ \/ /\ call[u].at = "done"
        /\ task' = [task EXCEPT ![u] = "completed"]
        /\ UNCHANGED <<draft, faults, history>>
     \/ /\ call[u].at = "failed"
        /\ LeaveDraft(u)
        /\ UNCHANGED <<faults, history>>
     \/ /\ call[u].at = "failed"
        /\ Strike(u)
        /\ task' = [task EXCEPT ![u] = "completed"]
        /\ UNCHANGED draft
  /\ UNCHANGED <<row, call>> /\ TaskKeeps

\* The node stops in the middle; the task is not run again.
WorkerStops(u) ==
  /\ task[u] \in {"work", "mark", "publish", "publishing"}
  /\ task' = [task EXCEPT ![u] = "left"]
  /\ Moves(u, "failed", {})
  /\ Fault
  /\ hit' = hit \cup {u}
  /\ spoiled' = IF Active(u) /\ call[u].at # "put" /\ call[u].src # {}
                THEN spoiled \cup {u} ELSE spoiled
  /\ UNCHANGED <<row, draft, thrown, late, lost, torn>> /\ TaskKeeps

-----------------------------------------------------------------------------
AutoStep == AutoSkips \/ AutoLists \/ AutoLooks \/ AutoCreates \/ AutoEnqueues
HandStep(h) == HandCreates(h) \/ HandDrafts(h) \/ HandEnqueues(h)
CallStep(p) == Mint(p) \/ Remember(p) \/ Put(p) \/ Tidy(p) \/ Cut(p) \/ Forget(p)
TaskStep(u) ==
  \/ FinalizeStarts(u) \/ FinalizeFails(u) \/ FinalizeDone(u)
  \/ MarkDraftReady(u) \/ PublishStarts(u) \/ PublishEnds(u)

Next ==
  \/ ObjectCompletes \/ ScheduleAutoPublishVOD \/ AutoStep \/ AutoStops
  \/ \E h \in Hands : HandAsks(h) \/ HandStep(h) \/ HandFails(h)
  \/ \E c \in Calls :
       \/ AskDeleteVideo(c)
       \/ \E u \in Uploads : AskPublishVideo(c, u) \/ AskPublishDraft(c, u)
  \/ \E p \in Procs : CallStep(p) \/ MintFails(p) \/ PutFails(p) \/ CutFails(p)
  \/ \E u \in Uploads : TaskStep(u) \/ WorkerStops(u) \/ DeleteDraft(u)

Spec == Init /\ [][Next]_vars

(***************************************************************************)
(* Fairness: handlers, passes and workers that have begun go on until they *)
(* end or fail.  Nothing is assumed of the streamer, of the recorder, or   *)
(* of faults.                                                              *)
(***************************************************************************)
FairSpec ==
  /\ Spec
  /\ WF_vars(AutoStep)
  /\ \A h \in Hands : WF_vars(HandStep(h))
  /\ \A p \in Procs : WF_vars(CallStep(p))
  /\ \A u \in Uploads : WF_vars(TaskStep(u))

-----------------------------------------------------------------------------
\* Every video record names one track of each stream, all of the upload it was
\* published from: whatever calls fail half way or overlap, no publish reuses
\* part of a set (publish_draft.go:237-261).
SourceIsWhole ==
  \A v \in video :
    /\ {<<t.up, t.kind>> : t \in v.source} = {v.up} \X Kinds
    /\ Cardinality(v.source) = Cardinality(Kinds)

\* A publish never names a deleted track, unless a DeleteVideo of the upload
\* failed after its first track or the two overlapped: "the next publish from
\* that upload must mint new ones rather than point at deleted records"
\* (admin_video.go:294-296).
RepublishMintsAnew ==
  [][\A v \in video' \ video :
       \/ v.source \cap gone = {}
       \/ v.up \in torn
       \/ \E p \in Procs : call[p].at = "put" /\ Key(p) = v.key /\ call[p].crossed]_vars

\* A second track of one kind is minted for an upload only if its minting was
\* cut short, its tracks were deleted or two calls overlapped
\* (publish_draft.go:215-220).
OneSetOfTracks ==
  \A u \in Uploads : u \in spoiled \/ \A k \in Kinds : minted[u][k] <= 1

\* A finalized upload has one video record, besides one for each call of
\* publishVideo and one its task put without learning of it: a draft published
\* twice, with or without an answer, or left by a publish that was refused, gives
\* no second one (publish_draft.go:124-132).
OneVideoPerRequest ==
  \A u \in Uploads :
    Cardinality({v \in video : v.up = u})
      <= 1 + lost[u] + Cardinality({c \in Calls : call[c].op = "video" /\ call[c].up = u})

\* Automatic publishing makes no VOD beside one that was asked for by hand before
\* its last look and starts with this livestream, however often it has waited
\* (auto_publish_vod.go:106-122).  Of one that starts with an earlier livestream
\* it does not know (livestream_vod.go:78-86).
AutoYieldsToHand ==
  row[AutoUpload] # "none" => \A h \in leads : row[h] # "none" => h \in late

\* What the streamer gets to see of an upload: an error, a video, a ready draft,
\* unless they threw the draft away themselves.
Outcome(u) ==
  \/ row[u] = "error" /\ draft[u] # "processing"
  \/ row[u] = "done" /\ draft[u] = "ready"
  \/ \E v \in video : v.up = u
  \/ u \in thrown

\* Every VOD somebody asked for ends in an outcome, unless its handler or its
\* worker was struck: a publish that fails leaves a ready draft
\* (queue_processor.go:377-399).
EveryVODHasAnOutcome ==
  \A u \in Uploads : row[u] \in {"new", "processing"} ~> (u \in hit \/ Outcome(u))

=============================================================================
