------------------------- MODULE LivestreamVODProofs -------------------------
(***************************************************************************)
(* What holds of VOD publishing for any number of finalizes by hand,       *)
(* requests, waits and faults: videos name whole sets of tracks, an upload *)
(* that nothing spoiled has one set and, but for lost answers, one video   *)
(* per request; a publish names no deleted track; and automatic publishing *)
(* yields to a finalize by hand.                                           *)
(***************************************************************************)
EXTENDS LivestreamVOD, TLAPS, FiniteSetTheorems

-----------------------------------------------------------------------------
(***************************************************************************)
(* Rows and tasks.                                                         *)
(***************************************************************************)
\* The types of the rows, of the tasks and of those who create them.
RowTypes ==
  /\ auto \in [at : {"none", "queued", "listed", "create", "enqueue", "done", "left"}, waits : Nat]
  /\ hand \in [Hands -> {"idle", "create", "draft", "enqueue", "done"}]
  /\ wants \in [Uploads -> BOOLEAN]
  /\ row \in [Uploads -> {"none", "new", "processing", "error", "done"}]
  /\ task \in [Uploads -> {"none", "queued", "work", "mark", "publish", "publishing", "completed", "left"}]
  /\ draft \in [Uploads -> {"none", "processing", "ready", "error"}]

\* Nobody creates a task for an upload without a row, or before its finalize by
\* hand is done; from automatic publishing's last look on a finalize by hand that
\* starts with this livestream and creates a row is late.
YieldInv ==
  /\ \A u \in Uploads : task[u] # "none" => row[u] # "none"
  /\ \A h \in Hands : hand[h] # "done" => task[h] = "none"
  /\ auto.at = "enqueue" => row[AutoUpload] # "none"
  /\ \A h \in Hands : hand[h] \in {"draft", "enqueue"} => row[h] # "none"
  /\ leads \subseteq Hands
  /\ (auto.at \in {"listed", "create", "enqueue"} \/ row[AutoUpload] # "none") =>
       \A h \in leads : row[h] # "none" => h \in late

\* A publish or a deletion changes of the rows at most the draft, which it
\* deletes; no step of one of them is a step of its task.
LEMMA CallSteps ==
  ASSUME NEW p \in Procs, CallStep(p) \/ MintFails(p) \/ PutFails(p) \/ CutFails(p)
  PROVE  /\ UNCHANGED <<auto, hand, wants, row, task, late, leads>>
         /\ draft' = draft \/ draft' = [draft EXCEPT ![call[p].up] = "none"]
BY DEF CallStep, Mint, Remember, Put, Tidy, Cut, Forget, MintFails, PutFails, CutFails, CallKeeps, recording, history, pds

\* The requests that begin a publish or a deletion change none of the rows.
LEMMA AskSteps ==
  ASSUME NEW c \in Calls,
         AskDeleteVideo(c) \/ \E u \in Uploads : AskPublishVideo(c, u) \/ AskPublishDraft(c, u)
  PROVE  UNCHANGED <<auto, hand, wants, row, task, draft, late, leads>>
<1>1. CASE AskDeleteVideo(c)
  BY <1>1 DEF AskDeleteVideo, Begin, CallKeeps, recording, history
<1>2. CASE \E u \in Uploads : AskPublishVideo(c, u) \/ AskPublishDraft(c, u)
  BY <1>2 DEF AskPublishVideo, AskPublishDraft, BeginPublish, Begin, CallKeeps, recording
<1> QED BY <1>1, <1>2

\* The types of the rows are kept.
LEMMA RowTypesStep ==
  ASSUME RowTypes, [Next]_vars
  PROVE  RowTypes'
<1>0. AutoUpload \in Uploads /\ \A h \in Hands : h \in Uploads
  BY DEF Uploads
<1>1. CASE UNCHANGED vars
  BY <1>1 DEF RowTypes, vars, rows
<1>2. CASE ObjectCompletes
  BY <1>2 DEF RowTypes, ObjectCompletes, rows
<1>3. CASE ScheduleAutoPublishVOD \/ AutoSkips \/ AutoLists \/ AutoLooks \/ AutoStops
  BY <1>3 DEF RowTypes, ScheduleAutoPublishVOD, AutoSkips, AutoLists, AutoLooks, AutoStops, AutoKeeps, rows
<1>4. CASE AutoCreates \/ AutoEnqueues
  BY <1>0, <1>4 DEF RowTypes, AutoCreates, AutoEnqueues, AutoKeeps
<1>5. ASSUME NEW h \in Hands, HandAsks(h) \/ HandStep(h) \/ HandFails(h) PROVE RowTypes'
  <2>1. CASE HandAsks(h)
    BY <1>0, <1>5, <2>1 DEF RowTypes, HandAsks, HandKeeps, rows
  <2>2. CASE HandStep(h)
    BY <1>0, <1>5, <2>2 DEF RowTypes, HandStep, HandCreates, HandDrafts, HandEnqueues, HandKeeps
  <2>3. CASE HandFails(h)
    BY <1>0, <1>5, <2>3 DEF RowTypes, HandFails, HandKeeps
  <2> QED BY <1>5, <2>1, <2>2, <2>3
<1>6. ASSUME NEW c \in Calls,
             AskDeleteVideo(c) \/ \E u \in Uploads : AskPublishVideo(c, u) \/ AskPublishDraft(c, u)
      PROVE  RowTypes'
  BY <1>6, AskSteps DEF RowTypes
<1>7. ASSUME NEW p \in Procs, CallStep(p) \/ MintFails(p) \/ PutFails(p) \/ CutFails(p) PROVE RowTypes'
  BY <1>7, CallSteps DEF RowTypes
<1>8. ASSUME NEW u \in Uploads, TaskStep(u) PROVE RowTypes'
  <2>1. CASE FinalizeStarts(u) \/ FinalizeDone(u)
    BY <1>8, <2>1 DEF RowTypes, FinalizeStarts, FinalizeDone, TaskKeeps
  <2>2. CASE FinalizeFails(u)
    BY <1>8, <2>2 DEF RowTypes, FinalizeFails, Failed, TaskKeeps
  <2>3. CASE MarkDraftReady(u)
    BY <1>8, <2>3 DEF RowTypes, MarkDraftReady, TaskKeeps
  <2>4. CASE PublishStarts(u)
    BY <1>8, <2>4 DEF RowTypes, PublishStarts, TaskKeeps
  <2>5. CASE PublishEnds(u)
    BY <1>8, <2>5 DEF RowTypes, PublishEnds, LeaveDraft, TaskKeeps
  <2> QED BY <1>8, <2>1, <2>2, <2>3, <2>4, <2>5 DEF TaskStep
<1>9. ASSUME NEW u \in Uploads, WorkerStops(u) \/ DeleteDraft(u) PROVE RowTypes'
  BY <1>9 DEF RowTypes, WorkerStops, DeleteDraft, TaskKeeps, CallKeeps
<1> QED
  BY <1>1, <1>2, <1>3, <1>4, <1>5, <1>6, <1>7, <1>8, <1>9 DEF Next, AutoStep

\* No step makes a row in time to which automatic publishing is blind.
LEMMA YieldStep ==
  ASSUME RowTypes, YieldInv, [Next]_vars
  PROVE  YieldInv'
<1> USE DEF recording
<1>0. AutoUpload \in Uploads /\ AutoUpload \notin Hands /\ \A h \in Hands : h \in Uploads
  BY VODAssumption DEF Uploads
<1>1. CASE UNCHANGED vars
  BY <1>1 DEF YieldInv, vars, rows, history
<1>2. CASE ObjectCompletes
  BY <1>2 DEF YieldInv, ObjectCompletes, rows, history
<1>3. CASE ScheduleAutoPublishVOD \/ AutoSkips
  BY <1>3 DEF RowTypes, YieldInv, ScheduleAutoPublishVOD, AutoSkips, AutoKeeps, rows, history
<1>4. CASE AutoLists
  BY <1>0, <1>4 DEF RowTypes, YieldInv, AutoLists, OtherUploads, AutoKeeps, rows, history
<1>5. CASE AutoLooks
  BY <1>0, <1>5 DEF RowTypes, YieldInv, AutoLooks, AutoKeeps, rows, history
<1>6. CASE AutoStops
  BY <1>0, <1>6 DEF RowTypes, YieldInv, AutoStops, Strike, AutoKeeps, rows
<1>7. CASE AutoCreates
  BY <1>0, <1>7 DEF RowTypes, YieldInv, AutoCreates, AutoKeeps, history
<1>8. CASE AutoEnqueues
  BY <1>0, <1>8 DEF RowTypes, YieldInv, AutoEnqueues, AutoKeeps, history
<1>9. ASSUME NEW h \in Hands, HandAsks(h) \/ HandStep(h) \/ HandFails(h) PROVE YieldInv'
  <2>1. CASE HandAsks(h)
    BY <1>0, <1>9, <2>1 DEF RowTypes, YieldInv, HandAsks, HandKeeps, rows, history
  <2>2. CASE HandCreates(h)
    BY <1>0, <1>9, <2>2 DEF RowTypes, YieldInv, HandCreates, HandKeeps
  <2>3. CASE HandDrafts(h) \/ HandEnqueues(h)
    BY <1>0, <1>9, <2>3 DEF RowTypes, YieldInv, HandDrafts, HandEnqueues, HandKeeps, history
  <2>4. CASE HandFails(h)
    BY <1>0, <1>9, <2>4 DEF RowTypes, YieldInv, HandFails, Strike, HandKeeps
  <2> QED BY <1>9, <2>1, <2>2, <2>3, <2>4 DEF HandStep
<1>10. ASSUME NEW c \in Calls,
             AskDeleteVideo(c) \/ \E u \in Uploads : AskPublishVideo(c, u) \/ AskPublishDraft(c, u)
      PROVE  YieldInv'
  BY <1>10, AskSteps DEF YieldInv
<1>11. ASSUME NEW p \in Procs, CallStep(p) \/ MintFails(p) \/ PutFails(p) \/ CutFails(p) PROVE YieldInv'
  BY <1>11, CallSteps DEF YieldInv
<1>12. ASSUME NEW u \in Uploads, TaskStep(u) PROVE YieldInv'
  <2>1. CASE FinalizeStarts(u) \/ FinalizeDone(u)
    BY <1>0, <1>12, <2>1 DEF RowTypes, YieldInv, FinalizeStarts, FinalizeDone, TaskKeeps, history
  <2>2. CASE FinalizeFails(u)
    BY <1>0, <1>12, <2>2 DEF RowTypes, YieldInv, FinalizeFails, Strike, TaskKeeps, history
  <2>3. CASE MarkDraftReady(u)
    BY <1>0, <1>12, <2>3 DEF RowTypes, YieldInv, MarkDraftReady, Strike, TaskKeeps, history
  <2>4. CASE PublishStarts(u)
    BY <1>0, <1>12, <2>4 DEF RowTypes, YieldInv, PublishStarts, BeginPublish, Begin, TaskKeeps
  <2>5. CASE PublishEnds(u)
    BY <1>0, <1>12, <2>5 DEF RowTypes, YieldInv, PublishEnds, LeaveDraft, Strike, TaskKeeps, history
  <2> QED BY <1>12, <2>1, <2>2, <2>3, <2>4, <2>5 DEF TaskStep
<1>13. ASSUME NEW u \in Uploads, WorkerStops(u) \/ DeleteDraft(u) PROVE YieldInv'
  BY <1>0, <1>13 DEF RowTypes, YieldInv, WorkerStops, DeleteDraft, TaskKeeps, CallKeeps
<1> QED
  BY <1>1, <1>2, <1>3, <1>4, <1>5, <1>6, <1>7, <1>8, <1>9, <1>10, <1>11, <1>12, <1>13 DEF Next, AutoStep

\* The invariant holds at the start.
LEMMA YieldInit == Init => YieldInv
BY DEF Init, YieldInv, Uploads

\* The rows keep their types whatever is asked and whatever fails.
LEMMA VODRowTypes == Spec => []RowTypes
<1>1. Init => RowTypes
  BY DEF Init, RowTypes
<1>2. RowTypes /\ [Next]_vars => RowTypes'
  BY RowTypesStep
<1> QED BY <1>1, <1>2, PTL DEF Spec

\* And the invariant about them.
LEMMA VODYield == Spec => []YieldInv
<1>1. RowTypes /\ YieldInv /\ [Next]_vars => YieldInv'
  BY YieldStep
<1> QED BY <1>1, YieldInit, VODRowTypes, PTL DEF Spec

\* For any number of finalizes by hand and of waits, automatic publishing makes
\* no VOD beside one that was asked for by hand before its last look and that
\* starts with this livestream (auto_publish_vod.go:106-122).
THEOREM VODAutoYieldsToHand == Spec => []AutoYieldsToHand
<1>1. YieldInv => AutoYieldsToHand
  BY DEF YieldInv, AutoYieldsToHand
<1> QED BY <1>1, VODYield, PTL

-----------------------------------------------------------------------------
(***************************************************************************)
(* Calls.                                                                  *)
(***************************************************************************)
\* The track records, and where a call can be.
Tracks == [up : Uploads, kind : Kinds, n : Nat]
Ats == {"idle", "mint", "remember", "put", "tidy", "cut", "forget", "done", "failed"}
CallRecords ==
  [op : {"none", "video", "draft", "delete"}, up : Uploads, at : Ats,
   src : SUBSET Tracks, cut : SUBSET Tracks, crossed : BOOLEAN]

\* The types of the calls and of what they read and write.
CallTypes ==
  /\ call \in [Procs -> CallRecords]
  /\ remembered \in [Uploads -> SUBSET Tracks]
  /\ minted \in [Uploads -> [Kinds -> Nat]]
  /\ gone \subseteq Tracks
  /\ video \subseteq [key : Procs \X {"draft", "tid"}, up : Uploads, source : SUBSET Tracks]
  /\ lost \in [Uploads -> Nat]

\* A call goes on as it was, except that it may learn of another.
Undisturbed(q) ==
  /\ call'[q].op = call[q].op /\ call'[q].up = call[q].up /\ call'[q].at = call[q].at
  /\ call'[q].src = call[q].src /\ call'[q].cut = call[q].cut
  /\ call[q].crossed => call'[q].crossed

\* The calls of u that are on their way.
OthersOn(u) == {q \in Procs : Active(q) /\ call[q].up = u}

\* What the beginning of a call does to the calls: those of the same upload, the
\* new one included, know of each other.
LEMMA BeginEffect ==
  ASSUME call \in [Procs -> CallRecords], NEW p \in Procs, NEW op, NEW u \in Uploads, NEW at, NEW src,
         ~Active(p), Begin(p, op, u, at, src)
  PROVE  /\ call'[p] = [op |-> op, up |-> u, at |-> at, src |-> src, cut |-> {}, crossed |-> OthersOn(u) # {}]
         /\ \A q \in Procs : q # p => Undisturbed(q)
         /\ \A q \in Procs : q \in OthersOn(u) => call'[q].crossed /\ q # p
         /\ spoiled' = IF OthersOn(u) # {} \/ op = "delete" THEN spoiled \cup {u} ELSE spoiled
         /\ UNCHANGED <<lost, torn>>
<1>1. call' = [q \in Procs |->
         IF q = p THEN [op |-> op, up |-> u, at |-> at, src |-> src, cut |-> {}, crossed |-> OthersOn(u) # {}]
         ELSE IF q \in OthersOn(u) THEN [call[q] EXCEPT !.crossed = TRUE] ELSE call[q]]
  BY DEF Begin, OthersOn
<1>2. p \notin OthersOn(u)
  BY DEF OthersOn
<1>3. ASSUME NEW q \in Procs, q # p PROVE Undisturbed(q) /\ (q \in OthersOn(u) => call'[q].crossed)
  BY <1>1, <1>3 DEF Undisturbed, CallRecords
<1>4. /\ spoiled' = IF OthersOn(u) # {} \/ op = "delete" THEN spoiled \cup {u} ELSE spoiled
      /\ UNCHANGED <<lost, torn>>
  BY DEF Begin, OthersOn
<1> QED BY <1>1, <1>2, <1>3, <1>4

\* What a step of a call does to the calls.
LEMMA MovesEffect ==
  ASSUME call \in [Procs -> CallRecords], NEW p \in Procs, NEW at, NEW src, Moves(p, at, src)
  PROVE  /\ call'[p].op = call[p].op /\ call'[p].up = call[p].up
         /\ call'[p].at = at /\ call'[p].src = src /\ call'[p].cut = {}
         /\ call'[p].crossed = (call[p].crossed /\ at \notin {"done", "failed"})
         /\ \A q \in Procs : q # p => call'[q] = call[q]
BY DEF Moves, CallRecords

\* DeleteVideo has a track to delete next as long as any is left.
LEMMA CutExists ==
  ASSUME NEW p \in Procs, call[p].src # {}
  PROVE  NextCut(p) \in call[p].src
<1>1. \E t \in call[p].src : t.kind = "video" \/ \A s \in call[p].src : s.kind # "video"
  OBVIOUS
<1> QED BY <1>1 DEF NextCut

\* Steps that are no step of a call touch neither the calls nor the tracks and
\* videos.
CallSide == <<call, remembered, minted, gone, video, lost, torn, spoiled>>

\* The steps that do touch them.
CallMoves ==
  \/ \E c \in Calls, u \in Uploads : AskPublishVideo(c, u) \/ AskPublishDraft(c, u)
  \/ \E c \in Calls : AskDeleteVideo(c)
  \/ \E p \in Procs :
       \/ Mint(p) \/ Remember(p) \/ Put(p) \/ Tidy(p) \/ Cut(p) \/ Forget(p)
       \/ MintFails(p) \/ PutFails(p) \/ CutFails(p)
  \/ \E u \in Uploads : PublishStarts(u) \/ WorkerStops(u)

\* Every step is of one of the two kinds.
LEMMA CallSideSteps ==
  ASSUME [Next]_vars
  PROVE  CallMoves \/ UNCHANGED CallSide
<1> USE DEF CallSide, pds, history
<1>1. CASE UNCHANGED vars
  BY <1>1 DEF vars
<1>2. CASE ObjectCompletes \/ ScheduleAutoPublishVOD
  BY <1>2 DEF ObjectCompletes, ScheduleAutoPublishVOD
<1>3. CASE AutoSkips \/ AutoLists \/ AutoLooks \/ AutoStops \/ AutoCreates \/ AutoEnqueues
  BY <1>3 DEF AutoSkips, AutoLists, AutoLooks, AutoStops, AutoCreates, AutoEnqueues, Strike, AutoKeeps
<1>4. ASSUME NEW h \in Hands, HandAsks(h) \/ HandStep(h) \/ HandFails(h) PROVE UNCHANGED CallSide
  BY <1>4 DEF HandAsks, HandStep, HandCreates, HandDrafts, HandEnqueues, HandFails, Strike, HandKeeps
<1>5. ASSUME NEW u \in Uploads, TaskStep(u) PROVE PublishStarts(u) \/ UNCHANGED CallSide
  BY <1>5 DEF TaskStep, FinalizeStarts, FinalizeFails, FinalizeDone, MarkDraftReady, PublishEnds, Strike, TaskKeeps
<1>6. ASSUME NEW u \in Uploads, DeleteDraft(u) PROVE UNCHANGED CallSide
  BY <1>6 DEF DeleteDraft
<1> QED
  BY <1>1, <1>2, <1>3, <1>4, <1>5, <1>6 DEF Next, AutoStep, CallStep, CallMoves

\* A process that has made no call begins to publish an upload, or its draft if
\* that is ready.
PublishBegins(p, op, u) ==
  /\ call[p].at = "idle" /\ BeginPublish(p, op, u)
  /\ op = "draft" => draft[u] = "ready"
  /\ UNCHANGED <<remembered, minted, gone, video>>

\* A request begins to delete a video and its tracks, or is done once the video
\* is deleted.
DeleteBegins(c, v) ==
  /\ call[c].at = "idle" /\ video' = video \ {v}
  /\ \/ Begin(c, "delete", v.up, "cut", v.source)
     \/ call' = [call EXCEPT ![c].at = "done"] /\ UNCHANGED <<lost, torn, spoiled>>
  /\ UNCHANGED <<remembered, minted, gone>>

\* What a step leaves of the other calls.
Alone(p) == \A q \in Procs : q # p => call'[q] = call[q]

\* The call goes on at another place, or ends.
GoesOn(p, at, src) ==
  /\ call'[p].op = call[p].op /\ call'[p].up = call[p].up /\ call'[p].cut = {}
  /\ call'[p].at = at /\ call'[p].src = src /\ call'[p].crossed = call[p].crossed
  /\ Alone(p)
Over(p, at) ==
  /\ call'[p].op = call[p].op /\ call'[p].up = call[p].up /\ call'[p].cut = {}
  /\ call'[p].at = at /\ call'[p].src = {} /\ call'[p].crossed = FALSE
  /\ Alone(p)

\* A call that moves to another place of a publish keeps what it knows of others.
LEMMA MovesOn ==
  ASSUME CallTypes, NEW p \in Procs, NEW at \in {"put", "tidy"}, NEW src, Moves(p, at, src)
  PROVE  GoesOn(p, at, src)
<1>1. call \in [Procs -> CallRecords] /\ call[p].crossed \in BOOLEAN
  BY DEF CallTypes, CallRecords
<1>2. /\ call'[p].op = call[p].op /\ call'[p].up = call[p].up
      /\ call'[p].at = at /\ call'[p].src = src /\ call'[p].cut = {}
      /\ call'[p].crossed = (call[p].crossed /\ at \notin {"done", "failed"})
      /\ Alone(p)
  BY <1>1, MovesEffect DEF Alone
<1> QED BY <1>1, <1>2 DEF GoesOn

\* A call that ends leaves nothing of it.
LEMMA MovesOver ==
  ASSUME CallTypes, NEW p \in Procs, NEW at \in {"done", "failed"}, Moves(p, at, {})
  PROVE  Over(p, at)
<1>1. call \in [Procs -> CallRecords] /\ call[p].crossed \in BOOLEAN
  BY DEF CallTypes, CallRecords
<1>2. /\ call'[p].op = call[p].op /\ call'[p].up = call[p].up
      /\ call'[p].at = at /\ call'[p].src = {} /\ call'[p].cut = {}
      /\ call'[p].crossed = (call[p].crossed /\ at \notin {"done", "failed"})
      /\ Alone(p)
  BY <1>1, MovesEffect DEF Alone
<1> QED BY <1>1, <1>2 DEF Over

\* What publishTrack does.
LEMMA MintEffect ==
  ASSUME CallTypes, NEW p \in Procs, Mint(p)
  PROVE  /\ call[p].at = "mint"
         /\ GoesOn(p, IF Due(p) = "audio" THEN "remember" ELSE "mint",
                   call[p].src \cup {Track(call[p].up, Due(p), minted[call[p].up][Due(p)] + 1)})
         /\ minted' = [minted EXCEPT ![call[p].up][Due(p)] = minted[call[p].up][Due(p)] + 1]
         /\ UNCHANGED <<remembered, gone, video, lost, torn, spoiled>>
<1> DEFINE at == IF Due(p) = "audio" THEN "remember" ELSE "mint"
           src == call[p].src \cup {Track(call[p].up, Due(p), minted[call[p].up][Due(p)] + 1)}
<1>1. /\ call[p].at = "mint" /\ Moves(p, at, src)
      /\ minted' = [minted EXCEPT ![call[p].up][Due(p)] = minted[call[p].up][Due(p)] + 1]
      /\ UNCHANGED <<remembered, gone, video, lost, torn, spoiled>>
  BY DEF Mint, history
<1>2. at \notin {"done", "failed"}
  OBVIOUS
<1>3. call \in [Procs -> CallRecords] /\ call[p].crossed \in BOOLEAN
  BY DEF CallTypes, CallRecords
<1> HIDE DEF at, src
<1>4. /\ call'[p].op = call[p].op /\ call'[p].up = call[p].up
      /\ call'[p].at = at /\ call'[p].src = src /\ call'[p].cut = {}
      /\ call'[p].crossed = (call[p].crossed /\ at \notin {"done", "failed"})
      /\ Alone(p)
  BY <1>1, <1>3, MovesEffect DEF Alone
<1>5. call'[p].crossed = call[p].crossed
  BY <1>2, <1>3, <1>4
<1>6. GoesOn(p, at, src)
  BY <1>4, <1>5 DEF GoesOn
<1> QED BY <1>1, <1>6 DEF at, src

\* A call to publishTrack that fails leaves the upload's row as it is.
LEMMA MintFailsEffect ==
  ASSUME CallTypes, NEW p \in Procs, MintFails(p)
  PROVE  /\ call[p].at = "mint" /\ Over(p, "failed")
         /\ \E n \in {0, 1} : minted' = [minted EXCEPT ![call[p].up][Due(p)] = minted[call[p].up][Due(p)] + n]
         /\ spoiled' = IF call[p].src # {} \/ minted' # minted THEN spoiled \cup {call[p].up} ELSE spoiled
         /\ UNCHANGED <<remembered, gone, video, lost, torn>>
<1>1. /\ call[p].at = "mint" /\ Moves(p, "failed", {})
      /\ \E n \in {0, 1} : minted' = [minted EXCEPT ![call[p].up][Due(p)] = minted[call[p].up][Due(p)] + n]
      /\ spoiled' = IF call[p].src # {} \/ minted' # minted THEN spoiled \cup {call[p].up} ELSE spoiled
      /\ remembered' = [remembered EXCEPT ![call[p].up] = remembered[call[p].up]]
      /\ UNCHANGED <<gone, video, lost, torn>>
  BY DEF MintFails, Kept
<1>2. remembered' = remembered
  BY <1>1 DEF CallTypes
<1>3. Over(p, "failed")
  BY <1>1, MovesOver
<1> QED BY <1>1, <1>2, <1>3

\* SetUploadTrackURIs writes the tracks, or fails, which spoils the upload.
LEMMA RememberEffect ==
  ASSUME CallTypes, NEW p \in Procs, Remember(p)
  PROVE  /\ call[p].at = "remember" /\ GoesOn(p, "put", call[p].src)
         /\ \/ remembered' = [remembered EXCEPT ![call[p].up] = call[p].src] /\ spoiled' = spoiled
            \/ remembered' = remembered /\ spoiled' = spoiled \cup {call[p].up}
         /\ UNCHANGED <<minted, gone, video, lost, torn>>
<1>1. Moves(p, "put", call[p].src)
  BY DEF Remember
<1>2. GoesOn(p, "put", call[p].src)
  BY <1>1, MovesOn
<1> QED BY <1>2 DEF Remember, Noted, pds

\* putRecord of the video.
LEMMA PutEffect ==
  ASSUME CallTypes, NEW p \in Procs, Put(p)
  PROVE  /\ call[p].at = "put" /\ video' = Published(p)
         /\ (call[p].op = "draft" /\ GoesOn(p, "tidy", {})) \/ (call[p].op # "draft" /\ Over(p, "done"))
         /\ UNCHANGED <<remembered, minted, gone, lost, torn, spoiled>>
<1>1. CASE call[p].op = "draft"
  BY <1>1, MovesOn DEF Put, history
<1>2. CASE call[p].op # "draft"
  BY <1>2, MovesOver DEF Put, history
<1> QED BY <1>1, <1>2

\* putRecord that is refused, or whose answer is lost.
LEMMA PutFailsEffect ==
  ASSUME CallTypes, NEW p \in Procs, PutFails(p)
  PROVE  /\ call[p].at = "put" /\ Over(p, "failed")
         /\ \/ UNCHANGED <<video, lost>>
            \/ video' = Published(p) /\ lost' = Unanswered(p)
         /\ UNCHANGED <<remembered, minted, gone, torn, spoiled>>
BY MovesOver DEF PutFails

\* The end of PublishDraft.
LEMMA TidyEffect ==
  ASSUME CallTypes, NEW p \in Procs, Tidy(p)
  PROVE  /\ call[p].at = "tidy" /\ Over(p, "done")
         /\ UNCHANGED <<remembered, minted, gone, video, lost, torn, spoiled>>
BY MovesOver DEF Tidy, pds, history

\* deleteRecord of a track that fails, after all or not.
LEMMA CutFailsEffect ==
  ASSUME CallTypes, NEW p \in Procs, CutFails(p)
  PROVE  /\ call[p].at = "cut" /\ Over(p, "failed")
         /\ \E applied \in {{}, {NextCut(p)}} :
              /\ gone' = gone \cup applied
              /\ torn' = IF applied \cup call[p].cut = {} THEN torn ELSE torn \cup {call[p].up}
         /\ UNCHANGED <<remembered, minted, video, lost, spoiled>>
<1>1. Over(p, "failed")
  BY MovesOver DEF CutFails
<1> QED BY <1>1 DEF CutFails

\* The end of DeleteVideo.
LEMMA ForgetEffect ==
  ASSUME CallTypes, NEW p \in Procs, Forget(p)
  PROVE  /\ call[p].at = "forget" /\ Over(p, "done")
         /\ \/ remembered' = Forgotten(p) /\ UNCHANGED torn
            \/ remembered' = remembered /\ torn' = torn \cup {call[p].up}
         /\ UNCHANGED <<minted, gone, video, lost, spoiled>>
BY MovesOver DEF Forget, pds

\* The worker stops, in the middle of its call or not.
LEMMA WorkerStopsEffect ==
  ASSUME CallTypes, NEW u \in Uploads, WorkerStops(u)
  PROVE  /\ Over(u, "failed") /\ task' = [task EXCEPT ![u] = "left"]
         /\ task[u] \in {"work", "mark", "publish", "publishing"}
         /\ spoiled' = IF Active(u) /\ call[u].at # "put" /\ call[u].src # {}
                       THEN spoiled \cup {u} ELSE spoiled
         /\ UNCHANGED <<remembered, minted, gone, video, lost, torn>>
<1>1. u \in Procs
  BY DEF Procs
<1> QED BY <1>1, MovesOver DEF WorkerStops, TaskKeeps, pds

\* What the deletion of a track does.
LEMMA CutEffect ==
  ASSUME CallTypes, NEW p \in Procs, Cut(p)
  PROVE  /\ call[p].at = "cut" /\ Alone(p)
         /\ call'[p].op = call[p].op /\ call'[p].up = call[p].up
         /\ call'[p].at = IF call[p].src = {NextCut(p)} THEN "forget" ELSE "cut"
         /\ call'[p].src = call[p].src \ {NextCut(p)} /\ call'[p].cut = call[p].cut \cup {NextCut(p)}
         /\ call'[p].crossed = call[p].crossed
         /\ gone' = gone \cup {NextCut(p)}
         /\ UNCHANGED <<remembered, minted, video, lost, torn, spoiled>>
<1>1. /\ call'[p].op = call[p].op /\ call'[p].up = call[p].up
      /\ call'[p].at = IF call[p].src = {NextCut(p)} THEN "forget" ELSE "cut"
      /\ call'[p].src = call[p].src \ {NextCut(p)} /\ call'[p].cut = call[p].cut \cup {NextCut(p)}
      /\ call'[p].crossed = call[p].crossed
      /\ \A q \in Procs : q # p => call'[q] = call[q]
  BY DEF Cut, CallRecords, CallTypes
<1> QED BY <1>1 DEF Cut, Alone, history

\* The calls keep their types.
LEMMA CallRecordsKept ==
  ASSUME call \in [Procs -> CallRecords], NEW p \in Procs,
         NEW op \in {"none", "video", "draft", "delete"}, NEW u \in Uploads, NEW at \in Ats, NEW src \in SUBSET Tracks
  PROVE  /\ Begin(p, op, u, at, src) => call' \in [Procs -> CallRecords]
         /\ Moves(p, at, src) => call' \in [Procs -> CallRecords]
         /\ call' = [call EXCEPT ![p].at = at] => call' \in [Procs -> CallRecords]
         /\ Cut(p) /\ NextCut(p) \in Tracks => call' \in [Procs -> CallRecords]
<1>1. ASSUME Begin(p, op, u, at, src) PROVE call' \in [Procs -> CallRecords]
  <2> DEFINE r == [op |-> op, up |-> u, at |-> at, src |-> src, cut |-> {}, crossed |-> OthersOn(u) # {}]
             f(q) == IF q = p THEN r ELSE IF q \in OthersOn(u) THEN [call[q] EXCEPT !.crossed = TRUE] ELSE call[q]
  <2>1. call' = [q \in Procs |-> f(q)]
    BY <1>1 DEF Begin, OthersOn
  <2>2. r \in CallRecords
    BY DEF CallRecords
  <2>3. \A q \in Procs : [call[q] EXCEPT !.crossed = TRUE] \in CallRecords
    BY DEF CallRecords
  <2> HIDE DEF r
  <2> QED BY <2>1, <2>2, <2>3
<1>2. ASSUME Moves(p, at, src) PROVE call' \in [Procs -> CallRecords]
  <2> DEFINE b == call[p].crossed /\ at \notin {"done", "failed"}
             c1 == [call EXCEPT ![p].at = at]
             c2 == [c1 EXCEPT ![p].src = src]
             c3 == [c2 EXCEPT ![p].cut = {}]
             c4 == [c3 EXCEPT ![p].crossed = b]
  <2>1. b \in BOOLEAN
    OBVIOUS
  <2>2. call' = [call EXCEPT ![p].at = at, ![p].src = src, ![p].cut = {}, ![p].crossed = b]
    BY <1>2 DEF Moves
  <2> HIDE DEF b
  <2>3. call' = c4
    BY <2>2
  <2>4. c1 \in [Procs -> CallRecords]
    BY DEF CallRecords
  <2> HIDE DEF c1
  <2>5. c2 \in [Procs -> CallRecords]
    BY <2>4 DEF CallRecords
  <2> HIDE DEF c2
  <2>6. c3 \in [Procs -> CallRecords]
    BY <2>5 DEF CallRecords
  <2> HIDE DEF c3
  <2>7. c4 \in [Procs -> CallRecords]
    BY <2>1, <2>6 DEF CallRecords
  <2> QED BY <2>3, <2>7
<1>3. ASSUME call' = [call EXCEPT ![p].at = at] PROVE call' \in [Procs -> CallRecords]
  BY <1>3 DEF CallRecords
<1>4. ASSUME Cut(p), NextCut(p) \in Tracks PROVE call' \in [Procs -> CallRecords]
  <2> DEFINE t == NextCut(p)
             b == IF call[p].src = {t} THEN "forget" ELSE "cut"
             s1 == call[p].src \ {t}
             s2 == call[p].cut \cup {t}
             c1 == [call EXCEPT ![p].src = s1]
             c2 == [c1 EXCEPT ![p].cut = s2]
             c3 == [c2 EXCEPT ![p].at = b]
  <2>1. b \in Ats
    BY DEF Ats
  <2>2. call' = [call EXCEPT ![p].src = s1, ![p].cut = s2, ![p].at = b]
    BY <1>4 DEF Cut
  <2>3. s1 \in SUBSET Tracks /\ s2 \in SUBSET Tracks
    BY <1>4 DEF CallRecords
  <2> HIDE DEF b, t, s1, s2
  <2>4. call' = c3
    BY <2>2
  <2>5. c1 \in [Procs -> CallRecords]
    BY <2>3 DEF CallRecords
  <2> HIDE DEF c1
  <2>6. c2 \in [Procs -> CallRecords]
    BY <2>3, <2>5 DEF CallRecords
  <2> HIDE DEF c2
  <2>7. c3 \in [Procs -> CallRecords]
    BY <2>1, <2>6 DEF CallRecords
  <2> QED BY <2>4, <2>7
<1> QED BY <1>1, <1>2, <1>3, <1>4

\* A whole set of tracks of an upload, and the part of one that is minted first.
Whole(u, S) == \E a, b \in Nat : S = {Track(u, "video", a), Track(u, "audio", b)}
Part(u, S) == S = {} \/ \E a \in Nat : S = {Track(u, "video", a)}

\* Tracks are remembered, published and put in whole sets of one upload.
WholeInv ==
  /\ \A v \in video : Whole(v.up, v.source)
  /\ \A u \in Uploads : remembered[u] = {} \/ Whole(u, remembered[u])
  /\ \A p \in Procs : call[p].at \in {"remember", "put"} => Whole(call[p].up, call[p].src)
  /\ \A p \in Procs : call[p].at = "mint" => Part(call[p].up, call[p].src)

\* A call's tracks are its upload's; a publish is a publish, and a deletion has
\* tracks left to delete.
OwnInv ==
  /\ \A p \in Procs : \A t \in call[p].src \cup call[p].cut : t.up = call[p].up
  /\ \A p \in Procs : call[p].at \in {"mint", "remember", "put"} => call[p].op \in {"video", "draft"}
  /\ \A p \in Procs : call[p].at = "cut" => call[p].src # {}

\* A worker's call publishes the video of its own upload, while its task waits.
WorkerInv ==
  /\ \A u \in Uploads : Active(u) => call[u].up = u /\ task[u] = "publishing"
  /\ \A u \in Uploads : call[u].at \in {"idle", "mint", "remember", "put", "done", "failed"}
  /\ \A u \in Uploads : call[u].op \in {"none", "video"}
  /\ \A u \in Uploads : task[u] = "publish" => call[u].at = "idle"

BasicInv == CallTypes /\ WholeInv /\ OwnInv /\ WorkerInv

\* The steps of BasicInv's states, by what they do to the calls.
CallKinds ==
  \/ UNCHANGED CallSide
  \/ \E p \in Procs, u \in Uploads, op \in {"video", "draft"} :
       PublishBegins(p, op, u) /\ (p \in Calls \/ (p = u /\ op = "video"))
  \/ \E c \in Calls, v \in video : DeleteBegins(c, v)
  \/ \E p \in Procs :
       \/ Mint(p) \/ Remember(p) \/ Put(p) \/ Tidy(p) \/ Cut(p) \/ Forget(p)
       \/ MintFails(p) \/ PutFails(p) \/ CutFails(p)
  \/ \E u \in Uploads : WorkerStops(u)

\* Every step is of one of these kinds.
LEMMA EveryCallKind ==
  ASSUME WorkerInv, [Next]_vars
  PROVE  CallKinds
<1>0. Calls \subseteq Procs /\ Uploads \subseteq Procs
  BY DEF Procs
<1>1. ASSUME NEW c \in Calls, NEW u \in Uploads, AskPublishVideo(c, u)
      PROVE  PublishBegins(c, "video", u)
  BY <1>1 DEF AskPublishVideo, PublishBegins, Active, pds
<1>2. ASSUME NEW c \in Calls, NEW u \in Uploads, AskPublishDraft(c, u)
      PROVE  PublishBegins(c, "draft", u)
  BY <1>2 DEF AskPublishDraft, PublishBegins, Active, pds
<1>3. ASSUME NEW c \in Calls, AskDeleteVideo(c)
      PROVE  \E v \in video : DeleteBegins(c, v)
  BY <1>3 DEF AskDeleteVideo, DeleteBegins, Active, history
<1>4. ASSUME NEW u \in Uploads, PublishStarts(u)
      PROVE  PublishBegins(u, "video", u)
  BY <1>4 DEF PublishStarts, PublishBegins, Active, WorkerInv, TaskKeeps, pds
<1>5. CASE UNCHANGED CallSide
  BY <1>5 DEF CallKinds
<1>6. CASE CallMoves
  <2>1. CASE \E c \in Calls, u \in Uploads : AskPublishVideo(c, u) \/ AskPublishDraft(c, u)
    BY <1>0, <1>1, <1>2, <2>1 DEF CallKinds
  <2>2. CASE \E c \in Calls : AskDeleteVideo(c)
    BY <1>3, <2>2 DEF CallKinds
  <2>3. CASE \E p \in Procs :
               \/ Mint(p) \/ Remember(p) \/ Put(p) \/ Tidy(p) \/ Cut(p) \/ Forget(p)
               \/ MintFails(p) \/ PutFails(p) \/ CutFails(p)
    BY <2>3 DEF CallKinds
  <2>4. CASE \E u \in Uploads : PublishStarts(u) \/ WorkerStops(u)
    BY <1>0, <1>4, <2>4 DEF CallKinds
  <2> QED BY <1>6, <2>1, <2>2, <2>3, <2>4 DEF CallMoves
<1> QED BY <1>5, <1>6, CallSideSteps

\* What the beginning of a publish does.
LEMMA PublishBeginsEffect ==
  ASSUME CallTypes, NEW p \in Procs, NEW u \in Uploads, NEW op \in {"video", "draft"}, PublishBegins(p, op, u)
  PROVE  /\ ~Active(p) /\ call[p].at = "idle"
         /\ call'[p].op = op /\ call'[p].up = u /\ call'[p].src = remembered[u] /\ call'[p].cut = {}
         /\ call'[p].at = IF remembered[u] = {} THEN "mint" ELSE "put"
         /\ call'[p].crossed = (OthersOn(u) # {})
         /\ \A q \in Procs : q # p => Undisturbed(q)
         /\ \A q \in Procs : q \in OthersOn(u) => call'[q].crossed /\ q # p
         /\ spoiled' = IF OthersOn(u) # {} THEN spoiled \cup {u} ELSE spoiled
         /\ UNCHANGED <<remembered, minted, gone, video, lost, torn>>
<1> DEFINE at == IF remembered[u] = {} THEN "mint" ELSE "put"
           src == remembered[u]
<1>1. /\ ~Active(p) /\ call[p].at = "idle" /\ Begin(p, op, u, at, src)
      /\ UNCHANGED <<remembered, minted, gone, video>>
  BY DEF PublishBegins, BeginPublish, Active
<1>2. call \in [Procs -> CallRecords]
  BY DEF CallTypes
<1> HIDE DEF at, src
<1>3. /\ call'[p] = [op |-> op, up |-> u, at |-> at, src |-> src, cut |-> {}, crossed |-> OthersOn(u) # {}]
      /\ \A q \in Procs : q # p => Undisturbed(q)
      /\ \A q \in Procs : q \in OthersOn(u) => call'[q].crossed /\ q # p
      /\ spoiled' = IF OthersOn(u) # {} \/ op = "delete" THEN spoiled \cup {u} ELSE spoiled
      /\ UNCHANGED <<lost, torn>>
  BY <1>1, <1>2, BeginEffect
<1>4. /\ call'[p].op = op /\ call'[p].up = u /\ call'[p].src = src /\ call'[p].cut = {}
      /\ call'[p].at = at /\ call'[p].crossed = (OthersOn(u) # {})
  BY <1>3
<1> QED BY <1>1, <1>3, <1>4 DEF at, src

\* What the beginning of a deletion does.
LEMMA DeleteBeginsEffect ==
  ASSUME CallTypes, NEW c \in Calls, NEW v \in video, DeleteBegins(c, v)
  PROVE  /\ c \in Procs /\ ~Active(c) /\ call[c].at = "idle" /\ video' = video \ {v}
         /\ \/ /\ call'[c].op = "delete" /\ call'[c].up = v.up /\ call'[c].at = "cut"
               /\ call'[c].src = v.source /\ call'[c].cut = {}
               /\ call'[c].crossed = (OthersOn(v.up) # {})
               /\ \A q \in Procs : q # c => Undisturbed(q)
               /\ \A q \in Procs : q \in OthersOn(v.up) => call'[q].crossed /\ q # c
               /\ spoiled' = spoiled \cup {v.up}
            \/ /\ call' = [call EXCEPT ![c].at = "done"]
               /\ spoiled' = spoiled
         /\ UNCHANGED <<remembered, minted, gone, lost, torn>>
<1>1. c \in Procs
  BY DEF Procs
<1>2. call \in [Procs -> CallRecords] /\ v.up \in Uploads
  BY DEF CallTypes
<1>3. CASE Begin(c, "delete", v.up, "cut", v.source)
  <2>0. ~Active(c)
    BY DEF DeleteBegins, Active
  <2> DEFINE w == v.up
             s == v.source
  <2>1. Begin(c, "delete", w, "cut", s) /\ w \in Uploads
    BY <1>2, <1>3
  <2> HIDE DEF w, s
  <2>2. /\ call'[c] = [op |-> "delete", up |-> w, at |-> "cut", src |-> s, cut |-> {}, crossed |-> OthersOn(w) # {}]
        /\ \A q \in Procs : q # c => Undisturbed(q)
        /\ \A q \in Procs : q \in OthersOn(w) => call'[q].crossed /\ q # c
        /\ spoiled' = IF OthersOn(w) # {} \/ "delete" = "delete" THEN spoiled \cup {w} ELSE spoiled
        /\ UNCHANGED <<lost, torn>>
    BY <1>1, <1>2, <2>0, <2>1, BeginEffect
  <2>3. /\ call'[c].op = "delete" /\ call'[c].up = w /\ call'[c].at = "cut"
        /\ call'[c].src = s /\ call'[c].cut = {} /\ call'[c].crossed = (OthersOn(w) # {})
        /\ spoiled' = spoiled \cup {w}
    BY <2>2
  <2> QED BY <1>1, <2>0, <2>2, <2>3 DEF w, s, DeleteBegins
<1>4. CASE call' = [call EXCEPT ![c].at = "done"] /\ UNCHANGED <<lost, torn, spoiled>>
  BY <1>1, <1>4 DEF DeleteBegins, Active
<1> QED BY <1>3, <1>4 DEF DeleteBegins

\* The calls, the tracks and the videos keep their types.
LEMMA CallTypesStep ==
  ASSUME CallTypes, OwnInv, CallKinds
  PROVE  CallTypes'
<1>0. Calls \subseteq Procs /\ Uploads \subseteq Procs /\ {} \in SUBSET Tracks /\ {"done", "failed", "put", "tidy"} \subseteq Ats
  BY DEF Procs, Ats
<1>1. CASE UNCHANGED CallSide
  BY <1>1 DEF CallSide, CallTypes
<1>2. ASSUME NEW p \in Procs, NEW u \in Uploads, NEW op \in {"video", "draft"}, PublishBegins(p, op, u)
      PROVE  CallTypes'
  <2> DEFINE at == IF remembered[u] = {} THEN "mint" ELSE "put"
             src == remembered[u]
  <2>1. Begin(p, op, u, at, src) /\ at \in Ats /\ src \in SUBSET Tracks
    BY <1>2 DEF PublishBegins, BeginPublish, CallTypes, Ats
  <2> HIDE DEF at, src
  <2>2. call' \in [Procs -> CallRecords]
    BY <2>1, CallRecordsKept DEF CallTypes
  <2> QED BY <1>2, <2>2, PublishBeginsEffect DEF CallTypes
<1>3. ASSUME NEW c \in Calls, NEW v \in video, DeleteBegins(c, v) PROVE CallTypes'
  <2>1. call' \in [Procs -> CallRecords]
    <3> DEFINE w == v.up
               s == v.source
               at == "cut"
    <3>1. c \in Procs /\ w \in Uploads /\ s \in SUBSET Tracks /\ at \in Ats
      BY <1>0 DEF CallTypes, Ats
    <3>2. Begin(c, "delete", w, at, s) \/ call' = [call EXCEPT ![c].at = "done"]
      BY <1>3 DEF DeleteBegins
    <3> HIDE DEF w, s, at
    <3>3. CASE Begin(c, "delete", w, at, s)
      BY <3>1, <3>3, CallRecordsKept DEF CallTypes
    <3>4. CASE call' = [call EXCEPT ![c].at = "done"]
      BY <1>0, <3>1, <3>4, CallRecordsKept DEF CallTypes
    <3> QED BY <3>2, <3>3, <3>4
  <2> QED BY <1>3, <2>1, DeleteBeginsEffect DEF CallTypes
<1>4. ASSUME NEW p \in Procs, NEW at \in {"done", "failed", "put", "tidy"}, NEW src \in SUBSET Tracks, Moves(p, at, src)
      PROVE  call' \in [Procs -> CallRecords]
  <2>1. at \in Ats /\ "none" \in {"none", "video", "draft", "delete"} /\ AutoUpload \in Uploads
    BY DEF Ats, Uploads
  <2>2. call \in [Procs -> CallRecords]
    BY DEF CallTypes
  <2> QED BY <1>4, <2>1, <2>2, CallRecordsKept
<1>5. ASSUME NEW p \in Procs, Mint(p) PROVE CallTypes'
  <2> DEFINE k == Due(p)
             w == call[p].up
             at == IF k = "audio" THEN "remember" ELSE "mint"
             src == call[p].src \cup {Track(w, k, minted[w][k] + 1)}
  <2>1. w \in Uploads /\ k \in Kinds /\ at \in Ats
    BY DEF CallTypes, CallRecords, Due, Kinds, Ats
  <2>2. minted[w][k] \in Nat
    BY <2>1 DEF CallTypes
  <2>3. src \in SUBSET Tracks
    BY <2>1, <2>2 DEF Tracks, Track, CallTypes, CallRecords
  <2>4. Moves(p, at, src)
    BY <1>5 DEF Mint
  <2> HIDE DEF at, src
  <2>5. call' \in [Procs -> CallRecords]
    BY <2>1, <2>3, <2>4, CallRecordsKept DEF CallTypes
  <2>6. minted' = [minted EXCEPT ![w][k] = minted[w][k] + 1] /\ UNCHANGED <<remembered, gone, video, lost>>
    BY <1>5, MintEffect
  <2>7. minted' \in [Uploads -> [Kinds -> Nat]]
    BY <2>1, <2>2, <2>6 DEF CallTypes
  <2> QED BY <2>5, <2>6, <2>7 DEF CallTypes
<1>6. ASSUME NEW p \in Procs, MintFails(p) PROVE CallTypes'
  <2> DEFINE k == Due(p)
             w == call[p].up
  <2>1. w \in Uploads /\ k \in Kinds
    BY DEF CallTypes, CallRecords, Due, Kinds
  <2>2. minted[w][k] \in Nat
    BY <2>1 DEF CallTypes
  <2>3. Moves(p, "failed", {})
    BY <1>6 DEF MintFails
  <2>4. call' \in [Procs -> CallRecords]
    BY <1>0, <1>4, <2>3
  <2>5. PICK n \in {0, 1} : minted' = [minted EXCEPT ![w][k] = minted[w][k] + n]
    BY <1>6, MintFailsEffect
  <2>6. minted' \in [Uploads -> [Kinds -> Nat]]
    BY <2>1, <2>2, <2>5 DEF CallTypes
  <2>7. UNCHANGED <<remembered, gone, video, lost>>
    BY <1>6, MintFailsEffect
  <2> QED BY <2>4, <2>6, <2>7 DEF CallTypes
<1>7. ASSUME NEW p \in Procs, Remember(p) PROVE CallTypes'
  <2> DEFINE s == call[p].src
             w == call[p].up
  <2>1. s \in SUBSET Tracks /\ w \in Uploads
    BY DEF CallTypes, CallRecords
  <2>2. Moves(p, "put", s)
    BY <1>7 DEF Remember
  <2>3. remembered' = [remembered EXCEPT ![w] = s] \/ remembered' = remembered
    BY <1>7, RememberEffect
  <2>4. UNCHANGED <<minted, gone, video, lost>>
    BY <1>7, RememberEffect
  <2> HIDE DEF s, w
  <2>5. call' \in [Procs -> CallRecords]
    BY <1>0, <1>4, <2>1, <2>2
  <2> QED BY <2>1, <2>3, <2>4, <2>5 DEF CallTypes
<1>8. ASSUME NEW p \in Procs PROVE Published(p) \subseteq [key : Procs \X {"draft", "tid"}, up : Uploads, source : SUBSET Tracks]
  BY <1>0 DEF CallTypes, CallRecords, Published, Key
<1>9. ASSUME NEW p \in Procs, Put(p) PROVE CallTypes'
  <2>1. Moves(p, "tidy", {}) \/ Moves(p, "done", {})
    BY <1>9 DEF Put
  <2>2. call' \in [Procs -> CallRecords]
    BY <1>0, <1>4, <2>1
  <2> QED BY <1>8, <1>9, <2>2, PutEffect DEF CallTypes
<1>10. ASSUME NEW p \in Procs, PutFails(p) PROVE CallTypes'
  <2>1. Moves(p, "failed", {})
    BY <1>10 DEF PutFails
  <2>2. call' \in [Procs -> CallRecords]
    BY <1>0, <1>4, <2>1
  <2>4. video' = video \/ video' = Published(p)
    BY <1>10, PutFailsEffect
  <2>5. lost' = lost \/ lost' = Unanswered(p)
    BY <1>10, PutFailsEffect
  <2>6. lost' \in [Uploads -> Nat]
    BY <2>5 DEF CallTypes, Unanswered
  <2>7. UNCHANGED <<remembered, minted, gone>>
    BY <1>10, PutFailsEffect
  <2> QED BY <1>8, <2>2, <2>4, <2>6, <2>7 DEF CallTypes
<1>11. ASSUME NEW p \in Procs, Tidy(p) PROVE CallTypes'
  <2>1. Moves(p, "done", {})
    BY <1>11 DEF Tidy
  <2>2. call' \in [Procs -> CallRecords]
    BY <1>0, <1>4, <2>1
  <2> QED BY <1>11, <2>2, TidyEffect DEF CallTypes
<1>12. ASSUME NEW p \in Procs, call[p].at = "cut" PROVE NextCut(p) \in Tracks
  <2>1. NextCut(p) \in call[p].src
    BY <1>12, CutExists DEF OwnInv
  <2> QED BY <2>1 DEF CallTypes, CallRecords
<1>13. ASSUME NEW p \in Procs, Cut(p) PROVE CallTypes'
  <2>1. NextCut(p) \in Tracks
    BY <1>12, <1>13 DEF Cut
  <2>2. AutoUpload \in Uploads
    BY DEF Uploads
  <2>3. call' \in [Procs -> CallRecords]
    BY <1>0, <1>13, <2>1, <2>2, CallRecordsKept DEF CallTypes
  <2>4. gone' = gone \cup {NextCut(p)} /\ UNCHANGED <<remembered, minted, video, lost>>
    BY <1>13, CutEffect
  <2> QED BY <2>1, <2>3, <2>4 DEF CallTypes
<1>14. ASSUME NEW p \in Procs, CutFails(p) PROVE CallTypes'
  <2>1. NextCut(p) \in Tracks
    BY <1>12, <1>14 DEF CutFails
  <2>2. Moves(p, "failed", {})
    BY <1>14 DEF CutFails
  <2>3. call' \in [Procs -> CallRecords]
    BY <1>0, <1>4, <2>2
  <2>4. gone' \subseteq gone \cup {NextCut(p)}
    BY <1>14, CutFailsEffect
  <2>5. UNCHANGED <<remembered, minted, video, lost>>
    BY <1>14, CutFailsEffect
  <2> QED BY <2>1, <2>3, <2>4, <2>5 DEF CallTypes
<1>15. ASSUME NEW p \in Procs, Forget(p) PROVE CallTypes'
  <2>1. Moves(p, "done", {})
    BY <1>15 DEF Forget
  <2>2. call' \in [Procs -> CallRecords]
    BY <1>0, <1>4, <2>1
  <2>3. Forgotten(p) \in [Uploads -> SUBSET Tracks]
    BY DEF Forgotten, CallTypes
  <2> QED BY <1>15, <2>2, <2>3, ForgetEffect DEF CallTypes
<1>16. ASSUME NEW u \in Uploads, WorkerStops(u) PROVE CallTypes'
  <2>1. Moves(u, "failed", {}) /\ u \in Procs
    BY <1>0, <1>16 DEF WorkerStops
  <2>2. call' \in [Procs -> CallRecords]
    BY <1>0, <1>4, <2>1
  <2> QED BY <1>16, <2>2, WorkerStopsEffect DEF CallTypes
<1> QED
  BY <1>1, <1>2, <1>3, <1>5, <1>6, <1>7, <1>9, <1>10, <1>11, <1>13, <1>14, <1>15, <1>16 DEF CallKinds

\* No step publishes, remembers or puts anything but whole sets.
LEMMA WholeStep ==
  ASSUME CallTypes, WholeInv, CallKinds
  PROVE  WholeInv'
<1>0. Calls \subseteq Procs /\ Uploads \subseteq Procs
  BY DEF Procs
<1>1. CASE UNCHANGED CallSide
  BY <1>1 DEF CallSide, WholeInv
<1>2. ASSUME NEW p \in Procs, NEW u \in Uploads, NEW op \in {"video", "draft"}, PublishBegins(p, op, u)
      PROVE  WholeInv'
  <2>1. /\ UNCHANGED <<video, remembered>>
        /\ call'[p].up = u /\ call'[p].src = remembered[u]
        /\ call'[p].at = IF remembered[u] = {} THEN "mint" ELSE "put"
        /\ \A q \in Procs : q # p => Undisturbed(q)
    BY <1>2, PublishBeginsEffect
  <2> QED BY <2>1 DEF WholeInv, Part, Undisturbed
<1>3. ASSUME NEW c \in Calls, NEW v \in video, DeleteBegins(c, v) PROVE WholeInv'
  <2>1. c \in Procs /\ video' \subseteq video /\ remembered' = remembered
    BY <1>3, DeleteBeginsEffect
  <2>2. call'[c].at \in {"cut", "done"} /\ \A q \in Procs : q # c => Undisturbed(q)
    BY <1>0, <1>3, DeleteBeginsEffect DEF CallTypes, CallRecords, Undisturbed
  <2> QED BY <2>1, <2>2 DEF WholeInv, Undisturbed
<1>4. ASSUME NEW p \in Procs, Alone(p), video' = video, remembered' = remembered,
             call'[p].at \in {"remember", "put"} => Whole(call'[p].up, call'[p].src),
             call'[p].at = "mint" => Part(call'[p].up, call'[p].src)
      PROVE  WholeInv'
  BY <1>4 DEF Alone, WholeInv
<1>5. ASSUME NEW p \in Procs, Mint(p) PROVE WholeInv'
  <2> DEFINE w == call[p].up
             n == minted[w][Due(p)] + 1
  <2>1. /\ call[p].at = "mint" /\ Alone(p) /\ UNCHANGED <<remembered, video>> /\ call'[p].up = w
        /\ call'[p].at = IF Due(p) = "audio" THEN "remember" ELSE "mint"
        /\ call'[p].src = call[p].src \cup {Track(w, Due(p), n)}
    BY <1>5, MintEffect DEF GoesOn
  <2>2. n \in Nat
    BY DEF CallTypes, CallRecords, Due, Kinds
  <2> HIDE DEF n, w
  <2>3. Part(w, call[p].src)
    BY <2>1 DEF WholeInv, w
  <2>4. CASE call[p].src = {}
    <3>1. Due(p) = "video" /\ call'[p].src = {Track(w, "video", n)}
      BY <2>1, <2>4 DEF Due
    <3>2. Part(w, call'[p].src)
      BY <2>2, <3>1 DEF Part
    <3> QED BY <1>4, <2>1, <3>1, <3>2
  <2>5. CASE call[p].src # {}
    <3>1. PICK a \in Nat : call[p].src = {Track(w, "video", a)}
      BY <2>3, <2>5 DEF Part
    <3>2. Due(p) = "audio" /\ call'[p].src = {Track(w, "video", a), Track(w, "audio", n)}
      BY <2>1, <2>5, <3>1 DEF Due
    <3>3. Whole(w, call'[p].src)
      BY <2>2, <3>2 DEF Whole
    <3> QED BY <1>4, <2>1, <3>2, <3>3
  <2> QED BY <2>4, <2>5
<1>6. ASSUME NEW p \in Procs, MintFails(p) PROVE WholeInv'
  BY <1>4, <1>6, MintFailsEffect DEF Over
<1>7. ASSUME NEW p \in Procs, Remember(p) PROVE WholeInv'
  <2>1. /\ Alone(p) /\ call'[p].at = "put" /\ call'[p].up = call[p].up /\ call'[p].src = call[p].src
        /\ call[p].at = "remember" /\ video' = video
        /\ remembered' = [remembered EXCEPT ![call[p].up] = call[p].src] \/ remembered' = remembered
    BY <1>7, RememberEffect DEF GoesOn
  <2>2. Whole(call[p].up, call[p].src)
    BY <2>1 DEF WholeInv
  <2>3. \A u \in Uploads : remembered'[u] = {} \/ Whole(u, remembered'[u])
    BY <2>1, <2>2 DEF CallTypes, WholeInv
  <2> QED BY <2>1, <2>2, <2>3 DEF Alone, WholeInv
<1>8. ASSUME NEW p \in Procs, call[p].at = "put" PROVE \A v \in Published(p) : Whole(v.up, v.source)
  BY <1>8 DEF Published, WholeInv
<1>9. ASSUME NEW p \in Procs, Put(p) PROVE WholeInv'
  <2>1. /\ Alone(p) /\ call'[p].at \in {"tidy", "done"} /\ remembered' = remembered
        /\ call[p].at = "put" /\ video' = Published(p)
    BY <1>9, PutEffect DEF GoesOn, Over
  <2> QED BY <1>8, <2>1 DEF Alone, WholeInv
<1>10. ASSUME NEW p \in Procs, PutFails(p) PROVE WholeInv'
  <2>1. /\ Alone(p) /\ call'[p].at = "failed" /\ remembered' = remembered
        /\ call[p].at = "put" /\ (video' = Published(p) \/ video' = video)
    BY <1>10, PutFailsEffect DEF Over
  <2> QED BY <1>8, <2>1 DEF Alone, WholeInv
<1>11. ASSUME NEW p \in Procs, Tidy(p) PROVE WholeInv'
  BY <1>4, <1>11, TidyEffect DEF Over
<1>12. ASSUME NEW p \in Procs, Cut(p) PROVE WholeInv'
  <2>1. Alone(p) /\ call'[p].at \in {"cut", "forget"} /\ UNCHANGED <<video, remembered>>
    BY <1>12, CutEffect
  <2> QED BY <1>4, <2>1
<1>13. ASSUME NEW p \in Procs, CutFails(p) PROVE WholeInv'
  BY <1>4, <1>13, CutFailsEffect DEF Over
<1>14. ASSUME NEW p \in Procs, Forget(p) PROVE WholeInv'
  <2>1. Alone(p) /\ call'[p].at = "done" /\ video' = video /\ (remembered' = Forgotten(p) \/ remembered' = remembered)
    BY <1>14, ForgetEffect DEF Over
  <2>2. \A u \in Uploads : remembered'[u] = {} \/ remembered'[u] = remembered[u]
    BY <2>1 DEF Forgotten
  <2> QED BY <2>1, <2>2 DEF Alone, WholeInv
<1>15. ASSUME NEW u \in Uploads, WorkerStops(u) PROVE WholeInv'
  <2>1. u \in Procs /\ Over(u, "failed") /\ UNCHANGED <<video, remembered>>
    BY <1>0, <1>15, WorkerStopsEffect
  <2> QED BY <1>4, <2>1 DEF Over
<1> QED
  BY <1>1, <1>2, <1>3, <1>5, <1>6, <1>7, <1>9, <1>10, <1>11, <1>12, <1>13, <1>14, <1>15 DEF CallKinds

\* A call's tracks stay its upload's.
LEMMA OwnStep ==
  ASSUME CallTypes, WholeInv, OwnInv, CallKinds
  PROVE  OwnInv'
<1>0. Calls \subseteq Procs /\ Uploads \subseteq Procs
  BY DEF Procs
<1>1. CASE UNCHANGED CallSide
  BY <1>1 DEF CallSide, OwnInv
<1>w. ASSUME NEW u, NEW S, Whole(u, S) PROVE S # {} /\ \A t \in S : t.up = u
  BY <1>w DEF Whole, Track
<1>2. ASSUME NEW p \in Procs, NEW u \in Uploads, NEW op \in {"video", "draft"}, PublishBegins(p, op, u)
      PROVE  OwnInv'
  <2>1. /\ call'[p].op = op /\ call'[p].up = u /\ call'[p].src = remembered[u] /\ call'[p].cut = {}
        /\ call'[p].at # "cut"
        /\ \A q \in Procs : q # p => Undisturbed(q)
    BY <1>2, PublishBeginsEffect
  <2>2. \A t \in remembered[u] : t.up = u
    BY <1>w DEF WholeInv
  <2> QED BY <2>1, <2>2 DEF OwnInv, Undisturbed
<1>3. ASSUME NEW c \in Calls, NEW v \in video, DeleteBegins(c, v) PROVE OwnInv'
  <2>1. v.source # {} /\ \A t \in v.source : t.up = v.up
    BY <1>w DEF WholeInv
  <2>2. CASE /\ call'[c].op = "delete" /\ call'[c].up = v.up /\ call'[c].at = "cut"
             /\ call'[c].src = v.source /\ call'[c].cut = {}
             /\ \A q \in Procs : q # c => Undisturbed(q)
    BY <2>1, <2>2 DEF OwnInv, Undisturbed
  <2>3. CASE call' = [call EXCEPT ![c].at = "done"]
    <3>1. /\ call'[c].src = call[c].src /\ call'[c].cut = call[c].cut /\ call'[c].up = call[c].up
          /\ call'[c].at = "done" /\ Alone(c)
      BY <1>0, <2>3 DEF CallTypes, CallRecords, Alone
    <3> QED BY <3>1 DEF OwnInv, Alone
  <2> QED BY <1>3, <2>2, <2>3, DeleteBeginsEffect
<1>4. ASSUME NEW p \in Procs, Alone(p), \A t \in call'[p].src \cup call'[p].cut : t.up = call'[p].up,
             call'[p].at \in {"mint", "remember", "put"} => call'[p].op \in {"video", "draft"},
             call'[p].at = "cut" => call'[p].src # {}
      PROVE  OwnInv'
  BY <1>4 DEF Alone, OwnInv
<1>5. ASSUME NEW p \in Procs, NEW at, at # "cut", Over(p, at), at \notin {"mint", "remember", "put"} PROVE OwnInv'
  BY <1>4, <1>5 DEF Over
<1>6. ASSUME NEW p \in Procs, Mint(p) PROVE OwnInv'
  <2> DEFINE t0 == Track(call[p].up, Due(p), minted[call[p].up][Due(p)] + 1)
  <2>1. /\ call[p].at = "mint" /\ Alone(p) /\ call'[p].up = call[p].up /\ call'[p].op = call[p].op
        /\ call'[p].at # "cut" /\ call'[p].cut = {} /\ call'[p].src = call[p].src \cup {t0}
    BY <1>6, MintEffect DEF GoesOn
  <2>2. t0.up = call[p].up
    BY DEF Track
  <2> HIDE DEF t0
  <2>3. call[p].op \in {"video", "draft"} /\ \A t \in call[p].src : t.up = call[p].up
    BY <2>1 DEF OwnInv
  <2> QED BY <1>4, <2>1, <2>2, <2>3
<1>7. ASSUME NEW p \in Procs, MintFails(p) PROVE OwnInv'
  BY <1>5, <1>7, MintFailsEffect
<1>8. ASSUME NEW p \in Procs, Remember(p) PROVE OwnInv'
  <2>1. /\ call[p].at = "remember" /\ Alone(p) /\ call'[p].up = call[p].up /\ call'[p].op = call[p].op
        /\ call'[p].at = "put" /\ call'[p].cut = {} /\ call'[p].src = call[p].src
    BY <1>8, RememberEffect DEF GoesOn
  <2>2. call[p].op \in {"video", "draft"} /\ \A t \in call[p].src : t.up = call[p].up
    BY <2>1 DEF OwnInv
  <2> QED BY <1>4, <2>1, <2>2
<1>9. ASSUME NEW p \in Procs, Put(p) PROVE OwnInv'
  <2>1. Alone(p) /\ call'[p].at \in {"tidy", "done"} /\ call'[p].cut = {} /\ call'[p].src = {}
    BY <1>9, PutEffect DEF GoesOn, Over
  <2> QED BY <1>4, <2>1
<1>10. ASSUME NEW p \in Procs, PutFails(p) \/ Tidy(p) \/ CutFails(p) \/ Forget(p) PROVE OwnInv'
  BY <1>5, <1>10, PutFailsEffect, TidyEffect, CutFailsEffect, ForgetEffect
<1>11. ASSUME NEW p \in Procs, Cut(p) PROVE OwnInv'
  <2> DEFINE t0 == NextCut(p)
  <2>0. call[p].at = "cut"
    BY <1>11, CutEffect
  <2>1. t0 \in call[p].src
    BY <2>0, CutExists DEF OwnInv
  <2>2. /\ Alone(p) /\ call'[p].up = call[p].up
        /\ call'[p].at = IF call[p].src = {t0} THEN "forget" ELSE "cut"
        /\ call'[p].src = call[p].src \ {t0} /\ call'[p].cut = call[p].cut \cup {t0}
    BY <1>11, CutEffect
  <2>3. \A t \in call[p].src \cup call[p].cut : t.up = call[p].up
    BY DEF OwnInv
  <2> HIDE DEF t0
  <2>4. call'[p].at = "cut" => call'[p].src # {}
    BY <2>1, <2>2
  <2>5. \A t \in call'[p].src \cup call'[p].cut : t.up = call'[p].up
    BY <2>1, <2>2, <2>3
  <2>6. call'[p].at \notin {"mint", "remember", "put"}
    BY <2>2
  <2> QED BY <1>4, <2>2, <2>4, <2>5, <2>6
<1>12. ASSUME NEW u \in Uploads, WorkerStops(u) PROVE OwnInv'
  BY <1>0, <1>5, <1>12, WorkerStopsEffect
<1> QED
  BY <1>1, <1>2, <1>3, <1>6, <1>7, <1>8, <1>9, <1>10, <1>11, <1>12 DEF CallKinds

\* A worker's call stays that of its task.
LEMMA WorkerStep ==
  ASSUME RowTypes, YieldInv, CallTypes, OwnInv, WorkerInv, [Next]_vars
  PROVE  WorkerInv'
<1>0. /\ AutoUpload \in Uploads /\ (\A h \in Hands : h \in Uploads)
      /\ (\A u \in Uploads : u \in Procs) /\ (\A c \in Calls : c \in Procs /\ c \notin Uploads)
  BY VODAssumption DEF Uploads, Procs
<1>1. ASSUME call' = call,
             \A u \in Uploads : task'[u] = task[u] \/ (~Active(u) /\ (task'[u] = "publish" => call[u].at = "idle"))
      PROVE  WorkerInv'
  <2>1. \A u \in Uploads : Active(u)' <=> Active(u)
    BY <1>1 DEF Active
  <2> QED BY <1>1, <2>1 DEF WorkerInv
<1>2. CASE UNCHANGED vars \/ ObjectCompletes \/ ScheduleAutoPublishVOD
  BY <1>1, <1>2 DEF vars, rows, ObjectCompletes, ScheduleAutoPublishVOD
<1>3. CASE AutoSkips \/ AutoLists \/ AutoLooks \/ AutoStops \/ AutoCreates
  BY <1>1, <1>3 DEF AutoSkips, AutoLists, AutoLooks, AutoStops, AutoCreates, AutoKeeps, rows
<1>4. CASE AutoEnqueues
  <2>1. call' = call /\ task' = [task EXCEPT ![AutoUpload] = IF task[AutoUpload] = "none" THEN "queued" ELSE task[AutoUpload]]
    BY <1>4 DEF AutoEnqueues, AutoKeeps
  <2>2. task[AutoUpload] = "none" => ~Active(AutoUpload)
    BY <1>0 DEF WorkerInv
  <2> QED BY <1>0, <1>1, <2>1, <2>2 DEF RowTypes
<1>5. ASSUME NEW h \in Hands, HandAsks(h) \/ HandStep(h) \/ HandFails(h) PROVE WorkerInv'
  <2>1. call' = call /\ (task' = task \/ (hand[h] = "enqueue" /\ task' = [task EXCEPT ![h] = "queued"]))
    BY <1>5 DEF HandAsks, HandStep, HandCreates, HandDrafts, HandEnqueues, HandFails, HandKeeps, rows
  <2>2. hand[h] = "enqueue" => ~Active(h)
    BY <1>0 DEF YieldInv, WorkerInv
  <2> QED BY <1>0, <1>1, <2>1, <2>2 DEF RowTypes
<1>6. ASSUME NEW c \in Procs, c \notin Uploads, task' = task, \A q \in Procs : q # c => Undisturbed(q)
      PROVE  WorkerInv'
  <2>1. \A u \in Uploads : Undisturbed(u) /\ (Active(u)' <=> Active(u))
    BY <1>0, <1>6 DEF Undisturbed, Active
  <2> QED BY <1>6, <2>1 DEF WorkerInv, Undisturbed
<1>7. ASSUME NEW c \in Calls, NEW u \in Uploads, AskPublishVideo(c, u) \/ AskPublishDraft(c, u) PROVE WorkerInv'
  <2>1. task' = task /\ \E op \in {"video", "draft"} : PublishBegins(c, op, u)
    BY <1>7 DEF AskPublishVideo, AskPublishDraft, PublishBegins, Active, pds
  <2>2. \A q \in Procs : q # c => Undisturbed(q)
    BY <1>0, <2>1, PublishBeginsEffect
  <2> QED BY <1>0, <1>6, <2>1, <2>2
<1>8. ASSUME NEW c \in Calls, AskDeleteVideo(c) PROVE WorkerInv'
  <2>1. task' = task /\ \E v \in video : DeleteBegins(c, v)
    BY <1>8 DEF AskDeleteVideo, DeleteBegins, Active, history
  <2>2. \A q \in Procs : q # c => Undisturbed(q)
    BY <1>0, <2>1, DeleteBeginsEffect DEF CallTypes, Undisturbed
  <2> QED BY <1>0, <1>6, <2>1, <2>2
<1>9. ASSUME NEW p \in Procs, Alone(p), task' = task, Active(p),
             call'[p].op = call[p].op, call'[p].up = call[p].up,
             p \in Uploads => call'[p].at \in {"mint", "remember", "put", "done", "failed"}
      PROVE  WorkerInv'
  <2>1. ASSUME NEW u \in Uploads
        PROVE  /\ Active(u)' => Active(u)
               /\ call'[u].op = call[u].op /\ call'[u].up = call[u].up
               /\ call'[u].at = call[u].at \/ (Active(u) /\ call'[u].at \in {"mint", "remember", "put", "done", "failed"})
    BY <1>0, <1>9 DEF Alone, Active
  <2> QED BY <1>9, <2>1 DEF WorkerInv, Active
<1>10. ASSUME NEW p \in Procs, CallStep(p) \/ MintFails(p) \/ PutFails(p) \/ CutFails(p) PROVE WorkerInv'
  <2>0. task' = task /\ (p \in Uploads => call[p].at \notin {"tidy", "cut", "forget"} /\ call[p].op # "draft")
    BY <1>10, CallSteps DEF WorkerInv
  <2>1. CASE Mint(p)
    BY <1>9, <2>0, <2>1, MintEffect DEF GoesOn, Active
  <2>2. CASE MintFails(p) \/ PutFails(p) \/ CutFails(p) \/ Tidy(p) \/ Forget(p)
    BY <1>9, <2>0, <2>2, MintFailsEffect, PutFailsEffect, CutFailsEffect, TidyEffect, ForgetEffect DEF Over, Active
  <2>3. CASE Remember(p)
    BY <1>9, <2>0, <2>3, RememberEffect DEF GoesOn, Active
  <2>4. CASE Put(p)
    BY <1>9, <2>0, <2>4, PutEffect DEF GoesOn, Over, Active
  <2>5. CASE Cut(p)
    <3>1. call[p].at = "cut" /\ Alone(p) /\ call'[p].op = call[p].op /\ call'[p].up = call[p].up
      BY <2>5, CutEffect
    <3> QED BY <1>9, <2>0, <3>1 DEF Active
  <2> QED BY <1>10, <2>1, <2>2, <2>3, <2>4, <2>5 DEF CallStep
<1>11. ASSUME NEW u \in Uploads, TaskStep(u) PROVE WorkerInv'
  <2>1. CASE FinalizeStarts(u) \/ FinalizeDone(u) \/ FinalizeFails(u)
    <3>1. call' = call /\ task[u] # "publishing" /\ \E x \in {"work", "mark", "completed"} : task' = [task EXCEPT ![u] = x]
      BY <2>1 DEF FinalizeStarts, FinalizeDone, FinalizeFails
    <3>2. ~Active(u)
      BY <3>1 DEF WorkerInv
    <3> QED BY <1>1, <3>1, <3>2 DEF RowTypes
  <2>2. CASE MarkDraftReady(u)
    <3>1. call' = call /\ task[u] # "publishing" /\ \E x \in {"publish", "completed"} :
            task' = [task EXCEPT ![u] = x] /\ (x = "publish" => call[u].at = "idle")
      BY <2>2 DEF MarkDraftReady
    <3>2. ~Active(u)
      BY <3>1 DEF WorkerInv
    <3> QED BY <1>1, <3>1, <3>2 DEF RowTypes
  <2>3. CASE PublishStarts(u)
    <3>1. call[u].at = "idle"
      BY <2>3 DEF PublishStarts, WorkerInv
    <3>2. PublishBegins(u, "video", u) /\ task' = [task EXCEPT ![u] = "publishing"]
      BY <2>3, <3>1 DEF PublishStarts, PublishBegins, Active, TaskKeeps, pds
    <3>3. /\ call'[u].op = "video" /\ call'[u].up = u /\ call'[u].at \in {"mint", "put"}
          /\ \A q \in Procs : q # u => Undisturbed(q)
      BY <1>0, <3>2, PublishBeginsEffect
    <3>4. \A w \in Uploads : w # u => Undisturbed(w) /\ (Active(w)' <=> Active(w)) /\ task'[w] = task[w]
      BY <1>0, <3>2, <3>3 DEF Undisturbed, Active, RowTypes
    <3>5. task'[u] = "publishing"
      BY <3>2 DEF RowTypes
    <3> QED BY <3>3, <3>4, <3>5 DEF WorkerInv, Undisturbed
  <2>4. CASE PublishEnds(u)
    <3>1. call' = call /\ call[u].at \in {"done", "failed"} /\ \E x \in {"mark", "completed"} : task' = [task EXCEPT ![u] = x]
      BY <2>4 DEF PublishEnds, LeaveDraft
    <3>2. ~Active(u)
      BY <3>1 DEF Active
    <3> QED BY <1>1, <3>1, <3>2 DEF RowTypes
  <2> QED BY <1>11, <2>1, <2>2, <2>3, <2>4 DEF TaskStep
<1>12. ASSUME NEW u \in Uploads, WorkerStops(u) PROVE WorkerInv'
  <2>1. Over(u, "failed") /\ task' = [task EXCEPT ![u] = "left"]
    BY <1>12, WorkerStopsEffect
  <2>2. ~Active(u)' /\ task'[u] = "left" /\ call'[u].at = "failed" /\ call'[u].op = call[u].op
    BY <2>1 DEF Over, Active, RowTypes
  <2>3. \A w \in Uploads : w # u => task'[w] = task[w] /\ call'[w] = call[w]
    BY <1>0, <2>1 DEF Over, Alone, RowTypes
  <2>4. \A w \in Uploads : w # u => (Active(w)' <=> Active(w))
    BY <2>3 DEF Active
  <2> QED BY <2>2, <2>3, <2>4 DEF WorkerInv
<1>13. ASSUME NEW u \in Uploads, DeleteDraft(u) PROVE WorkerInv'
  BY <1>1, <1>13 DEF DeleteDraft
<1> QED
  BY <1>2, <1>3, <1>4, <1>5, <1>7, <1>8, <1>10, <1>11, <1>12, <1>13 DEF Next, AutoStep

\* At the start there is no call, no track and no video.
LEMMA BasicInit == Init => BasicInv
<1> SUFFICES ASSUME Init PROVE BasicInv
  OBVIOUS
<1>1. Idle \in CallRecords
  BY DEF Idle, CallRecords, Ats, Uploads
<1>2. /\ call = [p \in Procs |-> Idle] /\ remembered = [u \in Uploads |-> {}]
      /\ minted = [u \in Uploads |-> [k \in Kinds |-> 0]] /\ gone = {} /\ video = {}
      /\ lost = [u \in Uploads |-> 0] /\ task = [u \in Uploads |-> "none"]
  BY DEF Init
<1>3. CallTypes
  BY <1>1, <1>2 DEF CallTypes
<1>4. \A p \in Procs : call[p].at = "idle" /\ call[p].op = "none" /\ call[p].src = {} /\ call[p].cut = {}
  BY <1>2 DEF Idle
<1>5. WholeInv /\ OwnInv
  BY <1>2, <1>4 DEF WholeInv, OwnInv
<1>6. \A u \in Uploads : u \in Procs
  BY DEF Procs
<1>7. WorkerInv
  BY <1>2, <1>4, <1>6 DEF WorkerInv, Active
<1> QED BY <1>3, <1>5, <1>7 DEF BasicInv

\* What is known of the calls, for any requests, uploads and faults.
LEMMA VODBasic == Spec => []BasicInv
<1>1. RowTypes /\ YieldInv /\ BasicInv /\ [Next]_vars => BasicInv'
  BY EveryCallKind, CallTypesStep, WholeStep, OwnStep, WorkerStep DEF BasicInv
<1> QED BY <1>1, BasicInit, VODRowTypes, VODYield, PTL DEF Spec

\* A whole set has a track of each stream, and two tracks.
LEMMA WholeIsBoth ==
  ASSUME NEW u, NEW S, Whole(u, S)
  PROVE  {<<t.up, t.kind>> : t \in S} = {u} \X Kinds /\ Cardinality(S) = Cardinality(Kinds)
<1>1. PICK a \in Nat, b \in Nat : S = {Track(u, "video", a), Track(u, "audio", b)}
  BY DEF Whole
<1>2. {<<t.up, t.kind>> : t \in S} = {u} \X Kinds
  BY <1>1 DEF Track, Kinds
<1>3. Track(u, "video", a) # Track(u, "audio", b)
  BY DEF Track
<1>4. ASSUME NEW x, NEW y, x # y PROVE Cardinality({x, y}) = 2
  <2>1. IsFiniteSet({x}) /\ Cardinality({x}) = 1
    BY FS_Singleton
  <2>2. y \notin {x} /\ {x} \cup {y} = {x, y}
    BY <1>4
  <2> QED BY <2>1, <2>2, FS_AddElement
<1>5. Cardinality(S) = 2 /\ Cardinality(Kinds) = 2
  <2>1. Cardinality({"video", "audio"}) = 2
    BY <1>4
  <2> QED BY <1>1, <1>3, <1>4, <2>1 DEF Kinds
<1> QED BY <1>2, <1>5

\* For any requests, failures and overlaps every video names one track of each
\* stream, all of the upload it was published from (publish_draft.go:237-261).
THEOREM VODSourceIsWhole == Spec => []SourceIsWhole
<1>1. BasicInv => SourceIsWhole
  BY WholeIsBoth DEF BasicInv, WholeInv, SourceIsWhole
<1> QED BY <1>1, VODBasic, PTL

-----------------------------------------------------------------------------
(***************************************************************************)
(* One set of tracks.                                                      *)
(***************************************************************************)
\* Calls that overlap on an upload know it, and have spoiled it.
CrossInv ==
  /\ \A p, q \in Procs : p # q /\ Active(p) /\ Active(q) /\ call[p].up = call[q].up =>
       call[p].crossed /\ call[p].up \in spoiled
  /\ \A p \in Procs : call[p].at \in {"cut", "forget"} => call[p].up \in spoiled

\* As long as an upload is not spoiled it has tracks only if it remembers them
\* or a publish is about to make it do so.
SetInv ==
  \A u \in Uploads : u \notin spoiled =>
    /\ \A k \in Kinds : minted[u][k] <= 1
    /\ \A p \in Procs : call[p].up = u /\ call[p].at = "mint" =>
         /\ minted[u]["audio"] = 0
         /\ call[p].src = {} => minted[u]["video"] = 0
    /\ \/ \E p \in Procs : call[p].up = u /\ call[p].at \in {"mint", "remember"}
       \/ remembered[u] # {}
       \/ \A k \in Kinds : minted[u][k] = 0

\* Overlapping calls go on knowing it.
LEMMA CrossStep ==
  ASSUME BasicInv, CrossInv, CallKinds
  PROVE  CrossInv'
<1> USE DEF BasicInv
<1>0. (\A u \in Uploads : u \in Procs) /\ (\A c \in Calls : c \in Procs)
  BY DEF Procs
<1>1. CASE UNCHANGED CallSide
  <2>1. \A p \in Procs : Active(p)' <=> Active(p)
    BY <1>1 DEF CallSide, Active
  <2> QED BY <1>1, <2>1 DEF CallSide, CrossInv
<1>2. ASSUME NEW p \in Procs, NEW u \in Uploads, ~Active(p), call'[p].up = u,
             call'[p].crossed = (OthersOn(u) # {}),
             \A q \in Procs : q # p => Undisturbed(q),
             \A q \in Procs : q \in OthersOn(u) => call'[q].crossed /\ q # p,
             spoiled \subseteq spoiled', OthersOn(u) # {} => u \in spoiled',
             call'[p].at \in {"cut", "forget"} => u \in spoiled'
      PROVE  CrossInv'
  <2>1. \A q \in Procs : q # p => (Active(q)' <=> Active(q)) /\ call'[q].up = call[q].up /\ call'[q].at = call[q].at
    BY <1>2 DEF Undisturbed, Active
  <2>2. ASSUME NEW q \in Procs, q # p, Active(q)', call'[q].up = u
        PROVE  call'[p].crossed /\ u \in spoiled' /\ call'[q].crossed
    BY <1>2, <2>1, <2>2 DEF OthersOn
  <2>3. ASSUME NEW q \in Procs, NEW r \in Procs, q # p, r # p, q # r, Active(q)', Active(r)', call'[q].up = call'[r].up
        PROVE  call'[q].crossed /\ call'[q].up \in spoiled'
    BY <1>2, <2>1, <2>3 DEF CrossInv, Undisturbed
  <2>4. ASSUME NEW q \in Procs, call'[q].at \in {"cut", "forget"}
        PROVE  call'[q].up \in spoiled'
    BY <1>2, <2>1, <2>4 DEF CrossInv
  <2>5. ASSUME NEW q \in Procs, NEW r \in Procs, q # r, Active(q)', Active(r)', call'[q].up = call'[r].up
        PROVE  call'[q].crossed /\ call'[q].up \in spoiled'
    BY <1>2, <2>2, <2>3, <2>5
  <2> QED BY <2>4, <2>5 DEF CrossInv
<1>3. ASSUME NEW p \in Procs, Alone(p), spoiled \subseteq spoiled', call'[p].up = call[p].up,
             call'[p].at \in {"cut", "forget"} => call[p].at \in {"cut", "forget"},
             Active(p)' => Active(p) /\ call'[p].crossed = call[p].crossed
      PROVE  CrossInv'
  <2>1. \A q \in Procs : Active(q)' => Active(q) /\ call'[q].crossed = call[q].crossed
    BY <1>3 DEF Alone, Active
  <2>2. \A q \in Procs : call'[q].up = call[q].up /\ (call'[q].at \in {"cut", "forget"} => call[q].at \in {"cut", "forget"})
    BY <1>3 DEF Alone
  <2> QED BY <1>3, <2>1, <2>2 DEF CrossInv
<1>4. ASSUME NEW p \in Procs, NEW u \in Uploads, NEW op \in {"video", "draft"}, PublishBegins(p, op, u)
      PROVE  CrossInv'
  <2>1. /\ ~Active(p) /\ call'[p].up = u /\ call'[p].crossed = (OthersOn(u) # {})
        /\ call'[p].at \notin {"cut", "forget"}
        /\ \A q \in Procs : q # p => Undisturbed(q)
        /\ \A q \in Procs : q \in OthersOn(u) => call'[q].crossed /\ q # p
        /\ spoiled' = IF OthersOn(u) # {} THEN spoiled \cup {u} ELSE spoiled
    BY <1>4, PublishBeginsEffect
  <2> QED BY <1>2, <2>1
<1>5. ASSUME NEW c \in Calls, NEW v \in video, DeleteBegins(c, v) PROVE CrossInv'
  <2>1. v.up \in Uploads /\ c \in Procs /\ ~Active(c)
    BY <1>5, DeleteBeginsEffect DEF CallTypes
  <2>2. CASE /\ call'[c].op = "delete" /\ call'[c].up = v.up /\ call'[c].at = "cut"
             /\ call'[c].crossed = (OthersOn(v.up) # {})
             /\ \A q \in Procs : q # c => Undisturbed(q)
             /\ \A q \in Procs : q \in OthersOn(v.up) => call'[q].crossed /\ q # c
             /\ spoiled' = spoiled \cup {v.up}
    BY <1>2, <2>1, <2>2
  <2>3. CASE call' = [call EXCEPT ![c].at = "done"] /\ spoiled' = spoiled
    <3>1. Alone(c) /\ call'[c].up = call[c].up /\ call'[c].at = "done"
      BY <2>1, <2>3 DEF Alone, CallTypes, CallRecords
    <3> QED BY <1>3, <2>1, <2>3, <3>1 DEF Active
  <2> QED BY <1>5, <2>2, <2>3, DeleteBeginsEffect
<1>6. ASSUME NEW p \in Procs, NEW at \in {"done", "failed"}, Over(p, at), spoiled \subseteq spoiled' PROVE CrossInv'
  BY <1>3, <1>6 DEF Over, Active
<1>7. ASSUME NEW p \in Procs, Mint(p) PROVE CrossInv'
  BY <1>3, <1>7, MintEffect DEF GoesOn, Active
<1>8. ASSUME NEW p \in Procs, Remember(p) PROVE CrossInv'
  BY <1>3, <1>8, RememberEffect DEF GoesOn, Active
<1>9. ASSUME NEW p \in Procs, Put(p) PROVE CrossInv'
  BY <1>3, <1>6, <1>9, PutEffect DEF GoesOn, Active
<1>10. ASSUME NEW p \in Procs, MintFails(p) PROVE CrossInv'
  BY <1>6, <1>10, MintFailsEffect
<1>11. ASSUME NEW p \in Procs, PutFails(p) \/ Tidy(p) \/ CutFails(p) \/ Forget(p) PROVE CrossInv'
  BY <1>6, <1>11, PutFailsEffect, TidyEffect, CutFailsEffect, ForgetEffect
<1>12. ASSUME NEW p \in Procs, Cut(p) PROVE CrossInv'
  <2>1. /\ call[p].at = "cut" /\ Alone(p) /\ call'[p].up = call[p].up /\ call'[p].crossed = call[p].crossed
        /\ spoiled' = spoiled
    BY <1>12, CutEffect
  <2> QED BY <1>3, <2>1 DEF Active
<1>13. ASSUME NEW u \in Uploads, WorkerStops(u) PROVE CrossInv'
  BY <1>0, <1>6, <1>13, WorkerStopsEffect
<1> QED
  BY <1>1, <1>4, <1>5, <1>7, <1>8, <1>9, <1>10, <1>11, <1>12, <1>13 DEF CallKinds

\* What SetInv says of one upload.
OneSet(u) ==
  /\ \A k \in Kinds : minted[u][k] <= 1
  /\ \A p \in Procs : call[p].up = u /\ call[p].at = "mint" =>
       /\ minted[u]["audio"] = 0
       /\ call[p].src = {} => minted[u]["video"] = 0
  /\ \/ \E p \in Procs : call[p].up = u /\ call[p].at \in {"mint", "remember"}
     \/ remembered[u] # {}
     \/ \A k \in Kinds : minted[u][k] = 0

\* As long as SetInv does not speak of an upload it keeps at most one set.
LEMMA SetStep ==
  ASSUME BasicInv, CrossInv, SetInv, CallKinds
  PROVE  SetInv'
<1> USE DEF BasicInv
<1>0. (\A u \in Uploads : u \in Procs) /\ (\A c \in Calls : c \in Procs)
  BY DEF Procs
<1>k. "audio" \in Kinds /\ "video" \in Kinds /\ \A k \in Kinds : k = "audio" \/ k = "video"
  BY DEF Kinds
<1>s. \A u \in Uploads : u \notin spoiled => OneSet(u)
  BY DEF SetInv, OneSet
<1> SUFFICES ASSUME NEW u \in Uploads, u \notin spoiled' PROVE OneSet(u)'
  BY DEF SetInv, OneSet
<1>1. CASE UNCHANGED CallSide
  BY <1>1, <1>s DEF CallSide, OneSet
\* A step that mints and forgets nothing of u, and lets every call of it that
\* mints or is about to remember go on.
<1>2. ASSUME u \notin spoiled, minted'[u] = minted[u], remembered'[u] = remembered[u],
             \A p \in Procs : call[p].up = u /\ call[p].at \in {"mint", "remember"} =>
               call'[p].up = u /\ call'[p].at = call[p].at /\ call'[p].src = call[p].src,
             \A p \in Procs : call'[p].up = u /\ call'[p].at = "mint" =>
               \/ call[p].up = u /\ call[p].at = "mint" /\ call'[p].src = call[p].src
               \/ minted[u]["audio"] = 0 /\ minted[u]["video"] = 0
      PROVE  OneSet(u)'
  BY <1>2, <1>s DEF OneSet
<1>3. ASSUME NEW p \in Procs, NEW w \in Uploads, NEW op \in {"video", "draft"}, PublishBegins(p, op, w)
      PROVE  OneSet(u)'
  <2>1. /\ ~Active(p) /\ call'[p].up = w /\ call'[p].src = remembered[w]
        /\ call'[p].at = IF remembered[w] = {} THEN "mint" ELSE "put"
        /\ \A q \in Procs : q # p => Undisturbed(q)
        /\ spoiled' = IF OthersOn(w) # {} THEN spoiled \cup {w} ELSE spoiled
        /\ UNCHANGED <<remembered, minted>>
    BY <1>3, PublishBeginsEffect
  <2>2. u \notin spoiled
    BY <2>1
  <2>3. u = w => \A q \in Procs : ~(Active(q) /\ call[q].up = u)
    BY <2>1 DEF OthersOn
  <2>4. u = w /\ remembered[u] = {} => minted[u]["audio"] = 0 /\ minted[u]["video"] = 0
    BY <1>s, <1>k, <2>2, <2>3 DEF OneSet, Active
  <2>5. \A q \in Procs : call[q].at \in {"mint", "remember"} => q # p
    BY <2>1 DEF Active
  <2> QED BY <1>2, <2>1, <2>2, <2>4, <2>5 DEF Undisturbed
<1>4. ASSUME NEW c \in Calls, NEW v \in video, DeleteBegins(c, v) PROVE OneSet(u)'
  <2>1. c \in Procs /\ ~Active(c) /\ UNCHANGED <<remembered, minted>> /\ spoiled \subseteq spoiled'
    BY <1>4, DeleteBeginsEffect
  <2>2. call'[c].at \in {"cut", "done"} /\ \A q \in Procs : q # c => Undisturbed(q)
    BY <1>0, <1>4, DeleteBeginsEffect DEF CallTypes, CallRecords, Undisturbed
  <2>3. \A q \in Procs : call[q].at \in {"mint", "remember"} => q # c
    BY <2>1 DEF Active
  <2> QED BY <1>2, <2>1, <2>2, <2>3 DEF Undisturbed
\* A step of a call of another upload, or of one that has remembered.
<1>5. ASSUME NEW p \in Procs, Alone(p), spoiled \subseteq spoiled', call'[p].up = call[p].up,
             minted'[u] = minted[u], remembered'[u] = remembered[u],
             call[p].up # u \/ (call[p].at \notin {"mint", "remember"} /\ call'[p].at # "mint")
      PROVE  OneSet(u)'
  BY <1>2, <1>5 DEF Alone
\* The calls of an upload that is not spoiled are alone.
<1>6. ASSUME NEW p \in Procs, u \notin spoiled, call[p].up = u, call[p].at \in {"mint", "remember"}
      PROVE  \A q \in Procs : q # p => ~(call[q].up = u /\ call[q].at \in {"mint", "remember"})
  BY <1>6 DEF CrossInv, Active
<1>7. ASSUME NEW p \in Procs, Mint(p) PROVE OneSet(u)'
  <2> DEFINE w == call[p].up
             j == Due(p)
  <2>0. w \in Uploads /\ j \in Kinds /\ minted[w][j] \in Nat /\ minted \in [Uploads -> [Kinds -> Nat]]
    BY DEF CallTypes, CallRecords, Due, Kinds
  <2>1. /\ call[p].at = "mint" /\ Alone(p) /\ call'[p].up = w /\ UNCHANGED <<remembered, spoiled>>
        /\ call'[p].at = IF j = "audio" THEN "remember" ELSE "mint"
        /\ call'[p].src = call[p].src \cup {Track(w, j, minted[w][j] + 1)}
        /\ minted' = [minted EXCEPT ![w][j] = minted[w][j] + 1]
    BY <1>7, MintEffect DEF GoesOn
  <2>2. CASE u # w
    <3>1. minted'[u] = minted[u]
      BY <2>0, <2>1, <2>2
    <3> QED BY <1>5, <2>1, <2>2, <3>1
  <2>3. CASE u = w
    <3>1. \A q \in Procs : q # p => ~(call'[q].up = u /\ call'[q].at = "mint")
      BY <1>6, <2>1, <2>3 DEF Alone
    <3>2. OneSet(u) /\ minted[u]["audio"] = 0 /\ (call[p].src = {} => minted[u]["video"] = 0)
      BY <1>s, <2>1, <2>3 DEF OneSet
    <3>3. \A k \in Kinds : minted'[u][k] = IF k = j THEN minted[u][k] + 1 ELSE minted[u][k]
      BY <2>0, <2>1, <2>3
    <3>4. call[p].src = {} <=> j = "video"
      BY DEF Due
    <3>5. call'[p].src # {} /\ call'[p].at \in {"mint", "remember"} /\ call'[p].up = u
      BY <2>1, <2>3
    <3>6. \A k \in Kinds : minted'[u][k] <= 1
      BY <1>k, <2>0, <3>2, <3>3, <3>4 DEF OneSet
    <3>7. call'[p].at = "mint" => minted'[u]["audio"] = 0
      BY <1>k, <2>0, <2>1, <3>2, <3>3
    <3> QED BY <3>1, <3>5, <3>6, <3>7 DEF OneSet
  <2> QED BY <2>2, <2>3
<1>8. ASSUME NEW p \in Procs, Alone(p), call'[p].at = "failed", call'[p].up = call[p].up, call[p].up = u,
             u \notin spoiled, call[p].at = "mint", call[p].src = {}, minted' = minted, remembered' = remembered
      PROVE  OneSet(u)'
  <2>1. minted[u]["audio"] = 0 /\ minted[u]["video"] = 0 /\ \A k \in Kinds : minted[u][k] <= 1
    BY <1>s, <1>8 DEF OneSet
  <2>2. \A q \in Procs : ~(call'[q].up = u /\ call'[q].at = "mint")
    BY <1>6, <1>8 DEF Alone
  <2> QED BY <1>k, <1>8, <2>1, <2>2 DEF OneSet
<1>9. ASSUME NEW p \in Procs, MintFails(p) PROVE OneSet(u)'
  <2> DEFINE w == call[p].up
             j == Due(p)
  <2>0. w \in Uploads /\ j \in Kinds /\ minted[w][j] \in Nat /\ minted \in [Uploads -> [Kinds -> Nat]]
    BY DEF CallTypes, CallRecords, Due, Kinds
  <2>1. /\ call[p].at = "mint" /\ Alone(p) /\ call'[p].up = w /\ call'[p].at = "failed" /\ remembered' = remembered
        /\ \E n \in {0, 1} : minted' = [minted EXCEPT ![w][j] = minted[w][j] + n]
        /\ spoiled' = IF call[p].src # {} \/ minted' # minted THEN spoiled \cup {w} ELSE spoiled
    BY <1>9, MintFailsEffect DEF Over
  <2>2. CASE u # w
    <3>1. minted'[u] = minted[u]
      BY <2>0, <2>1, <2>2
    <3> QED BY <1>5, <2>1, <2>2, <3>1
  <2>3. CASE u = w
    <3>1. call[p].src = {} /\ minted' = minted /\ u \notin spoiled
      BY <2>1, <2>3
    <3> QED BY <1>8, <2>1, <2>3, <3>1
  <2> QED BY <2>2, <2>3
<1>10. ASSUME NEW p \in Procs, Remember(p) PROVE OneSet(u)'
  <2> DEFINE w == call[p].up
  <2>0. w \in Uploads /\ remembered \in [Uploads -> SUBSET Tracks]
    BY DEF CallTypes, CallRecords
  <2>1. /\ call[p].at = "remember" /\ Alone(p) /\ call'[p].up = w /\ call'[p].at = "put" /\ minted' = minted
        /\ \/ remembered' = [remembered EXCEPT ![w] = call[p].src] /\ spoiled' = spoiled
           \/ remembered' = remembered /\ spoiled' = spoiled \cup {w}
    BY <1>10, RememberEffect DEF GoesOn
  <2>2. CASE u # w
    <3>1. remembered'[u] = remembered[u] /\ spoiled \subseteq spoiled'
      BY <2>0, <2>1, <2>2
    <3> QED BY <1>5, <2>1, <2>2, <3>1
  <2>3. CASE u = w
    <3>1. remembered'[u] = call[p].src /\ u \notin spoiled
      BY <2>0, <2>1, <2>3
    <3>2. call[p].src # {}
      BY <2>1 DEF WholeInv, Whole
    <3>3. \A q \in Procs : ~(call'[q].up = u /\ call'[q].at = "mint")
      BY <1>6, <2>1, <2>3, <3>1 DEF Alone
    <3>4. \A k \in Kinds : minted[u][k] <= 1
      BY <1>s, <3>1 DEF OneSet
    <3> QED BY <2>1, <3>1, <3>2, <3>3, <3>4 DEF OneSet
  <2> QED BY <2>2, <2>3
<1>11. ASSUME NEW p \in Procs, Put(p) \/ PutFails(p) \/ Tidy(p) \/ CutFails(p) PROVE OneSet(u)'
  <2>1. /\ Alone(p) /\ call'[p].up = call[p].up /\ UNCHANGED <<minted, remembered, spoiled>>
        /\ call[p].at \notin {"mint", "remember"} /\ call'[p].at # "mint"
    BY <1>11, PutEffect, PutFailsEffect, TidyEffect, CutFailsEffect DEF GoesOn, Over
  <2> QED BY <1>5, <2>1
<1>12. ASSUME NEW p \in Procs, Cut(p) PROVE OneSet(u)'
  <2>1. /\ Alone(p) /\ call'[p].up = call[p].up /\ UNCHANGED <<minted, remembered, spoiled>>
        /\ call[p].at \notin {"mint", "remember"} /\ call'[p].at # "mint"
    BY <1>12, CutEffect
  <2> QED BY <1>5, <2>1
<1>13. ASSUME NEW p \in Procs, Forget(p) PROVE OneSet(u)'
  <2>1. /\ Alone(p) /\ call'[p].up = call[p].up /\ UNCHANGED <<minted, spoiled>>
        /\ call[p].at = "forget" /\ call'[p].at = "done"
        /\ (remembered' = Forgotten(p) \/ remembered' = remembered)
    BY <1>13, ForgetEffect DEF Over
  <2>2. u # call[p].up
    BY <2>1 DEF CrossInv
  <2>3. remembered[u] \cap call[p].cut = {}
    <3>1. \A t \in call[p].cut : t.up = call[p].up
      BY DEF OwnInv
    <3>2. \A t \in remembered[u] : t.up = u
      BY DEF WholeInv, Whole, Track
    <3> QED BY <2>2, <3>1, <3>2
  <2>4. remembered'[u] = remembered[u]
    BY <2>1, <2>3 DEF Forgotten
  <2> QED BY <1>5, <2>1, <2>2, <2>4
<1>14. ASSUME NEW w \in Uploads, WorkerStops(w) PROVE OneSet(u)'
  <2>1. /\ w \in Procs /\ Alone(w) /\ call'[w].up = call[w].up /\ UNCHANGED <<minted, remembered>>
        /\ call'[w].at = "failed"
        /\ spoiled' = IF Active(w) /\ call[w].at # "put" /\ call[w].src # {}
                      THEN spoiled \cup {w} ELSE spoiled
    BY <1>0, <1>14, WorkerStopsEffect DEF Over
  <2>2. CASE call[w].up # u \/ call[w].at \notin {"mint", "remember"}
    BY <1>5, <2>1, <2>2
  <2>3. CASE call[w].up = u /\ call[w].at \in {"mint", "remember"}
    <3>1. Active(w) /\ w = u
      BY <2>3 DEF Active, WorkerInv
    <3>2. call[w].src = {} /\ u \notin spoiled
      BY <2>1, <2>3, <3>1
    <3>3. call[w].at = "mint"
      BY <2>1, <2>3, <3>2 DEF WholeInv, Whole
    <3> QED BY <1>8, <2>1, <2>3, <3>2, <3>3
  <2> QED BY <2>2, <2>3
<1> QED
  BY <1>1, <1>3, <1>4, <1>7, <1>9, <1>10, <1>11, <1>12, <1>13, <1>14 DEF CallKinds

\* What is known of overlaps.
LEMMA VODCross == Spec => []CrossInv
<1>1. Init => CrossInv
  BY DEF Init, Idle, CrossInv, Active
<1>2. BasicInv /\ CrossInv /\ [Next]_vars => CrossInv'
  BY CrossStep, EveryCallKind DEF BasicInv
<1> QED BY <1>1, <1>2, VODBasic, PTL DEF Spec

\* For any requests, uploads and faults a second track of one kind is minted for
\* an upload only if its minting was cut short, its tracks were deleted or two
\* calls overlapped (publish_draft.go:215-220).
THEOREM VODOneSetOfTracks == Spec => []OneSetOfTracks
<1>1. Init => SetInv
  BY DEF Init, Idle, SetInv, Kinds
<1>2. BasicInv /\ CrossInv /\ SetInv /\ [Next]_vars => SetInv'
  BY SetStep, EveryCallKind DEF BasicInv
<1>3. SetInv => OneSetOfTracks
  BY DEF SetInv, OneSetOfTracks
<1> QED BY <1>1, <1>2, <1>3, VODBasic, VODCross, PTL DEF Spec

-----------------------------------------------------------------------------
(***************************************************************************)
(* Deleted tracks.                                                         *)
(***************************************************************************)
\* Somebody knows of the track: it is deleted, somebody has it in hand, an upload
\* remembers it or a video names it.
Known(t) ==
  \/ t \in gone
  \/ \E p \in Procs : t \in call[p].src
  \/ \E u \in Uploads : t \in remembered[u]
  \/ \E v \in video : t \in v.source

\* Every track anybody knows of has been minted.
KnownInv == \A t : Known(t) => t \in Tracks /\ t.n <= minted[t.up][t.kind]

\* Nobody but p knows of the track.
Hidden(p, t) ==
  /\ t \notin gone
  /\ \A u \in Uploads : t \notin remembered[u]
  /\ \A v \in video : t \notin v.source
  /\ \A q \in Procs : q # p => t \notin call[q].src

\* Nobody else knows of the tracks of a publish that has not put them on the
\* upload row.
PrivateInv ==
  \A p \in Procs : call[p].at \in {"mint", "remember"} => \A t \in call[p].src : Hidden(p, t)

\* The track p mints next.
Fresh(p) == Track(call[p].up, Due(p), minted[call[p].up][Due(p)] + 1)

\* What a step of p can do to what others know: it tells them of tracks it has in
\* hand, and takes in hand what an upload remembers, what a video names or what
\* it mints itself.
Spreads(p) ==
  /\ \A q \in Procs : q # p => call'[q].src = call[q].src /\ call'[q].at = call[q].at
  /\ \A t \in gone' : t \in gone \/ t \in call[p].src
  /\ \A u \in Uploads : \A t \in remembered'[u] : t \in remembered[u] \/ t \in call[p].src
  /\ \A v \in video' : v \in video \/ v.source = call[p].src
  /\ \A t \in call'[p].src :
       \/ t \in call[p].src
       \/ \E u \in Uploads : t \in remembered[u]
       \/ \E v \in video : t \in v.source
       \/ Mint(p) /\ t = Fresh(p)
  /\ call'[p].at \in {"mint", "remember"} => Mint(p) \/ call'[p].src = {}

\* Every step that touches the calls or the tracks does that much.
LEMMA StepsSpread ==
  ASSUME BasicInv, CallKinds
  PROVE  UNCHANGED CallSide \/ \E p \in Procs : Spreads(p)
<1> USE DEF BasicInv
<1>0. (\A u \in Uploads : u \in Procs) /\ (\A c \in Calls : c \in Procs)
  BY DEF Procs
<1>6. ASSUME NEW p \in Procs, NEW u \in Uploads, NEW op \in {"video", "draft"}, PublishBegins(p, op, u)
      PROVE  Spreads(p)
  <2>1. /\ call'[p].src = remembered[u] /\ UNCHANGED <<remembered, gone, video>>
        /\ call'[p].at = IF remembered[u] = {} THEN "mint" ELSE "put"
        /\ \A q \in Procs : q # p => call'[q].src = call[q].src /\ call'[q].at = call[q].at
    BY <1>6, PublishBeginsEffect DEF Undisturbed
  <2> QED BY <2>1 DEF Spreads
<1>7. ASSUME NEW c \in Calls, NEW v \in video, DeleteBegins(c, v) PROVE Spreads(c)
  <2>1. c \in Procs /\ video' \subseteq video /\ UNCHANGED <<remembered, gone>>
    BY <1>7, DeleteBeginsEffect
  <2>2. CASE call'[c].at = "cut" /\ call'[c].src = v.source /\ \A q \in Procs : q # c => Undisturbed(q)
    BY <2>1, <2>2 DEF Undisturbed, Spreads
  <2>3. CASE call' = [call EXCEPT ![c].at = "done"]
    <3>1. call'[c].src = call[c].src /\ call'[c].at = "done" /\ Alone(c)
      BY <2>1, <2>3 DEF CallTypes, CallRecords, Alone
    <3> QED BY <2>1, <3>1 DEF Alone, Spreads
  <2> QED BY <1>7, <2>2, <2>3, DeleteBeginsEffect
<1>8. ASSUME NEW p \in Procs, Mint(p) PROVE Spreads(p)
  <2>1. call'[p].src = call[p].src \cup {Fresh(p)} /\ Alone(p) /\ UNCHANGED <<remembered, gone, video>>
    BY <1>8, MintEffect DEF GoesOn, Fresh
  <2> QED BY <1>8, <2>1 DEF Alone, Spreads
\* Every other step leaves at most what it had in hand.
<1>9. ASSUME NEW p \in Procs, Alone(p), call'[p].src \subseteq call[p].src,
             call'[p].at \notin {"mint", "remember"},
             \A t \in gone' : t \in gone \/ t \in call[p].src,
             \A u \in Uploads : remembered'[u] \subseteq remembered[u] \cup call[p].src,
             \A v \in video' : v \in video \/ v.source = call[p].src
      PROVE  Spreads(p)
  BY <1>9 DEF Alone, Spreads
<1>10. ASSUME NEW p \in Procs, Over(p, "done") \/ Over(p, "failed"),
              \A t \in gone' : t \in gone \/ t \in call[p].src,
              \A u \in Uploads : remembered'[u] \subseteq remembered[u] \cup call[p].src,
              \A v \in video' : v \in video \/ v.source = call[p].src
       PROVE  Spreads(p)
  BY <1>9, <1>10 DEF Over
<1>11. ASSUME NEW p \in Procs, MintFails(p) \/ Tidy(p) PROVE Spreads(p)
  BY <1>10, <1>11, MintFailsEffect, TidyEffect
<1>12. ASSUME NEW p \in Procs, Remember(p) PROVE Spreads(p)
  <2>1. /\ call'[p].src = call[p].src /\ call'[p].at = "put" /\ Alone(p) /\ UNCHANGED <<gone, video>>
        /\ remembered' = [remembered EXCEPT ![call[p].up] = call[p].src] \/ remembered' = remembered
    BY <1>12, RememberEffect DEF GoesOn
  <2>2. \A u \in Uploads : remembered'[u] = call[p].src \/ remembered'[u] = remembered[u]
    BY <2>1 DEF CallTypes
  <2> QED BY <1>9, <2>1, <2>2
<1>13. ASSUME NEW p \in Procs, NEW v \in Published(p) PROVE v \in video \/ v.source = call[p].src
  BY DEF Published
<1>14. ASSUME NEW p \in Procs, Put(p) PROVE Spreads(p)
  <2>1. /\ call'[p].src = {} /\ call'[p].at \in {"tidy", "done"} /\ Alone(p)
        /\ UNCHANGED <<gone, remembered>> /\ video' = Published(p)
    BY <1>14, PutEffect DEF GoesOn, Over
  <2> QED BY <1>9, <1>13, <2>1
<1>15. ASSUME NEW p \in Procs, PutFails(p) PROVE Spreads(p)
  <2>1. Over(p, "failed") /\ UNCHANGED <<gone, remembered>> /\ (video' = Published(p) \/ video' = video)
    BY <1>15, PutFailsEffect
  <2> QED BY <1>10, <1>13, <2>1
<1>16. ASSUME NEW p \in Procs, call[p].at = "cut" PROVE NextCut(p) \in call[p].src
  BY <1>16, CutExists DEF OwnInv
<1>17. ASSUME NEW p \in Procs, Cut(p) PROVE Spreads(p)
  <2>1. /\ call[p].at = "cut" /\ Alone(p) /\ call'[p].src = call[p].src \ {NextCut(p)}
        /\ call'[p].at = IF call[p].src = {NextCut(p)} THEN "forget" ELSE "cut"
        /\ gone' = gone \cup {NextCut(p)} /\ UNCHANGED <<remembered, video>>
    BY <1>17, CutEffect
  <2> QED BY <1>9, <1>16, <2>1
<1>18. ASSUME NEW p \in Procs, CutFails(p) PROVE Spreads(p)
  <2>1. /\ call[p].at = "cut" /\ Over(p, "failed")
        /\ gone' \subseteq gone \cup {NextCut(p)} /\ UNCHANGED <<remembered, video>>
    BY <1>18, CutFailsEffect
  <2> QED BY <1>10, <1>16, <2>1
<1>19. ASSUME NEW p \in Procs, Forget(p) PROVE Spreads(p)
  <2>1. /\ Over(p, "done") /\ UNCHANGED <<gone, video>>
        /\ remembered' = Forgotten(p) \/ remembered' = remembered
    BY <1>19, ForgetEffect
  <2>2. \A u \in Uploads : remembered'[u] \subseteq remembered[u]
    BY <2>1 DEF Forgotten
  <2> QED BY <1>10, <2>1, <2>2
<1>20. ASSUME NEW u \in Uploads, WorkerStops(u) PROVE Spreads(u)
  BY <1>0, <1>10, <1>20, WorkerStopsEffect
<1>21. CASE \E p \in Procs :
              \/ Mint(p) \/ Remember(p) \/ Put(p) \/ Tidy(p) \/ Cut(p) \/ Forget(p)
              \/ MintFails(p) \/ PutFails(p) \/ CutFails(p)
  BY <1>8, <1>11, <1>12, <1>14, <1>15, <1>17, <1>18, <1>19, <1>21
<1> QED BY <1>0, <1>6, <1>7, <1>20, <1>21 DEF CallKinds

\* A track becomes known by being minted, and in no other way.
LEMMA KnownGrows ==
  ASSUME BasicInv, CallKinds, NEW t, Known(t)'
  PROVE  Known(t) \/ \E p \in Procs : Mint(p) /\ t = Fresh(p)
<1>1. CASE UNCHANGED CallSide
  BY <1>1 DEF CallSide, Known
<1>2. ASSUME NEW p \in Procs, Spreads(p) PROVE Known(t) \/ (Mint(p) /\ t = Fresh(p))
  <2>1. CASE \E q \in Procs : t \in call'[q].src
    BY <1>2, <2>1 DEF Known, Spreads
  <2>2. CASE t \in gone'
    BY <1>2, <2>2 DEF Known, Spreads
  <2>3. CASE \E u \in Uploads : t \in remembered'[u]
    BY <1>2, <2>3 DEF Known, Spreads
  <2>4. CASE \E v \in video' : t \in v.source
    BY <1>2, <2>4 DEF Known, Spreads
  <2> QED BY <2>1, <2>2, <2>3, <2>4 DEF Known
<1> QED BY <1>1, <1>2, StepsSpread

\* What has been minted has been.
LEMMA MintedGrows ==
  ASSUME BasicInv, CallKinds, NEW u \in Uploads, NEW k \in Kinds
  PROVE  minted[u][k] <= minted'[u][k]
<1> USE DEF BasicInv
<1>0. (\A w \in Uploads : w \in Procs) /\ minted[u][k] \in Nat /\ minted \in [Uploads -> [Kinds -> Nat]]
  BY DEF Procs, CallTypes
<1>1. CASE UNCHANGED minted
  BY <1>0, <1>1
<1>2. ASSUME NEW p \in Procs, NEW n \in {0, 1},
             minted' = [minted EXCEPT ![call[p].up][Due(p)] = minted[call[p].up][Due(p)] + n]
      PROVE  minted[u][k] <= minted'[u][k]
  <2> DEFINE w == call[p].up
             j == Due(p)
  <2>1. w \in Uploads /\ j \in Kinds
    BY DEF CallTypes, CallRecords, Due, Kinds
  <2>2. minted[w][j] \in Nat
    BY <1>0, <2>1
  <2>3. minted' = [minted EXCEPT ![w][j] = minted[w][j] + n]
    BY <1>2
  <2> HIDE DEF w, j
  <2> QED BY <1>0, <2>1, <2>2, <2>3
<1>3. ASSUME NEW p \in Procs, Mint(p) \/ MintFails(p) PROVE minted[u][k] <= minted'[u][k]
  BY <1>2, <1>3, MintEffect, MintFailsEffect
<1>4. ASSUME NEW p \in Procs, Remember(p) \/ Put(p) \/ Tidy(p) \/ Cut(p) \/ Forget(p) \/ PutFails(p) \/ CutFails(p)
      PROVE  minted' = minted
  BY <1>4, RememberEffect, PutEffect, TidyEffect, CutEffect, ForgetEffect, PutFailsEffect, CutFailsEffect
<1>5. CASE \E p \in Procs :
              \/ Mint(p) \/ Remember(p) \/ Put(p) \/ Tidy(p) \/ Cut(p) \/ Forget(p)
              \/ MintFails(p) \/ PutFails(p) \/ CutFails(p)
  BY <1>1, <1>3, <1>4, <1>5
<1>6. ASSUME NEW w \in Uploads, WorkerStops(w) PROVE minted' = minted
  BY <1>6, WorkerStopsEffect
<1>7. UNCHANGED CallSide => minted' = minted
  BY DEF CallSide
<1> QED BY <1>1, <1>5, <1>6, <1>7 DEF CallKinds, PublishBegins, DeleteBegins

\* Every track stays counted.
LEMMA KnownStep ==
  ASSUME BasicInv, BasicInv', KnownInv, CallKinds
  PROVE  KnownInv'
<1> SUFFICES ASSUME NEW t, Known(t)' PROVE t \in Tracks /\ t.n <= minted'[t.up][t.kind]
  BY DEF KnownInv
<1> DEFINE w == t.up
           k == t.kind
<1>1. CASE Known(t)
  <2>1. t \in Tracks /\ t.n <= minted[w][k]
    BY <1>1 DEF KnownInv
  <2>2. w \in Uploads /\ k \in Kinds /\ t.n \in Nat
    BY <2>1 DEF Tracks
  <2>3. minted[w][k] \in Nat /\ minted'[w][k] \in Nat
    BY <2>2 DEF BasicInv, CallTypes
  <2> HIDE DEF w, k
  <2>4. minted[w][k] <= minted'[w][k]
    BY <2>2, MintedGrows
  <2>5. t.n <= minted'[w][k]
    BY <2>1, <2>2, <2>3, <2>4
  <2> QED BY <2>1, <2>5 DEF w, k
<1>2. ASSUME NEW p \in Procs, Mint(p), t = Fresh(p) PROVE t \in Tracks /\ t.n <= minted'[t.up][t.kind]
  <2> DEFINE x == call[p].up
             j == Due(p)
  <2>1. x \in Uploads /\ j \in Kinds
    BY DEF BasicInv, CallTypes, CallRecords, Due, Kinds
  <2>2. minted[x][j] \in Nat /\ minted \in [Uploads -> [Kinds -> Nat]]
    BY <2>1 DEF BasicInv, CallTypes
  <2>3. minted' = [minted EXCEPT ![x][j] = minted[x][j] + 1]
    BY <1>2, MintEffect DEF BasicInv
  <2>4. t = [up |-> x, kind |-> j, n |-> minted[x][j] + 1]
    BY <1>2 DEF Fresh, Track
  <2> HIDE DEF x, j
  <2>5. minted'[x][j] = minted[x][j] + 1
    BY <2>1, <2>2, <2>3
  <2>6. t \in Tracks /\ t.up = x /\ t.kind = j /\ t.n = minted[x][j] + 1
    BY <2>1, <2>2, <2>4 DEF Tracks
  <2> QED BY <2>2, <2>5, <2>6
<1> QED BY <1>1, <1>2, KnownGrows

\* The track minted next is new to everybody.
LEMMA FreshIsNew ==
  ASSUME BasicInv, KnownInv, NEW p \in Procs
  PROVE  ~Known(Fresh(p))
<1> DEFINE x == call[p].up
           j == Due(p)
<1>1. x \in Uploads /\ j \in Kinds
  BY DEF BasicInv, CallTypes, CallRecords, Due, Kinds
<1>2. minted[x][j] \in Nat
  BY <1>1 DEF BasicInv, CallTypes
<1>3. Fresh(p).up = x /\ Fresh(p).kind = j /\ Fresh(p).n = minted[x][j] + 1
  BY DEF Fresh, Track
<1> HIDE DEF x, j
<1>4. Known(Fresh(p)) => Fresh(p).n <= minted[x][j]
  BY <1>3 DEF KnownInv
<1> QED BY <1>2, <1>3, <1>4

\* What a publish has minted stays unknown to the others until it is on the row.
LEMMA PrivateStep ==
  ASSUME BasicInv, KnownInv, PrivateInv, CallKinds
  PROVE  PrivateInv'
<1>1. CASE UNCHANGED CallSide
  BY <1>1 DEF CallSide, PrivateInv, Hidden
<1>2. ASSUME NEW p \in Procs, Spreads(p),
             NEW q \in Procs, call'[q].at \in {"mint", "remember"}, NEW t \in call'[q].src
      PROVE  Hidden(q, t)'
  \* Another call of the same kind hears of nothing that q has in hand.
  <2>1. CASE q # p
    <3>1. call[q].at \in {"mint", "remember"} /\ t \in call[q].src
      BY <1>2, <2>1 DEF Spreads
    <3>2. Hidden(q, t) /\ Known(t)
      BY <3>1 DEF PrivateInv, Known
    <3>3. t # Fresh(p)
      BY <3>2, FreshIsNew
    <3>4. t \notin call[p].src
      BY <2>1, <3>2 DEF Hidden
    <3>5. t \notin call'[p].src
      BY <1>2, <3>2, <3>3, <3>4 DEF Hidden, Spreads
    <3>6. \A r \in Procs : r # q => t \notin call'[r].src
      BY <1>2, <3>2, <3>5 DEF Hidden, Spreads
    <3>7. t \notin gone' /\ \A u \in Uploads : t \notin remembered'[u]
      BY <1>2, <3>2, <3>4 DEF Hidden, Spreads
    <3>8. \A v \in video' : t \notin v.source
      BY <1>2, <3>2, <3>4 DEF Hidden, Spreads
    <3> QED BY <3>6, <3>7, <3>8 DEF Hidden
  \* What q mints itself is new, and it tells nobody.
  <2>2. CASE q = p
    <3>1. Mint(q)
      BY <1>2, <2>2 DEF Spreads
    <3>2. /\ call[q].at = "mint" /\ call'[q].src = call[q].src \cup {Fresh(q)} /\ Alone(q)
          /\ UNCHANGED <<remembered, gone, video>>
      BY <3>1, MintEffect DEF GoesOn, Fresh, BasicInv
    <3>3. ~Known(Fresh(q))
      BY FreshIsNew
    <3>4. CASE t = Fresh(q)
      BY <3>2, <3>3, <3>4 DEF Known, Hidden, Alone
    <3>5. CASE t \in call[q].src
      <4>1. Hidden(q, t)
        BY <3>2, <3>5 DEF PrivateInv
      <4> QED BY <3>2, <4>1 DEF Hidden, Alone
    <3> QED BY <1>2, <3>2, <3>4, <3>5
  <2> QED BY <2>1, <2>2
<1>3. CASE \E p \in Procs : Spreads(p)
  BY <1>2, <1>3 DEF PrivateInv
<1> QED BY <1>1, <1>3, StepsSpread

\* The invariants about what is known.
LEMMA VODKnown == Spec => [](KnownInv /\ PrivateInv)
<1>1. Init => KnownInv /\ PrivateInv
  <2> SUFFICES ASSUME Init PROVE KnownInv /\ PrivateInv
    OBVIOUS
  <2>1. /\ call = [p \in Procs |-> Idle] /\ remembered = [u \in Uploads |-> {}]
        /\ gone = {} /\ video = {}
    BY DEF Init
  <2> QED BY <2>1 DEF Idle, KnownInv, Known, PrivateInv
<1>2. BasicInv /\ BasicInv' /\ KnownInv /\ PrivateInv /\ [Next]_vars => (KnownInv /\ PrivateInv)'
  BY KnownStep, PrivateStep, EveryCallKind DEF BasicInv
<1> QED BY <1>1, <1>2, VODBasic, PTL DEF Spec

\* Unless an upload is torn, what its row remembers of deleted tracks is about
\* to be forgotten, and a publish that is alone has none of them.
GoneInv ==
  /\ \A p \in Procs : call[p].cut \subseteq gone /\ (call[p].cut # {} => call[p].at \in {"cut", "forget"})
  /\ \A u \in Uploads : u \notin torn => \A t \in remembered[u] \cap gone :
       \E q \in Procs : call[q].up = u /\ t \in call[q].cut
  /\ \A p \in Procs : call[p].at = "put" /\ ~ call[p].crossed /\ call[p].up \notin torn =>
       call[p].src \cap gone = {}

\* A deleted track is forgotten, or its upload is torn.
LEMMA GoneStep ==
  ASSUME BasicInv, CrossInv, PrivateInv, GoneInv, CallKinds
  PROVE  GoneInv'
<1> USE DEF BasicInv
<1>0. (\A u \in Uploads : u \in Procs) /\ (\A c \in Calls : c \in Procs)
  BY DEF Procs
<1>1. CASE UNCHANGED CallSide
  BY <1>1 DEF CallSide, GoneInv
<1>2. ASSUME NEW p \in Procs, Alone(p) PROVE \A q \in Procs : q # p => Undisturbed(q)
  BY <1>2 DEF Alone, Undisturbed
<1>3. ASSUME NEW p \in Procs, call[p].at \notin {"cut", "forget"} PROVE call[p].cut = {}
  BY <1>3 DEF GoneInv
<1>4. ASSUME NEW p \in Procs, ~Active(p) PROVE call[p].cut = {}
  BY <1>3, <1>4 DEF Active
<1>5. ASSUME NEW u \in Uploads, NEW t \in remembered[u] PROVE t.up = u
  <2>1. Whole(u, remembered[u])
    BY <1>5 DEF WholeInv
  <2> QED BY <1>5, <2>1 DEF Whole, Track
\* Steps that delete nothing and forget nothing.
<1>6. ASSUME NEW p \in Procs, call[p].cut = {}, call'[p].cut = {}, gone' = gone, torn' = torn,
             \A q \in Procs : q # p => Undisturbed(q),
             \A u \in Uploads : \A t \in remembered'[u] : t \in remembered[u] \/ t \notin gone,
             call'[p].at = "put" /\ ~call'[p].crossed /\ call'[p].up \notin torn => call'[p].src \cap gone = {}
      PROVE  GoneInv'
  <2>1. ASSUME NEW q \in Procs
        PROVE  call'[q].cut \subseteq gone' /\ (call'[q].cut # {} => call'[q].at \in {"cut", "forget"})
    BY <1>6 DEF GoneInv, Undisturbed
  <2>2. ASSUME NEW u \in Uploads, u \notin torn', NEW t \in remembered'[u], t \in gone'
        PROVE  \E q \in Procs : call'[q].up = u /\ t \in call'[q].cut
    <3>1. t \in remembered[u] \cap gone /\ u \notin torn
      BY <1>6, <2>2
    <3>2. PICK q \in Procs : call[q].up = u /\ t \in call[q].cut
      BY <3>1 DEF GoneInv
    <3> QED BY <1>6, <3>2 DEF Undisturbed
  <2>3. ASSUME NEW q \in Procs, call'[q].at = "put", ~call'[q].crossed, call'[q].up \notin torn'
        PROVE  call'[q].src \cap gone' = {}
    BY <1>6, <2>3 DEF GoneInv, Undisturbed
  <2> QED BY <2>1, <2>2, <2>3 DEF GoneInv
<1>7. ASSUME NEW p \in Procs, NEW u \in Uploads, NEW op \in {"video", "draft"}, PublishBegins(p, op, u)
      PROVE  GoneInv'
  <2>1. /\ ~Active(p) /\ call'[p].up = u /\ call'[p].src = remembered[u] /\ call'[p].cut = {}
        /\ call'[p].crossed = (OthersOn(u) # {})
        /\ \A q \in Procs : q # p => Undisturbed(q)
        /\ UNCHANGED <<remembered, gone, torn>>
    BY <1>7, PublishBeginsEffect
  <2>2. ASSUME ~call'[p].crossed, u \notin torn, NEW t \in remembered[u] \cap gone PROVE FALSE
    <3>1. PICK q \in Procs : call[q].up = u /\ t \in call[q].cut
      BY <2>2 DEF GoneInv
    <3>2. call[q].at \in {"cut", "forget"}
      BY <3>1 DEF GoneInv
    <3>3. q \in OthersOn(u)
      BY <3>1, <3>2 DEF OthersOn, Active
    <3> QED BY <2>1, <2>2, <3>3
  <2> QED BY <1>4, <1>6, <2>1, <2>2
<1>8. ASSUME NEW c \in Calls, NEW v \in video, DeleteBegins(c, v) PROVE GoneInv'
  <2>1. c \in Procs /\ ~Active(c) /\ UNCHANGED <<remembered, gone, torn>>
    BY <1>8, DeleteBeginsEffect
  <2>2. CASE call'[c].at = "cut" /\ call'[c].cut = {} /\ \A q \in Procs : q # c => Undisturbed(q)
    BY <1>4, <1>6, <2>1, <2>2
  <2>3. CASE call' = [call EXCEPT ![c].at = "done"]
    <3>1. call'[c].cut = call[c].cut /\ call'[c].at = "done" /\ Alone(c)
      BY <2>1, <2>3 DEF CallTypes, CallRecords, Alone
    <3> QED BY <1>2, <1>4, <1>6, <2>1, <3>1
  <2> QED BY <1>8, <2>2, <2>3, DeleteBeginsEffect
<1>9. ASSUME NEW p \in Procs, Mint(p) PROVE GoneInv'
  <2>1. /\ call[p].at = "mint" /\ Alone(p) /\ call'[p].cut = {} /\ call'[p].at # "put"
        /\ UNCHANGED <<remembered, gone, torn>>
    BY <1>9, MintEffect DEF GoesOn
  <2> QED BY <1>2, <1>3, <1>6, <2>1
<1>10. ASSUME NEW p \in Procs, Over(p, "done") \/ Over(p, "failed"), call[p].at \notin {"cut", "forget"},
              UNCHANGED <<remembered, gone, torn>>
       PROVE  GoneInv'
  BY <1>2, <1>3, <1>6, <1>10 DEF Over
<1>11. ASSUME NEW p \in Procs, MintFails(p) \/ Tidy(p) \/ PutFails(p) PROVE GoneInv'
  BY <1>10, <1>11, MintFailsEffect, TidyEffect, PutFailsEffect
<1>12. ASSUME NEW u \in Uploads, WorkerStops(u) PROVE GoneInv'
  <2>1. call[u].at \notin {"cut", "forget"}
    BY DEF WorkerInv
  <2> QED BY <1>0, <1>10, <1>12, <2>1, WorkerStopsEffect
<1>13. ASSUME NEW p \in Procs, Put(p) PROVE GoneInv'
  <2>1. /\ call[p].at = "put" /\ Alone(p) /\ call'[p].cut = {} /\ call'[p].at # "put"
        /\ UNCHANGED <<remembered, gone, torn>>
    BY <1>13, PutEffect DEF GoesOn, Over
  <2> QED BY <1>2, <1>3, <1>6, <2>1
<1>14. ASSUME NEW p \in Procs, Remember(p) PROVE GoneInv'
  <2>1. /\ call[p].at = "remember" /\ Alone(p) /\ call'[p].cut = {} /\ call'[p].src = call[p].src
        /\ UNCHANGED <<gone, torn>>
        /\ remembered' = [remembered EXCEPT ![call[p].up] = call[p].src] \/ remembered' = remembered
    BY <1>14, RememberEffect DEF GoesOn
  <2>2. \A u \in Uploads : remembered'[u] = call[p].src \/ remembered'[u] = remembered[u]
    BY <2>1 DEF CallTypes
  <2>3. \A t \in call[p].src : t \notin gone
    BY <2>1 DEF PrivateInv, Hidden
  <2>4. \A u \in Uploads : \A t \in remembered'[u] : t \in remembered[u] \/ t \notin gone
    BY <2>2, <2>3
  <2>5. call'[p].src \cap gone = {}
    BY <2>1, <2>3
  <2> QED BY <1>2, <1>3, <1>6, <2>1, <2>4, <2>5
\* A publish that is alone does not lose a track to a deletion.
<1>15. ASSUME NEW p \in Procs, call[p].at = "cut", NEW q \in Procs, q # p,
              call[q].at = "put", ~call[q].crossed, call[q].up \notin torn
       PROVE  NextCut(p) \notin call[q].src
  <2>1. NextCut(p) \in call[p].src
    BY <1>15, CutExists DEF OwnInv
  <2>2. NextCut(p).up = call[p].up
    BY <2>1 DEF OwnInv
  <2>3. NextCut(p) \in call[q].src => NextCut(p).up = call[q].up
    BY DEF OwnInv
  <2>4. Active(p) /\ Active(q)
    BY <1>15 DEF Active
  <2> QED BY <1>15, <2>2, <2>3, <2>4 DEF CrossInv
<1>16. ASSUME NEW p \in Procs, Cut(p) PROVE GoneInv'
  <2> DEFINE t0 == NextCut(p)
  <2>1. /\ call[p].at = "cut" /\ Alone(p) /\ call'[p].up = call[p].up
        /\ call'[p].at = IF call[p].src = {t0} THEN "forget" ELSE "cut"
        /\ call'[p].cut = call[p].cut \cup {t0} /\ gone' = gone \cup {t0}
        /\ UNCHANGED <<remembered, torn>>
    BY <1>16, CutEffect
  <2>2. t0 \in call[p].src
    BY <2>1, CutExists DEF OwnInv
  <2>3. t0.up = call[p].up
    BY <2>2 DEF OwnInv
  <2>4. ASSUME NEW q \in Procs, q # p, call[q].at = "put", ~call[q].crossed, call[q].up \notin torn
        PROVE  t0 \notin call[q].src
    BY <1>15, <2>1, <2>4
  <2> HIDE DEF t0
  <2>5. ASSUME NEW q \in Procs
        PROVE  call'[q].cut \subseteq gone' /\ (call'[q].cut # {} => call'[q].at \in {"cut", "forget"})
    BY <2>1 DEF GoneInv, Alone
  <2>6. ASSUME NEW u \in Uploads, u \notin torn', NEW t \in remembered'[u], t \in gone'
        PROVE  \E q \in Procs : call'[q].up = u /\ t \in call'[q].cut
    <3>1. t \in remembered[u] /\ u \notin torn
      BY <2>1, <2>6
    <3>2. CASE t = t0
      BY <1>5, <2>1, <2>3, <3>1, <3>2
    <3>3. CASE t \in gone
      <4>1. PICK q \in Procs : call[q].up = u /\ t \in call[q].cut
        BY <3>1, <3>3 DEF GoneInv
      <4> QED BY <2>1, <4>1 DEF Alone
    <3> QED BY <2>1, <2>6, <3>2, <3>3
  <2>7. ASSUME NEW q \in Procs, call'[q].at = "put", ~call'[q].crossed, call'[q].up \notin torn'
        PROVE  call'[q].src \cap gone' = {}
    <3>1. q # p
      BY <2>1, <2>7
    <3>2. call'[q] = call[q] /\ torn' = torn
      BY <2>1, <3>1 DEF Alone
    <3>3. call[q].at = "put" /\ ~call[q].crossed /\ call[q].up \notin torn
      BY <2>7, <3>2
    <3>4. call[q].src \cap gone = {} /\ t0 \notin call[q].src
      BY <2>4, <3>1, <3>3 DEF GoneInv
    <3> QED BY <2>1, <3>2, <3>4
  <2> QED BY <2>5, <2>6, <2>7 DEF GoneInv
<1>17. ASSUME NEW p \in Procs, CutFails(p) PROVE GoneInv'
  <2> DEFINE t0 == NextCut(p)
  <2>1. /\ call[p].at = "cut" /\ Alone(p) /\ call'[p].at = "failed" /\ call'[p].cut = {}
        /\ UNCHANGED remembered
    BY <1>17, CutFailsEffect DEF Over
  <2>2. PICK applied \in {{}, {t0}} :
          /\ gone' = gone \cup applied
          /\ torn' = IF applied \cup call[p].cut = {} THEN torn ELSE torn \cup {call[p].up}
    BY <1>17, CutFailsEffect
  <2>3. t0 \in call[p].src
    BY <2>1, CutExists DEF OwnInv
  <2>4. t0.up = call[p].up
    BY <2>3 DEF OwnInv
  <2>5. ASSUME NEW q \in Procs, q # p, call[q].at = "put", ~call[q].crossed, call[q].up \notin torn
        PROVE  t0 \notin call[q].src
    BY <1>15, <2>1, <2>5
  <2> HIDE DEF t0
  <2>6. torn \subseteq torn' /\ (\A t \in gone' : t \in gone \/ t = t0) /\ gone \subseteq gone'
    BY <2>2
  <2>7. applied = {} \/ call[p].up \in torn'
    BY <2>2
  <2>8. call[p].cut = {} \/ call[p].up \in torn'
    BY <2>2
  <2>9. ASSUME NEW q \in Procs
        PROVE  call'[q].cut \subseteq gone' /\ (call'[q].cut # {} => call'[q].at \in {"cut", "forget"})
    BY <2>1, <2>6 DEF GoneInv, Alone
  <2>10. ASSUME NEW u \in Uploads, u \notin torn', NEW t \in remembered'[u], t \in gone'
        PROVE  \E q \in Procs : call'[q].up = u /\ t \in call'[q].cut
    <3>1. t \in remembered[u] /\ u \notin torn /\ t.up = u
      BY <1>5, <2>1, <2>6, <2>10
    <3>2. t \in gone
      BY <2>2, <2>4, <2>7, <2>10, <3>1
    <3>3. PICK q \in Procs : call[q].up = u /\ t \in call[q].cut
      BY <3>1, <3>2 DEF GoneInv
    <3>4. q # p
      BY <2>8, <2>10, <3>3
    <3> QED BY <2>1, <3>3, <3>4 DEF Alone
  <2>11. ASSUME NEW q \in Procs, call'[q].at = "put", ~call'[q].crossed, call'[q].up \notin torn'
        PROVE  call'[q].src \cap gone' = {}
    <3>1. q # p
      BY <2>1, <2>11
    <3>2. call'[q] = call[q]
      BY <2>1, <3>1 DEF Alone
    <3>3. call[q].at = "put" /\ ~call[q].crossed /\ call[q].up \notin torn
      BY <2>6, <2>11, <3>2
    <3>4. call[q].src \cap gone = {} /\ t0 \notin call[q].src
      BY <2>5, <3>1, <3>3 DEF GoneInv
    <3> QED BY <2>6, <3>2, <3>4
  <2> QED BY <2>9, <2>10, <2>11 DEF GoneInv
<1>18. ASSUME NEW p \in Procs, Forget(p) PROVE GoneInv'
  <2>1. /\ call[p].at = "forget" /\ Alone(p) /\ call'[p].at = "done" /\ call'[p].cut = {}
        /\ UNCHANGED gone
    BY <1>18, ForgetEffect DEF Over
  <2>2. \/ remembered' = Forgotten(p) /\ torn' = torn
        \/ remembered' = remembered /\ torn' = torn \cup {call[p].up}
    BY <1>18, ForgetEffect
  <2>3. \A u \in Uploads : \A t \in remembered'[u] :
          t \in remembered[u] /\ (t \notin call[p].cut \/ call[p].up \in torn')
    BY <2>2 DEF Forgotten
  <2>4. ASSUME NEW q \in Procs
        PROVE  call'[q].cut \subseteq gone' /\ (call'[q].cut # {} => call'[q].at \in {"cut", "forget"})
    BY <2>1 DEF GoneInv, Alone
  <2>5. torn \subseteq torn'
    BY <2>2
  <2>6. ASSUME NEW u \in Uploads, u \notin torn', NEW t \in remembered'[u], t \in gone'
        PROVE  \E q \in Procs : call'[q].up = u /\ t \in call'[q].cut
    <3>1. PICK q \in Procs : call[q].up = u /\ t \in call[q].cut
      BY <2>1, <2>3, <2>5, <2>6 DEF GoneInv
    <3>2. q # p
      BY <2>3, <2>6, <3>1
    <3> QED BY <2>1, <3>1, <3>2 DEF Alone
  <2>7. ASSUME NEW q \in Procs, call'[q].at = "put", ~call'[q].crossed, call'[q].up \notin torn'
        PROVE  call'[q].src \cap gone' = {}
    <3>1. q # p
      BY <2>1, <2>7
    <3>2. call'[q] = call[q]
      BY <2>1, <3>1 DEF Alone
    <3> QED BY <2>1, <2>5, <2>7, <3>2 DEF GoneInv
  <2> QED BY <2>4, <2>6, <2>7 DEF GoneInv
<1>19. CASE \E p \in Procs :
              \/ Mint(p) \/ Remember(p) \/ Put(p) \/ Tidy(p) \/ Cut(p) \/ Forget(p)
              \/ MintFails(p) \/ PutFails(p) \/ CutFails(p)
  BY <1>9, <1>11, <1>13, <1>14, <1>16, <1>17, <1>18, <1>19
<1> QED BY <1>1, <1>7, <1>8, <1>12, <1>19 DEF CallKinds

\* A video record appears by a publish that puts it, with what it has in hand.
LEMMA NewVideo ==
  ASSUME BasicInv, CallKinds, NEW v \in video', v \notin video
  PROVE  \E p \in Procs :
           /\ Put(p) \/ PutFails(p)
           /\ call[p].at = "put"
           /\ v = [key |-> Key(p), up |-> call[p].up, source |-> call[p].src]
<1> USE DEF BasicInv
<1>1. UNCHANGED CallSide => video' = video
  BY DEF CallSide
<1>2. ASSUME NEW p \in Procs, NEW u \in Uploads, NEW op \in {"video", "draft"}, PublishBegins(p, op, u)
      PROVE  video' = video
  BY <1>2, PublishBeginsEffect
<1>3. ASSUME NEW c \in Calls, NEW w \in video, DeleteBegins(c, w) PROVE video' \subseteq video
  BY <1>3, DeleteBeginsEffect
<1>4. ASSUME NEW p \in Procs,
             \/ Mint(p) \/ Remember(p) \/ Tidy(p) \/ Cut(p) \/ Forget(p) \/ MintFails(p) \/ CutFails(p)
      PROVE  video' = video
  BY <1>4, MintEffect, RememberEffect, TidyEffect, CutEffect, ForgetEffect, MintFailsEffect, CutFailsEffect
<1>5. ASSUME NEW u \in Uploads, WorkerStops(u) PROVE video' = video
  BY <1>5, WorkerStopsEffect
<1>6. PICK p \in Procs : Put(p) \/ PutFails(p)
  BY <1>1, <1>2, <1>3, <1>4, <1>5 DEF CallKinds
<1>7. call[p].at = "put" /\ (video' = Published(p) \/ video' = video)
  BY <1>6, PutEffect, PutFailsEffect
<1>8. v \in Published(p)
  BY <1>7
<1>9. v = [key |-> Key(p), up |-> call[p].up, source |-> call[p].src]
  BY <1>8 DEF Published
<1> QED BY <1>6, <1>7, <1>9

\* For any requests, uploads and faults a publish never names a deleted track,
\* unless a DeleteVideo of the upload failed after its first track or the two
\* overlapped (admin_video.go:294-296).
THEOREM VODRepublishMintsAnew == Spec => RepublishMintsAnew
<1>1. Init => GoneInv
  BY DEF Init, Idle, GoneInv
<1>2. BasicInv /\ CrossInv /\ KnownInv /\ PrivateInv /\ GoneInv /\ [Next]_vars => GoneInv'
  BY GoneStep, EveryCallKind DEF BasicInv
<1> DEFINE Anew ==
      \A v \in video' \ video :
        \/ v.source \cap gone = {}
        \/ v.up \in torn
        \/ \E p \in Procs : call[p].at = "put" /\ Key(p) = v.key /\ call[p].crossed
<1>3. BasicInv /\ GoneInv /\ [Next]_vars => Anew
  <2> SUFFICES ASSUME BasicInv, GoneInv, [Next]_vars, NEW v \in video', v \notin video
               PROVE  \/ v.source \cap gone = {}
                      \/ v.up \in torn
                      \/ \E p \in Procs : call[p].at = "put" /\ Key(p) = v.key /\ call[p].crossed
    BY DEF Anew
  <2>1. CallKinds
    BY EveryCallKind DEF BasicInv
  <2>2. PICK p \in Procs :
          call[p].at = "put" /\ v = [key |-> Key(p), up |-> call[p].up, source |-> call[p].src]
    BY <2>1, NewVideo
  <2>3. v.key = Key(p) /\ v.up = call[p].up /\ v.source = call[p].src
    BY <2>2
  <2> QED BY <2>2, <2>3 DEF GoneInv
<1>4. BasicInv /\ GoneInv /\ [Next]_vars => [Anew]_vars
  BY <1>3
<1>5. Spec => []GoneInv
  BY <1>1, <1>2, VODBasic, VODCross, VODKnown, PTL DEF Spec
<1>6. Spec => [][Anew]_vars
  BY <1>4, <1>5, VODBasic, PTL DEF Spec
<1> QED BY <1>6 DEF RepublishMintsAnew

-----------------------------------------------------------------------------
(***************************************************************************)
(* One video for each request.                                             *)
(***************************************************************************)
\* What a step can do to the row, the task and the draft of an upload: only its
\* own finalize by hand decides what is wanted, and a draft appears only when
\* that finalize, or a publish that failed, makes one.
RowMove(u) ==
  /\ wants'[u] = wants[u] \/ (u \in Hands /\ hand[u] = "idle")
  /\ u \in Hands /\ hand'[u] = "idle" => hand[u] = "idle"
  /\ u \in Hands /\ hand'[u] = "draft" => (hand[u] = "draft" /\ wants'[u] = wants[u]) \/ ~wants'[u]
  /\ draft'[u] # "none" =>
       \/ draft[u] # "none"
       \/ u \in Hands /\ hand[u] = "draft"
       \/ task[u] = "publishing" /\ call[u].at = "failed"
  /\ task'[u] \in {"publish", "publishing"} =>
       task[u] \in {"publish", "publishing"} \/ (task[u] = "mark" /\ wants[u])
  /\ task[u] \in {"publishing", "mark", "completed", "left"} =>
       task'[u] \in {"publishing", "mark", "completed", "left"} \/ call[u].at = "idle"
  /\ task[u] = "left" => task'[u] = "left"

\* Every step does that much.
LEMMA EveryRowMove ==
  ASSUME RowTypes, YieldInv, [Next]_vars, NEW u \in Uploads
  PROVE  RowMove(u)
<1>0. AutoUpload \in Uploads /\ AutoUpload \notin Hands /\ \A h \in Hands : h \in Uploads
  BY VODAssumption DEF Uploads
<1>1. ASSUME wants' = wants, hand' = hand, task' = task, draft' = draft PROVE RowMove(u)
  BY <1>1 DEF RowMove
<1>2. CASE UNCHANGED vars
  BY <1>1, <1>2 DEF vars, rows
<1>3. CASE ObjectCompletes
  BY <1>1, <1>3 DEF ObjectCompletes, rows
<1>4. CASE ScheduleAutoPublishVOD \/ AutoSkips \/ AutoLists \/ AutoLooks \/ AutoStops \/ AutoCreates
  BY <1>1, <1>4 DEF ScheduleAutoPublishVOD, AutoSkips, AutoLists, AutoLooks, AutoStops, AutoCreates, AutoKeeps, rows
<1>5. CASE AutoEnqueues
  <2>1. wants' = wants /\ hand' = hand /\ draft' = draft
    BY <1>5 DEF AutoEnqueues, AutoKeeps
  <2>2. task'[u] = task[u] \/ (task[u] = "none" /\ task'[u] = "queued")
    BY <1>0, <1>5 DEF AutoEnqueues, RowTypes
  <2> QED BY <2>1, <2>2 DEF RowMove
<1>6. ASSUME NEW h \in Hands, HandAsks(h) \/ HandStep(h) \/ HandFails(h) PROVE RowMove(u)
  <2>1. CASE HandAsks(h)
    <3>1. hand[h] = "idle" /\ hand' = [hand EXCEPT ![h] = "create"] /\ task' = task /\ draft' = draft
      BY <2>1 DEF HandAsks, rows
    <3>2. u # h => wants'[u] = wants[u]
      BY <2>1 DEF HandAsks, RowTypes
    <3> QED BY <3>1, <3>2 DEF RowMove, RowTypes
  <2>2. CASE HandCreates(h)
    <3>1. /\ hand[h] = "create" /\ hand' = [hand EXCEPT ![h] = IF wants[h] THEN "enqueue" ELSE "draft"]
          /\ wants' = wants /\ task' = task /\ draft' = draft
      BY <2>2 DEF HandCreates
    <3>2. u \in Hands => hand'[u] = IF u = h THEN (IF wants[h] THEN "enqueue" ELSE "draft") ELSE hand[u]
      BY <3>1 DEF RowTypes
    <3>3. u \in Hands /\ hand'[u] = "draft" => hand[u] = "draft" \/ ~wants[u]
      BY <3>2
    <3>4. u \in Hands /\ hand'[u] = "idle" => hand[u] = "idle"
      BY <3>2
    <3> QED BY <3>1, <3>3, <3>4 DEF RowMove
  <2>3. CASE HandDrafts(h)
    <3>1. /\ hand[h] = "draft" /\ hand' = [hand EXCEPT ![h] = "enqueue"]
          /\ draft' = [draft EXCEPT ![h] = "processing"] /\ wants' = wants /\ task' = task
      BY <2>3 DEF HandDrafts
    <3> QED BY <1>0, <3>1 DEF RowMove, RowTypes
  <2>4. CASE HandEnqueues(h)
    <3>1. /\ hand[h] = "enqueue" /\ hand' = [hand EXCEPT ![h] = "done"]
          /\ task' = [task EXCEPT ![h] = "queued"] /\ wants' = wants /\ draft' = draft
      BY <2>4 DEF HandEnqueues
    <3>2. task[h] = "none"
      BY <3>1 DEF YieldInv
    <3> QED BY <1>0, <3>1, <3>2 DEF RowMove, RowTypes
  <2>5. CASE HandFails(h)
    <3>1. /\ hand' = [hand EXCEPT ![h] = "done"] /\ wants' = wants /\ task' = task
          /\ draft' = draft \/ draft' = [draft EXCEPT ![h] = "none"]
      BY <2>5 DEF HandFails
    <3> QED BY <1>0, <3>1 DEF RowMove, RowTypes
  <2> QED BY <1>6, <2>1, <2>2, <2>3, <2>4, <2>5 DEF HandStep
<1>7. ASSUME NEW c \in Calls,
             AskDeleteVideo(c) \/ \E w \in Uploads : AskPublishVideo(c, w) \/ AskPublishDraft(c, w)
      PROVE  RowMove(u)
  BY <1>1, <1>7, AskSteps
<1>8. ASSUME wants' = wants, hand' = hand, task' = task, draft'[u] = draft[u] \/ draft'[u] = "none"
      PROVE  RowMove(u)
  BY <1>8 DEF RowMove
<1>9. ASSUME NEW p \in Procs, CallStep(p) \/ MintFails(p) \/ PutFails(p) \/ CutFails(p) PROVE RowMove(u)
  <2>1. /\ wants' = wants /\ hand' = hand /\ task' = task
        /\ draft' = draft \/ draft' = [draft EXCEPT ![call[p].up] = "none"]
    BY <1>9, CallSteps
  <2>2. draft'[u] = draft[u] \/ draft'[u] = "none"
    BY <2>1 DEF RowTypes
  <2> QED BY <1>8, <2>1, <2>2
\* The steps of a task.
<1>10. ASSUME NEW w \in Uploads, wants' = wants, hand' = hand,
              NEW s, task' = [task EXCEPT ![w] = s],
              task[w] # "left",
              s \in {"publish", "publishing"} => task[w] = "publish" \/ (task[w] = "mark" /\ wants[w]),
              task[w] \in {"publishing", "mark", "completed"} =>
                s \in {"publishing", "mark", "completed", "left"} \/ call[w].at = "idle",
              \/ draft'[u] = draft[u]
              \/ draft[u] # "none"
              \/ u = w /\ task[w] = "publishing" /\ call[w].at = "failed"
       PROVE  RowMove(u)
  BY <1>10 DEF RowMove, RowTypes
<1>11. ASSUME NEW w \in Uploads, TaskStep(w) PROVE RowMove(u)
  <2>0. wants' = wants /\ hand' = hand
    BY <1>11 DEF TaskStep, FinalizeStarts, FinalizeFails, FinalizeDone, MarkDraftReady, PublishStarts, PublishEnds, TaskKeeps
  <2>1. CASE FinalizeStarts(w) \/ FinalizeDone(w)
    <3>1. /\ draft' = draft
          /\ \/ task[w] = "queued" /\ task' = [task EXCEPT ![w] = "work"]
             \/ task[w] = "work" /\ task' = [task EXCEPT ![w] = "mark"]
      BY <2>1 DEF FinalizeStarts, FinalizeDone
    <3> QED BY <1>10, <2>0, <3>1
  <2>2. CASE FinalizeFails(w)
    <3>1. /\ task[w] = "work" /\ task' = [task EXCEPT ![w] = "completed"]
          /\ draft' = draft \/ draft' = [draft EXCEPT ![w] = Failed(draft[w])]
      BY <2>2 DEF FinalizeFails
    <3>2. draft'[u] = draft[u] \/ draft[u] # "none"
      BY <3>1 DEF Failed, RowTypes
    <3> QED BY <1>10, <2>0, <3>1, <3>2
  <2>3. CASE MarkDraftReady(w)
    <3>1. /\ task[w] = "mark"
          /\ draft' = draft \/ draft' = [draft EXCEPT ![w] = IF draft[w] = "none" THEN draft[w] ELSE "ready"]
          /\ \/ wants[w] /\ call[w].at = "idle" /\ task' = [task EXCEPT ![w] = "publish"]
             \/ task' = [task EXCEPT ![w] = "completed"]
      BY <2>3 DEF MarkDraftReady
    <3>2. draft'[u] = draft[u] \/ draft[u] # "none"
      BY <3>1 DEF RowTypes
    <3> QED BY <1>10, <2>0, <3>1, <3>2
  <2>4. CASE PublishStarts(w)
    <3>1. task[w] = "publish" /\ task' = [task EXCEPT ![w] = "publishing"] /\ draft' = draft
      BY <2>4 DEF PublishStarts
    <3> QED BY <1>10, <2>0, <3>1
  <2>5. CASE PublishEnds(w)
    <3>1. /\ task[w] = "publishing"
          /\ task' = [task EXCEPT ![w] = "completed"] \/ task' = [task EXCEPT ![w] = "mark"]
          /\ \/ draft' = draft
             \/ call[w].at = "failed" /\ draft' = [draft EXCEPT ![w] = "processing"]
      BY <2>5 DEF PublishEnds, LeaveDraft
    <3>2. draft'[u] = draft[u] \/ (u = w /\ call[w].at = "failed")
      BY <3>1 DEF RowTypes
    <3> QED BY <1>10, <2>0, <3>1, <3>2
  <2> QED BY <1>11, <2>1, <2>2, <2>3, <2>4, <2>5 DEF TaskStep
<1>12. ASSUME NEW w \in Uploads, WorkerStops(w) PROVE RowMove(u)
  <2>1. /\ wants' = wants /\ hand' = hand /\ draft' = draft
        /\ task[w] # "left" /\ task' = [task EXCEPT ![w] = "left"]
    BY <1>12 DEF WorkerStops, TaskKeeps
  <2> QED BY <1>10, <2>1
<1>13. ASSUME NEW w \in Uploads, DeleteDraft(w) PROVE RowMove(u)
  <2>1. /\ wants' = wants /\ hand' = hand /\ task' = task /\ draft' = [draft EXCEPT ![w] = "none"]
    BY <1>13 DEF DeleteDraft, CallKeeps
  <2>2. draft'[u] = draft[u] \/ draft'[u] = "none"
    BY <2>1 DEF RowTypes
  <2> QED BY <1>8, <2>1, <2>2
<1> QED
  BY <1>2, <1>3, <1>4, <1>5, <1>6, <1>7, <1>9, <1>11, <1>12, <1>13 DEF Next, AutoStep

\* A call that is over stays over, and what it was asked for is not changed; only
\* the end of its worker makes one that is done a failed one.
LEMMA OverKept ==
  ASSUME BasicInv, CallKinds, NEW p \in Procs, call[p].at \in {"done", "failed"}
  PROVE  /\ call'[p].op = call[p].op /\ call'[p].up = call[p].up
         /\ call'[p].at = call[p].at \/ (p \in Uploads /\ WorkerStops(p) /\ call'[p].at = "failed")
<1> USE DEF BasicInv
<1>0. (\A u \in Uploads : u \in Procs) /\ (\A c \in Calls : c \in Procs)
  BY DEF Procs
<1> DEFINE Same == call'[p].op = call[p].op /\ call'[p].up = call[p].up /\ call'[p].at = call[p].at
<1>1. CASE UNCHANGED CallSide
  BY <1>1 DEF CallSide
<1>2. ASSUME NEW q \in Procs, Alone(q), q # p PROVE Same
  BY <1>2 DEF Alone
<1>3. ASSUME NEW q \in Procs, NEW u \in Uploads, NEW op \in {"video", "draft"}, PublishBegins(q, op, u)
      PROVE  Same
  <2>1. call[q].at = "idle" /\ \A r \in Procs : r # q => Undisturbed(r)
    BY <1>3, PublishBeginsEffect
  <2> QED BY <2>1 DEF Undisturbed
<1>4. ASSUME NEW c \in Calls, NEW v \in video, DeleteBegins(c, v) PROVE Same
  <2>1. c \in Procs /\ call[c].at = "idle"
    BY <1>4, DeleteBeginsEffect
  <2>2. CASE \A q \in Procs : q # c => Undisturbed(q)
    BY <2>1, <2>2 DEF Undisturbed
  <2>3. CASE call' = [call EXCEPT ![c].at = "done"]
    <3>1. Alone(c)
      BY <2>1, <2>3 DEF CallTypes, CallRecords, Alone
    <3> QED BY <1>2, <2>1, <3>1
  <2> QED BY <1>4, <2>2, <2>3, DeleteBeginsEffect
<1>5. ASSUME NEW q \in Procs,
             \/ Mint(q) \/ Remember(q) \/ Put(q) \/ Tidy(q) \/ Cut(q) \/ Forget(q)
             \/ MintFails(q) \/ PutFails(q) \/ CutFails(q)
      PROVE  Same
  <2>1. call[q].at \notin {"done", "failed"}
    BY <1>5, MintEffect, RememberEffect, PutEffect, TidyEffect, CutEffect, ForgetEffect,
       MintFailsEffect, PutFailsEffect, CutFailsEffect
  <2>2. Alone(q)
    BY <1>5, MintEffect, RememberEffect, PutEffect, TidyEffect, CutEffect, ForgetEffect,
       MintFailsEffect, PutFailsEffect, CutFailsEffect DEF GoesOn, Over
  <2> QED BY <1>2, <2>1, <2>2
<1>6. ASSUME NEW u \in Uploads, WorkerStops(u)
      PROVE  Same \/ (p = u /\ call'[p].op = call[p].op /\ call'[p].up = call[p].up /\ call'[p].at = "failed")
  <2>1. Over(u, "failed")
    BY <1>6, WorkerStopsEffect
  <2> QED BY <1>0, <1>2, <2>1 DEF Over
<1> QED BY <1>1, <1>3, <1>4, <1>5, <1>6 DEF CallKinds

\* The kinds of calls: at most one is decided in a step, and to publish a draft
\* takes a ready one.
LEMMA OpMoves ==
  ASSUME BasicInv, CallKinds
  PROVE  /\ \E p \in Procs : \A q \in Procs : q # p => call'[q].op = call[q].op
         /\ \A p \in Procs : call'[p].op = "draft" =>
              (call[p].op = "draft" /\ call'[p].up = call[p].up) \/ draft[call'[p].up] = "ready"
<1> USE DEF BasicInv
<1> DEFINE Rest(p) == \A q \in Procs : q # p => call'[q].op = call[q].op /\ call'[q].up = call[q].up
           Goal == /\ \E p \in Procs : \A q \in Procs : q # p => call'[q].op = call[q].op
                   /\ \A p \in Procs : call'[p].op = "draft" =>
                        (call[p].op = "draft" /\ call'[p].up = call[p].up) \/ draft[call'[p].up] = "ready"
<1>0. (\A u \in Uploads : u \in Procs) /\ (\A c \in Calls : c \in Procs) /\ AutoUpload \in Uploads
  BY DEF Procs, Uploads
<1>1. CASE UNCHANGED CallSide
  BY <1>0, <1>1 DEF CallSide
<1>2. ASSUME NEW p \in Procs, Rest(p), call'[p].op = "draft" => draft[call'[p].up] = "ready" PROVE Goal
  BY <1>2
<1>3. ASSUME NEW p \in Procs, Alone(p), call'[p].op = call[p].op, call'[p].up = call[p].up PROVE Goal
  BY <1>3 DEF Alone
<1>4. ASSUME NEW p \in Procs, NEW u \in Uploads, NEW op \in {"video", "draft"}, PublishBegins(p, op, u)
      PROVE  Goal
  <2>1. call'[p].op = op /\ call'[p].up = u /\ \A q \in Procs : q # p => Undisturbed(q)
    BY <1>4, PublishBeginsEffect
  <2>2. op = "draft" => draft[u] = "ready"
    BY <1>4 DEF PublishBegins
  <2>3. Rest(p)
    BY <2>1 DEF Undisturbed
  <2> QED BY <1>2, <2>1, <2>2, <2>3
<1>5. ASSUME NEW c \in Calls, NEW v \in video, DeleteBegins(c, v) PROVE Goal
  <2>1. c \in Procs
    BY <1>5, DeleteBeginsEffect
  <2>2. CASE call'[c].op = "delete" /\ \A q \in Procs : q # c => Undisturbed(q)
    <3>1. Rest(c)
      BY <2>2 DEF Undisturbed
    <3> QED BY <1>2, <2>1, <2>2, <3>1
  <2>3. CASE call' = [call EXCEPT ![c].at = "done"]
    <3>1. Alone(c) /\ call'[c].op = call[c].op /\ call'[c].up = call[c].up
      BY <2>1, <2>3 DEF CallTypes, CallRecords, Alone
    <3> QED BY <1>3, <2>1, <3>1
  <2> QED BY <1>5, <2>2, <2>3, DeleteBeginsEffect
<1>6. ASSUME NEW q \in Procs,
             \/ Mint(q) \/ Remember(q) \/ Put(q) \/ Tidy(q) \/ Cut(q) \/ Forget(q)
             \/ MintFails(q) \/ PutFails(q) \/ CutFails(q)
      PROVE  Goal
  <2> DEFINE Stays == Alone(q) /\ call'[q].op = call[q].op /\ call'[q].up = call[q].up
  <2>1. CASE Mint(q) \/ Remember(q)
    <3>1. Stays
      BY <2>1, MintEffect, RememberEffect DEF GoesOn
    <3> QED BY <1>3, <3>1
  <2>2. CASE Put(q)
    <3>1. Stays
      BY <2>2, PutEffect DEF GoesOn, Over
    <3> QED BY <1>3, <3>1
  <2>3. CASE Cut(q)
    <3>1. Stays
      BY <2>3, CutEffect
    <3> QED BY <1>3, <3>1
  <2>4. CASE Tidy(q) \/ Forget(q) \/ MintFails(q) \/ PutFails(q) \/ CutFails(q)
    <3>1. Stays
      BY <2>4, TidyEffect, ForgetEffect, MintFailsEffect, PutFailsEffect, CutFailsEffect DEF Over
    <3> QED BY <1>3, <3>1
  <2> QED BY <1>6, <2>1, <2>2, <2>3, <2>4
<1>7. ASSUME NEW u \in Uploads, WorkerStops(u) PROVE Goal
  <2>1. Over(u, "failed")
    BY <1>7, WorkerStopsEffect
  <2> QED BY <1>0, <1>3, <2>1 DEF Over
<1> QED BY <1>1, <1>4, <1>5, <1>6, <1>7 DEF CallKinds

\* The upload has, and had, no draft.
NoDraft(u) ==
  /\ draft[u] = "none"
  /\ \A p \in Procs : call[p].op = "draft" => call[p].up # u
  /\ \A v \in video : v.key # <<u, "draft">>

\* The draft of an upload that is to be published directly appears only once
\* the publish has failed.
DraftInv ==
  /\ \A u \in Uploads : task[u] \in {"publish", "publishing"} => wants[u]
  /\ \A h \in Hands : hand[h] = "draft" => ~ wants[h]
  /\ \A u \in Uploads : call[u].at # "failed" /\ (wants[u] \/ (u \in Hands /\ hand[u] = "idle")) => NoDraft(u)

\* Every video record is under the key of a draft or of a call that is over;
\* beside a video its task has published an upload has no draft, unless an
\* answer was lost.
KeyInv ==
  /\ \A v, w \in video : v.key = w.key => v = w
  /\ \A v \in video :
       \/ v.key = <<v.up, "draft">>
       \/ \E p \in Calls \cup {v.up} :
            /\ v.key = <<p, "tid">> /\ call[p].op = "video" /\ call[p].up = v.up
            /\ call[p].at \in {"done", "failed"}
  /\ \A v \in video : \A u \in Uploads : v.key = <<u, "tid">> =>
       /\ wants[u] /\ task[u] \in {"publishing", "mark", "completed", "left"}
       /\ lost[u] = 0 => NoDraft(u) /\ (call[u].at = "done" \/ task[u] = "left")

\* Only finitely many requests to publish a video have been made.
FewCalls == IsFiniteSet({c \in Calls : call[c].op = "video"})

\* A draft comes into being in two ways only.
LEMMA NoDraftKept ==
  ASSUME BasicInv, CallKinds, NEW u \in Uploads, NoDraft(u), RowMove(u),
         ~(u \in Hands /\ hand[u] = "draft"), ~(task[u] = "publishing" /\ call[u].at = "failed")
  PROVE  NoDraft(u)'
<1>1. draft'[u] = "none"
  BY DEF NoDraft, RowMove
<1>2. ASSUME NEW p \in Procs, call'[p].op = "draft" PROVE call'[p].up # u
  <2>1. (call[p].op = "draft" /\ call'[p].up = call[p].up) \/ draft[call'[p].up] = "ready"
    BY <1>2, OpMoves
  <2> QED BY <2>1 DEF NoDraft
<1>3. ASSUME NEW v \in video', v.key = <<u, "draft">> PROVE FALSE
  <2>1. v \notin video
    BY <1>3 DEF NoDraft
  <2>2. PICK p \in Procs :
          call[p].at = "put" /\ v = [key |-> Key(p), up |-> call[p].up, source |-> call[p].src]
    BY <2>1, NewVideo
  <2>3. Key(p) = <<u, "draft">>
    BY <1>3, <2>2
  <2>4. call[p].op = "draft" /\ call[p].up = u
    BY <2>3 DEF Key
  <2> QED BY <2>4 DEF NoDraft
<1> QED BY <1>1, <1>2, <1>3 DEF NoDraft

\* No draft appears before its time.
LEMMA DraftStep ==
  ASSUME RowTypes, YieldInv, BasicInv, DraftInv, CallKinds, [Next]_vars
  PROVE  DraftInv'
<1>0. \A h \in Hands : h \in Uploads
  BY DEF Uploads
<1>1. ASSUME NEW u \in Uploads PROVE RowMove(u)
  BY EveryRowMove
<1>2. ASSUME NEW u \in Uploads, task'[u] \in {"publish", "publishing"} PROVE wants'[u]
  <2>1. task[u] \in {"publish", "publishing"} \/ (task[u] = "mark" /\ wants[u])
    BY <1>1, <1>2 DEF RowMove
  <2>2. wants[u]
    BY <2>1 DEF DraftInv
  <2>3. task[u] # "none"
    BY <2>1
  <2> QED BY <1>1, <2>2, <2>3 DEF RowMove, YieldInv
<1>3. ASSUME NEW h \in Hands, hand'[h] = "draft" PROVE ~wants'[h]
  <2>1. (hand[h] = "draft" /\ wants'[h] = wants[h]) \/ ~wants'[h]
    BY <1>0, <1>1, <1>3 DEF RowMove
  <2> QED BY <2>1 DEF DraftInv
<1>4. ASSUME NEW u \in Uploads, call'[u].at # "failed",
             wants'[u] \/ (u \in Hands /\ hand'[u] = "idle")
      PROVE  NoDraft(u)'
  <2>1. u \in Procs
    BY DEF Procs
  <2>2. call[u].at # "failed"
    BY <1>4, <2>1, OverKept
  <2>3. wants[u] \/ (u \in Hands /\ hand[u] = "idle")
    BY <1>1, <1>4 DEF RowMove
  <2>4. NoDraft(u)
    BY <2>2, <2>3 DEF DraftInv
  <2>5. ~(u \in Hands /\ hand[u] = "draft")
    BY <2>3 DEF DraftInv
  <2> QED BY <1>1, <2>2, <2>4, <2>5, NoDraftKept
<1> QED BY <1>2, <1>3, <1>4 DEF DraftInv

\* Lost answers are only counted up.
LEMMA LostGrows ==
  ASSUME BasicInv, CallKinds, NEW u \in Uploads, lost'[u] = 0
  PROVE  lost[u] = 0
<1> USE DEF BasicInv
<1>0. lost \in [Uploads -> Nat]
  BY DEF CallTypes
<1>1. UNCHANGED CallSide => lost' = lost
  BY DEF CallSide
<1>2. ASSUME NEW p \in Procs, NEW w \in Uploads, NEW op \in {"video", "draft"}, PublishBegins(p, op, w)
      PROVE  lost' = lost
  BY <1>2, PublishBeginsEffect
<1>3. ASSUME NEW c \in Calls, NEW v \in video, DeleteBegins(c, v) PROVE lost' = lost
  BY <1>3, DeleteBeginsEffect
<1>4. ASSUME NEW p \in Procs,
             \/ Mint(p) \/ Remember(p) \/ Put(p) \/ Tidy(p) \/ Cut(p) \/ Forget(p) \/ MintFails(p) \/ CutFails(p)
      PROVE  lost' = lost
  BY <1>4, MintEffect, RememberEffect, PutEffect, TidyEffect, CutEffect, ForgetEffect, MintFailsEffect, CutFailsEffect
<1>5. ASSUME NEW w \in Uploads, WorkerStops(w) PROVE lost' = lost
  BY <1>5, WorkerStopsEffect
<1>6. ASSUME NEW p \in Procs, PutFails(p) PROVE lost[u] = 0
  <2>1. lost' = lost \/ lost' = Unanswered(p)
    BY <1>6, PutFailsEffect
  <2> QED BY <1>0, <2>1 DEF Unanswered
<1> QED BY <1>1, <1>2, <1>3, <1>4, <1>5, <1>6 DEF CallKinds

\* No record changes its kind of key, and no draft joins a video that a task has
\* published.
LEMMA KeyStep ==
  ASSUME RowTypes, YieldInv, BasicInv, DraftInv, KeyInv, CallKinds, [Next]_vars
  PROVE  KeyInv'
<1>0. (\A u \in Uploads : u \in Procs) /\ (\A c \in Calls : c \in Procs) /\ \A h \in Hands : h \in Uploads
  BY DEF Procs, Uploads
<1>1. ASSUME NEW u \in Uploads PROVE RowMove(u)
  BY EveryRowMove
<1>2. ASSUME NEW v \in video PROVE v.up \in Uploads
  BY DEF BasicInv, CallTypes
\* The keys stay different.
<1>3. ASSUME NEW v \in video', NEW w \in video', v.key = w.key PROVE v = w
  <2>1. CASE v \in video /\ w \in video
    BY <1>3, <2>1 DEF KeyInv
  <2>2. ASSUME NEW x \in video', NEW y \in video', x.key = y.key, x \notin video PROVE x = y
    <3>1. PICK p \in Procs :
            /\ Put(p) \/ PutFails(p)
            /\ x = [key |-> Key(p), up |-> call[p].up, source |-> call[p].src]
      BY <2>2, NewVideo
    <3>2. video' = Published(p) \/ video' = video
      BY <3>1, PutEffect, PutFailsEffect DEF BasicInv
    <3>3. y \in Published(p)
      BY <2>2, <3>2
    <3>4. y.key = Key(p)
      BY <2>2, <3>1
    <3> QED BY <3>1, <3>3, <3>4 DEF Published
  <2> QED BY <1>3, <2>1, <2>2
\* What puts a new record is over with it, unless it publishes a draft.
<1>4. ASSUME NEW v \in video', v \notin video
      PROVE  \E p \in Procs :
               /\ Put(p) \/ (PutFails(p) /\ lost' = Unanswered(p))
               /\ call[p].at = "put" /\ v.key = Key(p) /\ v.up = call[p].up
               /\ p \in Uploads => call[p].up = p /\ task[p] = "publishing"
               /\ call[p].op = "draft"
                    \/ (call[p].op = "video" /\ call'[p].op = "video" /\ call'[p].up = call[p].up
                        /\ call'[p].at = (IF Put(p) THEN "done" ELSE "failed"))
  <2>1. PICK p \in Procs :
          /\ Put(p) \/ PutFails(p)
          /\ call[p].at = "put"
          /\ v = [key |-> Key(p), up |-> call[p].up, source |-> call[p].src]
    BY <1>4, NewVideo
  <2>2. v.key = Key(p) /\ v.up = call[p].up
    BY <2>1
  <2>3. p \in Uploads => call[p].up = p /\ task[p] = "publishing"
    BY <2>1 DEF BasicInv, WorkerInv, Active
  <2>4. call[p].op \in {"video", "draft"}
    BY <2>1 DEF BasicInv, OwnInv
  <2>5. CASE Put(p)
    <3>1. call[p].op # "draft" => Over(p, "done")
      BY <2>5, PutEffect DEF BasicInv
    <3>2. call[p].op # "draft" => call'[p].op = call[p].op /\ call'[p].up = call[p].up /\ call'[p].at = "done"
      BY <3>1 DEF Over
    <3> QED BY <2>1, <2>2, <2>3, <2>4, <2>5, <3>2
  <2>6. CASE PutFails(p) /\ ~Put(p)
    <3>1. /\ Over(p, "failed")
          /\ video' = video \/ lost' = Unanswered(p)
      BY <2>6, PutFailsEffect DEF BasicInv
    <3>2. lost' = Unanswered(p)
      BY <1>4, <3>1
    <3>3. call'[p].op = call[p].op /\ call'[p].up = call[p].up /\ call'[p].at = "failed"
      BY <3>1 DEF Over
    <3> QED BY <2>1, <2>2, <2>3, <2>4, <2>6, <3>2, <3>3
  <2> QED BY <2>1, <2>5, <2>6
<1>5. ASSUME NEW v \in video'
      PROVE  \/ v.key = <<v.up, "draft">>
             \/ \E p \in Calls \cup {v.up} :
                  /\ v.key = <<p, "tid">> /\ call'[p].op = "video" /\ call'[p].up = v.up
                  /\ call'[p].at \in {"done", "failed"}
  <2>1. CASE v \in video
    <3>1. CASE v.key = <<v.up, "draft">>
      BY <3>1
    <3>2. CASE \E p \in Calls \cup {v.up} :
                 /\ v.key = <<p, "tid">> /\ call[p].op = "video" /\ call[p].up = v.up
                 /\ call[p].at \in {"done", "failed"}
      <4>1. PICK p \in Calls \cup {v.up} :
              /\ v.key = <<p, "tid">> /\ call[p].op = "video" /\ call[p].up = v.up
              /\ call[p].at \in {"done", "failed"}
        BY <3>2
      <4>2. p \in Procs
        BY <1>0, <1>2, <2>1
      <4>3. /\ call'[p].op = call[p].op /\ call'[p].up = call[p].up
            /\ call'[p].at \in {"done", "failed"}
        BY <4>1, <4>2, OverKept
      <4> QED BY <4>1, <4>3
    <3> QED BY <2>1, <3>1, <3>2 DEF KeyInv
  <2>2. CASE v \notin video
    <3>1. PICK p \in Procs :
               /\ v.key = Key(p) /\ v.up = call[p].up
               /\ p \in Uploads => call[p].up = p
               /\ call[p].op = "draft"
                    \/ (call[p].op = "video" /\ call'[p].op = "video" /\ call'[p].up = call[p].up
                        /\ call'[p].at \in {"done", "failed"})
      BY <1>4, <2>2
    <3>2. p \in Calls \cup {v.up}
      BY <3>1 DEF Procs
    <3> QED BY <3>1, <3>2 DEF Key
  <2> QED BY <2>1, <2>2
<1>6. ASSUME NEW v \in video', NEW u \in Uploads, v.key = <<u, "tid">>
      PROVE  /\ wants'[u] /\ task'[u] \in {"publishing", "mark", "completed", "left"}
             /\ lost'[u] = 0 => NoDraft(u)' /\ (call'[u].at = "done" \/ task'[u] = "left")
  <2>1. CASE v \in video
    <3>1. wants[u] /\ task[u] \in {"publishing", "mark", "completed", "left"}
      BY <1>6, <2>1 DEF KeyInv
    <3>2. call[u].at \in {"done", "failed"}
      BY <1>6, <2>1 DEF KeyInv
    <3>3. ~(u \in Hands /\ hand[u] = "idle") /\ ~(u \in Hands /\ hand[u] = "draft")
      BY <3>1 DEF YieldInv, DraftInv
    <3>4. wants'[u] /\ task'[u] \in {"publishing", "mark", "completed", "left"}
      BY <1>1, <3>1, <3>2, <3>3 DEF RowMove
    <3>5. ASSUME lost'[u] = 0 PROVE lost[u] = 0
      BY <3>5, LostGrows
    <3>6. ASSUME lost[u] = 0 PROVE NoDraft(u)' /\ (call'[u].at = "done" \/ task'[u] = "left")
      <4>1. NoDraft(u) /\ (call[u].at = "done" \/ task[u] = "left")
        BY <1>6, <2>1, <3>6 DEF KeyInv
      <4>2. NoDraft(u)'
        BY <1>1, <3>3, <4>1, NoDraftKept
      <4>3. task[u] = "left" => task'[u] = "left"
        BY <1>1 DEF RowMove
      <4>4. WorkerStops(u) => task'[u] = "left"
        BY WorkerStopsEffect DEF BasicInv, RowTypes
      <4>5. call'[u].at = call[u].at \/ WorkerStops(u)
        BY <1>0, <3>2, OverKept
      <4> QED BY <4>1, <4>2, <4>3, <4>4, <4>5
    <3> QED BY <3>4, <3>5, <3>6
  <2>2. CASE v \notin video
    <3>1. PICK p \in Procs :
               /\ Put(p) \/ (PutFails(p) /\ lost' = Unanswered(p))
               /\ call[p].at = "put" /\ v.key = Key(p)
               /\ p \in Uploads => call[p].up = p /\ task[p] = "publishing"
               /\ call[p].op = "draft" \/ call'[p].at = (IF Put(p) THEN "done" ELSE "failed")
      BY <1>4, <2>2
    <3>2. p = u /\ call[p].op # "draft"
      BY <1>6, <3>1 DEF Key
    <3>3. call[u].up = u /\ task[u] = "publishing" /\ call[u].at = "put"
      BY <3>1, <3>2
    <3>4. wants[u]
      BY <3>3 DEF DraftInv
    <3>5. UNCHANGED <<wants, task>>
      BY <3>1, CallSteps DEF CallStep
    <3>6. NoDraft(u)
      BY <3>3, <3>4 DEF DraftInv
    <3>7. ~(u \in Hands /\ hand[u] = "draft")
      BY <3>4 DEF DraftInv
    <3>8. NoDraft(u)'
      BY <1>1, <3>3, <3>6, <3>7, NoDraftKept
    <3>9. ASSUME lost'[u] = 0 PROVE call'[u].at = "done"
      <4>1. lost \in [Uploads -> Nat]
        BY DEF BasicInv, CallTypes
      <4>2. lost' # Unanswered(u)
        BY <3>9, <4>1 DEF Unanswered
      <4>3. Put(u)
        BY <3>1, <3>2, <3>3, <4>2
      <4> QED BY <3>1, <3>2, <4>3
    <3> QED BY <3>3, <3>4, <3>5, <3>8, <3>9
  <2> QED BY <2>1, <2>2
<1> QED BY <1>3, <1>5, <1>6 DEF KeyInv

\* A step adds at most one request to publish a video.
LEMMA FewCallsStep ==
  ASSUME BasicInv, FewCalls, CallKinds
  PROVE  FewCalls'
<1> DEFINE S == {c \in Calls : call[c].op = "video"}
           T == {c \in Calls : call'[c].op = "video"}
<1>1. PICK p \in Procs : \A q \in Procs : q # p => call'[q].op = call[q].op
  BY OpMoves
<1>2. T \subseteq S \cup {p}
  BY <1>1 DEF Procs
<1>3. IsFiniteSet(S)
  BY DEF FewCalls
<1>4. T = {c \in Calls : call[c].op = "video"}'
  OBVIOUS
<1> HIDE DEF S, T
<1>5. IsFiniteSet(S \cup {p})
  BY <1>3, FS_AddElement
<1>6. IsFiniteSet(T)
  BY <1>2, <1>5, FS_Subset
<1> QED BY <1>4, <1>6 DEF FewCalls

\* Of an upload with a draft's video and its task's video an answer was lost; so
\* its videos, told apart by their keys, are few.
LEMMA FewVideos ==
  ASSUME BasicInv, KeyInv, FewCalls, NEW u \in Uploads
  PROVE  Cardinality({v \in video : v.up = u})
           <= 1 + lost[u] + Cardinality({c \in Calls : call[c].op = "video" /\ call[c].up = u})
<1> DEFINE V == {v \in video : v.up = u}
           C == {c \in Calls : call[c].op = "video" /\ call[c].up = u}
           K == {<<c, "tid">> : c \in C}
           D == <<u, "draft">>
           T == <<u, "tid">>
<1>0. lost[u] \in Nat
  BY DEF BasicInv, CallTypes
<1>1. IsFiniteSet(C)
  <2>1. C \subseteq {c \in Calls : call[c].op = "video"}
    OBVIOUS
  <2> HIDE DEF C
  <2> QED BY <2>1, FS_Subset DEF FewCalls
<1>2. IsFiniteSet(K) /\ Cardinality(K) <= Cardinality(C)
  <2> DEFINE f == [c \in C |-> <<c, "tid">>]
  <2> HIDE DEF C
  <2>1. f \in Surjection(C, K)
    BY DEF Surjection
  <2> HIDE DEF f, K
  <2> QED BY <1>1, <2>1, FS_Surjection
<1>3. \A v \in V : v.key \in K \cup {D, T}
  <2> SUFFICES ASSUME NEW v \in V PROVE v.key \in K \cup {D, T}
    OBVIOUS
  <2>1. CASE v.key = <<v.up, "draft">>
    BY <2>1
  <2>2. CASE \E p \in Calls \cup {v.up} :
               v.key = <<p, "tid">> /\ call[p].op = "video" /\ call[p].up = v.up
    BY <2>2
  <2> QED BY <2>1, <2>2 DEF KeyInv
<1>4. \A v, w \in V : v.key = w.key => v = w
  BY DEF KeyInv
<1>5. lost[u] # 0 \/ (\A v \in V : v.key # D) \/ (\A v \in V : v.key # T)
  <2> SUFFICES ASSUME lost[u] = 0, NEW v \in V, v.key = D, NEW w \in V, w.key = T PROVE FALSE
    OBVIOUS
  <2>1. NoDraft(u)
    BY DEF KeyInv
  <2> QED BY <2>1 DEF NoDraft
\* The videos are no more than the keys they can have.
<1>6. ASSUME NEW S, IsFiniteSet(S), \A v \in V : v.key \in S PROVE Cardinality(V) <= Cardinality(S) /\ IsFiniteSet(V)
  <2> DEFINE f == [v \in V |-> v.key]
  <2> HIDE DEF V
  <2>1. f \in Injection(V, S)
    BY <1>4, <1>6 DEF Injection, IsInjective
  <2> HIDE DEF f
  <2> QED BY <1>6, <2>1, FS_Injection
<1>7. Cardinality(C) \in Nat /\ Cardinality(K) \in Nat
  BY <1>1, <1>2, FS_CardinalityType
<1> HIDE DEF V, C, K, D, T
<1>8. ASSUME NEW x PROVE IsFiniteSet(K \cup {x}) /\ Cardinality(K \cup {x}) <= Cardinality(K) + 1
                         /\ Cardinality(K \cup {x}) \in Nat
  <2>1. IsFiniteSet(K \cup {x}) /\ Cardinality(K \cup {x}) = IF x \in K THEN Cardinality(K) ELSE Cardinality(K) + 1
    BY <1>2, FS_AddElement
  <2> QED BY <1>7, <2>1
<1>9. /\ IsFiniteSet((K \cup {D}) \cup {T}) /\ Cardinality((K \cup {D}) \cup {T}) <= Cardinality(K) + 2
      /\ Cardinality((K \cup {D}) \cup {T}) \in Nat
  <2>1. /\ IsFiniteSet((K \cup {D}) \cup {T})
        /\ Cardinality((K \cup {D}) \cup {T}) =
             IF T \in K \cup {D} THEN Cardinality(K \cup {D}) ELSE Cardinality(K \cup {D}) + 1
    BY <1>8, FS_AddElement
  <2>2. Cardinality(K \cup {D}) <= Cardinality(K) + 1 /\ Cardinality(K \cup {D}) \in Nat
    BY <1>8
  <2> QED BY <1>7, <2>1, <2>2
<1>10. CASE lost[u] # 0
  <2>1. \A v \in V : v.key \in (K \cup {D}) \cup {T}
    BY <1>3
  <2>2. Cardinality(V) <= Cardinality((K \cup {D}) \cup {T}) /\ IsFiniteSet(V)
    BY <1>6, <1>9, <2>1
  <2>3. Cardinality(V) \in Nat
    BY <2>2, FS_CardinalityType
  <2>4. Cardinality(V) <= 1 + lost[u] + Cardinality(C)
    BY <1>0, <1>2, <1>7, <1>9, <1>10, <2>2, <2>3
  <2> QED BY <2>4 DEF V, C
<1>11. ASSUME NEW x, \A v \in V : v.key \in K \cup {x} PROVE Cardinality(V) <= 1 + lost[u] + Cardinality(C)
  <2>1. Cardinality(V) <= Cardinality(K \cup {x}) /\ IsFiniteSet(V)
    BY <1>6, <1>8, <1>11
  <2>2. Cardinality(V) \in Nat
    BY <2>1, FS_CardinalityType
  <2>3. Cardinality(K \cup {x}) <= Cardinality(K) + 1 /\ Cardinality(K \cup {x}) \in Nat
    BY <1>8
  <2> QED BY <1>0, <1>2, <1>7, <2>1, <2>2, <2>3
<1>12. CASE \A v \in V : v.key # D
  <2>1. Cardinality(V) <= 1 + lost[u] + Cardinality(C)
    BY <1>3, <1>11, <1>12
  <2> QED BY <2>1 DEF V, C
<1>13. CASE \A v \in V : v.key # T
  <2>1. Cardinality(V) <= 1 + lost[u] + Cardinality(C)
    BY <1>3, <1>11, <1>13
  <2> QED BY <2>1 DEF V, C
<1> QED BY <1>5, <1>10, <1>12, <1>13

\* For any requests, uploads and faults a finalized upload has one video record,
\* besides one for each call of publishVideo and one its task put without learning
\* of it: a draft published twice, with or without an answer, or left by a publish
\* that was refused, gives no second one (publish_draft.go:124-132).
THEOREM VODOneVideoPerRequest == Spec => []OneVideoPerRequest
<1>1. Init => DraftInv /\ KeyInv /\ FewCalls
  <2> SUFFICES ASSUME Init PROVE DraftInv /\ KeyInv /\ FewCalls
    OBVIOUS
  <2>1. /\ call = [p \in Procs |-> Idle] /\ video = {} /\ task = [u \in Uploads |-> "none"]
        /\ hand = [h \in Hands |-> "idle"] /\ draft = [u \in Uploads |-> "none"]
    BY DEF Init
  <2>2. \A p \in Procs : call[p].op = "none"
    BY <2>1 DEF Idle
  <2>3. \A u \in Uploads : NoDraft(u)
    BY <2>1, <2>2 DEF NoDraft
  <2>4. DraftInv
    BY <2>1, <2>3 DEF DraftInv
  <2>5. KeyInv
    BY <2>1 DEF KeyInv
  <2>6. {c \in Calls : call[c].op = "video"} = {}
    BY <2>2 DEF Procs
  <2>7. FewCalls
    BY <2>6, FS_EmptySet DEF FewCalls
  <2> QED BY <2>4, <2>5, <2>7
<1>2. RowTypes /\ YieldInv /\ BasicInv /\ DraftInv /\ KeyInv /\ FewCalls /\ [Next]_vars
        => (DraftInv /\ KeyInv /\ FewCalls)'
  BY DraftStep, KeyStep, FewCallsStep, EveryCallKind DEF BasicInv
<1>3. BasicInv /\ KeyInv /\ FewCalls => OneVideoPerRequest
  BY FewVideos DEF OneVideoPerRequest
<1> QED BY <1>1, <1>2, <1>3, VODRowTypes, VODYield, VODBasic, PTL DEF Spec

=============================================================================
