----------------------------- MODULE S3Uploader ------------------------------
(***************************************************************************)
(* pkg/s3/s3.go and pkg/statedb/s3_segment.go: the live recording of one   *)
(* stream.  Goroutines of the session queue segments (and cutover          *)
(* requests) on segCh; one upload loop writes them to multipart uploads,   *)
(* one S3 object after the other, and keeps a row per object from which    *)
(* finalize and clips read the recording back.                             *)
(*                                                                         *)
(* A segment is its number, which is also its start time, and its content  *)
(* is that number repeated Size times, so that an object's bytes tell which *)
(* segments they come from.  Each call to S3 or to the database is a step  *)
(* of its own and may fail; the loop's context is context.Background(), so *)
(* only Close ends it.                                                     *)
(***************************************************************************)
EXTENDS Naturals, SequencesExt

CONSTANTS
  MaxSegs,     \* bound: how many segments are recorded
  Size,        \* bytes of each segment
  PartSize,    \* liveUploadPartSize
  QueueCap,    \* capacity of segCh (16)
  Reorder,     \* bound: by how many places a sender can be overtaken
  MaxUris,     \* bound: livestream records the stream moves through
  MaxCutovers, \* bound: cutover requests
  MaxFaults,   \* bound: calls that fail
  Trouble      \* what can go wrong besides S3 refusing a call: "db" (a database
               \* call fails), "reply" (S3 completes the object but the answer
               \* is lost), "crash" (the node dies)

ASSUME UploaderAssumption ==
  /\ {MaxSegs, QueueCap, Reorder, MaxUris, MaxCutovers, MaxFaults} \subseteq Nat
  /\ PartSize \in Nat \ {0}
  /\ Size \in [1 .. MaxSegs -> Nat \ {0}]
  /\ Trouble \subseteq {"db", "reply", "crash"}

Segs == 1 .. MaxSegs
Objs == 1 .. MaxSegs      \* every attempt at an object is made for a segment
Uris == 0 .. MaxUris      \* 0: the livestream is not known yet
Cutover == 0              \* the cutover request, among the segments on segCh
End == MaxSegs + 1        \* segCh is closed and empty

Bytes(i) == [k \in 1 .. Size[i] |-> i]

VARIABLES
  uri,     \* livestreamURI
  tagged,  \* per segment: the values of livestreamURI from when AddSegment
           \* queued it until the loop was done with it (history)
  queue,   \* segCh
  sent,    \* segments AddSegment has queued
  asked,   \* how many cutovers were requested
  closed,  \* Close was called
  pc,      \* where the upload loop is
  cmd,     \* what it is working on
  objSeq,  \* attempts at an object
  cur,     \* current *activeUpload
  store,   \* what S3 holds under each object's key
  rows,    \* the s3_segments table
  dropped, \* segments dropped without being in any object
  faults,  \* how many calls have failed
  stuck    \* rows that a failed database call or the death of the node left
           \* as they were (history)

vars == <<uri, tagged, queue, sent, asked, closed, pc, cmd, objSeq, cur, store, rows, dropped, faults, stuck>>
inputs == <<uri, tagged, sent, asked, closed>>

\* No upload in progress.
Nil == [key |-> 0, uri |-> 0, row |-> 0, age |-> "young", buf |-> <<>>, parts |-> <<>>, index |-> <<>>]

\* No row for the object.
NoRow == [state |-> "none", uri |-> 0, start |-> 0, index |-> <<>>]

Init ==
  /\ uri = 0 /\ tagged = [i \in Segs |-> {}]
  /\ queue = <<>> /\ sent = {} /\ asked = 0 /\ closed = FALSE
  /\ pc = "idle" /\ cmd = Cutover
  /\ objSeq = 0 /\ cur = Nil
  /\ store = [o \in Objs |-> [state |-> "none", parts |-> <<>>]]
  /\ rows = [o \in Objs |-> NoRow]
  /\ dropped = {} /\ faults = 0 /\ stuck = {}

-----------------------------------------------------------------------------
(***************************************************************************)
(* The callers.                                                            *)
(***************************************************************************)
Alive == pc # "dead"

\* The segments that are queued or in the loop's hands.
Pending == ToSet(queue) \cup (IF pc = "idle" THEN {} ELSE {cmd})

SetLivestreamURI ==
  /\ Alive
  /\ uri < MaxUris
  /\ uri' = uri + 1
  /\ tagged' = [i \in Segs |-> IF i \in Pending THEN tagged[i] \cup {uri'} ELSE tagged[i]]
  /\ UNCHANGED <<queue, sent, asked, closed, pc, cmd, objSeq, cur, store, rows, dropped, faults, stuck>>

\* AddSegment, from a goroutine per segment: they overtake each other.
AddSegment(i) ==
  /\ Alive /\ ~closed
  /\ i \notin sent
  /\ \A j \in Segs : j + Reorder < i => j \in sent
  /\ Len(queue) < QueueCap
  /\ queue' = Append(queue, i)
  /\ sent' = sent \cup {i}
  /\ tagged' = [tagged EXCEPT ![i] = {uri}]
  /\ UNCHANGED <<uri, asked, closed, pc, cmd, objSeq, cur, store, rows, dropped, faults, stuck>>

\* S3Uploader.Cutover, when a segment arrives that is not published.
AskCutover ==
  /\ Alive /\ ~closed
  /\ asked < MaxCutovers
  /\ Len(queue) < QueueCap
  /\ queue' = Append(queue, Cutover)
  /\ asked' = asked + 1
  /\ UNCHANGED <<uri, tagged, sent, closed, pc, cmd, objSeq, cur, store, rows, dropped, faults, stuck>>

\* Close: no more segments; it waits for the loop's done.
Close ==
  /\ Alive /\ ~closed
  /\ closed' = TRUE
  /\ UNCHANGED <<uri, tagged, queue, sent, asked, pc, cmd, objSeq, cur, store, rows, dropped, faults, stuck>>

\* The current object has run for cutoverEvery.
GrowsOld ==
  /\ cur.key # 0 /\ cur.age = "young"
  /\ cur' = [cur EXCEPT !.age = "old"]
  /\ UNCHANGED <<inputs, queue, pc, cmd, objSeq, store, rows, dropped, faults, stuck>>

-----------------------------------------------------------------------------
(***************************************************************************)
(* The upload loop.  "flush", "last", "complete", "record" and "abort" are *)
(* the calls it makes on the current object.                               *)
(***************************************************************************)
\* Mutant: only age rolls an object over.
RollsOverByAge == cur.key # 0 /\ cur.age = "old"

\* handleSegment completes the current object before this segment.
RollsOver == cur.key # 0 /\ (cur.age = "old" \/ cur.uri # uri)

\* The segment is appended to the buffer and to the index.
Appended(u, i) == [u EXCEPT !.buf = @ \o Bytes(i), !.index = Append(@, i)]

\* Take a segment off segCh.
TakeSegment ==
  /\ pc = "idle"
  /\ queue # <<>> /\ Head(queue) # Cutover
  /\ cmd' = Head(queue)
  /\ queue' = Tail(queue)
  /\ IF RollsOver
     THEN pc' = "last" /\ UNCHANGED cur
     ELSE IF cur.key = 0
          THEN pc' = "create" /\ UNCHANGED cur
          ELSE pc' = "flush" /\ cur' = Appended(cur, cmd')
  /\ UNCHANGED <<inputs, objSeq, store, rows, dropped, faults, stuck>>

\* Mutant: completeUpload does not look whether there is an object.
TakeCutoverBlind ==
  /\ pc = "idle"
  /\ queue # <<>> /\ Head(queue) = Cutover
  /\ cmd' = Cutover
  /\ queue' = Tail(queue)
  /\ pc' = "last"
  /\ UNCHANGED <<inputs, objSeq, cur, store, rows, dropped, faults, stuck>>

\* Take a cutover request off segCh: complete the current object, if any.
TakeCutover ==
  /\ pc = "idle"
  /\ queue # <<>> /\ Head(queue) = Cutover
  /\ cmd' = Cutover
  /\ queue' = Tail(queue)
  /\ pc' = IF cur.key = 0 THEN "idle" ELSE "last"
  /\ UNCHANGED <<inputs, objSeq, cur, store, rows, dropped, faults, stuck>>

\* segCh is closed and drained: complete the current object and return.
TakeEnd ==
  /\ pc = "idle"
  /\ closed /\ queue = <<>>
  /\ cmd' = End
  /\ pc' = IF cur.key = 0 THEN "done" ELSE "last"
  /\ UNCHANGED <<inputs, queue, objSeq, cur, store, rows, dropped, faults, stuck>>

Fault == faults < MaxFaults /\ faults' = faults + 1

\* startUpload: CreateMultipartUpload.  On an error the segment is dropped.
Create ==
  /\ pc = "create"
  /\ objSeq' = objSeq + 1
  /\ \/ /\ store' = [store EXCEPT ![objSeq + 1].state = "open"]
        /\ pc' = "tag"
        /\ UNCHANGED <<dropped, faults>>
     \/ /\ Fault
        /\ dropped' = dropped \cup {cmd}
        /\ pc' = "idle"
        /\ UNCHANGED store
  /\ UNCHANGED <<inputs, queue, cmd, cur, rows, stuck>>

\* The activeUpload of a new object, tagged with the livestream of now.
Fresh(o, r) ==
  [key |-> o, uri |-> uri, row |-> r, age |-> "young", buf |-> <<>>, parts |-> <<>>, index |-> <<>>]

\* The row RecordStart creates for an object begun with segment i.
RecordStart(i) == [state |-> "open", uri |-> uri, start |-> i, index |-> <<>>]

\* startUpload, after S3's answer: tag the object, RecordStart, and append the
\* segment it was started for.  Without a row the upload goes on.
Tag ==
  /\ pc = "tag"
  /\ \/ /\ rows' = [rows EXCEPT ![objSeq] = RecordStart(cmd)]
        /\ cur' = Appended(Fresh(objSeq, objSeq), cmd)
        /\ UNCHANGED faults
     \/ /\ "db" \in Trouble /\ Fault
        /\ cur' = Appended(Fresh(objSeq, 0), cmd)
        /\ UNCHANGED rows
  /\ pc' = "flush"
  /\ UNCHANGED <<inputs, queue, cmd, objSeq, store, dropped, stuck>>

\* Mutant: the last byte of the part stays in the buffer.
RestOffByOne(buf, n) == SubSeq(buf, n, Len(buf))

\* What stays buffered once the first n bytes are uploaded.
Rest(buf, n) == SubSeq(buf, n + 1, Len(buf))

\* UploadPart of the first n buffered bytes; the parts are kept both by S3
\* and, as the list to complete the upload with, by the uploader.
UploadPart(n) ==
  LET part == SubSeq(cur.buf, 1, n) IN
  /\ cur' = [cur EXCEPT !.buf = Rest(@, n), !.parts = Append(@, n)]
  /\ store' = [store EXCEPT ![cur.key].parts = Append(@, part)]

\* Mutant: everything that is buffered is flushed once a part is full.
FlushAll ==
  /\ pc = "flush" /\ Len(cur.buf) >= PartSize
  /\ \/ UploadPart(Len(cur.buf)) /\ UNCHANGED <<pc, faults>>
     \/ Fault /\ pc' = "abort" /\ UNCHANGED <<cur, store>>
  /\ UNCHANGED <<inputs, queue, cmd, objSeq, rows, dropped, stuck>>

\* handleSegment flushes a part of exactly PartSize.
Flush ==
  /\ pc = "flush" /\ Len(cur.buf) >= PartSize
  /\ \/ UploadPart(PartSize) /\ UNCHANGED <<pc, faults>>
     \/ Fault /\ pc' = "abort" /\ UNCHANGED <<cur, store>>
  /\ UNCHANGED <<inputs, queue, cmd, objSeq, rows, dropped, stuck>>

\* handleSegment leaves what does not fill a part in the buffer.
Flushed ==
  /\ pc = "flush" /\ Len(cur.buf) < PartSize
  /\ pc' = "idle"
  /\ UNCHANGED <<inputs, queue, cmd, objSeq, cur, store, rows, dropped, faults, stuck>>

\* completeUpload flushes the rest of the buffer.  (An object without parts
\* would be aborted; a segment has bytes, so an object has parts.)
FlushLast ==
  /\ pc = "last"
  /\ \/ /\ IF cur.buf = <<>> THEN UNCHANGED <<cur, store>> ELSE UploadPart(Len(cur.buf))
        /\ pc' = "complete"
        /\ UNCHANGED faults
     \/ /\ cur.buf # <<>>
        /\ Fault /\ pc' = "abort" /\ UNCHANGED <<cur, store>>
  /\ UNCHANGED <<inputs, queue, cmd, objSeq, rows, dropped, stuck>>

\* CompleteMultipartUpload.
Complete ==
  /\ pc = "complete"
  /\ \/ /\ store' = [store EXCEPT ![cur.key].state = "object"]
        /\ pc' = "record"
        /\ UNCHANGED faults
     \/ Fault /\ pc' = "abort" /\ UNCHANGED store
     \/ /\ "reply" \in Trouble /\ Fault
        /\ store' = [store EXCEPT ![cur.key].state = "object"]
        /\ pc' = "abort"
  /\ UNCHANGED <<inputs, queue, cmd, objSeq, cur, rows, dropped, stuck>>

\* Mutant: the segment that made the object roll over is forgotten.
ResumeIdle == IF cmd = End THEN "done" ELSE "idle"

\* Where the loop goes once the current object is completed.
Resume == CASE cmd \in Segs -> "create" [] cmd = Cutover -> "idle" [] cmd = End -> "done"

Earliest(index) == CHOOSE i \in ToSet(index) : \A j \in ToSet(index) : i <= j

\* RecordComplete stores the index and moves started_at to its earliest segment.
RecordComplete(r, index) ==
  [state |-> "complete", uri |-> r.uri, start |-> Earliest(index), index |-> index]

\* completeUpload, once S3 has the object: an object without a row stays so.
Record ==
  /\ pc = "record"
  /\ \/ /\ cur.row # 0
        /\ rows' = [rows EXCEPT ![cur.row] = RecordComplete(@, cur.index)]
        /\ UNCHANGED <<faults, stuck>>
     \/ cur.row = 0 /\ UNCHANGED <<rows, faults, stuck>>
     \/ /\ cur.row # 0 /\ "db" \in Trouble /\ Fault
        /\ stuck' = stuck \cup {cur.row}
        /\ UNCHANGED rows
  /\ cur' = Nil
  /\ pc' = Resume
  /\ UNCHANGED <<inputs, queue, cmd, objSeq, store, dropped>>

\* Mutant: the row of an abandoned object is kept.
RowsKept == rows

\* RecordAbort drops the current object's row, if it has one.
RowsWithoutCurrent ==
  IF cur.row = 0 THEN rows ELSE [rows EXCEPT ![cur.row] = NoRow]

\* Mutant: an error ends the loop, without an answer on done.
AfterAbortLost == "lost"

\* The loop goes on after an abandoned object.
AfterAbort == IF cmd = End THEN "done" ELSE "idle"

\* abandonCurrent and abortUpload: AbortMultipartUpload and RecordAbort, each
\* of which may fail; the segment that triggered the failure is dropped.
Abort ==
  /\ pc = "abort"
  /\ \/ /\ store' = [store EXCEPT ![cur.key].state = IF @ = "open" THEN "aborted" ELSE @]
        /\ rows' = RowsWithoutCurrent
        /\ UNCHANGED <<faults, stuck>>
     \/ /\ Fault
        /\ rows' = RowsWithoutCurrent
        /\ UNCHANGED <<store, stuck>>
     \/ /\ "db" \in Trouble /\ cur.row # 0 /\ Fault
        /\ store' = [store EXCEPT ![cur.key].state = IF @ = "open" THEN "aborted" ELSE @]
        /\ stuck' = stuck \cup {cur.row}
        /\ UNCHANGED rows
  /\ dropped' = IF cmd \in Segs THEN dropped \cup ({cmd} \ ToSet(cur.index)) ELSE dropped
  /\ cur' = Nil
  /\ pc' = AfterAbort
  /\ UNCHANGED <<inputs, queue, cmd, objSeq>>

\* The node dies, and with it what the uploader had in memory.
Crash ==
  /\ "crash" \in Trouble
  /\ pc \notin {"dead", "done"}
  /\ pc' = "dead"
  /\ queue' = <<>>
  /\ cur' = Nil
  /\ stuck' = stuck \cup {cur.row}
  /\ UNCHANGED <<inputs, cmd, objSeq, store, rows, dropped, faults>>

-----------------------------------------------------------------------------
Loop ==
  \/ TakeSegment \/ TakeCutover \/ TakeEnd
  \/ Create \/ Tag \/ Flush \/ Flushed \/ FlushLast \/ Complete \/ Record \/ Abort

Next ==
  \/ Loop
  \/ \E i \in Segs : AddSegment(i)
  \/ AskCutover \/ SetLivestreamURI \/ Close \/ GrowsOld \/ Crash

Spec == Init /\ [][Next]_vars

\* The upload loop is a goroutine that runs; its S3 and database calls return.
FairSpec == Spec /\ WF_vars(Loop)

-----------------------------------------------------------------------------
Pcs == {"idle", "create", "tag", "flush", "last", "complete", "record", "abort", "done", "dead"}

Uploads == [key : {0} \cup Objs, uri : Uris, row : {0} \cup Objs, age : {"young", "old"},
            buf : Seq(Segs), parts : Seq(Nat), index : Seq(Segs)]

\* Types: the queue stays within its capacity, no more objects are begun than
\* there are segments, and every step on an object has one.
TypeOK ==
  /\ uri \in Uris /\ tagged \in [Segs -> SUBSET Uris]
  /\ queue \in Seq({Cutover} \cup Segs) /\ Len(queue) <= QueueCap
  /\ sent \subseteq Segs /\ dropped \subseteq sent
  /\ asked \in 0 .. MaxCutovers /\ faults \in 0 .. MaxFaults
  /\ closed \in BOOLEAN /\ stuck \subseteq {0} \cup Objs
  /\ pc \in Pcs /\ cmd \in {Cutover, End} \cup Segs
  /\ objSeq \in 0 .. MaxSegs
  /\ cur \in Uploads
  /\ store \in [Objs -> [state : {"none", "open", "object", "aborted"}, parts : Seq(Seq(Segs))]]
  /\ rows \in [Objs -> [state : {"none", "open", "complete"}, uri : Uris, start : {0} \cup Segs, index : Seq(Segs)]]
  /\ pc \in {"flush", "last", "complete", "record", "abort"} => cur.key # 0

\* R2 accepts a multipart upload only if all parts but the last have the same
\* length (s3.go:109-116): every object, whatever the sizes of its segments,
\* has parts of PartSize followed by at most one smaller one.
UniformParts ==
  \A o \in Objs : LET p == store[o].parts IN
    /\ \A k \in 1 .. Len(p) - 1 : Len(p[k]) = PartSize
    /\ p # <<>> => Len(Last(p)) \in 1 .. PartSize

\* The index of a completed row locates exactly the bytes of the object: they
\* are the indexed segments back to back (s3.go:45-51), so that a clip reads
\* the segments it asked for, and started_at is not after any of them.
IndexMatchesObject ==
  \A o \in Objs : rows[o].state = "complete" =>
    /\ store[o].state = "object"
    /\ FlattenSeq(store[o].parts) = FlattenSeq([k \in 1 .. Len(rows[o].index) |-> Bytes(rows[o].index[k])])
    /\ \A k \in 1 .. Len(rows[o].index) : rows[o].start <= rows[o].index[k]

\* A row is open only while its object is being written, so that "finalize
\* and clips don't wait" on an abandoned object (s3.go:413-415).  Only a row
\* that RecordComplete or RecordAbort failed on, or that was current when the
\* node died, stays open: nothing tries it again.
OpenRowIsCurrent ==
  \A o \in Objs : rows[o].state = "open" => cur.row = o \/ o \in stuck

\* "One bad object costs a gap in the recording" (s3.go:412-413): a segment the
\* loop is done with is in an object, or it was dropped; no more objects are
\* given up and no more segments dropped than calls failed; and no segment is
\* in two completed objects.
OneFaultOneGap ==
  LET Given == {o \in Objs : store[o].state # "none" /\ rows[o].state # "complete" /\ cur.key # o} IN
  /\ Cardinality(dropped) <= faults
  /\ Alive /\ pc # "tag" => Cardinality(Given) <= faults
  /\ \A o, p \in Objs :
       rows[o].state = "complete" /\ rows[p].state = "complete" /\ o # p =>
         ToSet(rows[o].index) \cap ToSet(rows[p].index) = {}
  /\ pc = "done" /\ faults = 0 =>
       sent = UNION {ToSet(rows[o].index) : o \in {x \in Objs : rows[x].state = "complete"}}

\* Rolling over on a change of the livestream "keeps every object within a
\* single livestream" (s3.go:91): the livestream an object is tagged with was
\* the stream's at some time between the queueing and the handling of every
\* segment in it.  Only a segment that was pending when the livestream changed
\* can end up with the wrong one.
ObjectWithinLivestream ==
  \A o \in Objs : \A k \in 1 .. Len(rows[o].index) :
    rows[o].uri \in tagged[rows[o].index[k]]

\* Close returns, whatever calls fail: no error path leaves the loop without
\* its answer on done (s3.go:436-462), unless the node dies.
CloseReturns == closed ~> pc \in {"done", "dead"}

=============================================================================
