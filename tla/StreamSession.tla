---------------------------- MODULE StreamSession ----------------------------
(***************************************************************************)
(* pkg/director: the director's loop and the life of the stream sessions   *)
(* of one streamer (director.go, stream_session.go), with the recording of *)
(* the stream to S3 (s3_upload.go) as far as its start and its end: who    *)
(* starts the uploader, who sends to it, and who closes it.                *)
(*                                                                         *)
(* The director is one goroutine: it looks the session up or creates it    *)
(* (Start then runs in a goroutine of its own), and runs NewSegment        *)
(* itself.  Start and NewSegment race for startLocalRole, and each passes  *)
(* its own context to the multistream loop startLocalRole spawns: the      *)
(* session's, or the director's, which outlives every session.             *)
(*                                                                         *)
(* ss.g is represented by the goroutines in it that matter here: the       *)
(* senders to the uploader, the multistream loop and the push it starts    *)
(* (one target), the background loops and DeleteStatus.  The other         *)
(* goroutines a segment starts end by themselves.                          *)
(* A segment that reaches the director has passed validation, so that      *)
(* Start does not fail before it closes started.                           *)
(***************************************************************************)
EXTENDS Naturals

CONSTANTS
  MaxSegs,         \* bound: how many segments arrive
  Recorded         \* S3 is configured and the streamer is to be recorded

ASSUME SessionAssumption == MaxSegs \in Nat /\ Recorded \in BOOLEAN

Sessions == 1 .. MaxSegs
Segs == 1 .. MaxSegs

VARIABLES
  cur,      \* the session in director.streamSessions, 0 for none
  created,  \* how many sessions the director has created
  phase,    \* per session: where Start is
  first,    \* per session: Local of the segment it was created for
  role,     \* per session: startLocalRole has run (sync.Once)
  multi,    \* per session: the context HandleMultistreamTargets runs under
  push,     \* per session: the context of the push to a multistream target
            \* that HandleMultistreamTargets has started, "stopped" once the
            \* target is gone
  loops,    \* per session: the four background update loops run
  deleting, \* per session: a DeleteStatus goroutine runs
  up,       \* per session: its S3Uploader
  dir,      \* where the director's loop is
  seg,      \* how many segments the director has taken
  local,    \* Local of the segment it is working on
  sender,   \* per segment: its AddSegment or Cutover goroutine
  owner,    \* per segment: the session it was handed to
  straddled \* history: the sessions that had a segment on its way through the
            \* director at some time between their timeout and their removal

vars == <<cur, created, phase, first, role, multi, push, loops, deleting, up, dir, seg, local, sender, owner, straddled>>

session == <<cur, created, phase, first, role, multi, push, loops, deleting, up>>
director == <<dir, seg, local>>

Init ==
  /\ cur = 0 /\ created = 0
  /\ phase = [s \in Sessions |-> "none"]
  /\ first = [s \in Sessions |-> FALSE]
  /\ role = [s \in Sessions |-> FALSE]
  /\ multi = [s \in Sessions |-> "none"]
  /\ push = [s \in Sessions |-> "none"]
  /\ loops = [s \in Sessions |-> FALSE]
  /\ deleting = [s \in Sessions |-> FALSE]
  /\ up = [s \in Sessions |-> "none"]
  /\ dir = "idle" /\ seg = 0 /\ local = FALSE
  /\ sender = [i \in Segs |-> "none"]
  /\ owner = [i \in Segs |-> 0]
  /\ straddled = {}

-----------------------------------------------------------------------------
(***************************************************************************)
(* The director's loop.                                                    *)
(***************************************************************************)
\* Start has been told to stop but the session is still in the map.
TearingDown == cur # 0 /\ phase[cur] \in {"cancelled", "drained", "closed"}

\* Mutant: the director does not look the session up.
NoSessionEver == TRUE

\* The streamer has no session in the director's map.
NoSession == cur = 0

\* A segment arrives: find the session, or create it and run Start.
Receive(isLocal) ==
  /\ dir = "idle"
  /\ seg < MaxSegs
  /\ seg' = seg + 1
  /\ local' = isLocal
  /\ dir' = "await"
  /\ IF NoSession
     THEN /\ created' = created + 1
          /\ cur' = created + 1
          /\ phase' = [phase EXCEPT ![created + 1] = "starting"]
          /\ first' = [first EXCEPT ![created + 1] = isLocal]
     ELSE UNCHANGED <<cur, created, phase, first>>
  /\ owner' = [owner EXCEPT ![seg + 1] = cur']
  /\ straddled' = IF TearingDown THEN straddled \cup {cur} ELSE straddled
  /\ UNCHANGED <<role, multi, push, loops, deleting, up, sender>>

Mine == owner[seg]

\* NewSegment waits for started to be closed, and goes on.
Begin ==
  /\ dir = "await"
  /\ phase[Mine] # "starting"
  /\ dir' = "role"
  /\ UNCHANGED <<session, seg, local, sender, owner, straddled>>

\* NewSegment refuses the segment (bitrate, database) and returns.
Refuse ==
  /\ dir = "role"
  /\ dir' = "idle"
  /\ UNCHANGED <<session, seg, local, sender, owner, straddled>>

\* maybeStartS3Upload: the uploader of a session whose stream is recorded.
NewUploader == IF Recorded THEN "open" ELSE "none"

(***************************************************************************)
(* startLocalRole: the first call creates the uploader (if the stream is   *)
(* to be recorded) and spawns the multistream loop under its own context.  *)
(***************************************************************************)
TakeRole(s, ctx) ==
  IF role[s]
  THEN UNCHANGED <<role, multi, up>>
  ELSE /\ role' = [role EXCEPT ![s] = TRUE]
       /\ multi' = [multi EXCEPT ![s] = ctx]
       /\ up' = [up EXCEPT ![s] = NewUploader]

RoleFromNewSegment ==
  /\ dir = "role"
  /\ IF local THEN TakeRole(Mine, "director") ELSE UNCHANGED <<role, multi, up>>
  /\ dir' = "record"
  /\ UNCHANGED <<cur, created, phase, first, push, loops, deleting, seg, local, sender, owner, straddled>>

\* NewSegment starts a sender goroutine for a local segment: AddSegment if it
\* is published, Cutover if not; both send on the uploader's channel.
Record ==
  /\ dir = "record"
  /\ sender' = IF local /\ up[Mine] # "none"
               THEN [sender EXCEPT ![seg] = "called"]
               ELSE sender
  /\ dir' = "idle"
  /\ UNCHANGED <<session, seg, local, owner, straddled>>

-----------------------------------------------------------------------------
(***************************************************************************)
(* StreamSession.Start.                                                    *)
(***************************************************************************)
\* Start closes started.
Started(s) ==
  /\ phase[s] = "starting"
  /\ phase' = [phase EXCEPT ![s] = "started"]
  /\ UNCHANGED <<cur, created, first, role, multi, push, loops, deleting, up, director, sender, owner, straddled>>

\* Start takes the local role if its segment was local, and starts the loops.
RoleFromStart(s) ==
  /\ phase[s] = "started"
  /\ phase' = [phase EXCEPT ![s] = "running"]
  /\ IF first[s] THEN TakeRole(s, "session") ELSE UNCHANGED <<role, multi, up>>
  /\ loops' = [loops EXCEPT ![s] = TRUE]
  /\ UNCHANGED <<cur, created, first, push, deleting, director, sender, owner, straddled>>

\* StreamSessionTimeout passes without a segment: end the playback sessions,
\* delete the status record, cancel the session's context.
Timeout(s) ==
  /\ phase[s] = "running"
  /\ phase' = [phase EXCEPT ![s] = "cancelled"]
  /\ deleting' = [deleting EXCEPT ![s] = first[s]]
  /\ straddled' = IF dir # "idle" /\ Mine = s THEN straddled \cup {s} ELSE straddled
  /\ UNCHANGED <<cur, created, first, role, multi, push, loops, up, director, sender, owner>>

\* The goroutines of ss.g have all returned.
Drained(s) ==
  /\ ~loops[s]
  /\ ~deleting[s]
  /\ multi[s] \in {"none", "ended"} /\ push[s] = "none"
  /\ \A i \in Segs : owner[i] = s => sender[i] \notin {"called", "checked"}

\* Mutant: the uploader is closed without waiting for ss.g.
DrainNoWait(s) ==
  /\ phase[s] = "cancelled"
  /\ phase' = [phase EXCEPT ![s] = "drained"]
  /\ UNCHANGED <<cur, created, first, role, multi, push, loops, deleting, up, director, sender, owner, straddled>>

\* ss.g.Wait returns.
Drain(s) ==
  /\ phase[s] = "cancelled"
  /\ Drained(s)
  /\ phase' = [phase EXCEPT ![s] = "drained"]
  /\ UNCHANGED <<cur, created, first, role, multi, push, loops, deleting, up, director, sender, owner, straddled>>

\* Mutant: Start returns without s3Close.
CloseForgotten(s) ==
  /\ phase[s] = "drained"
  /\ phase' = [phase EXCEPT ![s] = "closed"]
  /\ UNCHANGED <<cur, created, first, role, multi, push, loops, deleting, up, director, sender, owner, straddled>>

\* s3Close: mark the uploader closed, close its channel, flush its object.
Close(s) ==
  /\ phase[s] = "drained"
  /\ phase' = [phase EXCEPT ![s] = "closed"]
  /\ up' = [up EXCEPT ![s] = IF @ = "open" THEN "closed" ELSE @]
  /\ UNCHANGED <<cur, created, first, role, multi, push, loops, deleting, director, sender, owner, straddled>>

\* Start has returned: the director forgets the session.
Forget(s) ==
  /\ phase[s] = "closed"
  /\ cur' = 0
  /\ phase' = [phase EXCEPT ![s] = "gone"]
  /\ UNCHANGED <<created, first, role, multi, push, loops, deleting, up, director, sender, owner, straddled>>

-----------------------------------------------------------------------------
(***************************************************************************)
(* The goroutines of ss.g.                                                 *)
(***************************************************************************)
ContextEnded(s) == phase[s] \in {"cancelled", "drained", "closed", "gone"}

LoopsEnd(s) ==
  /\ loops[s] /\ ContextEnded(s)
  /\ loops' = [loops EXCEPT ![s] = FALSE]
  /\ UNCHANGED <<cur, created, phase, first, role, multi, push, deleting, up, director, sender, owner, straddled>>

StatusDeleted(s) ==
  /\ deleting[s]
  /\ deleting' = [deleting EXCEPT ![s] = FALSE]
  /\ UNCHANGED <<cur, created, phase, first, role, multi, push, loops, up, director, sender, owner, straddled>>

\* Mutant: the multistream loop does not watch its context.
MultiDeaf(s) == FALSE /\ UNCHANGED vars

\* HandleMultistreamTargets returns when its context ends.
MultiEnds(s) ==
  /\ multi[s] = "session" /\ ContextEnded(s)
  /\ multi' = [multi EXCEPT ![s] = "ended"]
  /\ UNCHANGED <<cur, created, phase, first, role, push, loops, deleting, up, director, sender, owner, straddled>>

\* HandleMultistreamTargets returns on a database error and leaves the push it
\* started running.
MultiFails(s) ==
  /\ multi[s] \in {"session", "director"}
  /\ multi' = [multi EXCEPT ![s] = "ended"]
  /\ UNCHANGED <<cur, created, phase, first, role, push, loops, deleting, up, director, sender, owner, straddled>>

\* HandleMultistreamTargets finds a target and starts a push to it under a
\* child of its own context.
PushStarts(s) ==
  /\ multi[s] \in {"session", "director"}
  /\ push[s] = "none"
  /\ push' = [push EXCEPT ![s] = multi[s]]
  /\ UNCHANGED <<cur, created, phase, first, role, multi, loops, deleting, up, director, sender, owner, straddled>>

\* HandleMultistreamTargets finds the target gone and cancels its push.
PushStopped(s) ==
  /\ multi[s] \in {"session", "director"}
  /\ push[s] \in {"session", "director"}
  /\ push' = [push EXCEPT ![s] = "stopped"]
  /\ UNCHANGED <<cur, created, phase, first, role, multi, loops, deleting, up, director, sender, owner, straddled>>

\* StartMultistreamTarget returns when its context ends, and only then.
PushEnds(s) ==
  /\ push[s] = "stopped" \/ (push[s] = "session" /\ ContextEnded(s))
  /\ push' = [push EXCEPT ![s] = "none"]
  /\ UNCHANGED <<cur, created, phase, first, role, multi, loops, deleting, up, director, sender, owner, straddled>>

\* AddSegment or Cutover looks at closed.
SenderChecks(i) ==
  /\ sender[i] = "called"
  /\ sender' = [sender EXCEPT ![i] = IF up[owner[i]] = "closed" THEN "refused" ELSE "checked"]
  /\ UNCHANGED <<session, director, owner, straddled>>

\* AddSegment or Cutover sends on segCh; on a closed channel this panics.
SenderSends(i) ==
  /\ sender[i] = "checked"
  /\ sender' = [sender EXCEPT ![i] = IF up[owner[i]] = "closed" THEN "panic" ELSE "sent"]
  /\ UNCHANGED <<session, director, owner, straddled>>

-----------------------------------------------------------------------------
DirectorStep == Begin \/ RoleFromNewSegment \/ Record

\* What the runtime eventually lets a session do once it has been told to.
SessionStep(s) ==
  Started(s) \/ RoleFromStart(s) \/ Drain(s) \/ Close(s) \/ Forget(s)

Goroutine(s) == LoopsEnd(s) \/ StatusDeleted(s) \/ MultiEnds(s) \/ PushEnds(s)

\* What the multistream loop does whenever it looks at the targets.
Targets(s) == PushStarts(s) \/ PushStopped(s) \/ MultiFails(s)

Sender(i) == SenderChecks(i) \/ SenderSends(i)

Next ==
  \/ \E isLocal \in BOOLEAN : Receive(isLocal)
  \/ DirectorStep \/ Refuse
  \/ \E s \in Sessions : SessionStep(s) \/ Timeout(s) \/ Goroutine(s) \/ Targets(s)
  \/ \E i \in Segs : Sender(i)

Spec == Init /\ [][Next]_vars

(***************************************************************************)
(* Fairness: goroutines that can run do run, context-aware loops return    *)
(* when their context ends and the HTTP call of DeleteStatus returns.      *)
(* Segments need not arrive, sessions need not time out, and the streamer  *)
(* need not change the targets.                                            *)
(***************************************************************************)
FairSpec ==
  /\ Spec
  /\ WF_vars(DirectorStep)
  /\ \A s \in Sessions :
       /\ WF_vars(SessionStep(s))
       /\ WF_vars(LoopsEnd(s)) /\ WF_vars(StatusDeleted(s))
       /\ WF_vars(MultiEnds(s)) /\ WF_vars(PushEnds(s))
  /\ \A i \in Segs : WF_vars(Sender(i))

-----------------------------------------------------------------------------
\* Types, and what keeps the map in order: the sessions created are the ones
\* that have a phase, and the one in the map is the only one that is alive, so
\* that no session deletes the entry of another (director.go:100).
TypeOK ==
  /\ cur \in 0 .. created /\ created \in 0 .. MaxSegs
  /\ phase \in [Sessions -> {"none", "starting", "started", "running", "cancelled",
                             "drained", "closed", "gone"}]
  /\ multi \in [Sessions -> {"none", "session", "director", "ended"}]
  /\ push \in [Sessions -> {"none", "session", "director", "stopped"}]
  /\ up \in [Sessions -> {"none", "open", "closed"}]
  /\ dir \in {"idle", "await", "role", "record"} /\ seg \in 0 .. MaxSegs
  /\ sender \in [Segs -> {"none", "called", "checked", "sent", "refused", "panic"}]
  /\ owner \in [Segs -> 0 .. created]
  /\ straddled \subseteq Sessions
  /\ \A s \in Sessions : s > created <=> phase[s] = "none"
  /\ \A s \in Sessions : s = cur <=> phase[s] \notin {"none", "gone"}

\* Nobody sends on the uploader's closed channel: "draining its goroutines
\* before closing" guarantees it (s3.go:195-199; stream_session.go:170-173),
\* except for a segment of a session that straddles its teardown.
NoSendOnClosed ==
  \A i \in Segs : sender[i] = "panic" => owner[i] \in straddled

\* When a session has left the director's map its recording is closed: the
\* last object has been flushed (stream_session.go:172-173) and no upload
\* loop is left behind with an object nobody will complete, with the same
\* exception.
NoRecordingLeftOpen ==
  \A s \in Sessions : phase[s] = "gone" => up[s] # "open" \/ s \in straddled

\* A session that has timed out is drained, closed and forgotten, so that the
\* streamer's next segment gets a session whose loops run (stream_session.go:
\* 170-176).  Only what runs under the director's context keeps ss.g from
\* draining, and then for ever: the multistream loop, if NewSegment took the
\* local role, or a push which that loop left behind when it failed.
OwnSessionEnds ==
  \A s \in Sessions :
    phase[s] = "cancelled" ~>
      phase[s] = "gone" \/ [](multi[s] = "director" \/ push[s] = "director")

=============================================================================
