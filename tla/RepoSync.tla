------------------------------ MODULE RepoSync ------------------------------
(***************************************************************************)
(* How this node keeps its index of ONE remote repository complete         *)
(* (pkg/atproto): firehose commits arriving over several relays            *)
(* (firehose.go, firehose_dedup.go, firehose_cursor.go), the revision they *)
(* claim on the repo row (contiguity.go, model/repo.go), the walk that     *)
(* syncs or repairs the repository (atproto.go, backfill_walk.go), the     *)
(* deepening of its history (deepen.go) and the head check of the sweep    *)
(* (headcheck.go, sweep.go).                                               *)
(*                                                                         *)
(* Revisions are numbered: commit q follows q - 1, and q is also the time  *)
(* of the record it writes (the TID of both).  0 is the empty revision.    *)
(* A commit creates one record: "log" in a collection that is read by time *)
(* window (windowedCollections), "full" in one that is always read whole,  *)
(* "other" in one this node does not index.  Deletions are left out: the   *)
(* code says a repair does not find them (contiguity.go:123).              *)
(*                                                                         *)
(* A relay hands a repository's commits to one worker in order, but it may *)
(* have skipped some (a cursor ahead of what was handled, or abandoned as  *)
(* stale) or lag behind another, and the deduper, which gives a commit to  *)
(* whichever relay asks first, forgets it after a while.  So commits reach *)
(* the workers in any order, more than once or not at all, and nothing     *)
(* here depends on the deduper or on the cursors (Receive).                *)
(***************************************************************************)
EXTENDS Integers, Sequences, FiniteSets, FiniteSetsExt

CONSTANTS
  Relays,         \* relays this node consumes, a worker each
  Writes,         \* what each commit of the repository writes
  InitialWindow,  \* backfill_walk.go:153
  Spans,          \* the ages of backfillSpans after the first, increasing
  CASAttempts,    \* revCASAttempts
  WalkAttempts,   \* maxWalkAttempts
  MaxMishaps,     \* bound: failures and restarts
  None            \* an empty floor

ASSUME RepoSyncAssumption ==
  /\ Writes \in Seq({"log", "full", "other"})
  /\ InitialWindow \in Nat
  /\ Spans \in Seq(Nat)
  /\ CASAttempts \in Nat \ {0} /\ WalkAttempts \in Nat \ {0}
  /\ MaxMishaps \in Nat
  /\ None \notin Int

VARIABLES
  tip,        \* the repository's last commit
  handler,    \* per relay, the commit its worker is handling
  row,        \* the repo row
  got,        \* commits whose record, or a later version of it, was indexed
  refused,    \* commits whose record the indexer refused (logged, skipped)
  skipped,    \* commits a deepening walk claimed without anyone indexing them
  walk,       \* the walk holding the repository's lock
  check,      \* the sweep's head check
  deepen,     \* the deepener's candidate
  mishaps

vars == <<tip, handler, row, got, refused, skipped,
          walk, check, deepen, mishaps>>

Revs == DOMAIN Writes
Idle == [stage |-> "idle", rev |-> 0, tries |-> 0, from |-> 0]
NoWalk == [kind |-> "none", stage |-> "idle", rev |-> 0, lo |-> None,
           hi |-> None, all |-> FALSE, tries |-> 0]

\* syncInFlight(did): every walk marks the repository while it holds its lock.
syncInFlight == walk.kind # "none"

Init ==
  /\ tip = 0
  /\ handler = [r \in Relays |-> Idle]
  /\ row = [version |-> 0, repairFrom |-> 0, floor |-> None, done |-> FALSE,
            parked |-> FALSE]
  /\ got = {} /\ refused = {} /\ skipped = {}
  /\ walk = NoWalk
  /\ check = 0
  /\ deepen = [on |-> FALSE, floor |-> None]
  /\ mishaps = 0

Mishap == mishaps < MaxMishaps /\ mishaps' = mishaps + 1

(***************************************************************************)
(* The repository elsewhere on the network.                                *)
(***************************************************************************)
Commit ==
  /\ tip < Len(Writes)
  /\ tip' = tip + 1
  /\ UNCHANGED <<handler, row, got, refused, skipped,
                 walk, check, deepen, mishaps>>

(***************************************************************************)
(* A relay's worker receives a commit, for the first time or again.        *)
(***************************************************************************)
Receive(r, q) ==
  /\ handler[r].stage = "idle"
  /\ q <= tip
  /\ handler' = [handler EXCEPT ![r] = [Idle EXCEPT !.stage = "apply", !.rev = q]]
  /\ UNCHANGED <<tip, row, got, refused, skipped, walk, check, deepen,
                 mishaps>>

(***************************************************************************)
(* handleCommitEventOps.  A commit that is too big, whose CAR cannot be    *)
(* read or whose claim fails is left unclaimed; one whose record is        *)
(* refused, or passed over because the row could not be read before it,    *)
(* is claimed all the same.                                                *)
(***************************************************************************)
Bail(r) ==
  /\ handler[r].stage # "idle"
  /\ Mishap
  /\ handler' = [handler EXCEPT ![r] = Idle]
  /\ UNCHANGED <<tip, row, got, refused,
                 skipped, walk, check, deepen>>

\* reviveRepo: an indexed op proves the account is back.
Revived(q) == IF Writes[q] = "other" THEN row ELSE [row EXCEPT !.parked = FALSE]

Apply(r) ==
  LET q == handler[r].rev
  IN /\ handler[r].stage = "apply"
     /\ row' = Revived(q)
     /\ got' = got \cup {q}
     /\ handler' = [handler EXCEPT ![r].stage = "advance", ![r].tries = 1]
     /\ UNCHANGED <<tip, refused, skipped, walk,
                    check, deepen, mishaps>>

ApplyRefused(r) ==
  LET q == handler[r].rev
  IN /\ handler[r].stage = "apply" /\ Writes[q] # "other"
     /\ Mishap
     /\ row' \in {row, Revived(q)}
     /\ refused' = refused \cup {q}
     /\ handler' = [handler EXCEPT ![r].stage = "advance", ![r].tries = 1]
     /\ UNCHANGED <<tip, got, skipped, walk,
                    check, deepen>>

(***************************************************************************)
(* trackCommitRev: three statements on the row, others between them.       *)
(***************************************************************************)
\* AdvanceRepoVersion, a compare-and-swap that refuses the empty revision.
Advances(from) == from # 0 /\ row.version = from

TrackAdvance(r) ==
  LET h == handler[r]
  IN /\ h.stage = "advance"
     /\ IF Advances(h.rev - 1)
        THEN /\ row' = [row EXCEPT !.version = h.rev]
             /\ handler' = [handler EXCEPT ![r] = Idle]
        ELSE /\ handler' = [handler EXCEPT ![r].stage = "look"]
             /\ UNCHANGED row
     /\ UNCHANGED <<tip, got, refused, skipped,
                    walk, check, deepen, mishaps>>

Again(h) == IF h.tries < CASAttempts
            THEN [h EXCEPT !.stage = "advance", !.tries = @ + 1]
            ELSE Idle

\* What the commit does once it has read the row it did not advance.
Placed(h) ==
  CASE row.version = 0 \/ syncInFlight -> Idle
    [] row.version = h.rev - 1         -> Again(h)
    [] h.rev <= row.version            -> Idle
    [] OTHER -> [h EXCEPT !.stage = "mark", !.from = row.version]

TrackLook(r) ==
  /\ handler[r].stage = "look"
  /\ handler' = [handler EXCEPT ![r] = Placed(@)]
  /\ UNCHANGED <<tip, row, got, refused,
                 skipped, walk, check, deepen, mishaps>>

\* MarkRepoForRepair: blanks the version and keeps it as the repair's start.
Marks(from) == from # 0 /\ row.version = from

\* Mutant: the mark remembers the revision and leaves the version.
WedgedHalf(from) == [row EXCEPT !.repairFrom = from]

Wedged(from) == [row EXCEPT !.version = 0, !.repairFrom = from]

TrackMark(r) ==
  LET h == handler[r]
  IN /\ h.stage = "mark"
     /\ IF Marks(h.from)
        THEN /\ row' = Wedged(h.from)
             /\ handler' = [handler EXCEPT ![r] = Idle]
        ELSE /\ handler' = [handler EXCEPT ![r] = Again([h EXCEPT !.from = 0])]
             /\ UNCHANGED row
     /\ UNCHANGED <<tip, got, refused, skipped,
                    walk, check, deepen, mishaps>>

(***************************************************************************)
(* The windows a walk reads.  The present is the time of the last commit.  *)
(***************************************************************************)
\* Mutant: a repair reads what a first sync reads.
RepairFloorStandard(lastRev) == tip - InitialWindow

\* A first sync reads the initial window; a repair reads at least from the
\* revision the index was last known good at, and an hour (repairSlack) more,
\* which is less than the time between two commits here.
repairFloor(lastRev) == Min({tip - InitialWindow} \cup ({lastRev} \ {0}))

nextBackfillWindow(floor) ==
  LET spans  == <<InitialWindow>> \o Spans
      longer == {i \in DOMAIN spans : spans[i] > tip - floor}
  IN IF floor = None THEN [lo |-> tip - InitialWindow, hi |-> None]
     ELSE [lo |-> IF longer = {} THEN None ELSE tip - spans[Min(longer)],
           hi |-> floor]

\* The commits whose records a walk hands to the indexer: the last version of
\* the registry, unless the walk deepens, and the log records of its window.
InWindow(w, q) == /\ w.lo = None \/ q >= w.lo
                  /\ w.hi = None \/ q < w.hi
Covered(w) ==
  {q \in 1 .. w.rev :
     \/ Writes[q] = "log" /\ (w.all \/ InWindow(w, q))
     \/ Writes[q] = "full" /\ (w.all \/ w.kind = "sync")}

(***************************************************************************)
(* SyncBlueskyRepo, called for a repository whose version is empty by the  *)
(* sweep, by a record handler or by a request (SyncBlueskyRepoCached).     *)
(***************************************************************************)
SyncStart ==
  /\ row.version = 0 /\ ~row.parked
  /\ walk = NoWalk
  /\ walk' = [NoWalk EXCEPT !.kind = "sync", !.stage = "head",
                            !.lo = repairFloor(row.repairFrom)]
  /\ UNCHANGED <<tip, handler, row, got,
                 refused, skipped, check, deepen, mishaps>>

(***************************************************************************)
(* DeepenRepo: the row is read before the lock is taken.                   *)
(***************************************************************************)
\* deepenCandidates: synced, with history left to fetch.
OwesHistory == row.version # 0 /\ ~row.parked /\ ~row.done

DeepenRead ==
  /\ ~deepen.on
  /\ OwesHistory
  /\ deepen' = [on |-> TRUE, floor |-> row.floor]
  /\ UNCHANGED <<tip, handler, row, got,
                 refused, skipped, walk, check, mishaps>>

DeepenLock ==
  LET window == nextBackfillWindow(deepen.floor)
  IN /\ deepen.on
     /\ walk = NoWalk
     /\ walk' = [NoWalk EXCEPT !.kind = "deepen", !.stage = "head",
                               !.lo = window.lo, !.hi = window.hi]
     /\ deepen' = [on |-> FALSE, floor |-> None]
     /\ UNCHANGED <<tip, handler, row, got,
                    refused, skipped, check, mishaps>>

(***************************************************************************)
(* walkBackfill.  A host without getBlocks is read whole (legacyBackfill). *)
(***************************************************************************)
WalkHead(all) ==
  /\ walk.stage = "head"
  /\ tip > 0
  /\ walk' = [walk EXCEPT !.stage = "index", !.rev = tip, !.all = all,
                          !.tries = 1, !.lo = IF all THEN None ELSE @]
  /\ UNCHANGED <<tip, handler, row, got,
                 refused, skipped, check, deepen, mishaps>>

\* A repository that moved is walked again from its new head, a few times.
MayRewalk == tip > walk.rev /\ walk.tries < WalkAttempts

WalkMoved ==
  /\ walk.stage = "index" /\ ~walk.all
  /\ MayRewalk
  /\ walk' = [walk EXCEPT !.rev = tip, !.tries = @ + 1]
  /\ UNCHANGED <<tip, handler, row, got,
                 refused, skipped, check, deepen, mishaps>>

WalkIndex ==
  /\ walk.stage = "index"
  /\ got' = got \cup Covered(walk)
  /\ walk' = [walk EXCEPT !.stage = "record"]
  /\ UNCHANGED <<tip, handler, row, refused,
                 skipped, check, deepen, mishaps>>

\* One record the indexer refuses is logged and passed over.
WalkIndexRefused(q) ==
  /\ walk.stage = "index" /\ q \in Covered(walk)
  /\ Mishap
  /\ got' = got \cup (Covered(walk) \ {q})
  /\ refused' = refused \cup {q}
  /\ walk' = [walk EXCEPT !.stage = "record"]
  /\ UNCHANGED <<tip, handler, row, skipped, check,
                 deepen>>

\* Any other failure, of a request or of the write at the end: the lock is
\* released and the row stays as it is, unless the host said that the account
\* is gone (parkTerminalRepo).
WalkFails(gone) ==
  /\ walk.stage # "idle" /\ (gone => walk.stage # "record")
  /\ Mishap
  /\ walk' = NoWalk
  /\ row' = [row EXCEPT !.parked = @ \/ gone]
  /\ UNCHANGED <<tip, handler, got, refused,
                 skipped, check, deepen>>

\* mergeBackfillState: a recent window cannot un-complete history.
mergeBackfillState(w) ==
  LET done == w.all \/ row.done
  IN [done |-> done,
      floor |-> IF done THEN None
                ELSE Min({w.lo} \cup ({row.floor} \ {None}))]

SyncRecord ==
  LET merged == mergeBackfillState(walk)
  IN /\ walk.kind = "sync" /\ walk.stage = "record"
     /\ row' = [version |-> walk.rev, repairFrom |-> 0, floor |-> merged.floor,
                done |-> merged.done, parked |-> FALSE]
     /\ walk' = NoWalk
     /\ UNCHANGED <<tip, handler, got, refused,
                    skipped, check, deepen, mishaps>>

\* Mutant: AdvanceRepoBackfill does not look at the version it replaces.
MayAlwaysRecord == TRUE

\* AdvanceRepoBackfill, refused for a row whose version was blanked meanwhile.
MayRecordWindow == row.version # 0

DeepenRecord ==
  /\ walk.kind = "deepen" /\ walk.stage = "record"
  /\ IF MayRecordWindow
     THEN /\ row' = [row EXCEPT !.version = walk.rev, !.floor = walk.lo,
                                !.done = (walk.lo = None)]
          /\ skipped' = skipped \cup (row.version + 1 .. walk.rev)
     ELSE UNCHANGED <<row, skipped>>
  /\ walk' = NoWalk
  /\ UNCHANGED <<tip, handler, got, refused,
                 check, deepen, mishaps>>

(***************************************************************************)
(* sweepCheck: the row is read, the host is asked, a drifted row wedged.   *)
(***************************************************************************)
CheckRead ==
  /\ check = 0
  /\ row.version # 0 /\ ~row.parked
  /\ check' = row.version
  /\ UNCHANGED <<tip, handler, row, got,
                 refused, skipped, walk, deepen, mishaps>>

Drifted == tip # check

CheckMark ==
  /\ check # 0
  /\ row' = IF Drifted /\ Marks(check) THEN Wedged(check) ELSE row
  /\ check' = 0
  /\ UNCHANGED <<tip, handler, got, refused,
                 skipped, walk, deepen, mishaps>>

CheckFails(gone) ==
  /\ check # 0
  /\ Mishap
  /\ row' = [row EXCEPT !.parked = @ \/ gone]
  /\ check' = 0
  /\ UNCHANGED <<tip, handler, got, refused,
                 skipped, walk, deepen>>

(***************************************************************************)
(* A restart loses the deduper and everything in flight; each relay        *)
(* resumes from the cursor its last flush wrote, or from live.             *)
(***************************************************************************)
Restart ==
  /\ Mishap
  /\ handler' = [r \in Relays |-> Idle]
  /\ walk' = NoWalk
  /\ check' = 0
  /\ deepen' = [on |-> FALSE, floor |-> None]
  /\ UNCHANGED <<tip, row, got, refused, skipped>>

Handle(r) == \/ Bail(r) \/ Apply(r) \/ ApplyRefused(r)
             \/ TrackAdvance(r) \/ TrackLook(r) \/ TrackMark(r)

Next ==
  \/ Commit
  \/ \E r \in Relays : Handle(r) \/ \E q \in Revs : Receive(r, q)
  \/ SyncStart \/ DeepenRead \/ DeepenLock
  \/ \E all \in BOOLEAN : WalkHead(all)
  \/ WalkMoved \/ WalkIndex
  \/ \E q \in Revs : WalkIndexRefused(q)
  \/ \E gone \in BOOLEAN : WalkFails(gone) \/ CheckFails(gone)
  \/ SyncRecord \/ DeepenRecord
  \/ CheckRead \/ CheckMark
  \/ Restart

\* The sweep comes round every SweepInterval and syncs what it finds wedged, a
\* walk's requests are answered or fail, and a handler runs to its end.
Fairness ==
  /\ WF_vars(CheckRead) /\ WF_vars(CheckMark)
  /\ WF_vars(SyncStart) /\ WF_vars(DeepenLock)
  /\ WF_vars(\E all \in BOOLEAN : WalkHead(all))
  /\ WF_vars(WalkIndex) /\ WF_vars(SyncRecord) /\ WF_vars(DeepenRecord)
  /\ \A r \in Relays :
       WF_vars(Apply(r) \/ TrackAdvance(r) \/ TrackLook(r) \/ TrackMark(r))

Spec == Init /\ [][Next]_vars /\ Fairness

(***************************************************************************)
(* Properties                                                              *)
(***************************************************************************)
\* Types, and what they say of the bounds in the code: neither a commit nor
\* a walk tries more often than it may (contiguity.go:57, backfill_walk.go:387),
\* and no claimed, indexed or repaired revision lies beyond the repository's.
TypeOK ==
  /\ tip \in 0 .. Len(Writes)
  /\ handler \in [Relays -> [stage : {"idle", "apply", "advance", "look", "mark"},
                             rev : 0 .. tip, tries : 0 .. CASAttempts,
                             from : 0 .. tip]]
  /\ row \in [version : 0 .. tip, repairFrom : 0 .. tip, floor : Int \cup {None},
              done : BOOLEAN, parked : BOOLEAN]
  /\ got \subseteq 1 .. tip
  /\ refused \subseteq 1 .. tip /\ skipped \subseteq 1 .. tip
  /\ walk \in [kind : {"none", "sync", "deepen"},
               stage : {"idle", "head", "index", "record"}, rev : 0 .. tip,
               lo : Int \cup {None}, hi : Int \cup {None}, all : BOOLEAN,
               tries : 0 .. WalkAttempts]
  /\ check \in 0 .. tip
  /\ deepen \in [on : BOOLEAN, floor : Int \cup {None}]
  /\ mishaps \in 0 .. MaxMishaps

\* What a claimed revision says of commit q: its record is in the index, is
\* none of this node's business, was refused and logged, or is history older
\* than the watermark ("contiguously indexed from this TID up to now",
\* model/repo.go:34-35).
Accounted(q) ==
  \/ q \in got \cup refused
  \/ Writes[q] = "other"
  \/ Writes[q] = "log" /\ ~row.done /\ row.floor # None /\ q < row.floor

\* A version on the row is proof "that we have applied every commit for this
\* repo in an unbroken chain" (contiguity.go:41-42).
ClaimsHold == row.version # 0 => \A q \in 1 .. row.version : Accounted(q)

\* Commits out of order, repeated or lost, claims that
\* race, repairs that fail or are interrupted, walks of a moving repository
\* and restarts never put a version on the row that covers a commit nobody
\* indexed, except the commits a deepening walk stepped over (atproto.go:266).
ClaimsHoldButDeepening ==
  row.version # 0 => \A q \in 1 .. row.version : Accounted(q) \/ q \in skipped

\* "The wedge wins": once a row is marked for repair nothing but the account
\* status changes on it, and the place the repair starts from is kept through
\* failures and restarts, until a sync of the whole repository is recorded
\* (model/repo.go:212-216, 264).
RepairSurvives ==
  [][row.version = 0 =>
       \/ row' = [row EXCEPT !.parked = row'.parked]
       \/ walk.kind = "sync" /\ row'.version = walk.rev]_vars

\* Once the repository is quiet its row comes to its head for good, unless the
\* account was parked: what the firehose lost, the head check finds and a
\* sync repairs (headcheck.go:36-44), also across failures and a restart.
DriftHealed == <>[](row.parked \/ row.version = tip)

\* "A span of commits missed while this node was down [...] is turned into the
\* ordinary repair" (headcheck.go:39-44): in the end the row's version is such
\* a proof again.  The code breaks it: a deepening walk that reads the host
\* before the head check does writes the host's revision on the row
\* (model/repo.go:217), and nothing looks for the missed commits any more.
GapsAreRepaired == <>[](row.parked \/ ClaimsHold)

=============================================================================
