--------------------------- MODULE RepoSyncProofs ---------------------------
(***************************************************************************)
(* What holds of a repository's row for any history of commits, any number *)
(* of relays and any number of failures and restarts: its version covers   *)
(* no commit nobody indexed, but for those a deepening walk stepped over,  *)
(* and a repair that is owed stays owed.                                   *)
(***************************************************************************)
EXTENDS RepoSync, TLAPS, WellFoundedInduction, SequenceTheorems

\* The revision the index was last known good at.
Claim == IF row.version # 0 THEN row.version ELSE row.repairFrom

Has(q) == q \in got \cup refused \cup skipped

\* The log records from f on, of the first n commits, are there.
Clear(f, n) == \A q \in 1 .. n : Writes[q] = "log" /\ (f = None \/ q >= f) => Has(q)

\* The row's claim, also while a repair is owed.
RowClaims ==
  /\ Claim = 0 => row.floor = None /\ ~row.done
  /\ Claim # 0 => /\ row.done \/ row.floor # None
                  /\ \A q \in 1 .. Claim : Writes[q] = "full" => Has(q)
                  /\ Clear(IF row.done THEN None ELSE row.floor, Claim)

\* A commit to be claimed has been applied.
HandlersApplied ==
  \A r \in Relays :
    /\ handler[r].stage # "idle" => handler[r].rev # 0
    /\ handler[r].stage \in {"advance", "look", "mark"} => handler[r].rev \in got \cup refused

\* A sync reads from where the index was known good; whatever a deepening walk
\* reads, later log records were there when its window was chosen.
WalkReads ==
  /\ walk.stage \in {"index", "record"} => walk.rev # 0
  /\ walk.stage = "record" => Covered(walk) \subseteq got \cup refused
  /\ walk.all => walk.lo = None
  /\ walk.stage = "head" => ~walk.all
  /\ walk.kind = "sync" =>
       /\ row.version = 0 /\ walk.hi = None
       /\ walk.all \/ (walk.lo # None /\ (row.repairFrom # 0 => walk.lo <= row.repairFrom))
  /\ walk.kind = "deepen" => Claim # 0 /\ walk.hi # None /\ Clear(walk.hi, Claim)

DeepenReads == deepen.on => Claim # 0 /\ deepen.floor # None /\ Clear(deepen.floor, Claim)

Inv == TypeOK /\ RowClaims /\ HandlersApplied /\ WalkReads /\ DeepenReads

\* A set of naturals has a least element.
LEMMA MinOfNaturals ==
  ASSUME NEW T \in SUBSET Nat, T # {}
  PROVE  Min(T) \in T
<1>1. PICK x \in T : \A y \in T : ~(<<y, x>> \in OpToRel(<, Nat))
  BY NatLessThanWellFounded, WFMin
<1>2. \A y \in T : ~(y < x)
  BY <1>1 DEF OpToRel
<1>3. \E z \in T : \A y \in T : z <= y
  BY <1>2
<1> QED BY <1>3 DEF Min

\* The lower of a number and another that may be missing.
LEMMA MinWithout ==
  ASSUME NEW a \in Int, NEW b, NEW c, b = c \/ b \in Int
  PROVE  LET m == Min({a} \cup ({b} \ {c}))
         IN m \in Int /\ m <= a /\ (b # c => m <= b) /\ (m = a \/ (b # c /\ m = b))
<1> DEFINE S == {a} \cup ({b} \ {c})
           m == Min(S)
<1>1. \E x \in S : \A y \in S : x <= y
  <2>1. CASE b = c
    <3>1. S = {a}
      BY <2>1
    <3> QED BY <3>1
  <2>2. CASE b # c
    <3>1. S = {a, b} /\ b \in Int
      BY <2>2
    <3> QED BY <3>1
  <2> QED BY <2>1, <2>2
<1>2. m \in S /\ \A y \in S : m <= y
  BY <1>1 DEF Min
<1>3. a \in S /\ (b # c => b \in S)
  OBVIOUS
<1>4. m = a \/ (b # c /\ m = b)
  BY <1>2
<1> HIDE DEF m
<1>5. m <= a /\ (b # c => m <= b)
  BY <1>2, <1>3
<1>6. m \in Int
  BY <1>4
<1>7. m \in Int /\ m <= a /\ (b # c => m <= b) /\ (m = a \/ (b # c /\ m = b))
  BY <1>4, <1>5, <1>6
<1> QED BY <1>7 DEF m

\* A repair reads at least from the revision it starts from.
LEMMA RepairFloorLow ==
  ASSUME TypeOK, NEW v \in Nat
  PROVE  repairFloor(v) \in Int /\ (v # 0 => repairFloor(v) <= v)
<1>1. tip - InitialWindow \in Int
  BY RepoSyncAssumption DEF TypeOK
<1> DEFINE a == tip - InitialWindow
<1> HIDE DEF a
<1>2. LET m == Min({a} \cup ({v} \ {0})) IN m \in Int /\ (v # 0 => m <= v)
  <2>1. a \in Int /\ (v = 0 \/ v \in Int)
    BY <1>1 DEF a
  <2>2. \A b, c : b = c \/ b \in Int =>
          LET m == Min({a} \cup ({b} \ {c})) IN m \in Int /\ (b # c => m <= b)
    BY <2>1, MinWithout
  <2> QED BY <2>1, <2>2
<1> QED BY <1>2 DEF repairFloor, a

\* The window of a deepening walk.
LEMMA WindowType ==
  ASSUME TypeOK, NEW f \in Int
  PROVE  /\ nextBackfillWindow(f).lo \in Int \cup {None}
         /\ nextBackfillWindow(f).hi = f
<1> DEFINE spans == <<InitialWindow>> \o Spans
           longer == {i \in DOMAIN spans : spans[i] > tip - f}
<1>1. <<InitialWindow>> \in Seq(Nat) /\ Spans \in Seq(Nat)
  BY RepoSyncAssumption
<1>2. spans \in Seq(Nat)
  BY <1>1, ConcatProperties
<1>3. DOMAIN spans \subseteq Nat /\ \A i \in DOMAIN spans : spans[i] \in Nat
  BY <1>2
<1>4. f # None
  BY RepoSyncAssumption
<1> HIDE DEF spans
<1>5. longer # {} => Min(longer) \in DOMAIN spans
  BY <1>3, MinOfNaturals
<1>6. longer # {} => tip - spans[Min(longer)] \in Int
  BY <1>3, <1>5 DEF TypeOK
<1> QED BY <1>4, <1>6 DEF nextBackfillWindow, spans

\* An empty index claims nothing.
LEMMA RepoInit == Init => Inv
<1> SUFFICES ASSUME Init PROVE Inv
  OBVIOUS
<1>1. TypeOK
  <2>1. Len(Writes) \in Nat /\ 0 \in 0 .. 0
    BY RepoSyncAssumption
  <2> QED BY <2>1, RepoSyncAssumption DEF Init, TypeOK, Idle, NoWalk
<1>2. RowClaims
  BY DEF Init, RowClaims, Claim
<1>3. HandlersApplied
  BY DEF Init, HandlersApplied, Idle
<1>4. WalkReads
  BY DEF Init, WalkReads, NoWalk
<1>5. DeepenReads
  BY DEF Init, DeepenReads
<1> QED BY <1>1, <1>2, <1>3, <1>4, <1>5 DEF Inv

\* The records the model's state is made of.
HandlerT == [stage : {"idle", "apply", "advance", "look", "mark"},
             rev : 0 .. tip, tries : 0 .. CASAttempts, from : 0 .. tip]
RowT == [version : 0 .. tip, repairFrom : 0 .. tip, floor : Int \cup {None},
         done : BOOLEAN, parked : BOOLEAN]
WalkT == [kind : {"none", "sync", "deepen"}, stage : {"idle", "head", "index", "record"},
          rev : 0 .. tip, lo : Int \cup {None}, hi : Int \cup {None}, all : BOOLEAN,
          tries : 0 .. WalkAttempts]
DeepenT == [on : BOOLEAN, floor : Int \cup {None}]

\* TypeOK in terms of them.
Parts ==
  /\ tip \in 0 .. Len(Writes)
  /\ handler \in [Relays -> HandlerT] /\ row \in RowT /\ walk \in WalkT /\ deepen \in DeepenT
  /\ got \subseteq 1 .. tip /\ refused \subseteq 1 .. tip /\ skipped \subseteq 1 .. tip
  /\ check \in 0 .. tip /\ mishaps \in 0 .. MaxMishaps

\* Parts is TypeOK.
LEMMA TypeParts == TypeOK <=> Parts
BY DEF TypeOK, Parts, HandlerT, RowT, WalkT, DeepenT

\* A step that does not move the repository keeps the types if it keeps each
\* of them.
LEMMA PartsKept ==
  ASSUME tip' = tip, tip \in 0 .. Len(Writes),
         handler' \in [Relays -> HandlerT], row' \in RowT, walk' \in WalkT, deepen' \in DeepenT,
         got' \subseteq 1 .. tip, refused' \subseteq 1 .. tip, skipped' \subseteq 1 .. tip,
         check' \in 0 .. tip, mishaps' \in 0 .. MaxMishaps
  PROVE  TypeOK'
<1>1. HandlerT' = HandlerT /\ RowT' = RowT /\ WalkT' = WalkT /\ DeepenT' = DeepenT
  BY DEF HandlerT, RowT, WalkT, DeepenT
<1>2. Parts'
  BY <1>1 DEF Parts
<1> QED BY <1>2, TypeParts, PTL

\* What the records become.
LEMMA RecordTypes ==
  ASSUME Parts
  PROVE  /\ Idle \in HandlerT /\ NoWalk \in WalkT /\ [on |-> FALSE, floor |-> None] \in DeepenT
         /\ \A h \in HandlerT :
              /\ [h EXCEPT !.stage = "look"] \in HandlerT
              /\ [h EXCEPT !.stage = "advance", !.tries = 1] \in HandlerT
              /\ [h EXCEPT !.from = 0] \in HandlerT
              /\ Again(h) \in HandlerT
         /\ \A v \in 0 .. tip : [row EXCEPT !.version = v] \in RowT /\ Wedged(v) \in RowT
         /\ \A b \in BOOLEAN : [row EXCEPT !.parked = b] \in RowT
<1>1. tip \in Nat /\ 0 \in 0 .. tip /\ row \in RowT /\ 0 \in 0 .. CASAttempts
      /\ 1 \in 0 .. CASAttempts /\ 0 \in 0 .. WalkAttempts
  BY RepoSyncAssumption DEF Parts
<1>2. Idle \in HandlerT
  BY <1>1 DEF Idle, HandlerT
<1>3. NoWalk \in WalkT
  BY <1>1 DEF NoWalk, WalkT
<1>4. [on |-> FALSE, floor |-> None] \in DeepenT
  BY DEF DeepenT
<1>5. ASSUME NEW h \in HandlerT
      PROVE  /\ [h EXCEPT !.stage = "look"] \in HandlerT
             /\ [h EXCEPT !.stage = "advance", !.tries = 1] \in HandlerT
             /\ [h EXCEPT !.from = 0] \in HandlerT
             /\ Again(h) \in HandlerT
  <2>1. [h EXCEPT !.stage = "look"] \in HandlerT
    BY DEF HandlerT
  <2>2. [h EXCEPT !.stage = "advance", !.tries = 1] \in HandlerT
    BY <1>1 DEF HandlerT
  <2>3. [h EXCEPT !.from = 0] \in HandlerT
    BY <1>1 DEF HandlerT
  <2>4. CASE h.tries < CASAttempts
    <3>1. h.tries + 1 \in 0 .. CASAttempts
      BY <2>4, RepoSyncAssumption DEF HandlerT
    <3>2. [h EXCEPT !.stage = "advance", !.tries = h.tries + 1] \in HandlerT
      BY <3>1 DEF HandlerT
    <3>3. Again(h) = [h EXCEPT !.stage = "advance", !.tries = h.tries + 1]
      BY <2>4 DEF Again, HandlerT
    <3> QED BY <2>1, <2>2, <2>3, <3>2, <3>3
  <2>5. CASE ~(h.tries < CASAttempts)
    BY <1>2, <2>1, <2>2, <2>3, <2>5 DEF Again
  <2> QED BY <2>4, <2>5
<1>6. ASSUME NEW v \in 0 .. tip PROVE [row EXCEPT !.version = v] \in RowT /\ Wedged(v) \in RowT
  <2>1. [row EXCEPT !.version = v] \in RowT
    BY <1>1 DEF RowT
  <2>2. Wedged(v) \in RowT
    BY <1>1 DEF RowT, Wedged
  <2> QED BY <2>1, <2>2
<1>7. ASSUME NEW b \in BOOLEAN PROVE [row EXCEPT !.parked = b] \in RowT
  BY <1>1 DEF RowT
<1> QED BY <1>2, <1>3, <1>4, <1>5, <1>6, <1>7

\* Mishaps are counted up to their bound.
LEMMA MishapsCounted ==
  ASSUME Parts, Mishap
  PROVE  mishaps' \in 0 .. MaxMishaps
BY RepoSyncAssumption DEF Parts, Mishap

\* Every step keeps the types.
LEMMA RepoTypes == ASSUME Inv, Next PROVE TypeOK'
<1>0. Parts
  BY TypeParts DEF Inv
<1>1. /\ tip \in Nat /\ 0 \in 0 .. tip /\ Len(Writes) \in Nat
      /\ handler \in [Relays -> HandlerT] /\ row \in RowT /\ walk \in WalkT /\ deepen \in DeepenT
  BY <1>0, RepoSyncAssumption DEF Parts
<1>2. CASE Commit
  <2>1. tip' \in 0 .. Len(Writes) /\ 0 .. tip \subseteq 0 .. tip' /\ 1 .. tip \subseteq 1 .. tip'
    BY <1>0, <1>1, <1>2 DEF Commit, Parts
  <2>2. HandlerT \subseteq HandlerT' /\ RowT \subseteq RowT' /\ WalkT \subseteq WalkT'
    BY <2>1 DEF HandlerT, RowT, WalkT
  <2>3. DeepenT' = DeepenT
    BY DEF DeepenT
  <2>4. Parts'
    BY <1>0, <1>2, <2>1, <2>2, <2>3 DEF Parts, Commit
  <2> QED BY <2>4, TypeParts, PTL
<1>3. ASSUME NEW r \in Relays, NEW h \in HandlerT, handler' = [handler EXCEPT ![r] = h],
             row' \in RowT, got' \subseteq 1 .. tip, refused' \subseteq 1 .. tip,
             mishaps' \in 0 .. MaxMishaps,
             UNCHANGED <<tip, skipped, walk, check, deepen>>
      PROVE  TypeOK'
  BY <1>0, <1>1, <1>3, PartsKept DEF Parts
<1>4. ASSUME NEW r \in Relays, NEW q \in Revs, Receive(r, q) PROVE TypeOK'
  <2>1. q \in 0 .. tip
    BY <1>1, <1>4 DEF Receive, Revs
  <2>2. [Idle EXCEPT !.stage = "apply", !.rev = q] \in HandlerT
    <3>1. \A h \in HandlerT : [h EXCEPT !.stage = "apply", !.rev = q] \in HandlerT
      BY <2>1 DEF HandlerT
    <3> QED BY <1>0, <3>1, RecordTypes
  <2> QED BY <1>0, <1>3, <1>4, <2>2 DEF Receive, Parts
<1>5. ASSUME NEW r \in Relays, Handle(r) PROVE TypeOK'
  <2>0. handler[r] \in HandlerT
    BY <1>1
  <2>1. CASE Bail(r)
    <3>1. Mishap
      BY <2>1 DEF Bail
    <3>2. mishaps' \in 0 .. MaxMishaps
      BY <1>0, <3>1, MishapsCounted
    <3> QED BY <1>0, <1>1, <1>3, <2>1, <3>2, RecordTypes DEF Bail, Parts
  <2>2. ASSUME handler[r].stage = "apply" PROVE handler[r].rev \in 1 .. tip
    BY <1>1, <2>0, <2>2 DEF Inv, HandlersApplied, HandlerT
  <2>3. CASE Apply(r)
    <3>1. Revived(handler[r].rev) \in RowT
      BY <1>0, <1>1, RecordTypes DEF Revived
    <3>2. handler' = [handler EXCEPT ![r] = [handler[r] EXCEPT !.stage = "advance", !.tries = 1]]
      BY <1>1, <2>3 DEF Apply
    <3>3. [handler[r] EXCEPT !.stage = "advance", !.tries = 1] \in HandlerT
      BY <1>0, <2>0, RecordTypes
    <3>4. got' \subseteq 1 .. tip /\ row' \in RowT
      BY <1>0, <2>2, <2>3, <3>1 DEF Apply, Parts
    <3> QED BY <1>0, <1>3, <2>3, <3>2, <3>3, <3>4 DEF Apply, Parts
  <2>4. CASE ApplyRefused(r)
    <3>1. row' \in RowT
      BY <1>0, <1>1, <2>4, RecordTypes DEF Revived, ApplyRefused
    <3>2. handler' = [handler EXCEPT ![r] = [handler[r] EXCEPT !.stage = "advance", !.tries = 1]]
      BY <1>1, <2>4 DEF ApplyRefused
    <3>3. [handler[r] EXCEPT !.stage = "advance", !.tries = 1] \in HandlerT
      BY <1>0, <2>0, RecordTypes
    <3>4. refused' \subseteq 1 .. tip
      BY <1>0, <2>2, <2>4 DEF ApplyRefused, Parts
    <3>5. mishaps' \in 0 .. MaxMishaps
      BY <1>0, <2>4, MishapsCounted DEF ApplyRefused
    <3> QED BY <1>0, <1>3, <2>4, <3>1, <3>2, <3>3, <3>4, <3>5 DEF ApplyRefused, Parts
  <2>5. CASE TrackAdvance(r)
    <3>1. CASE Advances(handler[r].rev - 1)
      <4>1. [row EXCEPT !.version = handler[r].rev] \in RowT
        <5>1. handler[r].rev \in 0 .. tip
          BY <2>0 DEF HandlerT
        <5> QED BY <1>0, <5>1, RecordTypes
      <4> QED BY <1>0, <1>3, <2>5, <3>1, <4>1, RecordTypes DEF TrackAdvance, Parts
    <3>2. CASE ~Advances(handler[r].rev - 1)
      <4>1. [handler[r] EXCEPT !.stage = "look"] \in HandlerT
        BY <1>0, <2>0, RecordTypes
      <4>2. handler' = [handler EXCEPT ![r] = [handler[r] EXCEPT !.stage = "look"]]
        BY <1>1, <2>5, <3>2 DEF TrackAdvance
      <4> QED BY <1>0, <1>1, <1>3, <2>5, <3>2, <4>1, <4>2 DEF TrackAdvance, Parts
    <3> QED BY <3>1, <3>2
  <2>6. CASE TrackLook(r)
    <3>1. row.version \in 0 .. tip
      BY <1>1 DEF RowT
    <3>2. [handler[r] EXCEPT !.stage = "mark", !.from = row.version] \in HandlerT
      BY <2>0, <3>1 DEF HandlerT
    <3>3. Placed(handler[r]) \in HandlerT
      BY <1>0, <2>0, <3>2, RecordTypes DEF Placed
    <3>4. handler' = [handler EXCEPT ![r] = Placed(handler[r])]
      BY <1>1, <2>6 DEF TrackLook
    <3> QED BY <1>0, <1>1, <1>3, <2>6, <3>3, <3>4 DEF TrackLook, Parts
  <2>7. CASE TrackMark(r)
    <3>1. CASE Marks(handler[r].from)
      <4>1. Wedged(handler[r].from) \in RowT
        <5>1. handler[r].from \in 0 .. tip
          BY <2>0 DEF HandlerT
        <5> QED BY <1>0, <5>1, RecordTypes
      <4> QED BY <1>0, <1>3, <2>7, <3>1, <4>1, RecordTypes DEF TrackMark, Parts
    <3>2. CASE ~Marks(handler[r].from)
      <4>1. Again([handler[r] EXCEPT !.from = 0]) \in HandlerT
        BY <1>0, <2>0, RecordTypes
      <4> QED BY <1>0, <1>1, <1>3, <2>7, <3>2, <4>1 DEF TrackMark, Parts
    <3> QED BY <3>1, <3>2
  <2> QED BY <1>5, <2>1, <2>3, <2>4, <2>5, <2>6, <2>7 DEF Handle
<1>6. ASSUME walk' \in WalkT, row' \in RowT, deepen' \in DeepenT, got' \subseteq 1 .. tip,
             refused' \subseteq 1 .. tip, skipped' \subseteq 1 .. tip, check' \in 0 .. tip,
             mishaps' \in 0 .. MaxMishaps, UNCHANGED <<tip, handler>>
      PROVE  TypeOK'
  BY <1>0, <1>6, PartsKept DEF Parts
<1>7. CASE SyncStart
  <2>1. repairFloor(row.repairFrom) \in Int
    BY <1>1, RepairFloorLow DEF Inv, RowT
  <2>2. walk' \in WalkT
    BY <1>1, <1>7, <2>1, RepoSyncAssumption DEF SyncStart, NoWalk, WalkT
  <2> QED BY <1>0, <1>6, <1>7, <2>2 DEF SyncStart, Parts
<1>8. CASE DeepenRead
  <2>1. deepen' \in DeepenT
    BY <1>1, <1>8 DEF DeepenRead, DeepenT, RowT
  <2> QED BY <1>0, <1>6, <1>8, <2>1 DEF DeepenRead, Parts
<1>9. CASE DeepenLock
  <2>1. deepen.floor \in Int
    BY <1>1, <1>9 DEF Inv, DeepenLock, DeepenReads, DeepenT
  <2>2. /\ nextBackfillWindow(deepen.floor).lo \in Int \cup {None}
        /\ nextBackfillWindow(deepen.floor).hi \in Int \cup {None}
    BY <2>1, WindowType DEF Inv
  <2>3. walk' \in WalkT
    BY <1>1, <1>9, <2>2, RepoSyncAssumption DEF DeepenLock, NoWalk, WalkT
  <2> QED BY <1>0, <1>6, <1>9, <2>3, RecordTypes DEF DeepenLock, Parts
<1>10. ASSUME NEW all \in BOOLEAN, WalkHead(all) PROVE TypeOK'
  <2>1. tip \in 0 .. tip /\ 1 \in 0 .. WalkAttempts
    BY <1>1, RepoSyncAssumption
  <2>2. walk' \in WalkT
    BY <1>1, <1>10, <2>1 DEF WalkHead, WalkT
  <2> QED BY <1>0, <1>6, <1>10, <2>2 DEF WalkHead, Parts
<1>11. CASE WalkMoved
  <2>1. tip \in 0 .. tip /\ walk.tries + 1 \in 0 .. WalkAttempts
    BY <1>1, <1>11, RepoSyncAssumption DEF WalkMoved, MayRewalk, WalkT
  <2>2. walk' \in WalkT
    BY <1>1, <1>11, <2>1 DEF WalkMoved, WalkT
  <2> QED BY <1>0, <1>6, <1>11, <2>2 DEF WalkMoved, Parts
<1>12. Covered(walk) \subseteq 1 .. tip
  <2>1. walk.rev \in 0 .. tip
    BY <1>1 DEF WalkT
  <2> QED BY <1>1, <2>1 DEF Covered
<1>13. [walk EXCEPT !.stage = "record"] \in WalkT
  BY <1>1 DEF WalkT
<1>14. CASE WalkIndex
  <2>1. got' \subseteq 1 .. tip
    BY <1>0, <1>12, <1>14 DEF WalkIndex, Parts
  <2> QED BY <1>0, <1>6, <1>13, <1>14, <2>1 DEF WalkIndex, Parts
<1>15. ASSUME NEW q \in Revs, WalkIndexRefused(q) PROVE TypeOK'
  <2>1. got' \subseteq 1 .. tip /\ refused' \subseteq 1 .. tip
    BY <1>0, <1>12, <1>15 DEF WalkIndexRefused, Parts
  <2>2. mishaps' \in 0 .. MaxMishaps
    BY <1>0, <1>15, MishapsCounted DEF WalkIndexRefused
  <2> QED BY <1>0, <1>6, <1>13, <1>15, <2>1, <2>2 DEF WalkIndexRefused, Parts
<1>16. ASSUME NEW gone \in BOOLEAN PROVE [row EXCEPT !.parked = @ \/ gone] \in RowT
  BY <1>1 DEF RowT
<1>17. ASSUME NEW gone \in BOOLEAN, WalkFails(gone) PROVE TypeOK'
  <2>1. mishaps' \in 0 .. MaxMishaps
    BY <1>0, <1>17, MishapsCounted DEF WalkFails
  <2> QED BY <1>0, <1>6, <1>16, <1>17, <2>1, RecordTypes DEF WalkFails, Parts
<1>18. ASSUME NEW gone \in BOOLEAN, CheckFails(gone) PROVE TypeOK'
  <2>1. mishaps' \in 0 .. MaxMishaps
    BY <1>0, <1>18, MishapsCounted DEF CheckFails
  <2> QED BY <1>0, <1>1, <1>6, <1>16, <1>18, <2>1 DEF CheckFails, Parts
<1>19. CASE SyncRecord
  <2>1. walk.lo \in Int \cup {None} /\ row.floor \in Int \cup {None} /\ walk.rev \in 0 .. tip
        /\ walk.all \in BOOLEAN /\ row.done \in BOOLEAN
    BY <1>1 DEF WalkT, RowT
  <2>2. ~(walk.all \/ row.done) => walk.lo \in Int
    BY <1>19, <2>1 DEF Inv, SyncRecord, WalkReads
  <2>3. /\ mergeBackfillState(walk).done \in BOOLEAN
        /\ mergeBackfillState(walk).floor \in Int \cup {None}
    <3>1. CASE walk.all \/ row.done
      BY <3>1 DEF mergeBackfillState
    <3>2. CASE ~(walk.all \/ row.done)
      <4>1. Min({walk.lo} \cup ({row.floor} \ {None})) \in Int
        BY <2>1, <2>2, <3>2, MinWithout
      <4> QED BY <3>2, <4>1 DEF mergeBackfillState
    <3> QED BY <3>1, <3>2
  <2>4. row' \in RowT
    BY <1>1, <1>19, <2>1, <2>3 DEF SyncRecord, RowT
  <2> QED BY <1>0, <1>6, <1>19, <2>4, RecordTypes DEF SyncRecord, Parts
<1>20. CASE DeepenRecord
  <2>1. row.version \in 0 .. tip /\ walk.rev \in 0 .. tip /\ walk.lo \in Int \cup {None}
    BY <1>1 DEF RowT, WalkT
  <2>2. row.version + 1 .. walk.rev \subseteq 1 .. tip
    BY <1>1, <2>1
  <2>3. skipped' \subseteq 1 .. tip
    BY <1>0, <1>20, <2>2 DEF DeepenRecord, Parts
  <2>4. row' \in RowT
    BY <1>1, <1>20, <2>1 DEF DeepenRecord, RowT
  <2> QED BY <1>0, <1>6, <1>20, <2>3, <2>4, RecordTypes DEF DeepenRecord, Parts
<1>21. CASE CheckRead
  <2>1. row.version \in 0 .. tip
    BY <1>1 DEF RowT
  <2> QED BY <1>0, <1>6, <1>21, <2>1 DEF CheckRead, Parts
<1>22. CASE CheckMark
  <2>1. Wedged(check) \in RowT
    BY <1>0, RecordTypes DEF Parts
  <2> QED BY <1>0, <1>1, <1>6, <1>22, <2>1 DEF CheckMark, Parts
<1>23. CASE Restart
  <2>1. handler' \in [Relays -> HandlerT]
    BY <1>0, <1>23, RecordTypes DEF Restart
  <2>2. mishaps' \in 0 .. MaxMishaps
    BY <1>0, <1>23, MishapsCounted DEF Restart
  <2> QED BY <1>0, <1>1, <1>23, <2>1, <2>2, PartsKept, RecordTypes DEF Restart, Parts
<1> QED BY <1>2, <1>4, <1>5, <1>7, <1>8, <1>9, <1>10, <1>11, <1>14, <1>15, <1>17, <1>18,
           <1>19, <1>20, <1>21, <1>22, <1>23 DEF Next

\* A record that is there stays there, and a claim that does not move keeps
\* what it rests on.
LEMMA ClaimKept ==
  ASSUME RowClaims, Claim' = Claim, row'.floor = row.floor, row'.done = row.done,
         got \subseteq got', refused \subseteq refused', skipped \subseteq skipped'
  PROVE  RowClaims' /\ \A f : Clear(f, Claim) => Clear(f, Claim)'
<1>1. \A q : Has(q) => Has(q)'
  BY DEF Has
<1>2. \A f : Clear(f, Claim) => Clear(f, Claim)'
  BY <1>1 DEF Clear
<1> DEFINE g == IF row.done THEN None ELSE row.floor
<1>3. g' = g
  OBVIOUS
<1>4. Clear(g, Claim) => Clear(g, Claim)'
  BY <1>2
<1>5. RowClaims'
  BY <1>1, <1>2, <1>4 DEF RowClaims
<1> QED BY <1>2, <1>5

\* A step that leaves the row's claim, the walk and the candidate alone.
LEMMA RestKept ==
  ASSUME Inv, Claim' = Claim, row'.floor = row.floor, row'.done = row.done,
         row'.version = row.version \/ walk.kind # "sync",
         row'.repairFrom = row.repairFrom \/ walk.kind # "sync",
         got \subseteq got', refused \subseteq refused', skipped \subseteq skipped',
         UNCHANGED <<walk, deepen>>
  PROVE  RowClaims' /\ WalkReads' /\ DeepenReads'
<1>1. RowClaims' /\ \A f : Clear(f, Claim) => Clear(f, Claim)'
  BY ClaimKept DEF Inv
<1>2. Covered(walk)' = Covered(walk)
  BY DEF Covered, InWindow
<1>3. DeepenReads'
  BY <1>1 DEF Inv, DeepenReads
<1>4. walk.kind = "deepen" => Claim' # 0 /\ walk'.hi # None /\ Clear(walk.hi, Claim)'
  BY <1>1 DEF Inv, WalkReads
<1>5. WalkReads'
  BY <1>2, <1>4 DEF Inv, WalkReads
<1> QED BY <1>1, <1>3, <1>5

\* Handlers that are left alone have still applied their commits.
LEMMA HandlersKept ==
  ASSUME HandlersApplied, handler' = handler, got \subseteq got', refused \subseteq refused'
  PROVE  HandlersApplied'
BY DEF HandlersApplied

\* Every step keeps a commit from being claimed before it was applied.
LEMMA RepoHandlers == ASSUME Inv, Next PROVE HandlersApplied'
<1>0. HandlersApplied /\ Parts /\ handler \in [Relays -> HandlerT]
  BY TypeParts DEF Inv, Parts
<1>1. ASSUME NEW r \in Relays, NEW h, handler' = [handler EXCEPT ![r] = h],
             got \subseteq got', refused \subseteq refused',
             h.stage # "idle" => h.rev # 0,
             h.stage \in {"advance", "look", "mark"} => h.rev \in got' \cup refused'
      PROVE  HandlersApplied'
  BY <1>0, <1>1 DEF HandlersApplied
<1>2. Idle.stage = "idle"
  BY DEF Idle
<1>3. ASSUME NEW r \in Relays, NEW q \in Revs, Receive(r, q) PROVE HandlersApplied'
  <2> DEFINE h == [Idle EXCEPT !.stage = "apply", !.rev = q]
  <2>1. h.stage = "apply" /\ h.rev = q /\ q # 0
    BY RepoSyncAssumption DEF Idle, Revs
  <2>2. handler' = [handler EXCEPT ![r] = h] /\ got' = got /\ refused' = refused
    BY <1>3 DEF Receive
  <2> HIDE DEF h
  <2> QED BY <1>1, <2>1, <2>2
<1>4. ASSUME NEW r \in Relays, Handle(r) PROVE HandlersApplied'
  <2>0. handler[r] \in HandlerT
    BY <1>0
  <2>1. CASE Bail(r)
    BY <1>1, <1>2, <2>1 DEF Bail
  <2>2. CASE Apply(r) \/ ApplyRefused(r)
    <3> DEFINE h == [handler[r] EXCEPT !.stage = "advance", !.tries = 1]
    <3>1. h.stage = "advance" /\ h.rev = handler[r].rev
      BY <2>0 DEF HandlerT
    <3>2. /\ handler[r].stage = "apply" /\ handler' = [handler EXCEPT ![r] = h]
          /\ got \subseteq got' /\ refused \subseteq refused'
          /\ handler[r].rev \in got' \cup refused'
      BY <1>0, <2>2 DEF Apply, ApplyRefused
    <3> HIDE DEF h
    <3>3. handler[r].rev # 0
      BY <1>0, <3>2 DEF HandlersApplied
    <3> QED BY <1>1, <3>1, <3>2, <3>3
  <2>3. ASSUME handler[r].stage \in {"advance", "look", "mark"}
        PROVE  handler[r].rev # 0 /\ handler[r].rev \in got \cup refused
    BY <1>0, <2>3 DEF HandlersApplied
  <2>4. \A h \in HandlerT : /\ [h EXCEPT !.stage = "look"].rev = h.rev
                            /\ [h EXCEPT !.from = 0].rev = h.rev
                            /\ [h EXCEPT !.stage = "mark", !.from = row.version].rev = h.rev
    BY DEF HandlerT
  <2>5. \A h \in HandlerT : Again(h) = Idle \/ Again(h).rev = h.rev
    BY DEF Again, HandlerT
  <2>6. CASE TrackAdvance(r)
    <3>1. CASE Advances(handler[r].rev - 1)
      BY <1>1, <1>2, <2>6, <3>1 DEF TrackAdvance
    <3>2. CASE ~Advances(handler[r].rev - 1)
      <4>1. handler' = [handler EXCEPT ![r] = [handler[r] EXCEPT !.stage = "look"]]
        BY <1>0, <2>6, <3>2 DEF TrackAdvance
      <4> QED BY <1>1, <2>0, <2>3, <2>4, <2>6, <4>1 DEF TrackAdvance
    <3> QED BY <3>1, <3>2
  <2>7. CASE TrackLook(r)
    <3>1. handler' = [handler EXCEPT ![r] = Placed(handler[r])]
      BY <1>0, <2>7 DEF TrackLook
    <3>2. Placed(handler[r]) = Idle \/ Placed(handler[r]).rev = handler[r].rev
      BY <2>0, <2>4, <2>5 DEF Placed
    <3> QED BY <1>1, <1>2, <2>3, <2>7, <3>1, <3>2 DEF TrackLook
  <2>8. CASE TrackMark(r)
    <3>1. CASE Marks(handler[r].from)
      BY <1>1, <1>2, <2>8, <3>1 DEF TrackMark
    <3>2. CASE ~Marks(handler[r].from)
      <4> DEFINE h == [handler[r] EXCEPT !.from = 0]
      <4>1. h \in HandlerT /\ h.rev = handler[r].rev
        BY <1>0, <2>0, <2>4, RecordTypes
      <4>2. handler' = [handler EXCEPT ![r] = Again(h)]
        BY <2>8, <3>2 DEF TrackMark
      <4> HIDE DEF h
      <4>3. Again(h) = Idle \/ Again(h).rev = handler[r].rev
        BY <2>5, <4>1
      <4> QED BY <1>1, <1>2, <2>3, <2>8, <4>2, <4>3 DEF TrackMark
    <3> QED BY <3>1, <3>2
  <2> QED BY <1>4, <2>1, <2>2, <2>6, <2>7, <2>8 DEF Handle
<1>5. CASE Restart
  BY <1>2, <1>5 DEF Restart, HandlersApplied
<1>6. CASE \/ Commit \/ SyncStart \/ DeepenRead \/ DeepenLock
           \/ \E all \in BOOLEAN : WalkHead(all)
           \/ WalkMoved \/ WalkIndex
           \/ \E q \in Revs : WalkIndexRefused(q)
           \/ \E gone \in BOOLEAN : WalkFails(gone) \/ CheckFails(gone)
           \/ SyncRecord \/ DeepenRecord \/ CheckRead \/ CheckMark
  <2>1. handler' = handler /\ got \subseteq got' /\ refused \subseteq refused'
    BY <1>6 DEF Commit, SyncStart, DeepenRead, DeepenLock, WalkHead, WalkMoved, WalkIndex,
                WalkIndexRefused, WalkFails, CheckFails, SyncRecord, DeepenRecord, CheckRead, CheckMark
  <2> QED BY <1>0, <2>1, HandlersKept
<1> QED BY <1>3, <1>4, <1>5, <1>6 DEF Next

\* A step of a walk or of its beginning, which leaves the row's claim alone.
LEMMA WalkKept ==
  ASSUME Inv, Claim' = Claim, row'.floor = row.floor, row'.done = row.done,
         got \subseteq got', refused \subseteq refused', skipped \subseteq skipped',
         deepen' = deepen \/ ~deepen'.on
  PROVE  /\ RowClaims' /\ DeepenReads'
         /\ \A f : Clear(f, Claim) => Clear(f, Claim)'
<1>1. RowClaims' /\ \A f : Clear(f, Claim) => Clear(f, Claim)'
  BY ClaimKept DEF Inv
<1>2. DeepenReads'
  BY <1>1 DEF Inv, DeepenReads
<1> QED BY <1>1, <1>2

\* No walk reads nothing.
LEMMA NoWalkReads == ASSUME walk' = NoWalk PROVE WalkReads'
BY DEF WalkReads, NoWalk

\* A claim advanced by the next commit, which has been applied.
LEMMA RepoAdvance ==
  ASSUME Inv, NEW q \in Nat, q \in got \cup refused, Advances(q - 1),
         row' = [row EXCEPT !.version = q],
         UNCHANGED <<got, refused, skipped, walk, deepen>>
  PROVE  RowClaims' /\ WalkReads' /\ DeepenReads'
<1>0. row \in RowT /\ walk \in WalkT
  BY TypeParts DEF Inv, Parts
<1>1. /\ row.version = q - 1 /\ Claim = q - 1 /\ row'.version = q /\ Claim' = q /\ q - 1 # 0 /\ q # 0
      /\ row'.floor = row.floor /\ row'.done = row.done
  <2>1. row.version = q - 1 /\ q - 1 # 0
    BY DEF Advances
  <2>2. row'.version = q /\ row'.floor = row.floor /\ row'.done = row.done
    BY <1>0 DEF RowT
  <2>3. q # 0
    BY <1>0, <2>1 DEF RowT
  <2> QED BY <2>1, <2>2, <2>3 DEF Claim
<1>2. (\A p : Has(p) => Has(p)') /\ Has(q)'
  BY DEF Has
<1>3. \A p \in 1 .. q : p \in 1 .. (q - 1) \/ p = q
  OBVIOUS
<1>4. \A f : Clear(f, Claim) => Clear(f, Claim)'
  BY <1>1, <1>2, <1>3 DEF Clear
<1>5. RowClaims'
  <2> DEFINE g == IF row.done THEN None ELSE row.floor
  <2>1. g' = g /\ (Clear(g, Claim) => Clear(g, Claim)')
    BY <1>1, <1>4
  <2> QED BY <1>1, <1>2, <1>3, <2>1 DEF Inv, RowClaims
<1>6. DeepenReads'
  BY <1>1, <1>4 DEF Inv, DeepenReads
<1>7. walk.kind # "sync"
  BY <1>1 DEF Inv, WalkReads
<1>8. Covered(walk)' = Covered(walk)
  BY DEF Covered, InWindow
<1>9. walk.kind = "deepen" => Claim' # 0 /\ walk'.hi # None /\ Clear(walk.hi, Claim)'
  BY <1>1, <1>4 DEF Inv, WalkReads
<1>10. WalkReads'
  BY <1>7, <1>8, <1>9 DEF Inv, WalkReads
<1> QED BY <1>5, <1>6, <1>10

\* A row marked for repair claims what it claimed.
LEMMA RepoMark ==
  ASSUME Inv, NEW v \in Nat, Marks(v), row' = Wedged(v),
         UNCHANGED <<got, refused, skipped, walk, deepen>>
  PROVE  RowClaims' /\ WalkReads' /\ DeepenReads'
<1>0. row \in RowT
  BY TypeParts DEF Inv, Parts
<1>1. row.version = v /\ v # 0
  BY DEF Marks
<1>2. /\ row'.version = 0 /\ row'.repairFrom = v /\ row'.floor = row.floor /\ row'.done = row.done
  BY <1>0 DEF Wedged, RowT
<1>3. Claim' = Claim
  BY <1>1, <1>2 DEF Claim
<1>4. walk.kind # "sync"
  BY <1>1 DEF Inv, WalkReads
<1> QED BY <1>2, <1>3, <1>4, RestKept

\* A recorded sync claims what it indexed and what the repair's start stood for.
LEMMA RepoSyncRecord ==
  ASSUME Inv, SyncRecord
  PROVE  RowClaims' /\ WalkReads' /\ DeepenReads'
<1>0. /\ row \in RowT /\ walk \in WalkT /\ tip \in Nat
  BY TypeParts, RepoSyncAssumption DEF Inv, Parts
<1> DEFINE w == walk
           done == w.all \/ row.done
           floor == IF done THEN None ELSE Min({w.lo} \cup ({row.floor} \ {None}))
<1>1. /\ w.kind = "sync" /\ w.stage = "record" /\ walk' = NoWalk
      /\ row'.version = w.rev /\ row'.repairFrom = 0 /\ row'.floor = floor /\ row'.done = done
      /\ UNCHANGED <<got, refused, skipped, deepen>>
  BY DEF SyncRecord, mergeBackfillState
<1>2. /\ w.rev \in Nat /\ w.rev # 0 /\ w.lo \in Int \cup {None} /\ row.floor \in Int \cup {None}
      /\ w.all \in BOOLEAN /\ row.done \in BOOLEAN /\ row.repairFrom \in Nat
  BY <1>0, <1>1 DEF Inv, WalkReads, WalkT, RowT
<1>3. /\ row.version = 0 /\ w.hi = None /\ Covered(w) \subseteq got \cup refused
      /\ ~w.all => w.lo \in Int /\ (row.repairFrom # 0 => w.lo <= row.repairFrom)
  BY <1>1, <1>2 DEF Inv, WalkReads
<1>4. Claim = row.repairFrom /\ Claim' = w.rev
  BY <1>1, <1>2, <1>3 DEF Claim
<1>5. \A q \in 1 .. w.rev : Writes[q] = "full" => Has(q)'
  BY <1>1, <1>3 DEF Covered, Has
<1>6. ASSUME NEW q \in 1 .. w.rev, Writes[q] = "log", w.all \/ q >= w.lo PROVE Has(q)'
  <2>1. q \in Covered(w)
    BY <1>3, <1>6 DEF Covered, InWindow
  <2> QED BY <1>1, <1>3, <2>1 DEF Has
<1>7. ASSUME NEW q \in 1 .. w.rev, Writes[q] = "log", ~w.all, q < w.lo,
             row.repairFrom # 0, row.done \/ q >= row.floor
      PROVE  Has(q)'
  <2>1. q \in 1 .. Claim
    BY <1>2, <1>3, <1>4, <1>7
  <2>2. Clear(IF row.done THEN None ELSE row.floor, Claim)
    BY <1>4, <1>7 DEF Inv, RowClaims
  <2>3. Has(q)
    BY <1>7, <2>1, <2>2 DEF Clear
  <2> QED BY <1>1, <2>3 DEF Has
<1>8. Claim # 0 \/ (row.floor = None /\ ~row.done)
  BY DEF Inv, RowClaims
<1>9. ~done => floor \in Int /\ (floor = w.lo \/ (row.floor # None /\ floor = row.floor))
  <2> SUFFICES ASSUME ~done PROVE floor \in Int /\ (floor = w.lo \/ (row.floor # None /\ floor = row.floor))
    OBVIOUS
  <2>1. w.lo \in Int /\ (row.floor = None \/ row.floor \in Int)
    BY <1>2, <1>3
  <2>2. LET m == Min({w.lo} \cup ({row.floor} \ {None}))
        IN m \in Int /\ (m = w.lo \/ (row.floor # None /\ m = row.floor))
    <3> DEFINE a == w.lo
               b == row.floor
    <3>1. a \in Int /\ (b = None \/ b \in Int)
      BY <2>1
    <3> SUFFICES LET m == Min({a} \cup ({b} \ {None}))
                 IN m \in Int /\ (m = a \/ (b # None /\ m = b))
      OBVIOUS
    <3> HIDE DEF a, b
    <3> QED BY ONLY <3>1, MinWithout, ZenonT(60)
  <2> QED BY <2>2
<1> HIDE DEF floor
<1>10. ASSUME NEW q \in 1 .. w.rev, Writes[q] = "log", done \/ q >= floor PROVE Has(q)'
  <2>1. CASE w.all
    BY <1>6, <1>10, <2>1
  <2>2. CASE ~w.all /\ q >= w.lo
    BY <1>6, <1>10, <2>2
  <2>3. CASE ~w.all /\ ~(q >= w.lo)
    <3>1. q < w.lo
      BY <1>3, <2>3
    <3>2. row.done \/ (row.floor # None /\ q >= row.floor)
      BY <1>9, <1>10, <2>3
    <3>3. row.repairFrom # 0
      BY <1>4, <1>8, <3>2
    <3> QED BY <1>7, <1>10, <2>3, <3>1, <3>2, <3>3
  <2> QED BY <2>1, <2>2, <2>3
<1>11. RowClaims'
  <2>1. Claim' # 0 /\ (row'.done \/ row'.floor # None)
    BY <1>1, <1>2, <1>4, <1>9, RepoSyncAssumption
  <2>2. Clear(IF row.done THEN None ELSE row.floor, Claim)'
    <3>1. \A q \in 1 .. w.rev : Writes[q] = "log" /\ (done \/ q >= floor) => Has(q)'
      BY <1>10
    <3>2. ~done => floor # None
      BY <1>9, RepoSyncAssumption
    <3>3. row'.done = done /\ row'.floor = floor /\ Claim' = w.rev
      BY <1>1, <1>4
    <3> HIDE DEF done, w
    <3>4. CASE done
      BY <3>1, <3>3, <3>4 DEF Clear
    <3>5. CASE ~done
      BY <3>1, <3>2, <3>3, <3>5 DEF Clear
    <3> QED BY <3>4, <3>5
  <2>3. \A q \in 1 .. Claim' : Writes[q] = "full" => Has(q)'
    BY <1>4, <1>5
  <2> QED BY <2>1, <2>2, <2>3 DEF RowClaims
<1>12. DeepenReads'
  <2> SUFFICES ASSUME deepen.on
               PROVE  /\ Claim' # 0 /\ deepen.floor # None
                      /\ \A q \in 1 .. Claim' : Writes[q] = "log" /\ q >= deepen.floor => Has(q)'
    BY <1>1 DEF DeepenReads, Clear
  <2>1. Claim # 0 /\ deepen.floor # None /\ Clear(deepen.floor, Claim)
    BY DEF Inv, DeepenReads
  <2>2. ASSUME NEW q \in 1 .. w.rev, Writes[q] = "log", q >= deepen.floor PROVE Has(q)'
    <3>1. CASE w.all \/ q >= w.lo
      BY <1>6, <2>2, <3>1
    <3>2. CASE ~(w.all \/ q >= w.lo)
      <4>1. q \in 1 .. Claim
        BY <1>2, <1>3, <1>4, <2>1, <3>2
      <4>2. Has(q)
        BY <2>1, <2>2, <4>1 DEF Clear
      <4> QED BY <1>1, <4>2 DEF Has
    <3> QED BY <3>1, <3>2
  <2> QED BY <1>2, <1>4, <2>1, <2>2
<1> QED BY <1>1, <1>11, <1>12, NoWalkReads

\* A recorded window claims what it indexed, what its upper end stood for, and
\* what it stepped over.
LEMMA RepoDeepenRecord ==
  ASSUME Inv, DeepenRecord
  PROVE  RowClaims' /\ WalkReads' /\ DeepenReads'
<1>0. row \in RowT /\ walk \in WalkT /\ tip \in Nat
  BY TypeParts, RepoSyncAssumption DEF Inv, Parts
<1>1. WalkReads' /\ UNCHANGED <<got, refused, deepen>>
  BY NoWalkReads DEF DeepenRecord
<1>2. CASE row.version = 0
  <2>1. UNCHANGED <<row, skipped>>
    BY <1>2 DEF DeepenRecord, MayRecordWindow
  <2> QED BY <1>1, <2>1, WalkKept DEF Claim
<1>3. CASE row.version # 0
  <2> DEFINE v == row.version
             n == walk.rev
  <2>1. /\ v \in Nat /\ n \in Nat /\ n # 0 /\ walk.lo \in Int \cup {None} /\ walk.hi \in Int
        /\ walk.all \in BOOLEAN /\ Covered(walk) \subseteq got \cup refused
        /\ Claim = v /\ Clear(walk.hi, v) /\ walk.hi # None
        /\ walk.all => walk.lo = None
    BY <1>0, <1>3 DEF Inv, WalkReads, DeepenRecord, WalkT, RowT, Claim
  <2>2. /\ row'.version = n /\ row'.floor = walk.lo /\ row'.done = (walk.lo = None)
        /\ skipped' = skipped \cup (v + 1 .. n)
    BY <1>0, <1>3 DEF DeepenRecord, MayRecordWindow, RowT
  <2>3. Claim' = n
    BY <2>1, <2>2 DEF Claim
  <2>4. \A q : Has(q) => Has(q)'
    BY <1>1, <2>2 DEF Has
  <2>5. \A q \in 1 .. n : q \in 1 .. v \/ Has(q)'
    <3> SUFFICES ASSUME NEW q \in 1 .. n, ~(q \in 1 .. v) PROVE Has(q)'
      OBVIOUS
    <3>1. q \in v + 1 .. n
      BY <2>1
    <3> QED BY <2>2, <3>1 DEF Has
  <2>6. ASSUME NEW q \in 1 .. n, Writes[q] = "log", walk.lo = None \/ q >= walk.lo PROVE Has(q)'
    <3>1. CASE walk.all \/ q < walk.hi
      <4>1. q \in Covered(walk)
        BY <2>6, <3>1 DEF Covered, InWindow
      <4> QED BY <1>1, <2>1, <4>1 DEF Has
    <3>2. CASE q >= walk.hi
      <4>1. q \in 1 .. v => Has(q)
        BY <2>1, <2>6, <3>2 DEF Clear
      <4> QED BY <2>4, <2>5, <4>1
    <3> QED BY <2>1, <3>1, <3>2
  <2>7. RowClaims'
    <3>1. \A q \in 1 .. v : Writes[q] = "full" => Has(q)
      BY <1>3, <2>1 DEF Inv, RowClaims
    <3>2. \A q \in 1 .. n : Writes[q] = "full" => Has(q)'
      BY <2>4, <2>5, <3>1
    <3>3. (IF row'.done THEN None ELSE row'.floor) = walk.lo
      BY <2>2
    <3>4. Clear(IF row.done THEN None ELSE row.floor, Claim)'
      BY <2>3, <2>6, <3>3 DEF Clear
    <3>5. Claim' # 0 /\ (row'.done \/ row'.floor # None)
      BY <2>1, <2>2, <2>3
    <3>6. \A q \in 1 .. Claim' : Writes[q] = "full" => Has(q)'
      BY <2>3, <3>2
    <3> QED BY <3>4, <3>5, <3>6 DEF RowClaims
  <2>8. DeepenReads'
    <3> SUFFICES ASSUME deepen.on PROVE deepen.floor # None /\ Clear(deepen.floor, Claim)'
      BY <1>1, <2>1, <2>3 DEF DeepenReads
    <3>1. deepen.floor # None /\ Clear(deepen.floor, v)
      BY <2>1 DEF Inv, DeepenReads
    <3> QED BY <1>1, <2>3, <2>4, <2>5, <3>1 DEF Clear
  <2> QED BY <1>1, <2>7, <2>8
<1> QED BY <1>2, <1>3

\* Every step keeps the claims.
LEMMA RepoClaims == ASSUME Inv, Next PROVE RowClaims' /\ WalkReads' /\ DeepenReads'
<1>0. /\ row \in RowT /\ walk \in WalkT /\ deepen \in DeepenT /\ tip \in Nat
      /\ handler \in [Relays -> HandlerT] /\ check \in Nat
  BY TypeParts, RepoSyncAssumption DEF Inv, Parts
<1>1. ASSUME row' = row \/ \E b \in BOOLEAN : row' = [row EXCEPT !.parked = b]
      PROVE  /\ Claim' = Claim /\ row'.floor = row.floor /\ row'.done = row.done
             /\ row'.version = row.version /\ row'.repairFrom = row.repairFrom
  <2>1. /\ row'.floor = row.floor /\ row'.done = row.done
        /\ row'.version = row.version /\ row'.repairFrom = row.repairFrom
    BY <1>0, <1>1 DEF RowT
  <2> QED BY <2>1 DEF Claim
<1>2. ASSUME row' = row \/ \E b \in BOOLEAN : row' = [row EXCEPT !.parked = b],
             got \subseteq got', refused \subseteq refused', skipped' = skipped,
             UNCHANGED <<walk, deepen>>
      PROVE  RowClaims' /\ WalkReads' /\ DeepenReads'
  BY <1>1, <1>2, RestKept
<1>3. CASE Commit \/ CheckRead \/ \E r \in Relays, q \in Revs : Receive(r, q)
  BY <1>2, <1>3 DEF Commit, CheckRead, Receive
<1>4. ASSUME NEW r \in Relays, Handle(r) PROVE RowClaims' /\ WalkReads' /\ DeepenReads'
  <2>0. handler[r].rev \in Nat /\ handler[r].from \in Nat
    BY <1>0 DEF HandlerT
  <2>1. CASE Bail(r) \/ TrackLook(r)
    BY <1>2, <2>1 DEF Bail, TrackLook
  <2>2. CASE Apply(r) \/ ApplyRefused(r)
    <3>1. row' = row \/ row' = [row EXCEPT !.parked = FALSE]
      BY <2>2 DEF Apply, ApplyRefused, Revived
    <3> QED BY <1>2, <2>2, <3>1 DEF Apply, ApplyRefused
  <2>3. CASE TrackAdvance(r)
    <3>1. CASE Advances(handler[r].rev - 1)
      <4>1. handler[r].rev \in got \cup refused
        BY <2>3 DEF Inv, HandlersApplied, TrackAdvance
      <4> QED BY <2>0, <2>3, <3>1, <4>1, RepoAdvance DEF TrackAdvance
    <3>2. CASE ~Advances(handler[r].rev - 1)
      BY <1>2, <2>3, <3>2 DEF TrackAdvance
    <3> QED BY <3>1, <3>2
  <2>4. CASE TrackMark(r)
    <3>1. CASE Marks(handler[r].from)
      BY <2>0, <2>4, <3>1, RepoMark DEF TrackMark
    <3>2. CASE ~Marks(handler[r].from)
      BY <1>2, <2>4, <3>2 DEF TrackMark
    <3> QED BY <3>1, <3>2
  <2> QED BY <1>4, <2>1, <2>2, <2>3, <2>4 DEF Handle
<1>5. CASE SyncStart
  <2>1. /\ RowClaims' /\ DeepenReads' /\ row' = row /\ row.version = 0
    BY <1>1, <1>5, WalkKept DEF SyncStart
  <2>2. /\ walk'.kind = "sync" /\ walk'.stage = "head" /\ walk'.lo = repairFloor(row.repairFrom)
        /\ ~walk'.all /\ walk'.hi = None
    BY <1>5 DEF SyncStart, NoWalk
  <2>3. /\ repairFloor(row.repairFrom) # None
        /\ row.repairFrom # 0 => repairFloor(row.repairFrom) <= row.repairFrom
    BY <1>0, RepairFloorLow, RepoSyncAssumption DEF Inv, RowT
  <2> QED BY <2>1, <2>2, <2>3 DEF WalkReads
<1>6. CASE DeepenRead
  <2>1. UNCHANGED <<row, got, refused, skipped, walk>> /\ row.version # 0 /\ ~row.done
        /\ deepen' = [on |-> TRUE, floor |-> row.floor]
    BY <1>6 DEF DeepenRead, OwesHistory
  <2>2. Claim' = Claim /\ Claim # 0
    BY <2>1 DEF Claim
  <2>3. RowClaims' /\ \A f : Clear(f, Claim) => Clear(f, Claim)'
    BY <2>1, <2>2, ClaimKept DEF Inv
  <2>4. row.floor # None /\ Clear(row.floor, Claim)
    BY <2>1, <2>2 DEF Inv, RowClaims
  <2>5. DeepenReads'
    BY <2>1, <2>2, <2>3, <2>4 DEF DeepenReads, Clear, Has
  <2>6. WalkReads'
    BY <2>1, <2>2, <2>3 DEF Inv, WalkReads, Clear, Has, Covered, InWindow
  <2> QED BY <2>3, <2>5, <2>6
<1>7. CASE DeepenLock
  <2>1. /\ deepen.on /\ UNCHANGED <<row, got, refused, skipped>> /\ ~deepen'.on
        /\ walk'.kind = "deepen" /\ walk'.stage = "head" /\ ~walk'.all
        /\ walk'.hi = nextBackfillWindow(deepen.floor).hi
    BY <1>7 DEF DeepenLock, NoWalk
  <2>2. RowClaims' /\ DeepenReads' /\ Claim' = Claim
    BY <1>1, <2>1, WalkKept
  <2>3. deepen.floor # None /\ Clear(deepen.floor, Claim) /\ Claim # 0
    BY <2>1 DEF Inv, DeepenReads
  <2>4. walk'.hi = deepen.floor
    BY <1>0, <2>1, <2>3, WindowType DEF Inv, DeepenT
  <2>5. WalkReads'
    BY <2>1, <2>2, <2>3, <2>4 DEF WalkReads, Clear, Has
  <2> QED BY <2>2, <2>5
<1>8. ASSUME UNCHANGED <<row, deepen, skipped>>, got \subseteq got', refused \subseteq refused',
             walk'.kind = walk.kind, walk'.hi = walk.hi,
             walk'.lo = walk.lo \/ walk'.all,
             walk'.all => walk'.lo = None,
             walk'.stage \in {"index", "record"}, walk'.rev # 0,
             walk'.all \/ ~walk.all,
             walk'.stage = "record" => Covered(walk') \subseteq got' \cup refused'
      PROVE  RowClaims' /\ WalkReads' /\ DeepenReads'
  <2>1. RowClaims' /\ DeepenReads' /\ Claim' = Claim
    BY <1>1, <1>8, WalkKept
  <2>2. Covered(walk)' = Covered(walk')
    BY DEF Covered, InWindow
  <2>3. walk'.kind = "deepen" => Claim' # 0 /\ walk'.hi # None /\ Clear(walk.hi, Claim)'
    BY <1>8, <2>1 DEF Inv, WalkReads, Clear, Has
  <2>4. walk'.kind = "sync" =>
          /\ row'.version = 0 /\ walk'.hi = None
          /\ walk'.all \/ (walk'.lo # None /\ (row'.repairFrom # 0 => walk'.lo <= row'.repairFrom))
    BY <1>8 DEF Inv, WalkReads
  <2>5. WalkReads'
    BY <1>8, <2>2, <2>3, <2>4 DEF WalkReads
  <2> QED BY <2>1, <2>5
<1>9. ASSUME NEW all \in BOOLEAN, WalkHead(all) PROVE RowClaims' /\ WalkReads' /\ DeepenReads'
  <2>1. /\ walk.stage = "head" /\ walk'.stage = "index" /\ walk'.rev = tip /\ tip # 0 /\ walk'.all = all
        /\ walk'.kind = walk.kind /\ walk'.hi = walk.hi
        /\ walk'.lo = IF all THEN None ELSE walk.lo
    BY <1>0, <1>9 DEF WalkHead, WalkT
  <2>2. ~walk.all
    BY <2>1 DEF Inv, WalkReads
  <2> QED BY <1>8, <1>9, <2>1, <2>2 DEF WalkHead
<1>10. CASE WalkMoved
  <2>1. /\ walk'.stage = "index" /\ walk'.rev = tip /\ tip # 0 /\ walk'.all = walk.all
        /\ walk'.kind = walk.kind /\ walk'.hi = walk.hi /\ walk'.lo = walk.lo
    BY <1>0, <1>10 DEF WalkMoved, MayRewalk, WalkT
  <2>2. walk.all => walk.lo = None
    BY DEF Inv, WalkReads
  <2> QED BY <1>8, <1>10, <2>1, <2>2 DEF WalkMoved
<1>11. CASE WalkIndex \/ \E q \in Revs : WalkIndexRefused(q)
  <2>1. /\ walk.stage = "index" /\ walk' = [walk EXCEPT !.stage = "record"]
        /\ UNCHANGED <<row, deepen, skipped>> /\ got \subseteq got' /\ refused \subseteq refused'
        /\ Covered(walk) \subseteq got' \cup refused'
    BY <1>11 DEF WalkIndex, WalkIndexRefused
  <2>2. /\ walk'.stage = "record" /\ walk'.rev = walk.rev /\ walk'.all = walk.all
        /\ walk'.kind = walk.kind /\ walk'.hi = walk.hi /\ walk'.lo = walk.lo
    BY <1>0, <2>1 DEF WalkT
  <2>3. Covered(walk') = Covered(walk)
    BY <2>2 DEF Covered, InWindow
  <2>4. walk.rev # 0 /\ (walk.all => walk.lo = None)
    BY <2>1 DEF Inv, WalkReads
  <2> QED BY <1>8, <2>1, <2>2, <2>3, <2>4
<1>12. ASSUME row' = row \/ \E b \in BOOLEAN : row' = [row EXCEPT !.parked = b],
              UNCHANGED <<got, refused, skipped>>, deepen' = deepen \/ ~deepen'.on, walk' = NoWalk
       PROVE  RowClaims' /\ WalkReads' /\ DeepenReads'
  BY <1>1, <1>12, WalkKept, NoWalkReads
<1>13. ASSUME NEW gone \in BOOLEAN, WalkFails(gone) PROVE RowClaims' /\ WalkReads' /\ DeepenReads'
  <2>1. row' = [row EXCEPT !.parked = row.parked \/ gone] /\ (row.parked \/ gone) \in BOOLEAN
    BY <1>0, <1>13 DEF WalkFails, RowT
  <2> QED BY <1>12, <1>13, <2>1 DEF WalkFails
<1>14. ASSUME NEW gone \in BOOLEAN, CheckFails(gone) PROVE RowClaims' /\ WalkReads' /\ DeepenReads'
  <2>1. row' = [row EXCEPT !.parked = row.parked \/ gone] /\ (row.parked \/ gone) \in BOOLEAN
    BY <1>0, <1>14 DEF CheckFails, RowT
  <2> QED BY <1>2, <1>14, <2>1 DEF CheckFails
<1>15. CASE CheckMark
  <2>1. CASE Drifted /\ Marks(check)
    BY <1>0, <1>15, <2>1, RepoMark DEF CheckMark
  <2>2. CASE ~(Drifted /\ Marks(check))
    BY <1>2, <1>15, <2>2 DEF CheckMark
  <2> QED BY <2>1, <2>2
<1>16. CASE Restart
  <2>1. ~deepen'.on
    BY <1>16 DEF Restart
  <2> QED BY <1>12, <1>16, <2>1 DEF Restart
<1> QED BY <1>3, <1>4, <1>5, <1>6, <1>7, <1>9, <1>10, <1>11, <1>13, <1>14, <1>15, <1>16,
           RepoSyncRecord, RepoDeepenRecord DEF Next

\* The invariant is inductive.
LEMMA RepoInductive == Spec => []Inv
<1>1. Inv /\ [Next]_vars => Inv'
  <2> SUFFICES ASSUME Inv, [Next]_vars PROVE Inv'
    OBVIOUS
  <2>1. CASE Next
    BY <2>1, RepoTypes, RepoHandlers, RepoClaims DEF Inv
  <2>2. CASE UNCHANGED vars
    <3>1. TypeOK'
      BY <2>2 DEF vars, Inv, TypeOK
    <3>2. HandlersApplied'
      BY <2>2 DEF vars, Inv, HandlersApplied
    <3>3. RowClaims' /\ WalkReads' /\ DeepenReads'
      BY <2>2, RestKept DEF vars, Claim
    <3> QED BY <3>1, <3>2, <3>3 DEF Inv
  <2> QED BY <2>1, <2>2
<1> QED BY <1>1, RepoInit, PTL DEF Spec

\* For every history of commits, delivered by any number of relays in any
\* order, with any failures and restarts: a version on the repo row covers no
\* commit that is neither indexed nor accounted for, but for those a deepening
\* walk stepped over (trackCommitRev of pkg/atproto/contiguity.go,
\* SyncBlueskyRepo, DeepenRepo).
THEOREM RepoClaimsHold == Spec => []ClaimsHoldButDeepening
<1>1. Inv => ClaimsHoldButDeepening
  <2> SUFFICES ASSUME Inv, row.version # 0, NEW q \in 1 .. row.version
               PROVE  Accounted(q) \/ q \in skipped
    BY DEF ClaimsHoldButDeepening
  <2>1. row \in RowT /\ tip \in 0 .. Len(Writes)
    BY TypeParts DEF Inv, Parts
  <2>2. Writes[q] \in {"log", "full", "other"}
    <3>1. q \in 1 .. Len(Writes)
      BY <2>1, RepoSyncAssumption DEF RowT
    <3> QED BY <3>1, ElementOfSeq, RepoSyncAssumption
  <2>3. Claim = row.version
    BY DEF Claim
  <2>4. /\ row.done \/ row.floor # None
        /\ Writes[q] = "full" => Has(q)
        /\ Clear(IF row.done THEN None ELSE row.floor, row.version)
    BY <2>3 DEF Inv, RowClaims
  <2>5. row.floor \in Int \cup {None} /\ q \in Int
    BY <2>1 DEF RowT
  <2>6. CASE Writes[q] = "log"
    <3>1. CASE row.done \/ q >= row.floor
      BY <2>4, <2>6, <3>1 DEF Clear, Has, Accounted
    <3>2. CASE ~(row.done \/ q >= row.floor)
      BY <2>4, <2>5, <2>6, <3>2 DEF Accounted
    <3> QED BY <3>1, <3>2
  <2>7. CASE Writes[q] # "log"
    BY <2>2, <2>4, <2>7 DEF Has, Accounted
  <2> QED BY <2>6, <2>7
<1> QED BY <1>1, RepoInductive, PTL

\* No claimed, indexed or repaired revision lies beyond the repository's, and
\* neither commits nor walks try more often than they may (pkg/atproto).
THEOREM RepoTypeOK == Spec => []TypeOK
<1>1. Inv => TypeOK
  BY DEF Inv
<1> QED BY <1>1, RepoInductive, PTL

\* A row marked for repair stays marked, with the revision to repair from, until
\* a sync is recorded, whatever races with it (AdvanceRepoVersion,
\* AdvanceRepoBackfill, MarkRepoForRepair of pkg/model/repo.go).
THEOREM RepoRepairSurvives == Spec => RepairSurvives
<1>1. ASSUME Inv, [Next]_vars, row.version = 0
      PROVE  \/ row' = [row EXCEPT !.parked = row'.parked]
             \/ walk.kind = "sync" /\ row'.version = walk.rev
  <2>0. row \in RowT
    BY <1>1, TypeParts DEF Inv, Parts
  <2>1. row = [row EXCEPT !.parked = row.parked]
    BY <2>0 DEF RowT
  <2>2. ASSUME NEW b, row' = [row EXCEPT !.parked = b] PROVE row' = [row EXCEPT !.parked = row'.parked]
    BY <2>0, <2>2 DEF RowT
  <2>3. CASE UNCHANGED vars
    BY <2>1, <2>3 DEF vars
  <2>4. ASSUME NEW r \in Relays, Handle(r) PROVE row' = [row EXCEPT !.parked = row'.parked]
    <3>1. row' = row \/ row' = [row EXCEPT !.parked = FALSE]
      BY <1>1, <2>4 DEF Handle, Bail, Apply, ApplyRefused, Revived, TrackAdvance, Advances,
                        TrackLook, TrackMark, Marks
    <3> QED BY <2>1, <2>2, <3>1
  <2>5. ASSUME NEW gone \in BOOLEAN, WalkFails(gone) \/ CheckFails(gone)
        PROVE  row' = [row EXCEPT !.parked = row'.parked]
    BY <2>2, <2>5 DEF WalkFails, CheckFails
  <2>6. CASE SyncRecord
    BY <2>6 DEF SyncRecord
  <2>7. CASE DeepenRecord
    BY <1>1, <2>1, <2>7 DEF DeepenRecord, MayRecordWindow
  <2>8. CASE CheckMark
    BY <1>1, <2>1, <2>8 DEF CheckMark, Marks
  <2>9. CASE \/ Commit \/ SyncStart \/ DeepenRead \/ DeepenLock \/ CheckRead \/ Restart
             \/ WalkMoved \/ WalkIndex
             \/ \E r \in Relays : \E q \in Revs : Receive(r, q)
             \/ \E all \in BOOLEAN : WalkHead(all)
             \/ \E q \in Revs : WalkIndexRefused(q)
    BY <2>1, <2>9 DEF Commit, SyncStart, DeepenRead, DeepenLock, CheckRead, Restart, WalkMoved,
                      WalkIndex, Receive, WalkHead, WalkIndexRefused
  <2> QED BY <1>1, <2>3, <2>4, <2>5, <2>6, <2>7, <2>8, <2>9 DEF Next
<1>2. Inv /\ [Next]_vars =>
        [row.version = 0 => \/ row' = [row EXCEPT !.parked = row'.parked]
                            \/ walk.kind = "sync" /\ row'.version = walk.rev]_vars
  BY <1>1
<1> QED BY <1>2, RepoInductive, PTL DEF Spec, RepairSurvives
=============================================================================
