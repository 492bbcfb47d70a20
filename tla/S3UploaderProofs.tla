--------------------------- MODULE S3UploaderProofs --------------------------
(***************************************************************************)
(* What holds of the live recording for every number and size of segments, *)
(* every part size and every pattern of failing calls: the parts of an     *)
(* object are uniform, its index locates exactly the bytes it holds, the   *)
(* livestream it is tagged with was the stream's while its segments were   *)
(* on their way, a row is open only as long as its object is being written *)
(* (while the database works), and no more is lost than calls have failed. *)
(***************************************************************************)
EXTENDS S3Uploader, TLAPS, SequenceTheorems, FiniteSetTheorems

\* The shape of the state the arguments about parts and rows need; what TypeOK
\* says beyond it of the rows and of the number of attempts is in Types and CountInv.
Shape ==
  /\ pc \in Pcs
  /\ objSeq \in Nat
  /\ queue \in Seq({Cutover} \cup Segs)
  /\ cmd \in {Cutover, End} \cup Segs
  /\ pc \in {"create", "tag"} => cmd \in Segs
  /\ cur \in [key : Nat, uri : Nat, row : Nat, age : {"young", "old"},
              buf : Seq(Segs), parts : Seq(Nat), index : Seq(Segs)]
  /\ uri \in Nat
  /\ store \in [Objs -> [state : {"none", "open", "object", "aborted"}, parts : Seq(Seq(Segs))]]

\* All parts of o are full.
Full(o) == \A k \in 1 .. Len(store[o].parts) : Len(store[o].parts[k]) = PartSize

\* The parts of o are uniform.
Uniform(o) ==
  /\ \A k \in 1 .. Len(store[o].parts) - 1 : Len(store[o].parts[k]) = PartSize
  /\ store[o].parts # <<>> => Len(store[o].parts[Len(store[o].parts)]) \in 1 .. PartSize

\* Objects not begun have no parts; until its last part the current object has
\* only full ones, and less than a part is buffered whenever no part is due.
PartsInv ==
  /\ cur.key # 0 => cur.key = objSeq
  /\ pc \in {"create", "tag", "done"} => cur.key = 0
  /\ pc \in {"flush", "last", "complete", "record", "abort"} => cur.key # 0
  /\ \A o \in Objs : o > objSeq => store[o].parts = <<>>
  /\ pc = "tag" => objSeq # 0 /\ \A o \in Objs : o = objSeq => store[o].parts = <<>>
  /\ pc \in {"idle", "flush", "last"} => \A o \in Objs : o = cur.key => Full(o)
  /\ pc \in {"idle", "last"} /\ cur.key # 0 => Len(cur.buf) < PartSize
  /\ \A o \in Objs : Uniform(o)

\* Last, of SequencesExt, is the element at the end.
LEMMA LastIsEnd ==
  ASSUME NEW S, NEW p \in Seq(S)
  PROVE  Last(p) = p[Len(p)]
BY DEF Last

\* After a step, an object whose parts are all full has uniform parts.
LEMMA FullIsUniformNext ==
  ASSUME Shape', NEW o \in Objs, (Full(o))'
  PROVE  (Uniform(o))'
<1>1. store'[o].parts \in Seq(Seq(Segs))
  BY DEF Shape
<1>2. Len(store'[o].parts) \in Nat
  BY <1>1
<1>3. store'[o].parts # <<>> => Len(store'[o].parts) \in 1 .. Len(store'[o].parts)
  BY <1>1, <1>2, EmptySeq
<1>4. PartSize \in 1 .. PartSize
  BY UploaderAssumption
<1> QED BY <1>2, <1>3, <1>4 DEF Full, Uniform

\* The bytes of a segment are a sequence of segment numbers.
LEMMA BytesType ==
  ASSUME NEW i \in Segs
  PROVE  Bytes(i) \in Seq(Segs)
<1>1. Size[i] \in Nat
  BY UploaderAssumption DEF Segs
<1> QED BY <1>1 DEF Bytes

\* A new uploader has no object and no parts.
LEMMA PartsInit == Init => Shape /\ PartsInv
<1> SUFFICES ASSUME Init PROVE Shape /\ PartsInv
  OBVIOUS
<1>1. Shape
  BY DEF Init, Shape, Nil, Pcs, Cutover, Objs
<1>2. PartsInv
  BY DEF Init, PartsInv, Nil, Full, Uniform, Objs
<1> QED BY <1>1, <1>2

\* Changing what S3 says of an object's state leaves its parts alone.
LEMMA StateChanged ==
  ASSUME Shape, NEW key \in Nat, NEW v \in {"none", "open", "object", "aborted"},
         store' = [store EXCEPT ![key].state = v]
  PROVE  /\ store' \in [Objs -> [state : {"none", "open", "object", "aborted"}, parts : Seq(Seq(Segs))]]
         /\ \A o \in Objs : store'[o].parts = store[o].parts
<1> DEFINE S == [state : {"none", "open", "object", "aborted"}, parts : Seq(Seq(Segs))]
<1>0. store \in [Objs -> S]
  BY DEF Shape
<1>1. ASSUME NEW o \in Objs
      PROVE  store'[o] \in S /\ store'[o].parts = store[o].parts
  <2>1. store[o] \in S
    BY <1>0
  <2>2. CASE o # key
    BY <1>0, <2>1, <2>2
  <2>3. CASE o = key
    <3>1. store'[o] = [store[o] EXCEPT !.state = v]
      BY <1>0, <2>3
    <3> QED BY <2>1, <3>1
  <2> QED BY <2>2, <2>3
<1>2. store' = [o \in Objs |-> store'[o]]
  BY <1>0
<1> HIDE DEF S
<1>3. store' \in [Objs -> S]
  BY <1>1, <1>2
<1> QED BY <1>1, <1>3 DEF S

\* UploadPart keeps the shape, appends one part to the current object, and
\* takes its bytes from the buffer.
LEMMA UploadPartEffect ==
  ASSUME Shape, NEW n \in Nat, n <= Len(cur.buf), n > 0, UploadPart(n)
  PROVE  /\ cur' \in [key : Nat, uri : Nat, row : Nat, age : {"young", "old"},
                      buf : Seq(Segs), parts : Seq(Nat), index : Seq(Segs)]
         /\ cur'.key = cur.key
         /\ cur'.row = cur.row
         /\ Len(cur'.buf) = Len(cur.buf) - n
         /\ store' \in [Objs -> [state : {"none", "open", "object", "aborted"}, parts : Seq(Seq(Segs))]]
         /\ \A o \in Objs : o # cur.key => store'[o].parts = store[o].parts
         /\ \A o \in Objs : o = cur.key =>
              /\ Len(store'[o].parts) = Len(store[o].parts) + 1
              /\ store'[o].parts # <<>>
              /\ \A k \in 1 .. Len(store[o].parts) : store'[o].parts[k] = store[o].parts[k]
              /\ Len(store'[o].parts[Len(store'[o].parts)]) = n
<1> DEFINE part == SubSeq(cur.buf, 1, n)
           rest == SubSeq(cur.buf, n + 1, Len(cur.buf))
<1>1. cur.buf \in Seq(Segs) /\ Len(cur.buf) \in Nat
  BY DEF Shape
<1>2. part \in Seq(Segs) /\ Len(part) = n
  BY <1>1, SubSeqProperties
<1>3. rest \in Seq(Segs) /\ Len(rest) = Len(cur.buf) - n
  BY <1>1, SubSeqProperties
<1>4. cur' = [cur EXCEPT !.buf = rest, !.parts = Append(cur.parts, n)]
  BY DEF UploadPart, Rest
<1>5. store' = [store EXCEPT ![cur.key].parts = Append(store[cur.key].parts, part)]
  BY DEF UploadPart
<1> HIDE DEF part, rest
<1>6. /\ cur' \in [key : Nat, uri : Nat, row : Nat, age : {"young", "old"},
                   buf : Seq(Segs), parts : Seq(Nat), index : Seq(Segs)]
      /\ cur'.key = cur.key /\ cur'.row = cur.row /\ cur'.buf = rest
  <2>1. Append(cur.parts, n) \in Seq(Nat)
    BY DEF Shape
  <2> QED BY <1>3, <1>4, <2>1 DEF Shape
<1>7. \A o \in Objs : o # cur.key => store'[o] = store[o]
  BY <1>5 DEF Shape
<1>8. \A o \in Objs : o = cur.key =>
        /\ store'[o].parts = Append(store[o].parts, part)
        /\ store'[o].state = store[o].state
  BY <1>5 DEF Shape
<1>9. store' \in [Objs -> [state : {"none", "open", "object", "aborted"}, parts : Seq(Seq(Segs))]]
  <2>1. ASSUME NEW o \in Objs, o = cur.key
        PROVE  Append(store[o].parts, part) \in Seq(Seq(Segs))
    <3>1. store[o].parts \in Seq(Seq(Segs))
      BY DEF Shape
    <3> QED BY <1>2, <3>1
  <2> QED BY <1>5, <2>1 DEF Shape
<1>10. ASSUME NEW o \in Objs, o = cur.key
       PROVE  /\ Len(store'[o].parts) = Len(store[o].parts) + 1
              /\ store'[o].parts # <<>>
              /\ \A k \in 1 .. Len(store[o].parts) : store'[o].parts[k] = store[o].parts[k]
              /\ Len(store'[o].parts[Len(store'[o].parts)]) = n
  <2>1. Len(store[o].parts) \in Nat
    BY DEF Shape
  <2>2. /\ Len(store'[o].parts) = Len(store[o].parts) + 1
        /\ store'[o].parts # <<>>
        /\ \A k \in 1 .. Len(store'[o].parts) - 1 : store'[o].parts[k] = store[o].parts[k]
        /\ store'[o].parts[Len(store'[o].parts)] = part
    <3> DEFINE q == store'[o].parts
    <3>1. q = Append(store[o].parts, part)
      BY <1>8, <1>10
    <3> HIDE DEF q
    <3>2. /\ Len(q) = Len(store[o].parts) + 1
          /\ q # <<>>
          /\ \A k \in 1 .. Len(q) - 1 : q[k] = store[o].parts[k]
          /\ q[Len(q)] = part
      <4>1. store[o].parts \in Seq(Seq(Segs))
        BY DEF Shape
      <4> QED BY <1>2, <3>1, <4>1, SMTT(40)
    <3> QED BY <3>2 DEF q
  <2> QED BY <1>2, <2>1, <2>2
<1> QED BY <1>3, <1>6, <1>7, <1>9, <1>10

\* Steps that leave the parts stored and the object being written alone keep
\* the facts about parts.
LEMMA SameParts ==
  ASSUME store' = store
  PROVE  \A o \in Objs : (Full(o))' = Full(o) /\ (Uniform(o))' = Uniform(o)
BY DEF Full, Uniform

\* Appending a segment to an upload keeps its type, its object and its row.
LEMMA AppendedType ==
  ASSUME NEW u \in [key : Nat, uri : Nat, row : Nat, age : {"young", "old"},
                    buf : Seq(Segs), parts : Seq(Nat), index : Seq(Segs)],
         NEW i \in Segs
  PROVE  /\ Appended(u, i) \in [key : Nat, uri : Nat, row : Nat, age : {"young", "old"},
                                buf : Seq(Segs), parts : Seq(Nat), index : Seq(Segs)]
         /\ Appended(u, i).key = u.key
         /\ Appended(u, i).row = u.row
<1>1. u.buf \o Bytes(i) \in Seq(Segs)
  BY BytesType
<1>2. Append(u.index, i) \in Seq(Segs)
  OBVIOUS
<1> QED BY <1>1, <1>2 DEF Appended

-----------------------------------------------------------------------------
(***************************************************************************)
(* Every step keeps the shape and the facts about parts.                   *)
(***************************************************************************)
\* One step per action: each keeps the shape and the facts about parts.
LEMMA PartsStep ==
  ASSUME Shape, PartsInv, [Next]_vars
  PROVE  Shape' /\ PartsInv'
<1>u. CASE UNCHANGED <<pc, objSeq, cmd, cur, store>> /\ queue' \in Seq({Cutover} \cup Segs) /\ uri' \in Nat
  BY <1>u DEF Shape, PartsInv, Full, Uniform
<1>1. CASE SetLivestreamURI
  BY <1>1, <1>u DEF SetLivestreamURI, Shape
<1>2. ASSUME NEW i \in Segs, AddSegment(i) PROVE Shape' /\ PartsInv'
  BY <1>2, <1>u DEF AddSegment, Shape
<1>3. CASE AskCutover
  BY <1>3, <1>u DEF AskCutover, Shape
<1>4. CASE Close
  BY <1>4, <1>u DEF Close, Shape
<1>5. CASE UNCHANGED vars
  BY <1>5, <1>u DEF vars, Shape
<1>6. CASE GrowsOld
  <2>1. /\ cur' \in [key : Nat, uri : Nat, row : Nat, age : {"young", "old"},
                     buf : Seq(Segs), parts : Seq(Nat), index : Seq(Segs)]
        /\ cur'.key = cur.key /\ cur'.buf = cur.buf
    BY <1>6 DEF GrowsOld, Shape
  <2> QED BY <1>6, <2>1, SameParts DEF GrowsOld, Shape, PartsInv, inputs
<1>7. CASE TakeSegment
  <2>1. cmd' \in Segs /\ queue' \in Seq({Cutover} \cup Segs)
    BY <1>7 DEF TakeSegment, Shape
  <2>2. /\ cur' \in [key : Nat, uri : Nat, row : Nat, age : {"young", "old"},
                     buf : Seq(Segs), parts : Seq(Nat), index : Seq(Segs)]
        /\ cur'.key = cur.key
        /\ pc' \in {"last", "create"} => cur' = cur
        /\ pc' \in {"last", "create", "flush"}
        /\ pc' = "create" <=> cur.key = 0
    <3>1. CASE RollsOver
      BY <1>7, <3>1 DEF TakeSegment, Shape, RollsOver
    <3>2. CASE ~RollsOver /\ cur.key = 0
      BY <1>7, <3>2 DEF TakeSegment, Shape
    <3>3. CASE ~RollsOver /\ cur.key # 0
      <4>1. cur' = Appended(cur, cmd') /\ pc' = "flush"
        BY <1>7, <3>3 DEF TakeSegment
      <4> QED BY <2>1, <3>3, <4>1, AppendedType DEF Shape
    <3> QED BY <3>1, <3>2, <3>3
  <2>3. UNCHANGED <<store, objSeq, uri>> /\ pc = "idle"
    BY <1>7 DEF TakeSegment, inputs
  <2>4. Shape'
    BY <2>1, <2>2, <2>3 DEF Shape, Pcs
  <2> QED BY <2>2, <2>3, <2>4, SameParts DEF PartsInv
<1>8. CASE TakeCutover
  BY <1>8, SameParts DEF TakeCutover, Shape, PartsInv, inputs, Pcs
<1>9. CASE TakeEnd
  BY <1>9, SameParts DEF TakeEnd, Shape, PartsInv, inputs, Pcs
<1>10. CASE Create
  <2>1. /\ store' \in [Objs -> [state : {"none", "open", "object", "aborted"}, parts : Seq(Seq(Segs))]]
        /\ \A o \in Objs : store'[o].parts = store[o].parts
    <3>1. CASE store' = store
      BY <3>1 DEF Shape
    <3>2. CASE store' = [store EXCEPT ![objSeq + 1].state = "open"]
      <4>1. objSeq + 1 \in Nat
        BY DEF Shape
      <4> QED BY <3>2, <4>1, StateChanged
    <3> QED BY <1>10, <3>1, <3>2 DEF Create
  <2>2. \A o \in Objs : (Full(o))' = Full(o) /\ (Uniform(o))' = Uniform(o)
    BY <2>1 DEF Full, Uniform
  <2>3. pc = "create" /\ pc' \in {"tag", "idle"} /\ objSeq' = objSeq + 1
    BY <1>10 DEF Create
  <2>4. UNCHANGED <<cur, queue, cmd, uri>>
    BY <1>10 DEF Create, inputs
  <2>5. Shape'
    BY <2>1, <2>3, <2>4 DEF Shape, Pcs
  <2>6. \A o \in Objs : o >= objSeq + 1 => store[o].parts = <<>>
    BY DEF PartsInv, Shape, Objs
  <2>7. \A o \in Objs : o # 0
    BY DEF Objs
  <2>8. \A o \in Objs : o > objSeq' => store'[o].parts = <<>>
    BY <2>1, <2>3, <2>6 DEF Objs, Shape
  <2>9. objSeq' # 0 /\ \A o \in Objs : o = objSeq' => store'[o].parts = <<>>
    BY <2>1, <2>3, <2>6, SMTT(40) DEF Objs, Shape
  <2>10. cur.key = 0
    BY <2>3 DEF PartsInv
  <2>11. \A o \in Objs : (Uniform(o))'
    BY <2>2 DEF PartsInv
  <2> QED BY <2>3, <2>4, <2>5, <2>7, <2>8, <2>9, <2>10, <2>11 DEF PartsInv
<1>11. CASE Tag
  <2>1. pc = "tag" /\ pc' = "flush" /\ UNCHANGED <<store, objSeq, queue, cmd, uri>>
    BY <1>11 DEF Tag, RecordStart, inputs
  <2>2. PICK r \in Nat : cur' = Appended(Fresh(objSeq, r), cmd)
    BY <1>11 DEF Tag, RecordStart, Shape
  <2>3. /\ Fresh(objSeq, r) \in [key : Nat, uri : Nat, row : Nat, age : {"young", "old"},
                     buf : Seq(Segs), parts : Seq(Nat), index : Seq(Segs)]
        /\ Fresh(objSeq, r).key = objSeq
    <3>1. Fresh(objSeq, r) = [key |-> objSeq, uri |-> uri, row |-> r, age |-> "young",
                              buf |-> <<>>, parts |-> <<>>, index |-> <<>>]
      BY DEF Fresh
    <3>2. objSeq \in Nat /\ uri \in Nat
      BY DEF Shape
    <3> QED BY <3>1, <3>2
  <2>4. /\ cur' \in [key : Nat, uri : Nat, row : Nat, age : {"young", "old"},
                     buf : Seq(Segs), parts : Seq(Nat), index : Seq(Segs)]
        /\ cur'.key = objSeq
    BY <2>1, <2>2, <2>3, AppendedType DEF Shape
  <2>5. Shape'
    BY <2>1, <2>4 DEF Shape, Pcs
  <2>6. objSeq # 0
    BY <2>1 DEF PartsInv
  <2>7. \A o \in Objs : o = objSeq => Full(o)
    BY <2>1 DEF PartsInv, Full
  <2> QED BY <2>1, <2>4, <2>5, <2>6, <2>7, SameParts DEF PartsInv
<1>12. CASE Flush
  <2>0. /\ pc = "flush" /\ Len(cur.buf) >= PartSize
        /\ UNCHANGED <<objSeq, queue, cmd, uri>>
    BY <1>12 DEF Flush, inputs
  <2>1. CASE pc' = "abort" /\ UNCHANGED <<cur, store>>
    <3>1. Shape'
      BY <2>0, <2>1 DEF Shape, Pcs
    <3> QED BY <2>0, <2>1, <3>1, SameParts DEF PartsInv
  <2>2. CASE UploadPart(PartSize) /\ pc' = pc
    <3>1. PartSize \in Nat /\ PartSize > 0
      BY UploaderAssumption
    <3> DEFINE n == PartSize
    <3>2. n \in Nat /\ n > 0 /\ n <= Len(cur.buf)
      BY <2>0, <3>1 DEF Shape
    <3>3. UploadPart(n)
      BY <2>2
    <3> HIDE DEF n
    <3>4. /\ cur' \in [key : Nat, uri : Nat, row : Nat, age : {"young", "old"},
                       buf : Seq(Segs), parts : Seq(Nat), index : Seq(Segs)]
          /\ cur'.key = cur.key
          /\ store' \in [Objs -> [state : {"none", "open", "object", "aborted"}, parts : Seq(Seq(Segs))]]
          /\ \A o \in Objs : o # cur.key => store'[o].parts = store[o].parts
          /\ \A o \in Objs : o = cur.key =>
               /\ Len(store'[o].parts) = Len(store[o].parts) + 1
               /\ \A k \in 1 .. Len(store[o].parts) : store'[o].parts[k] = store[o].parts[k]
               /\ Len(store'[o].parts[Len(store'[o].parts)]) = n
      BY <3>2, <3>3, UploadPartEffect
    <3>5. Shape'
      BY <2>0, <2>2, <3>4 DEF Shape
    <3>6. ASSUME NEW o \in Objs, o = cur.key PROVE (Full(o))'
      <4>1. Full(o) /\ Len(store[o].parts) \in Nat
        BY <2>0, <3>6 DEF PartsInv, Shape
      <4> SUFFICES ASSUME NEW k \in 1 .. Len(store'[o].parts)
                   PROVE  Len(store'[o].parts[k]) = PartSize
        BY DEF Full
      <4>2. CASE k \in 1 .. Len(store[o].parts)
        BY <3>4, <3>6, <4>1, <4>2 DEF Full
      <4>3. CASE k = Len(store'[o].parts)
        BY <3>4, <3>6, <4>3 DEF n
      <4>4. Len(store'[o].parts) = Len(store[o].parts) + 1
        BY <3>4, <3>6
      <4> QED BY <4>1, <4>2, <4>3, <4>4
    <3>7. ASSUME NEW o \in Objs, o = cur.key PROVE (Uniform(o))'
      BY <3>5, <3>6, <3>7, FullIsUniformNext
    <3>8. ASSUME NEW o \in Objs, o # cur.key PROVE (Uniform(o))'
      <4>1. Uniform(o)
        BY DEF PartsInv
      <4> QED BY <3>4, <3>8, <4>1 DEF Uniform
    <3>9. \A o \in Objs : o > objSeq => store'[o].parts = <<>>
      <4>1. cur.key = objSeq
        BY <2>0 DEF PartsInv
      <4>2. \A o \in Objs : o > objSeq => store[o].parts = <<>>
        BY DEF PartsInv
      <4>3. \A o \in Objs : o > objSeq => o # objSeq
        BY DEF Objs, Shape
      <4> QED BY <3>4, <4>1, <4>2, <4>3
    <3> QED BY <2>0, <2>2, <3>4, <3>5, <3>6, <3>7, <3>8, <3>9 DEF PartsInv
  <2> QED BY <1>12, <2>1, <2>2 DEF Flush
<1>13. CASE Flushed
  BY <1>13, SameParts DEF Flushed, Shape, PartsInv, inputs, Pcs
<1>14. CASE FlushLast
  <2>0. pc = "last" /\ UNCHANGED <<objSeq, queue, cmd, uri>>
    BY <1>14 DEF FlushLast, inputs
  <2>1. CASE pc' \in {"abort", "complete"} /\ UNCHANGED <<cur, store>>
    <3>1. Shape'
      BY <2>0, <2>1 DEF Shape, Pcs
    <3> QED BY <2>0, <2>1, <3>1, SameParts DEF PartsInv
  <2>2. CASE cur.buf # <<>> /\ UploadPart(Len(cur.buf)) /\ pc' = "complete"
    <3> DEFINE n == Len(cur.buf)
    <3>1. n \in Nat /\ n > 0 /\ n < PartSize
      BY <2>0, <2>2, EmptySeq DEF Shape, PartsInv
    <3>3. UploadPart(n) /\ n <= Len(cur.buf)
      BY <2>2, <3>1
    <3> HIDE DEF n
    <3>4. /\ cur' \in [key : Nat, uri : Nat, row : Nat, age : {"young", "old"},
                       buf : Seq(Segs), parts : Seq(Nat), index : Seq(Segs)]
          /\ cur'.key = cur.key
          /\ store' \in [Objs -> [state : {"none", "open", "object", "aborted"}, parts : Seq(Seq(Segs))]]
          /\ \A o \in Objs : o # cur.key => store'[o].parts = store[o].parts
          /\ \A o \in Objs : o = cur.key =>
               /\ Len(store'[o].parts) = Len(store[o].parts) + 1
               /\ \A k \in 1 .. Len(store[o].parts) : store'[o].parts[k] = store[o].parts[k]
               /\ Len(store'[o].parts[Len(store'[o].parts)]) = n
      BY <3>1, <3>3, UploadPartEffect
    <3>5. Shape'
      BY <2>0, <2>2, <3>4 DEF Shape, Pcs
    <3>6. ASSUME NEW o \in Objs, o = cur.key PROVE (Uniform(o))'
      <4>1. Full(o) /\ Len(store[o].parts) \in Nat
        BY <2>0, <3>6 DEF PartsInv, Shape
      <4>2. n \in 1 .. PartSize
        BY <3>1, UploaderAssumption
      <4>3. Len(store'[o].parts) = Len(store[o].parts) + 1
        BY <3>4, <3>6
      <4>4. \A k \in 1 .. Len(store'[o].parts) - 1 : Len(store'[o].parts[k]) = PartSize
        <5>1. Len(store'[o].parts) - 1 = Len(store[o].parts)
          BY <4>1, <4>3
        <5>2. \A k \in 1 .. Len(store[o].parts) : Len(store'[o].parts[k]) = PartSize
          BY <3>4, <3>6, <4>1 DEF Full
        <5> QED BY <5>1, <5>2
      <4>5. Len(store'[o].parts[Len(store'[o].parts)]) \in 1 .. PartSize
        BY <3>4, <3>6, <4>2
      <4> QED BY <4>4, <4>5 DEF Uniform
    <3>8. ASSUME NEW o \in Objs, o # cur.key PROVE (Uniform(o))'
      <4>1. Uniform(o)
        BY DEF PartsInv
      <4> QED BY <3>4, <3>8, <4>1 DEF Uniform
    <3>9. \A o \in Objs : o > objSeq => store'[o].parts = <<>>
      <4>1. cur.key = objSeq
        BY <2>0 DEF PartsInv
      <4>2. \A o \in Objs : o > objSeq => store[o].parts = <<>>
        BY DEF PartsInv
      <4>3. \A o \in Objs : o > objSeq => o # objSeq
        BY DEF Objs, Shape
      <4> QED BY <3>4, <4>1, <4>2, <4>3
    <3> QED BY <2>0, <2>2, <3>4, <3>5, <3>6, <3>8, <3>9 DEF PartsInv
  <2> QED BY <1>14, <2>1, <2>2 DEF FlushLast
<1>15. CASE Complete
  <2>1. /\ store' \in [Objs -> [state : {"none", "open", "object", "aborted"}, parts : Seq(Seq(Segs))]]
        /\ \A o \in Objs : store'[o].parts = store[o].parts
    <3>1. CASE store' = store
      BY <3>1 DEF Shape
    <3>2. CASE store' = [store EXCEPT ![cur.key].state = "object"]
      <4>1. cur.key \in Nat
        BY DEF Shape
      <4> QED BY <3>2, <4>1, StateChanged
    <3> QED BY <1>15, <3>1, <3>2 DEF Complete
  <2>2. \A o \in Objs : (Full(o))' = Full(o) /\ (Uniform(o))' = Uniform(o)
    BY <2>1 DEF Full, Uniform
  <2>3. pc = "complete" /\ pc' \in {"record", "abort"} /\ UNCHANGED <<objSeq, cur, queue, cmd, uri>>
    BY <1>15 DEF Complete, inputs
  <2>4. Shape'
    BY <2>1, <2>3 DEF Shape, Pcs
  <2> QED BY <2>1, <2>2, <2>3, <2>4 DEF PartsInv
<1>16. CASE Record
  <2>1. pc = "record" /\ cur' = Nil /\ UNCHANGED <<store, objSeq, queue, cmd, uri>>
    BY <1>16 DEF Record, RecordComplete, inputs
  <2>2. pc' \in {"create", "idle", "done"} /\ (pc' = "create" => cmd \in Segs)
    BY <1>16 DEF Record, RecordComplete, Resume, Shape, Cutover, End, Segs
  <2>3. /\ cur' \in [key : Nat, uri : Nat, row : Nat, age : {"young", "old"},
                     buf : Seq(Segs), parts : Seq(Nat), index : Seq(Segs)]
        /\ cur'.key = 0
    BY <2>1 DEF Nil
  <2>4. Shape'
    BY <2>1, <2>2, <2>3 DEF Shape, Pcs
  <2>5. \A o \in Objs : o # 0
    BY DEF Objs
  <2> QED BY <2>1, <2>2, <2>3, <2>4, <2>5, SameParts DEF PartsInv
<1>17. CASE Abort
  <2>1. /\ store' \in [Objs -> [state : {"none", "open", "object", "aborted"}, parts : Seq(Seq(Segs))]]
        /\ \A o \in Objs : store'[o].parts = store[o].parts
    <3>1. CASE store' = store
      BY <3>1 DEF Shape
    <3>2. CASE store' = [store EXCEPT ![cur.key].state = IF @ = "open" THEN "aborted" ELSE @]
      <4> DEFINE v == IF store[cur.key].state = "open" THEN "aborted" ELSE store[cur.key].state
      <4>1. cur.key \in Nat /\ store' = [store EXCEPT ![cur.key].state = v]
        BY <3>2 DEF Shape
      <4>2. CASE cur.key \in Objs
        <5>1. v \in {"none", "open", "object", "aborted"}
          BY <4>2 DEF Shape
        <5> HIDE DEF v
        <5> QED BY <4>1, <5>1, StateChanged
      <4>3. CASE cur.key \notin Objs
        <5> HIDE DEF v
        <5>1. store' = store
          BY <4>1, <4>3 DEF Shape
        <5> QED BY <5>1 DEF Shape
      <4> QED BY <4>2, <4>3
    <3> QED BY <1>17, <3>1, <3>2 DEF Abort
  <2>2. \A o \in Objs : (Full(o))' = Full(o) /\ (Uniform(o))' = Uniform(o)
    BY <2>1 DEF Full, Uniform
  <2>3. /\ pc = "abort" /\ pc' \in {"done", "idle"}
        /\ cur' = Nil /\ UNCHANGED <<objSeq, queue, cmd, uri>>
    BY <1>17 DEF Abort, AfterAbort, inputs
  <2>4. /\ cur' \in [key : Nat, uri : Nat, row : Nat, age : {"young", "old"},
                     buf : Seq(Segs), parts : Seq(Nat), index : Seq(Segs)]
        /\ cur'.key = 0
    BY <2>3 DEF Nil
  <2>5. Shape'
    BY <2>1, <2>3, <2>4 DEF Shape, Pcs
  <2>6. \A o \in Objs : o # 0
    BY DEF Objs
  <2> QED BY <2>1, <2>2, <2>3, <2>4, <2>5, <2>6 DEF PartsInv
<1>18. CASE Crash
  <2>1. pc' = "dead" /\ cur' = Nil /\ queue' = <<>> /\ UNCHANGED <<store, objSeq, cmd, uri>>
    BY <1>18 DEF Crash, inputs
  <2>2. /\ cur' \in [key : Nat, uri : Nat, row : Nat, age : {"young", "old"},
                     buf : Seq(Segs), parts : Seq(Nat), index : Seq(Segs)]
        /\ cur'.key = 0
    BY <2>1 DEF Nil
  <2>3. Shape'
    BY <2>1, <2>2 DEF Shape, Pcs
  <2> QED BY <2>1, <2>2, <2>3, SameParts DEF PartsInv
<1> QED BY <1>1, <1>2, <1>3, <1>4, <1>5, <1>6, <1>7, <1>8, <1>9, <1>10, <1>11, <1>12,
        <1>13, <1>14, <1>15, <1>16, <1>17, <1>18 DEF Next, Loop

\* Whatever the sizes of the segments and whichever calls fail, the parts of
\* every object the upload loop writes are uniform (s3.go flushPart,
\* completeUpload): R2 never refuses an object for the lengths of its parts.
THEOREM UploaderUniformParts == Spec => []UniformParts
<1>1. Init => Shape /\ PartsInv
  BY PartsInit
<1>2. Shape /\ PartsInv /\ [Next]_vars => Shape' /\ PartsInv'
  BY PartsStep
<1>3. Shape /\ PartsInv => UniformParts
  <2> SUFFICES ASSUME Shape, PartsInv, NEW o \in Objs
               PROVE  /\ \A k \in 1 .. Len(store[o].parts) - 1 : Len(store[o].parts[k]) = PartSize
                      /\ store[o].parts # <<>> => Len(Last(store[o].parts)) \in 1 .. PartSize
    BY DEF UniformParts
  <2>1. Uniform(o)
    BY DEF PartsInv
  <2>2. store[o].parts \in Seq(Seq(Segs))
    BY DEF Shape
  <2>3. Last(store[o].parts) = store[o].parts[Len(store[o].parts)]
    BY <2>2, LastIsEnd
  <2> QED BY <2>1, <2>3 DEF Uniform
<1> QED BY <1>1, <1>2, <1>3, PTL DEF Spec

-----------------------------------------------------------------------------
(***************************************************************************)
(* Rows.  While no upload is in progress no row is open but those a failed *)
(* database call or the death of the node left; the row opened for an      *)
(* upload is closed or dropped when it ends.                               *)
(***************************************************************************)
RowsInv ==
  /\ rows = [o \in Objs |-> rows[o]]
  /\ pc \in {"create", "tag", "done"} => cur.row = 0
  /\ cur.key = 0 => cur.row = 0
  /\ \A o \in Objs : rows[o].state = "open" => cur.row = o \/ o \in stuck

\* A new uploader has no rows.
LEMMA RowsInit == Init => RowsInv
BY DEF Init, RowsInv, Nil, NoRow

\* Every step keeps the open row that of the object being written, or notes
\* that it left it behind.
LEMMA RowsStep ==
  ASSUME Shape, PartsInv, RowsInv, [Next]_vars
  PROVE  RowsInv'
<1>0. \A o \in Objs : o # 0
  BY DEF Objs
<1>u. CASE UNCHANGED <<pc, cur, rows, stuck>>
  BY <1>u DEF RowsInv
<1>1. CASE SetLivestreamURI \/ AskCutover \/ Close \/ UNCHANGED vars
  BY <1>1, <1>u DEF SetLivestreamURI, AskCutover, Close, vars
<1>2. ASSUME NEW i \in Segs, AddSegment(i) PROVE RowsInv'
  BY <1>2, <1>u DEF AddSegment
<1>3. CASE GrowsOld
  <2>1. cur'.key = cur.key /\ cur'.row = cur.row
    BY <1>3 DEF GrowsOld, Shape
  <2> QED BY <1>3, <2>1 DEF GrowsOld, RowsInv
<1>4. CASE TakeSegment
  <2>1. cmd' \in Segs
    BY <1>4 DEF TakeSegment, Shape
  <2>2. cur' = cur \/ cur' = Appended(cur, cmd')
    BY <1>4 DEF TakeSegment
  <2>3. cur'.key = cur.key /\ cur'.row = cur.row
    BY <2>1, <2>2, AppendedType DEF Shape
  <2>4. rows' = rows /\ stuck' = stuck /\ pc' \in {"last", "create", "flush"} /\ (pc' = "create" => cur.key = 0)
    BY <1>4 DEF TakeSegment
  <2> QED BY <2>3, <2>4 DEF RowsInv
<1>5. CASE TakeCutover \/ TakeEnd \/ Flushed
  BY <1>5 DEF TakeCutover, TakeEnd, Flushed, RowsInv
<1>6. CASE Create
  BY <1>6 DEF Create, RowsInv
<1>7. CASE Tag
  <2>1. /\ pc = "tag" /\ pc' = "flush" /\ cur.row = 0 /\ stuck' = stuck
        /\ cmd \in Segs /\ objSeq \in Nat /\ objSeq # 0 /\ uri \in Nat
    BY <1>7 DEF Tag, RowsInv, Shape, PartsInv
  <2>2. ASSUME NEW r \in {0, objSeq}, cur' = Appended(Fresh(objSeq, r), cmd)
        PROVE  cur'.key = objSeq /\ cur'.row = r
    <3>1. /\ Fresh(objSeq, r) \in [key : Nat, uri : Nat, row : Nat, age : {"young", "old"},
                       buf : Seq(Segs), parts : Seq(Nat), index : Seq(Segs)]
          /\ Fresh(objSeq, r).key = objSeq /\ Fresh(objSeq, r).row = r
      BY <2>1, <2>2 DEF Fresh
    <3> QED BY <2>1, <2>2, <3>1, AppendedType
  <2>3. \A o \in Objs : rows[o].state = "open" => o \in stuck
    BY <1>0, <2>1 DEF RowsInv
  <2>4. CASE /\ rows' = [rows EXCEPT ![objSeq] = RecordStart(cmd)]
             /\ cur' = Appended(Fresh(objSeq, objSeq), cmd)
    <3>1. cur'.key = objSeq /\ cur'.row = objSeq
      BY <2>2, <2>4
    <3>2. \A o \in Objs : o # objSeq => rows'[o] = rows[o]
      BY <2>4 DEF RowsInv
    <3>3. rows' = [o \in Objs |-> rows'[o]]
      BY <2>4 DEF RowsInv
    <3> QED BY <2>1, <2>3, <3>1, <3>2, <3>3 DEF RowsInv
  <2>5. CASE cur' = Appended(Fresh(objSeq, 0), cmd) /\ UNCHANGED rows
    <3>1. cur'.key = objSeq /\ cur'.row = 0
      BY <2>2, <2>5
    <3> QED BY <2>1, <2>3, <2>5, <3>1 DEF RowsInv
  <2> QED BY <1>7, <2>4, <2>5 DEF Tag
<1>8. CASE Flush \/ FlushLast
  <2>1. UNCHANGED <<rows, stuck>> /\ pc' \in {"flush", "complete", "abort"}
    BY <1>8 DEF Flush, FlushLast
  <2>2. cur'.key = cur.key /\ cur'.row = cur.row
    <3>1. CASE cur' = cur
      BY <3>1
    <3>2. ASSUME NEW n, UploadPart(n) PROVE cur'.key = cur.key /\ cur'.row = cur.row
      BY <3>2 DEF UploadPart, Shape
    <3> QED BY <1>8, <3>1, <3>2 DEF Flush, FlushLast
  <2> QED BY <2>1, <2>2 DEF RowsInv
<1>9. CASE Complete
  BY <1>9 DEF Complete, RowsInv
<1>10. CASE Record \/ Abort
  <2>1. cur' = Nil
    BY <1>10 DEF Record, Abort
  <2>2. cur'.key = 0 /\ cur'.row = 0
    BY <2>1 DEF Nil
  <2>3. CASE rows' = rows /\ stuck' = stuck /\ cur.row = 0
    BY <1>0, <2>2, <2>3 DEF RowsInv
  <2>4. CASE rows' = rows /\ stuck' = stuck \cup {cur.row}
    BY <2>2, <2>4 DEF RowsInv
  <2>5. ASSUME NEW r, cur.row # 0, r.state # "open",
               rows' = [rows EXCEPT ![cur.row] = r], stuck' = stuck
        PROVE  RowsInv'
    <3>1. \A o \in Objs : o # cur.row => rows'[o] = rows[o]
      BY <2>5 DEF RowsInv
    <3>2. \A o \in Objs : o = cur.row => rows'[o] = r
      BY <2>5 DEF RowsInv
    <3>3. rows' = [o \in Objs |-> rows'[o]]
      BY <2>5 DEF RowsInv
    <3>4. \A o \in Objs : rows'[o].state = "open" => o \in stuck'
      BY <2>5, <3>1, <3>2 DEF RowsInv
    <3> QED BY <2>2, <3>3, <3>4 DEF RowsInv
  <2>6. CASE Record
    <3>1. CASE cur.row # 0 /\ rows' = [rows EXCEPT ![cur.row] = RecordComplete(@, cur.index)] /\ stuck' = stuck
      <4>1. RecordComplete(rows[cur.row], cur.index).state # "open"
        BY DEF RecordComplete
      <4>2. rows' = [rows EXCEPT ![cur.row] = RecordComplete(rows[cur.row], cur.index)]
        BY <3>1 DEF RecordComplete
      <4> QED BY <2>5, <3>1, <4>1, <4>2
    <3> QED BY <2>3, <2>4, <2>6, <3>1 DEF Record
  <2>7. CASE Abort
    <3>1. CASE rows' = RowsWithoutCurrent /\ stuck' = stuck /\ cur.row # 0
      <4>1. NoRow.state # "open"
        BY DEF NoRow
      <4>2. rows' = [rows EXCEPT ![cur.row] = NoRow]
        BY <3>1 DEF RowsWithoutCurrent
      <4> QED BY <2>5, <3>1, <4>1, <4>2
    <3>2. CASE rows' = RowsWithoutCurrent /\ stuck' = stuck /\ cur.row = 0
      BY <2>3, <3>2 DEF RowsWithoutCurrent
    <3> QED BY <2>4, <2>7, <3>1, <3>2 DEF Abort
  <2> QED BY <1>10, <2>6, <2>7
<1>11. CASE Crash
  <2>1. /\ pc' = "dead" /\ cur' = Nil /\ rows' = rows
        /\ stuck' = stuck \cup {cur.row}
    BY <1>11 DEF Crash
  <2>2. cur'.key = 0 /\ cur'.row = 0
    BY <2>1 DEF Nil
  <2> QED BY <2>1, <2>2 DEF RowsInv
<1> QED BY <1>1, <1>2, <1>3, <1>4, <1>5, <1>6, <1>7, <1>8, <1>9, <1>10, <1>11
        DEF Next, Loop

\* Whatever S3 and the database do, a row is open only as long as its object is
\* being written (s3.go abandonCurrent, completeUpload), so that finalize and
\* clips do not wait for an abandoned object, unless the database failed to
\* close or drop that very row or the node died over it.
THEOREM UploaderOpenRowIsCurrent == Spec => []OpenRowIsCurrent
<1> DEFINE I == Shape /\ PartsInv /\ RowsInv
<1>1. Init => I
  BY PartsInit, RowsInit
<1>2. I /\ [Next]_vars => I'
  BY PartsStep, RowsStep
<1>3. I => OpenRowIsCurrent
  BY DEF RowsInv, OpenRowIsCurrent
<1> QED BY <1>1, <1>2, <1>3, PTL DEF Spec

-----------------------------------------------------------------------------
(***************************************************************************)
(* Facts about sequences: their sets of elements, and their concatenation. *)
(***************************************************************************)
\* The elements of the empty sequence.
LEMMA SetOfEmpty == ToSet(<<>>) = {}
BY DEF ToSet

\* Elements are of the sequence's type.
LEMMA SetType ==
  ASSUME NEW S, NEW s \in Seq(S)
  PROVE  ToSet(s) \subseteq S
BY DEF ToSet

\* The elements of a sequence and one more.
LEMMA SetOfAppend ==
  ASSUME NEW S, NEW s \in Seq(S), NEW x \in S
  PROVE  ToSet(Append(s, x)) = ToSet(s) \cup {x}
<1> DEFINE t == Append(s, x)
<1>1. /\ DOMAIN s = 1 .. Len(s) /\ DOMAIN t = 1 .. Len(s) + 1
      /\ Len(s) \in Nat
      /\ \A i \in 1 .. Len(s) : t[i] = s[i]
      /\ t[Len(s) + 1] = x
  BY AppendProperties
<1> HIDE DEF t
<1>2. \A i \in 1 .. Len(s) + 1 : i \in 1 .. Len(s) \/ i = Len(s) + 1
  BY <1>1
<1>3. \A i \in 1 .. Len(s) : i \in 1 .. Len(s) + 1
  BY <1>1
<1>4. Len(s) + 1 \in 1 .. Len(s) + 1
  BY <1>1
<1> QED BY <1>1, <1>2, <1>3, <1>4 DEF ToSet, t

\* The first element of a sequence and the others.
LEMMA SetOfTail ==
  ASSUME NEW S, NEW s \in Seq(S), s # <<>>
  PROVE  /\ Head(s) \in S /\ Tail(s) \in Seq(S)
         /\ Head(s) = s[1] /\ 1 \in 1 .. Len(s)
         /\ Len(s) \in Nat /\ Len(Tail(s)) = Len(s) - 1
         /\ \A k \in 1 .. Len(Tail(s)) : Tail(s)[k] = s[k + 1] /\ k + 1 \in 1 .. Len(s)
         /\ ToSet(s) = {Head(s)} \cup ToSet(Tail(s))
<1> DEFINE t == Tail(s)
<1>1. /\ Head(s) \in S /\ t \in Seq(S)
      /\ Head(s) = s[1] /\ 1 \in 1 .. Len(s)
      /\ Len(s) \in Nat /\ Len(t) = Len(s) - 1
      /\ \A k \in 1 .. Len(t) : t[k] = s[k + 1]
  BY HeadTailProperties, EmptySeq
<1> HIDE DEF t
<1>2. \A k \in 1 .. Len(t) : k + 1 \in 1 .. Len(s)
  BY <1>1
<1>3. \A k \in 1 .. Len(s) : k = 1 \/ (k - 1 \in 1 .. Len(t) /\ (k - 1) + 1 = k)
  BY <1>1
<1>4. DOMAIN s = 1 .. Len(s) /\ DOMAIN t = 1 .. Len(t)
  BY <1>1
<1>5. ToSet(s) \subseteq {Head(s)} \cup ToSet(t)
  <2> SUFFICES ASSUME NEW k \in 1 .. Len(s) PROVE s[k] \in {Head(s)} \cup ToSet(t)
    BY <1>4 DEF ToSet
  <2>1. CASE k = 1
    BY <1>1, <2>1
  <2>2. CASE k - 1 \in 1 .. Len(t) /\ (k - 1) + 1 = k
    <3>1. t[k - 1] = s[k]
      BY <1>1, <2>2
    <3> QED BY <1>4, <2>2, <3>1 DEF ToSet
  <2> QED BY <1>3, <2>1, <2>2
<1>6. {Head(s)} \cup ToSet(t) \subseteq ToSet(s)
  BY <1>1, <1>2, <1>4, SMTT(40) DEF ToSet
<1> QED BY <1>1, <1>2, <1>5, <1>6 DEF t

\* A set of naturals that is not empty has a least element.
LEMMA LeastNatural ==
  ASSUME NEW T, T \subseteq Nat, T # {}
  PROVE  \E x \in T : \A y \in T : x <= y
<1> DEFINE R == OpToRel(<, Nat)
<1>0. \A x, y \in Nat : x < y => <<x, y>> \in R
  BY DEF OpToRel
<1>a. IsWellFoundedOn(R, Nat)
  BY NatLessThanWellFounded
<1> HIDE DEF R
<1>1. PICK x \in T : \A y \in T : ~ (<<y, x>> \in R)
  BY <1>a, WFMin
<1>2. \A y \in T : ~ (y < x)
  BY <1>0, <1>1
<1> QED BY <1>2

\* f holds the concatenations of the first 1, 2, ... sequences of s: the
\* equation by which SequencesExt defines FlattenSeq.
FlatFcn(s, f) == f = [i \in 1 .. Len(s) |-> IF i = 1 THEN s[i] ELSE f[i-1] \o s[i]]

\* f satisfies that equation up to n.
FlatUpto(n, s, f) == \A i \in 1 .. n : f[i] = IF i = 1 THEN s[i] ELSE f[i-1] \o s[i]

\* The equation determines f: the least place where two solutions differ would
\* not be one.
LEMMA FlatUnique ==
  ASSUME NEW n \in Nat, NEW s, NEW f, NEW g, FlatUpto(n, s, f), FlatUpto(n, s, g)
  PROVE  \A i \in 1 .. n : f[i] = g[i]
<1> DEFINE T == {i \in 1 .. n : f[i] # g[i]}
<1> SUFFICES ASSUME T # {} PROVE FALSE
  OBVIOUS
<1>0. T \subseteq Nat
  OBVIOUS
<1>1. PICK m \in T : \A i \in T : m <= i
  <2> HIDE DEF T
  <2> QED BY <1>0, LeastNatural
<1>2. m \in 1 .. n
  OBVIOUS
<1>3. CASE m = 1
  BY <1>2, <1>3 DEF FlatUpto
<1>4. CASE m # 1
  <2>1. m - 1 \in 1 .. n /\ ~ (m <= m - 1)
    BY <1>2, <1>4
  <2>2. f[m-1] = g[m-1]
    BY <1>1, <2>1
  <2>3. f[m] = g[m]
    BY <1>2, <1>4, <2>2 DEF FlatUpto
  <2> QED BY <2>3
<1> QED BY <1>3, <1>4

\* The equation has a solution.
LEMMA FlatExists ==
  ASSUME NEW S, NEW s \in Seq(Seq(S))
  PROVE  \E f : FlatFcn(s, f)
<1> DEFINE Upto(n, f) == f = [i \in 1 .. n |-> IF i = 1 THEN s[i] ELSE f[i-1] \o s[i]]
           T == {n \in Nat : \A f : ~ Upto(n, f)}
<1>1. CASE T # {}
  <2>1. PICK m \in T : \A i \in T : m <= i
    BY <1>1, LeastNatural
  <2>2. m # 0
    <3>1. Upto(0, [i \in 1 .. 0 |-> 0])
      OBVIOUS
    <3> QED BY <3>1
  <2>3. m - 1 \in Nat /\ ~ (m <= m - 1)
    BY <2>2
  <2>a. m - 1 \notin T
    BY <2>1, <2>3
  <2>4. PICK f : Upto(m - 1, f)
    BY <2>a, <2>3
  <2> DEFINE g == [i \in 1 .. m |-> IF i = 1 THEN s[i] ELSE f[i-1] \o s[i]]
  <2>5. \A i \in 1 .. (m - 1) : g[i] = f[i]
    <3>1. ASSUME NEW i \in 1 .. (m - 1) PROVE g[i] = f[i]
      <4>1. i \in 1 .. m
        BY <2>3
      <4>2. f[i] = IF i = 1 THEN s[i] ELSE f[i-1] \o s[i]
        BY <2>4
      <4> QED BY <4>1, <4>2
    <3> QED BY <3>1
  <2>6. Upto(m, g)
    <3>1. ASSUME NEW i \in 1 .. m
          PROVE  g[i] = IF i = 1 THEN s[i] ELSE g[i-1] \o s[i]
      <4>1. CASE i = 1
        BY <4>1
      <4>2. CASE i # 1
        <5>1. i - 1 \in 1 .. (m - 1)
          BY <4>2, <2>3
        <5> QED BY <4>2, <5>1, <2>5
      <4> QED BY <4>1, <4>2
    <3> HIDE DEF g
    <3>3. g = [i \in 1 .. m |-> g[i]]
      BY DEF g
    <3> QED BY <3>1, <3>3
  <2>7. m \notin T
    BY <2>6, <2>3
  <2> QED BY <2>7
<1>2. CASE T = {}
  <2>1. Len(s) \in Nat
    OBVIOUS
  <2>2. Len(s) \notin T
    BY <1>2
  <2>3. \E f : Upto(Len(s), f)
    BY <2>1, <2>2
  <2> QED BY <2>3 DEF FlatFcn
<1> QED BY <1>1, <1>2

\* Concatenations of sequences over S are sequences over S.
LEMMA FlatType ==
  ASSUME NEW S, NEW s \in Seq(Seq(S)), NEW f, FlatFcn(s, f)
  PROVE  \A i \in 1 .. Len(s) : f[i] \in Seq(S)
<1> DEFINE T == {i \in 1 .. Len(s) : f[i] \notin Seq(S)}
<1> SUFFICES ASSUME T # {} PROVE FALSE
  OBVIOUS
<1>0. Len(s) \in Nat
  OBVIOUS
<1>a. T \subseteq Nat
  BY <1>0
<1>1. PICK m \in T : \A i \in T : m <= i
  <2> HIDE DEF T
  <2> QED BY <1>a, LeastNatural
<1>2. m \in 1 .. Len(s) /\ s[m] \in Seq(S)
  BY <1>0
<1>f. f[m] = IF m = 1 THEN s[m] ELSE f[m-1] \o s[m]
  BY <1>2 DEF FlatFcn
<1>3. CASE m = 1
  BY <1>2, <1>3, <1>f
<1>4. CASE m # 1
  <2>1. m - 1 \in 1 .. Len(s) /\ ~ (m <= m - 1)
    BY <1>0, <1>2, <1>4
  <2>2. f[m-1] \in Seq(S)
    BY <1>1, <2>1, SMTT(40)
  <2>3. f[m] \in Seq(S)
    BY <1>2, <1>4, <1>f, <2>2
  <2> QED BY <2>3
<1> QED BY <1>3, <1>4

\* FlattenSeq is the last value of any solution.
LEMMA FlattenIs ==
  ASSUME NEW S, NEW s \in Seq(Seq(S)), NEW f, FlatFcn(s, f)
  PROVE  FlattenSeq(s) = IF s = <<>> THEN <<>> ELSE f[Len(s)]
<1> DEFINE c == CHOOSE g : g = [i \in 1 .. Len(s) |-> IF i = 1 THEN s[i] ELSE g[i-1] \o s[i]]
<1>1. FlatFcn(s, c)
  BY DEF FlatFcn
<1>2. Len(s) # 0 => FlattenSeq(s) = c[Len(s)]
  BY DEF FlattenSeq
<1>3. Len(s) = 0 => s = <<>> /\ FlattenSeq(s) = <<>>
  BY EmptySeq DEF FlattenSeq
<1> HIDE DEF c
<1>4. Len(s) # 0 => Len(s) \in 1 .. Len(s)
  OBVIOUS
<1>5. Len(s) # 0 => c[Len(s)] = f[Len(s)]
  <2>1. Len(s) \in Nat
    OBVIOUS
  <2>2. FlatUpto(Len(s), s, f)
    BY DEF FlatFcn, FlatUpto
  <2>3. FlatUpto(Len(s), s, c)
    BY <1>1 DEF FlatFcn, FlatUpto
  <2>4. \A i \in 1 .. Len(s) : c[i] = f[i]
    BY <2>1, <2>2, <2>3, FlatUnique
  <2> QED BY <1>4, <2>4
<1> QED BY <1>2, <1>3, <1>5, EmptySeq

\* FlattenSeq of a sequence extended by one.
LEMMA FlattenAppend ==
  ASSUME NEW S, NEW s \in Seq(Seq(S)), NEW x \in Seq(S)
  PROVE  /\ FlattenSeq(s) \in Seq(S)
         /\ FlattenSeq(Append(s, x)) = FlattenSeq(s) \o x
<1> DEFINE t == Append(s, x)
<1>1. /\ t \in Seq(Seq(S)) /\ Len(t) = Len(s) + 1 /\ t # <<>>
      /\ \A i \in 1 .. Len(s) : t[i] = s[i]
      /\ t[Len(t)] = x
      /\ Len(s) \in Nat
  BY AppendProperties
<1>2. PICK f : FlatFcn(s, f)
  BY FlatExists
<1>3. PICK g : FlatFcn(t, g)
  BY <1>1, FlatExists
<1> HIDE DEF t
<1>4. FlattenSeq(t) = g[Len(t)]
  BY <1>1, <1>3, FlattenIs
<1>5. g[Len(t)] = IF Len(t) = 1 THEN x ELSE g[Len(s)] \o x
  <2>1. Len(t) \in 1 .. Len(t) /\ Len(t) - 1 = Len(s)
    BY <1>1
  <2>2. g[Len(t)] = IF Len(t) = 1 THEN t[Len(t)] ELSE g[Len(t) - 1] \o t[Len(t)]
    BY <1>3, <2>1 DEF FlatFcn
  <2> QED BY <1>1, <2>1, <2>2
<1>6. CASE s = <<>>
  <2>1. FlattenSeq(s) = <<>>
    BY <1>2, <1>6, FlattenIs
  <2>2. <<>> \o x = x /\ <<>> \in Seq(S)
    BY ConcatEmptySeq
  <2>3. Len(s) = 0
    BY <1>6
  <2> QED BY <1>1, <1>4, <1>5, <2>1, <2>2, <2>3 DEF t
<1>7. CASE s # <<>>
  <2>1. FlattenSeq(s) = f[Len(s)]
    BY <1>2, <1>7, FlattenIs
  <2>2. Len(s) \in 1 .. Len(s) /\ Len(t) # 1
    BY <1>1, <1>7, EmptySeq
  <2>3. g[Len(s)] = f[Len(s)]
    <3>1. FlatUpto(Len(s), s, f)
      BY <1>2 DEF FlatFcn, FlatUpto
    <3>2. ASSUME NEW i \in 1 .. Len(s) PROVE g[i] = IF i = 1 THEN s[i] ELSE g[i-1] \o s[i]
      <4>1. i \in 1 .. Len(t)
        BY <1>1
      <4>2. g[i] = IF i = 1 THEN t[i] ELSE g[i-1] \o t[i]
        BY <1>3, <4>1 DEF FlatFcn
      <4> QED BY <1>1, <4>2
    <3>3. FlatUpto(Len(s), s, g)
      BY <3>2 DEF FlatUpto
    <3>4. \A i \in 1 .. Len(s) : f[i] = g[i]
      BY <1>1, <3>1, <3>3, FlatUnique
    <3> QED BY <2>2, <3>4
  <2>4. f[Len(s)] \in Seq(S)
    BY <1>2, <2>2, FlatType
  <2> QED BY <1>4, <1>5, <2>1, <2>2, <2>3, <2>4 DEF t
<1> QED BY <1>6, <1>7

-----------------------------------------------------------------------------
(***************************************************************************)
(* Where a segment is.  A segment AddSegment has sent is queued, in the    *)
(* loop's hands, in the object being written, in the row of a completed    *)
(* object, or lost; it is never in two of these places.                    *)
(***************************************************************************)
\* The segments queued, and the one the loop has taken but not yet appended.
Queued == ToSet(queue) \ {Cutover}
Hand == IF pc \in {"create", "tag", "last", "complete", "record"} /\ cmd \in Segs THEN {cmd} ELSE {}

\* The segments in the object being written, and in the row of an object.
InCur == ToSet(cur.index)
InRow(o) == ToSet(rows[o].index)

\* The types that Shape leaves out.
RowType == [state : {"none", "open", "complete"}, uri : Uris, start : {0} \cup Segs, index : Seq(Segs)]

Types ==
  /\ uri \in Uris /\ cur.uri \in Uris
  /\ tagged \in [Segs -> SUBSET Uris]
  /\ sent \subseteq Segs
  /\ rows \in [Objs -> RowType]
  /\ pc = "flush" => cmd \in Segs

\* The row of the object being written, of objects not begun, of objects that
\* are not complete.
CurInv ==
  /\ cur.key = 0 => cur.index = <<>> /\ cur.row = 0
  /\ cur.key # 0 => cur.index # <<>> /\ cur.row \in {0, cur.key}
  /\ \A o \in Objs : o = cur.row => rows[o].state = "open" /\ rows[o].uri = cur.uri
  /\ \A o \in Objs : o = cur.key /\ cur.row = 0 => rows[o].state = "none"
  /\ \A o \in Objs : o > objSeq => rows[o].state = "none" /\ store[o].state = "none"
  /\ pc = "tag" => \A o \in Objs : o = objSeq => rows[o].state = "none"
  /\ \A o \in Objs : rows[o].state # "complete" => rows[o].index = <<>>

\* A segment is in one place: queued, in the loop's hands, in the object being
\* written, or in one row; and AddSegment has sent it.
Apart ==
  /\ \A k, l \in 1 .. Len(queue) : queue[k] = queue[l] /\ queue[k] # Cutover => k = l
  /\ Queued \subseteq sent /\ Hand \subseteq sent /\ InCur \subseteq sent
  /\ \A o \in Objs : InRow(o) \subseteq sent
  /\ pc \in {"flush", "abort"} /\ cmd \in Segs => cmd \in sent
  /\ Queued \cap Hand = {} /\ Queued \cap InCur = {} /\ Hand \cap InCur = {}
  /\ \A o \in Objs : InRow(o) \cap Queued = {} /\ InRow(o) \cap Hand = {} /\ InRow(o) \cap InCur = {}
  /\ \A o, p \in Objs : o # p => InRow(o) \cap InRow(p) = {}

\* The livestream of now, of the object being written and of a row was the
\* stream's while their segments were pending.
TagInv ==
  /\ pc # "dead" => \A i \in Segs : i \in Pending => uri \in tagged[i]
  /\ \A i \in InCur : cur.uri \in tagged[i]
  /\ \A o \in Objs : \A i \in InRow(o) : rows[o].uri \in tagged[i]

\* The contents of the segments of an index.
BytesOf(index) == [k \in 1 .. Len(index) |-> Bytes(index[k])]

\* What is uploaded and what is buffered of the object being written are its
\* segments back to back, and so are the bytes of a completed object.
ContentInv ==
  /\ \A o \in Objs : o = cur.key => FlattenSeq(store[o].parts) \o cur.buf = FlattenSeq(BytesOf(cur.index))
  /\ pc \in {"complete", "record"} => cur.buf = <<>>
  /\ pc = "record" => \A o \in Objs : o = cur.key => store[o].state = "object"
  /\ \A o \in Objs : rows[o].state = "complete" =>
       /\ store[o].state = "object"
       /\ FlattenSeq(store[o].parts) = FlattenSeq(BytesOf(rows[o].index))
       /\ \A i \in InRow(o) : rows[o].start <= i

\* The segment in the loop's hands for which an attempt at an object is due.
Due == IF pc \in {"create", "last", "complete", "record"} /\ cmd \in Segs THEN 1 ELSE 0

\* Every attempt was made for a segment of its own; what is counted is bounded.
CountInv ==
  /\ objSeq + Due <= Cardinality(sent \ Queued)
  /\ Len(queue) <= QueueCap
  /\ asked \in 0 .. MaxCutovers /\ faults \in 0 .. MaxFaults /\ closed \in BOOLEAN
  /\ dropped \subseteq sent

\* The objects given up.
Lost == {o \in Objs : /\ store[o].state # "none" /\ rows[o].state # "complete" /\ cur.key # o
                      /\ ~ (pc = "tag" /\ o = objSeq)}

\* The object being written will be lost.
Doomed == IF pc = "abort" \/ (cur.key # 0 /\ cur.row = 0) THEN 1 ELSE 0

\* A call has failed and the object being written is about to be given up.
Aborting == IF pc = "abort" THEN 1 ELSE 0

\* Every segment dropped, and every object given up, has cost a failed call.
DropInv == Cardinality(dropped) + Aborting <= faults
LossInv == Alive => Cardinality(Lost) + Doomed <= faults

\* The loop only ends once segCh is closed and drained.
EndInv ==
  /\ cmd = End => closed /\ queue = <<>> /\ pc \in {"last", "complete", "record", "abort", "done", "dead"}
  /\ pc = "done" => cmd = End

\* As long as no call has failed every segment is somewhere.
KeptInv ==
  Alive /\ faults = 0 => \A i \in sent : i \in Queued \cup Hand \cup InCur \/ \E o \in Objs : i \in InRow(o)
-----------------------------------------------------------------------------
(***************************************************************************)
(* What the steps do to the upload, the rows and the objects, field by     *)
(* field.                                                                  *)
(***************************************************************************)
\* The fields of an upload a segment is appended to.
LEMMA AppendedFields ==
  ASSUME NEW u \in [key : Nat, uri : Nat, row : Nat, age : {"young", "old"},
                    buf : Seq(Segs), parts : Seq(Nat), index : Seq(Segs)],
         NEW i \in Segs
  PROVE  /\ Appended(u, i).key = u.key /\ Appended(u, i).row = u.row /\ Appended(u, i).uri = u.uri
         /\ Appended(u, i).buf = u.buf \o Bytes(i)
         /\ Appended(u, i).index = Append(u.index, i)
BY DEF Appended

\* An object growing old changes nothing else of its upload.
LEMMA GrowsOldFields ==
  ASSUME Shape, GrowsOld
  PROVE  /\ cur'.key = cur.key /\ cur'.row = cur.row /\ cur'.uri = cur.uri
         /\ cur'.buf = cur.buf /\ cur'.index = cur.index
BY DEF Shape, GrowsOld

\* Taking a segment: it waits for the current object to be completed, it is
\* the first of a new object, or it is appended to the current one, which is
\* tagged with the stream's livestream.
LEMMA TakeSegmentFields ==
  ASSUME Shape, TakeSegment
  PROVE  /\ pc = "idle" /\ cmd' \in Segs
         /\ queue # <<>> /\ cmd' = Head(queue) /\ queue' = Tail(queue)
         /\ UNCHANGED <<inputs, objSeq, store, rows, dropped, faults>>
         /\ cur'.key = cur.key /\ cur'.row = cur.row /\ cur'.uri = cur.uri
         /\ \/ pc' = "last" /\ cur' = cur /\ cur.key # 0
            \/ pc' = "create" /\ cur' = cur /\ cur.key = 0
            \/ /\ pc' = "flush" /\ cur.key # 0 /\ cur.uri = uri
               /\ cur'.index = Append(cur.index, cmd')
               /\ cur'.buf = cur.buf \o Bytes(cmd')
<1>1. /\ pc = "idle" /\ cmd' \in Segs
      /\ queue # <<>> /\ cmd' = Head(queue) /\ queue' = Tail(queue)
      /\ UNCHANGED <<inputs, objSeq, store, rows, dropped, faults>>
  BY DEF TakeSegment, Shape
<1>2. CASE RollsOver
  BY <1>1, <1>2 DEF TakeSegment, RollsOver
<1>3. CASE ~RollsOver /\ cur.key = 0
  BY <1>1, <1>3 DEF TakeSegment
<1>4. CASE ~RollsOver /\ cur.key # 0
  <2>1. cur' = Appended(cur, cmd') /\ pc' = "flush" /\ cur.uri = uri
    BY <1>4 DEF TakeSegment, RollsOver
  <2>2. /\ cur'.key = cur.key /\ cur'.row = cur.row /\ cur'.uri = cur.uri
        /\ cur'.buf = cur.buf \o Bytes(cmd')
        /\ cur'.index = Append(cur.index, cmd')
    BY <1>1, <2>1, AppendedFields DEF Shape
  <2> QED BY <1>1, <1>4, <2>1, <2>2
<1> QED BY <1>2, <1>3, <1>4

\* Tagging a new object: it begins with the segment in hand, and it has a row
\* unless the database failed.
LEMMA TagFields ==
  ASSUME Shape, PartsInv, Tag
  PROVE  /\ pc = "tag" /\ pc' = "flush" /\ cmd \in Segs /\ cur.key = 0 /\ objSeq # 0
         /\ UNCHANGED <<inputs, queue, cmd, objSeq, store, dropped>>
         /\ cur'.key = objSeq /\ cur'.uri = uri
         /\ cur'.index = <<cmd>> /\ cur'.buf = Bytes(cmd)
         /\ \/ /\ cur'.row = objSeq /\ UNCHANGED faults
               /\ rows' = [rows EXCEPT ![objSeq] = RecordStart(cmd)]
            \/ /\ cur'.row = 0 /\ UNCHANGED rows /\ Fault
<1>1. /\ pc = "tag" /\ pc' = "flush" /\ cmd \in Segs /\ cur.key = 0 /\ objSeq # 0
      /\ UNCHANGED <<inputs, queue, cmd, objSeq, store, dropped>>
  BY DEF Tag, Shape, PartsInv
<1>2. ASSUME NEW r \in Nat, cur' = Appended(Fresh(objSeq, r), cmd)
      PROVE  /\ cur'.key = objSeq /\ cur'.uri = uri /\ cur'.row = r
             /\ cur'.index = <<cmd>> /\ cur'.buf = Bytes(cmd)
  <2> DEFINE u == Fresh(objSeq, r)
  <2>1. u = [key |-> objSeq, uri |-> uri, row |-> r, age |-> "young",
             buf |-> <<>>, parts |-> <<>>, index |-> <<>>]
    BY DEF Fresh
  <2>2. objSeq \in Nat /\ uri \in Nat
    BY DEF Shape
  <2>3. u \in [key : Nat, uri : Nat, row : Nat, age : {"young", "old"},
               buf : Seq(Segs), parts : Seq(Nat), index : Seq(Segs)]
    BY <2>1, <2>2
  <2>4. u.key = objSeq /\ u.uri = uri /\ u.row = r /\ u.buf = <<>> /\ u.index = <<>>
    BY <2>1
  <2> HIDE DEF u
  <2>5. /\ Appended(u, cmd).key = objSeq /\ Appended(u, cmd).uri = uri /\ Appended(u, cmd).row = r
        /\ Appended(u, cmd).buf = <<>> \o Bytes(cmd)
        /\ Appended(u, cmd).index = Append(<<>>, cmd)
    BY <1>1, <2>3, <2>4, AppendedFields
  <2>6. <<>> \o Bytes(cmd) = Bytes(cmd)
    BY <1>1, BytesType, ConcatEmptySeq
  <2>7. Append(<<>>, cmd) = <<cmd>>
    OBVIOUS
  <2>8. cur' = Appended(u, cmd)
    BY <1>2 DEF u
  <2> QED BY <2>5, <2>6, <2>7, <2>8
<1>3. \/ /\ cur' = Appended(Fresh(objSeq, objSeq), cmd) /\ UNCHANGED faults
         /\ rows' = [rows EXCEPT ![objSeq] = RecordStart(cmd)]
      \/ cur' = Appended(Fresh(objSeq, 0), cmd) /\ UNCHANGED rows /\ Fault
  BY DEF Tag
<1>4. objSeq \in Nat /\ 0 \in Nat
  BY DEF Shape
<1>5. CASE /\ cur' = Appended(Fresh(objSeq, objSeq), cmd) /\ UNCHANGED faults
           /\ rows' = [rows EXCEPT ![objSeq] = RecordStart(cmd)]
  BY <1>1, <1>2, <1>4, <1>5
<1>6. CASE cur' = Appended(Fresh(objSeq, 0), cmd) /\ UNCHANGED rows /\ Fault
  BY <1>1, <1>2, <1>4, <1>6
<1> QED BY <1>3, <1>5, <1>6

\* Uploading a part moves bytes from the buffer to the object.
LEMMA UploadPartFields ==
  ASSUME Shape, NEW n \in Nat, n <= Len(cur.buf), n > 0, UploadPart(n)
  PROVE  /\ cur'.key = cur.key /\ cur'.row = cur.row /\ cur'.uri = cur.uri /\ cur'.index = cur.index
         /\ cur'.buf = SubSeq(cur.buf, n + 1, Len(cur.buf))
         /\ \A o \in Objs : store'[o].state = store[o].state
         /\ \A o \in Objs : o # cur.key => store'[o].parts = store[o].parts
         /\ \A o \in Objs : o = cur.key =>
              store'[o].parts = Append(store[o].parts, SubSeq(cur.buf, 1, n))
<1>1. cur' = [cur EXCEPT !.buf = SubSeq(cur.buf, n + 1, Len(cur.buf)), !.parts = Append(cur.parts, n)]
  BY DEF UploadPart, Rest
<1>2. store' = [store EXCEPT ![cur.key].parts = Append(store[cur.key].parts, SubSeq(cur.buf, 1, n))]
  BY DEF UploadPart
<1>3. /\ cur'.key = cur.key /\ cur'.row = cur.row /\ cur'.uri = cur.uri /\ cur'.index = cur.index
      /\ cur'.buf = SubSeq(cur.buf, n + 1, Len(cur.buf))
  BY <1>1 DEF Shape
<1>4. \A o \in Objs : o # cur.key => store'[o] = store[o]
  BY <1>2 DEF Shape
<1>5. \A o \in Objs : o = cur.key =>
        /\ store'[o].parts = Append(store[o].parts, SubSeq(cur.buf, 1, n))
        /\ store'[o].state = store[o].state
  BY <1>2 DEF Shape
<1> QED BY <1>3, <1>4, <1>5

\* Flushing a part leaves everything but the buffer and the parts alone.
LEMMA FlushFields ==
  ASSUME Shape, PartsInv, Flush \/ FlushLast
  PROVE  /\ pc \in {"flush", "last"} /\ cur.key # 0
         /\ UNCHANGED <<inputs, queue, cmd, objSeq, rows, dropped>>
         /\ cur'.key = cur.key /\ cur'.row = cur.row /\ cur'.uri = cur.uri /\ cur'.index = cur.index
         /\ \A o \in Objs : store'[o].state = store[o].state
         /\ \A o \in Objs : o # cur.key => store'[o].parts = store[o].parts
         /\ \/ pc' = "abort" /\ Fault /\ UNCHANGED <<cur, store>>
            \/ /\ UNCHANGED faults
               /\ \/ pc = "flush" /\ pc' = "flush"
                  \/ pc = "last" /\ pc' = "complete" /\ cur'.buf = <<>>
               /\ \/ UNCHANGED <<cur, store>>
                  \/ \E n \in 1 .. Len(cur.buf) :
                       /\ cur'.buf = SubSeq(cur.buf, n + 1, Len(cur.buf))
                       /\ \A o \in Objs : o = cur.key =>
                            store'[o].parts = Append(store[o].parts, SubSeq(cur.buf, 1, n))
<1>1. /\ pc \in {"flush", "last"} /\ cur.key # 0
      /\ UNCHANGED <<inputs, queue, cmd, objSeq, rows, dropped>>
  BY DEF Flush, FlushLast, PartsInv
<1>2. CASE pc' = "abort" /\ Fault /\ UNCHANGED <<cur, store>>
  BY <1>1, <1>2
<1>6. CASE pc = "last" /\ pc' = "complete" /\ cur.buf = <<>> /\ UNCHANGED <<cur, store, faults>>
  BY <1>1, <1>6
<1>3. ASSUME NEW n \in Nat, n > 0, n <= Len(cur.buf), UploadPart(n), UNCHANGED faults,
             \/ pc = "flush" /\ pc' = "flush"
             \/ pc = "last" /\ pc' = "complete" /\ n = Len(cur.buf)
      PROVE  /\ cur'.key = cur.key /\ cur'.row = cur.row /\ cur'.uri = cur.uri /\ cur'.index = cur.index
             /\ \A o \in Objs : store'[o].state = store[o].state
             /\ \A o \in Objs : o # cur.key => store'[o].parts = store[o].parts
             /\ pc = "last" => cur'.buf = <<>>
             /\ \E m \in 1 .. Len(cur.buf) :
                       /\ cur'.buf = SubSeq(cur.buf, m + 1, Len(cur.buf))
                       /\ \A o \in Objs : o = cur.key =>
                            store'[o].parts = Append(store[o].parts, SubSeq(cur.buf, 1, m))
  <2>1. /\ cur'.key = cur.key /\ cur'.row = cur.row /\ cur'.uri = cur.uri /\ cur'.index = cur.index
        /\ cur'.buf = SubSeq(cur.buf, n + 1, Len(cur.buf))
        /\ \A o \in Objs : store'[o].state = store[o].state
        /\ \A o \in Objs : o # cur.key => store'[o].parts = store[o].parts
        /\ \A o \in Objs : o = cur.key =>
             store'[o].parts = Append(store[o].parts, SubSeq(cur.buf, 1, n))
    BY <1>3, UploadPartFields
  <2>2. n \in 1 .. Len(cur.buf)
    BY <1>3 DEF Shape
  <2>3. pc = "last" => cur'.buf = <<>>
    <3>1. cur.buf \in Seq(Segs) /\ Len(cur.buf) \in Nat
      BY DEF Shape
    <3>2. pc = "last" => n = Len(cur.buf)
      BY <1>3
    <3>3. SubSeq(cur.buf, Len(cur.buf) + 1, Len(cur.buf)) = <<>>
      BY <3>1
    <3> QED BY <2>1, <3>2, <3>3
  <2> QED BY <2>1, <2>2, <2>3
<1>4. CASE pc = "flush" /\ Len(cur.buf) >= PartSize /\ UploadPart(PartSize) /\ UNCHANGED <<pc, faults>>
  <2>1. PartSize \in Nat /\ PartSize > 0 /\ PartSize <= Len(cur.buf)
    BY <1>4, UploaderAssumption DEF Shape
  <2>2. /\ cur'.key = cur.key /\ cur'.row = cur.row /\ cur'.uri = cur.uri /\ cur'.index = cur.index
        /\ \A o \in Objs : store'[o].state = store[o].state
        /\ \A o \in Objs : o # cur.key => store'[o].parts = store[o].parts
        /\ pc = "last" => cur'.buf = <<>>
        /\ \E m \in 1 .. Len(cur.buf) :
             /\ cur'.buf = SubSeq(cur.buf, m + 1, Len(cur.buf))
             /\ \A o \in Objs : o = cur.key =>
                  store'[o].parts = Append(store[o].parts, SubSeq(cur.buf, 1, m))
    <3>1. UploadPart(PartSize)
      BY <1>4
    <3>2. UNCHANGED faults
      BY <1>4
    <3>3. \/ pc = "flush" /\ pc' = "flush"
          \/ pc = "last" /\ pc' = "complete" /\ PartSize = Len(cur.buf)
      BY <1>4
    <3> QED BY <1>3, <2>1, <3>1, <3>2, <3>3, Zenon
  <2> QED BY <1>1, <1>4, <2>2
<1>5. CASE pc = "last" /\ cur.buf # <<>> /\ UploadPart(Len(cur.buf)) /\ pc' = "complete" /\ UNCHANGED faults
  <2>1. Len(cur.buf) \in Nat /\ Len(cur.buf) > 0 /\ Len(cur.buf) <= Len(cur.buf)
    BY <1>5, EmptySeq DEF Shape
  <2>2. /\ cur'.key = cur.key /\ cur'.row = cur.row /\ cur'.uri = cur.uri /\ cur'.index = cur.index
        /\ \A o \in Objs : store'[o].state = store[o].state
        /\ \A o \in Objs : o # cur.key => store'[o].parts = store[o].parts
        /\ pc = "last" => cur'.buf = <<>>
        /\ \E m \in 1 .. Len(cur.buf) :
             /\ cur'.buf = SubSeq(cur.buf, m + 1, Len(cur.buf))
             /\ \A o \in Objs : o = cur.key =>
                  store'[o].parts = Append(store[o].parts, SubSeq(cur.buf, 1, m))
    BY <1>3, <1>5, <2>1
  <2> QED BY <1>1, <1>5, <2>2
<1> QED BY <1>2, <1>4, <1>5, <1>6 DEF Flush, FlushLast

\* Creating an object changes S3's state of the next key only.
LEMMA CreateFields ==
  ASSUME Shape, Create
  PROVE  /\ pc = "create" /\ objSeq' = objSeq + 1
         /\ UNCHANGED <<inputs, queue, cmd, cur, rows>>
         /\ \A o \in Objs : o # objSeq + 1 => store'[o] = store[o]
         /\ \A o \in Objs : store'[o].parts = store[o].parts
         /\ \/ pc' = "tag" /\ UNCHANGED <<dropped, faults>>
            \/ pc' = "idle" /\ Fault /\ dropped' = dropped \cup {cmd} /\ store' = store
<1>1. CASE store' = [store EXCEPT ![objSeq + 1].state = "open"] /\ pc' = "tag" /\ UNCHANGED <<dropped, faults>>
  <2>1. objSeq + 1 \in Nat
    BY DEF Shape
  <2>2. \A o \in Objs : store'[o].parts = store[o].parts
    BY <1>1, <2>1, StateChanged
  <2>3. \A o \in Objs : o # objSeq + 1 => store'[o] = store[o]
    BY <1>1 DEF Shape
  <2> QED BY <1>1, <2>2, <2>3 DEF Create
<1>2. CASE Fault /\ dropped' = dropped \cup {cmd} /\ pc' = "idle" /\ UNCHANGED store
  BY <1>2 DEF Create
<1> QED BY <1>1, <1>2 DEF Create

\* Completing an object changes at most S3's state of its key.
LEMMA CompleteFields ==
  ASSUME Shape, PartsInv, Complete
  PROVE  /\ pc = "complete" /\ cur.key # 0
         /\ UNCHANGED <<inputs, queue, cmd, objSeq, cur, rows, dropped>>
         /\ \A o \in Objs : o # cur.key => store'[o] = store[o]
         /\ \A o \in Objs : store'[o].parts = store[o].parts
         /\ \/ /\ pc' = "record" /\ UNCHANGED faults
               /\ \A o \in Objs : o = cur.key => store'[o].state = "object"
            \/ pc' = "abort" /\ Fault
<1>1. CASE store' = [store EXCEPT ![cur.key].state = "object"]
  <2>1. cur.key \in Nat
    BY DEF Shape
  <2>2. \A o \in Objs : store'[o].parts = store[o].parts
    BY <1>1, <2>1, StateChanged
  <2>3. /\ \A o \in Objs : o # cur.key => store'[o] = store[o]
        /\ \A o \in Objs : o = cur.key => store'[o].state = "object"
    BY <1>1 DEF Shape
  <2> QED BY <2>2, <2>3 DEF Complete, PartsInv
<1>2. CASE Fault /\ pc' = "abort" /\ UNCHANGED store
  BY <1>2 DEF Complete, PartsInv
<1> QED BY <1>1, <1>2 DEF Complete

\* Recording an object ends the upload; its row is completed, or it stays lost.
LEMMA RecordFields ==
  ASSUME Shape, PartsInv, Record
  PROVE  /\ pc = "record" /\ cur.key # 0 /\ cur' = Nil
         /\ UNCHANGED <<inputs, queue, cmd, objSeq, store, dropped>>
         /\ \/ cmd \in Segs /\ pc' = "create"
            \/ cmd = Cutover /\ cmd \notin Segs /\ cmd # End /\ pc' = "idle"
            \/ cmd = End /\ cmd \notin Segs /\ pc' = "done"
         /\ \/ cur.row # 0 /\ rows' = [rows EXCEPT ![cur.row] = RecordComplete(@, cur.index)] /\ UNCHANGED faults
            \/ cur.row = 0 /\ UNCHANGED <<rows, faults>>
            \/ cur.row # 0 /\ UNCHANGED rows /\ Fault
<1>1. cmd \in {Cutover, End} \cup Segs /\ Cutover \notin Segs /\ End \notin Segs /\ End # Cutover
  BY UploaderAssumption DEF Shape, Cutover, End, Segs
<1>2. \/ cmd \in Segs /\ Resume = "create"
      \/ cmd = Cutover /\ cmd \notin Segs /\ cmd # End /\ Resume = "idle"
      \/ cmd = End /\ cmd \notin Segs /\ Resume = "done"
  BY <1>1 DEF Resume
<1> QED BY <1>2 DEF Record, PartsInv

\* Giving up an object ends the upload and drops its row, if that works.
LEMMA AbortFields ==
  ASSUME Shape, PartsInv, Abort
  PROVE  /\ pc = "abort" /\ cur.key # 0 /\ cur' = Nil
         /\ UNCHANGED <<inputs, queue, cmd, objSeq>>
         /\ pc' = AfterAbort
         /\ dropped' = IF cmd \in Segs THEN dropped \cup ({cmd} \ ToSet(cur.index)) ELSE dropped
         /\ \A o \in Objs : o # cur.key => store'[o] = store[o]
         /\ \A o \in Objs : store'[o].parts = store[o].parts
         /\ rows' = rows \/ rows' = RowsWithoutCurrent
         /\ UNCHANGED faults \/ Fault
<1>1. /\ \A o \in Objs : o # cur.key => store'[o] = store[o]
      /\ \A o \in Objs : store'[o].parts = store[o].parts
  <2>1. CASE store' = store
    BY <2>1
  <2>2. CASE store' = [store EXCEPT ![cur.key].state = IF @ = "open" THEN "aborted" ELSE @]
    <3> DEFINE v == IF store[cur.key].state = "open" THEN "aborted" ELSE store[cur.key].state
    <3>1. store' = [store EXCEPT ![cur.key].state = v]
      BY <2>2 DEF Shape
    <3> HIDE DEF v
    <3> QED BY <3>1 DEF Shape
  <2> QED BY <2>1, <2>2 DEF Abort
<1> QED BY <1>1 DEF Abort, PartsInv

-----------------------------------------------------------------------------
(***************************************************************************)
(* The rows: their types, and the row of the object being written.         *)
(***************************************************************************)
\* The earliest of some segments is one of them, and none is before it.
LEMMA EarliestIs ==
  ASSUME NEW index \in Seq(Segs), index # <<>>
  PROVE  /\ Earliest(index) \in Segs
         /\ \A j \in ToSet(index) : Earliest(index) <= j
<1> DEFINE T == ToSet(index)
<1>0. T \subseteq Segs
  BY SetType
<1>1. T \subseteq Segs /\ T \subseteq Nat
  BY <1>0, UploaderAssumption DEF Segs
<1>2. T # {}
  BY SetOfTail, ZenonT(60)
<1> HIDE DEF T
<1>3. \E i \in T : \A j \in T : i <= j
  BY <1>1, <1>2, LeastNatural
<1> QED BY <1>1, <1>3 DEF Earliest, T

\* RecordComplete's row holds the index; no other row changes.
LEMMA RecordedRows ==
  ASSUME Shape, Types, cur.index # <<>>,
         rows' = [rows EXCEPT ![cur.row] = RecordComplete(@, cur.index)]
  PROVE  /\ rows' \in [Objs -> RowType]
         /\ \A o \in Objs : o # cur.row => rows'[o] = rows[o]
         /\ \A o \in Objs : o = cur.row =>
              /\ rows'[o].state = "complete" /\ rows'[o].uri = rows[o].uri
              /\ rows'[o].start = Earliest(cur.index) /\ rows'[o].index = cur.index
<1>0. cur.index \in Seq(Segs)
  BY DEF Shape
<1> DEFINE e == Earliest(cur.index)
<1>1. e \in Segs
  BY <1>0, EarliestIs
<1>2. rows' = [rows EXCEPT ![cur.row] = [state |-> "complete", uri |-> rows[cur.row].uri,
                                          start |-> e, index |-> cur.index]]
  BY DEF RecordComplete
<1> HIDE DEF e
<1>3. rows \in [Objs -> RowType]
  BY DEF Types
<1>4. ASSUME NEW o \in Objs
      PROVE  [state |-> "complete", uri |-> rows[o].uri, start |-> e, index |-> cur.index] \in RowType
  BY <1>0, <1>1, <1>3 DEF RowType
<1>5. rows' \in [Objs -> RowType]
  BY <1>2, <1>3, <1>4, ZenonT(60)
<1>6. /\ \A o \in Objs : o # cur.row => rows'[o] = rows[o]
      /\ \A o \in Objs : o = cur.row =>
           rows'[o] = [state |-> "complete", uri |-> rows[o].uri, start |-> e, index |-> cur.index]
  BY <1>2, <1>3
<1>7. ASSUME NEW o \in Objs, o = cur.row
      PROVE  /\ rows'[o].state = "complete" /\ rows'[o].uri = rows[o].uri
             /\ rows'[o].start = e /\ rows'[o].index = cur.index
  <2>1. rows'[o] = [state |-> "complete", uri |-> rows[o].uri, start |-> e, index |-> cur.index]
    BY <1>6, <1>7
  <2> QED BY <2>1
<1> QED BY <1>5, <1>6, <1>7 DEF e

\* RecordStart's row is open and empty; no other row changes.
LEMMA StartedRows ==
  ASSUME Shape, Types, cmd \in Segs, rows' = [rows EXCEPT ![objSeq] = RecordStart(cmd)]
  PROVE  /\ rows' \in [Objs -> RowType]
         /\ \A o \in Objs : o # objSeq => rows'[o] = rows[o]
         /\ \A o \in Objs : o = objSeq =>
              rows'[o].state = "open" /\ rows'[o].uri = uri /\ rows'[o].index = <<>>
<1> DEFINE r == RecordStart(cmd)
<1>1. r \in RowType /\ r.state = "open" /\ r.uri = uri /\ r.index = <<>>
  BY DEF RecordStart, RowType, Types
<1> HIDE DEF r
<1>2. rows' = [rows EXCEPT ![objSeq] = r]
  BY DEF r
<1> QED BY <1>1, <1>2 DEF Types

\* RecordAbort's row is gone, or it is still there; no other row changes.
LEMMA AbortedRows ==
  ASSUME Shape, Types, rows' = rows \/ rows' = RowsWithoutCurrent
  PROVE  /\ rows' \in [Objs -> RowType]
         /\ \A o \in Objs : o # cur.row => rows'[o] = rows[o]
         /\ \A o \in Objs : o = cur.row => rows'[o] = rows[o] \/ rows'[o] = NoRow
         /\ NoRow.state = "none" /\ NoRow.index = <<>>
<1>1. NoRow \in RowType /\ NoRow.state = "none" /\ NoRow.index = <<>>
  BY UploaderAssumption DEF NoRow, RowType, Uris
<1>2. rows' = rows \/ rows' = [rows EXCEPT ![cur.row] = NoRow]
  BY DEF RowsWithoutCurrent
<1> QED BY <1>1, <1>2 DEF Types

\* Every step keeps the types and what is known of the rows.
LEMMA RowTypesStep ==
  ASSUME Shape, PartsInv, Types, CurInv, [Next]_vars
  PROVE  Types' /\ CurInv'
<1>0. /\ cur.key \in Nat /\ cur.row \in Nat /\ objSeq \in Nat
      /\ \A o \in Objs : o # 0 /\ o \in Nat
      /\ rows \in [Objs -> RowType]
  BY DEF Shape, Types, Objs
<1>s. ASSUME cur'.key = cur.key, cur'.row = cur.row, cur'.uri = cur.uri, cur'.index # <<>> \/ cur'.index = cur.index,
             cur.key # 0 \/ cur'.index = cur.index,
             rows' = rows, objSeq' = objSeq, \A o \in Objs : store'[o].state = store[o].state,
             pc' # "tag" \/ pc' = pc
      PROVE  CurInv'
  <2>1. cur'.key = 0 => cur'.index = <<>> /\ cur'.row = 0
    BY <1>s DEF CurInv
  <2>2. cur'.key # 0 => cur'.index # <<>> /\ cur'.row \in {0, cur'.key}
    BY <1>s DEF CurInv
  <2>3. pc' = "tag" => \A o \in Objs : o = objSeq' => rows'[o].state = "none"
    BY <1>s DEF CurInv
  <2> QED BY <1>s, <2>1, <2>2, <2>3 DEF CurInv
<1>1. CASE UNCHANGED <<pc, cmd, cur, rows, store, objSeq>> /\ uri' \in Uris /\ tagged' \in [Segs -> SUBSET Uris]
           /\ sent' \subseteq Segs
  BY <1>1, <1>s DEF Types
<1>2. CASE SetLivestreamURI
  <2>1. uri' \in Uris
    BY <1>2, UploaderAssumption DEF SetLivestreamURI, Types, Uris
  <2>2. tagged' \in [Segs -> SUBSET Uris]
    <3>1. \A i \in Segs : tagged[i] \in SUBSET Uris
      BY DEF Types
    <3>2. tagged' = [i \in Segs |-> IF i \in Pending THEN tagged[i] \cup {uri'} ELSE tagged[i]]
      BY <1>2 DEF SetLivestreamURI
    <3> QED BY <2>1, <3>1, <3>2
  <2> QED BY <1>1, <1>2, <2>1, <2>2 DEF SetLivestreamURI, Types
<1>3. ASSUME NEW i \in Segs, AddSegment(i) PROVE Types' /\ CurInv'
  <2>1. tagged' \in [Segs -> SUBSET Uris]
    BY <1>3 DEF AddSegment, Types
  <2> QED BY <1>1, <1>3, <2>1 DEF AddSegment, Types
<1>4. CASE AskCutover \/ Close \/ UNCHANGED vars
  BY <1>1, <1>4 DEF AskCutover, Close, vars, Types
<1>5. CASE GrowsOld
  <2>1. UNCHANGED <<uri, tagged, sent, pc, cmd, rows, store, objSeq>>
    BY <1>5 DEF GrowsOld, inputs
  <2>2. CurInv'
    BY <1>5, <1>s, <2>1, GrowsOldFields
  <2> QED BY <1>5, <2>1, <2>2, GrowsOldFields DEF Types
<1>6. CASE TakeSegment
  <2>1. UNCHANGED <<uri, tagged, sent, rows, store, objSeq>> /\ pc' # "tag" /\ cmd' \in Segs
    BY <1>6, TakeSegmentFields DEF inputs
  <2>2. cur'.index # <<>> \/ cur'.index = cur.index
    <3>1. ASSUME cur'.index = Append(cur.index, cmd') PROVE cur'.index # <<>>
      <4>1. cur.index \in Seq(Segs)
        BY DEF Shape
      <4>2. Append(cur.index, cmd') # <<>>
        BY <2>1, <4>1, AppendProperties
      <4> QED BY <3>1, <4>2
    <3> QED BY <1>6, <3>1, TakeSegmentFields
  <2>3. cur.key # 0 \/ cur'.index = cur.index
    BY <1>6, TakeSegmentFields
  <2>4. cur'.key = cur.key /\ cur'.row = cur.row /\ cur'.uri = cur.uri
    BY <1>6, TakeSegmentFields
  <2>5. CurInv'
    BY <1>s, <2>1, <2>2, <2>3, <2>4
  <2> QED BY <2>1, <2>4, <2>5 DEF Types
<1>7. CASE TakeCutover \/ TakeEnd \/ Flushed
  <2>1. UNCHANGED <<uri, tagged, sent, cur, rows, store, objSeq>> /\ pc' \notin {"tag", "flush"}
    BY <1>7 DEF TakeCutover, TakeEnd, Flushed, inputs
  <2>2. CurInv'
    BY <1>s, <2>1
  <2> QED BY <2>1, <2>2 DEF Types
<1>8. CASE Create
  <2>1. /\ UNCHANGED <<uri, tagged, sent, cur, rows>> /\ pc' # "flush" /\ pc = "create"
        /\ objSeq' = objSeq + 1 /\ \A o \in Objs : o # objSeq + 1 => store'[o] = store[o]
    BY <1>8, CreateFields DEF inputs
  <2>2. cur.key = 0
    BY <2>1 DEF PartsInv
  <2>3. \A o \in Objs : o > objSeq' => rows'[o].state = "none" /\ store'[o].state = "none"
    <3>1. \A o \in Objs : o > objSeq' => o > objSeq /\ o # objSeq + 1
      BY <1>0, <2>1
    <3> QED BY <2>1, <3>1 DEF CurInv
  <2>4. \A o \in Objs : o = objSeq' => rows'[o].state = "none"
    <3>1. \A o \in Objs : o = objSeq' => o > objSeq
      BY <1>0, <2>1
    <3> QED BY <2>1, <3>1 DEF CurInv
  <2>5. CurInv'
    BY <2>1, <2>3, <2>4 DEF CurInv
  <2> QED BY <2>1, <2>5 DEF Types
<1>9. CASE Tag
  <2>1. /\ pc = "tag" /\ pc' = "flush" /\ cmd \in Segs /\ objSeq # 0
        /\ UNCHANGED <<uri, tagged, sent, cmd, objSeq, store>>
        /\ cur'.key = objSeq /\ cur'.uri = uri /\ cur'.index = <<cmd>>
    BY <1>9, TagFields DEF inputs
  <2>2. cur'.index # <<>>
    BY <2>1
  <2>3. \A o \in Objs : o > objSeq => o # objSeq
    BY <1>0
  <2>4. \A o \in Objs : o = objSeq => rows[o].state = "none"
    BY <2>1 DEF CurInv
  <2>5. CASE cur'.row = objSeq /\ rows' = [rows EXCEPT ![objSeq] = RecordStart(cmd)]
    <3>1. /\ rows' \in [Objs -> RowType]
          /\ \A o \in Objs : o # objSeq => rows'[o] = rows[o]
          /\ \A o \in Objs : o = objSeq =>
               rows'[o].state = "open" /\ rows'[o].uri = uri /\ rows'[o].index = <<>>
      BY <2>1, <2>5, StartedRows
    <3>2. \A o \in Objs : o > objSeq' => rows'[o].state = "none" /\ store'[o].state = "none"
      BY <2>1, <2>3, <3>1 DEF CurInv
    <3>3. \A o \in Objs : rows'[o].state # "complete" => rows'[o].index = <<>>
      BY <3>1 DEF CurInv
    <3>4. CurInv'
      BY <2>1, <2>2, <2>5, <3>1, <3>2, <3>3 DEF CurInv
    <3> QED BY <2>1, <3>1, <3>4 DEF Types
  <2>6. CASE cur'.row = 0 /\ rows' = rows
    <3>1. CurInv'
      BY <1>0, <2>1, <2>2, <2>4, <2>6 DEF CurInv
    <3> QED BY <2>1, <2>6, <3>1 DEF Types
  <2> QED BY <1>9, <2>5, <2>6, TagFields
<1>10. CASE Flush \/ FlushLast
  <2>1. /\ UNCHANGED <<uri, tagged, sent, cmd, rows, objSeq>> /\ pc' # "tag" /\ (pc' = "flush" => pc = "flush")
        /\ \A o \in Objs : store'[o].state = store[o].state
        /\ cur'.key = cur.key /\ cur'.row = cur.row /\ cur'.uri = cur.uri /\ cur'.index = cur.index
    BY <1>10, FlushFields DEF inputs
  <2>2. CurInv'
    BY <1>s, <2>1
  <2> QED BY <2>1, <2>2 DEF Types
<1>11. CASE Complete
  <2>1. /\ UNCHANGED <<uri, tagged, sent, cmd, cur, rows, objSeq>> /\ pc' \notin {"tag", "flush"} /\ cur.key # 0
        /\ \A o \in Objs : o # cur.key => store'[o] = store[o]
    BY <1>11, CompleteFields DEF inputs
  <2>2. \A o \in Objs : o > objSeq => o # cur.key
    BY <1>0, <2>1 DEF PartsInv
  <2>3. CurInv'
    BY <2>1, <2>2 DEF CurInv
  <2> QED BY <2>1, <2>3 DEF Types
<1>12. ASSUME cur' = Nil, UNCHANGED <<uri, tagged, sent, objSeq>>, pc' \notin {"tag", "flush"}, cur.key # 0,
              rows' \in [Objs -> RowType],
              \A o \in Objs : o # cur.row => rows'[o] = rows[o],
              \A o \in Objs : o = cur.row /\ rows'[o].state # "complete" => rows'[o].index = <<>>,
              \A o \in Objs : o # cur.key => store'[o] = store[o]
       PROVE  Types' /\ CurInv'
  <2>1. cur'.key = 0 /\ cur'.row = 0 /\ cur'.index = <<>> /\ cur'.uri = 0
    BY <1>12 DEF Nil
  <2>2. 0 \in Uris
    BY UploaderAssumption DEF Uris
  <2>3. \A o \in Objs : o > objSeq => o # cur.key /\ o # cur.row
    BY <1>0, <1>12 DEF PartsInv, CurInv
  <2>4. \A o \in Objs : o > objSeq' => rows'[o].state = "none" /\ store'[o].state = "none"
    BY <1>12, <2>3 DEF CurInv
  <2>5. \A o \in Objs : rows'[o].state # "complete" => rows'[o].index = <<>>
    BY <1>12 DEF CurInv
  <2>6. CurInv'
    BY <1>0, <1>12, <2>1, <2>4, <2>5 DEF CurInv
  <2> QED BY <1>12, <2>1, <2>2, <2>6 DEF Types
<1>13. CASE Record
  <2>1. /\ cur' = Nil /\ UNCHANGED <<uri, tagged, sent, objSeq, store>> /\ pc' \notin {"tag", "flush"} /\ cur.key # 0
    BY <1>13, RecordFields DEF inputs
  <2>2. CASE rows' = rows
    BY <1>0, <1>12, <2>1, <2>2 DEF CurInv
  <2>3. CASE rows' = [rows EXCEPT ![cur.row] = RecordComplete(@, cur.index)]
    <3>1. cur.index # <<>>
      BY <2>1 DEF CurInv
    <3>2. /\ rows' \in [Objs -> RowType]
          /\ \A o \in Objs : o # cur.row => rows'[o] = rows[o]
          /\ \A o \in Objs : o = cur.row => rows'[o].state = "complete"
      BY <2>3, <3>1, RecordedRows
    <3> QED BY <1>12, <2>1, <3>2
  <2> QED BY <1>13, <2>2, <2>3, RecordFields
<1>14. CASE Abort
  <2>1. /\ cur' = Nil /\ UNCHANGED <<uri, tagged, sent, objSeq>> /\ cur.key # 0
        /\ \A o \in Objs : o # cur.key => store'[o] = store[o]
        /\ rows' = rows \/ rows' = RowsWithoutCurrent
    BY <1>14, AbortFields DEF inputs
  <2>2. pc' \notin {"tag", "flush"}
    BY <1>14, AbortFields DEF AfterAbort
  <2>3. /\ rows' \in [Objs -> RowType]
        /\ \A o \in Objs : o # cur.row => rows'[o] = rows[o]
        /\ \A o \in Objs : o = cur.row => rows'[o] = rows[o] \/ rows'[o] = NoRow
        /\ NoRow.index = <<>>
    BY <2>1, AbortedRows
  <2>4. \A o \in Objs : o = cur.row /\ rows'[o].state # "complete" => rows'[o].index = <<>>
    BY <2>3 DEF CurInv
  <2> QED BY <1>12, <2>1, <2>2, <2>3, <2>4
<1>15. CASE Crash
  <2>1. /\ cur' = Nil /\ UNCHANGED <<uri, tagged, sent, objSeq, rows, store>> /\ pc' \notin {"tag", "flush"}
    BY <1>15 DEF Crash, inputs
  <2>2. cur'.key = 0 /\ cur'.row = 0 /\ cur'.index = <<>> /\ cur'.uri = 0
    BY <2>1 DEF Nil
  <2>3. 0 \in Uris
    BY UploaderAssumption DEF Uris
  <2>4. CurInv'
    BY <1>0, <2>1, <2>2 DEF CurInv
  <2> QED BY <2>1, <2>2, <2>3, <2>4 DEF Types
<1> QED BY <1>2, <1>3, <1>4, <1>5, <1>6, <1>7, <1>8, <1>9, <1>10, <1>11, <1>13, <1>14, <1>15
        DEF Next, Loop

-----------------------------------------------------------------------------
(***************************************************************************)
(* How segments move between the places they can be in.                    *)
(***************************************************************************)
\* No segment moves.
Stay ==
  /\ sent' = sent /\ Queued' = Queued /\ Hand' = Hand /\ InCur' = InCur
  /\ \A o \in Objs : (InRow(o))' = InRow(o)

\* A segment that was not sent before is queued.
Arrives(i) ==
  /\ i \notin sent /\ sent' = sent \cup {i} /\ Queued' = Queued \cup {i}
  /\ Hand' = Hand /\ InCur' = InCur /\ \A o \in Objs : (InRow(o))' = InRow(o)

\* The loop takes a segment off the queue, and holds it or appends it at once.
Leaves(i) ==
  /\ i \in Queued /\ Queued' = Queued \ {i} /\ sent' = sent /\ Hand = {}
  /\ \A o \in Objs : (InRow(o))' = InRow(o)
  /\ \/ Hand' = {i} /\ InCur' = InCur
     \/ Hand' = {} /\ InCur' = InCur \cup {i}

\* The segment the loop holds becomes the first of a new object.
Begins ==
  /\ sent' = sent /\ Queued' = Queued /\ Hand' = {} /\ InCur = {} /\ InCur' = Hand
  /\ \A o \in Objs : (InRow(o))' = InRow(o)

\* The segments of the object being written get into its row.
Settles(p) ==
  /\ sent' = sent /\ Queued' = Queued /\ Hand' = Hand /\ InCur' = {}
  /\ InRow(p) = {} /\ (InRow(p))' = InCur
  /\ \A o \in Objs : o # p => (InRow(o))' = InRow(o)

\* Segments are lost: a call failed or the node died.
Loses ==
  /\ sent' = sent /\ Queued' \subseteq Queued /\ Hand' \subseteq Hand /\ InCur' \subseteq InCur
  /\ \A o \in Objs : (InRow(o))' \subseteq InRow(o)
  /\ \/ pc' = "dead" \/ pc = "abort" \/ Fault
     \/ cur.key # 0 /\ (cur.row = 0 \/ cur.key \notin Objs)

\* What is queued depends on the queue only, and so on.
LEMMA SamePlaces ==
  /\ queue' = queue => Queued' = Queued
  /\ cur'.index = cur.index => InCur' = InCur
  /\ rows' = rows => \A o \in Objs : (InRow(o))' = InRow(o)
  /\ UNCHANGED <<pc, cmd>> => Hand' = Hand
BY DEF Queued, InCur, InRow, Hand

\* The loop takes the first queued segment, which is queued once.
LEMMA TakeLeaves ==
  ASSUME Shape, PartsInv, Types, CurInv, Apart, TakeSegment
  PROVE  Head(queue) \in Segs /\ Leaves(Head(queue))
<1>0. /\ queue \in Seq({Cutover} \cup Segs) /\ cur.index \in Seq(Segs)
      /\ Cutover \notin Segs
  BY UploaderAssumption DEF Shape, Cutover, Segs
<1> DEFINE i == Head(queue)
<1>1. /\ pc = "idle" /\ cmd' \in Segs /\ queue # <<>> /\ cmd' = i /\ queue' = Tail(queue)
      /\ UNCHANGED <<sent, rows>>
      /\ \/ pc' \in {"last", "create"} /\ cur' = cur
         \/ pc' = "flush" /\ cur'.index = Append(cur.index, cmd')
  BY TakeSegmentFields DEF inputs
<1>2. /\ i = queue[1] /\ 1 \in 1 .. Len(queue) /\ Len(queue) \in Nat
      /\ \A k \in 1 .. Len(queue') : queue'[k] = queue[k + 1] /\ k + 1 \in 1 .. Len(queue)
      /\ ToSet(queue) = {i} \cup ToSet(queue') /\ queue' \in Seq({Cutover} \cup Segs)
  BY <1>0, <1>1, SetOfTail
<1> HIDE DEF i
<1>3. i \in Segs /\ i # Cutover
  BY <1>0, <1>1
<1>4. i \notin ToSet(queue')
  <2> SUFFICES ASSUME NEW k \in DOMAIN queue', queue'[k] = i PROVE FALSE
    BY DEF ToSet
  <2>1. k \in 1 .. Len(queue')
    BY <1>2
  <2>2. queue[k + 1] = queue[1] /\ queue[k + 1] # Cutover /\ k + 1 \in 1 .. Len(queue)
    BY <1>2, <1>3, <2>1
  <2>3. k + 1 = 1
    BY <1>2, <2>2 DEF Apart
  <2> QED BY <2>1, <2>3
<1>5. i \in Queued /\ Queued' = Queued \ {i}
  BY <1>2, <1>3, <1>4 DEF Queued
<1>6. Hand = {}
  BY <1>1 DEF Hand
<1>7. CASE pc' \in {"last", "create"} /\ cur' = cur
  <2>1. Hand' = {i}
    BY <1>1, <1>3, <1>7 DEF Hand
  <2>2. Leaves(i)
    BY <1>1, <1>5, <1>6, <1>7, <2>1, SamePlaces DEF Leaves
  <2> QED BY <1>3, <2>2 DEF i
<1>8. CASE pc' = "flush" /\ cur'.index = Append(cur.index, cmd')
  <2>1. Hand' = {}
    BY <1>8 DEF Hand
  <2>2. InCur' = InCur \cup {i}
    BY <1>0, <1>1, <1>8, SetOfAppend DEF InCur
  <2>3. Leaves(i)
    BY <1>1, <1>5, <1>6, <2>1, <2>2, SamePlaces DEF Leaves
  <2> QED BY <1>3, <2>3 DEF i
<1> QED BY <1>1, <1>7, <1>8

\* Every step moves segments in one of these ways.
LEMMA Moves ==
  ASSUME Shape, PartsInv, Types, CurInv, Apart, [Next]_vars
  PROVE  \/ Stay \/ Begins \/ Loses
         \/ \E i \in Segs : Arrives(i) \/ Leaves(i)
         \/ \E p \in Objs : p = cur.row /\ Settles(p)
<1>0. /\ queue \in Seq({Cutover} \cup Segs) /\ cur.index \in Seq(Segs)
      /\ Cutover \notin Segs /\ End \notin Segs
  BY UploaderAssumption DEF Shape, Cutover, End, Segs
<1>1. CASE SetLivestreamURI \/ Close \/ UNCHANGED vars
  <2>1. UNCHANGED <<queue, cur, rows, pc, cmd, sent>>
    BY <1>1 DEF SetLivestreamURI, Close, vars
  <2> QED BY <2>1, SamePlaces DEF Stay
<1>2. ASSUME NEW i \in Segs, AddSegment(i) PROVE Arrives(i)
  <2>1. UNCHANGED <<cur, rows, pc, cmd>> /\ i \notin sent /\ sent' = sent \cup {i} /\ queue' = Append(queue, i)
    BY <1>2 DEF AddSegment
  <2>2. ToSet(queue') = ToSet(queue) \cup {i}
    BY <1>0, <2>1, SetOfAppend
  <2>3. Queued' = Queued \cup {i}
    BY <1>0, <2>2 DEF Queued
  <2> QED BY <2>1, <2>3, SamePlaces DEF Arrives
<1>3. CASE AskCutover
  <2>1. UNCHANGED <<cur, rows, pc, cmd, sent>> /\ queue' = Append(queue, Cutover)
    BY <1>3 DEF AskCutover
  <2>2. ToSet(queue') = ToSet(queue) \cup {Cutover}
    BY <1>0, <2>1, SetOfAppend
  <2>3. Queued' = Queued
    BY <2>2 DEF Queued
  <2> QED BY <2>1, <2>3, SamePlaces DEF Stay
<1>4. CASE GrowsOld
  <2>1. UNCHANGED <<queue, rows, pc, cmd, sent>> /\ cur'.index = cur.index
    BY <1>4, GrowsOldFields DEF GrowsOld, inputs
  <2> QED BY <2>1, SamePlaces DEF Stay
<1>5. CASE TakeSegment
  BY <1>5, TakeLeaves
<1>6. CASE TakeCutover
  <2>1. /\ UNCHANGED <<cur, rows, sent>> /\ queue # <<>> /\ Head(queue) = Cutover /\ queue' = Tail(queue)
        /\ pc = "idle" /\ cmd' = Cutover
    BY <1>6 DEF TakeCutover, inputs
  <2>2. ToSet(queue) = {Head(queue)} \cup ToSet(Tail(queue))
    BY <1>0, <2>1, SetOfTail
  <2>3. Queued' = Queued
    BY <2>1, <2>2 DEF Queued
  <2>4. Hand' = Hand
    BY <1>0, <2>1 DEF Hand
  <2> QED BY <2>1, <2>3, <2>4, SamePlaces DEF Stay
<1>7. CASE TakeEnd
  <2>1. UNCHANGED <<queue, cur, rows, sent>> /\ pc = "idle" /\ cmd' = End
    BY <1>7 DEF TakeEnd, inputs
  <2>2. Hand' = Hand
    BY <1>0, <2>1 DEF Hand
  <2> QED BY <2>1, <2>2, SamePlaces DEF Stay
<1>8. CASE Flushed
  <2>1. UNCHANGED <<queue, cur, rows, sent, cmd>> /\ pc = "flush" /\ pc' = "idle"
    BY <1>8 DEF Flushed, inputs
  <2>2. Hand' = Hand
    BY <2>1 DEF Hand
  <2> QED BY <2>1, <2>2, SamePlaces DEF Stay
<1>9. CASE Create
  <2>1. UNCHANGED <<queue, cur, rows, sent, cmd>> /\ pc = "create" /\ (pc' = "tag" \/ (pc' = "idle" /\ Fault))
    BY <1>9, CreateFields DEF inputs
  <2>2. CASE pc' = "tag"
    <3>1. Hand' = Hand
      BY <2>1, <2>2 DEF Hand
    <3> QED BY <2>1, <3>1, SamePlaces DEF Stay
  <2>3. CASE pc' = "idle" /\ Fault
    <3>1. Hand' = {}
      BY <2>3 DEF Hand
    <3> QED BY <2>1, <2>3, <3>1, SamePlaces DEF Loses
  <2> QED BY <2>1, <2>2, <2>3
<1>10. CASE Tag
  <2>1. /\ pc = "tag" /\ pc' = "flush" /\ cmd \in Segs /\ cur.key = 0
        /\ UNCHANGED <<queue, cmd, objSeq, sent>> /\ cur'.index = <<cmd>>
        /\ rows' = [rows EXCEPT ![objSeq] = RecordStart(cmd)] \/ rows' = rows
    BY <1>10, TagFields DEF inputs
  <2>2. Hand = {cmd} /\ Hand' = {}
    BY <2>1 DEF Hand
  <2>3. InCur = {}
    <3>1. cur.index = <<>>
      BY <2>1 DEF CurInv
    <3> QED BY <3>1, SetOfEmpty DEF InCur
  <2>4. InCur' = {cmd}
    <3>1. ToSet(<<cmd>>) = {cmd}
      BY DEF ToSet
    <3> QED BY <2>1, <3>1 DEF InCur
  <2>5. \A o \in Objs : (InRow(o))' = InRow(o)
    <3>1. CASE rows' = rows
      BY <3>1, SamePlaces
    <3>2. CASE rows' = [rows EXCEPT ![objSeq] = RecordStart(cmd)]
      <4>1. /\ \A o \in Objs : o # objSeq => rows'[o] = rows[o]
            /\ \A o \in Objs : o = objSeq => rows'[o].index = <<>>
        BY <2>1, <3>2, StartedRows
      <4>2. \A o \in Objs : o = objSeq => rows[o].index = <<>>
        <5>1. \A o \in Objs : o = objSeq => rows[o].state = "none"
          BY <2>1 DEF CurInv
        <5> QED BY <5>1 DEF CurInv
      <4> QED BY <4>1, <4>2 DEF InRow
    <3> QED BY <2>1, <3>1, <3>2
  <2>6. Begins
    BY <2>1, <2>2, <2>3, <2>4, <2>5, SamePlaces DEF Begins
  <2> QED BY <2>6
<1>11. CASE Flush \/ FlushLast
  <2>1. /\ UNCHANGED <<queue, rows, sent, cmd>> /\ cur'.index = cur.index
        /\ \/ pc' = "abort" /\ Fault
           \/ pc = "flush" /\ pc' = "flush"
           \/ pc = "last" /\ pc' = "complete"
    BY <1>11, FlushFields DEF inputs
  <2>2. CASE pc' = "abort" /\ Fault
    <3>1. Hand' = {}
      BY <2>2 DEF Hand
    <3> QED BY <2>1, <2>2, <3>1, SamePlaces DEF Loses
  <2>3. CASE (pc = "flush" /\ pc' = "flush") \/ (pc = "last" /\ pc' = "complete")
    <3>1. Hand' = Hand
      BY <2>1, <2>3 DEF Hand
    <3> QED BY <2>1, <3>1, SamePlaces DEF Stay
  <2> QED BY <2>1, <2>2, <2>3
<1>12. CASE Complete
  <2>1. /\ UNCHANGED <<queue, cur, rows, sent, cmd>> /\ pc = "complete"
        /\ (pc' = "abort" /\ Fault) \/ pc' = "record"
    BY <1>12, CompleteFields DEF inputs
  <2>2. CASE pc' = "abort" /\ Fault
    <3>1. Hand' = {}
      BY <2>2 DEF Hand
    <3> QED BY <2>1, <2>2, <3>1, SamePlaces DEF Loses
  <2>3. CASE pc' = "record"
    <3>1. Hand' = Hand
      BY <2>1, <2>3 DEF Hand
    <3> QED BY <2>1, <3>1, SamePlaces DEF Stay
  <2> QED BY <2>1, <2>2, <2>3
<1>13. CASE Record
  <2>1. /\ pc = "record" /\ UNCHANGED <<queue, sent, cmd>> /\ cur' = Nil /\ cur.key # 0
        /\ (cmd \in Segs /\ pc' = "create") \/ cmd \notin Segs
        /\ \/ rows' = [rows EXCEPT ![cur.row] = RecordComplete(@, cur.index)] /\ cur.row # 0
           \/ rows' = rows /\ cur.row = 0
           \/ rows' = rows /\ Fault
    BY <1>13, RecordFields DEF inputs
  <2>2. Hand' = Hand
    BY <2>1 DEF Hand
  <2>3. InCur' = {}
    BY <2>1, SetOfEmpty DEF InCur, Nil
  <2>4. CASE rows' = rows /\ (cur.row = 0 \/ Fault)
    BY <2>1, <2>2, <2>3, <2>4, SamePlaces DEF Loses
  <2>5. CASE rows' = [rows EXCEPT ![cur.row] = RecordComplete(@, cur.index)] /\ cur.row # 0
    <3>1. cur.index # <<>> /\ cur.row = cur.key
      BY <2>1, <2>5 DEF CurInv
    <3>2. /\ \A o \in Objs : o # cur.row => rows'[o] = rows[o]
          /\ \A o \in Objs : o = cur.row => rows'[o].index = cur.index
      BY <2>5, <3>1, RecordedRows
    <3>3. CASE cur.row \in Objs
      <4>1. rows[cur.row].index = <<>>
        <5>1. rows[cur.row].state = "open"
          BY <3>3 DEF CurInv
        <5> QED BY <3>3, <5>1 DEF CurInv
      <4>2. InRow(cur.row) = {}
        BY <4>1, SetOfEmpty DEF InRow
      <4>5. PICK q \in Objs : q = cur.row
        BY <3>3
      <4>6. Settles(q)
        <5>1. (InRow(q))' = InCur
          BY <3>2, <4>5 DEF InRow, InCur
        <5>2. InRow(q) = {}
          BY <4>2, <4>5
        <5>3. \A o \in Objs : o # q => (InRow(o))' = InRow(o)
          BY <3>2, <4>5 DEF InRow
        <5> QED BY <2>1, <2>2, <2>3, <5>1, <5>2, <5>3, SamePlaces DEF Settles
      <4> QED BY <4>5, <4>6
    <3>4. CASE cur.row \notin Objs
      <4>1. \A o \in Objs : (InRow(o))' = InRow(o)
        BY <3>2, <3>4 DEF InRow
      <4>2. cur.key \notin Objs
        BY <3>1, <3>4
      <4> QED BY <2>1, <2>2, <2>3, <4>1, <4>2, SamePlaces DEF Loses
    <3> QED BY <3>3, <3>4
  <2> QED BY <2>1, <2>4, <2>5
<1>14. CASE Abort
  <2>1. /\ pc = "abort" /\ UNCHANGED <<queue, sent, cmd>> /\ cur' = Nil /\ pc' = AfterAbort
        /\ rows' = rows \/ rows' = RowsWithoutCurrent
    BY <1>14, AbortFields DEF inputs
  <2>2. Hand' = {}
    BY <2>1 DEF Hand, AfterAbort
  <2>3. InCur' = {}
    BY <2>1, SetOfEmpty DEF InCur, Nil
  <2>4. ASSUME NEW o \in Objs PROVE (InRow(o))' \subseteq InRow(o)
    <3>1. rows'[o] = rows[o] \/ rows'[o] = NoRow
      BY <2>1, AbortedRows
    <3>2. NoRow.index = <<>>
      BY DEF NoRow
    <3> QED BY <3>1, <3>2, SetOfEmpty DEF InRow
  <2> QED BY <2>1, <2>2, <2>3, <2>4, SamePlaces DEF Loses
<1>15. CASE Crash
  <2>1. pc' = "dead" /\ UNCHANGED <<sent, rows>> /\ cur' = Nil /\ queue' = <<>>
    BY <1>15 DEF Crash, inputs
  <2>2. Hand' = {} /\ InCur' = {} /\ Queued' = {}
    BY <2>1, SetOfEmpty DEF Hand, InCur, Queued, Nil
  <2> QED BY <2>1, <2>2, SamePlaces DEF Loses
<1> QED BY <1>1, <1>2, <1>3, <1>4, <1>5, <1>6, <1>7, <1>8, <1>9, <1>10, <1>11, <1>12, <1>13, <1>14, <1>15
        DEF Next, Loop

\* No segment is queued twice.
LEMMA QueueStep ==
  ASSUME Shape, Apart, [Next]_vars
  PROVE  \A k, l \in 1 .. Len(queue') : queue'[k] = queue'[l] /\ queue'[k] # Cutover => k = l
<1>0. queue \in Seq({Cutover} \cup Segs) /\ Len(queue) \in Nat
  BY DEF Shape
<1>1. CASE queue' = queue
  BY <1>1 DEF Apart
<1>2. CASE queue' = <<>>
  BY <1>2
<1>3. CASE queue # <<>> /\ queue' = Tail(queue)
  <2>1. \A k \in 1 .. Len(queue') : queue'[k] = queue[k + 1] /\ k + 1 \in 1 .. Len(queue)
    BY <1>0, <1>3, SetOfTail
  <2> SUFFICES ASSUME NEW k \in 1 .. Len(queue'), NEW l \in 1 .. Len(queue'),
                      queue'[k] = queue'[l], queue'[k] # Cutover
               PROVE  k = l
    OBVIOUS
  <2>2. k + 1 = l + 1
    BY <2>1 DEF Apart
  <2>3. k \in Int /\ l \in Int
    OBVIOUS
  <2> QED BY <2>2, <2>3
<1>4. ASSUME NEW x \in {Cutover} \cup Segs, queue' = Append(queue, x), x = Cutover \/ x \notin sent
      PROVE  \A k, l \in 1 .. Len(queue') : queue'[k] = queue'[l] /\ queue'[k] # Cutover => k = l
  <2>1. /\ Len(queue') = Len(queue) + 1
        /\ \A k \in 1 .. Len(queue) : queue'[k] = queue[k]
        /\ queue'[Len(queue) + 1] = x
    BY <1>0, <1>4, AppendProperties
  <2>2. \A k \in 1 .. Len(queue) : queue[k] # Cutover => queue[k] \in sent
    <3>1. \A k \in 1 .. Len(queue) : queue[k] # Cutover => queue[k] \in Queued
      BY <1>0 DEF Queued, ToSet
    <3> QED BY <3>1 DEF Apart
  <2>3. \A k \in 1 .. Len(queue') : k \in 1 .. Len(queue) \/ k = Len(queue) + 1
    BY <1>0, <2>1
  <2> SUFFICES ASSUME NEW k \in 1 .. Len(queue'), NEW l \in 1 .. Len(queue'),
                      queue'[k] = queue'[l], queue'[k] # Cutover
               PROVE  k = l
    OBVIOUS
  <2>4. CASE k \in 1 .. Len(queue) /\ l \in 1 .. Len(queue)
    BY <2>1, <2>4 DEF Apart
  <2>5. CASE k = Len(queue) + 1 /\ l \in 1 .. Len(queue)
    BY <1>4, <2>1, <2>2, <2>5
  <2>6. CASE l = Len(queue) + 1 /\ k \in 1 .. Len(queue)
    BY <1>4, <2>1, <2>2, <2>6
  <2> QED BY <2>3, <2>4, <2>5, <2>6
<1>5. CASE AskCutover
  BY <1>4, <1>5 DEF AskCutover
<1>6. ASSUME NEW i \in Segs, AddSegment(i)
      PROVE  \A k, l \in 1 .. Len(queue') : queue'[k] = queue'[l] /\ queue'[k] # Cutover => k = l
  <2>1. queue' = Append(queue, i) /\ i \notin sent
    BY <1>6 DEF AddSegment
  <2> QED BY <1>4, <2>1
<1>7. CASE TakeSegment \/ TakeCutover
  BY <1>3, <1>7 DEF TakeSegment, TakeCutover
<1>8. CASE Crash
  BY <1>2, <1>8 DEF Crash
<1>9. CASE \/ TakeEnd \/ Create \/ Tag \/ Flush \/ Flushed \/ FlushLast \/ Complete \/ Record \/ Abort
           \/ SetLivestreamURI \/ Close \/ GrowsOld \/ UNCHANGED vars
  BY <1>1, <1>9 DEF TakeEnd, Create, Tag, Flush, Flushed, FlushLast, Complete, Record, Abort,
                    SetLivestreamURI, Close, GrowsOld, vars
<1> QED BY <1>5, <1>6, <1>7, <1>8, <1>9 DEF Next, Loop

\* Every step keeps the segments apart.
LEMMA ApartStep ==
  ASSUME Shape, PartsInv, Types, CurInv, Apart, [Next]_vars
  PROVE  Apart'
<1> DEFINE Sets ==
  /\ Queued \subseteq sent /\ Hand \subseteq sent /\ InCur \subseteq sent
  /\ \A o \in Objs : InRow(o) \subseteq sent
  /\ Queued \cap Hand = {} /\ Queued \cap InCur = {} /\ Hand \cap InCur = {}
  /\ \A o \in Objs : InRow(o) \cap Queued = {} /\ InRow(o) \cap Hand = {} /\ InRow(o) \cap InCur = {}
  /\ \A o, p \in Objs : o # p => InRow(o) \cap InRow(p) = {}
<1>0. Sets
  BY DEF Apart
<1>1. Sets'
  <2>1. CASE Stay
    BY <1>0, <2>1 DEF Stay
  <2>2. CASE Begins
    BY <1>0, <2>2 DEF Begins
  <2>3. CASE Loses
    BY <1>0, <2>3 DEF Loses
  <2>4. ASSUME NEW i \in Segs, Arrives(i) PROVE Sets'
    BY <1>0, <2>4 DEF Arrives
  <2>5. ASSUME NEW i \in Segs, Leaves(i) PROVE Sets'
    BY <1>0, <2>5 DEF Leaves
  <2>6. ASSUME NEW p \in Objs, Settles(p) PROVE Sets'
    BY <1>0, <2>6 DEF Settles
  <2> QED BY <2>1, <2>2, <2>3, <2>4, <2>5, <2>6, Moves
<1>2. pc' \in {"flush", "abort"} /\ cmd' \in Segs => cmd' \in sent'
  <2>1. sent \subseteq sent'
    <3>1. ASSUME NEW i \in Segs, Arrives(i) \/ Leaves(i) PROVE sent \subseteq sent'
      BY <3>1 DEF Arrives, Leaves
    <3> QED BY <3>1, Moves DEF Stay, Begins, Loses, Settles
  <2>2. CASE UNCHANGED <<pc, cmd>>
    BY <2>1, <2>2 DEF Apart
  <2>3. CASE pc' \notin {"flush", "abort"}
    BY <2>3
  <2>4. CASE TakeSegment
    <3>1. cmd' = Head(queue) /\ queue # <<>> /\ cmd' \in Segs
      BY <2>4, TakeSegmentFields
    <3>2. queue \in Seq({Cutover} \cup Segs) /\ Cutover \notin Segs
      BY DEF Shape, Cutover, Segs
    <3>3. Head(queue) \in ToSet(queue)
      BY <3>1, <3>2, SetOfTail
    <3>4. cmd' \in Queued
      BY <3>1, <3>2, <3>3 DEF Queued
    <3> QED BY <2>1, <3>4 DEF Apart
  <2>5. CASE Tag \/ Flush \/ FlushLast \/ Complete
    <3>1. cmd' = cmd
      BY <2>5 DEF Tag, Flush, FlushLast, Complete
    <3>2. pc \in {"tag", "flush", "last", "complete"}
      BY <2>5 DEF Tag, Flush, FlushLast, Complete
    <3>3. cmd \in Segs => cmd \in sent
      BY <3>2 DEF Apart, Hand
    <3> QED BY <2>1, <3>1, <3>3
  <2>6. CASE SetLivestreamURI \/ AskCutover \/ Close \/ GrowsOld \/ UNCHANGED vars
    BY <2>2, <2>6 DEF SetLivestreamURI, AskCutover, Close, GrowsOld, vars
  <2>7. ASSUME NEW i \in Segs, AddSegment(i) PROVE UNCHANGED <<pc, cmd>>
    BY <2>7 DEF AddSegment
  <2>8. CASE TakeCutover \/ TakeEnd \/ Create \/ Flushed \/ Record \/ Abort \/ Crash
    <3>1. pc' \notin {"flush", "abort"}
      BY <2>8, CreateFields, RecordFields DEF TakeCutover, TakeEnd, Create, Flushed, Abort, AfterAbort, Crash
    <3> QED BY <3>1
  <2> QED BY <2>2, <2>4, <2>5, <2>6, <2>7, <2>8 DEF Next, Loop
<1>3. \A k, l \in 1 .. Len(queue') : queue'[k] = queue'[l] /\ queue'[k] # Cutover => k = l
  BY QueueStep
<1> QED BY <1>1, <1>2, <1>3 DEF Apart

\* A new uploader has no segments.
LEMMA PlacesInit == Init => Types /\ CurInv /\ Apart
<1> SUFFICES ASSUME Init PROVE Types /\ CurInv /\ Apart
  OBVIOUS
<1>1. /\ cur.key = 0 /\ cur.row = 0 /\ cur.index = <<>> /\ cur.uri = 0
      /\ queue = <<>> /\ sent = {} /\ pc = "idle" /\ uri = 0
  BY DEF Init, Nil
<1>2. \A o \in Objs : /\ rows[o].state = "none" /\ rows[o].index = <<>>
                      /\ store[o].state = "none" /\ o # 0
  BY DEF Init, NoRow, Objs
<1>3. Types
  <2>1. 0 \in Uris
    BY UploaderAssumption DEF Uris
  <2>2. NoRow \in RowType
    BY <2>1 DEF NoRow, RowType
  <2> QED BY <1>1, <2>1, <2>2 DEF Types, Init
<1>4. CurInv
  BY <1>1, <1>2 DEF CurInv
<1>5. Queued = {} /\ Hand = {} /\ InCur = {} /\ \A o \in Objs : InRow(o) = {}
  BY <1>1, <1>2, SetOfEmpty DEF Queued, Hand, InCur, InRow
<1>6. Apart
  BY <1>1, <1>5 DEF Apart
<1> QED BY <1>3, <1>4, <1>6

-----------------------------------------------------------------------------
(***************************************************************************)
(* The livestream of an object.                                            *)
(***************************************************************************)
\* Once given to a segment that was sent, a livestream is not taken away; and
\* a segment in waiting has had every livestream since it was queued.
LEMMA TaggedStep ==
  ASSUME Shape, PartsInv, Types, CurInv, Apart, TagInv, [Next]_vars
  PROVE  TagInv'
<1>0. /\ tagged \in [Segs -> SUBSET Uris] /\ queue \in Seq({Cutover} \cup Segs)
      /\ InCur \subseteq Segs /\ \A o \in Objs : InRow(o) \subseteq Segs
  BY DEF Types, Shape, Apart
<1>1. \A i \in sent : tagged[i] \subseteq tagged'[i]
  <2>1. sent \subseteq Segs
    BY DEF Types
  <2>2. CASE SetLivestreamURI
    BY <1>0, <2>1, <2>2 DEF SetLivestreamURI
  <2>3. ASSUME NEW j \in Segs, AddSegment(j) PROVE \A i \in sent : tagged[i] \subseteq tagged'[i]
    BY <1>0, <2>1, <2>3 DEF AddSegment
  <2>4. CASE UNCHANGED tagged
    BY <2>4
  <2>5. CASE Loop \/ AskCutover \/ Close \/ GrowsOld \/ Crash \/ UNCHANGED vars
    BY <2>4, <2>5 DEF Loop, AskCutover, Close, GrowsOld, Crash, vars, inputs, TakeSegment, TakeCutover, TakeEnd,
      Create, Tag, Flush, Flushed, FlushLast, Complete, Record, Abort
  <2> QED BY <2>2, <2>3, <2>5 DEF Next
<1>2. pc' # "dead" => \A i \in Segs : i \in Pending' => uri' \in tagged'[i]
  <2> SUFFICES ASSUME pc' # "dead", NEW i \in Segs, i \in Pending' PROVE uri' \in tagged'[i]
    OBVIOUS
  <2>1. CASE SetLivestreamURI
    <3>1. Pending' = Pending
      BY <2>1 DEF SetLivestreamURI, Pending
    <3> QED BY <2>1, <3>1 DEF SetLivestreamURI
  <2>2. ASSUME NEW j \in Segs, AddSegment(j) PROVE uri' \in tagged'[i]
    <3>1. CASE i = j
      BY <1>0, <2>2, <3>1 DEF AddSegment
    <3>2. CASE i # j
      <4>1. ToSet(queue') = ToSet(queue) \cup {j}
        BY <1>0, <2>2, SetOfAppend DEF AddSegment
      <4>2. i \in Pending
        BY <2>2, <3>2, <4>1 DEF Pending, AddSegment
      <4>3. pc # "dead"
        BY <2>2 DEF AddSegment
      <4> QED BY <1>0, <2>2, <3>2, <4>2, <4>3 DEF AddSegment, TagInv
    <3> QED BY <3>1, <3>2
  <2>3. ASSUME i \in Pending, pc # "dead", UNCHANGED <<uri, tagged>> PROVE uri' \in tagged'[i]
    BY <2>3 DEF TagInv
  <2>4. CASE AskCutover \/ Close \/ GrowsOld \/ UNCHANGED vars
    <3>1. UNCHANGED <<uri, tagged, pc, cmd>>
      BY <2>4 DEF AskCutover, Close, GrowsOld, vars, inputs
    <3>2. queue' = queue \/ queue' = Append(queue, Cutover)
      BY <2>4 DEF AskCutover, Close, GrowsOld, vars
    <3>3. ToSet(queue') \subseteq ToSet(queue) \cup {Cutover}
      <4>1. Cutover \in {Cutover} \cup Segs
        OBVIOUS
      <4>2. ToSet(Append(queue, Cutover)) = ToSet(queue) \cup {Cutover}
        BY <1>0, <4>1, SetOfAppend
      <4> QED BY <3>2, <4>2
    <3>4. i # Cutover
      BY DEF Segs, Cutover
    <3>5. i \in Pending
      BY <3>1, <3>3, <3>4 DEF Pending
    <3> QED BY <2>3, <3>1, <3>5
  <2>5. CASE Loop
    <3>1. UNCHANGED <<uri, tagged>> /\ pc # "dead"
      BY <2>5 DEF Loop, inputs, TakeSegment, TakeCutover, TakeEnd,
         Create, Tag, Flush, Flushed, FlushLast, Complete, Record, Abort
    <3>2. CASE queue' = queue /\ (cmd' = cmd \/ cmd' = End) /\ (pc # "idle" \/ cmd' = End)
      <4>1. i # End
        BY UploaderAssumption DEF Segs, End
      <4>2. i \in Pending
        BY <3>2, <4>1 DEF Pending
      <4> QED BY <2>3, <3>1, <4>2
    <3>3. CASE queue # <<>> /\ queue' = Tail(queue) /\ cmd' = Head(queue)
      <4>1. ToSet(queue) = {cmd'} \cup ToSet(queue')
        BY <1>0, <3>3, SetOfTail
      <4>2. i \in Pending
        BY <4>1 DEF Pending
      <4> QED BY <2>3, <3>1, <4>2
    <3>4. CASE TakeSegment \/ TakeCutover
      BY <3>3, <3>4 DEF TakeSegment, TakeCutover
    <3>5. CASE TakeEnd
      BY <3>2, <3>5 DEF TakeEnd
    <3>6. CASE Create \/ Tag \/ Flush \/ Flushed \/ FlushLast \/ Complete \/ Record \/ Abort
      BY <3>2, <3>6 DEF Create, Tag, Flush, Flushed, FlushLast, Complete, Record, Abort
    <3> QED BY <2>5, <3>4, <3>5, <3>6 DEF Loop
  <2>6. CASE Crash
    BY <2>6 DEF Crash
  <2> QED BY <2>1, <2>2, <2>4, <2>5, <2>6 DEF Next
<1>3. \A i \in InCur' : cur'.uri \in tagged'[i]
  <2>1. ASSUME InCur' \subseteq InCur, cur'.uri = cur.uri PROVE \A i \in InCur' : cur'.uri \in tagged'[i]
    BY <1>1, <2>1 DEF TagInv, Apart
  <2>2. CASE InCur' = {}
    BY <2>2
  <2>3. CASE cur' = cur
    BY <2>1, <2>3 DEF InCur
  <2>4. CASE cur' = Nil
    BY <2>2, <2>4, SetOfEmpty DEF InCur, Nil
  <2>5. CASE GrowsOld
    BY <2>1, <2>5, GrowsOldFields DEF InCur
  <2>6. CASE Flush \/ FlushLast
    BY <2>1, <2>6, FlushFields DEF InCur
  <2>7. CASE Tag
    <3>1. /\ pc = "tag" /\ cmd \in Segs /\ UNCHANGED <<uri, tagged>>
          /\ cur'.uri = uri /\ cur'.index = <<cmd>>
      BY <2>7, TagFields DEF inputs
    <3>2. InCur' = {cmd}
      BY <3>1 DEF InCur, ToSet
    <3>3. uri \in tagged[cmd]
      BY <3>1 DEF TagInv, Pending
    <3> QED BY <3>1, <3>2, <3>3
  <2>8. CASE TakeSegment
    <3>1. CASE cur' = cur
      BY <2>3, <3>1
    <3>2. CASE cur.uri = uri /\ cur'.index = Append(cur.index, cmd')
      <4>1. cur.index \in Seq(Segs) /\ cmd' \in Segs /\ UNCHANGED <<uri, tagged>> /\ cur'.uri = cur.uri
        BY <2>8, TakeSegmentFields DEF Shape, inputs
      <4>2. InCur' = InCur \cup {cmd'}
        BY <3>2, <4>1, SetOfAppend DEF InCur
      <4>3. cmd' \in ToSet(queue) /\ pc # "dead"
        BY <1>0, <2>8, TakeSegmentFields, SetOfTail
      <4>4. uri \in tagged[cmd']
        BY <4>1, <4>3 DEF TagInv, Pending
      <4> QED BY <3>2, <4>1, <4>2, <4>4 DEF TagInv
    <3> QED BY <2>8, <3>1, <3>2, TakeSegmentFields
  <2>9. CASE \/ SetLivestreamURI \/ AskCutover \/ Close \/ UNCHANGED vars
             \/ TakeCutover \/ TakeEnd \/ Create \/ Flushed \/ Complete
    BY <2>3, <2>9 DEF SetLivestreamURI, AskCutover, Close, vars, TakeCutover, TakeEnd, Create, Flushed, Complete
  <2>10. ASSUME NEW i \in Segs, AddSegment(i) PROVE cur' = cur
    BY <2>10 DEF AddSegment
  <2>11. CASE Record \/ Abort \/ Crash
    BY <2>4, <2>11 DEF Record, Abort, Crash
  <2> QED BY <2>3, <2>5, <2>6, <2>7, <2>8, <2>9, <2>10, <2>11 DEF Next, Loop
<1>4. \A o \in Objs : \A i \in (InRow(o))' : rows'[o].uri \in tagged'[i]
  <2>1. ASSUME NEW o \in Objs, rows'[o] = rows[o] PROVE \A i \in (InRow(o))' : rows'[o].uri \in tagged'[i]
    <3>1. (InRow(o))' = InRow(o)
      BY <2>1 DEF InRow
    <3> QED BY <1>1, <2>1, <3>1 DEF TagInv, Apart
  <2>2. ASSUME NEW o \in Objs, rows'[o].index = <<>> PROVE \A i \in (InRow(o))' : rows'[o].uri \in tagged'[i]
    BY <2>2, SetOfEmpty DEF InRow
  <2>3. CASE rows' = rows
    BY <2>1, <2>3
  <2>4. CASE Tag
    <3>1. CASE rows' = [rows EXCEPT ![objSeq] = RecordStart(cmd)]
      <4>1. cmd \in Segs
        BY <2>4, TagFields
      <4>2. /\ \A o \in Objs : o # objSeq => rows'[o] = rows[o]
            /\ \A o \in Objs : o = objSeq => rows'[o].index = <<>>
        BY <3>1, <4>1, StartedRows
      <4> QED BY <2>1, <2>2, <4>2
    <3> QED BY <2>3, <2>4, <3>1 DEF Tag
  <2>5. CASE Abort
    <3>1. \A o \in Objs : rows'[o] = rows[o] \/ rows'[o] = NoRow
      BY <2>5, AbortFields, AbortedRows
    <3>2. NoRow.index = <<>>
      BY DEF NoRow
    <3> QED BY <2>1, <2>2, <3>1, <3>2
  <2>6. CASE Record
    <3>1. CASE rows' = [rows EXCEPT ![cur.row] = RecordComplete(@, cur.index)] /\ cur.row # 0
      <4>1. cur.index # <<>> /\ UNCHANGED tagged
        BY <2>6, RecordFields DEF CurInv, inputs
      <4>2. /\ \A o \in Objs : o # cur.row => rows'[o] = rows[o]
            /\ \A o \in Objs : o = cur.row => rows'[o].uri = rows[o].uri /\ rows'[o].index = cur.index
        BY <3>1, <4>1, RecordedRows
      <4>3. ASSUME NEW o \in Objs, o = cur.row PROVE \A i \in (InRow(o))' : rows'[o].uri \in tagged'[i]
        <5>1. (InRow(o))' = InCur /\ rows'[o].uri = cur.uri
          BY <4>2, <4>3 DEF InRow, InCur, CurInv
        <5> QED BY <4>1, <5>1 DEF TagInv
      <4> QED BY <2>1, <4>2, <4>3
    <3> QED BY <2>3, <2>6, <3>1, RecordFields
  <2>7. CASE \/ SetLivestreamURI \/ AskCutover \/ Close \/ GrowsOld \/ Crash \/ UNCHANGED vars
             \/ TakeSegment \/ TakeCutover \/ TakeEnd \/ Create \/ Flush \/ Flushed \/ FlushLast \/ Complete
    BY <2>3, <2>7 DEF SetLivestreamURI, AskCutover, Close, GrowsOld, Crash, vars,
       TakeSegment, TakeCutover, TakeEnd, Create, Flush, Flushed, FlushLast, Complete
  <2>8. ASSUME NEW i \in Segs, AddSegment(i) PROVE rows' = rows
    BY <2>8 DEF AddSegment
  <2> QED BY <2>3, <2>4, <2>5, <2>6, <2>7, <2>8 DEF Next, Loop
<1> QED BY <1>2, <1>3, <1>4 DEF TagInv

\* Whatever fails, and even if the node dies: the livestream an object is
\* tagged with was the stream's between the queueing and the handling of every
\* segment in its index (s3.go handleSegment, startUpload, SetLivestreamURI).
THEOREM UploaderObjectWithinLivestream == Spec => []ObjectWithinLivestream
<1> DEFINE I == Shape /\ PartsInv /\ Types /\ CurInv /\ Apart /\ TagInv
<1>1. Init => I
  <2>1. Init => TagInv
    <3> SUFFICES ASSUME Init PROVE TagInv
      OBVIOUS
    <3>1. Pending = {} /\ InCur = {} /\ \A o \in Objs : InRow(o) = {}
      BY SetOfEmpty DEF Init, Pending, InCur, InRow, Nil, NoRow
    <3> QED BY <3>1 DEF TagInv
  <2> QED BY <2>1, PartsInit, PlacesInit
<1>2. I /\ [Next]_vars => I'
  BY PartsStep, RowTypesStep, ApartStep, TaggedStep
<1>3. I => ObjectWithinLivestream
  <2> SUFFICES ASSUME I, NEW o \in Objs, NEW k \in 1 .. Len(rows[o].index)
               PROVE  rows[o].uri \in tagged[rows[o].index[k]]
    BY DEF ObjectWithinLivestream
  <2>1. rows[o].index \in Seq(Segs)
    BY DEF Types, RowType
  <2>2. rows[o].index[k] \in InRow(o)
    BY <2>1 DEF InRow, ToSet
  <2> QED BY <2>2 DEF TagInv
<1> QED BY <1>1, <1>2, <1>3, PTL DEF Spec

-----------------------------------------------------------------------------
(***************************************************************************)
(* The content of an object.  Its parts and the buffer behind them are the *)
(* indexed segments back to back.                                          *)
(***************************************************************************)
\* The bytes of no segment.
LEMMA FlatEmpty == FlattenSeq(<<>>) = <<>> /\ BytesOf(<<>>) = <<>>
BY DEF FlattenSeq, BytesOf

\* The bytes of some segments and one more.
LEMMA FlatBytes ==
  ASSUME NEW index \in Seq(Segs), NEW i \in Segs
  PROVE  /\ BytesOf(index) \in Seq(Seq(Segs))
         /\ FlattenSeq(BytesOf(Append(index, i))) = FlattenSeq(BytesOf(index)) \o Bytes(i)
<1>1. /\ Append(index, i) \in Seq(Segs) /\ Len(index) \in Nat /\ Len(Append(index, i)) = Len(index) + 1
      /\ \A k \in 1 .. Len(index) : Append(index, i)[k] = index[k]
      /\ Append(index, i)[Len(index) + 1] = i
  BY AppendProperties
<1>2. ASSUME NEW t \in Seq(Segs) PROVE BytesOf(t) \in Seq(Seq(Segs)) /\ Len(BytesOf(t)) = Len(t)
  <2>1. \A k \in 1 .. Len(t) : Bytes(t[k]) \in Seq(Segs)
    BY BytesType
  <2>2. Len(t) \in Nat
    OBVIOUS
  <2> QED BY <2>1, <2>2 DEF BytesOf
<1>3. Bytes(i) \in Seq(Segs)
  BY BytesType
<1> DEFINE a == BytesOf(Append(index, i))
           b == Append(BytesOf(index), Bytes(i))
<1>4. a = b
  <2>1. a \in Seq(Seq(Segs)) /\ Len(a) = Len(index) + 1
    BY <1>1, <1>2
  <2>2. /\ b \in Seq(Seq(Segs)) /\ Len(b) = Len(index) + 1
        /\ \A k \in 1 .. Len(index) : b[k] = BytesOf(index)[k]
        /\ b[Len(index) + 1] = Bytes(i)
    BY <1>2, <1>3, AppendProperties
  <2>3. ASSUME NEW k \in 1 .. Len(index) + 1 PROVE a[k] = b[k]
    <3>1. a[k] = Bytes(Append(index, i)[k])
      BY <1>1 DEF BytesOf
    <3>2. CASE k = Len(index) + 1
      BY <1>1, <2>2, <3>1, <3>2
    <3>3. CASE k \in 1 .. Len(index)
      <4>1. BytesOf(index)[k] = Bytes(index[k])
        BY <3>3 DEF BytesOf
      <4> QED BY <1>1, <2>2, <3>1, <3>3, <4>1
    <3>4. k = Len(index) + 1 \/ k \in 1 .. Len(index)
      BY <1>1
    <3> QED BY <3>2, <3>3, <3>4
  <2> HIDE DEF a, b
  <2> QED BY <2>1, <2>2, <2>3, SeqEqual
<1> QED BY <1>2, <1>3, <1>4, FlattenAppend

\* The bytes of a single segment.
LEMMA FlatOne ==
  ASSUME NEW i \in Segs
  PROVE  FlattenSeq(BytesOf(<<i>>)) = Bytes(i)
<1>1. <<>> \in Seq(Segs) /\ Append(<<>>, i) = <<i>>
  OBVIOUS
<1>2. FlattenSeq(BytesOf(<<i>>)) = <<>> \o Bytes(i)
  BY <1>1, FlatBytes, FlatEmpty
<1> QED BY <1>2, BytesType, ConcatEmptySeq

\* What is uploaded and what stays buffered are together what was buffered.
LEMMA SplitBuffer ==
  ASSUME NEW b \in Seq(Segs), NEW n \in 1 .. Len(b)
  PROVE  /\ SubSeq(b, 1, n) \in Seq(Segs) /\ SubSeq(b, n + 1, Len(b)) \in Seq(Segs)
         /\ SubSeq(b, 1, n) \o SubSeq(b, n + 1, Len(b)) = b
<1> DEFINE l == SubSeq(b, 1, n)
           r == SubSeq(b, n + 1, Len(b))
<1>0. n \in Nat /\ n <= Len(b) /\ Len(b) \in Nat
  OBVIOUS
<1>1. l \in Seq(Segs) /\ Len(l) = n /\ \A k \in 1 .. n : l[k] = b[k]
  BY <1>0, SubSeqProperties
<1>2. r \in Seq(Segs) /\ Len(r) = Len(b) - n /\ \A k \in 1 .. Len(b) - n : r[k] = b[n + k]
  BY <1>0, SubSeqProperties
<1> HIDE DEF l, r
<1>3. /\ l \o r \in Seq(Segs) /\ Len(l \o r) = Len(b)
      /\ \A k \in 1 .. Len(b) : (l \o r)[k] = b[k]
  <2>1. /\ l \o r \in Seq(Segs) /\ Len(l \o r) = Len(l) + Len(r)
        /\ \A k \in 1 .. Len(l) + Len(r) : (l \o r)[k] = IF k <= Len(l) THEN l[k] ELSE r[k - Len(l)]
    BY <1>1, <1>2, ConcatProperties
  <2>2. Len(l) + Len(r) = Len(b)
    BY <1>0, <1>1, <1>2
  <2>3. ASSUME NEW k \in 1 .. Len(b) PROVE (l \o r)[k] = b[k]
    <3>1. CASE k <= n
      BY <1>0, <1>1, <2>1, <2>2, <3>1
    <3>2. CASE ~ (k <= n)
      <4>1. k - n \in 1 .. Len(b) - n /\ n + (k - n) = k
        BY <1>0, <3>2
      <4>2. (l \o r)[k] = r[k - n]
        BY <1>1, <2>1, <2>2, <3>2
      <4> QED BY <1>2, <4>1, <4>2
    <3> QED BY <3>1, <3>2
  <2> QED BY <2>1, <2>2, <2>3
<1>4. l \o r = b
  BY <1>0, <1>3, SeqEqual
<1> QED BY <1>1, <1>2, <1>4 DEF l, r

\* Every step keeps the parts and the buffer in line with the index.
LEMMA ContentStep ==
  ASSUME Shape, PartsInv, Types, CurInv, ContentInv, [Next]_vars
  PROVE  ContentInv'
<1>0. /\ cur.index \in Seq(Segs) /\ cur.buf \in Seq(Segs) /\ cur.key \in Nat /\ objSeq \in Nat
      /\ \A o \in Objs : store[o].parts \in Seq(Seq(Segs))
      /\ \A o \in Objs : o \in Nat /\ o # 0
  <2>1. cur.index \in Seq(Segs) /\ cur.buf \in Seq(Segs) /\ cur.key \in Nat /\ objSeq \in Nat
    BY DEF Shape
  <2>2. \A o \in Objs : store[o].parts \in Seq(Seq(Segs))
    BY DEF Shape
  <2>3. \A o \in Objs : o \in Nat /\ o # 0
    BY DEF Objs
  <2> QED BY <2>1, <2>2, <2>3
<1> DEFINE Done(o) == rows[o].state = "complete" =>
               /\ store[o].state = "object"
               /\ FlattenSeq(store[o].parts) = FlattenSeq(BytesOf(rows[o].index))
               /\ \A i \in InRow(o) : rows[o].start <= i
           Good(o) == FlattenSeq(store[o].parts) \o cur.buf = FlattenSeq(BytesOf(cur.index))
<1>d. ASSUME NEW o \in Objs, rows'[o] = rows[o], store'[o] = store[o] PROVE (Done(o))'
  BY <1>d DEF ContentInv, InRow
<1>n. ASSUME NEW o \in Objs, rows'[o].state # "complete" PROVE (Done(o))'
  BY <1>n
<1>k. ASSUME NEW o \in Objs, o = cur.key PROVE rows[o].state # "complete"
  BY <1>k, <1>0 DEF CurInv
<1>s. ASSUME cur'.key = cur.key, cur'.buf = cur.buf, cur'.index = cur.index,
             \A o \in Objs : store'[o].parts = store[o].parts
      PROVE  \A o \in Objs : o = cur'.key => (Good(o))'
  BY <1>s DEF ContentInv
<1>z. ASSUME cur'.key = 0
      PROVE  \A o \in Objs : o = cur'.key => (Good(o))'
  BY <1>0, <1>z
<1> HIDE DEF Done, Good
<1>q. ASSUME \A o \in Objs : (Done(o))', \A o \in Objs : o = cur'.key => (Good(o))',
             pc' \in {"complete", "record"} => cur'.buf = <<>>,
             pc' = "record" => \A o \in Objs : o = cur'.key => store'[o].state = "object"
      PROVE  ContentInv'
  BY <1>q DEF ContentInv, Done, Good
<1>1. CASE UNCHANGED <<cur, store, rows>> /\ (pc' = pc \/ pc' \notin {"complete", "record"})
  <2>1. pc' \in {"complete", "record"} => cur'.buf = <<>>
    BY <1>1 DEF ContentInv
  <2>2. pc' = "record" => \A o \in Objs : o = cur'.key => store'[o].state = "object"
    BY <1>1 DEF ContentInv
  <2> QED BY <1>1, <1>d, <1>s, <1>q, <2>1, <2>2
<1>2. CASE SetLivestreamURI \/ AskCutover \/ Close \/ TakeCutover \/ TakeEnd \/ Flushed \/ UNCHANGED vars
  BY <1>1, <1>2 DEF SetLivestreamURI, AskCutover, Close, TakeCutover, TakeEnd, Flushed, vars
<1>3. ASSUME NEW i \in Segs, AddSegment(i) PROVE ContentInv'
  BY <1>1, <1>3 DEF AddSegment
<1>4. CASE GrowsOld
  <2>1. UNCHANGED <<store, rows, pc>> /\ cur'.key = cur.key /\ cur'.buf = cur.buf /\ cur'.index = cur.index
    BY <1>4, GrowsOldFields DEF GrowsOld
  <2>2. pc' \in {"complete", "record"} => cur'.buf = <<>>
    BY <2>1 DEF ContentInv
  <2>3. pc' = "record" => \A o \in Objs : o = cur'.key => store'[o].state = "object"
    BY <2>1 DEF ContentInv
  <2> QED BY <1>d, <1>s, <1>q, <2>1, <2>2, <2>3
<1>5. CASE TakeSegment
  <2>1. /\ UNCHANGED <<store, rows>> /\ pc' \in {"last", "create", "flush"} /\ cmd' \in Segs /\ cur'.key = cur.key
        /\ \/ cur' = cur
           \/ cur'.index = Append(cur.index, cmd') /\ cur'.buf = cur.buf \o Bytes(cmd')
    BY <1>5, TakeSegmentFields
  <2>2. CASE cur' = cur
    BY <1>1, <2>1, <2>2
  <2>3. CASE cur'.index = Append(cur.index, cmd') /\ cur'.buf = cur.buf \o Bytes(cmd')
    <3>1. ASSUME NEW o \in Objs, o = cur'.key PROVE (Good(o))'
      <4> DEFINE p == FlattenSeq(store[o].parts)
      <4>0. p \o cur.buf = FlattenSeq(BytesOf(cur.index))
        BY <2>1, <3>1 DEF ContentInv
      <4>1. p \in Seq(Segs) /\ Bytes(cmd') \in Seq(Segs)
        BY <1>0, <2>1, FlattenAppend, BytesType
      <4> HIDE DEF p
      <4>2. p \o (cur.buf \o Bytes(cmd')) = (p \o cur.buf) \o Bytes(cmd')
        <5> DEFINE b == cur.buf
                   e == Bytes(cmd')
        <5>1. b \in Seq(Segs) /\ e \in Seq(Segs)
          BY <1>0, <4>1
        <5> HIDE DEF b, e
        <5>2. p \o (b \o e) = (p \o b) \o e
          BY <4>1, <5>1, ConcatAssociative, SMTT(40)
        <5> QED BY <5>2 DEF b, e
      <4>3. FlattenSeq(BytesOf(Append(cur.index, cmd'))) = FlattenSeq(BytesOf(cur.index)) \o Bytes(cmd')
        BY <1>0, <2>1, FlatBytes
      <4>4. p \o cur'.buf = FlattenSeq(BytesOf(cur'.index))
        BY <2>3, <4>0, <4>2, <4>3
      <4> QED BY <2>1, <4>4 DEF Good, p
    <3> QED BY <1>d, <1>q, <2>1, <3>1
  <2> QED BY <2>1, <2>2, <2>3
<1>6. CASE Create
  <2>1. /\ UNCHANGED <<cur, rows>> /\ pc = "create" /\ pc' \in {"tag", "idle"}
        /\ \A o \in Objs : o # objSeq + 1 => store'[o] = store[o]
    BY <1>6, CreateFields
  <2>2. ASSUME NEW o \in Objs PROVE (Done(o))'
    <3>1. CASE o = objSeq + 1
      <4>1. o > objSeq
        BY <1>0, <3>1
      <4>2. rows[o].state = "none"
        BY <4>1 DEF CurInv
      <4> QED BY <1>n, <2>1, <4>2
    <3> QED BY <1>d, <2>1, <3>1
  <2>3. cur'.key = 0
    BY <2>1 DEF PartsInv
  <2> QED BY <1>q, <1>z, <2>1, <2>2, <2>3
<1>7. CASE Tag
  <2>1. /\ pc = "tag" /\ pc' = "flush" /\ cmd \in Segs /\ UNCHANGED <<store, objSeq>>
        /\ cur'.key = objSeq /\ cur'.index = <<cmd>> /\ cur'.buf = Bytes(cmd)
        /\ rows' = [rows EXCEPT ![objSeq] = RecordStart(cmd)] \/ rows' = rows
    BY <1>7, TagFields
  <2>2. ASSUME NEW o \in Objs PROVE (Done(o))'
    <3>1. CASE rows' = rows
      BY <1>d, <2>1, <3>1
    <3>2. CASE rows' = [rows EXCEPT ![objSeq] = RecordStart(cmd)]
      <4>1. (o # objSeq => rows'[o] = rows[o]) /\ (o = objSeq => rows'[o].state = "open")
        BY <2>1, <3>2, StartedRows
      <4> QED BY <1>d, <1>n, <2>1, <4>1
    <3> QED BY <2>1, <3>1, <3>2
  <2>3. ASSUME NEW o \in Objs, o = cur'.key PROVE (Good(o))'
    <3>1. store'[o].parts = <<>>
      BY <2>1, <2>3 DEF PartsInv
    <3>2. FlattenSeq(store'[o].parts) = <<>>
      BY <3>1, FlatEmpty
    <3>3. <<>> \o Bytes(cmd) = Bytes(cmd)
      BY <2>1, BytesType, ConcatEmptySeq
    <3>4. FlattenSeq(BytesOf(<<cmd>>)) = Bytes(cmd)
      BY <2>1, FlatOne
    <3> QED BY <2>1, <3>2, <3>3, <3>4 DEF Good
  <2> QED BY <1>q, <2>1, <2>2, <2>3
<1>8. CASE Flush \/ FlushLast
  <2>1. /\ UNCHANGED rows /\ pc' # "record" /\ cur'.key = cur.key /\ cur'.index = cur.index
        /\ \A o \in Objs : store'[o].state = store[o].state
        /\ \A o \in Objs : o # cur.key => store'[o].parts = store[o].parts
        /\ (pc' = "complete" => cur'.buf = <<>>)
    BY <1>8, FlushFields
  <2>2. ASSUME NEW o \in Objs PROVE (Done(o))'
    <3>1. CASE o = cur.key
      BY <1>k, <1>n, <2>1, <3>1
    <3>2. CASE o # cur.key
      BY <2>1, <3>2 DEF Done, ContentInv, InRow
    <3> QED BY <3>1, <3>2
  <2>3. ASSUME NEW o \in Objs, o = cur'.key PROVE (Good(o))'
    <3>0. o = cur.key /\ FlattenSeq(store[o].parts) \o cur.buf = FlattenSeq(BytesOf(cur.index))
      BY <2>1, <2>3 DEF ContentInv
    <3>1. CASE UNCHANGED <<cur, store>>
      BY <1>s, <2>3, <3>1
    <3>2. ASSUME NEW n \in 1 .. Len(cur.buf), cur'.buf = SubSeq(cur.buf, n + 1, Len(cur.buf)),
                 store'[o].parts = Append(store[o].parts, SubSeq(cur.buf, 1, n))
          PROVE  (Good(o))'
      <4> DEFINE p == FlattenSeq(store[o].parts)
                 l == SubSeq(cur.buf, 1, n)
                 r == SubSeq(cur.buf, n + 1, Len(cur.buf))
      <4>1. l \in Seq(Segs) /\ r \in Seq(Segs) /\ l \o r = cur.buf
        BY <1>0, SplitBuffer
      <4>2. p \in Seq(Segs)
        BY <1>0, <4>1, FlattenAppend
      <4>3. cur'.buf = r /\ store'[o].parts = Append(store[o].parts, l)
        BY <3>2
      <4> HIDE DEF l, r
      <4>4. FlattenSeq(store'[o].parts) = p \o l
        BY <1>0, <4>1, <4>3, FlattenAppend
      <4>5. p \o cur.buf = FlattenSeq(BytesOf(cur.index))
        BY <3>0
      <4> HIDE DEF p
      <4>6. (p \o l) \o r = p \o cur.buf
        <5>0. l \in Seq(Segs) /\ r \in Seq(Segs)
          BY <4>1
        <5>1. (p \o l) \o r = p \o (l \o r)
          BY <4>2, <5>0, ConcatAssociative
        <5> QED BY <4>1, <5>1
      <4> QED BY <2>1, <4>3, <4>4, <4>5, <4>6 DEF Good
    <3> QED BY <1>8, <3>0, <3>1, <3>2, FlushFields
  <2> QED BY <1>q, <2>1, <2>2, <2>3
<1>9. CASE Complete
  <2>1. /\ pc = "complete" /\ pc' \in {"record", "abort"} /\ UNCHANGED <<cur, rows>>
        /\ \A o \in Objs : o # cur.key => store'[o] = store[o]
        /\ \A o \in Objs : store'[o].parts = store[o].parts
        /\ pc' = "record" => \A o \in Objs : o = cur.key => store'[o].state = "object"
    BY <1>9, CompleteFields
  <2>2. ASSUME NEW o \in Objs PROVE (Done(o))'
    BY <1>d, <1>k, <1>n, <2>1
  <2>3. pc' \in {"complete", "record"} => cur'.buf = <<>>
    BY <2>1 DEF ContentInv
  <2> QED BY <1>q, <1>s, <2>1, <2>2, <2>3
<1>10. CASE Record
  <2>1. /\ pc = "record" /\ pc' \notin {"complete", "record"} /\ cur' = Nil /\ UNCHANGED store /\ cur.key # 0
        /\ rows' = [rows EXCEPT ![cur.row] = RecordComplete(@, cur.index)] \/ rows' = rows
    BY <1>10, RecordFields
  <2>2. cur'.key = 0
    BY <2>1 DEF Nil
  <2>3. ASSUME NEW o \in Objs PROVE (Done(o))'
    <3>1. CASE rows'[o] = rows[o]
      BY <1>d, <2>1, <3>1
    <3>2. CASE rows' = [rows EXCEPT ![cur.row] = RecordComplete(@, cur.index)] /\ o = cur.row
      <4>1. cur.index # <<>> /\ o = cur.key
        BY <1>0, <2>1, <3>2 DEF CurInv
      <4>2. rows'[o].start = Earliest(cur.index) /\ rows'[o].index = cur.index
        BY <3>2, <4>1, RecordedRows
      <4>3. store[o].state = "object" /\ cur.buf = <<>>
        BY <2>1, <4>1 DEF ContentInv
      <4>4. FlattenSeq(store[o].parts) = FlattenSeq(BytesOf(cur.index))
        <5>1. FlattenSeq(store[o].parts) \o cur.buf = FlattenSeq(BytesOf(cur.index))
          BY <4>1 DEF ContentInv
        <5>2. FlattenSeq(store[o].parts) \in Seq(Segs)
          <6>1. <<>> \in Seq(Segs)
            OBVIOUS
          <6> QED BY <1>0, <6>1, FlattenAppend
        <5> QED BY <4>3, <5>1, <5>2, ConcatEmptySeq
      <4>5. \A i \in (InRow(o))' : rows'[o].start <= i
        BY <1>0, <4>1, <4>2, EarliestIs DEF InRow
      <4> QED BY <2>1, <4>2, <4>3, <4>4, <4>5 DEF Done
    <3>3. CASE rows' = [rows EXCEPT ![cur.row] = RecordComplete(@, cur.index)] /\ o # cur.row
      <4>1. cur.index # <<>>
        BY <2>1 DEF CurInv
      <4>2. rows'[o] = rows[o]
        BY <3>3, <4>1, RecordedRows
      <4> QED BY <3>1, <4>2
    <3> QED BY <2>1, <3>1, <3>2, <3>3
  <2> QED BY <1>q, <1>z, <2>1, <2>2, <2>3
<1>11. CASE Abort
  <2>1. /\ pc' = AfterAbort /\ cur' = Nil /\ (rows' = rows \/ rows' = RowsWithoutCurrent)
        /\ \A o \in Objs : o # cur.key => store'[o] = store[o]
    BY <1>11, AbortFields
  <2>2. cur'.key = 0 /\ pc' \notin {"complete", "record"}
    BY <1>11, AbortFields DEF Nil, AfterAbort
  <2>3. ASSUME NEW o \in Objs PROVE (Done(o))'
    <3>1. rows'[o] = rows[o] \/ rows'[o] = NoRow
      BY <1>11, AbortFields, AbortedRows
    <3>2. NoRow.state = "none"
      BY DEF NoRow
    <3>3. CASE o = cur.key
      BY <1>k, <1>n, <3>1, <3>2, <3>3
    <3>4. CASE o # cur.key
      <4>1. store'[o] = store[o]
        BY <1>11, <3>4, AbortFields
      <4> QED BY <1>d, <1>n, <3>1, <3>2, <4>1
    <3> QED BY <3>3, <3>4
  <2> QED BY <1>q, <1>z, <2>2, <2>3
<1>12. CASE Crash
  <2>1. pc' = "dead" /\ cur'.key = 0 /\ UNCHANGED <<store, rows>>
    BY <1>12 DEF Crash, Nil
  <2> QED BY <1>d, <1>q, <1>z, <2>1
<1> QED BY <1>2, <1>3, <1>4, <1>5, <1>6, <1>7, <1>8, <1>9, <1>10, <1>11, <1>12 DEF Next, Loop

\* Whatever fails, and even if the node dies: the index of a completed row
\* locates exactly the bytes S3 holds of its object, and started_at is not
\* after any of its segments (s3.go handleSegment, flushPart, completeUpload;
\* s3_segment.go RecordComplete).
THEOREM UploaderIndexMatchesObject == Spec => []IndexMatchesObject
<1> DEFINE I == Shape /\ PartsInv /\ Types /\ CurInv /\ ContentInv
<1>1. Init => I
  <2>1. Init => ContentInv
    BY DEF Init, ContentInv, Nil, NoRow, Objs
  <2> QED BY <2>1, PartsInit, PlacesInit
<1>2. I /\ [Next]_vars => I'
  BY PartsStep, RowTypesStep, ContentStep
<1>3. I => IndexMatchesObject
  <2> SUFFICES ASSUME I, NEW o \in Objs, rows[o].state = "complete"
               PROVE  /\ store[o].state = "object"
                      /\ FlattenSeq(store[o].parts) = FlattenSeq(BytesOf(rows[o].index))
                      /\ \A k \in 1 .. Len(rows[o].index) : rows[o].start <= rows[o].index[k]
    BY DEF IndexMatchesObject, BytesOf
  <2>1. rows[o].index \in Seq(Segs)
    BY DEF Types, RowType
  <2>2. \A k \in 1 .. Len(rows[o].index) : rows[o].index[k] \in InRow(o)
    BY <2>1 DEF InRow, ToSet
  <2> QED BY <2>2 DEF ContentInv
<1> QED BY <1>1, <1>2, <1>3, PTL DEF Spec

-----------------------------------------------------------------------------
(***************************************************************************)
(* Counting.  Every attempt at an object is made for a segment of its own; *)
(* every object given up and every segment dropped has cost a failed call. *)
(***************************************************************************)
\* A set with at most one element more.
LEMMA OneMore ==
  ASSUME NEW n \in Nat, NEW A \in SUBSET (1 .. n), NEW B, NEW x, B \subseteq A \cup {x}
  PROVE  /\ Cardinality(A) \in Nat /\ Cardinality(B) \in Nat /\ Cardinality(A) <= n
         /\ Cardinality(B) <= Cardinality(A) + 1
         /\ B \subseteq A => Cardinality(B) <= Cardinality(A)
         /\ x \notin A /\ B = A \cup {x} => Cardinality(B) = Cardinality(A) + 1
<1>1. IsFiniteSet(1 .. n) /\ Cardinality(1 .. n) = n
  BY FS_Interval
<1>2. IsFiniteSet(A) /\ Cardinality(A) <= n
  BY <1>1, FS_Subset
<1>3. /\ IsFiniteSet(A \cup {x})
      /\ Cardinality(A \cup {x}) = IF x \in A THEN Cardinality(A) ELSE Cardinality(A) + 1
  BY <1>2, FS_AddElement
<1>4. IsFiniteSet(B) /\ Cardinality(B) <= Cardinality(A \cup {x})
  BY <1>3, FS_Subset
<1>5. Cardinality(A) \in Nat /\ Cardinality(B) \in Nat
  BY <1>2, <1>4, FS_CardinalityType
<1>6. B \subseteq A => Cardinality(B) <= Cardinality(A)
  BY <1>2, FS_Subset
<1> QED BY <1>2, <1>3, <1>4, <1>5, <1>6

\* Attempts are only made for a segment in the loop's hands.
LEMMA DueStep ==
  ASSUME Shape, PartsInv, [Next]_vars, ~ TakeSegment
  PROVE  objSeq' + Due' <= objSeq + Due
<1>0. objSeq \in Nat /\ Due \in {0, 1} /\ Due' \in {0, 1} /\ Cutover \notin Segs /\ End \notin Segs
  BY UploaderAssumption DEF Shape, Due, Cutover, End, Segs
<1>1. CASE UNCHANGED <<objSeq, pc, cmd>>
  BY <1>0, <1>1 DEF Due
<1>2. CASE objSeq' = objSeq /\ Due' = 0
  BY <1>0, <1>2
<1>3. CASE SetLivestreamURI \/ AskCutover \/ Close \/ GrowsOld \/ UNCHANGED vars
  BY <1>1, <1>3 DEF SetLivestreamURI, AskCutover, Close, GrowsOld, vars
<1>4. ASSUME NEW i \in Segs, AddSegment(i) PROVE UNCHANGED <<objSeq, pc, cmd>>
  BY <1>4 DEF AddSegment
<1>5. CASE TakeCutover \/ TakeEnd
  <2>1. objSeq' = objSeq /\ cmd' \notin Segs
    BY <1>0, <1>5 DEF TakeCutover, TakeEnd
  <2> QED BY <1>2, <2>1 DEF Due
<1>6. CASE Create
  <2>1. pc = "create" /\ cmd \in Segs /\ objSeq' = objSeq + 1 /\ pc' \in {"tag", "idle"}
    BY <1>6, CreateFields DEF Shape
  <2>2. Due = 1 /\ Due' = 0
    BY <2>1 DEF Due
  <2> QED BY <1>0, <2>1, <2>2
<1>7. CASE Tag \/ Flush \/ Flushed \/ Abort \/ Crash
  <2>1. objSeq' = objSeq /\ pc' \notin {"create", "last", "complete", "record"}
    BY <1>7 DEF Tag, Flush, Flushed, Abort, AfterAbort, Crash
  <2> QED BY <1>2, <2>1 DEF Due
<1>8. CASE FlushLast \/ Complete
  <2>1. objSeq' = objSeq /\ cmd' = cmd /\ pc \in {"last", "complete"}
    BY <1>8 DEF FlushLast, Complete
  <2> QED BY <1>0, <2>1 DEF Due
<1>9. CASE Record
  <2>1. objSeq' = objSeq /\ cmd' = cmd /\ pc = "record" /\ ((cmd \in Segs /\ pc' = "create") \/ cmd \notin Segs)
    BY <1>9, RecordFields
  <2> QED BY <1>0, <2>1 DEF Due
<1> QED BY <1>1, <1>3, <1>4, <1>5, <1>6, <1>7, <1>8, <1>9 DEF Next, Loop

\* Every step keeps the attempts within the segments taken off the queue, and
\* what is counted within its bounds.
LEMMA CountStep ==
  ASSUME Shape, PartsInv, Types, CurInv, Apart, CountInv, [Next]_vars
  PROVE  CountInv'
<1>0. /\ MaxSegs \in Nat /\ QueueCap \in Nat /\ MaxCutovers \in Nat /\ MaxFaults \in Nat
      /\ queue \in Seq({Cutover} \cup Segs) /\ Len(queue) \in Nat
      /\ objSeq \in Nat /\ Due \in {0, 1} /\ Due' \in {0, 1}
  BY UploaderAssumption DEF Shape, Due
<1>1. sent \subseteq Segs /\ sent' \subseteq Segs
  BY RowTypesStep DEF Types
<1>s. sent \subseteq sent'
  <2>1. ASSUME NEW i \in Segs, Arrives(i) \/ Leaves(i) PROVE sent \subseteq sent'
    BY <2>1 DEF Arrives, Leaves
  <2> QED BY <2>1, Moves DEF Stay, Begins, Loses, Settles
<1>2. objSeq' + Due' <= Cardinality((sent \ Queued)')
  <2> DEFINE A == sent \ Queued
             B == (sent \ Queued)'
  <2>0. A \in SUBSET (1 .. MaxSegs) /\ B \in SUBSET (1 .. MaxSegs)
    BY <1>1 DEF Segs
  <2>1. A \subseteq B
    <3>1. ASSUME NEW i \in Segs, Arrives(i) PROVE A \subseteq B
      BY <3>1 DEF Arrives
    <3>2. ASSUME NEW i \in Segs, Leaves(i) PROVE A \subseteq B
      BY <3>2 DEF Leaves
    <3>3. ASSUME NEW p \in Objs, Settles(p) PROVE A \subseteq B
      BY <3>3 DEF Settles
    <3>4. CASE Stay \/ Begins \/ Loses
      BY <3>4 DEF Stay, Begins, Loses
    <3> QED BY <3>1, <3>2, <3>3, <3>4, Moves
  <2>2. TakeSegment => Head(queue) \notin A /\ B = A \cup {Head(queue)}
    BY TakeLeaves DEF Leaves, Apart
  <2>3. objSeq + Due <= Cardinality(A)
    BY DEF CountInv
  <2>4. objSeq' \in Nat
    BY PartsStep DEF Shape
  <2> HIDE DEF A, B
  <2>5. Cardinality(A) \in Nat /\ Cardinality(B) \in Nat /\ Cardinality(A) <= Cardinality(B)
    <3>1. A \subseteq B \cup {0}
      BY <2>1
    <3> QED BY <1>0, <2>0, <2>1, <3>1, OneMore
  <2>6. CASE TakeSegment
    <3>1. Cardinality(B) = Cardinality(A) + 1
      BY <1>0, <2>0, <2>2, <2>6, OneMore
    <3>2. Due = 0 /\ objSeq' = objSeq
      BY <2>6 DEF TakeSegment, Due
    <3> QED BY <1>0, <2>3, <2>5, <3>1, <3>2 DEF B
  <2>7. CASE ~ TakeSegment
    <3>1. objSeq' + Due' <= objSeq + Due
      BY <2>7, DueStep
    <3>2. objSeq' + Due' <= Cardinality(B)
      <4>0. objSeq + Due \in Nat
        BY <1>0
      <4>1. objSeq' + Due' \in Nat
        <5> DEFINE n == objSeq'
                   d == Due'
        <5>1. n \in Nat /\ d \in {0, 1}
          BY <1>0, <2>4
        <5> HIDE DEF n, d
        <5>2. n + d \in Nat
          BY <5>1
        <5> QED BY <5>2 DEF n, d
      <4> DEFINE a == objSeq' + Due'
                 b == objSeq + Due
      <4>2. a <= b /\ b <= Cardinality(A)
        BY <2>3, <3>1
      <4> HIDE DEF a, b
      <4>3. a <= Cardinality(B)
        BY <2>5, <4>0, <4>1, <4>2 DEF a, b
      <4> QED BY <4>3 DEF a
    <3> QED BY <3>2 DEF B
  <2> QED BY <2>6, <2>7
<1>3. Len(queue') <= QueueCap
  <2>0. Len(queue) <= QueueCap
    BY DEF CountInv
  <2>1. CASE queue' = queue
    BY <2>0, <2>1
  <2>2. CASE queue' = <<>>
    BY <1>0, <2>2
  <2>3. CASE queue # <<>> /\ queue' = Tail(queue)
    <3>1. Len(queue') = Len(queue) - 1
      BY <1>0, <2>3, SetOfTail
    <3> QED BY <1>0, <2>0, <3>1
  <2>4. ASSUME NEW x \in {Cutover} \cup Segs, queue' = Append(queue, x), Len(queue) < QueueCap
        PROVE  Len(queue') <= QueueCap
    <3>1. Len(queue') = Len(queue) + 1
      BY <1>0, <2>4, AppendProperties
    <3> QED BY <1>0, <2>4, <3>1
  <2>5. CASE AskCutover
    BY <2>4, <2>5 DEF AskCutover
  <2>6. ASSUME NEW i \in Segs, AddSegment(i) PROVE Len(queue') <= QueueCap
    <3>1. i \in {Cutover} \cup Segs /\ queue' = Append(queue, i) /\ Len(queue) < QueueCap
      BY <2>6 DEF AddSegment
    <3> QED BY <2>4, <3>1
  <2>7. CASE TakeSegment \/ TakeCutover
    BY <2>3, <2>7 DEF TakeSegment, TakeCutover
  <2>8. CASE Crash
    BY <2>2, <2>8 DEF Crash
  <2>9. CASE \/ TakeEnd \/ Create \/ Tag \/ Flush \/ Flushed \/ FlushLast \/ Complete \/ Record \/ Abort
             \/ SetLivestreamURI \/ Close \/ GrowsOld \/ UNCHANGED vars
    BY <2>1, <2>9 DEF TakeEnd, Create, Tag, Flush, Flushed, FlushLast, Complete, Record, Abort,
                      SetLivestreamURI, Close, GrowsOld, vars
  <2> QED BY <2>5, <2>6, <2>7, <2>8, <2>9 DEF Next, Loop
<1>4. asked' \in 0 .. MaxCutovers /\ closed' \in BOOLEAN
  <2>1. CASE UNCHANGED <<asked, closed>>
    BY <2>1 DEF CountInv
  <2>2. CASE AskCutover
    BY <1>0, <2>2 DEF AskCutover, CountInv
  <2>3. CASE Close
    BY <2>3 DEF Close, CountInv
  <2>4. CASE Loop \/ Crash \/ GrowsOld \/ SetLivestreamURI \/ UNCHANGED vars
    BY <2>1, <2>4 DEF Loop, Crash, GrowsOld, SetLivestreamURI, vars, inputs, TakeSegment, TakeCutover, TakeEnd,
      Create, Tag, Flush, Flushed, FlushLast, Complete, Record, Abort
  <2>5. ASSUME NEW i \in Segs, AddSegment(i) PROVE UNCHANGED <<asked, closed>>
    BY <2>5 DEF AddSegment
  <2> QED BY <2>1, <2>2, <2>3, <2>4, <2>5 DEF Next
<1>5. faults' \in 0 .. MaxFaults
  <2>1. CASE faults' = faults
    BY <2>1 DEF CountInv
  <2>2. CASE Fault
    BY <1>0, <2>2 DEF Fault, CountInv
  <2>3. CASE Loop
    BY <2>1, <2>2, <2>3 DEF Loop, TakeSegment, TakeCutover, TakeEnd,
      Create, Tag, Flush, Flushed, FlushLast, Complete, Record, Abort
  <2>4. CASE Crash \/ GrowsOld \/ SetLivestreamURI \/ AskCutover \/ Close \/ UNCHANGED vars
    BY <2>1, <2>4 DEF Crash, GrowsOld, SetLivestreamURI, AskCutover, Close, vars
  <2>5. ASSUME NEW i \in Segs, AddSegment(i) PROVE faults' = faults
    BY <2>5 DEF AddSegment
  <2> QED BY <2>1, <2>3, <2>4, <2>5 DEF Next
<1>6. dropped' \subseteq sent'
  <2>1. CASE dropped' = dropped
    BY <1>s, <2>1 DEF CountInv
  <2>2. CASE Create
    <3>1. cmd \in Hand
      BY <2>2 DEF Create, Hand, Shape
    <3>2. dropped' = dropped \/ dropped' = dropped \cup {cmd}
      BY <2>2 DEF Create
    <3> QED BY <1>s, <3>1, <3>2 DEF CountInv, Apart
  <2>3. CASE Abort
    <3>1. cmd \in Segs => cmd \in sent
      BY <2>3 DEF Abort, Apart
    <3>2. dropped' \subseteq dropped \/ (cmd \in Segs /\ dropped' \subseteq dropped \cup {cmd})
      BY <2>3 DEF Abort
    <3> QED BY <1>s, <3>1, <3>2 DEF CountInv
  <2>4. CASE \/ TakeSegment \/ TakeCutover \/ TakeEnd \/ Tag \/ Flush \/ Flushed \/ FlushLast \/ Complete \/ Record
             \/ Crash \/ GrowsOld \/ SetLivestreamURI \/ AskCutover \/ Close \/ UNCHANGED vars
    BY <2>1, <2>4 DEF TakeSegment, TakeCutover, TakeEnd, Tag, Flush, Flushed, FlushLast, Complete, Record,
       Crash, GrowsOld, SetLivestreamURI, AskCutover, Close, vars
  <2>5. ASSUME NEW i \in Segs, AddSegment(i) PROVE dropped' = dropped
    BY <2>5 DEF AddSegment
  <2> QED BY <2>1, <2>2, <2>3, <2>4, <2>5 DEF Next, Loop
<1> QED BY <1>2, <1>3, <1>4, <1>5, <1>6 DEF CountInv

\* Nothing has been counted yet.
LEMMA CountInit == Init => CountInv
<1> SUFFICES ASSUME Init PROVE CountInv
  OBVIOUS
<1>1. Cardinality({}) = 0
  BY FS_EmptySet
<1>2. sent \ Queued = {} /\ Due = 0 /\ objSeq = 0
  BY DEF Init, Due
<1>3. Len(queue) <= QueueCap
  BY UploaderAssumption DEF Init
<1>4. asked \in 0 .. MaxCutovers /\ faults \in 0 .. MaxFaults /\ closed \in BOOLEAN /\ dropped \subseteq sent
  <2>1. MaxCutovers \in Nat /\ MaxFaults \in Nat
    BY UploaderAssumption
  <2>2. asked = 0 /\ faults = 0 /\ closed = FALSE /\ dropped = {}
    BY DEF Init
  <2>3. asked \in 0 .. MaxCutovers /\ faults \in 0 .. MaxFaults
    BY <2>1, <2>2
  <2>4. closed \in BOOLEAN /\ dropped \subseteq sent
    BY <2>2, Zenon
  <2> QED BY <2>3, <2>4
<1>5. objSeq + Due <= Cardinality(sent \ Queued)
  BY <1>1, <1>2
<1> QED BY <1>3, <1>4, <1>5 DEF CountInv

\* No more attempts at an object than there are segments.
LEMMA AttemptsBounded ==
  ASSUME Shape, Types, CountInv
  PROVE  objSeq \in 0 .. MaxSegs
<1>0. MaxSegs \in Nat
  BY UploaderAssumption
<1>1. sent \ Queued \in SUBSET (1 .. MaxSegs) /\ {} \subseteq (sent \ Queued) \cup {0}
  BY DEF Types, Segs
<1>2. Cardinality(sent \ Queued) \in Nat /\ Cardinality(sent \ Queued) <= MaxSegs
  BY <1>0, <1>1, OneMore
<1>3. objSeq \in Nat /\ Due \in {0, 1} /\ objSeq + Due <= Cardinality(sent \ Queued)
  BY DEF Shape, Due, CountInv
<1> QED BY <1>0, <1>2, <1>3

\* The history of rows left behind grows by the current row only.
LEMMA StuckGrows ==
  ASSUME [Next]_vars
  PROVE  stuck' = stuck \/ stuck' = stuck \cup {cur.row}
<1>1. CASE Loop
  BY <1>1 DEF Loop, TakeSegment, TakeCutover, TakeEnd, Create, Tag, Flush, Flushed, FlushLast, Complete, Record, Abort
<1>2. CASE Crash \/ GrowsOld \/ SetLivestreamURI \/ AskCutover \/ Close \/ UNCHANGED vars
  BY <1>2 DEF Crash, GrowsOld, SetLivestreamURI, AskCutover, Close, vars
<1>3. ASSUME NEW i \in Segs, AddSegment(i) PROVE stuck' = stuck
  BY <1>3 DEF AddSegment
<1> QED BY <1>1, <1>2, <1>3 DEF Next

\* Whatever happens, the uploader's state keeps its type: in particular no more
\* objects are begun than there are segments, since every attempt of
\* startUpload is made for a segment of its own, and every call on an object
\* has one (s3.go uploadLoop, handleSegment).
THEOREM UploaderTypeOK == Spec => []TypeOK
<1> DEFINE I == /\ Shape /\ PartsInv /\ Types /\ CurInv /\ Apart /\ CountInv
                /\ stuck \subseteq {0} \cup Objs
<1>1. Init => I
  <2>1. Init => stuck \subseteq {0} \cup Objs
    BY DEF Init
  <2> QED BY <2>1, PartsInit, PlacesInit, CountInit
<1>2. I /\ [Next]_vars => I'
  <2> SUFFICES ASSUME I, [Next]_vars PROVE I'
    OBVIOUS
  <2>1. objSeq \in 0 .. MaxSegs
    BY AttemptsBounded
  <2>2. cur.row \in {0} \cup Objs
    BY <2>1, UploaderAssumption DEF PartsInv, CurInv, Objs
  <2>3. stuck' = stuck \/ stuck' = stuck \cup {cur.row}
    BY StuckGrows
  <2>4. (stuck \subseteq {0} \cup Objs)'
    BY <2>2, <2>3 DEF Objs
  <2>5. (Shape /\ PartsInv /\ Types /\ CurInv /\ Apart /\ CountInv)'
    BY PartsStep, RowTypesStep, ApartStep, CountStep
  <2> QED BY <2>4, <2>5
<1>3. I => TypeOK
  <2> SUFFICES ASSUME I PROVE TypeOK
    OBVIOUS
  <2>0. MaxSegs \in Nat
    BY UploaderAssumption
  <2>1. objSeq \in 0 .. MaxSegs
    BY AttemptsBounded
  <2>2. cur \in Uploads
    <3>1. cur.key \in {0} \cup Objs /\ cur.row \in {0} \cup Objs
      BY <2>0, <2>1 DEF PartsInv, CurInv, Objs
    <3> QED BY <3>1 DEF Shape, Types, Uploads
  <2>3. pc \in {"flush", "last", "complete", "record", "abort"} => cur.key # 0
    BY DEF PartsInv
  <2>4. /\ uri \in Uris /\ tagged \in [Segs -> SUBSET Uris] /\ sent \subseteq Segs
        /\ rows \in [Objs -> [state : {"none", "open", "complete"}, uri : Uris, start : {0} \cup Segs, index : Seq(Segs)]]
    BY DEF Types, RowType
  <2>5. /\ queue \in Seq({Cutover} \cup Segs) /\ pc \in Pcs /\ cmd \in {Cutover, End} \cup Segs
        /\ store \in [Objs -> [state : {"none", "open", "object", "aborted"}, parts : Seq(Seq(Segs))]]
    BY DEF Shape
  <2>6. /\ Len(queue) <= QueueCap /\ asked \in 0 .. MaxCutovers /\ faults \in 0 .. MaxFaults
        /\ closed \in BOOLEAN /\ dropped \subseteq sent
    BY DEF CountInv
  <2> QED BY <2>1, <2>2, <2>3, <2>4, <2>5, <2>6 DEF TypeOK, Objs
<1> QED BY <1>1, <1>2, <1>3, PTL DEF Spec

\* The failed calls are only ever counted up.
LEMMA FaultsGrow ==
  ASSUME [Next]_vars
  PROVE  faults' = faults \/ Fault
<1>1. CASE Loop
  BY <1>1 DEF Loop, TakeSegment, TakeCutover, TakeEnd,
    Create, Tag, Flush, Flushed, FlushLast, Complete, Record, Abort
<1>2. CASE Crash \/ GrowsOld \/ SetLivestreamURI \/ AskCutover \/ Close \/ UNCHANGED vars
  BY <1>2 DEF Crash, GrowsOld, SetLivestreamURI, AskCutover, Close, vars
<1>3. ASSUME NEW i \in Segs, AddSegment(i) PROVE faults' = faults
  BY <1>3 DEF AddSegment
<1> QED BY <1>1, <1>2, <1>3 DEF Next

\* A segment is dropped, and an object given up, only after a call failed.
LEMMA DropCases ==
  ASSUME Shape, PartsInv, [Next]_vars
  PROVE  \/ dropped' = dropped /\ Aborting' <= Aborting /\ faults' = faults
         \/ dropped' = dropped /\ Aborting = 0 /\ Fault
         \/ dropped' \subseteq dropped \cup {cmd} /\ Aborting' = 0 /\ Fault
         \/ /\ dropped' \subseteq dropped \cup {cmd} /\ Aborting = 1 /\ Aborting' = 0
            /\ faults' = faults \/ Fault
<1>0. Aborting \in {0, 1} /\ Aborting' \in {0, 1}
  BY DEF Aborting
<1>1. CASE dropped' = dropped /\ faults' = faults /\ (pc' # "abort" \/ pc' = pc)
  <2>1. Aborting' <= Aborting
    BY <1>1 DEF Aborting
  <2> QED BY <1>1, <2>1
<1>2. CASE dropped' = dropped /\ Fault /\ pc # "abort"
  <2>1. Aborting = 0
    BY <1>2 DEF Aborting
  <2> QED BY <1>2, <2>1
<1>3. CASE SetLivestreamURI \/ AskCutover \/ Close \/ GrowsOld \/ UNCHANGED vars
  BY <1>1, <1>3 DEF SetLivestreamURI, AskCutover, Close, GrowsOld, vars
<1>4. ASSUME NEW i \in Segs, AddSegment(i) PROVE dropped' = dropped /\ faults' = faults /\ pc' = pc
  BY <1>4 DEF AddSegment
<1>5. CASE TakeSegment \/ TakeCutover \/ TakeEnd \/ Flushed \/ Crash
  BY <1>1, <1>5 DEF TakeSegment, TakeCutover, TakeEnd, Flushed, Crash
<1>6. CASE Create
  <2>1. CASE pc' = "tag" /\ UNCHANGED <<dropped, faults>>
    BY <1>1, <2>1
  <2>2. CASE pc' = "idle" /\ Fault /\ dropped' = dropped \cup {cmd}
    BY <2>2 DEF Aborting
  <2> QED BY <1>6, <2>1, <2>2, CreateFields
<1>7. CASE Tag \/ Flush \/ FlushLast \/ Complete
  <2>1. pc # "abort" /\ dropped' = dropped
    BY <1>7 DEF Tag, Flush, FlushLast, Complete
  <2>2. Fault \/ (faults' = faults /\ pc' # "abort")
    BY <1>7 DEF Tag, Flush, FlushLast, Complete
  <2> QED BY <1>1, <1>2, <2>1, <2>2
<1>8. CASE Record
  <2>1. pc = "record" /\ dropped' = dropped /\ pc' # "abort"
    BY <1>8, RecordFields
  <2> QED BY <1>1, <1>2, <2>1, FaultsGrow
<1>9. CASE Abort
  <2>1. pc = "abort" /\ pc' # "abort" /\ dropped' \subseteq dropped \cup {cmd}
    BY <1>9 DEF Abort, AfterAbort
  <2> QED BY <2>1, FaultsGrow DEF Aborting
<1> QED BY <1>1, <1>3, <1>4, <1>5, <1>6, <1>7, <1>8, <1>9 DEF Next, Loop

\* Every step keeps the segments dropped within the calls that failed.
LEMMA DropStep ==
  ASSUME Shape, PartsInv, Types, CountInv, DropInv, [Next]_vars
  PROVE  DropInv'
<1>0. /\ MaxSegs \in Nat /\ faults \in Nat
      /\ dropped \in SUBSET (1 .. MaxSegs)
  BY UploaderAssumption DEF CountInv, Types, Segs
<1>1. Aborting \in {0, 1} /\ Aborting' \in {0, 1}
  BY DEF Aborting
<1> DEFINE D == dropped'
           a == Aborting
           b == Aborting'
           f == faults'
<1>2. Cardinality(dropped) + a <= faults
  BY DEF DropInv
<1>3. /\ Cardinality(dropped) \in Nat
      /\ D = dropped => Cardinality(D) = Cardinality(dropped)
  <2>1. {} \subseteq dropped \cup {0}
    OBVIOUS
  <2> QED BY <1>0, <2>1, OneMore
<1>4. D \subseteq dropped \cup {cmd} =>
        Cardinality(D) \in Nat /\ Cardinality(D) <= Cardinality(dropped) + 1
  BY <1>0, OneMore
<1>5. \/ D = dropped /\ b <= a /\ f = faults
      \/ D = dropped /\ a = 0 /\ f = faults + 1
      \/ D \subseteq dropped \cup {cmd} /\ b = 0 /\ f = faults + 1
      \/ /\ D \subseteq dropped \cup {cmd} /\ a = 1 /\ b = 0
         /\ f = faults \/ f = faults + 1
  BY DropCases DEF Fault
<1>6. a \in {0, 1} /\ b \in {0, 1}
  BY <1>1
<1> HIDE DEF D, a, b, f
<1>7. Cardinality(D) + b <= f
  BY <1>0, <1>2, <1>3, <1>4, <1>5, <1>6
<1> QED BY <1>7 DEF DropInv, D, b, f

-----------------------------------------------------------------------------
\* The objects given up: as long as the node lives an object joins them only
\* when a call has failed, or when one had failed for the object being written.
LEMMA LossCases ==
  ASSUME Shape, PartsInv, Types, CurInv, [Next]_vars, pc' # "dead"
  PROVE  \/ Lost' \subseteq Lost /\ Doomed' <= Doomed /\ faults' = faults
         \/ Lost' \subseteq Lost /\ Fault
         \/ Lost' \subseteq Lost \cup {cur.key} /\ Doomed' = 0 /\ Fault
         \/ /\ Lost' \subseteq Lost \cup {cur.key} /\ Doomed = 1 /\ Doomed' = 0
            /\ faults' = faults \/ Fault
<1>0. /\ cur.key \in Nat /\ cur.row \in Nat /\ objSeq \in Nat
      /\ \A o \in Objs : o # 0
  BY DEF Shape, Objs
<1>s. ASSUME cur'.key = cur.key, cur'.row = cur.row, rows' = rows, objSeq' = objSeq,
             \A o \in Objs : o # cur.key => store'[o].state = store[o].state,
             pc' = pc \/ pc # "tag"
      PROVE  Lost' \subseteq Lost
  BY <1>s DEF Lost
<1>d. ASSUME cur'.key = cur.key, cur'.row = cur.row, pc' = pc \/ pc' # "abort", faults' = faults
      PROVE  Doomed' <= Doomed /\ faults' = faults
  BY <1>d DEF Doomed
<1>1. CASE SetLivestreamURI \/ AskCutover \/ Close \/ UNCHANGED vars
  <2>1. UNCHANGED <<cur, rows, objSeq, store, pc, faults>>
    BY <1>1 DEF SetLivestreamURI, AskCutover, Close, vars
  <2> QED BY <1>s, <1>d, <2>1
<1>2. ASSUME NEW i \in Segs, AddSegment(i) PROVE Lost' \subseteq Lost /\ Doomed' <= Doomed /\ faults' = faults
  <2>1. UNCHANGED <<cur, rows, objSeq, store, pc, faults>>
    BY <1>2 DEF AddSegment
  <2> QED BY <1>s, <1>d, <2>1
<1>3. CASE GrowsOld
  <2>1. UNCHANGED <<rows, objSeq, store, pc, faults>> /\ cur'.key = cur.key /\ cur'.row = cur.row
    BY <1>3, GrowsOldFields DEF GrowsOld
  <2> QED BY <1>s, <1>d, <2>1
<1>4. CASE TakeSegment \/ TakeCutover \/ TakeEnd \/ Flushed
  <2>1. /\ UNCHANGED <<rows, objSeq, store, faults>>
        /\ pc # "tag" /\ pc' # "abort"
    BY <1>4 DEF TakeSegment, TakeCutover, TakeEnd, Flushed
  <2>2. cur'.key = cur.key /\ cur'.row = cur.row
    BY <1>4, TakeSegmentFields DEF TakeCutover, TakeEnd, Flushed
  <2> QED BY <1>s, <1>d, <2>1, <2>2
<1>5. CASE Create
  <2>1. /\ pc = "create" /\ objSeq' = objSeq + 1 /\ UNCHANGED <<cur, rows>> /\ cur.key = 0
        /\ \A o \in Objs : o # objSeq + 1 => store'[o] = store[o]
        /\ \/ pc' = "tag" /\ faults' = faults
           \/ pc' = "idle" /\ Fault /\ store' = store
    BY <1>5, CreateFields DEF PartsInv
  <2>2. Lost' \subseteq Lost
    BY <2>1 DEF Lost
  <2>3. Doomed' = 0 /\ Doomed = 0
    BY <2>1 DEF Doomed
  <2> QED BY <2>1, <2>2, <2>3
<1>6. CASE Tag
  <2>1. /\ pc = "tag" /\ pc' = "flush" /\ UNCHANGED <<objSeq, store>> /\ cur.key = 0
        /\ cur'.key = objSeq /\ objSeq # 0
        /\ \/ cur'.row = objSeq /\ faults' = faults
           \/ Fault
    BY <1>6, TagFields
  <2>2. \A o \in Objs : o # objSeq => rows'[o] = rows[o]
    BY <1>6, TagFields, StartedRows
  <2>3. Lost' \subseteq Lost
    BY <1>0, <2>1, <2>2 DEF Lost
  <2>4. cur'.row = objSeq => Doomed' = 0 /\ Doomed = 0
    BY <2>1 DEF Doomed
  <2> QED BY <2>1, <2>3, <2>4
<1>7. CASE Flush \/ FlushLast
  <2>1. /\ pc # "tag" /\ UNCHANGED <<objSeq, rows>> /\ cur'.key = cur.key /\ cur'.row = cur.row
        /\ \A o \in Objs : store'[o].state = store[o].state
    BY <1>7, FlushFields
  <2>2. Fault \/ (faults' = faults /\ pc' # "abort")
    BY <1>7, FlushFields
  <2>3. Lost' \subseteq Lost
    BY <1>s, <2>1
  <2> QED BY <1>d, <2>1, <2>2, <2>3
<1>8. CASE Complete
  <2>1. /\ pc # "tag" /\ UNCHANGED <<objSeq, rows, cur>>
        /\ \A o \in Objs : o # cur.key => store'[o] = store[o]
        /\ Fault \/ (faults' = faults /\ pc' # "abort")
    BY <1>8, CompleteFields
  <2>2. Lost' \subseteq Lost
    BY <1>s, <2>1
  <2> QED BY <1>d, <2>1, <2>2
<1>9. CASE Record
  <2>1. /\ pc = "record" /\ cur.key # 0 /\ cur'.key = 0 /\ cur'.row = 0 /\ UNCHANGED <<objSeq, store>>
        /\ pc' \notin {"tag", "abort"}
    BY <1>9, RecordFields DEF Nil
  <2>2. Doomed' = 0
    BY <2>1 DEF Doomed
  <2>3. cur.row \in {0, cur.key} /\ cur.index # <<>>
    BY <2>1 DEF CurInv
  <2>4. CASE cur.row = 0 /\ UNCHANGED <<rows, faults>>
    <3>1. Doomed = 1
      BY <2>1, <2>4 DEF Doomed
    <3>2. Lost' \subseteq Lost \cup {cur.key}
      BY <2>1, <2>4 DEF Lost
    <3> QED BY <2>2, <2>4, <3>1, <3>2
  <2>5. CASE UNCHANGED rows /\ Fault
    <3>1. Lost' \subseteq Lost \cup {cur.key}
      BY <2>1, <2>5 DEF Lost
    <3> QED BY <2>2, <2>5, <3>1
  <2>6. CASE cur.row # 0 /\ rows' = [rows EXCEPT ![cur.row] = RecordComplete(@, cur.index)] /\ UNCHANGED faults
    <3>1. /\ \A o \in Objs : o # cur.key => rows'[o] = rows[o]
          /\ \A o \in Objs : o = cur.key => rows'[o].state = "complete"
      BY <2>3, <2>6, RecordedRows
    <3>2. Lost' \subseteq Lost
      BY <2>1, <3>1 DEF Lost
    <3>3. Doomed' <= Doomed
      BY <2>2 DEF Doomed
    <3> QED BY <2>6, <3>2, <3>3
  <2> QED BY <1>9, <2>4, <2>5, <2>6, RecordFields
<1>10. CASE Abort
  <2>1. /\ pc = "abort" /\ cur.key # 0 /\ cur'.key = 0 /\ cur'.row = 0 /\ objSeq' = objSeq
        /\ pc' \notin {"tag", "abort"}
        /\ \A o \in Objs : o # cur.key => store'[o] = store[o]
    BY <1>10, AbortFields DEF Nil, AfterAbort
  <2>2. cur.row \in {0, cur.key}
    BY <2>1 DEF CurInv
  <2>3. \A o \in Objs : o # cur.row => rows'[o] = rows[o]
    BY <1>10, AbortFields, AbortedRows
  <2>4. Lost' \subseteq Lost \cup {cur.key}
    BY <1>0, <2>1, <2>2, <2>3 DEF Lost
  <2>5. Doomed = 1 /\ Doomed' = 0
    BY <2>1 DEF Doomed
  <2> QED BY <2>4, <2>5, FaultsGrow
<1>11. CASE Crash
  BY <1>11 DEF Crash
<1> QED BY <1>1, <1>2, <1>3, <1>4, <1>5, <1>6, <1>7, <1>8, <1>9, <1>10, <1>11 DEF Next, Loop

\* Dead stays dead.
LEMMA DeadStays ==
  ASSUME [Next]_vars, pc = "dead"
  PROVE  pc' = "dead"
<1>1. CASE SetLivestreamURI \/ AskCutover \/ Close \/ GrowsOld \/ UNCHANGED vars
  BY <1>1 DEF SetLivestreamURI, AskCutover, Close, GrowsOld, vars
<1>2. ASSUME NEW i \in Segs, AddSegment(i) PROVE pc' = pc
  BY <1>2 DEF AddSegment
<1>3. ~ Loop
  BY DEF Loop, TakeSegment, TakeCutover, TakeEnd,
    Create, Tag, Flush, Flushed, FlushLast, Complete, Record, Abort
<1>4. ~ Crash
  BY DEF Crash
<1> QED BY <1>1, <1>2, <1>3, <1>4 DEF Next

\* Every step keeps the objects given up within the calls that failed.
LEMMA LossStep ==
  ASSUME Shape, PartsInv, Types, CurInv, CountInv, LossInv, [Next]_vars
  PROVE  LossInv'
<1> SUFFICES ASSUME pc' # "dead" PROVE Cardinality(Lost') + Doomed' <= faults'
  BY DEF LossInv, Alive
<1>0. /\ MaxSegs \in Nat /\ faults \in Nat
      /\ Lost \in SUBSET (1 .. MaxSegs)
  BY UploaderAssumption DEF CountInv, Lost, Objs
<1>1. Doomed \in {0, 1} /\ Doomed' \in {0, 1}
  BY DEF Doomed
<1> DEFINE L == Lost
           M == Lost'
           a == Doomed
           b == Doomed'
           f == faults'
           k == cur.key
<1>2. Cardinality(L) + a <= faults
  BY DeadStays DEF LossInv, Alive
<1>5. \/ M \subseteq L /\ b <= a /\ f = faults
      \/ M \subseteq L /\ f = faults + 1
      \/ M \subseteq L \cup {k} /\ b = 0 /\ f = faults + 1
      \/ /\ M \subseteq L \cup {k} /\ a = 1 /\ b = 0
         /\ f = faults \/ f = faults + 1
  BY LossCases DEF Fault
<1>6. a \in {0, 1} /\ b \in {0, 1} /\ L \in SUBSET (1 .. MaxSegs)
  BY <1>0, <1>1
<1> HIDE DEF L, M, a, b, f, k
<1>3. M \subseteq L => Cardinality(M) \in Nat /\ Cardinality(M) <= Cardinality(L)
  <2>1. M \subseteq L => M \subseteq L \cup {0}
    OBVIOUS
  <2> QED BY <1>0, <1>6, <2>1, OneMore
<1>4. /\ Cardinality(L) \in Nat
      /\ M \subseteq L \cup {k} => Cardinality(M) \in Nat /\ Cardinality(M) <= Cardinality(L) + 1
  <2>1. {} \subseteq L \cup {0}
    OBVIOUS
  <2> QED BY <1>0, <1>6, <2>1, OneMore
<1>7. Cardinality(M) + b <= f
  BY <1>0, <1>2, <1>3, <1>4, <1>5, <1>6
<1> QED BY <1>7 DEF M, b, f

-----------------------------------------------------------------------------
\* Every step keeps the loop's end behind the close and the draining of segCh.
LEMMA EndStep ==
  ASSUME Shape, PartsInv, Types, EndInv, [Next]_vars
  PROVE  EndInv'
<1>0. End \notin Segs /\ End # Cutover /\ Cutover \notin Segs
  BY UploaderAssumption DEF End, Cutover, Segs
<1>1. CASE UNCHANGED <<cmd, pc, queue, closed>>
  BY <1>1 DEF EndInv
<1>2. CASE SetLivestreamURI \/ GrowsOld \/ UNCHANGED vars
  BY <1>1, <1>2 DEF SetLivestreamURI, GrowsOld, inputs, vars
<1>3. CASE AskCutover
  BY <1>3 DEF AskCutover, EndInv
<1>4. ASSUME NEW i \in Segs, AddSegment(i) PROVE EndInv'
  BY <1>4 DEF AddSegment, EndInv
<1>5. CASE Close
  BY <1>5 DEF Close, EndInv
<1>6. CASE cmd' # End /\ pc' # "done"
  BY <1>6 DEF EndInv
<1>7. CASE TakeSegment \/ TakeCutover
  <2>1. cmd' # End /\ pc' # "done"
    BY <1>0, <1>7, TakeSegmentFields DEF TakeCutover
  <2> QED BY <1>6, <2>1
<1>8. CASE TakeEnd
  BY <1>8 DEF TakeEnd, EndInv, inputs
<1>9. CASE Create \/ Tag \/ Flush \/ Flushed
  <2>1. cmd \in Segs /\ cmd' = cmd /\ pc' # "done"
    BY <1>9 DEF Create, Tag, Flush, Flushed, Shape, Types
  <2> QED BY <1>0, <1>6, <2>1
<1>10. CASE FlushLast \/ Complete
  BY <1>10 DEF FlushLast, Complete, EndInv, inputs
<1>11. CASE Record
  <2>1. UNCHANGED <<cmd, queue, closed>> /\ ((cmd = End /\ pc' = "done") \/ (cmd # End /\ pc' # "done"))
    BY <1>0, <1>11, RecordFields DEF inputs
  <2> QED BY <2>1 DEF EndInv
<1>12. CASE Abort
  BY <1>12 DEF Abort, AfterAbort, EndInv, inputs
<1>13. CASE Crash
  BY <1>13 DEF Crash, EndInv, inputs
<1> QED BY <1>2, <1>3, <1>4, <1>5, <1>7, <1>8, <1>9, <1>10, <1>11, <1>12, <1>13 DEF Next, Loop

\* Without a failed call no segment disappears.
LEMMA KeptStep ==
  ASSUME Shape, PartsInv, Types, CurInv, Apart, CountInv, DropInv, LossInv, KeptInv, [Next]_vars
  PROVE  KeptInv'
<1> SUFFICES ASSUME pc' # "dead", faults' = 0, NEW i \in sent'
             PROVE  i \in (Queued \cup Hand \cup InCur)' \/ \E o \in Objs : i \in (InRow(o))'
  BY DEF KeptInv, Alive
<1>0. faults \in Nat /\ pc # "dead"
  BY DeadStays, UploaderAssumption DEF CountInv
<1>1. faults = 0 /\ ~ Fault
  BY <1>0, FaultsGrow DEF Fault
<1>2. \A j \in sent : j \in Queued \cup Hand \cup InCur \/ \E o \in Objs : j \in InRow(o)
  BY <1>0, <1>1 DEF KeptInv, Alive
<1>3. CASE Stay
  BY <1>2, <1>3 DEF Stay
<1>4. CASE Begins
  BY <1>2, <1>4 DEF Begins
<1>5. ASSUME NEW j \in Segs, Arrives(j)
      PROVE  i \in (Queued \cup Hand \cup InCur)' \/ \E o \in Objs : i \in (InRow(o))'
  BY <1>2, <1>5 DEF Arrives
<1>6. ASSUME NEW j \in Segs, Leaves(j)
      PROVE  i \in (Queued \cup Hand \cup InCur)' \/ \E o \in Objs : i \in (InRow(o))'
  BY <1>2, <1>6 DEF Leaves
<1>7. ASSUME NEW p \in Objs, Settles(p)
      PROVE  i \in (Queued \cup Hand \cup InCur)' \/ \E o \in Objs : i \in (InRow(o))'
  BY <1>2, <1>7 DEF Settles
<1>8. ~ Loses
  <2>1. pc # "abort"
    <3> SUFFICES ASSUME pc = "abort" PROVE FALSE
      OBVIOUS
    <3>1. MaxSegs \in Nat /\ dropped \in SUBSET (1 .. MaxSegs) /\ {} \subseteq dropped \cup {0}
      BY UploaderAssumption DEF CountInv, Types, Segs
    <3>2. Cardinality(dropped) \in Nat
      BY <3>1, OneMore
    <3>3. Cardinality(dropped) + 1 <= 0
      BY <1>1 DEF DropInv, Aborting
    <3> QED BY <3>2, <3>3
  <2>2. cur.key # 0 => cur.row # 0
    <3> SUFFICES ASSUME cur.key # 0, cur.row = 0 PROVE FALSE
      OBVIOUS
    <3>1. MaxSegs \in Nat /\ Lost \in SUBSET (1 .. MaxSegs) /\ {} \subseteq Lost \cup {0}
      BY UploaderAssumption DEF Lost, Objs
    <3>2. Cardinality(Lost) \in Nat
      BY <3>1, OneMore
    <3>3. Doomed = 1
      BY DEF Doomed
    <3>4. Cardinality(Lost) + 1 <= 0
      BY <1>0, <1>1, <3>3 DEF LossInv, Alive
    <3> QED BY <3>2, <3>4
  <2>3. cur.key # 0 => cur.key \in Objs
    <3>1. objSeq \in 0 .. MaxSegs /\ MaxSegs \in Nat
      BY AttemptsBounded, UploaderAssumption
    <3>2. cur.key # 0 => cur.key = objSeq
      BY DEF PartsInv
    <3> QED BY <3>1, <3>2 DEF Objs
  <2> QED BY <1>1, <2>1, <2>2, <2>3 DEF Loses
<1> QED BY <1>3, <1>4, <1>5, <1>6, <1>7, <1>8, Moves

\* Nothing has been sent, dropped or given up yet.
LEMMA GapInit == Init => DropInv /\ LossInv /\ EndInv /\ KeptInv
<1> SUFFICES ASSUME Init PROVE DropInv /\ LossInv /\ EndInv /\ KeptInv
  OBVIOUS
<1>1. Cardinality({}) = 0
  BY FS_EmptySet
<1>2. /\ dropped = {} /\ faults = 0 /\ sent = {} /\ pc = "idle" /\ cmd = Cutover
      /\ cur.key = 0
  BY DEF Init, Nil
<1>3. Lost = {}
  BY DEF Init, Lost
<1>4. DropInv
  BY <1>1, <1>2 DEF DropInv, Aborting
<1>5. LossInv
  BY <1>1, <1>2, <1>3 DEF LossInv, Doomed
<1>6. EndInv
  BY <1>2, UploaderAssumption DEF EndInv, End, Cutover
<1>7. KeptInv
  BY <1>2 DEF KeptInv
<1> QED BY <1>4, <1>5, <1>6, <1>7

\* "One bad object costs a gap in the recording": however calls fail, answers
\* are lost and segments are reordered, no more segments are dropped and no
\* more objects given up than calls have failed, no segment gets into two
\* rows, and a loop that ends without a failed call has recorded every segment
\* that was sent (s3.go handleSegment, completeUpload, abandonCurrent).
THEOREM UploaderOneFaultOneGap == Spec => []OneFaultOneGap
<1> DEFINE I == /\ Shape /\ PartsInv /\ Types /\ CurInv /\ Apart /\ CountInv
                /\ DropInv /\ LossInv /\ EndInv /\ KeptInv
<1>1. Init => I
  BY PartsInit, PlacesInit, CountInit, GapInit
<1>2. I /\ [Next]_vars => I'
  BY PartsStep, RowTypesStep, ApartStep, CountStep, DropStep, LossStep, EndStep, KeptStep
<1>3. I => OneFaultOneGap
  <2> SUFFICES ASSUME I PROVE OneFaultOneGap
    OBVIOUS
  <2> DEFINE Given == {o \in Objs : store[o].state # "none" /\ rows[o].state # "complete" /\ cur.key # o}
  <2>0. MaxSegs \in Nat /\ faults \in Nat /\ dropped \in SUBSET (1 .. MaxSegs) /\ Lost \in SUBSET (1 .. MaxSegs)
    BY UploaderAssumption DEF CountInv, Types, Segs, Lost, Objs
  <2>1. Cardinality(dropped) <= faults
    <3>1. {} \subseteq dropped \cup {0}
      OBVIOUS
    <3>2. Cardinality(dropped) \in Nat
      BY <2>0, <3>1, OneMore
    <3>3. Cardinality(dropped) + Aborting <= faults /\ Aborting \in {0, 1}
      BY DEF DropInv, Aborting
    <3> QED BY <2>0, <3>2, <3>3
  <2>2. ASSUME Alive, pc # "tag" PROVE Cardinality(Given) <= faults
    <3>1. Given = Lost
      BY <2>2 DEF Lost
    <3>2. {} \subseteq Lost \cup {0}
      OBVIOUS
    <3>3. Cardinality(Lost) \in Nat
      BY <2>0, <3>2, OneMore
    <3>4. Cardinality(Lost) + Doomed <= faults /\ Doomed \in {0, 1}
      BY <2>2 DEF LossInv, Doomed
    <3>5. Cardinality(Lost) <= faults
      BY <2>0, <3>3, <3>4
    <3> HIDE DEF Given
    <3> QED BY <3>1, <3>5
  <2>3. \A o, p \in Objs : o # p => ToSet(rows[o].index) \cap ToSet(rows[p].index) = {}
    BY DEF Apart, InRow
  <2>4. ASSUME pc = "done", faults = 0
        PROVE  sent = UNION {ToSet(rows[o].index) : o \in {x \in Objs : rows[x].state = "complete"}}
    <3>1. Queued = {} /\ Hand = {} /\ InCur = {}
      <4>1. queue = <<>> /\ cur.index = <<>>
        BY <2>4 DEF EndInv, PartsInv, CurInv
      <4> QED BY <2>4, <4>1, SetOfEmpty DEF Queued, Hand, InCur
    <3>2. \A i \in sent : \E o \in Objs : i \in InRow(o)
      BY <2>4, <3>1 DEF KeptInv, Alive
    <3>3. ASSUME NEW o \in Objs, rows[o].state # "complete" PROVE InRow(o) = {}
      BY <3>3, SetOfEmpty DEF CurInv, InRow
    <3>4. \A o \in Objs : InRow(o) \subseteq sent
      BY DEF Apart
    <3>5. \A i \in sent : \E o \in {x \in Objs : rows[x].state = "complete"} : i \in InRow(o)
      BY <3>2, <3>3
    <3> QED BY <3>4, <3>5 DEF InRow
  <2> QED BY <2>1, <2>2, <2>3, <2>4 DEF OneFaultOneGap
<1> QED BY <1>1, <1>2, <1>3, PTL DEF Spec

=============================================================================
