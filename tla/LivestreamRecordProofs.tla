----------------------- MODULE LivestreamRecordProofs -----------------------
(***************************************************************************)
(* What holds of a streamer's livestream records for any number of records, *)
(* versions, callers and mishaps: only a heartbeat with a stale copy takes *)
(* an ending back, and the idle task ends no record that the repository    *)
(* shows to be alive.                                                      *)
(***************************************************************************)
EXTENDS LivestreamRecord, TLAPS, WellFoundedInduction, SequenceTheorems

Versions == [u : Uris, seen : Nat, ended : BOOLEAN]

\* What a caller has read, the handlers and the tasks, when the repository has n
\* versions.
CallT(n) == [at : {"idle", "get", "put", "copy", "create"}, u : Uris,
             rec : 0 .. n, swap : 0 .. n, time : Nat]
WorkT(n) == [v : 1 .. n, at : {"read", "index", "schedule"}, ending : BOOLEAN]
TaskT(n) == [version : 1 .. n, u : Uris, at : Nat, stale : Nat]

\* The index has a version of a record under that record's name.
IndexNames == \A u \in Uris : idx[u] # 0 => log[idx[u]].u = u

\* A task's record is indexed, and a task that put itself back comes due two
\* idle timeouts after the heartbeat it saw.
TasksWait ==
  \A t \in tasks : /\ idx[t.u] # 0
                   /\ t.stale # 0 => t.at >= t.stale + 2 * Idle

\* A handler that goes on to schedule has indexed its record.
HandlersIndex ==
  \A w \in work : w.at = "schedule" => idx[log[w.v].u] # 0

\* Who is about to write has read a version.
CallersRead ==
  \A c \in Callers : call[c].at \in {"get", "put", "copy"} => call[c].rec # 0

\* The idle task replaces the version it has judged.
FinalizeReads ==
  LET f == call["finalize"] IN
  /\ f.at \in {"idle", "put"}
  /\ f.at = "put" =>
       /\ f.swap = f.rec
       /\ now - log[f.rec].seen >= Idle
       /\ (\A w \in Created : w <= f.u) => now - log[f.rec].seen >= 2 * Idle

Inv == TypeOK /\ IndexNames /\ TasksWait /\ HandlersIndex /\ CallersRead /\ FinalizeReads

-----------------------------------------------------------------------------
\* A set of numbers up to n has a greatest element.
LEMMA MaxBelow ==
  ASSUME NEW n \in Nat, NEW T \in SUBSET (0 .. n), T # {}
  PROVE  \E x \in T : \A y \in T : y <= x
<1> DEFINE R == {r \in Nat : \E y \in T : r = n - y}
<1>0. \A y \in T : n - y \in R
  OBVIOUS
<1>1. R \in SUBSET Nat /\ R # {}
  BY <1>0
<1>2. PICK r \in R : \A y \in R : ~(<<y, r>> \in OpToRel(<, Nat))
  BY <1>1, NatLessThanWellFounded, WFMin
<1>3. \A y \in R : ~(y < r)
  BY <1>2 DEF OpToRel
<1>4. PICK x \in T : r = n - x
  BY <1>2
<1>5. \A y \in T : ~(n - y < n - x)
  BY <1>0, <1>3, <1>4
<1> HIDE DEF R
<1>6. x \in Nat /\ \A y \in T : y \in Nat
  OBVIOUS
<1> QED BY <1>5, <1>6

\* The last version of u among the first n of s.
LastIn(s, n, u) ==
  IF \E i \in 1 .. n : s[i].u = u
  THEN CHOOSE i \in 1 .. n : s[i].u = u /\ \A j \in (i + 1) .. n : s[j].u # u
  ELSE 0

IsLast(s, n, u, i) == i \in 1 .. n /\ s[i].u = u /\ \A j \in (i + 1) .. n : s[j].u # u

\* It is there if u has a version at all.
LEMMA LastIsLast ==
  ASSUME NEW s, NEW n \in Nat, NEW u, \E i \in 1 .. n : s[i].u = u
  PROVE  IsLast(s, n, u, LastIn(s, n, u))
<1> DEFINE T == {i \in 1 .. n : s[i].u = u}
<1>1. T \in SUBSET (0 .. n) /\ T # {}
  OBVIOUS
<1>2. PICK x \in T : \A y \in T : y <= x
  BY <1>1, MaxBelow
<1>3. x \in 1 .. n /\ s[x].u = u /\ \A j \in (x + 1) .. n : s[j].u # u
  BY <1>2
<1>4. \E i \in 1 .. n : s[i].u = u /\ \A j \in (i + 1) .. n : s[j].u # u
  BY <1>3
<1> QED BY <1>4 DEF LastIn, IsLast

\* There is only one.
LEMMA LastUnique ==
  ASSUME NEW s, NEW n \in Nat, NEW u, NEW i, IsLast(s, n, u, i)
  PROVE  LastIn(s, n, u) = i
<1>1. IsLast(s, n, u, LastIn(s, n, u))
  BY LastIsLast DEF IsLast
<1> DEFINE k == LastIn(s, n, u)
<1>2. ~(i < k) /\ ~(k < i)
  BY <1>1 DEF IsLast
<1>3. i \in Nat /\ k \in Nat
  BY <1>1 DEF IsLast
<1> HIDE DEF k
<1> QED BY <1>2, <1>3 DEF k

\* Its place.
LEMMA LastPlace ==
  ASSUME NEW s, NEW n \in Nat, NEW u
  PROVE  LastIn(s, n, u) \in 0 .. n
<1>1. CASE \E i \in 1 .. n : s[i].u = u
  BY <1>1, LastIsLast DEF IsLast
<1>2. CASE ~ \E i \in 1 .. n : s[i].u = u
  BY <1>2 DEF LastIn
<1> QED BY <1>1, <1>2

\* A commit replaces the version of the record it writes, and no other.
LEMMA LastAppend ==
  ASSUME NEW s \in Seq(Versions), NEW v \in Versions, NEW u
  PROVE  LastIn(Append(s, v), Len(s) + 1, u) =
           IF v.u = u THEN Len(s) + 1 ELSE LastIn(s, Len(s), u)
<1> DEFINE z == Append(s, v)
           n == Len(s)
<1>1. n \in Nat /\ z[n + 1] = v /\ \A i \in 1 .. n : z[i] = s[i]
  BY AppendProperties, LenProperties
<1> HIDE DEF z, n
<1>2. CASE v.u = u
  <2>1. IsLast(z, n + 1, u, n + 1)
    BY <1>1, <1>2 DEF IsLast
  <2> QED BY <1>1, <1>2, <2>1, LastUnique DEF z, n
<1>3. CASE v.u # u /\ \E i \in 1 .. n : s[i].u = u
  <2> DEFINE k == LastIn(s, n, u)
  <2>1. IsLast(s, n, u, k)
    BY <1>1, <1>3, LastIsLast
  <2> HIDE DEF k
  <2>2. k \in 1 .. (n + 1) /\ z[k].u = u
    BY <1>1, <2>1 DEF IsLast
  <2>3. ASSUME NEW j \in (k + 1) .. (n + 1) PROVE z[j].u # u
    <3>1. CASE j = n + 1
      BY <1>1, <1>3, <3>1
    <3>2. CASE j # n + 1
      <4>1. j \in (k + 1) .. n /\ j \in 1 .. n
        BY <1>1, <2>2, <3>2
      <4> QED BY <1>1, <2>1, <4>1 DEF IsLast
    <3> QED BY <3>1, <3>2
  <2>4. IsLast(z, n + 1, u, k)
    BY <2>2, <2>3 DEF IsLast
  <2>5. LastIn(z, n + 1, u) = k
    BY <1>1, <2>4, LastUnique
  <2> QED BY <1>3, <2>5 DEF k, z, n
<1>4. CASE v.u # u /\ ~ \E i \in 1 .. n : s[i].u = u
  <2>1. \A i \in 1 .. (n + 1) : z[i].u # u
    <3> SUFFICES ASSUME NEW i \in 1 .. (n + 1) PROVE z[i].u # u
      OBVIOUS
    <3>1. i = n + 1 \/ i \in 1 .. n
      BY <1>1
    <3> QED BY <1>1, <1>4, <3>1
  <2>2. LastIn(z, n + 1, u) = 0 /\ LastIn(s, n, u) = 0
    BY <1>4, <2>1 DEF LastIn
  <2> QED BY <1>4, <2>2 DEF z, n
<1> QED BY <1>2, <1>3, <1>4

-----------------------------------------------------------------------------
\* A repository with more versions has all the callers and tasks it had.
LEMMA TypesGrow ==
  ASSUME NEW m \in Nat, NEW n \in Nat, m <= n
  PROVE  CallT(m) \subseteq CallT(n) /\ TaskT(m) \subseteq TaskT(n) /\ WorkT(m) \subseteq WorkT(n)
<1>1. 0 .. m \subseteq 0 .. n /\ 1 .. m \subseteq 1 .. n
  OBVIOUS
<1>2. CallT(m) \subseteq CallT(n)
  BY <1>1 DEF CallT
<1>3. TaskT(m) \subseteq TaskT(n)
  BY <1>1 DEF TaskT
<1>4. WorkT(m) \subseteq WorkT(n)
  BY <1>1 DEF WorkT
<1> QED BY <1>2, <1>3, <1>4

\* VersionAt in the terms of this module.
LEMMA VersionIsLast ==
  ASSUME TypeOK, NEW n \in Nat, NEW u
  PROVE  /\ VersionAt(n, u) = LastIn(log, n, u)
         /\ VersionAt(n, u) \in 0 .. n
         /\ VersionAt(n, u) # 0 => log[VersionAt(n, u)].u = u
         /\ (\E i \in 1 .. n : log[i].u = u) => VersionAt(n, u) # 0
<1>1. VersionAt(n, u) = LastIn(log, n, u)
  BY DEF VersionAt, LastIn
<1>2. LastIn(log, n, u) \in 0 .. n
  BY LastPlace
<1>3. (\E i \in 1 .. n : log[i].u = u) => IsLast(log, n, u, LastIn(log, n, u))
  BY LastIsLast
<1>4. (\E i \in 1 .. n : log[i].u = u) \/ LastIn(log, n, u) = 0
  BY DEF LastIn
<1> QED BY <1>1, <1>2, <1>3, <1>4 DEF IsLast

\* What a commit does to the repository.
LEMMA Committed ==
  ASSUME TypeOK, NEW v \in Versions, log' = Append(log, v)
  PROVE  /\ log' \in Seq(Versions)
         /\ Len(log') = Len(log) + 1 /\ Len(log) \in Nat
         /\ log'[Len(log) + 1] = v
         /\ \A i \in 1 .. Len(log) : log'[i] = log[i]
         /\ \A u \in Uris : Current(u)' = IF v.u = u THEN Len(log) + 1 ELSE Current(u)
<1>1. log \in Seq(Versions)
  BY DEF TypeOK, Versions
<1>2. /\ log' \in Seq(Versions)
      /\ Len(log') = Len(log) + 1 /\ Len(log) \in Nat
      /\ log'[Len(log) + 1] = v
      /\ \A i \in 1 .. Len(log) : log'[i] = log[i]
  BY <1>1, AppendProperties, LenProperties
<1>3. ASSUME NEW u \in Uris
      PROVE  Current(u)' = IF v.u = u THEN Len(log) + 1 ELSE Current(u)
  <2>1. Current(u)' = LastIn(log', Len(log'), u)
    BY DEF Current, VersionAt, LastIn
  <2>2. Current(u) = LastIn(log, Len(log), u)
    BY DEF Current, VersionAt, LastIn
  <2>3. LastIn(log', Len(log) + 1, u) = IF v.u = u THEN Len(log) + 1 ELSE LastIn(log, Len(log), u)
    BY <1>1, LastAppend
  <2> QED BY <1>2, <2>1, <2>2, <2>3
<1> QED BY <1>2, <1>3

\* The version the repository has of a record is one of its versions.
LEMMA CurrentType ==
  ASSUME TypeOK, NEW u \in Uris
  PROVE  /\ Current(u) \in 0 .. Len(log)
         /\ Current(u) # 0 => log[Current(u)] \in Versions /\ log[Current(u)].u = u
<1>1. log \in Seq(Versions) /\ Len(log) \in Nat
  BY LenProperties DEF TypeOK, Versions
<1>2. Current(u) \in 0 .. Len(log) /\ (Current(u) # 0 => log[Current(u)].u = u)
  BY <1>1, VersionIsLast DEF Current
<1>3. Current(u) # 0 => log[Current(u)] \in Versions
  BY <1>1, <1>2, ElementOfSeq
<1> QED BY <1>2, <1>3

\* What a commit does to the endings.
LEMMA CommittedEnding ==
  ASSUME TypeOK, NEW v \in Versions, log' = Append(log, v), NEW u \in Uris
  PROVE  /\ v.u = u => (Ended(u)' <=> v.ended)
         /\ v.u # u => (Ended(u)' <=> Ended(u))
<1>1. Current(u) \in 0 .. Len(log)
  BY CurrentType
<1>2. /\ Len(log) \in Nat
      /\ log'[Len(log) + 1] = v
      /\ \A i \in 1 .. Len(log) : log'[i] = log[i]
      /\ Current(u)' = IF v.u = u THEN Len(log) + 1 ELSE Current(u)
  BY Committed
<1>3. Ended(u)' <=> Current(u)' # 0 /\ log'[Current(u)'].ended
  BY DEF Ended
<1>4. CASE v.u = u
  BY <1>2, <1>3, <1>4
<1>5. CASE v.u # u
  <2>1. Current(u)' = Current(u)
    BY <1>2, <1>5
  <2>2. Current(u) # 0 => log'[Current(u)] = log[Current(u)]
    BY <1>1, <1>2
  <2> QED BY <1>3, <1>5, <2>1, <2>2 DEF Ended
<1> QED BY <1>4, <1>5

\* The record a caller puts is a version.
LEMMA WrittenType ==
  ASSUME TypeOK, CallersRead, NEW c \in Callers, call[c].at = "put"
  PROVE  /\ Written(c) \in Versions
         /\ Written(c).u = call[c].u /\ call[c].u \in Uris
         /\ call[c].rec \in 1 .. Len(log) /\ log[call[c].rec] \in Versions
<1>1. log \in Seq(Versions) /\ Len(log) \in Nat /\ now \in Nat
  BY LenProperties DEF TypeOK, Versions
<1>2. call[c].rec \in 0 .. Len(log) /\ call[c].u \in Uris
  BY DEF TypeOK
<1>3. call[c].rec \in 1 .. Len(log)
  BY <1>1, <1>2 DEF CallersRead
<1>4. log[call[c].rec] \in Versions
  BY <1>1, <1>3, ElementOfSeq
<1>5. log[call[c].rec].seen \in Nat /\ log[call[c].rec].ended \in BOOLEAN
  BY <1>4 DEF Versions
<1> QED BY <1>1, <1>2, <1>3, <1>4, <1>5 DEF Written, Version, Versions

-----------------------------------------------------------------------------
\* The livestreams of an empty repository.
LEMMA RecordInit == Init => Inv
<1> SUFFICES ASSUME Init PROVE Inv
  OBVIOUS
<1>1. <<>> \in Seq(Versions) /\ Len(<<>>) = 0 /\ 1 \in Uris
  BY EmptySeq, LivestreamRecordAssumption DEF Uris
<1>2. call = [c \in Callers |-> Quiet] /\ Quiet \in CallT(0)
  BY <1>1 DEF Init, Quiet, CallT
<1>3. call \in [Callers -> CallT(0)]
  BY <1>2
<1>4. TypeOK
  BY <1>1, <1>3 DEF Init, TypeOK, CallT, Versions
<1>5. \A c \in Callers : call[c].at = "idle"
  BY <1>2 DEF Quiet
<1> QED BY <1>4, <1>5 DEF Inv, Init, IndexNames, TasksWait, HandlersIndex, CallersRead, FinalizeReads, Callers

\* A step that writes nothing but a caller's place and the accounts of
\* mishaps; the idle task comes to its end.
LEMMA CallKeeps ==
  ASSUME Inv, NEW c \in Callers, NEW r \in CallT(Len(log)),
         r.at \in {"get", "put", "copy"} => r.rec # 0,
         c = "finalize" => r.at = "idle",
         call' = [call EXCEPT ![c] = r],
         UNCHANGED <<pds, index, tasks, ran, now>>,
         mishaps' \in Nat, lost' \subseteq Uris
  PROVE  Inv'
<1>1. UNCHANGED <<log, session, allowed, pos, cursor, work, idx, walk, upset, dropped, scheduled, tasks, ran, now>>
  BY DEF pds, index
<1>2. call \in [Callers -> CallT(Len(log))]
  BY DEF Inv, TypeOK, CallT
<1>3. call' \in [Callers -> CallT(Len(log))] /\ call'[c] = r /\ \A d \in Callers : d # c => call'[d] = call[d]
  BY <1>2
<1>4. call' \in [Callers -> CallT(Len(log'))]
  BY <1>1, <1>3
<1>5. TypeOK'
  BY <1>1, <1>4 DEF Inv, TypeOK, CallT
<1>6. IndexNames' /\ TasksWait' /\ HandlersIndex'
  BY <1>1 DEF Inv, IndexNames, TasksWait, HandlersIndex
<1>7. CallersRead'
  BY <1>3 DEF Inv, CallersRead
<1>8. FinalizeReads'
  <2>1. Created' = Created
    BY <1>1 DEF Created, Current, VersionAt
  <2>2. CASE c = "finalize"
    BY <1>3, <2>2 DEF FinalizeReads
  <2>3. CASE c # "finalize"
    <3>1. call'["finalize"] = call["finalize"]
      BY <1>3, <2>3 DEF Callers
    <3> QED BY <1>1, <2>1, <3>1 DEF Inv, FinalizeReads
  <2> QED BY <2>2, <2>3
<1> QED BY <1>5, <1>6, <1>7, <1>8 DEF Inv

\* A commit, by a caller or elsewhere, which ends the caller's call or lets it
\* go on to createRecord.
LEMMA CommitKeeps ==
  ASSUME Inv, NEW v \in Versions, log' = Append(log, v),
         UNCHANGED <<session, allowed, index, queue, now, mishaps>>,
         call' \in [Callers -> CallT(Len(log))],
         \A c \in Callers : call'[c] = call[c] \/ call'[c].at \in {"idle", "create"},
         call'["finalize"] = call["finalize"] \/ call'["finalize"].at = "idle"
  PROVE  Inv'
<1>1. UNCHANGED <<session, allowed, pos, cursor, work, idx, walk, upset, dropped, scheduled, tasks, ran, lost, now, mishaps>>
  BY DEF index, queue
<1>2. /\ log' \in Seq(Versions)
      /\ Len(log') = Len(log) + 1 /\ Len(log) \in Nat
      /\ \A i \in 1 .. Len(log) : log'[i] = log[i]
      /\ \A u \in Uris : Current(u)' = IF v.u = u THEN Len(log) + 1 ELSE Current(u)
  BY Committed DEF Inv
<1>3. /\ CallT(Len(log)) \subseteq CallT(Len(log')) /\ TaskT(Len(log)) \subseteq TaskT(Len(log'))
      /\ WorkT(Len(log)) \subseteq WorkT(Len(log'))
  BY <1>2, TypesGrow
<1>4. TypeOK'
  <2>1. call' \in [Callers -> CallT(Len(log'))]
    BY <1>3
  <2>2. tasks \subseteq TaskT(Len(log'))
    BY <1>3 DEF Inv, TypeOK, TaskT
  <2>3. pos' \in 0 .. Len(log') /\ cursor' \in 0 .. pos' /\ walk' \in 0 .. Len(log')
    BY <1>1, <1>2 DEF Inv, TypeOK
  <2>4. idx' \in [Uris -> 0 .. Len(log')] /\ dropped' \subseteq 1 .. Len(log')
    BY <1>1, <1>2 DEF Inv, TypeOK
  <2>5. work' \subseteq WorkT(Len(log'))
    BY <1>1, <1>3 DEF Inv, TypeOK, WorkT
  <2> QED BY <1>1, <1>2, <2>1, <2>2, <2>3, <2>4, <2>5 DEF Inv, TypeOK, CallT, TaskT, WorkT, Versions
<1>5. IndexNames'
  <2> SUFFICES ASSUME NEW u \in Uris, idx'[u] # 0 PROVE log'[idx'[u]].u = u
    BY DEF IndexNames
  <2>1. idx[u] \in 1 .. Len(log)
    BY <1>1, <1>2 DEF Inv, TypeOK
  <2> QED BY <1>1, <1>2, <2>1 DEF Inv, IndexNames
<1>6. TasksWait' /\ HandlersIndex'
  <2>1. \A w \in work : log'[w.v] = log[w.v]
    BY <1>2 DEF Inv, TypeOK
  <2> QED BY <1>1, <2>1 DEF Inv, TasksWait, HandlersIndex
<1>7. CallersRead'
  BY DEF Inv, CallersRead
<1>8. FinalizeReads'
  <2>1. CASE call'["finalize"].at = "idle"
    BY <2>1 DEF FinalizeReads
  <2>2. CASE call'["finalize"] = call["finalize"] /\ call["finalize"].at = "put"
    <3> DEFINE f == call["finalize"]
    <3>0. "finalize" \in Callers
      BY DEF Callers
    <3>1. f.rec \in 1 .. Len(log)
      <4>1. f.rec # 0
        BY <2>2, <3>0 DEF Inv, CallersRead
      <4>2. f \in CallT(Len(log))
        BY <3>0 DEF Inv, TypeOK, CallT
      <4>3. f.rec \in 0 .. Len(log)
        BY <4>2 DEF CallT
      <4> QED BY <1>2, <4>1, <4>3
    <3>2. log'[f.rec] = log[f.rec]
      BY <1>2, <3>1
    <3>3. Created \subseteq Created'
      BY <1>2 DEF Created
    <3> QED BY <1>1, <2>2, <3>2, <3>3 DEF Inv, FinalizeReads
  <2>3. call["finalize"].at \in {"idle", "put"}
    BY DEF Inv, FinalizeReads
  <2> QED BY <2>1, <2>2, <2>3
<1> QED BY <1>4, <1>5, <1>6, <1>7, <1>8 DEF Inv

\* Latest is an indexed record, and no indexed one is newer.
LEMMA LatestIsIndexed ==
  ASSUME TypeOK
  PROVE  /\ Latest # 0 => Latest \in Uris /\ idx[Latest] # 0
         /\ \A u \in Uris : idx[u] # 0 => Latest \in Uris /\ u <= Latest
<1>0. Streams \in Nat /\ Uris \subseteq 0 .. Streams
  BY LivestreamRecordAssumption DEF Uris
<1>1. CASE \E u \in Uris : idx[u] # 0
  <2> DEFINE T == {u \in Uris : idx[u] # 0}
  <2>1. T \in SUBSET (0 .. Streams) /\ T # {}
    BY <1>0, <1>1
  <2>2. PICK x \in T : \A y \in T : y <= x
    BY <1>0, <2>1, MaxBelow
  <2>3. \E u \in Uris : idx[u] # 0 /\ \A w \in Uris : idx[w] # 0 => w <= u
    BY <2>2
  <2> QED BY <1>1, <2>3 DEF Latest
<1>2. CASE ~ \E u \in Uris : idx[u] # 0
  BY <1>2 DEF Latest
<1> QED BY <1>1, <1>2

\* The version the index has of a record.
LEMMA IndexedVersion ==
  ASSUME Inv, NEW u \in Uris, idx[u] # 0
  PROVE  /\ idx[u] \in 1 .. Len(log) /\ log[idx[u]] \in Versions
         /\ u \in Created
<1>1. log \in Seq(Versions) /\ Len(log) \in Nat
  BY LenProperties DEF Inv, TypeOK, Versions
<1>2. idx[u] \in 0 .. Len(log)
  BY DEF Inv, TypeOK
<1>3. idx[u] \in 1 .. Len(log)
  BY <1>1, <1>2
<1>4. log[idx[u]] \in Versions
  BY <1>1, <1>3, ElementOfSeq
<1>5. log[idx[u]].u = u
  BY DEF Inv, IndexNames
<1>6. Current(u) # 0
  BY <1>1, <1>3, <1>5, VersionIsLast DEF Current, Inv
<1> QED BY <1>3, <1>4, <1>6 DEF Created

\* Every writer reads a version, and each of its steps keeps the invariant.
LEMMA ReadersKeep ==
  ASSUME Inv, \/ BeatRead \/ StopRead \/ StartRead
              \/ \E u \in Uris : TeleportRead(u) \/ ModeratorRead(u) \/ OperatorRead(u)
              \/ \E c \in Callers : GetRecord(c) \/ CallFails(c)
  PROVE  Inv'
<1>0. /\ Len(log) \in Nat /\ now \in Nat /\ mishaps \in Nat /\ lost \subseteq Uris
      /\ log \in Seq(Versions)
      /\ \A c \in Callers : call[c] \in CallT(Len(log))
  BY LenProperties DEF Inv, TypeOK, Versions, CallT
<1>1. {"beat", "stop", "start", "teleport", "moderator", "operator", "finalize"} = Callers /\ 1 \in Uris
  BY LivestreamRecordAssumption DEF Callers, Uris
<1>q. Quiet \in CallT(Len(log)) /\ Quiet.at = "idle"
  BY <1>0, <1>1 DEF Quiet, CallT
<1>2. ASSUME NEW c \in Callers \ {"finalize"}, NEW u \in Uris, idx[u] # 0, Reads(c, u),
             UNCHANGED <<pds, index, queue, now, mishaps>>
      PROVE  Inv'
  <2> DEFINE r == [at |-> "get", u |-> u, rec |-> idx[u], swap |-> 0,
                   time |-> IF c = "start" THEN now ELSE 0]
  <2>1. r \in CallT(Len(log)) /\ r.rec # 0 /\ call' = [call EXCEPT ![c] = r]
    <3>1. idx[u] \in 0 .. Len(log) /\ 0 \in 0 .. Len(log)
      BY <1>0 DEF Inv, TypeOK
    <3>2. (IF c = "start" THEN now ELSE 0) \in Nat
      BY <1>0
    <3> QED BY <1>2, <3>1, <3>2 DEF CallT, Reads, Becomes
  <2> HIDE DEF r
  <2>2. UNCHANGED <<pds, index, tasks, ran, now>> /\ mishaps' \in Nat /\ lost' \subseteq Uris
    BY <1>0, <1>2 DEF queue
  <2> QED BY <1>2, <2>1, <2>2, CallKeeps
<1>3. CASE BeatRead
  <2>1. "beat" \in Callers \ {"finalize"} /\ Latest # 0
    BY <1>1, <1>3 DEF BeatRead
  <2>2. Latest \in Uris /\ idx[Latest] # 0
    BY <2>1, LatestIsIndexed DEF Inv
  <2> QED BY <1>2, <1>3, <2>1, <2>2 DEF BeatRead
<1>4. CASE StopRead
  <2>1. "stop" \in Callers \ {"finalize"} /\ Latest # 0
    BY <1>1, <1>4 DEF StopRead
  <2>2. Latest \in Uris /\ idx[Latest] # 0
    BY <2>1, LatestIsIndexed DEF Inv
  <2> QED BY <1>2, <1>4, <2>1, <2>2 DEF StopRead
<1>5. CASE StartRead
  <2>0. "start" \in Callers \ {"finalize"}
    BY <1>1
  <2>1. CASE Latest # 0 /\ ~log[idx[Latest]].ended
    <3>1. Latest \in Uris /\ idx[Latest] # 0
      BY <2>1, LatestIsIndexed DEF Inv
    <3> QED BY <1>2, <1>5, <2>0, <2>1, <3>1 DEF StartRead
  <2>2. CASE ~(Latest # 0 /\ ~log[idx[Latest]].ended)
    <3> DEFINE r == [Quiet EXCEPT !.at = "create", !.time = now]
    <3>1. r \in CallT(Len(log)) /\ r.at = "create"
      BY <1>0, <1>q DEF CallT
    <3>2. call' = [call EXCEPT !["start"] = r]
      BY <1>5, <2>2 DEF StartRead, Becomes
    <3> HIDE DEF r
    <3>3. UNCHANGED <<pds, index, tasks, ran, now>> /\ mishaps' \in Nat /\ lost' \subseteq Uris
      BY <1>0, <1>5 DEF queue, StartRead
    <3> QED BY <2>0, <3>1, <3>2, <3>3, CallKeeps
  <2> QED BY <2>1, <2>2
<1>6. ASSUME NEW u \in Uris, TeleportRead(u) PROVE Inv'
  <2> DEFINE r == [at |-> "put", u |-> u, rec |-> Current(u), swap |-> Current(u), time |-> 0]
  <2>1. Current(u) # 0 /\ Current(u) \in 0 .. Len(log)
    BY <1>6, CurrentType DEF TeleportRead, Created, Inv
  <2>2. r \in CallT(Len(log)) /\ r.rec # 0
    BY <2>1 DEF CallT
  <2>3. call' = [call EXCEPT !["teleport"] = r]
    BY <1>6 DEF TeleportRead, Becomes
  <2> HIDE DEF r
  <2>4. UNCHANGED <<pds, index, tasks, ran, now>> /\ mishaps' \in Nat /\ lost' \subseteq Uris
    BY <1>0, <1>6 DEF queue, TeleportRead
  <2>5. "teleport" \in Callers /\ "teleport" # "finalize"
    BY <1>1
  <2> QED BY <2>2, <2>3, <2>4, <2>5, CallKeeps
<1>7. ASSUME NEW u \in Uris, OperatorRead(u) PROVE Inv'
  <2> DEFINE r == [at |-> "put", u |-> u, rec |-> idx[u], swap |-> idx[u], time |-> 0]
  <2>1. idx[u] # 0 /\ idx[u] \in 0 .. Len(log)
    BY <1>7 DEF OperatorRead, Inv, TypeOK
  <2>2. r \in CallT(Len(log)) /\ r.rec # 0
    BY <2>1 DEF CallT
  <2>3. call' = [call EXCEPT !["operator"] = r]
    BY <1>7 DEF OperatorRead, EndIndexed, Becomes
  <2> HIDE DEF r
  <2>4. UNCHANGED <<pds, index, tasks, ran, now>> /\ mishaps' \in Nat /\ lost' \subseteq Uris
    BY <1>0, <1>7 DEF queue, OperatorRead
  <2>5. "operator" \in Callers /\ "operator" # "finalize"
    BY <1>1
  <2> QED BY <2>2, <2>3, <2>4, <2>5, CallKeeps
<1>8. ASSUME NEW c \in Callers, GetRecord(c) PROVE Inv'
  <2> DEFINE r == [call[c] EXCEPT !.at = "put", !.swap = Current(call[c].u)]
  <2>1. call[c] \in CallT(Len(log)) /\ call[c].u \in Uris /\ call[c].at = "get"
    BY <1>0, <1>8 DEF CallT, GetRecord
  <2>2. Current(call[c].u) \in 0 .. Len(log)
    BY <2>1, CurrentType DEF Inv
  <2>3. r \in CallT(Len(log)) /\ r.rec = call[c].rec
    BY <2>1, <2>2 DEF CallT
  <2>4. call[c].rec # 0
    BY <2>1 DEF Inv, CallersRead
  <2>5. call' = [call EXCEPT ![c] = r]
    BY <1>8 DEF GetRecord, Becomes
  <2> HIDE DEF r
  <2>6. c # "finalize"
    BY <2>1 DEF Inv, FinalizeReads
  <2>7. UNCHANGED <<pds, index, tasks, ran, now>> /\ mishaps' \in Nat /\ lost' \subseteq Uris
    BY <1>0, <1>8 DEF queue, GetRecord
  <2> QED BY <2>3, <2>4, <2>5, <2>6, <2>7, CallKeeps
<1>9. ASSUME NEW c \in Callers, CallFails(c) PROVE Inv'
  <2>1. call[c] \in CallT(Len(log)) /\ call[c].u \in Uris
    BY <1>0 DEF CallT
  <2>2. After(c) \in CallT(Len(log)) /\ After(c).at \in {"idle", "create"}
        /\ (c = "finalize" => After(c).at = "idle")
    BY <1>q, <2>1 DEF After, CallT
  <2>3. call' = [call EXCEPT ![c] = After(c)]
    BY <1>9 DEF CallFails, Becomes
  <2>4. UNCHANGED <<pds, index, tasks, ran, now>> /\ mishaps' \in Nat /\ lost' \subseteq Uris
    BY <1>0, <1>9, <2>1 DEF CallFails
  <2> QED BY <2>2, <2>3, <2>4, CallKeeps
<1>10. ASSUME NEW u \in Uris, ModeratorRead(u) PROVE Inv'
  <2> DEFINE r == [at |-> "copy", u |-> u, rec |-> Current(u), swap |-> 0, time |-> 0]
  <2>1. Current(u) # 0 /\ Current(u) \in 0 .. Len(log) /\ 0 \in 0 .. Len(log)
    BY <1>0, <1>10, CurrentType DEF ModeratorRead, Created, Inv
  <2>2. r \in CallT(Len(log)) /\ r.rec # 0
    BY <2>1 DEF CallT
  <2>3. call' = [call EXCEPT !["moderator"] = r]
    BY <1>10 DEF ModeratorRead, Becomes
  <2> HIDE DEF r
  <2>4. UNCHANGED <<pds, index, tasks, ran, now>> /\ mishaps' \in Nat /\ lost' \subseteq Uris
    BY <1>0, <1>10 DEF queue, ModeratorRead
  <2>5. "moderator" \in Callers /\ "moderator" # "finalize"
    BY <1>1
  <2> QED BY <2>2, <2>3, <2>4, <2>5, CallKeeps
<1> QED BY <1>3, <1>4, <1>5, <1>6, <1>7, <1>8, <1>9, <1>10

\* The commits.
LEMMA CommitsKeep ==
  ASSUME Inv, Elsewhere \/ StartCreate \/ ModeratorCreate \/ \E c \in Callers : PutRecord(c)
  PROVE  Inv'
<1>0. /\ Len(log) \in Nat /\ now \in Nat /\ mishaps \in Nat /\ lost \subseteq Uris
      /\ log \in Seq(Versions)
      /\ call \in [Callers -> CallT(Len(log))]
  BY LenProperties DEF Inv, TypeOK, Versions, CallT
<1>1. "start" \in Callers /\ "moderator" \in Callers /\ "finalize" \in Callers /\ 1 \in Uris
  BY LivestreamRecordAssumption DEF Callers, Uris
<1>q. Quiet \in CallT(Len(log)) /\ Quiet.at = "idle"
  BY <1>0, <1>1 DEF Quiet, CallT
<1>2. CASE Elsewhere
  <2>1. PICK v \in Versions : Commit(v)
    <3>1. ASSUME NEW u \in Uris \ Created, Commit(Version(u, now, FALSE))
          PROVE  \E v \in Versions : Commit(v)
      <4>1. Version(u, now, FALSE) \in Versions
        BY <1>0 DEF Version, Versions
      <4> QED BY <3>1, <4>1
    <3>2. ASSUME NEW u \in Created,
                 \/ Commit(Version(u, now, log[Current(u)].ended))
                 \/ Commit(Version(u, log[Current(u)].seen, TRUE))
          PROVE  \E v \in Versions : Commit(v)
      <4>1. u \in Uris /\ log[Current(u)] \in Versions
        BY CurrentType DEF Created, Inv
      <4>2. log[Current(u)].ended \in BOOLEAN /\ log[Current(u)].seen \in Nat
        BY <4>1 DEF Versions
      <4>3. /\ Version(u, now, log[Current(u)].ended) \in Versions
            /\ Version(u, log[Current(u)].seen, TRUE) \in Versions
        BY <1>0, <4>1, <4>2 DEF Version, Versions
      <4> QED BY <3>2, <4>3
    <3> QED BY <1>2, <3>1, <3>2 DEF Elsewhere
  <2>2. UNCHANGED <<index, queue, call, now, mishaps>>
    BY <1>2 DEF Elsewhere
  <2> QED BY <1>0, <2>1, <2>2, CommitKeeps DEF Commit
<1>3. CASE StartCreate
  <2>1. PICK u \in Uris : Commit(Version(u, call["start"].time, FALSE))
    BY <1>3 DEF StartCreate
  <2>2. call["start"].time \in Nat
    BY <1>0, <1>1 DEF CallT
  <2>3. Version(u, call["start"].time, FALSE) \in Versions
    BY <2>2 DEF Version, Versions
  <2>4. call' = [call EXCEPT !["start"] = Quiet] /\ UNCHANGED <<index, queue, now, mishaps>>
    BY <1>3 DEF StartCreate, Becomes
  <2>5. /\ call' \in [Callers -> CallT(Len(log))]
        /\ \A c \in Callers : call'[c] = call[c] \/ call'[c].at = "idle"
        /\ call'["finalize"] = call["finalize"]
    BY <1>0, <1>1, <1>q, <2>4
  <2> QED BY <2>1, <2>3, <2>4, <2>5, CommitKeeps DEF Commit
<1>4. ASSUME NEW c \in Callers, PutRecord(c) PROVE Inv'
  <2>1. call[c] \in CallT(Len(log)) /\ call[c].at = "put"
    BY <1>0, <1>4 DEF PutRecord
  <2>2. After(c) \in CallT(Len(log)) /\ After(c).at \in {"idle", "create"}
        /\ (c = "finalize" => After(c).at = "idle")
    BY <1>q, <2>1 DEF After, CallT
  <2>3. call' = [call EXCEPT ![c] = After(c)] /\ UNCHANGED <<index, queue, now, mishaps>>
    BY <1>4 DEF PutRecord, Becomes
  <2>4. CASE Accepted(c)
    <3>1. Written(c) \in Versions
      BY <2>1, WrittenType DEF Inv
    <3>2. log' = Append(log, Written(c)) /\ UNCHANGED <<session, allowed>>
      BY <1>4, <2>4 DEF PutRecord, Commit
    <3>3. /\ call' \in [Callers -> CallT(Len(log))]
          /\ \A d \in Callers : call'[d] = call[d] \/ call'[d].at \in {"idle", "create"}
          /\ call'["finalize"] = call["finalize"] \/ call'["finalize"].at = "idle"
      BY <1>0, <1>1, <2>2, <2>3
    <3> QED BY <2>3, <3>1, <3>2, <3>3, CommitKeeps
  <2>5. CASE ~Accepted(c)
    <3>1. UNCHANGED <<pds, index, tasks, ran, now>> /\ mishaps' \in Nat /\ lost' \subseteq Uris
      BY <1>0, <1>4, <2>3, <2>5 DEF PutRecord, queue
    <3> QED BY <2>2, <2>3, <3>1, CallKeeps
  <2> QED BY <2>4, <2>5
<1>5. CASE ModeratorCreate
  <2> DEFINE n == call["moderator"].rec
  <2>1. PICK u \in Uris : Commit(Version(u, log[n].seen, log[n].ended))
    BY <1>5 DEF ModeratorCreate
  <2>2. n \in 1 .. Len(log)
    <3>1. n # 0 /\ n \in 0 .. Len(log)
      BY <1>0, <1>1, <1>5 DEF ModeratorCreate, Inv, CallersRead, CallT
    <3> QED BY <1>0, <3>1
  <2>3. log[n] \in Versions
    BY <1>0, <2>2, ElementOfSeq
  <2> HIDE DEF n
  <2>4. Version(u, log[n].seen, log[n].ended) \in Versions
    BY <2>3 DEF Version, Versions
  <2>5. call' = [call EXCEPT !["moderator"] = Quiet] /\ UNCHANGED <<index, queue, now, mishaps>>
    BY <1>5 DEF ModeratorCreate, Becomes
  <2>6. /\ call' \in [Callers -> CallT(Len(log))]
        /\ \A c \in Callers : call'[c] = call[c] \/ call'[c].at = "idle"
        /\ call'["finalize"] = call["finalize"]
    BY <1>0, <1>1, <1>q, <2>5
  <2> QED BY <2>1, <2>4, <2>5, <2>6, CommitKeeps DEF Commit
<1> QED BY <1>2, <1>3, <1>4, <1>5

\* A step that leaves the repository, the callers and the clock alone.
LEMMA IndexSide ==
  ASSUME Inv, UNCHANGED <<log, call, now>>
  PROVE  CallersRead' /\ FinalizeReads'
BY DEF Inv, CallersRead, FinalizeReads, Created, Current, VersionAt

\* What a handler has is a version.
LEMMA HandledVersion ==
  ASSUME Inv, NEW w \in work
  PROVE  log[w.v].u \in Uris
<1>1. log \in Seq(Versions) /\ Len(log) \in Nat
  BY LenProperties DEF Inv, TypeOK, Versions
<1>2. w.v \in 1 .. Len(log)
  BY DEF Inv, TypeOK
<1>3. log[w.v] \in Versions
  BY <1>1, <1>2, ElementOfSeq
<1> QED BY <1>3 DEF Versions

\* The walk keeps the invariant.
LEMMA WalkKeeps ==
  ASSUME Inv, WalkFetch \/ WalkIndex
  PROVE  Inv'
<1>0. /\ Len(log) \in Nat /\ now \in Nat
      /\ log \in Seq(Versions) /\ idx \in [Uris -> 0 .. Len(log)]
      /\ tasks \subseteq TaskT(Len(log)) /\ work \subseteq WorkT(Len(log))
  BY LenProperties DEF Inv, TypeOK, Versions, TaskT, WorkT
<1>2. CASE WalkFetch
  <2>1. /\ walk' \in 0 .. Len(log) /\ mishaps' \in Nat
        /\ UNCHANGED <<log, session, allowed, pos, cursor, work, idx, upset, dropped, scheduled,
                       tasks, ran, lost, call, now>>
    BY <1>0, <1>2 DEF WalkFetch, pds, queue, Inv, TypeOK
  <2>2. TypeOK'
    BY <2>1 DEF Inv, TypeOK
  <2>3. IndexNames' /\ TasksWait' /\ HandlersIndex'
    BY <2>1 DEF Inv, IndexNames, TasksWait, HandlersIndex
  <2> QED BY <2>1, <2>2, <2>3, IndexSide DEF Inv
<1>3. CASE WalkIndex
  <2>1. walk \in 0 .. Len(log) /\ walk \in Nat
    BY <1>0 DEF Inv, TypeOK
  <2>2. \A u \in Uris : /\ VersionAt(walk, u) \in 0 .. Len(log)
                        /\ VersionAt(walk, u) # 0 => log[VersionAt(walk, u)].u = u
    <3> SUFFICES ASSUME NEW u \in Uris
                 PROVE  /\ VersionAt(walk, u) \in 0 .. Len(log)
                        /\ VersionAt(walk, u) # 0 => log[VersionAt(walk, u)].u = u
      OBVIOUS
    <3>1. VersionAt(walk, u) \in 0 .. walk
          /\ (VersionAt(walk, u) # 0 => log[VersionAt(walk, u)].u = u)
      BY <2>1, VersionIsLast DEF Inv
    <3> QED BY <1>0, <2>1, <3>1
  <2>3. idx' = [u \in Uris |-> IF VersionAt(walk, u) # 0 THEN VersionAt(walk, u) ELSE idx[u]]
    BY <1>3 DEF WalkIndex
  <2>4. /\ idx' \in [Uris -> 0 .. Len(log)]
        /\ \A u \in Uris : /\ idx'[u] # 0 => log[idx'[u]].u = u
                           /\ idx[u] # 0 => idx'[u] # 0
    BY <1>0, <2>2, <2>3 DEF Inv, IndexNames
  <2>5. walk' = 0 /\ upset' \subseteq Uris
        /\ UNCHANGED <<log, session, allowed, pos, cursor, work, dropped, scheduled,
                       tasks, ran, lost, call, now, mishaps>>
    BY <1>3 DEF WalkIndex, pds, queue, Inv, TypeOK
  <2>6. TypeOK'
    <3>1. idx' \in [Uris -> 0 .. Len(log')] /\ walk' \in 0 .. Len(log')
      BY <1>0, <2>4, <2>5
    <3> QED BY <2>5, <3>1 DEF Inv, TypeOK
  <2>7. IndexNames'
    BY <2>4, <2>5 DEF IndexNames
  <2>8. TasksWait'
    <3>1. \A t \in tasks : t.u \in Uris
      BY <1>0 DEF TaskT
    <3> QED BY <2>4, <2>5, <3>1 DEF Inv, TasksWait
  <2>9. HandlersIndex'
    BY <1>0, <2>4, <2>5, HandledVersion DEF Inv, HandlersIndex
  <2> QED BY <2>5, <2>6, <2>7, <2>8, <2>9, IndexSide DEF Inv
<1> QED BY <1>2, <1>3

\* A commit is claimed.
LEMMA ClaimKeeps ==
  ASSUME Inv, Claim
  PROVE  Inv'
<1> DEFINE w == [v |-> pos + 1, at |-> IF log[pos + 1].ended THEN "read" ELSE "index", ending |-> FALSE]
<1>0. /\ Len(log) \in Nat /\ pos \in 0 .. Len(log) /\ cursor \in 0 .. pos
      /\ work \subseteq WorkT(Len(log))
  BY LenProperties DEF Inv, TypeOK, WorkT
<1>1. /\ pos' = pos + 1 /\ pos < Len(log) /\ work' = work \cup {w}
      /\ UNCHANGED <<log, session, allowed, cursor, idx, walk, upset, dropped, scheduled,
                     tasks, ran, lost, call, now, mishaps>>
  BY DEF Claim, pds, queue
<1>2. w \in WorkT(Len(log)) /\ w.at # "schedule"
  BY <1>0, <1>1 DEF WorkT
<1> HIDE DEF w
<1>3. TypeOK'
  <2>1. pos' \in 0 .. Len(log') /\ cursor' \in 0 .. pos'
    BY <1>0, <1>1
  <2>2. work' \subseteq WorkT(Len(log'))
    BY <1>0, <1>1, <1>2
  <2> QED BY <1>1, <2>1, <2>2 DEF Inv, TypeOK, WorkT
<1>4. IndexNames' /\ TasksWait'
  BY <1>1 DEF Inv, IndexNames, TasksWait
<1>5. HandlersIndex'
  BY <1>1, <1>2 DEF Inv, HandlersIndex
<1> QED BY <1>1, <1>3, <1>4, <1>5, IndexSide DEF Inv

\* The handlers: what they index and schedule is a version of their record.
LEMMA HandlersKeep ==
  ASSUME Inv, NEW w \in work, HandlerStep(w) \/ HandlerFails(w)
  PROVE  Inv'
<1> DEFINE u == log[w.v].u
<1>0. /\ Len(log) \in Nat /\ log \in Seq(Versions) /\ idx \in [Uris -> 0 .. Len(log)]
      /\ tasks \subseteq TaskT(Len(log)) /\ ran \subseteq tasks
      /\ work \subseteq WorkT(Len(log)) /\ w \in WorkT(Len(log))
      /\ mishaps \in Nat /\ upset \subseteq Uris /\ scheduled \subseteq Uris /\ dropped \subseteq 1 .. Len(log)
  BY LenProperties DEF Inv, TypeOK, Versions, TaskT, WorkT
<1>1. w.v \in 1 .. Len(log) /\ log[w.v] \in Versions /\ u \in Uris /\ w.v # 0
  <2>1. w.v \in 1 .. Len(log)
    BY <1>0 DEF WorkT
  <2>2. log[w.v] \in Versions
    BY <1>0, <2>1, ElementOfSeq
  <2> QED BY <1>0, <2>1, <2>2 DEF Versions
<1>2. UNCHANGED <<log, session, allowed, pos, cursor, walk, ran, lost, call, now>>
  BY DEF HandlerStep, HandlerReads, HandlerIndexes, HandlerSchedules, HandlerFails, HandlerKeeps, pds
\* What a step does to the handlers, the index and the tasks.
<1>3. ASSUME work' \subseteq WorkT(Len(log)),
             \A x \in work' : x.at = "schedule" => x \in work \/ (x.v = w.v /\ idx'[u] # 0),
             UNCHANGED idx \/ idx' = [idx EXCEPT ![u] = w.v],
             tasks' = tasks \/ (idx[u] # 0 /\ tasks' = tasks \cup {FinalizeTask(w.v)}),
             upset' \subseteq Uris, scheduled' \subseteq Uris, dropped' \subseteq 1 .. Len(log), mishaps' \in Nat
      PROVE  Inv'
  <2>1. /\ idx' \in [Uris -> 0 .. Len(log)]
        /\ \A x \in Uris : /\ idx'[x] # 0 => log[idx'[x]].u = x
                           /\ idx[x] # 0 => idx'[x] # 0
    BY <1>0, <1>1, <1>3, SMTT(40) DEF Inv, IndexNames
  <2>2. /\ FinalizeTask(w.v) \in TaskT(Len(log))
        /\ FinalizeTask(w.v).u = u /\ FinalizeTask(w.v).stale = 0
    BY <1>0, <1>1, LivestreamRecordAssumption DEF FinalizeTask, TaskT, Versions
  <2>3. tasks' \subseteq TaskT(Len(log)) /\ ran' \subseteq tasks' /\ work' \subseteq WorkT(Len(log))
    <3>1. tasks \subseteq tasks' /\ tasks' \subseteq TaskT(Len(log))
      BY <1>0, <1>3, <2>2
    <3> QED BY <1>0, <1>2, <1>3, <3>1
  <2>4. TypeOK'
    BY <1>2, <1>3, <2>1, <2>3 DEF Inv, TypeOK, TaskT, WorkT
  <2>5. IndexNames'
    BY <1>2, <2>1 DEF IndexNames
  <2>6. TasksWait'
    <3> SUFFICES ASSUME NEW t \in tasks'
                 PROVE  idx'[t.u] # 0 /\ (t.stale # 0 => t.at >= t.stale + 2 * Idle)
      BY DEF TasksWait
    <3>1. CASE t \in tasks
      <4>1. t.u \in Uris
        BY <1>0, <3>1 DEF TaskT
      <4> QED BY <2>1, <3>1, <4>1 DEF Inv, TasksWait
    <3>2. CASE t \notin tasks
      <4>1. t = FinalizeTask(w.v) /\ idx[u] # 0
        BY <1>3, <3>2
      <4> QED BY <1>1, <2>1, <2>2, <4>1
    <3> QED BY <3>1, <3>2
  <2>7. HandlersIndex'
    <3> SUFFICES ASSUME NEW x \in work', x.at = "schedule" PROVE idx'[log[x.v].u] # 0
      BY <1>2 DEF HandlersIndex
    <3>1. CASE x \in work
      BY <2>1, <3>1, HandledVersion DEF Inv, HandlersIndex
    <3> QED BY <1>3, <3>1
  <2> QED BY <1>2, <2>4, <2>5, <2>6, <2>7, IndexSide DEF Inv
<1>4. CASE HandlerReads(w)
  <2> DEFINE x == [w EXCEPT !.at = "index", !.ending = SeenEnding(w.v)]
  <2>1. x \in WorkT(Len(log)) /\ x.at = "index"
    BY <1>0 DEF WorkT, SeenEnding
  <2>2. work' = (work \ {w}) \cup {x} /\ UNCHANGED <<idx, upset, dropped, scheduled, tasks, mishaps>>
    BY <1>4 DEF HandlerReads, HandlerBecomes
  <2> HIDE DEF x
  <2>3. /\ work' \subseteq WorkT(Len(log))
        /\ \A y \in work' : y.at = "schedule" => y \in work
    BY <1>0, <2>1, <2>2
  <2> QED BY <1>0, <1>3, <2>2, <2>3
<1>5. CASE HandlerIndexes(w)
  <2>0. UNCHANGED <<dropped, scheduled, tasks, mishaps>>
    BY <1>5 DEF HandlerIndexes
  <2>1. CASE work' = (work \ {w}) \cup {} /\ UNCHANGED <<idx, upset>>
    <3>1. work' \subseteq WorkT(Len(log)) /\ work' \subseteq work
      BY <1>0, <2>1
    <3> QED BY <1>0, <1>3, <2>0, <2>1, <3>1
  <2>2. CASE /\ work' = (work \ {w}) \cup {[w EXCEPT !.at = "schedule"]}
             /\ idx' = [idx EXCEPT ![u] = w.v]
             /\ upset' = IF idx[u] > w.v THEN upset \cup {u} ELSE upset
    <3> DEFINE x == [w EXCEPT !.at = "schedule"]
    <3>1. x \in WorkT(Len(log)) /\ x.v = w.v
      BY <1>0 DEF WorkT
    <3>2. idx'[u] # 0 /\ upset' \subseteq Uris
      BY <1>0, <1>1, <2>2
    <3>3. work' = (work \ {w}) \cup {x} /\ idx' = [idx EXCEPT ![u] = w.v]
      BY <2>2
    <3> HIDE DEF x
    <3>4. /\ work' \subseteq WorkT(Len(log))
          /\ \A y \in work' : y \in work \/ y = x
      BY <1>0, <3>1, <3>3
    <3> QED BY <1>0, <1>3, <2>0, <3>1, <3>2, <3>3, <3>4
  <2> QED BY <1>5, <2>1, <2>2 DEF HandlerIndexes, HandlerBecomes
<1>6. CASE HandlerSchedules(w)
  <2>1. idx[u] # 0
    BY <1>6 DEF HandlerSchedules, Inv, HandlersIndex
  <2>2. /\ work' = (work \ {w}) \cup {} /\ UNCHANGED <<idx, upset, dropped, mishaps>>
        /\ scheduled' = scheduled \/ scheduled' = scheduled \cup {u}
        /\ tasks' = tasks \/ tasks' = tasks \cup {FinalizeTask(w.v)}
    BY <1>6 DEF HandlerSchedules, HandlerBecomes
  <2>3. scheduled' \subseteq Uris
    BY <1>0, <1>1, <2>2
  <2>4. work' \subseteq WorkT(Len(log)) /\ work' \subseteq work
    BY <1>0, <2>2
  <2> QED BY <1>0, <1>3, <2>1, <2>2, <2>3, <2>4
<1>7. CASE HandlerFails(w)
  <2>1. /\ work' = (work \ {w}) \cup {} /\ UNCHANGED <<idx, upset, scheduled, tasks>>
        /\ mishaps' = mishaps + 1 /\ dropped' = dropped \cup {w.v}
    BY <1>7 DEF HandlerFails, HandlerBecomes
  <2>2. mishaps' \in Nat
    BY <1>0, <2>1
  <2>3. dropped' \subseteq 1 .. Len(log)
    <3> HIDE DEF u
    <3> QED BY <1>0, <1>1, <2>1
  <2>4. work' \subseteq WorkT(Len(log)) /\ work' \subseteq work
    BY <1>0, <2>1
  <2> QED BY <1>0, <1>3, <2>1, <2>2, <2>3, <2>4
<1> QED BY <1>4, <1>5, <1>6, <1>7 DEF HandlerStep

\* The idle task: what it reads justifies what it will write.
LEMMA FinalizeKeeps ==
  ASSUME Inv, NEW t \in tasks, RunFinalize(t)
  PROVE  Inv'
<1> DEFINE seen == log[idx[t.u]].seen
<1>0. /\ Len(log) \in Nat /\ now \in Nat /\ Idle \in Nat
      /\ call \in [Callers -> CallT(Len(log))]
      /\ tasks \subseteq TaskT(Len(log)) /\ ran \subseteq tasks
      /\ "finalize" \in Callers
  BY LenProperties, LivestreamRecordAssumption DEF Inv, TypeOK, CallT, TaskT, Callers
<1>1. t.u \in Uris /\ t.at \in Nat /\ t.stale \in Nat /\ t.at <= now
  BY <1>0 DEF TaskT, RunFinalize, Due
<1>2. idx[t.u] # 0 /\ (t.stale # 0 => t.at >= t.stale + 2 * Idle)
  BY DEF Inv, TasksWait
<1>3. idx[t.u] \in 1 .. Len(log) /\ log[idx[t.u]] \in Versions /\ t.u \in Created
  BY <1>1, <1>2, IndexedVersion
<1>4. seen \in Nat
  BY <1>3 DEF Versions
<1>5. /\ ran' = ran \cup {t}
      /\ UNCHANGED <<log, session, allowed, pos, cursor, work, idx, walk, upset, dropped, scheduled, lost, now, mishaps>>
  BY DEF RunFinalize, pds, index
<1>c. Created' = Created
  BY <1>5 DEF Created, Current, VersionAt
<1>6. CASE UNCHANGED <<tasks, call>>
  <2>1. TypeOK' /\ IndexNames' /\ TasksWait' /\ HandlersIndex' /\ CallersRead'
    BY <1>5, <1>6 DEF Inv, TypeOK, IndexNames, TasksWait, HandlersIndex, CallersRead
  <2>2. FinalizeReads'
    BY <1>5, <1>6, <1>c DEF Inv, FinalizeReads
  <2> QED BY <2>1, <2>2 DEF Inv
<1>7. CASE now - seen >= Idle /\ tasks' = tasks \cup {Rescheduled(t, seen)} /\ UNCHANGED call
  <2>1. /\ Rescheduled(t, seen) \in TaskT(Len(log))
        /\ Rescheduled(t, seen).u = t.u
        /\ Rescheduled(t, seen).at = now + Idle /\ Rescheduled(t, seen).stale = seen
    <3>1. t \in TaskT(Len(log)) /\ now + Idle \in Nat
      BY <1>0
    <3> HIDE DEF seen
    <3> QED BY <1>4, <3>1 DEF Rescheduled, TaskT
  <2>2. tasks' \subseteq TaskT(Len(log)) /\ ran' \subseteq tasks'
    BY <1>0, <1>5, <1>7, <2>1
  <2>3. TypeOK'
    BY <1>5, <1>7, <2>2 DEF Inv, TypeOK, TaskT
  <2>4. now + Idle >= seen + 2 * Idle
    BY <1>0, <1>4, <1>7
  <2>5. TasksWait'
    <3> SUFFICES ASSUME NEW x \in tasks'
                 PROVE  idx[x.u] # 0 /\ (x.stale # 0 => x.at >= x.stale + 2 * Idle)
      BY <1>5 DEF TasksWait
    <3>1. CASE x \in tasks
      BY <3>1 DEF Inv, TasksWait
    <3>2. CASE x = Rescheduled(t, seen)
      BY <1>2, <2>1, <2>4, <3>2
    <3> QED BY <1>7, <3>1, <3>2
  <2>6. IndexNames' /\ HandlersIndex' /\ CallersRead'
    BY <1>5, <1>7 DEF Inv, IndexNames, HandlersIndex, CallersRead
  <2>7. FinalizeReads'
    BY <1>5, <1>7, <1>c DEF Inv, FinalizeReads
  <2> QED BY <2>3, <2>5, <2>6, <2>7 DEF Inv
<1>8. CASE /\ now - seen >= Idle
           /\ t.u = Latest => HeartbeatFrozen(t, seen)
           /\ EndIndexed("finalize", t.u)
           /\ UNCHANGED tasks
  <2> DEFINE r == [at |-> "put", u |-> t.u, rec |-> idx[t.u], swap |-> idx[t.u], time |-> 0]
  <2>1. r \in CallT(Len(log))
    BY <1>0, <1>1, <1>3 DEF CallT
  <2>2. call' = [call EXCEPT !["finalize"] = r]
    BY <1>8 DEF EndIndexed, Becomes
  <2>3. r.at = "put" /\ r.u = t.u /\ r.rec = idx[t.u] /\ r.swap = idx[t.u]
    OBVIOUS
  <2> HIDE DEF r
  <2>4. /\ call' \in [Callers -> CallT(Len(log))]
        /\ call'["finalize"] = r
        /\ \A c \in Callers : c # "finalize" => call'[c] = call[c]
    BY <1>0, <2>1, <2>2
  <2>5. TypeOK'
    <3>1. call' \in [Callers -> CallT(Len(log'))] /\ ran' \subseteq tasks'
      BY <1>0, <1>5, <1>8, <2>4
    <3> QED BY <1>5, <1>8, <3>1 DEF Inv, TypeOK, CallT
  <2>6. CallersRead'
    BY <1>2, <2>3, <2>4 DEF Inv, CallersRead
  <2>7. (\A w \in Created : w <= t.u) => now - seen >= 2 * Idle
    <3> SUFFICES ASSUME \A w \in Created : w <= t.u PROVE now - seen >= 2 * Idle
      OBVIOUS
    <3>1. Latest \in Uris /\ t.u <= Latest /\ Latest # 0 /\ idx[Latest] # 0
      BY <1>1, <1>2, LatestIsIndexed DEF Inv, Uris
    <3>2. Latest \in Created
      BY <3>1, IndexedVersion
    <3>3. Latest = t.u
      BY <1>1, <3>1, <3>2, LivestreamRecordAssumption DEF Uris
    <3>4. t.stale # 0 /\ t.stale = seen
      BY <1>8, <3>3 DEF HeartbeatFrozen
    <3> QED BY <1>0, <1>1, <1>2, <1>4, <3>4
  <2>8. FinalizeReads'
    BY <1>5, <1>8, <1>c, <2>3, <2>4, <2>7 DEF FinalizeReads
  <2>9. IndexNames' /\ TasksWait' /\ HandlersIndex'
    BY <1>5, <1>8 DEF Inv, IndexNames, TasksWait, HandlersIndex
  <2> QED BY <2>5, <2>6, <2>8, <2>9 DEF Inv
<1> QED BY <1>6, <1>7, <1>8 DEF RunFinalize

\* Time passes.
LEMMA TickKeeps ==
  ASSUME Inv, Tick
  PROVE  Inv'
<1>1. /\ now \in Nat /\ now' = now + 1 /\ cursor' = pos /\ Idle \in Nat
      /\ UNCHANGED <<log, session, allowed, pos, work, idx, walk, upset, dropped, scheduled, tasks, ran, lost, call, mishaps>>
  BY LivestreamRecordAssumption DEF Tick, pds, queue, Inv, TypeOK
<1>2. Created' = Created
  BY <1>1 DEF Created, Current, VersionAt
<1>3. TypeOK'
  <2>1. pos' \in 0 .. Len(log') /\ cursor' \in 0 .. pos' /\ now' \in Nat
    BY <1>1, LenProperties DEF Inv, TypeOK
  <2> QED BY <1>1, <2>1 DEF Inv, TypeOK
<1>4. IndexNames' /\ TasksWait' /\ HandlersIndex' /\ CallersRead'
  BY <1>1 DEF Inv, IndexNames, TasksWait, HandlersIndex, CallersRead
<1>5. FinalizeReads'
  <2>1. CASE call["finalize"].at = "idle"
    BY <1>1, <2>1 DEF FinalizeReads
  <2>2. CASE call["finalize"].at = "put"
    <3>1. "finalize" \in Callers
      BY DEF Callers
    <3>2. log[call["finalize"].rec].seen \in Nat
      BY <2>2, <3>1, WrittenType DEF Inv, Versions
    <3> QED BY <1>1, <1>2, <2>2, <3>2 DEF Inv, FinalizeReads
  <2> QED BY <2>1, <2>2 DEF Inv, FinalizeReads
<1> QED BY <1>3, <1>4, <1>5 DEF Inv

\* The node dies and starts again.
LEMMA RestartKeeps ==
  ASSUME Inv, Restart
  PROVE  Inv'
<1>0. /\ Len(log) \in Nat /\ log \in Seq(Versions)
      /\ pos \in 0 .. Len(log) /\ cursor \in 0 .. pos /\ mishaps \in Nat
      /\ lost \subseteq Uris /\ upset \subseteq Uris
      /\ call \in [Callers -> CallT(Len(log))] /\ "finalize" \in Callers /\ 1 \in Uris
  <2>1. log \in Seq(Versions) /\ call \in [Callers -> CallT(Len(log))]
    BY DEF Inv, TypeOK, Versions, CallT
  <2>2. Len(log) \in Nat
    BY <2>1, LenProperties
  <2>3. "finalize" \in Callers /\ 1 \in Uris
    BY LivestreamRecordAssumption DEF Callers, Uris
  <2> QED BY <2>1, <2>2, <2>3 DEF Inv, TypeOK
<1>1. /\ walk' = 0 /\ mishaps' = mishaps + 1 /\ work' = {}
      /\ call' = [c \in Callers |-> Quiet]
      /\ UNCHANGED <<log, session, allowed, cursor, idx, scheduled, tasks, ran, now>>
  BY DEF Restart, pds
<1>2. pos' \in 0 .. Len(log) /\ cursor \in 0 .. pos'
  BY <1>0 DEF Restart
<1>3. \A i \in 1 .. Len(log) : log[i].u \in Uris
  <2> SUFFICES ASSUME NEW i \in 1 .. Len(log) PROVE log[i].u \in Uris
    OBVIOUS
  <2>1. log[i] \in Versions
    BY <1>0, ElementOfSeq
  <2> QED BY <2>1 DEF Versions
<1>4. upset' \subseteq Uris
  <2>1. upset' = upset \cup {log[i].u : i \in (pos' + 1) .. pos}
    BY DEF Restart
  <2>2. (pos' + 1) .. pos \subseteq 1 .. Len(log)
    <3>1. pos \in Nat /\ pos <= Len(log) /\ pos' \in Nat
      BY <1>0, <1>2
    <3>2. \A a, b \in Nat : b <= Len(log) => (a + 1) .. b \subseteq 1 .. Len(log)
      BY <1>0
    <3> QED BY <3>1, <3>2
  <2> QED BY <1>0, <1>3, <2>1, <2>2
<1>d. dropped' \subseteq 1 .. Len(log)
  <2>1. dropped \subseteq 1 .. Len(log) /\ \A w \in work : w.v \in 1 .. Len(log)
    BY DEF Inv, TypeOK
  <2> QED BY <2>1 DEF Restart
<1>5. lost' \subseteq Uris
  <2>1. call["finalize"].u \in Uris
    BY <1>0 DEF CallT
  <2> QED BY <1>0, <2>1 DEF Restart
<1>6. Quiet \in CallT(Len(log)) /\ Quiet.at = "idle"
  BY <1>0 DEF Quiet, CallT
<1>7. call' \in [Callers -> CallT(Len(log'))] /\ \A c \in Callers : call'[c].at = "idle"
  BY <1>1, <1>6
<1>8. TypeOK'
  <2>1. pos' \in 0 .. Len(log') /\ cursor' \in 0 .. pos' /\ walk' \in 0 .. Len(log') /\ mishaps' \in Nat
    BY <1>0, <1>1, <1>2
  <2> QED BY <1>1, <1>4, <1>5, <1>d, <1>7, <2>1 DEF Inv, TypeOK, CallT
<1>9. IndexNames' /\ TasksWait' /\ HandlersIndex'
  BY <1>1 DEF Inv, IndexNames, TasksWait, HandlersIndex
<1>10. CallersRead' /\ FinalizeReads'
  BY <1>0, <1>7 DEF CallersRead, FinalizeReads
<1> QED BY <1>8, <1>9, <1>10 DEF Inv

\* Every step keeps the invariant.
LEMMA RecordStep == Inv /\ [Next]_vars => Inv'
<1> SUFFICES ASSUME Inv, [Next]_vars PROVE Inv'
  OBVIOUS
<1>1. CASE Next
  <2>1. CASE \E c \in Callers : CallerStep(c) \/ CallFails(c)
    BY <2>1, ReadersKeep, CommitsKeep DEF CallerStep
  <2> QED
    BY <1>1, <2>1, ReadersKeep, CommitsKeep, WalkKeeps, ClaimKeeps, HandlersKeep, FinalizeKeeps, TickKeeps, RestartKeeps
    DEF Next
<1>2. CASE UNCHANGED vars
  <2>1. UNCHANGED <<log, session, allowed, pos, cursor, work, idx, walk, upset, dropped, scheduled, tasks, ran, lost, call, now, mishaps>>
    BY <1>2 DEF vars, pds, index, queue
  <2>2. Created' = Created
    BY <2>1 DEF Created, Current, VersionAt
  <2>3. TypeOK' /\ IndexNames' /\ TasksWait' /\ HandlersIndex' /\ CallersRead'
    BY <2>1 DEF Inv, TypeOK, IndexNames, TasksWait, HandlersIndex, CallersRead
  <2>4. FinalizeReads'
    BY <2>1, <2>2 DEF Inv, FinalizeReads
  <2> QED BY <2>3, <2>4 DEF Inv
<1> QED BY <1>1, <1>2

\* The invariant holds in every reachable state.
LEMMA RecordInvariant == Spec => []Inv
BY RecordInit, RecordStep, PTL DEF Spec

-----------------------------------------------------------------------------
\* A step that takes an ending back is a heartbeat that puts another version
\* than the one it replaces.
LEMMA RevivingStep ==
  ASSUME Inv, [Next]_vars, NEW u \in Uris, Ended(u), ~Ended(u)'
  PROVE  /\ call["beat"].at = "put" /\ call["beat"].u = u
         /\ call["beat"].rec # call["beat"].swap
<1>0. TypeOK /\ CallersRead /\ now \in Nat /\ "beat" \in Callers /\ "start" \in Callers
  BY DEF Inv, TypeOK, Callers
<1>1. log' # log
  <2> SUFFICES ASSUME log' = log PROVE FALSE
    OBVIOUS
  <2> QED BY DEF Ended, Current, VersionAt
<1>2. u \in Created /\ Current(u) # 0 /\ log[Current(u)].ended
  BY SMTT(40) DEF Ended, Created
<1>3. Elsewhere \/ StartCreate \/ ModeratorCreate \/ \E c \in Callers : PutRecord(c) /\ Accepted(c)
  BY <1>1 DEF Next, vars, pds, Claim, HandlerStep, HandlerReads, HandlerIndexes, HandlerSchedules, HandlerFails,
     HandlerKeeps, WalkFetch, WalkIndex, BeatRead, StopRead, StartRead, TeleportRead, ModeratorRead, OperatorRead, CallerStep, GetRecord, PutRecord, CallFails, RunFinalize, Tick, Restart
<1>4. ASSUME NEW v \in Versions, Commit(v) PROVE v.u = u /\ ~v.ended
  <2>1. log' = Append(log, v)
    BY <1>4 DEF Commit
  <2>2. (v.u = u => (Ended(u)' <=> v.ended)) /\ (v.u # u => (Ended(u)' <=> Ended(u)))
    BY <1>0, <2>1, CommittedEnding
  <2> QED BY <2>2
<1>5. CASE Elsewhere
  <2>1. ASSUME NEW w \in Uris \ Created, Commit(Version(w, now, FALSE)) PROVE FALSE
    <3>1. Version(w, now, FALSE) \in Versions /\ Version(w, now, FALSE).u = w
      BY <1>0 DEF Version, Versions
    <3> QED BY <1>2, <1>4, <2>1, <3>1
  <2>2. ASSUME NEW w \in Created, Commit(Version(w, now, log[Current(w)].ended)) PROVE FALSE
    <3>1. w \in Uris /\ log[Current(w)] \in Versions
      BY <1>0, CurrentType DEF Created
    <3>2. log[Current(w)].ended \in BOOLEAN
      BY <3>1 DEF Versions
    <3> DEFINE v == Version(w, now, log[Current(w)].ended)
    <3>3. v \in Versions /\ v.u = w /\ v.ended = log[Current(w)].ended
      BY <1>0, <3>1, <3>2 DEF Version, Versions
    <3>4. v.u = u /\ ~v.ended
      BY <1>4, <2>2, <3>3
    <3> QED BY <1>2, <3>3, <3>4
  <2>3. ASSUME NEW w \in Created, Commit(Version(w, log[Current(w)].seen, TRUE)) PROVE FALSE
    <3>1. w \in Uris /\ log[Current(w)] \in Versions
      BY <1>0, CurrentType DEF Created
    <3> DEFINE v == Version(w, log[Current(w)].seen, TRUE)
    <3>2. v \in Versions /\ v.ended = TRUE
      BY <3>1 DEF Version, Versions
    <3> QED BY <1>4, <2>3, <3>2
  <2> QED BY <1>5, <2>1, <2>2, <2>3 DEF Elsewhere
<1>6. CASE StartCreate
  <2>1. PICK w \in Uris \ Created : Commit(Version(w, call["start"].time, FALSE))
    BY <1>6 DEF StartCreate
  <2>2. call["start"].time \in Nat
    BY <1>0 DEF TypeOK
  <2>3. /\ Version(w, call["start"].time, FALSE) \in Versions
        /\ Version(w, call["start"].time, FALSE).u = w
    BY <2>2 DEF Version, Versions
  <2> QED BY <1>2, <1>4, <2>1, <2>3
<1>7. ASSUME NEW c \in Callers, PutRecord(c), Accepted(c)
      PROVE  /\ call["beat"].at = "put" /\ call["beat"].u = u
             /\ call["beat"].rec # call["beat"].swap
  <2>1. call[c].at = "put" /\ Commit(Written(c))
    BY <1>7 DEF PutRecord
  <2>2. Written(c) \in Versions /\ Written(c).u = call[c].u
    BY <1>0, <2>1, WrittenType
  <2>3. call[c].u = u /\ ~Written(c).ended
    BY <1>4, <2>1, <2>2
  <2>4. c = "beat" /\ ~log[call[c].rec].ended
    BY <2>3 DEF Written, Version
  <2>5. call[c].swap = Current(u)
    BY <1>7, <2>3 DEF Accepted
  <2> QED BY <1>2, <2>1, <2>3, <2>4, <2>5
<1>8. CASE ModeratorCreate
  <2> DEFINE r == log[call["moderator"].rec]
  <2>1. PICK w \in Uris \ Created : Commit(Version(w, r.seen, r.ended))
    BY <1>8 DEF ModeratorCreate
  <2>2. r \in Versions
    <3>1. /\ call["moderator"].rec # 0 /\ call["moderator"].rec \in 0 .. Len(log)
          /\ log \in Seq(Versions) /\ Len(log) \in Nat
      BY <1>0, <1>8, LenProperties DEF ModeratorCreate, CallersRead, TypeOK, Callers, Versions
    <3> QED BY <3>1, ElementOfSeq
  <2> HIDE DEF r
  <2>3. /\ Version(w, r.seen, r.ended) \in Versions
        /\ Version(w, r.seen, r.ended).u = w
    BY <2>2 DEF Version, Versions
  <2> QED BY <1>2, <1>4, <2>1, <2>3
<1> QED BY <1>3, <1>5, <1>6, <1>7, <1>8

\* For any number of records, writers, walks and restarts, an ending is taken
\* back only by a heartbeat whose copy of the record, from the index, is not
\* the version whose CID it got from the PDS (stream_session.go:697).
THEOREM RecordRevivedOnlyByStaleBeat == Spec => RevivedOnlyByStaleBeat
<1> DEFINE A == \A u \in Uris : Ended(u) /\ ~Ended(u)' =>
                  /\ call["beat"].at = "put" /\ call["beat"].u = u
                  /\ call["beat"].rec # call["beat"].swap
<1>1. Inv /\ [Next]_vars => [A]_vars
  BY RevivingStep
<1> QED BY <1>1, RecordInvariant, PTL DEF Spec, RevivedOnlyByStaleBeat

\* What the idle task ends is what it judged.
LEMMA EndingStep ==
  ASSUME Inv, [Next]_vars, call["finalize"].at = "put", Len(log') > Len(log),
         call'["finalize"].at = "idle"
  PROVE  LET u == call["finalize"].u IN
         /\ now - log[Current(u)].seen >= Idle
         /\ (\A w \in Created : w <= u) => now - log[Current(u)].seen >= 2 * Idle
<1>1. log' # log /\ call' # call
  <2>1. Len(log) \in Nat
    BY LenProperties DEF Inv, TypeOK
  <2> QED BY <2>1
<1>2. StartCreate \/ ModeratorCreate \/ \E c \in Callers : PutRecord(c) /\ Accepted(c)
  BY <1>1 DEF Next, vars, pds, Elsewhere, Claim, HandlerStep, HandlerReads, HandlerIndexes, HandlerSchedules,
     HandlerFails, HandlerKeeps, WalkFetch, WalkIndex, BeatRead, StopRead, StartRead, TeleportRead, ModeratorRead, OperatorRead, CallerStep, GetRecord, PutRecord, CallFails, RunFinalize, Tick, Restart
<1>3. ASSUME NEW c \in Callers, c # "finalize", NEW r, call' = [call EXCEPT ![c] = r] PROVE FALSE
  <2>1. "finalize" \in DOMAIN call
    BY DEF Inv, TypeOK, Callers
  <2>2. call'["finalize"] = call["finalize"]
    BY <1>3, <2>1
  <2> QED BY <2>2
<1>s. ~StartCreate /\ ~ModeratorCreate
  BY <1>3 DEF StartCreate, ModeratorCreate, Becomes, Callers
<1>p. \A c \in Callers : PutRecord(c) => c = "finalize"
  BY <1>3 DEF PutRecord, Becomes
<1>4. Accepted("finalize")
  BY <1>2, <1>s, <1>p
<1>5. Current(call["finalize"].u) = call["finalize"].rec
  BY <1>4 DEF Accepted, Inv, FinalizeReads
<1> QED BY <1>5 DEF Inv, FinalizeReads

\* For any lag of the index and any racing writers, the idle task ends a record
\* only when the version the repository has went without a heartbeat for the
\* idle timeout, and for two of them if it is the streamer's newest
\* (queue_processor.go:505-560).
THEOREM RecordIdleEndSparesTheLiving == Spec => IdleEndSparesTheLiving
<1> DEFINE A == call["finalize"].at = "put" /\ Len(log') > Len(log) /\ call'["finalize"].at = "idle" =>
                  LET u == call["finalize"].u IN
                  /\ now - log[Current(u)].seen >= Idle
                  /\ (\A w \in Created : w <= u) => now - log[Current(u)].seen >= 2 * Idle
<1>1. Inv /\ [Next]_vars => [A]_vars
  BY EndingStep
<1> QED BY <1>1, RecordInvariant, PTL DEF Spec, IdleEndSparesTheLiving

\* The index, the firehose position, the callers and the tasks never refer to
\* a version the repository does not have.
THEOREM RecordTypeOK == Spec => []TypeOK
<1>1. Inv => TypeOK
  BY DEF Inv
<1> QED BY <1>1, RecordInvariant, PTL

=============================================================================
