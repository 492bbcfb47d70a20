----------------------------- MODULE OrderedFeed -----------------------------
(***************************************************************************)
(* What the consumers of a stream (playlists, WebRTC feeds, peers) are     *)
(* promised of the bus, the purpose stated above type lane in              *)
(* pkg/director/lane.go: each segment that arrived is delivered at most    *)
(* once and never after a later one.  A segment may be skipped, and one    *)
(* that was told to go may be overtaken before it is delivered: only such  *)
(* a segment may come late.                                                *)
(***************************************************************************)
EXTENDS Naturals, Sequences

VARIABLES
  arrived,   \* how many segments have arrived, numbered from 0
  feed,      \* the segments delivered, in order
  overtaken  \* the segments that lost their turn after it was theirs

Init == arrived = 0 /\ feed = <<>> /\ overtaken = {}

Arrive == arrived' = arrived + 1 /\ UNCHANGED <<feed, overtaken>>

Overtake(t) ==
  /\ \A i \in 1 .. Len(feed) : feed[i] # t
  /\ overtaken' = overtaken \cup {t}
  /\ UNCHANGED <<arrived, feed>>

Deliver(t) ==
  /\ \A i \in 1 .. Len(feed) : feed[i] # t /\ (feed[i] < t \/ t \in overtaken)
  /\ feed' = Append(feed, t)
  /\ UNCHANGED <<arrived, overtaken>>

Next == Arrive \/ \E t \in 0 .. (arrived - 1) : Overtake(t) \/ Deliver(t)

Spec == Init /\ [][Next]_<<arrived, feed, overtaken>>

=============================================================================
