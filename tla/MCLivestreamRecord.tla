------------------------- MODULE MCLivestreamRecord -------------------------
(***************************************************************************)
(* An instance of LivestreamRecord: two livestreams, so that the newest one *)
(* and an older one can be idle, and three versions besides those the      *)
(* finalize task writes: a creation, a heartbeat and an ending.            *)
(***************************************************************************)
EXTENDS LivestreamRecord

(***************************************************************************)
(* Bound: the handlers of two relays overlap only on versions of the same  *)
(* record (those of different records touch different rows), while nobody  *)
(* is between two steps of a write and nothing has gone wrong.  What goes  *)
(* wrong with one of them, or ends both, is explored.                      *)
(***************************************************************************)
OverlapBound ==
  \/ Cardinality(work) < 2
  \/ /\ \A x, y \in work : log[x.v].u = log[y.v].u
     /\ Busy = {} /\ walk = 0 /\ mishaps = 0

\* Bound: things go wrong only for streamers of this node; for the others the
\* handlers do nothing after the indexing.
MishapBound == allowed \/ mishaps = 0

=============================================================================
