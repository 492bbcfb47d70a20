----------------------------- MODULE MCTaskQueue -----------------------------
(***************************************************************************)
(* An instance of TaskQueue: two nodes race for one delayed key of the     *)
(* general pool, in a table with room for a second row of it.  The VOD     *)
(* workers of both nodes compete for the pokes, so that a poke may wake    *)
(* the wrong worker.                                                       *)
(***************************************************************************)
EXTENDS TaskQueue, TLC

CONSTANTS n1, n2, kWindow

MCTypeOf == kWindow :> "window"

=============================================================================
