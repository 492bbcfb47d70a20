----------------------------- MODULE MCRepoSync -----------------------------
(***************************************************************************)
(* An instance of RepoSync: three commits, so that one can be lost between *)
(* a claimed one and one that shows the gap.  The lost one is a windowed   *)
(* record older than the initial window when the repair comes, which only  *)
(* the repair's own starting point reaches.                                *)
(***************************************************************************)
EXTENDS RepoSync

MCWrites == <<"full", "log", "other">>
MCSpans == <<1>>

=============================================================================
