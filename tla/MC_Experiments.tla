--------------------------- MODULE MC_Experiments ---------------------------
(* Two scripts, two contents of the benchmark's binary, one process beside the
   build's own. *)
EXTENDS Experiments
=============================================================================
