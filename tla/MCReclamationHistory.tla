------------------------ MODULE MCReclamationHistory ------------------------
(***************************************************************************)
(* Small instances of Sdarc with the history variables for TLC.            *)
(***************************************************************************)
EXTENDS MCSdarc, ReclamationHistory
=============================================================================
