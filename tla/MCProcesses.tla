----------------------------- MODULE MCProcesses -----------------------------
(* Two processes: a provider with a helper, or the survivors of two turns.   *)
EXTENDS Processes, TLC
=============================================================================
