-------------------------- MODULE MCSupervisorLock --------------------------
(***************************************************************************)
(* Supervisor for several supervisors on one host: they differ only by     *)
(* name, and so do the process ids.                                        *)
(***************************************************************************)
EXTENDS Supervisor, TLC

Symmetry == Permutations(Sups) \cup Permutations(Pids)
=============================================================================
