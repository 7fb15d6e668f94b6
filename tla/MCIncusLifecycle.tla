-------------------------- MODULE MCIncusLifecycle --------------------------
(* IncusLifecycle for TLC: shells are interchangeable. *)
EXTENDS IncusLifecycle, TLC

ShellSymmetry == Permutations(Procs)
=============================================================================
