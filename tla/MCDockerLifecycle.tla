------------------------- MODULE MCDockerLifecycle -------------------------
(* DockerLifecycle for TLC: which shells are interchangeable. *)
EXTENDS DockerLifecycle, TLC

ShellSymmetry == Permutations(Procs)
============================================================================
