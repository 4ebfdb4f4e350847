------------------------------- MODULE MCJobs -------------------------------
(* Model checking of Jobs: the jobs are interchangeable. *)
EXTENDS Jobs, TLC

Symmetry == Permutations(Jobs)

=============================================================================
