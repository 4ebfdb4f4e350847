------------------------------- MODULE MCFleet --------------------------------
EXTENDS Fleet, TLC

\* Pids and ports are compared for equality only.
Sym == Permutations(Pid) \cup Permutations(Port)
=============================================================================
