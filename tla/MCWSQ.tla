------------------------------- MODULE MCWSQ -------------------------------
(***************************************************************************)
(* WSQ on a small instance.  Threads and tasks are interchangeable.        *)
(***************************************************************************)
EXTENDS WSQ, TLC

Symmetry == Permutations(Threads) \cup Permutations(Task)
=============================================================================
