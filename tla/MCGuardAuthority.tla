-------------------------- MODULE MCGuardAuthority --------------------------
(* An instance of the migration commands for TLC. *)
EXTENDS GuardAuthority, TLC

CONSTANTS o1, o2, v1, v2, v3

\* Two contents of the legacy file that have no loop in common, and one with both loops.
LoopsOfFile == v1 :> {1} @@ v2 :> {2} @@ v3 :> {1, 2}

\* The guards agreed on both, and in one comparison of v1 they did not.
Comparisons ==
    {[source |-> v1, matched |-> TRUE], [source |-> v1, matched |-> FALSE],
     [source |-> v2, matched |-> TRUE]}

\* Processes are told apart by equality alone.
OperatorSymmetry == Permutations(Operators)
=============================================================================
