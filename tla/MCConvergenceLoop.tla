------------------------- MODULE MCConvergenceLoop -------------------------
(* Instances of the convergence store, and of the Breaker, for TLC. *)
EXTENDS ConvergenceLoop, BreakerRequests, FiniteSets, TLC

CONSTANT b1     \* one of the bases

\* Grants and revisions only enter comparisons for equality, and no formula picks
\* one of them.
Symmetry == Permutations(Grants) \cup Permutations(Revisions) \cup Permutations(Owners)
                \cup Permutations(Evidence)

\* A loop a probe has been asked for is explored with one grant, one further
\* generation and one basis; all others with everything the constants allow.
Within ==
    (\E f \in Loops : loop[f].probe_state # "null") =>
        /\ \A f \in Loops : loop[f].fix_generation <= 1 /\ loop[f].basis \in {NoBasis, b1}
        /\ Cardinality({g \in Grants : grant[g].state # "unused"}) <= 1

\* One failure more than any trigger asks for; of the purposes and the probe's actions
\* those that a trigger tells apart.
ToldApart ==
    [audit : BOOLEAN, importance : Importances, trusted : BOOLEAN, failures : 0..3,
     lastPurpose : {"none", "architecture_fix"}, advances : BOOLEAN, acceptance : BOOLEAN,
     architecture : BOOLEAN, exclusion : BOOLEAN, oscillation : BOOLEAN,
     sameInvariant : BOOLEAN, explore : BOOLEAN, explored : BOOLEAN, falsifiable : BOOLEAN,
     verified : BOOLEAN, changed : BOOLEAN,
     probeAction : {"none", "continue_once", "direction_checkpoint", "human_decision",
                    "finish_now"}]

\* The Breaker keeps nothing between two requests, so one is put to it, and no loop
\* goes on with it: the store's part never reads the request.
MCInit == Init /\ PolicyInit
MCNext ==
    \/ request = Unasked /\ Next /\ Within' /\ UNCHANGED request
    \/ Init /\ Ask /\ UNCHANGED vars
MCSpec == MCInit /\ [][MCNext]_<<vars, request>>
StoreSpec == MCInit /\ [][Next /\ UNCHANGED request]_<<vars, request>>
=============================================================================
