-------------------------- MODULE GenerationLedger --------------------------
(***************************************************************************)
(* What the convergence store promises about fix generations, without the  *)
(* status machine, probes, decisions or clocks: the generations of a loop  *)
(* are opened one after another; a permit is written for one generation of *)
(* one loop, opens at most the generation after it, and is never used      *)
(* again once it was spent or withdrawn; a loop has at most one permit     *)
(* out.  ConvergenceLoop implements it.                                    *)
(***************************************************************************)
EXTENDS Integers

CONSTANTS
    Loops,         \* review loops
    Permits,       \* permits to open one more generation
    NoLoop,        \* the loop of a permit not written yet
    MaxGeneration  \* bound on the generations considered

VARIABLES
    generation,    \* generation[f]: the newest generation of f, Unopened before f exists
    permit         \* permit[p]: its state, its loop, the generation it was written for

Unopened == -1
Permit(s, f, n) == [state |-> s, loop |-> f, generation |-> n]
Blank == Permit("unused", NoLoop, 0)

Out(p, f) == permit[p].state = "live" /\ permit[p].loop = f
Withdrawn(p) == Permit("void", permit[p].loop, permit[p].generation)

Init ==
    /\ generation = [f \in Loops |-> Unopened]
    /\ permit = [p \in Permits |-> Blank]

\* A loop may enter the ledger in the middle of its life.
Enter(f) ==
    /\ generation[f] = Unopened
    /\ \E n \in 0..MaxGeneration : generation' = [generation EXCEPT ![f] = n]
    /\ UNCHANGED permit

OpenFreely(f) ==
    /\ generation[f] # Unopened
    /\ generation' = [generation EXCEPT ![f] = @ + 1]
    /\ UNCHANGED permit

\* A new permit withdraws the one that was out.
Write(f, p) ==
    /\ generation[f] # Unopened /\ permit[p].state = "unused"
    /\ permit' = [q \in Permits |->
                    IF q = p THEN Permit("live", f, generation[f])
                    ELSE IF Out(q, f) THEN Withdrawn(q) ELSE permit[q]]
    /\ UNCHANGED generation

Spend(f, p) ==
    /\ Out(p, f) /\ permit[p].generation = generation[f]
    /\ generation' = [generation EXCEPT ![f] = @ + 1]
    /\ permit' = [permit EXCEPT ![p] = Permit("spent", f, generation[f])]

WithdrawAll ==
    /\ permit' = [p \in Permits |->
                    IF permit[p].state = "live" THEN Withdrawn(p) ELSE permit[p]]
    /\ UNCHANGED generation

Next ==
    \/ WithdrawAll
    \/ \E f \in Loops :
          \/ Enter(f) \/ OpenFreely(f)
          \/ \E p \in Permits : Write(f, p) \/ Spend(f, p)

Spec == Init /\ [][Next]_<<generation, permit>>
=============================================================================
