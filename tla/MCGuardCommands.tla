-------------------------- MODULE MCGuardCommands --------------------------
(* Instances of the guard commands for TLC. *)
EXTENDS GuardCommands, TLC

CONSTANTS r1, r2

\* A failure and another, a failure or a direction and a review that does not count:
\* the commands are free to make the two reviews in either order.
TwoReviews ==
    {(r1 :> "failing" @@ r2 :> "failing"), (r1 :> "failing" @@ r2 :> "passing"),
     (r1 :> "directional" @@ r2 :> "passing")}

\* The grants the commands can name: a local fix and a continuation are named after
\* the latest review and the one they were authorized on, which may be an earlier one.
\* Grants that could not be spent within MaxGeneration are left out.
NameableGrants ==
    [action : {"local_fix", "continue_once"}, generation : 0..(MaxGeneration - 1),
     basis : Bases, evidence : Bases]
    \cup [action : {"architecture_fix"}, generation : 0..(MaxGeneration - 1), basis : Bases,
          evidence : Checkpoints]

\* Files grow old where record-review, checkpoint, resolve and the probe are alone: what
\* authorize-fix and consume-grant do is explored while the files are young.
Authorizes(a) ==
    \/ "file" \in DOMAIN agent[a]
    \/ "verdict" \in DOMAIN agent[a] /\ agent[a].verdict.advice # "none"
FilesAgeApart ==
    orphans # {} \/ log.orphaned =>
        /\ row.fix_generation = 0
        /\ \A g \in Grants : grant[g].state = "unused"
        /\ \A v \in log.decided : v.advice = "none"
        /\ \A a \in Agents : ~Authorizes(a)

\* Processes are told apart by equality alone.
Symmetry == Permutations(Agents)
=============================================================================
