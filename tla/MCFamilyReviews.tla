--------------------------- MODULE MCFamilyReviews ---------------------------
(* An instance of the reviews of families for TLC. *)
EXTENDS FamilyReviews, TLC

\* Complaints, processes, families and the reasons that blame the agent are told apart by
\* equality alone.
Symmetry == Permutations(Jobs) \cup Permutations(Reviewers) \cup Permutations(Families)
              \cup Permutations(Reasons \ NonFault)

InStage(s) == {j \in Jobs : work[j].stage = s}

\* No more complaints are open than there are reviewers; one is claimed twice only where
\* not all are filed and all of it happens within a day.
Within ==
    /\ Cardinality(InStage("review")) <= Cardinality(Reviewers)
    /\ (\E j \in Jobs : work[j].token = 2) => InStage("none") # {} /\ day = 0

MCNext == FamilyNext /\ Within'
MCSpec == FamilyInit /\ [][MCNext]_vars
=============================================================================
