-------------------------- MODULE MCLessonDelivery --------------------------
(* An instance of the delivery of lessons for TLC. *)
EXTENDS LessonDelivery, TLC

CONSTANTS a1, a2, b1

\* Two documents of one family and one of another.  The other's reads like the family's
\* first: their sections are merged until the second is published.
FamilyOfDocument == a1 :> 1 @@ a2 :> 1 @@ b1 :> 2
KeyOfFamily == [f \in Families |-> f]
SeverityOfDocument == a1 :> 1 @@ a2 :> 1 @@ b1 :> 0
LessonOfDocument == a1 :> "A" @@ a2 :> "B" @@ b1 :> "A"

\* Processes are told apart by equality alone.
Symmetry == Permutations(Hooks) \cup Permutations(Writers)

\* Two prompts at a time while there are two documents, one when there are three.
Within == Len(published) = 3 => Cardinality({h \in Hooks : ~At(h, "idle")}) <= 1

MCNext == DeliveryNext /\ Within'
MCSpec == DeliveryInit /\ [][MCNext]_vars
=============================================================================
