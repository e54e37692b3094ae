------------------------- MODULE MCReviewPipeline -------------------------
(* Small instances of the review pipeline.                                 *)
EXTENDS ReviewPipeline, TLC

CONSTANTS d1, d2, d3

\* Two answers of the model whose titles, hence file names, differ.
DistinctTitles == d1 :> "first" @@ d2 :> "second"
\* Two answers under one title, for which link() sees the other's file, and a
\* third under another.
MixedTitles == d1 :> "same" @@ d2 :> "same" @@ d3 :> "other"
OneTitle == d1 :> "first"

Symmetry == Permutations(Owners)
=============================================================================
