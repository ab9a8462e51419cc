------------------------- MODULE MCRequestPipeline -------------------------
(* RequestPipeline with one organisation.                                  *)
EXTENDS RequestPipeline, TLC

OwnNames == {<<e, e>> : e \in Emails}

Symmetry == Permutations(Emails) \cup Permutations(Requests)
                \cup Permutations(Visits)
=============================================================================
