----------------------------- MODULE MCLinking -----------------------------
(* Linking with two people who have an identity each.                      *)
EXTENDS Linking, TLC

CONSTANTS ann, bob, xa, xb

OwnNames == {<<e, e>> : e \in Emails}

(* The provider of xa has reported ann's email for it and later bob's, that *)
(* of xb only bob's.                                                       *)
ReportedClaims == {<<xa, ann>>, <<xa, bob>>, <<xb, bob>>}

Symmetry == Permutations(SignIns) \cup Permutations(Requests)
=============================================================================
