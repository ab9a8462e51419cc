--------------------------- MODULE MCSessionStore ---------------------------
(* SessionStore on small sets of ids and threads.                          *)
EXTENDS SessionStore, TLC

Symmetry == Permutations(Ids) \cup Permutations(Threads)
=============================================================================
