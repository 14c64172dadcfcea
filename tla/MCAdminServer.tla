---------------------------- MODULE MCAdminServer ----------------------------
(* Two requests at a time over two sessions and a clock that outlives them. *)
EXTENDS AdminServer, TLC

\* The sets whose members no definition tells apart.
Symmetry == Permutations(Tasks) \cup Permutations(Ids) \cup Permutations(Capabilities)
=============================================================================
