------------------------ MODULE MCContentPublishing ------------------------
(* ContentPublishing on small instances. *)
EXTENDS ContentPublishing, TLC

MCSymmetry == Permutations(Rows) \cup Permutations(Posts \ Stories) \cup Permutations(Users)
=============================================================================
