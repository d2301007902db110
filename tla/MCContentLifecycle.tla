------------------------- MODULE MCContentLifecycle -------------------------
(* ContentLifecycle on small instances. *)
EXTENDS ContentLifecycle, TLC

\* One actor per role, and one who reviews for both sides.
MCActorRoles ==
  {{r} : r \in Roles \ {"viewer"}} \cup {{"internal_reviewer", "client_reviewer"}}

\* Everybody but the manager: nobody blocks or cancels by the rules.
MCNoManager == {roles \in MCActorRoles : "workspace_manager" \notin roles}

MCSymmetry == Permutations(Procs)
=============================================================================
