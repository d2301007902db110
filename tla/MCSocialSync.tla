---------------------------- MODULE MCSocialSync ----------------------------
(* SocialSync on a small instance. *)
EXTENDS SocialSync
=============================================================================
