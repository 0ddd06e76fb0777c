-------------------------- MODULE MCAdminMethodSync --------------------------
(* The syncs of two logins, for TLC. *)
EXTENDS AdminMethodSync

ASSUME Attempts <= 4   \* as many as the code has, or fewer
=============================================================================
