-------------------------- MODULE MCPluginSessions --------------------------
(* A small instance of PluginSessions for TLC: the store and another one. *)
EXTENDS PluginSessions, TLC

Symmetry == Permutations(Token)
=============================================================================
