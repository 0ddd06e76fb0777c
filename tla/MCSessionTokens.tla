-------------------------- MODULE MCSessionTokens --------------------------
(* A small instance of SessionTokens for TLC. *)
EXTENDS SessionTokens, TLC

Symmetry ==
    Permutations(Client) \union Permutations(Token) \union Permutations(Request)
=============================================================================
