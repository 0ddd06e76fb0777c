------------------------- MODULE MCPluginLifecycle -------------------------
(* Small instances of PluginLifecycle for TLC. *)
EXTENDS PluginLifecycle, TLC

Symmetry ==
    Permutations(State) \union Permutations(Session) \union Permutations(Callback)
        \union Permutations(Post) \union Permutations(Removal)
=============================================================================
