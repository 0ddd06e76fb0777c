-------------------------- MODULE MCLabelLifecycle --------------------------
(* Small instances of LabelLifecycle for TLC. *)
EXTENDS LabelLifecycle, TLC

Symmetry ==
    Permutations(Rate) \union Permutations(Label) \union Permutations(Shipment)
        \union Permutations(Call) \union Permutations(Invoice)
=============================================================================
