-------------------------- MODULE MCPostOfficeCache --------------------------
(* Two codes, two search forms, two offices; answers that disagree on the  *)
(* text of an office, an empty one and one whose only office has no id.    *)
EXTENDS PostOfficeCache, TLC

CONSTANTS p1, p2, o1, o2, noId, t1, t2, odd, f1, f2

MCListing == {
    Nothing,
    (o1 :> t1 @@ o2 :> t2),
    (o1 :> t2 @@ o2 :> t1),
    (o2 :> odd @@ noId :> t1),
    (noId :> t1)}

Symmetry == Permutations(Code) \union Permutations(Form)
=============================================================================
