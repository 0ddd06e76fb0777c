----------------------------- MODULE RateOffers -----------------------------
(***************************************************************************)
(* What a quote promises to the customer it was made for.                  *)
(*                                                                         *)
(* An offer is made once and keeps its terms.  What it needs to stand is   *)
(* put in place, or set on its way, before it is made; what is on its way  *)
(* may arrive later, or never.  An offer may lapse, and then it has lapsed *)
(* for good.  As long as it stands a label can be bought under it, as      *)
(* often as one likes, and the parcel shipped is the one offered.          *)
(***************************************************************************)
CONSTANTS
    Id,         \* rate ids
    None        \* nothing bought yet

VARIABLES
    terms,      \* the price and the parcel of each offer made, by rate id
    standing,   \* rate ids under which a label could be bought
    coming,     \* rate ids that may come to stand by themselves, once
    bought      \* the last purchase: its rate id and its parcel

vars == <<terms, standing, coming, bought>>

Init ==
    /\ terms = [id \in {} |-> {}]
    /\ standing = {}
    /\ coming = {}
    /\ bought = None

Prepare(id) ==
    /\ id \notin DOMAIN terms \union standing \union coming
    /\ \/ standing' = standing \union {id} /\ UNCHANGED coming
       \/ coming' = coming \union {id} /\ UNCHANGED standing
    /\ UNCHANGED <<terms, bought>>

Arrive(id) ==
    /\ id \in coming
    /\ coming' = coming \ {id}
    /\ standing' = standing \union {id}
    /\ UNCHANGED <<terms, bought>>

\* Offers of one call are made at once, beside those that are there.
Offer ==
    /\ DOMAIN terms \subseteq DOMAIN terms'
    /\ \A id \in DOMAIN terms : terms'[id] = terms[id]
    /\ UNCHANGED <<standing, coming, bought>>

Lapse(id) ==
    /\ standing' = standing \ {id}
    /\ UNCHANGED <<terms, coming, bought>>

Buy(id) ==
    /\ id \in standing \intersect DOMAIN terms
    /\ bought' = [id |-> id, parcel |-> terms[id].parcel]
    /\ UNCHANGED <<terms, standing, coming>>

Next == Offer \/ \E id \in Id : Prepare(id) \/ Arrive(id) \/ Lapse(id) \/ Buy(id)

Spec == Init /\ [][Next]_vars
=============================================================================
