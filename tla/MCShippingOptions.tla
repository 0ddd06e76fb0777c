-------------------------- MODULE MCShippingOptions --------------------------
(* Forms with few fields filled in, for TLC. *)
EXTENDS ShippingOptions, Integers

CONSTANTS
    MaxFilled,   \* fields a quote fills in
    MaxChanged   \* fields a label request changes

\* The functions on Field that differ from blank on at most n fields.
RECURSIVE Differing(_, _, _)
Differing(blank, choices, n) ==
    IF n = 0 THEN {blank}
    ELSE LET fewer == Differing(blank, choices, n - 1) IN
         fewer \union UNION {{[v EXCEPT ![f] = x] : x \in choices[f]} :
                                <<v, f>> \in fewer \X Field}

MCQuoteForms == Differing([f \in Field |-> ""], Values, MaxFilled)
MCLabelForms == Differing([f \in Field |-> "absent"], Values, MaxChanged)
=============================================================================
