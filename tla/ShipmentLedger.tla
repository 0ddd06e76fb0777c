--------------------------- MODULE ShipmentLedger ---------------------------
(***************************************************************************)
(* What the plugin promises about the shipments it pays for: a shipment is *)
(* entered in the ledger at most once, under one label, the entry is never *)
(* changed or removed, and only an entered shipment is ever refunded, once.*)
(* LabelLifecycle implements this ledger with the label_records table.     *)
(***************************************************************************)
CONSTANTS
    Shipment,   \* shipments Canada Post may create
    Label,      \* label ids
    None

VARIABLES
    made,       \* shipments created
    ledger,     \* ledger[l]: the shipment entered under label l, or None
    refunded    \* shipments refunded

lvars == <<made, ledger, refunded>>

Entered == {ledger[l] : l \in Label} \ {None}

LInit == made = {} /\ ledger = [l \in Label |-> None] /\ refunded = {}

Make(s) ==
    /\ s \notin made
    /\ made' = made \union {s}
    /\ UNCHANGED <<ledger, refunded>>

Enter(s, l) ==
    /\ s \in made \ Entered
    /\ ledger[l] = None
    /\ ledger' = [ledger EXCEPT ![l] = s]
    /\ UNCHANGED <<made, refunded>>

Refund(s) ==
    /\ s \in Entered \ refunded
    /\ refunded' = refunded \union {s}
    /\ UNCHANGED <<made, ledger>>

LNext ==
    \E s \in Shipment : Make(s) \/ Refund(s) \/ \E l \in Label : Enter(s, l)

LSpec == LInit /\ [][LNext]_lvars
=============================================================================
