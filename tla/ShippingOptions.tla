--------------------------- MODULE ShippingOptions ---------------------------
(***************************************************************************)
(* The options of a shipment, from the form of the quote to Canada Post.   *)
(*                                                                         *)
(* GetShippingRate checks the customer's options and keeps them in the     *)
(* snapshot of the rate.  CreateLabel lays the options of its own request  *)
(* over them, checks the result against the rules, builds the option list, *)
(* adds the signature and the insurance of the snapshot, checks the list   *)
(* again and adds a default for undeliverable parcels.  The snapshot fixes *)
(* destination, phone, signature, insurance and exchange rate.             *)
(*                                                                         *)
(* A field has one of a few values.  An amount is "" (none), "ok", "over"  *)
(* (more than $1,000 CAD at the exchange rate of the snapshot) or "bad"    *)
(* (no positive number, or enabled without one).  A post office is ""      *)
(* (none, or the label that says so), "office" or "flag" (enabled, but no  *)
(* office named).  A refused request changes nothing and is no step.       *)
(***************************************************************************)
CONSTANTS
    QuoteForms,   \* options a GetShippingRate request may come with
    LabelForms,   \* options a CreateLabel request may come with
    None          \* no snapshot, nothing sent yet

VARIABLES
    snapshot,     \* the RateSnapshot, as far as it decides options
    quoted,       \* option codes of the rate request
    sent          \* what the shipment request says, and whether it was changed

vars == <<snapshot, quoted, sent>>

Delivery == {"HFP", "DNS", "LAD"}
Age == {"PA18", "PA19"}
NonDelivery == {"RASE", "RTS", "ABAN"}
Code == {"SO", "COV", "COD", "D2PO"} \union Delivery \union Age \union NonDelivery

Values ==
    [SO      |-> {"", "yes"},
     COV     |-> {"", "ok", "bad"},
     COD     |-> {"", "ok", "over", "bad"},
     method  |-> {"", "STANDARD"} \union Delivery,
     office  |-> {"", "office", "flag"},
     email   |-> {"", "yes"},
     age     |-> {"", "NONE"} \union Age,
     failure |-> {""} \union NonDelivery]

Field == DOMAIN Values

\* A field that the request leaves out is "absent"; a missing key reads as "".
AllValues == UNION {Values[f] : f \in Field}
Form == {v \in [Field -> AllValues] : \A f \in Field : v[f] \in Values[f]}
Request == {v \in [Field -> AllValues \union {"absent"}] :
               \A f \in Field : v[f] \in Values[f] \union {"absent"}}

Signature == {"", "NO_SIGNATURE", "SIGNATURE_UNSPECIFIED", "ADULT_SIGNATURE"}
Country == {"CA", "abroad"}

Snapshot == [form : Form, signature : Signature, country : Country,
             phone : BOOLEAN, insured : BOOLEAN]
Sent == [options : SUBSET Code, notify : BOOLEAN, unchanged : BOOLEAN]

ASSUME FormsAssumption == QuoteForms \subseteq Form /\ LabelForms \subseteq Request
ASSUME NoneAssumption == None \notin Snapshot \union Sent

TypeOK ==
    /\ snapshot \in Snapshot \union {None}
    /\ quoted \subseteq {"SO", "COV"}
    /\ sent \in Sent \union {None}

Init == snapshot = None /\ quoted = {} /\ sent = None

-----------------------------------------------------------------------------
(* The checks of a form.                                                   *)

WellFormed(v) == v["COV"] # "bad" /\ v["COD"] # "bad"

SignatureEnabled(sig) == sig \notin {"", "NO_SIGNATURE", "SIGNATURE_UNSPECIFIED"}

SignatureAllowed(v, sig) ==
    LET hasSignature == SignatureEnabled(sig) \/ v["SO"] = "yes" IN
    /\ v["age"] \in Age => hasSignature
    /\ v["method"] = "LAD" => ~ hasSignature
    /\ v["method"] = "LAD" => v["age"] \notin Age

DeliveryExclusive(v) == v["method"] \in Delivery => v["office"] = ""

CODAnywhere(v, country) ==                   \* mutant: no pickup asked for
    v["COD"] # "" =>
        /\ country = "CA"
        /\ v["COD"] = "ok"
        /\ v["method"] \notin {"LAD", "DNS"}

CODAllowed(v, country) ==
    v["COD"] # "" =>
        /\ country = "CA"
        /\ v["COD"] = "ok"
        /\ v["method"] \notin {"LAD", "DNS"}
        /\ v["method"] = "HFP" \/ v["office"] # ""

D2POAllowed(v, phone, country) ==
    v["office"] # "" =>
        /\ country = "CA"
        /\ v["office"] = "office"
        /\ v["email"] # ""
        /\ phone
        /\ v["method"] \notin Delivery

NonDeliveryAllowed(v, country) == v["failure"] # "" => country # "CA"

RulesAllow(v, sig, phone, country) ==
    /\ SignatureAllowed(v, sig)
    /\ DeliveryExclusive(v)
    /\ CODAllowed(v, country)
    /\ D2POAllowed(v, phone, country)
    /\ NonDeliveryAllowed(v, country)

-----------------------------------------------------------------------------
(* The lists of options, as sets: a code is sent once, the first one wins. *)

RateOptionsWithCOD(v, sig) ==                    \* mutant: COD is quoted as well
    {c \in {"SO", "COV", "COD"} : \/ c = "SO" /\ (v["SO"] = "yes" \/ SignatureEnabled(sig))
                                  \/ c # "SO" /\ v[c] # ""}

RateOptions(v, sig) ==
    {c \in {"SO", "COV"} : \/ c = "SO" /\ (v["SO"] = "yes" \/ SignatureEnabled(sig))
                           \/ c = "COV" /\ v["COV"] # ""}

CreateLabelOptions(v) ==
    {c \in {"SO"} : v["SO"] = "yes"}
        \union {c \in {"COV", "COD"} : v[c] # ""}
        \union {c \in {"D2PO"} : v["office"] # ""}
        \union {c \in Delivery : v["method"] = c /\ v["office"] = ""}
        \union {c \in Age : v["age"] = c}
        \union {c \in NonDelivery : v["failure"] = c}

NoSnapshotOptions(s) == {}                       \* mutant: the snapshot is left out

\* An unspecified signature is one here, and none in SignatureEnabled.
SnapshotOptions(s) ==
    {c \in {"SO"} : s.signature \notin {"", "NO_SIGNATURE"}}
        \union {c \in {"COV"} : s.insured}

AtMostOne(codes) == \A c, d \in codes : c = d

\* The second check; amounts and qualifiers are filled in by now.
OptionsAllowed(options, country) ==
    /\ country = "CA" => options \intersect NonDelivery = {}
    /\ country # "CA" => options \intersect {"COD", "D2PO"} = {}
    /\ AtMostOne(options \intersect Age)
    /\ AtMostOne(options \intersect Delivery)
    /\ AtMostOne(options \intersect NonDelivery)
    /\ "D2PO" \in options => options \intersect Delivery = {}
    /\ "COD" \in options => options \intersect {"HFP", "D2PO"} # {}

AlwaysReturn(options, country) ==                \* mutant: added to what was chosen
    IF country # "CA" THEN options \union {"RASE"} ELSE options

MergeShipmentOptions(options, country) ==
    IF country # "CA" /\ options \intersect NonDelivery = {}
    THEN options \union {"RASE"}
    ELSE options

-----------------------------------------------------------------------------
(* The two handlers.                                                       *)

GetShippingRate(v, sig, country, phone, insured) ==
    /\ snapshot = None
    /\ WellFormed(v)
    /\ RulesAllow(v, sig, phone, country)
    /\ quoted' = RateOptions(v, sig)
    /\ snapshot' = [form |-> v, signature |-> sig, country |-> country,
                    phone |-> phone, insured |-> insured]
    /\ UNCHANGED sent

MergeOptionsMaps(stored, incoming) ==
    [f \in Field |-> IF incoming[f] = "absent" THEN stored[f] ELSE incoming[f]]

Accepted(v) ==
    /\ WellFormed(v)
    /\ RulesAllow(v, snapshot.signature, snapshot.phone, snapshot.country)

CheckedOptions(v) == CreateLabelOptions(v) \union SnapshotOptions(snapshot)

SendUnchecked(incoming) ==                       \* mutant: the rules are not asked again
    /\ snapshot # None
    /\ sent = None
    /\ LET v == MergeOptionsMaps(snapshot.form, incoming) IN
       /\ WellFormed(v)
       /\ OptionsAllowed(CheckedOptions(v), snapshot.country)
       /\ sent' = [options |-> MergeShipmentOptions(CheckedOptions(v), snapshot.country),
                   notify |-> v["office"] # "", unchanged |-> v = snapshot.form]
    /\ UNCHANGED <<snapshot, quoted>>

\* The office is found in the cache or its id is given; otherwise, as for any
\* other check, the call ends.  One call: others do not change its options.
CreateLabel(incoming) ==
    /\ snapshot # None
    /\ sent = None
    /\ LET v == MergeOptionsMaps(snapshot.form, incoming) IN
       /\ Accepted(v)
       /\ OptionsAllowed(CheckedOptions(v), snapshot.country)
       /\ sent' = [options |-> MergeShipmentOptions(CheckedOptions(v), snapshot.country),
                   notify |-> v["office"] # "", unchanged |-> v = snapshot.form]
    /\ UNCHANGED <<snapshot, quoted>>

Next ==
    \/ \E v \in QuoteForms, sig \in Signature, country \in Country,
          phone \in BOOLEAN, insured \in BOOLEAN :
             GetShippingRate(v, sig, country, phone, insured)
    \/ \E incoming \in LabelForms : CreateLabel(incoming)

Spec == Init /\ [][Next]_vars

-----------------------------------------------------------------------------
(* Properties.                                                             *)

\* Whatever the request laid over the quote, Canada Post is sent options that
\* go together: one way of delivery, cash only where it is collected, a
\* signature for a proof of age, what the destination allows, and
\* notifications and a phone for a post office.  A parcel is left at the door
\* with a signature only if the quote said SIGNATURE_UNSPECIFIED.
SentIsLegal ==
    sent # None =>
        LET o == sent.options IN
        /\ AtMostOne(o \intersect (Delivery \union {"D2PO"}))
        /\ AtMostOne(o \intersect Age)
        /\ o \intersect Age # {} => "SO" \in o /\ "LAD" \notin o
        /\ "COD" \in o => snapshot.country = "CA" /\ o \intersect {"HFP", "D2PO"} # {}
        /\ "D2PO" \in o => snapshot.country = "CA" /\ sent.notify /\ snapshot.phone
        /\ {"LAD", "SO"} \subseteq o => snapshot.signature = "SIGNATURE_UNSPECIFIED"

\* A parcel that leaves the country has exactly one way of coming back or
\* being abandoned, and no other parcel has any.
OneWayBack ==
    sent # None =>
        LET back == sent.options \intersect NonDelivery IN
        IF snapshot.country = "CA" THEN back = {} ELSE \E c \in NonDelivery : back = {c}

\* A request that changes nothing buys every option the rate was quoted for.
QuotedIsSent == sent # None /\ sent.unchanged => quoted \subseteq sent.options

\* The two checks agree: what the rules allow is never refused by the check of
\* the list that is built from it, so no quote turns out not to be sellable.
ChecksAgree ==
    snapshot # None /\ sent = None =>
        \A incoming \in LabelForms :
            LET v == MergeOptionsMaps(snapshot.form, incoming) IN
            Accepted(v) => OptionsAllowed(CheckedOptions(v), snapshot.country)
=============================================================================
