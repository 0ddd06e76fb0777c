------------------------ MODULE ShippingOptionsProofs ------------------------
(***************************************************************************)
(* What ShippingOptions sends to Canada Post is legal, for every set of    *)
(* forms: the runs try forms with few fields filled in.                    *)
(*                                                                         *)
(* The argument is in CheckedCodes, which says which codes of each kind an *)
(* accepted form can put on the list.  Everything else reads it off.  The  *)
(* properties are about the one request that is sent, so the invariant     *)
(* only adds what a snapshot is and that nothing is sent without one.      *)
(***************************************************************************)
EXTENDS ShippingOptions, TLAPS

\* Nothing is sent before a quote, and a quote asked for what its form says.
QuoteFirst ==
    /\ sent # None => snapshot # None
    /\ snapshot # None => quoted = RateOptions(snapshot.form, snapshot.signature)

Legal == SentIsLegal /\ OneWayBack /\ QuotedIsSent

-----------------------------------------------------------------------------
(* The operators.                                                          *)

\* A request laid over a form is a form.
LEMMA MergeIsForm ==
    ASSUME NEW stored \in Form, NEW incoming \in Request
    PROVE  MergeOptionsMaps(stored, incoming) \in Form
<1> DEFINE v == MergeOptionsMaps(stored, incoming)
<1>1. ASSUME NEW f \in Field
      PROVE  v[f] \in Values[f]
  <2>1. stored[f] \in Values[f] /\ incoming[f] \in Values[f] \union {"absent"}
    BY DEF Form, Request
  <2> QED BY <2>1 DEF MergeOptionsMaps
<1>2. v \in [Field -> AllValues]
  <2>1. \A f \in Field : Values[f] \subseteq AllValues
    BY DEF AllValues
  <2> HIDE DEF v
  <2>2. v = [f \in Field |-> v[f]]
    BY DEF v, MergeOptionsMaps
  <2> QED BY <1>1, <2>1, <2>2
<1> QED BY <1>1, <1>2 DEF Form

\* The values of the fields that decide an option.
LEMMA FormValues ==
    ASSUME NEW v \in Form
    PROVE  /\ v["method"] \in {"", "STANDARD"} \union Delivery
           /\ v["age"] \in {"", "NONE"} \union Age
           /\ v["failure"] \in {""} \union NonDelivery
BY DEF Form, Field, Values

\* The codes of each kind on the list of a form.
LEMMA CheckedCodes ==
    ASSUME NEW v
    PROVE  /\ CheckedOptions(v) \subseteq Code
           /\ "SO" \in CheckedOptions(v) <=>
                 v["SO"] = "yes" \/ snapshot.signature \notin {"", "NO_SIGNATURE"}
           /\ "COV" \in CheckedOptions(v) <=> v["COV"] # "" \/ snapshot.insured
           /\ "COD" \in CheckedOptions(v) <=> v["COD"] # ""
           /\ "D2PO" \in CheckedOptions(v) <=> v["office"] # ""
           /\ \A c \in Delivery :
                 c \in CheckedOptions(v) <=> v["method"] = c /\ v["office"] = ""
           /\ \A c \in Age : c \in CheckedOptions(v) <=> v["age"] = c
           /\ \A c \in NonDelivery : c \in CheckedOptions(v) <=> v["failure"] = c
BY DEF CheckedOptions, CreateLabelOptions, SnapshotOptions, Code, Delivery, Age, NonDelivery

\* The check of the list refuses nothing that the rules allow.
LEMMA RulesSuffice ==
    ASSUME NEW v \in Form, Accepted(v)
    PROVE  OptionsAllowed(CheckedOptions(v), snapshot.country)
<1> DEFINE o == CheckedOptions(v)
<1>1. snapshot.country = "CA" => o \intersect NonDelivery = {}
  BY CheckedCodes, FormValues DEF Accepted, RulesAllow, NonDeliveryAllowed, NonDelivery
<1>2. snapshot.country # "CA" => o \intersect {"COD", "D2PO"} = {}
  BY CheckedCodes DEF Accepted, RulesAllow, CODAllowed, D2POAllowed
<1>3. AtMostOne(o \intersect Age) /\ AtMostOne(o \intersect Delivery)
        /\ AtMostOne(o \intersect NonDelivery)
  BY CheckedCodes DEF AtMostOne
<1>4. "D2PO" \in o => o \intersect Delivery = {}
  BY CheckedCodes
<1>5. "COD" \in o => o \intersect {"HFP", "D2PO"} # {}
  BY CheckedCodes DEF Accepted, RulesAllow, CODAllowed, Delivery
<1> QED BY <1>1, <1>2, <1>3, <1>4, <1>5 DEF OptionsAllowed

\* The default for undeliverable parcels adds one code, and only abroad.
LEMMA MergedCodes ==
    ASSUME NEW options \in SUBSET Code, NEW country
    PROVE  /\ MergeShipmentOptions(options, country) \in SUBSET Code
           /\ \A c \in Code \ {"RASE"} :
                 c \in MergeShipmentOptions(options, country) <=> c \in options
BY DEF MergeShipmentOptions, Code, NonDelivery

-----------------------------------------------------------------------------
(* The types.                                                              *)

LEMMA NextTypes == TypeOK /\ [Next]_vars => TypeOK'
<1> SUFFICES ASSUME TypeOK, [Next]_vars PROVE TypeOK'
  OBVIOUS
<1>1. ASSUME NEW v \in QuoteForms, NEW sig \in Signature, NEW country \in Country,
             NEW phone \in BOOLEAN, NEW insured \in BOOLEAN,
             GetShippingRate(v, sig, country, phone, insured)
      PROVE  TypeOK'
  <2>1. snapshot' \in Snapshot
    BY <1>1, FormsAssumption DEF GetShippingRate, Snapshot
  <2>2. quoted' \subseteq {"SO", "COV"}
    BY <1>1 DEF GetShippingRate, RateOptions
  <2> QED BY <1>1, <2>1, <2>2 DEF TypeOK, GetShippingRate
<1>2. ASSUME NEW incoming \in LabelForms, CreateLabel(incoming)
      PROVE  TypeOK'
  <2> DEFINE v == MergeOptionsMaps(snapshot.form, incoming)
  <2>1. MergeShipmentOptions(CheckedOptions(v), snapshot.country) \in SUBSET Code
    <3>1. CheckedOptions(v) \in SUBSET Code
      BY CheckedCodes
    <3> HIDE DEF v
    <3> QED BY <3>1, MergedCodes
  <2>2. sent' \in Sent
    BY <1>2, <2>1 DEF CreateLabel, Sent
  <2> QED BY <1>2, <2>2 DEF TypeOK, CreateLabel
<1>3. CASE UNCHANGED vars
  BY <1>3 DEF TypeOK, vars
<1> QED BY <1>1, <1>2, <1>3 DEF Next

\* A snapshot, a quote and what is sent are well formed.
THEOREM TypeCorrect == Spec => []TypeOK
<1>1. Init => TypeOK
  BY DEF Init, TypeOK
<1> QED BY <1>1, NextTypes, PTL DEF Spec

-----------------------------------------------------------------------------
(* What is sent.                                                           *)

\* The form a label is made for, and the list that is made of it.
LEMMA SentIsLegalStep ==
    ASSUME TypeOK, QuoteFirst, NEW incoming \in LabelForms, CreateLabel(incoming)
    PROVE  Legal'
<1> DEFINE v == MergeOptionsMaps(snapshot.form, incoming)
           o == CheckedOptions(v)
           m == MergeShipmentOptions(o, snapshot.country)
<1>1. snapshot \in Snapshot /\ snapshot' = snapshot /\ quoted' = quoted
  BY DEF CreateLabel, TypeOK
<1>2. v \in Form
  BY <1>1, MergeIsForm, FormsAssumption DEF Snapshot
<1>3. Accepted(v) /\ OptionsAllowed(o, snapshot.country)
  BY DEF CreateLabel
<1>4. sent' = [options |-> m, notify |-> v["office"] # "", unchanged |-> v = snapshot.form]
  BY DEF CreateLabel
<1>5. o \in SUBSET Code /\ m \in SUBSET Code
        /\ \A c \in Code \ {"RASE"} : c \in m <=> c \in o
  <2>1. o \in SUBSET Code
    BY CheckedCodes
  <2> HIDE DEF o
  <2> QED BY <2>1, MergedCodes
<1>6. sent'.options = m /\ sent'.notify = (v["office"] # "")
        /\ (sent'.unchanged => v = snapshot.form)
  BY <1>4
<1>7. SentIsLegal'
  <2>1. AtMostOne(m \intersect (Delivery \union {"D2PO"}))
    BY <1>5, CheckedCodes DEF AtMostOne, Delivery, Code
  <2>2. AtMostOne(m \intersect Age)
    BY <1>5, CheckedCodes DEF AtMostOne, Age, Code
  <2>3. m \intersect Age # {} => "SO" \in m /\ "LAD" \notin m
    <3>1. v["age"] \in Age => "SO" \in o /\ "LAD" \notin o
      BY <1>3, CheckedCodes DEF Accepted, RulesAllow, SignatureAllowed, SignatureEnabled,
                                Delivery
    <3>2. m \intersect Age # {} => v["age"] \in Age
      BY <1>5, CheckedCodes DEF Age, Code
    <3> QED BY <3>1, <3>2, <1>5 DEF Code, Delivery
  <2>4. "COD" \in m => snapshot.country = "CA" /\ m \intersect {"HFP", "D2PO"} # {}
    BY <1>3, <1>5, CheckedCodes DEF Accepted, RulesAllow, CODAllowed, Code, Delivery
  <2>5. "D2PO" \in m => snapshot.country = "CA" /\ v["office"] # "" /\ snapshot.phone
    BY <1>3, <1>5, CheckedCodes DEF Accepted, RulesAllow, D2POAllowed, Code
  <2>6. {"LAD", "SO"} \subseteq m => snapshot.signature = "SIGNATURE_UNSPECIFIED"
    <3>1. {"LAD", "SO"} \subseteq o => snapshot.signature = "SIGNATURE_UNSPECIFIED"
      BY <1>3, CheckedCodes DEF Accepted, RulesAllow, SignatureAllowed, SignatureEnabled,
                                Delivery
    <3> QED BY <3>1, <1>5 DEF Code, Delivery
  <2> QED BY <1>1, <1>6, <2>1, <2>2, <2>3, <2>4, <2>5, <2>6 DEF SentIsLegal
<1>8. OneWayBack'
  <2>1. snapshot.country = "CA" => m \intersect NonDelivery = {}
    BY <1>3 DEF OptionsAllowed, MergeShipmentOptions
  <2>2. ASSUME snapshot.country # "CA", o \intersect NonDelivery = {}
        PROVE  m \intersect NonDelivery = {"RASE"}
    BY <2>2 DEF MergeShipmentOptions, NonDelivery
  <2>3. ASSUME snapshot.country # "CA", o \intersect NonDelivery # {}
        PROVE  \E c \in NonDelivery : m \intersect NonDelivery = {c}
    <3>1. m = o
      BY <2>3 DEF MergeShipmentOptions
    <3>2. PICK c \in NonDelivery : c \in o
      BY <2>3
    <3>3. m \intersect NonDelivery = {c}
      BY <1>3, <3>1, <3>2 DEF OptionsAllowed, AtMostOne
    <3> QED BY <3>3
  <2>4. "RASE" \in NonDelivery
    BY DEF NonDelivery
  <2> QED BY <1>1, <1>6, <2>1, <2>2, <2>3, <2>4 DEF OneWayBack
<1>9. QuotedIsSent'
  <2>1. ASSUME v = snapshot.form
        PROVE  quoted \subseteq o
    <3>1. quoted = RateOptions(v, snapshot.signature)
      BY <1>1, <2>1, NoneAssumption DEF QuoteFirst
    <3> QED BY <3>1, CheckedCodes DEF RateOptions, SignatureEnabled
  <2>2. o \subseteq m
    BY DEF MergeShipmentOptions
  <2> QED BY <1>1, <1>6, <2>1, <2>2 DEF QuotedIsSent
<1> QED BY <1>7, <1>8, <1>9 DEF Legal

LEMMA NextLegal == TypeOK /\ QuoteFirst /\ Legal /\ [Next]_vars => (QuoteFirst /\ Legal)'
<1> SUFFICES ASSUME TypeOK, QuoteFirst, Legal, [Next]_vars PROVE (QuoteFirst /\ Legal)'
  OBVIOUS
<1>1. ASSUME NEW v \in QuoteForms, NEW sig \in Signature, NEW country \in Country,
             NEW phone \in BOOLEAN, NEW insured \in BOOLEAN,
             GetShippingRate(v, sig, country, phone, insured)
      PROVE  (QuoteFirst /\ Legal)'
  <2>1. sent = None /\ sent' = None
    BY <1>1 DEF GetShippingRate, QuoteFirst
  <2>2. /\ snapshot'.form = v /\ snapshot'.signature = sig
        /\ quoted' = RateOptions(v, sig)
    BY <1>1 DEF GetShippingRate
  <2>3. quoted' = RateOptions(snapshot'.form, snapshot'.signature)
    BY <2>2
  <2>4. QuoteFirst'
    BY <2>1, <2>3 DEF QuoteFirst, RateOptions, SignatureEnabled
  <2> QED BY <2>1, <2>4 DEF Legal, SentIsLegal, OneWayBack, QuotedIsSent
<1>2. ASSUME NEW incoming \in LabelForms, CreateLabel(incoming)
      PROVE  (QuoteFirst /\ Legal)'
  <2>1. QuoteFirst'
    BY <1>2 DEF CreateLabel, QuoteFirst, RateOptions, SignatureEnabled
  <2> QED BY <1>2, <2>1, SentIsLegalStep
<1>3. CASE UNCHANGED vars
  BY <1>3 DEF vars, QuoteFirst, RateOptions, SignatureEnabled, Legal, SentIsLegal,
              OneWayBack, QuotedIsSent
<1> QED BY <1>1, <1>2, <1>3 DEF Next

LEMMA InitLegal == Init => TypeOK /\ QuoteFirst /\ Legal
BY DEF Init, TypeOK, QuoteFirst, Legal, SentIsLegal, OneWayBack, QuotedIsSent

\* Canada Post is only sent options that go together, whatever was quoted and
\* whatever the label request laid over it.
THEOREM SentOptionsAreLegal == Spec => []SentIsLegal
<1>1. Legal => SentIsLegal
  BY DEF Legal
<1> QED BY <1>1, InitLegal, NextTypes, NextLegal, PTL DEF Spec

\* A parcel sent abroad is sent with exactly one way back.
THEOREM AbroadHasOneWayBack == Spec => []OneWayBack
<1>1. Legal => OneWayBack
  BY DEF Legal
<1> QED BY <1>1, InitLegal, NextTypes, NextLegal, PTL DEF Spec

\* A label made for the quote as it was carries every option it quoted.
THEOREM QuotedOptionsAreSent == Spec => []QuotedIsSent
<1>1. Legal => QuotedIsSent
  BY DEF Legal
<1> QED BY <1>1, InitLegal, NextTypes, NextLegal, PTL DEF Spec

\* The check of the list never refuses what the rules allow.
THEOREM TheChecksAgree == Spec => []ChecksAgree
<1>1. TypeOK => ChecksAgree
  <2> SUFFICES ASSUME TypeOK, snapshot # None, NEW incoming \in LabelForms,
                      Accepted(MergeOptionsMaps(snapshot.form, incoming))
               PROVE  OptionsAllowed(CheckedOptions(MergeOptionsMaps(snapshot.form, incoming)),
                                     snapshot.country)
    BY DEF ChecksAgree
  <2>1. MergeOptionsMaps(snapshot.form, incoming) \in Form
    BY MergeIsForm, FormsAssumption DEF TypeOK, Snapshot
  <2> QED BY <2>1, RulesSuffice
<1> QED BY <1>1, TypeCorrect, PTL
=============================================================================
