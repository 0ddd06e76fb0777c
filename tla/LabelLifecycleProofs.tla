------------------------ MODULE LabelLifecycleProofs ------------------------
(***************************************************************************)
(* Proofs about LabelLifecycle, for any number of rates, invoices, labels, *)
(* shipments and concurrent calls.                                         *)
(***************************************************************************)
EXTENDS LabelLifecycle, TLAPS

CallsType == calls \in [Call -> CallState \union {None}]

-----------------------------------------------------------------------------
(* The operations on a call.                                               *)

\* A call in flight is a record.
LEMMA CallIsState ==
  ASSUME CallsType, NEW c \in Call, calls[c] # None
  PROVE  calls[c] \in CallState
  BY DEF CallsType

\* Goto moves one call and keeps what it carries.
LEMMA GotoMoves ==
  ASSUME CallsType, NEW c \in Call, calls[c] # None, NEW pc \in PC, Goto(c, pc)
  PROVE  /\ CallsType'
         /\ calls'[c] # None
         /\ calls'[c].pc = pc
         /\ calls'[c].rate = calls[c].rate
         /\ calls'[c].label = calls[c].label
         /\ calls'[c].invoice = calls[c].invoice
         /\ calls'[c].shipment = calls[c].shipment
         /\ calls'[c].link = calls[c].link
         /\ \A d \in Call : d # c => calls'[d] = calls[d]
<1>1. calls[c] \in CallState
  BY CallIsState
<1>2. calls'[c] = [calls[c] EXCEPT !.pc = pc]
  BY DEF Goto, CallsType
<1>3. calls'[c] \in CallState
  BY <1>1, <1>2 DEF CallState
<1>4. calls'[c] # None
  BY <1>3, NoneAssumption
<1>5. \A d \in Call : d # c => calls'[d] = calls[d]
  BY DEF Goto, CallsType
<1>6. CallsType'
  BY <1>3 DEF Goto, CallsType
<1>. QED
  BY <1>1, <1>2, <1>4, <1>5, <1>6 DEF CallState

\* End drops one call.
LEMMA EndDrops ==
  ASSUME CallsType, NEW c \in Call, End(c)
  PROVE  /\ CallsType'
         /\ calls'[c] = None
         /\ \A d \in Call : d # c => calls'[d] = calls[d]
  BY DEF CallsType, End

LEMMA InvoiceType ==
  ASSUME NEW q \in InvoiceOrNot, NEW i \in InvoiceOrNot
  PROVE  EffectiveInvoice(q, i) \in InvoiceOrNot
  BY DEF EffectiveInvoice

\* CreateLabel adds a call that has no shipment yet.
LEMMA CreateLabelStarts ==
  ASSUME TypeOK, NEW c \in Call, NEW r \in Rate, NEW i \in InvoiceOrNot,
         NEW l \in Label, CreateLabel(c, r, i, l)
  PROVE  /\ CallsType'
         /\ calls'[c] # None
         /\ calls'[c].pc = "ship"
         /\ calls'[c].rate = r
         /\ calls'[c].label = l
         /\ calls'[c].invoice = EffectiveInvoice(snapshots[r], i)
         /\ \A d \in Call : d # c => calls'[d] = calls[d]
<1>1. snapshots[r] \in InvoiceOrNot
  BY DEF TypeOK, CreateLabel
<1>2. EffectiveInvoice(snapshots[r], i) \in InvoiceOrNot
  BY <1>1, InvoiceType
<1>. DEFINE new == [pc |-> "ship", rate |-> r, label |-> l,
                    invoice |-> EffectiveInvoice(snapshots[r], i),
                    shipment |-> None, link |-> None]
<1>3. new \in CallState
  BY <1>2 DEF CallState, PC
<1>4. new # None
  BY <1>3, NoneAssumption
<1>5. calls' = [calls EXCEPT ![c] = new]
  BY DEF CreateLabel
<1>. HIDE DEF new
<1>6. CallsType' /\ calls'[c] = new /\ \A d \in Call : d # c => calls'[d] = calls[d]
  BY <1>3, <1>5 DEF TypeOK, CallsType
<1>. QED
  BY <1>4, <1>6 DEF new

\* CreateShipment gives the call a shipment and, maybe, a refund link to it.
LEMMA CreateShipmentHolds ==
  ASSUME CallsType, NEW c \in Call, NEW s \in Shipment, CreateShipment(c, s)
  PROVE  /\ CallsType'
         /\ calls'[c] # None
         /\ calls'[c].pc = "artifact"
         /\ calls'[c].rate = calls[c].rate
         /\ calls'[c].label = calls[c].label
         /\ calls'[c].invoice = calls[c].invoice
         /\ calls'[c].shipment = s
         /\ calls'[c].link \in {s, None}
         /\ \A d \in Call : d # c => calls'[d] = calls[d]
<1>1. PICK link \in {s, None} :
         calls' = [calls EXCEPT ![c].pc = "artifact",
                                ![c].shipment = s, ![c].link = link]
  BY DEF CreateShipment
<1>2. calls[c] \in CallState
  BY CallIsState DEF CreateShipment, At
<1>3. calls'[c] = [calls[c] EXCEPT !.pc = "artifact", !.shipment = s, !.link = link]
  BY <1>1 DEF CallsType
<1>4. calls'[c] \in CallState
  BY <1>2, <1>3 DEF CallState, PC
<1>5. calls'[c] # None
  BY <1>4, NoneAssumption
<1>6. \A d \in Call : d # c => calls'[d] = calls[d]
  BY <1>1 DEF CallsType
<1>7. CallsType'
  BY <1>1, <1>4 DEF CallsType
<1>. QED
  BY <1>2, <1>3, <1>5, <1>6, <1>7 DEF CallState

\* The order of a shipment is that of the call it is created for.
LEMMA CPCreatesOrder ==
  ASSUME CallsType, NEW c \in Call, calls[c] # None, NEW s \in Shipment,
         cp \in [Shipment -> Order \union {None}], CPCreates(c, s)
  PROVE  /\ cp' \in [Shipment -> Order \union {None}]
         /\ cp[s] = None /\ cp'[s] # None
         /\ cp'[s] = [rate |-> calls[c].rate, invoice |-> calls[c].invoice,
                      label |-> calls[c].label]
         /\ \A t \in Shipment : t # s => cp'[t] = cp[t]
<1>. DEFINE order == [rate |-> calls[c].rate, invoice |-> calls[c].invoice,
                      label |-> calls[c].label]
<1>1. order \in Order
  BY CallIsState DEF CallState, Order
<1>2. order # None
  BY <1>1, NoneAssumption
<1>3. cp' = [cp EXCEPT ![s] = order] /\ cp[s] = None
  BY DEF CPCreates
<1>. HIDE DEF order
<1>4. /\ cp' \in [Shipment -> Order \union {None}] /\ cp'[s] = order
      /\ \A t \in Shipment : t # s => cp'[t] = cp[t]
  BY <1>1, <1>3
<1>. QED
  BY <1>2, <1>3, <1>4 DEF order

-----------------------------------------------------------------------------
(* Types.                                                                  *)

LEMMA TypeInit == Init => TypeOK
  BY NoneAssumption DEF Init, TypeOK, InvoiceOrNot

\* The row a call inserts.
LEMMA NewRecordType ==
  ASSUME CallsType, NEW c \in Call, calls[c] # None, calls[c].shipment # None
  PROVE  NewRecord(c) \in Record /\ NewRecord(c) # None
<1>1. NewRecord(c) \in Record
  BY CallIsState DEF NewRecord, CallState, Record
<1>. QED
  BY <1>1, NoneAssumption

\* Past CreateShipment, a call holds a shipment.
Held(c) == calls[c] # None /\ calls[c].pc # "ship"

HeldShipments == \A c \in Call : Held(c) => calls[c].shipment \in Shipment

LEMMA HeldInit == Init => HeldShipments
  BY DEF Init, HeldShipments, Held

LEMMA CallTypeStep ==
  ASSUME TypeOK, HeldShipments, NEW c \in Call, CallStep(c)
  PROVE  TypeOK' /\ HeldShipments'
<1>. USE DEF history, stored
<1>0. CallsType
  BY DEF TypeOK, CallsType
<1>1. ASSUME NEW s \in Shipment, CreateShipment(c, s)  PROVE TypeOK' /\ HeldShipments'
  <2>0. calls[c] # None /\ CPCreates(c, s)
    BY <1>1 DEF CreateShipment, At
  <2>1. CallsType' /\ cp' \in [Shipment -> Order \union {None}]
    BY <1>0, <1>1, <2>0, CreateShipmentHolds, CPCreatesOrder DEF TypeOK
  <2>2. TypeOK'
    BY <1>1, <2>1 DEF CreateShipment, TypeOK, CallsType
  <2>3. HeldShipments'
    BY <1>0, <1>1, CreateShipmentHolds DEF HeldShipments, Held
  <2>. QED
    BY <2>2, <2>3
<1>2. CASE CreateShipmentFails(c)
  <2>1. calls[c] # None /\ End(c)
    BY <1>2 DEF CreateShipmentFails, At
  <2>2. cp' \in [Shipment -> Order \union {None}]
    BY <1>0, <1>2, <2>1, CPCreatesOrder DEF CreateShipmentFails, TypeOK
  <2>3. TypeOK'
    BY <1>0, <1>2, <2>1, <2>2, EndDrops DEF CreateShipmentFails, TypeOK, CallsType
  <2>4. HeldShipments'
    BY <1>0, <2>1, EndDrops DEF HeldShipments, Held
  <2>. QED
    BY <2>3, <2>4
<1>3. CASE GetArtifact(c)
  <2>1. calls[c] # None /\ calls[c].pc = "artifact" /\ Goto(c, "pdf") /\ "pdf" \in PC
    BY <1>3 DEF GetArtifact, At, PC
  <2>2. TypeOK'
    BY <1>0, <1>3, <2>1, GotoMoves DEF GetArtifact, TypeOK, CallsType
  <2>3. HeldShipments'
    BY <1>0, <2>1, GotoMoves DEF HeldShipments, Held
  <2>. QED
    BY <2>2, <2>3
<1>4. CASE GetArtifactFails(c)
  <2>1. TypeOK'
    BY <1>0, <1>4, EndDrops DEF GetArtifactFails, TypeOK, CallsType
  <2>2. HeldShipments'
    BY <1>0, <1>4, EndDrops DEF GetArtifactFails, HeldShipments, Held
  <2>. QED
    BY <2>1, <2>2
<1>5. CASE SaveLabelPDF(c)
  <2>1. calls[c] # None /\ calls[c].pc = "pdf" /\ Goto(c, "chosen") /\ "chosen" \in PC
    BY <1>5 DEF SaveLabelPDF, At, PC
  <2>2. calls[c].shipment \in Shipment
    BY <2>1 DEF HeldShipments, Held
  <2>3. pdf' \in [Label -> Shipment \union {None, Torn}]
    BY <1>5, <2>2 DEF SaveLabelPDF, TypeOK
  <2>4. TypeOK'
    BY <1>0, <1>5, <2>1, <2>3, GotoMoves DEF SaveLabelPDF, TypeOK, CallsType
  <2>5. HeldShipments'
    BY <1>0, <2>1, GotoMoves DEF HeldShipments, Held
  <2>. QED
    BY <2>4, <2>5
<1>6. CASE SaveLabelPDFFails(c)
  <2>1. pdf' \in [Label -> Shipment \union {None, Torn}]
    BY <1>6 DEF SaveLabelPDFFails, TypeOK
  <2>2. TypeOK'
    BY <1>0, <1>6, <2>1, EndDrops DEF SaveLabelPDFFails, TypeOK, CallsType
  <2>3. HeldShipments'
    BY <1>0, <1>6, EndDrops DEF SaveLabelPDFFails, HeldShipments, Held
  <2>. QED
    BY <2>2, <2>3
<1>7. CASE SaveChosenRateID(c)
  <2>1. calls[c] # None /\ calls[c].pc = "chosen" /\ Goto(c, "tracking") /\ "tracking" \in PC
    BY <1>7 DEF SaveChosenRateID, At, PC
  <2>2. calls[c].rate \in Rate
    BY <1>0, <2>1, CallIsState DEF CallState
  <2>3. chosen' \in [Invoice -> Rate \union {None}] /\ faulty' \in BOOLEAN
    BY <1>7, <2>2 DEF SaveChosenRateID, TypeOK
  <2>4. TypeOK'
    BY <1>0, <1>7, <2>1, <2>3, GotoMoves DEF SaveChosenRateID, TypeOK, CallsType
  <2>5. HeldShipments'
    BY <1>0, <2>1, GotoMoves DEF HeldShipments, Held
  <2>. QED
    BY <2>4, <2>5
<1>8. CASE SaveTrackingNumber(c)
  <2>1. calls[c] # None /\ calls[c].pc = "tracking" /\ Goto(c, "record") /\ "record" \in PC
    BY <1>8 DEF SaveTrackingNumber, At, PC
  <2>2. calls[c].shipment \in Shipment
    BY <2>1 DEF HeldShipments, Held
  <2>3. tracking' \in [Invoice -> Shipment \union {None}] /\ faulty' \in BOOLEAN
    BY <1>8, <2>2 DEF SaveTrackingNumber, TypeOK
  <2>4. TypeOK'
    BY <1>0, <1>8, <2>1, <2>3, GotoMoves DEF SaveTrackingNumber, TypeOK, CallsType
  <2>5. HeldShipments'
    BY <1>0, <2>1, GotoMoves DEF HeldShipments, Held
  <2>. QED
    BY <2>4, <2>5
<1>9. CASE SaveLabelRecord(c)
  <2>1. calls[c] # None /\ calls[c].pc = "record" /\ End(c)
    BY <1>9 DEF SaveLabelRecord, At
  <2>2. calls[c].shipment \in Shipment
    BY <2>1 DEF HeldShipments, Held
  <2>3. calls[c].label \in Label
    BY <1>0, <2>1, CallIsState DEF CallState
  <2>4. NewRecord(c) \in Record
    BY <1>0, <2>1, <2>2, NewRecordType, NoneAssumption
  <2>5. records' \in [Label -> Record \union {None}] /\ faulty' \in BOOLEAN
    BY <1>9, <2>4 DEF SaveLabelRecord, TypeOK
  <2>6. answered' \subseteq Label \X Shipment
    BY <1>9, <2>2, <2>3 DEF SaveLabelRecord, TypeOK
  <2>7. TypeOK'
    BY <1>0, <1>9, <2>1, <2>5, <2>6, EndDrops DEF SaveLabelRecord, TypeOK, CallsType
  <2>8. HeldShipments'
    BY <1>0, <2>1, EndDrops DEF HeldShipments, Held
  <2>. QED
    BY <2>7, <2>8
<1>. QED
  BY <1>1, <1>2, <1>3, <1>4, <1>5, <1>6, <1>7, <1>8, <1>9 DEF CallStep

LEMMA TypeStep ==
  ASSUME TypeOK, HeldShipments, [Next]_vars
  PROVE  TypeOK' /\ HeldShipments'
<1>. USE DEF history, stored
<1>0. CallsType
  BY DEF TypeOK, CallsType
<1>1. ASSUME NEW r \in Rate, NEW i \in InvoiceOrNot, Quote(r, i)
      PROVE  TypeOK' /\ HeldShipments'
  BY <1>1 DEF Quote, TypeOK, HeldShipments, Held
<1>2. ASSUME NEW r \in Rate, Expire(r)  PROVE TypeOK' /\ HeldShipments'
  BY <1>2 DEF Expire, TypeOK, HeldShipments, Held
<1>3. ASSUME NEW c \in Call, NEW r \in Rate, NEW i \in InvoiceOrNot, NEW l \in Label,
             CreateLabel(c, r, i, l)
      PROVE  TypeOK' /\ HeldShipments'
  <2>1. named' \subseteq Label /\ drawn' \subseteq Label
    BY <1>3 DEF CreateLabel, TypeOK
  <2>2. CallsType'
    BY <1>3, CreateLabelStarts
  <2>3. TypeOK'
    BY <1>3, <2>1, <2>2 DEF CreateLabel, TypeOK, CallsType
  <2>4. calls'[c].pc = "ship" /\ \A d \in Call : d # c => calls'[d] = calls[d]
    BY <1>3, CreateLabelStarts
  <2>5. HeldShipments'
    BY <2>4 DEF HeldShipments, Held
  <2>. QED
    BY <2>3, <2>5
<1>4. ASSUME NEW c \in Call, CallStep(c)  PROVE TypeOK' /\ HeldShipments'
  BY <1>4, CallTypeStep
<1>5. ASSUME NEW f \in RefundCall, NEW l \in Label, RefundShipment(f, l)
      PROVE  TypeOK' /\ HeldShipments'
  <2>1. records[l].link \in Shipment
    BY <1>5 DEF RefundShipment, TypeOK, Record
  <2>. QED
    BY <1>5, <2>1 DEF RefundShipment, TypeOK, HeldShipments, Held
<1>6. ASSUME NEW f \in RefundCall, CPRefunds(f)  PROVE TypeOK' /\ HeldShipments'
  BY <1>6 DEF CPRefunds, TypeOK, HeldShipments, Held
<1>7. ASSUME NEW f \in RefundCall, RefundFails(f)  PROVE TypeOK' /\ HeldShipments'
  BY <1>7 DEF RefundFails, TypeOK, HeldShipments, Held
<1>8. CASE Crash
  <2>1. pdf' \in [Label -> Shipment \union {None, Torn}]
    BY <1>8 DEF Crash, TypeOK
  <2>. QED
    BY <1>8, <2>1 DEF Crash, TypeOK, HeldShipments, Held
<1>9. CASE UNCHANGED vars
  BY <1>9 DEF vars, TypeOK, HeldShipments, Held
<1>. QED
  BY <1>1, <1>2, <1>3, <1>4, <1>5, <1>6, <1>7, <1>8, <1>9 DEF Next, RefundStep

\* The state of the calls, rows, files and shipments is always well formed; in
\* particular no row is written for a call that holds no shipment.
THEOREM TypeCorrect == Spec => []TypeOK
<1>1. Init => TypeOK /\ HeldShipments
  BY TypeInit, HeldInit
<1>2. TypeOK /\ HeldShipments /\ [Next]_vars => (TypeOK /\ HeldShipments)'
  BY TypeStep
<1>. QED
  BY <1>1, <1>2, PTL DEF Spec

THEOREM HeldCorrect == Spec => []HeldShipments
<1>1. Init => TypeOK /\ HeldShipments
  BY TypeInit, HeldInit
<1>2. TypeOK /\ HeldShipments /\ [Next]_vars => (TypeOK /\ HeldShipments)'
  BY TypeStep
<1>. QED
  BY <1>1, <1>2, PTL DEF Spec

-----------------------------------------------------------------------------
(* Most steps let every call in flight go on with what it carries, or end. *)

Same(c) ==
    /\ calls'[c].rate = calls[c].rate
    /\ calls'[c].label = calls[c].label
    /\ calls'[c].invoice = calls[c].invoice
    /\ calls'[c].shipment = calls[c].shipment
    /\ calls'[c].link = calls[c].link

CallsCarryOn ==
    \A c \in Call : calls'[c] # None =>
        calls[c] # None /\ Same(c) /\ (Held(c)' <=> Held(c))

HeldCarryOn == \A c \in Call : Held(c)' => Held(c) /\ Same(c)

CPGrows == \A s \in Shipment : cp[s] # None => cp'[s] = cp[s]

LEMMA GotoCarriesOn ==
  ASSUME CallsType, NEW c \in Call, Held(c), NEW pc \in PC, pc # "ship", Goto(c, pc)
  PROVE  CallsCarryOn
<1>1. calls[c] # None
  BY DEF Held
<1>. QED
  BY <1>1, GotoMoves DEF CallsCarryOn, Held, Same

LEMMA EndCarriesOn ==
  ASSUME CallsType, NEW c \in Call, End(c)
  PROVE  CallsCarryOn
  BY EndDrops DEF CallsCarryOn, Held, Same

LEMMA CallStepCarriesOn ==
  ASSUME CallsType, NEW c \in Call, CallStep(c),
         \A s \in Shipment : ~ CreateShipment(c, s)
  PROVE  CallsCarryOn
<1>1. CASE End(c)
  BY <1>1, EndCarriesOn
<1>2. ASSUME NEW pc \in PC, pc # "ship", Held(c), Goto(c, pc)
      PROVE  CallsCarryOn
  BY <1>2, GotoCarriesOn
<1>3. CASE GetArtifact(c)
  BY <1>2, <1>3 DEF GetArtifact, At, Held, PC
<1>4. CASE SaveLabelPDF(c)
  BY <1>2, <1>4 DEF SaveLabelPDF, At, Held, PC
<1>5. CASE SaveChosenRateID(c)
  BY <1>2, <1>5 DEF SaveChosenRateID, At, Held, PC
<1>6. CASE SaveTrackingNumber(c)
  BY <1>2, <1>6 DEF SaveTrackingNumber, At, Held, PC
<1>7. CASE CreateShipmentFails(c)
  BY <1>1, <1>7 DEF CreateShipmentFails
<1>8. CASE GetArtifactFails(c)
  BY <1>1, <1>8 DEF GetArtifactFails
<1>9. CASE SaveLabelPDFFails(c)
  BY <1>1, <1>9 DEF SaveLabelPDFFails
<1>10. CASE SaveLabelRecord(c)
  BY <1>1, <1>10 DEF SaveLabelRecord
<1>. QED
  BY <1>3, <1>4, <1>5, <1>6, <1>7, <1>8, <1>9, <1>10 DEF CallStep

LEMMA CrashCarriesOn ==
  ASSUME Crash  PROVE CallsCarryOn
  BY DEF Crash, CallsCarryOn

LEMMA UnchangedCarriesOn ==
  ASSUME UNCHANGED calls  PROVE CallsCarryOn
  BY DEF CallsCarryOn, Held, Same

LEMMA CarryOnHeld ==
  ASSUME CallsCarryOn  PROVE HeldCarryOn
  BY DEF CallsCarryOn, HeldCarryOn, Held

LEMMA CreateLabelHeld ==
  ASSUME TypeOK, NEW c \in Call, NEW r \in Rate, NEW i \in InvoiceOrNot,
         NEW l \in Label, CreateLabel(c, r, i, l)
  PROVE  HeldCarryOn
  BY CreateLabelStarts DEF HeldCarryOn, Held, Same

\* Every step but two of a call: the shipments calls hold only get fewer.
LEMMA HeldShrinks ==
  ASSUME TypeOK, [Next]_vars,
         \A c \in Call, s \in Shipment : ~ CreateShipment(c, s)
  PROVE  HeldCarryOn
<1>. USE DEF history, stored
<1>0. CallsType
  BY DEF TypeOK, CallsType
<1>1. CASE UNCHANGED calls
  BY <1>1, UnchangedCarriesOn, CarryOnHeld
<1>2. ASSUME NEW r \in Rate, NEW i \in InvoiceOrNot, Quote(r, i)  PROVE HeldCarryOn
  BY <1>1, <1>2 DEF Quote
<1>3. ASSUME NEW r \in Rate, Expire(r)  PROVE HeldCarryOn
  BY <1>1, <1>3 DEF Expire
<1>4. ASSUME NEW c \in Call, NEW r \in Rate, NEW i \in InvoiceOrNot, NEW l \in Label,
             CreateLabel(c, r, i, l)
      PROVE  HeldCarryOn
  BY <1>4, CreateLabelHeld
<1>5. ASSUME NEW c \in Call, CallStep(c)  PROVE HeldCarryOn
  BY <1>0, <1>5, CallStepCarriesOn, CarryOnHeld
<1>6. ASSUME NEW f \in RefundCall, NEW l \in Label, RefundShipment(f, l)
      PROVE  HeldCarryOn
  BY <1>1, <1>6 DEF RefundShipment
<1>7. ASSUME NEW f \in RefundCall, RefundStep(f)  PROVE HeldCarryOn
  BY <1>1, <1>7 DEF RefundStep, CPRefunds, RefundFails
<1>8. CASE Crash
  BY <1>8, CrashCarriesOn, CarryOnHeld
<1>9. CASE UNCHANGED vars
  BY <1>1, <1>9 DEF vars
<1>. QED
  BY <1>2, <1>3, <1>4, <1>5, <1>6, <1>7, <1>8, <1>9 DEF Next

-----------------------------------------------------------------------------
(* Shipments: each is held by one call, or recorded once, or abandoned.    *)

OrderOf(c) == [rate |-> calls[c].rate, invoice |-> calls[c].invoice,
               label |-> calls[c].label]

\* What a call holds it has paid for itself, and no row is about it yet.
Paid(c) ==
    /\ cp[calls[c].shipment] # None
    /\ cp[calls[c].shipment] = OrderOf(c)
    /\ calls[c].link \in {calls[c].shipment, None}
    /\ calls[c].shipment \notin Recorded

HeldArePaid == \A c \in Call : Held(c) => Paid(c)

HeldByOne ==
    \A c, d \in Call :
        Held(c) /\ Held(d) /\ calls[c].shipment = calls[d].shipment => c = d

ShipmentInv ==
    /\ HeldArePaid
    /\ HeldByOne
    /\ RecordsMatchShipments
    /\ RefundsAreRecorded

LEMMA ShipmentInit == Init => ShipmentInv
  BY DEF Init, ShipmentInv, HeldArePaid, HeldByOne, Held, RecordsMatchShipments,
      RefundsAreRecorded

\* A recorded shipment has been paid for.
LEMMA RecordedArePaid ==
  ASSUME TypeOK, RecordsMatchShipments, NEW l \in Label, records[l] # None
  PROVE  /\ records[l] \in Record /\ records[l].shipment \in Shipment
         /\ cp[records[l].shipment] # None
<1>1. records[l] \in Record
  BY DEF TypeOK
<1>2. [rate |-> records[l].rate, invoice |-> records[l].invoice, label |-> l] \in Order
  BY <1>1 DEF Record, Order
<1>3. cp[records[l].shipment] # None
  BY <1>2, NoneAssumption DEF RecordsMatchShipments
<1>. QED
  BY <1>1, <1>3 DEF Record

LEMMA ShipmentFrame ==
  ASSUME TypeOK, HeldShipments, ShipmentInv, HeldCarryOn, CPGrows,
         records' = records, RefundsAreRecorded'
  PROVE  ShipmentInv'
<1>1. Recorded' = Recorded
  BY DEF Recorded
<1>2. HeldArePaid'
  <2>. SUFFICES ASSUME NEW c \in Call, Held(c)'  PROVE Paid(c)'
    BY DEF HeldArePaid
  <2>1. Held(c) /\ Same(c)
    BY DEF HeldCarryOn
  <2>2. Paid(c) /\ calls[c].shipment \in Shipment
    BY <2>1 DEF ShipmentInv, HeldArePaid, HeldShipments
  <2>. QED
    BY <1>1, <2>1, <2>2 DEF Paid, OrderOf, Same, CPGrows
<1>3. HeldByOne'
  BY DEF ShipmentInv, HeldByOne, HeldCarryOn, Same
<1>4. RecordsMatchShipments'
  <2>. SUFFICES ASSUME NEW l \in Label, records[l] # None
                PROVE  cp'[records[l].shipment] = cp[records[l].shipment]
    BY DEF ShipmentInv, RecordsMatchShipments
  <2>. QED
    BY RecordedArePaid DEF ShipmentInv, CPGrows
<1>. QED
  BY <1>2, <1>3, <1>4 DEF ShipmentInv

LEMMA CreateShipmentInv ==
  ASSUME TypeOK, HeldShipments, ShipmentInv,
         NEW c \in Call, NEW s \in Shipment, CreateShipment(c, s)
  PROVE  ShipmentInv'
<1>0. CallsType /\ calls[c] # None /\ CPCreates(c, s) /\ records' = records
      /\ refunds' = refunds /\ refunded' = refunded
  BY DEF TypeOK, CallsType, CreateShipment, At, stored
<1>1. /\ cp[s] = None /\ cp'[s] # None
      /\ cp'[s] = OrderOf(c)
      /\ \A u \in Shipment : u # s => cp'[u] = cp[u]
  BY <1>0, CPCreatesOrder DEF TypeOK, OrderOf
<1>2. /\ calls'[c].shipment = s
      /\ OrderOf(c)' = OrderOf(c)
      /\ calls'[c].link \in {s, None}
      /\ \A d \in Call : d # c => calls'[d] = calls[d]
  BY <1>0, CreateShipmentHolds DEF OrderOf
<1>3. s \notin Recorded /\ Recorded' = Recorded
  BY <1>0, <1>1, RecordedArePaid DEF Recorded, ShipmentInv
<1>4. \A d \in Call : d # c /\ Held(d) => calls[d].shipment # s /\ calls[d].shipment \in Shipment
  BY <1>1 DEF ShipmentInv, HeldArePaid, Paid, HeldShipments
<1>5. HeldArePaid'
  <2>1. Paid(c)'
    BY <1>1, <1>2, <1>3 DEF Paid
  <2>2. ASSUME NEW d \in Call, d # c, Held(d)'  PROVE Paid(d)'
    <3>1. Held(d) /\ Paid(d) /\ calls'[d] = calls[d]
      BY <1>2, <2>2 DEF Held, ShipmentInv, HeldArePaid
    <3>. QED
      BY <1>1, <1>3, <1>4, <2>2, <3>1 DEF Paid, OrderOf
  <2>. QED
    BY <2>1, <2>2 DEF HeldArePaid
<1>6. HeldByOne'
  BY <1>2, <1>4 DEF ShipmentInv, HeldByOne, Held
<1>7. RecordsMatchShipments'
  <2>. SUFFICES ASSUME NEW l \in Label, records[l] # None
                PROVE  cp'[records[l].shipment] = cp[records[l].shipment]
    BY <1>0 DEF ShipmentInv, RecordsMatchShipments
  <2>. QED
    BY <1>1, RecordedArePaid DEF ShipmentInv
<1>8. RefundsAreRecorded'
  BY <1>0, <1>3 DEF ShipmentInv, RefundsAreRecorded
<1>. QED
  BY <1>5, <1>6, <1>7, <1>8 DEF ShipmentInv

\* The row inserted is about the shipment the call holds.
LEMMA InsertInv ==
  ASSUME TypeOK, HeldShipments, ShipmentInv, NEW c \in Call, SaveLabelRecord(c),
         records[calls[c].label] = None,
         records' = [records EXCEPT ![calls[c].label] = NewRecord(c)]
  PROVE  ShipmentInv'
<1>. DEFINE l == calls[c].label
            s == calls[c].shipment
<1>0. /\ CallsType /\ calls[c] # None /\ Held(c) /\ End(c) /\ cp' = cp
      /\ refunds' = refunds /\ refunded' = refunded
  BY DEF TypeOK, CallsType, SaveLabelRecord, At, Held
<1>1. s \in Shipment /\ l \in Label /\ Paid(c) /\ s # None
  BY <1>0, CallIsState, NoneAssumption DEF HeldShipments, ShipmentInv, HeldArePaid, CallState
<1>2. NewRecord(c) \in Record /\ NewRecord(c) # None
  BY <1>0, <1>1, NewRecordType
<1>3. /\ records'[l] = NewRecord(c)
      /\ \A k \in Label : k # l => records'[k] = records[k]
  BY <1>1 DEF TypeOK
<1>4. Recorded' = Recorded \union {s}
  <2>1. NewRecord(c).shipment = s
    BY DEF NewRecord
  <2>. QED
    BY <1>1, <1>2, <1>3, <2>1 DEF Recorded
<1>5. calls'[c] = None /\ \A d \in Call : d # c => calls'[d] = calls[d]
  BY <1>0, EndDrops
<1>6. HeldArePaid'
  <2>. SUFFICES ASSUME NEW d \in Call, Held(d)'  PROVE Paid(d)'
    BY DEF HeldArePaid
  <2>1. d # c /\ Held(d) /\ calls'[d] = calls[d]
    BY <1>5 DEF Held
  <2>2. Paid(d) /\ calls[d].shipment # s
    BY <1>0, <2>1 DEF ShipmentInv, HeldArePaid, HeldByOne
  <2>. QED
    BY <1>0, <1>4, <2>1, <2>2 DEF Paid, OrderOf
<1>7. HeldByOne'
  BY <1>5 DEF ShipmentInv, HeldByOne, Held
<1>8. RecordsMatchShipments'
  <2>1. /\ cp[NewRecord(c).shipment] = [rate |-> NewRecord(c).rate,
                                        invoice |-> NewRecord(c).invoice, label |-> l]
        /\ NewRecord(c).link \in {NewRecord(c).shipment, None}
    BY <1>1 DEF Paid, OrderOf, NewRecord
  <2>. QED
    BY <1>0, <1>3, <2>1 DEF ShipmentInv, RecordsMatchShipments
<1>9. RefundsAreRecorded'
  BY <1>0, <1>4 DEF ShipmentInv, RefundsAreRecorded
<1>. QED
  BY <1>6, <1>7, <1>8, <1>9 DEF ShipmentInv

LEMMA ShipmentCallStep ==
  ASSUME TypeOK, HeldShipments, ShipmentInv, NEW c \in Call, CallStep(c)
  PROVE  ShipmentInv'
<1>. USE DEF history, stored
<1>0. CallsType
  BY DEF TypeOK, CallsType
<1>1. ASSUME NEW s \in Shipment, CreateShipment(c, s)  PROVE ShipmentInv'
  BY <1>1, CreateShipmentInv
<1>2. ASSUME HeldCarryOn, CPGrows, UNCHANGED <<records, refunds, refunded>>
      PROVE  ShipmentInv'
  <2>1. RefundsAreRecorded'
    BY <1>2 DEF ShipmentInv, RefundsAreRecorded, Recorded
  <2>. QED
    BY <1>2, <2>1, ShipmentFrame
<1>3. ASSUME \A s \in Shipment : ~ CreateShipment(c, s)  PROVE HeldCarryOn
  BY <1>0, <1>3, CallStepCarriesOn, CarryOnHeld
<1>4. CASE CreateShipmentFails(c) /\ HeldCarryOn
  <2>1. CPGrows
    <3>1. ASSUME NEW s \in Shipment, CPCreates(c, s)  PROVE CPGrows
      BY <3>1 DEF CPCreates, TypeOK, CPGrows
    <3>. QED
      BY <1>4, <3>1 DEF CreateShipmentFails, CPGrows
  <2>. QED
    BY <1>2, <1>4, <2>1 DEF CreateShipmentFails
<1>5. ASSUME cp' = cp  PROVE CPGrows
  BY <1>5 DEF CPGrows
<1>6. CASE GetArtifact(c) /\ HeldCarryOn
  BY <1>2, <1>5, <1>6 DEF GetArtifact
<1>7. CASE GetArtifactFails(c) /\ HeldCarryOn
  BY <1>2, <1>5, <1>7 DEF GetArtifactFails
<1>8. CASE SaveLabelPDF(c) /\ HeldCarryOn
  BY <1>2, <1>5, <1>8 DEF SaveLabelPDF
<1>9. CASE SaveLabelPDFFails(c) /\ HeldCarryOn
  BY <1>2, <1>5, <1>9 DEF SaveLabelPDFFails
<1>10. CASE SaveChosenRateID(c) /\ HeldCarryOn
  BY <1>2, <1>5, <1>10 DEF SaveChosenRateID
<1>11. CASE SaveTrackingNumber(c) /\ HeldCarryOn
  BY <1>2, <1>5, <1>11 DEF SaveTrackingNumber
<1>12. CASE SaveLabelRecord(c) /\ HeldCarryOn
  <2>1. CASE records' = records
    BY <1>2, <1>5, <1>12, <2>1 DEF SaveLabelRecord
  <2>2. CASE records' # records
    BY <1>12, <2>2, InsertInv DEF SaveLabelRecord
  <2>. QED
    BY <2>1, <2>2
<1>. QED
  BY <1>1, <1>3, <1>4, <1>6, <1>7, <1>8, <1>9, <1>10, <1>11, <1>12 DEF CallStep

LEMMA ShipmentStep ==
  ASSUME TypeOK, HeldShipments, ShipmentInv, [Next]_vars
  PROVE  ShipmentInv'
<1>. USE DEF history, stored
<1>1. ASSUME NEW c \in Call, CallStep(c)  PROVE ShipmentInv'
  BY <1>1, ShipmentCallStep
<1>2. ASSUME HeldCarryOn, cp' = cp, records' = records, RefundsAreRecorded'
      PROVE  ShipmentInv'
  BY <1>2, ShipmentFrame DEF CPGrows
<1>3. ASSUME UNCHANGED <<refunds, refunded, records>>  PROVE RefundsAreRecorded'
  BY <1>3 DEF ShipmentInv, RefundsAreRecorded, Recorded
<1>4. ASSUME UNCHANGED calls  PROVE HeldCarryOn
  BY <1>4, UnchangedCarriesOn, CarryOnHeld
<1>5. ASSUME NEW r \in Rate, NEW i \in InvoiceOrNot, Quote(r, i)  PROVE ShipmentInv'
  BY <1>2, <1>3, <1>4, <1>5 DEF Quote
<1>6. ASSUME NEW r \in Rate, Expire(r)  PROVE ShipmentInv'
  BY <1>2, <1>3, <1>4, <1>6 DEF Expire
<1>7. ASSUME NEW c \in Call, NEW r \in Rate, NEW i \in InvoiceOrNot, NEW l \in Label,
             CreateLabel(c, r, i, l)
      PROVE  ShipmentInv'
  BY <1>2, <1>3, <1>7, CreateLabelHeld DEF CreateLabel
<1>8. ASSUME NEW f \in RefundCall, NEW l \in Label, RefundShipment(f, l)
      PROVE  ShipmentInv'
  <2>1. records[l] \in Record /\ records[l].link = records[l].shipment
    BY <1>8, RecordedArePaid DEF RefundShipment, ShipmentInv, RecordsMatchShipments
  <2>2. records[l].link \in Recorded
    BY <1>8, <2>1 DEF RefundShipment, Recorded
  <2>3. RefundsAreRecorded'
    BY <1>8, <2>2 DEF RefundShipment, ShipmentInv, RefundsAreRecorded, Recorded, TypeOK
  <2>. QED
    BY <1>2, <1>4, <1>8, <2>3 DEF RefundShipment
<1>9. ASSUME NEW f \in RefundCall, RefundStep(f)  PROVE ShipmentInv'
  <2>1. RefundsAreRecorded'
    <3>1. CASE CPRefunds(f)
      BY <3>1 DEF CPRefunds, ShipmentInv, RefundsAreRecorded, Recorded, TypeOK
    <3>2. CASE RefundFails(f)
      BY <3>2 DEF RefundFails, ShipmentInv, RefundsAreRecorded, Recorded, TypeOK
    <3>. QED
      BY <1>9, <3>1, <3>2 DEF RefundStep
  <2>. QED
    BY <1>2, <1>4, <1>9, <2>1 DEF RefundStep, CPRefunds, RefundFails
<1>10. CASE Crash
  <2>1. RefundsAreRecorded'
    BY <1>10 DEF Crash, ShipmentInv, RefundsAreRecorded, Recorded
  <2>. QED
    BY <1>2, <1>10, <2>1, CrashCarriesOn, CarryOnHeld DEF Crash
<1>11. CASE UNCHANGED vars
  BY <1>2, <1>3, <1>4, <1>11 DEF vars
<1>. QED
  BY <1>1, <1>5, <1>6, <1>7, <1>8, <1>9, <1>10, <1>11 DEF Next

LEMMA ShipmentsHold == Spec => []ShipmentInv
<1>1. Init => ShipmentInv
  BY ShipmentInit
<1>2. TypeOK /\ HeldShipments /\ ShipmentInv /\ [Next]_vars => ShipmentInv'
  BY ShipmentStep
<1>. QED
  BY <1>1, <1>2, TypeCorrect, HeldCorrect, PTL DEF Spec

\* Rows and shipments agree whatever calls interleave, fail or are cut short:
\* a row is about the shipment made for its label, with its refund link.
THEOREM ShipmentsAccounted == Spec => []RecordsMatchShipments
<1>1. ShipmentInv => RecordsMatchShipments
  BY DEF ShipmentInv
<1>. QED
  BY <1>1, ShipmentsHold, PTL

\* RefundShipment only ever asks for the refund of a recorded shipment.
THEOREM RefundsAccounted == Spec => []RefundsAreRecorded
<1>1. ShipmentInv => RefundsAreRecorded
  BY DEF ShipmentInv
<1>. QED
  BY <1>1, ShipmentsHold, PTL

-----------------------------------------------------------------------------
(* Quotes: a rate keeps the invoice it was quoted for, and passes it on.   *)

SnapshotsFollowQuote ==
    \A r \in Rate : snapshots[r] # None => quotedFor[r] = snapshots[r]

CallsFollowQuote ==
    \A c \in Call : calls[c] # None => QuotedFor(calls[c].rate, calls[c].invoice)

QuoteInv == SnapshotsFollowQuote /\ CallsFollowQuote /\ RowsFollowQuote

LEMMA QuoteInit == Init => QuoteInv
  BY DEF Init, QuoteInv, SnapshotsFollowQuote, CallsFollowQuote, RowsFollowQuote

StillFor(r, i) == quotedFor'[r] \in {i, NoInvoice}

QuotesKept ==
    \A r \in Rate, i \in InvoiceOrNot : QuotedFor(r, i) => StillFor(r, i)

LEMMA RowsFrame ==
  ASSUME TypeOK, RowsFollowQuote, QuotesKept, CPGrows, UNCHANGED stored
  PROVE  RowsFollowQuote'
<1>. USE DEF stored, QuotedFor, StillFor
<1>1. \A i \in Invoice : chosen'[i] # None => StillFor(chosen'[i], i)
  BY DEF RowsFollowQuote, QuotesKept, TypeOK, InvoiceOrNot
<1>2. ASSUME NEW i \in Invoice, tracking'[i] # None
      PROVE  cp'[tracking'[i]] # None /\ StillFor(cp'[tracking'[i]].rate, i)
  <2>1. /\ tracking[i] \in Shipment /\ cp[tracking[i]] # None
        /\ QuotedFor(cp[tracking[i]].rate, i) /\ tracking'[i] = tracking[i]
    BY <1>2 DEF RowsFollowQuote, TypeOK
  <2>2. cp[tracking[i]].rate \in Rate /\ i \in InvoiceOrNot
    BY <2>1 DEF TypeOK, Order, InvoiceOrNot
  <2>3. cp'[tracking[i]] = cp[tracking[i]]
    BY <2>1 DEF CPGrows
  <2>. QED
    BY <2>1, <2>2, <2>3 DEF QuotesKept
<1>3. ASSUME NEW l \in Label, records'[l] # None
      PROVE  StillFor(records'[l].rate, records'[l].invoice)
  <2>1. records[l] \in Record /\ QuotedFor(records[l].rate, records[l].invoice)
    BY <1>3 DEF RowsFollowQuote, TypeOK
  <2>2. records[l].rate \in Rate /\ records[l].invoice \in InvoiceOrNot
    BY <2>1 DEF Record
  <2>. QED
    BY <2>1, <2>2 DEF QuotesKept
<1>. QED
  BY <1>1, <1>2, <1>3 DEF RowsFollowQuote

LEMMA CallsFollow ==
  ASSUME TypeOK, CallsFollowQuote, QuotesKept, CallsCarryOn
  PROVE  CallsFollowQuote'
<1>. USE DEF QuotedFor, StillFor
<1>. SUFFICES ASSUME NEW c \in Call, calls'[c] # None
              PROVE  StillFor(calls'[c].rate, calls'[c].invoice)
  BY DEF CallsFollowQuote
<1>1. calls[c] # None /\ Same(c)
  BY DEF CallsCarryOn
<1>2. calls[c].rate \in Rate /\ calls[c].invoice \in InvoiceOrNot
  BY <1>1 DEF TypeOK, CallState
<1>3. QuotedFor(calls[c].rate, calls[c].invoice)
  BY <1>1 DEF CallsFollowQuote
<1>. QED
  BY <1>1, <1>2, <1>3 DEF QuotesKept, Same

LEMMA QuoteFrame ==
  ASSUME TypeOK, QuoteInv, CallsCarryOn, CPGrows, UNCHANGED <<quotedFor, stored>>,
         SnapshotsFollowQuote'
  PROVE  QuoteInv'
<1>1. QuotesKept
  BY DEF QuotesKept, QuotedFor, StillFor
<1>. QED
  BY <1>1, CallsFollow, RowsFrame DEF QuoteInv

LEMMA QuoteCallStep ==
  ASSUME TypeOK, HeldShipments, HeldArePaid, QuoteInv, NEW c \in Call, CallStep(c)
  PROVE  QuoteInv'
<1>. USE DEF history, stored, QuotedFor, StillFor
<1>0. CallsType
  BY DEF TypeOK, CallsType
<1>1. UNCHANGED <<quotedFor, snapshots>>
  BY DEF CallStep, CreateShipment, CreateShipmentFails, GetArtifact, GetArtifactFails,
      SaveLabelPDF, SaveLabelPDFFails, SaveChosenRateID, SaveTrackingNumber, SaveLabelRecord
<1>2. SnapshotsFollowQuote' /\ QuotesKept
  BY <1>1 DEF QuoteInv, SnapshotsFollowQuote, QuotesKept, QuotedFor
<1>3. CPGrows
  <2>1. ASSUME NEW s \in Shipment, CPCreates(c, s)  PROVE CPGrows
    BY <2>1 DEF CPCreates, TypeOK, CPGrows
  <2>2. CASE cp' = cp
    BY <2>2 DEF CPGrows
  <2>. QED
    BY <2>1, <2>2 DEF CallStep, CreateShipment, CreateShipmentFails, GetArtifact,
        GetArtifactFails, SaveLabelPDF, SaveLabelPDFFails, SaveChosenRateID,
        SaveTrackingNumber, SaveLabelRecord
<1>4. CallsFollowQuote'
  <2>1. CASE \E s \in Shipment : CreateShipment(c, s)
    <3>1. PICK s \in Shipment : CreateShipment(c, s)
      BY <2>1
    <3>2. calls[c] # None /\ calls'[c].rate = calls[c].rate
          /\ calls'[c].invoice = calls[c].invoice
          /\ \A d \in Call : d # c => calls'[d] = calls[d]
      BY <1>0, <3>1, CreateShipmentHolds DEF CreateShipment, At
    <3>. QED
      BY <1>1, <3>2 DEF QuoteInv, CallsFollowQuote, QuotedFor
  <2>2. CASE \A s \in Shipment : ~ CreateShipment(c, s)
    BY <1>0, <1>2, <2>2, CallStepCarriesOn, CallsFollow DEF QuoteInv
  <2>. QED
    BY <2>1, <2>2
<1>5. RowsFollowQuote'
  <2>1. CASE UNCHANGED stored
    BY <1>2, <1>3, <2>1, RowsFrame DEF QuoteInv
  <2>2. CASE SaveChosenRateID(c)
    <3>1. calls[c] # None /\ QuotedFor(calls[c].rate, calls[c].invoice)
      BY <2>2 DEF SaveChosenRateID, At, QuoteInv, CallsFollowQuote
    <3>2. \A i \in Invoice : chosen'[i] # None => StillFor(chosen'[i], i)
      BY <1>1, <2>2, <3>1 DEF SaveChosenRateID, QuoteInv, RowsFollowQuote, QuotedFor, TypeOK
    <3>. QED
      BY <1>1, <2>2, <3>2 DEF SaveChosenRateID, QuoteInv, RowsFollowQuote, QuotedFor
  <2>3. CASE SaveTrackingNumber(c)
    <3>1. /\ calls[c] # None /\ Held(c)
          /\ QuotedFor(calls[c].rate, calls[c].invoice)
      BY <2>3 DEF SaveTrackingNumber, At, Held, QuoteInv, CallsFollowQuote
    <3>2. /\ cp[calls[c].shipment] # None
          /\ QuotedFor(cp[calls[c].shipment].rate, calls[c].invoice)
      <4>1. Paid(c)
        BY <3>1 DEF HeldArePaid
      <4>2. cp[calls[c].shipment].rate = calls[c].rate
        BY <4>1 DEF Paid, OrderOf
      <4>. QED
        BY <3>1, <4>1, <4>2 DEF Paid
    <3>3. \A i \in Invoice : tracking'[i] # None =>
             cp'[tracking'[i]] # None /\ StillFor(cp'[tracking'[i]].rate, i)
      BY <1>1, <2>3, <3>2 DEF SaveTrackingNumber, QuoteInv, RowsFollowQuote, QuotedFor, TypeOK
    <3>. QED
      BY <1>1, <2>3, <3>3 DEF SaveTrackingNumber, QuoteInv, RowsFollowQuote, QuotedFor
  <2>4. CASE SaveLabelRecord(c)
    <3>1. calls[c] # None /\ QuotedFor(calls[c].rate, calls[c].invoice)
      BY <2>4 DEF SaveLabelRecord, At, QuoteInv, CallsFollowQuote
    <3>2. QuotedFor(NewRecord(c).rate, NewRecord(c).invoice)
      BY <3>1 DEF NewRecord
    <3>3. \A l \in Label : records'[l] = records[l] \/ records'[l] = NewRecord(c)
      BY <2>4 DEF SaveLabelRecord, TypeOK
    <3>. QED
      BY <1>1, <2>4, <3>2, <3>3 DEF SaveLabelRecord, QuoteInv, RowsFollowQuote, QuotedFor
  <2>. QED
    BY <2>1, <2>2, <2>3, <2>4 DEF CallStep, CreateShipment, CreateShipmentFails,
        GetArtifact, GetArtifactFails, SaveLabelPDF, SaveLabelPDFFails
<1>. QED
  BY <1>2, <1>4, <1>5 DEF QuoteInv

LEMMA QuoteStep ==
  ASSUME TypeOK, HeldShipments, HeldArePaid, QuoteInv, [Next]_vars
  PROVE  QuoteInv'
<1>. USE DEF history, stored, QuotedFor, StillFor
<1>1. ASSUME UNCHANGED calls  PROVE CallsCarryOn
  BY <1>1, UnchangedCarriesOn
<1>2. ASSUME cp' = cp  PROVE CPGrows
  BY <1>2 DEF CPGrows
<1>3. ASSUME UNCHANGED <<snapshots, quotedFor>>  PROVE SnapshotsFollowQuote'
  BY <1>3 DEF QuoteInv, SnapshotsFollowQuote
<1>4. ASSUME NEW r \in Rate, NEW i \in InvoiceOrNot, Quote(r, i)  PROVE QuoteInv'
  <2>1. QuotesKept
    BY <1>4, NoneAssumption DEF Quote, QuotesKept, QuotedFor, TypeOK, InvoiceOrNot
  <2>2. SnapshotsFollowQuote'
    BY <1>4 DEF Quote, QuoteInv, SnapshotsFollowQuote, TypeOK
  <2>3. CallsFollowQuote' /\ RowsFollowQuote'
    BY <1>1, <1>2, <1>4, <2>1, CallsFollow, RowsFrame DEF Quote, QuoteInv
  <2>. QED
    BY <2>2, <2>3 DEF QuoteInv
<1>5. ASSUME NEW r \in Rate, Expire(r)  PROVE QuoteInv'
  <2>1. SnapshotsFollowQuote'
    BY <1>5 DEF Expire, QuoteInv, SnapshotsFollowQuote, TypeOK
  <2>. QED
    BY <1>1, <1>2, <1>5, <2>1, QuoteFrame DEF Expire
<1>6. ASSUME NEW c \in Call, NEW r \in Rate, NEW i \in InvoiceOrNot, NEW l \in Label,
             CreateLabel(c, r, i, l)
      PROVE  QuoteInv'
  <2>1. /\ snapshots[r] # None
        /\ UNCHANGED <<snapshots, quotedFor, cp, stored>>
    BY <1>6 DEF CreateLabel
  <2>2. /\ calls'[c].rate = r
        /\ calls'[c].invoice = EffectiveInvoice(snapshots[r], i)
        /\ \A d \in Call : d # c => calls'[d] = calls[d]
    BY <1>6, CreateLabelStarts
  <2>3. quotedFor[r] = snapshots[r]
    BY <2>1 DEF QuoteInv, SnapshotsFollowQuote
  <2>4. QuotedFor(r, EffectiveInvoice(snapshots[r], i))
    BY <2>3 DEF QuotedFor, EffectiveInvoice
  <2>5. CallsFollowQuote'
    BY <2>1, <2>2, <2>4 DEF QuoteInv, CallsFollowQuote, QuotedFor
  <2>6. QuotesKept
    BY <2>1 DEF QuotesKept, QuotedFor, StillFor
  <2>. QED
    BY <1>2, <1>3, <2>1, <2>5, <2>6, RowsFrame DEF QuoteInv
<1>7. ASSUME NEW c \in Call, CallStep(c)  PROVE QuoteInv'
  BY <1>7, QuoteCallStep
<1>8. ASSUME NEW f \in RefundCall, NEW l \in Label, RefundShipment(f, l)  PROVE QuoteInv'
  BY <1>1, <1>2, <1>3, <1>8, QuoteFrame DEF RefundShipment
<1>9. ASSUME NEW f \in RefundCall, RefundStep(f)  PROVE QuoteInv'
  BY <1>1, <1>2, <1>3, <1>9, QuoteFrame DEF RefundStep, CPRefunds, RefundFails
<1>10. CASE Crash
  BY <1>2, <1>3, <1>10, CrashCarriesOn, QuoteFrame DEF Crash
<1>11. CASE UNCHANGED vars
  BY <1>1, <1>2, <1>3, <1>11, QuoteFrame DEF vars
<1>. QED
  BY <1>4, <1>5, <1>6, <1>7, <1>8, <1>9, <1>10, <1>11 DEF Next

\* The rate chosen for an invoice, the parcel it is tracked by and the rows of
\* its labels are all about rates quoted for that invoice, or for none.
THEOREM RowsAreQuoted == Spec => []RowsFollowQuote
<1>. DEFINE I == ShipmentInv /\ QuoteInv
<1>1. Init => I
  BY ShipmentInit, QuoteInit
<1>2. TypeOK /\ HeldShipments /\ I /\ [Next]_vars => I'
  BY ShipmentStep, QuoteStep DEF ShipmentInv
<1>3. I => RowsFollowQuote
  BY DEF QuoteInv
<1>. QED
  BY <1>1, <1>2, <1>3, TypeCorrect, HeldCorrect, PTL DEF Spec

-----------------------------------------------------------------------------
(* Labels: an id no request has named belongs to one call, and its file is *)
(* written by that call only.                                              *)

Known == named \union drawn

LabelsKnown ==
    /\ \A c \in Call : calls[c] # None => calls[c].label \in Known
    /\ \A l \in Label : records[l] # None => l \in Known
    /\ \A a \in answered : a[1] \in Known

Own(c) == calls[c] # None /\ calls[c].label \notin named

\* The PDF of the call's label is on disk.
Printed(c) == calls[c] # None /\ calls[c].pc \in {"chosen", "tracking", "record"}

OwnLabels ==
    \A c \in Call : Own(c) =>
        /\ records[calls[c].label] = None
        /\ \A a \in answered : a[1] # calls[c].label
        /\ Printed(c) => pdf[calls[c].label] = calls[c].shipment

OwnByOne ==
    \A c, d \in Call :
        Own(c) /\ calls[d] # None /\ calls[d].label = calls[c].label => d = c

LabelInv == LabelsKnown /\ OwnLabels /\ OwnByOne /\ OwnLabelIsWhole

LEMMA LabelInit == Init => LabelInv
  BY DEF Init, LabelInv, LabelsKnown, OwnLabels, OwnByOne, Own, OwnLabelIsWhole

\* A step that adds no row, answer or name, and writes only the file of a call
\* that is about to write it.
LEMMA LabelFrame ==
  ASSUME TypeOK, LabelInv, UNCHANGED <<records, answered, named, drawn>>,
         \A d \in Call : calls'[d] # None =>
            calls[d] # None /\ calls'[d].label = calls[d].label,
         \A l \in Label : pdf'[l] = pdf[l]
            \/ \E c \in Call : calls[c] # None /\ calls[c].label = l,
         \A d \in Call : Own(d)' /\ Printed(d)' =>
            pdf'[calls'[d].label] = calls'[d].shipment
  PROVE  LabelInv'
<1>. USE DEF LabelInv
<1>1. LabelsKnown'
  BY DEF LabelsKnown, Known
<1>2. OwnLabels'
  BY DEF OwnLabels, Own
<1>3. OwnByOne'
  BY DEF OwnByOne, Own
<1>4. OwnLabelIsWhole'
  <2>1. ASSUME NEW l \in Label, l \notin named, records[l] # None
        PROVE  pdf'[l] = records[l].shipment
    <3>1. pdf[l] = records[l].shipment
      BY <2>1 DEF OwnLabelIsWhole
    <3>2. \A c \in Call : calls[c] # None => calls[c].label # l
      BY <2>1 DEF OwnLabels, Own
    <3>. QED
      BY <3>1, <3>2
  <2>2. ASSUME NEW a \in answered, a[1] \notin named  PROVE pdf'[a[1]] = a[2]
    <3>1. pdf[a[1]] = a[2] /\ a[1] \in Label
      BY <2>2 DEF OwnLabelIsWhole, TypeOK
    <3>2. \A c \in Call : calls[c] # None => calls[c].label # a[1]
      BY <2>2 DEF OwnLabels, Own
    <3>. QED
      BY <3>1, <3>2
  <2>. QED
    BY <2>1, <2>2 DEF OwnLabelIsWhole
<1>. QED
  BY <1>1, <1>2, <1>3, <1>4

\* The same, when no file is written either.
LEMMA LabelStill ==
  ASSUME TypeOK, LabelInv, UNCHANGED <<records, answered, named, drawn, pdf>>,
         \A d \in Call : calls'[d] # None =>
            calls[d] # None /\ calls'[d].label = calls[d].label,
         \A d \in Call : Printed(d)' =>
            Printed(d) /\ calls'[d].shipment = calls[d].shipment
  PROVE  LabelInv'
<1>1. \A d \in Call : Own(d)' /\ Printed(d)' =>
         pdf'[calls'[d].label] = calls'[d].shipment
  BY DEF LabelInv, OwnLabels, Own
<1>. QED
  BY <1>1, LabelFrame

LEMMA CreateLabelLabels ==
  ASSUME TypeOK, LabelInv, NEW c \in Call, NEW r \in Rate, NEW i \in InvoiceOrNot,
         NEW l \in Label, CreateLabel(c, r, i, l)
  PROVE  LabelInv'
<1>. USE DEF LabelInv, stored
<1>1. /\ calls'[c].label = l /\ calls'[c].pc = "ship" /\ calls'[c] # None
      /\ \A d \in Call : d # c => calls'[d] = calls[d]
  BY CreateLabelStarts
<1>2. /\ l \in Known' /\ Known \subseteq Known' /\ named \subseteq named'
      /\ l \in named' \/ l \notin Known
      /\ UNCHANGED <<records, answered, pdf>>
  BY DEF CreateLabel, Known
<1>3. LabelsKnown'
  BY <1>1, <1>2 DEF LabelsKnown
<1>4. OwnLabels'
  <2>. SUFFICES ASSUME NEW d \in Call, Own(d)'
                PROVE  /\ records[calls'[d].label] = None
                       /\ \A a \in answered : a[1] # calls'[d].label
                       /\ Printed(d)' => pdf[calls'[d].label] = calls'[d].shipment
    BY <1>2 DEF OwnLabels
  <2>1. CASE d = c
    BY <1>1, <1>2, <2>1 DEF Own, Printed, LabelsKnown
  <2>2. CASE d # c
    BY <1>1, <1>2, <2>2 DEF Own, Printed, OwnLabels
  <2>. QED
    BY <2>1, <2>2
<1>5. OwnByOne'
  BY <1>1, <1>2 DEF OwnByOne, Own, LabelsKnown
<1>6. OwnLabelIsWhole'
  BY <1>2 DEF OwnLabelIsWhole
<1>. QED
  BY <1>3, <1>4, <1>5, <1>6

LEMMA SaveRecordLabels ==
  ASSUME TypeOK, HeldShipments, LabelInv, NEW c \in Call, SaveLabelRecord(c)
  PROVE  LabelInv'
<1>. DEFINE l == calls[c].label
            s == calls[c].shipment
<1>. USE DEF LabelInv, stored
<1>0. /\ CallsType /\ calls[c] # None /\ Held(c) /\ Printed(c) /\ End(c)
      /\ UNCHANGED <<named, drawn, pdf>>
      /\ answered' = answered \union {<<l, s>>}
  BY DEF TypeOK, CallsType, SaveLabelRecord, At, Held, Printed
<1>1. s \in Shipment /\ l \in Label /\ s # None
  BY <1>0, CallIsState, NoneAssumption DEF HeldShipments, CallState
<1>2. \A k \in Label :
         records'[k] = records[k] \/ (k = l /\ records'[k] = NewRecord(c))
  BY <1>1 DEF SaveLabelRecord, TypeOK
<1>3. NewRecord(c).shipment = s
  BY DEF NewRecord
<1>4. calls'[c] = None /\ \A d \in Call : d # c => calls'[d] = calls[d]
  BY <1>0, EndDrops
<1>5. l \in Known /\ (l \notin named => pdf[l] = s)
  BY <1>0 DEF LabelsKnown, OwnLabels, Own
<1>6. LabelsKnown'
  BY <1>0, <1>2, <1>4, <1>5 DEF LabelsKnown, Known
<1>7. OwnLabels'
  <2>. SUFFICES ASSUME NEW d \in Call, Own(d)'
                PROVE  /\ records'[calls'[d].label] = None
                       /\ \A a \in answered' : a[1] # calls'[d].label
                       /\ Printed(d)' => pdf'[calls'[d].label] = calls'[d].shipment
    BY DEF OwnLabels
  <2>1. d # c /\ Own(d) /\ calls'[d] = calls[d] /\ (Printed(d)' => Printed(d))
    BY <1>0, <1>4 DEF Own, Printed
  <2>2. calls[d].label # l /\ calls[d].label \in Label
    BY <1>0, <2>1, CallIsState DEF OwnByOne, CallState, Own
  <2>3. records'[calls[d].label] = records[calls[d].label]
    BY <1>2, <2>2
  <2>. QED
    BY <1>0, <2>1, <2>2, <2>3 DEF OwnLabels
<1>8. OwnByOne'
  BY <1>0, <1>4 DEF OwnByOne, Own
<1>9. OwnLabelIsWhole'
  BY <1>0, <1>2, <1>3, <1>5 DEF OwnLabelIsWhole
<1>. QED
  BY <1>6, <1>7, <1>8, <1>9

LEMMA LabelCallStep ==
  ASSUME TypeOK, HeldShipments, LabelInv, NEW c \in Call, CallStep(c)
  PROVE  LabelInv'
<1>. USE DEF history, stored
<1>0. CallsType
  BY DEF TypeOK, CallsType
<1>1. ASSUME End(c), UNCHANGED <<records, answered, named, drawn, pdf>>  PROVE LabelInv'
  BY <1>0, <1>1, EndDrops, LabelStill DEF Printed
<1>2. ASSUME NEW pc \in PC, Goto(c, pc), calls[c] # None,
             pc \in {"chosen", "tracking", "record"} => Printed(c),
             UNCHANGED <<records, answered, named, drawn, pdf>>
      PROVE  LabelInv'
  <2>1. \A d \in Call : calls'[d] # None =>
           calls[d] # None /\ calls'[d].label = calls[d].label
    BY <1>0, <1>2, GotoMoves
  <2>2. \A d \in Call : Printed(d)' =>
           Printed(d) /\ calls'[d].shipment = calls[d].shipment
    BY <1>0, <1>2, GotoMoves DEF Printed
  <2>. QED
    BY <1>2, <2>1, <2>2, LabelStill
<1>3. CASE \E s \in Shipment : CreateShipment(c, s)
  <2>1. PICK s \in Shipment : CreateShipment(c, s)
    BY <1>3
  <2>2. /\ calls[c] # None /\ calls'[c].label = calls[c].label
        /\ calls'[c].pc = "artifact"
        /\ \A d \in Call : d # c => calls'[d] = calls[d]
        /\ UNCHANGED <<records, answered, named, drawn, pdf>>
    BY <1>0, <2>1, CreateShipmentHolds DEF CreateShipment, At
  <2>3. \A d \in Call : calls'[d] # None =>
           calls[d] # None /\ calls'[d].label = calls[d].label
    BY <2>2
  <2>4. \A d \in Call : Printed(d)' =>
           Printed(d) /\ calls'[d].shipment = calls[d].shipment
    BY <2>2 DEF Printed
  <2>. QED
    BY <2>2, <2>3, <2>4, LabelStill
<1>4. CASE CreateShipmentFails(c)
  BY <1>1, <1>4 DEF CreateShipmentFails
<1>5. CASE GetArtifact(c)
  BY <1>2, <1>5 DEF GetArtifact, At, PC
<1>6. CASE GetArtifactFails(c)
  BY <1>1, <1>6 DEF GetArtifactFails
<1>7. CASE SaveLabelPDF(c)
  <2>0. /\ calls[c] # None /\ Goto(c, "chosen") /\ "chosen" \in PC
        /\ pdf' = [pdf EXCEPT ![calls[c].label] = calls[c].shipment]
        /\ UNCHANGED <<records, answered, named, drawn>>
    BY <1>7 DEF SaveLabelPDF, At, PC
  <2>1. calls[c].label \in Label
    BY <1>0, <2>0, CallIsState DEF CallState
  <2>2. /\ \A d \in Call : d # c => calls'[d] = calls[d]
        /\ calls'[c].label = calls[c].label /\ calls'[c].shipment = calls[c].shipment
    BY <1>0, <2>0, GotoMoves
  <2>3. \A d \in Call : calls'[d] # None =>
           calls[d] # None /\ calls'[d].label = calls[d].label
    BY <2>0, <2>2
  <2>4. \A l \in Label : pdf'[l] = pdf[l] \/ calls[c].label = l
    BY <2>0 DEF TypeOK
  <2>5. ASSUME NEW d \in Call, Own(d)', Printed(d)'
        PROVE  pdf'[calls'[d].label] = calls'[d].shipment
    <3>1. CASE d = c
      BY <2>0, <2>1, <2>2, <3>1 DEF TypeOK
    <3>2. CASE d # c
      <4>1. Own(d) /\ Printed(d) /\ calls'[d] = calls[d]
        BY <2>0, <2>2, <2>5, <3>2 DEF Own, Printed
      <4>2. calls[d].label # calls[c].label /\ calls[d].label \in Label
        BY <1>0, <2>0, <3>2, <4>1, CallIsState DEF LabelInv, OwnByOne, Own, CallState
      <4>3. pdf[calls[d].label] = calls[d].shipment
        BY <4>1 DEF LabelInv, OwnLabels
      <4>. QED
        BY <2>4, <4>1, <4>2, <4>3
    <3>. QED
      BY <3>1, <3>2
  <2>. QED
    BY <2>0, <2>3, <2>4, <2>5, LabelFrame
<1>8. CASE SaveLabelPDFFails(c)
  <2>0. /\ calls[c] # None /\ End(c)
        /\ UNCHANGED <<records, answered, named, drawn>>
    BY <1>8 DEF SaveLabelPDFFails, At
  <2>1. calls'[c] = None /\ \A d \in Call : d # c => calls'[d] = calls[d]
    BY <1>0, <2>0, EndDrops
  <2>2. \A d \in Call : calls'[d] # None =>
           calls[d] # None /\ calls'[d].label = calls[d].label
    BY <2>1
  <2>3. \A l \in Label : pdf'[l] = pdf[l] \/ calls[c].label = l
    BY <1>8 DEF SaveLabelPDFFails, TypeOK
  <2>4. ASSUME NEW d \in Call, Own(d)', Printed(d)'
        PROVE  pdf'[calls'[d].label] = calls'[d].shipment
    <3>1. d # c /\ Own(d) /\ Printed(d) /\ calls'[d] = calls[d]
      BY <2>0, <2>1, <2>4 DEF Own, Printed
    <3>2. calls[d].label # calls[c].label /\ calls[d].label \in Label
      BY <1>0, <2>0, <3>1, CallIsState DEF LabelInv, OwnByOne, Own, CallState
    <3>3. pdf[calls[d].label] = calls[d].shipment
      BY <3>1 DEF LabelInv, OwnLabels
    <3>. QED
      BY <2>3, <3>1, <3>2, <3>3
  <2>. QED
    BY <2>0, <2>2, <2>3, <2>4, LabelFrame
<1>9. CASE SaveChosenRateID(c)
  BY <1>2, <1>9 DEF SaveChosenRateID, At, PC, Printed
<1>10. CASE SaveTrackingNumber(c)
  BY <1>2, <1>10 DEF SaveTrackingNumber, At, PC, Printed
<1>11. CASE SaveLabelRecord(c)
  BY <1>11, SaveRecordLabels
<1>. QED
  BY <1>3, <1>4, <1>5, <1>6, <1>7, <1>8, <1>9, <1>10, <1>11 DEF CallStep

LEMMA LabelStep ==
  ASSUME TypeOK, HeldShipments, LabelInv, [Next]_vars
  PROVE  LabelInv'
<1>. USE DEF history, stored
<1>1. ASSUME UNCHANGED <<calls, records, answered, named, drawn, pdf>>  PROVE LabelInv'
  BY <1>1, LabelStill DEF Printed
<1>2. ASSUME NEW r \in Rate, NEW i \in InvoiceOrNot, Quote(r, i)  PROVE LabelInv'
  BY <1>1, <1>2 DEF Quote
<1>3. ASSUME NEW r \in Rate, Expire(r)  PROVE LabelInv'
  BY <1>1, <1>3 DEF Expire
<1>4. ASSUME NEW c \in Call, NEW r \in Rate, NEW i \in InvoiceOrNot, NEW l \in Label,
             CreateLabel(c, r, i, l)
      PROVE  LabelInv'
  BY <1>4, CreateLabelLabels
<1>5. ASSUME NEW c \in Call, CallStep(c)  PROVE LabelInv'
  BY <1>5, LabelCallStep
<1>6. ASSUME NEW f \in RefundCall, NEW l \in Label, RefundShipment(f, l)  PROVE LabelInv'
  BY <1>1, <1>6 DEF RefundShipment
<1>7. ASSUME NEW f \in RefundCall, RefundStep(f)  PROVE LabelInv'
  BY <1>1, <1>7 DEF RefundStep, CPRefunds, RefundFails
<1>8. CASE Crash
  <2>1. UNCHANGED <<records, answered, named, drawn>> /\ \A d \in Call : calls'[d] = None
    BY <1>8 DEF Crash
  <2>2. \A l \in Label : pdf'[l] = pdf[l]
           \/ \E c \in Call : calls[c] # None /\ calls[c].label = l
    BY <1>8 DEF Crash, At
  <2>. QED
    BY <2>1, <2>2, LabelFrame DEF Own
<1>9. CASE UNCHANGED vars
  BY <1>1, <1>9 DEF vars
<1>. QED
  BY <1>2, <1>3, <1>4, <1>5, <1>6, <1>7, <1>8, <1>9 DEF Next

\* The PDF served for a label whose id the plugin drew is whole and is that of
\* the shipment in its row, and in the answer, whatever else goes wrong.
THEOREM OwnLabelsAreWhole == Spec => []OwnLabelIsWhole
<1>1. Init => LabelInv
  BY LabelInit
<1>2. TypeOK /\ HeldShipments /\ LabelInv /\ [Next]_vars => LabelInv'
  BY LabelStep
<1>3. LabelInv => OwnLabelIsWhole
  BY DEF LabelInv
<1>. QED
  BY <1>1, <1>2, <1>3, TypeCorrect, HeldCorrect, PTL DEF Spec

-----------------------------------------------------------------------------
(* While nothing fails, what was paid for is held by a call or has its row. *)

HeldOrAccounted ==
    ~ faulty => \A s \in Shipment : cp[s] # None =>
        \/ \E c \in Call : Held(c) /\ calls[c].shipment = s
        \/ Accounted(s)

LEMMA HeldOrAccountedFrame ==
  ASSUME TypeOK, HeldOrAccounted, UNCHANGED <<cp, records>>, faulty' = faulty,
         named \subseteq named',
         \A c \in Call : Held(c) => Held(c)' /\ calls'[c].shipment = calls[c].shipment
  PROVE  HeldOrAccounted'
<1>1. \A s \in Shipment : Accounted(s) => Accounted(s)'
  BY DEF Accounted
<1>. QED
  BY <1>1 DEF HeldOrAccounted

LEMMA CreateShipmentAccounts ==
  ASSUME TypeOK, HeldOrAccounted, NEW c \in Call, NEW s \in Shipment,
         CreateShipment(c, s)
  PROVE  HeldOrAccounted'
<1>. USE DEF history, stored
<1>0. /\ CallsType /\ calls[c] # None /\ CPCreates(c, s) /\ ~ Held(c)
      /\ UNCHANGED <<records, named, faulty>>
  BY DEF TypeOK, CallsType, CreateShipment, At, Held
<1>1. \A t \in Shipment : t # s => cp'[t] = cp[t]
  BY <1>0, CPCreatesOrder DEF TypeOK
<1>2. /\ Held(c)' /\ calls'[c].shipment = s
      /\ \A d \in Call : d # c => calls'[d] = calls[d]
  BY <1>0, CreateShipmentHolds DEF Held
<1>3. ASSUME NEW t \in Shipment, t # s, ~ faulty, cp'[t] # None
      PROVE  (\E d \in Call : Held(d)' /\ calls'[d].shipment = t) \/ Accounted(t)'
  <2>1. cp'[t] = cp[t] /\ cp[t] # None
    BY <1>1, <1>3
  <2>2. CASE Accounted(t)
    BY <1>0, <2>1, <2>2 DEF Accounted
  <2>3. CASE \E d \in Call : Held(d) /\ calls[d].shipment = t
    <3>1. PICK d \in Call : Held(d) /\ calls[d].shipment = t
      BY <2>3
    <3>2. Held(d)' /\ calls'[d].shipment = t
      BY <1>0, <1>2, <3>1 DEF Held
    <3>. QED
      BY <3>2
  <2>. QED
    BY <1>3, <2>1, <2>2, <2>3 DEF HeldOrAccounted
<1>. QED
  BY <1>0, <1>2, <1>3 DEF HeldOrAccounted

\* A row is missing only for a label id that a request reused.
LEMMA SaveRecordAccounts ==
  ASSUME TypeOK, HeldShipments, ShipmentInv, LabelInv, HeldOrAccounted,
         NEW c \in Call, SaveLabelRecord(c)
  PROVE  HeldOrAccounted'
<1>. DEFINE l == calls[c].label
            s == calls[c].shipment
<1>. SUFFICES ASSUME ~ faulty', NEW t \in Shipment, cp[t] # None
              PROVE  (\E d \in Call : Held(d)' /\ calls'[d].shipment = t) \/ Accounted(t)'
  BY DEF HeldOrAccounted, SaveLabelRecord, stored
<1>0. /\ CallsType /\ calls[c] # None /\ Held(c) /\ End(c)
      /\ UNCHANGED <<cp, named>> /\ ~ faulty
      /\ \/ records[l] = None /\ records' = [records EXCEPT ![l] = NewRecord(c)]
         \/ records[l] # None /\ records' = records
  BY DEF TypeOK, CallsType, SaveLabelRecord, At, Held
<1>1. s \in Shipment /\ l \in Label /\ Paid(c) /\ s # None
  BY <1>0, CallIsState, NoneAssumption DEF HeldShipments, ShipmentInv, HeldArePaid, CallState
<1>2. NewRecord(c).shipment = s /\ NewRecord(c) # None
  BY <1>0, <1>1, NewRecordType DEF NewRecord
<1>3. cp[s].label = l
  BY <1>1 DEF Paid, OrderOf
<1>4. \A d \in Call : d # c => calls'[d] = calls[d]
  BY <1>0, EndDrops
<1>5. CASE t = s
  <2>1. CASE records[l] = None
    BY <1>0, <1>1, <1>2, <1>3, <1>5, <2>1 DEF Accounted, TypeOK
  <2>2. CASE records[l] # None
    <3>1. l \in named
      BY <1>0, <2>2 DEF LabelInv, OwnLabels, Own
    <3>. QED
      BY <1>0, <1>3, <1>5, <2>2, <3>1 DEF Accounted
  <2>. QED
    BY <2>1, <2>2
<1>6. CASE Accounted(t)
  <2>1. records[cp[t].label] # None /\ cp[t].label \in Label
    BY <1>6 DEF Accounted, TypeOK, Order
  <2>2. records'[cp[t].label] = records[cp[t].label]
    BY <1>0, <2>1 DEF TypeOK
  <2>. QED
    BY <1>0, <1>6, <2>2 DEF Accounted
<1>7. ASSUME NEW d \in Call, Held(d), calls[d].shipment = t, t # s
      PROVE  Held(d)' /\ calls'[d].shipment = t
  BY <1>4, <1>7 DEF Held
<1>. QED
  BY <1>0, <1>5, <1>6, <1>7 DEF HeldOrAccounted

LEMMA HeldOrAccountedStep ==
  ASSUME TypeOK, HeldShipments, ShipmentInv, LabelInv, HeldOrAccounted, [Next]_vars
  PROVE  HeldOrAccounted'
<1>. USE DEF history, stored
<1>0. CallsType
  BY DEF TypeOK, CallsType
<1>1. CASE faulty' = TRUE
  BY <1>1 DEF HeldOrAccounted
<1>2. ASSUME UNCHANGED <<calls, cp, records, named, faulty>>  PROVE HeldOrAccounted'
  BY <1>2, HeldOrAccountedFrame DEF Held
<1>3. ASSUME NEW r \in Rate, NEW i \in InvoiceOrNot, Quote(r, i)  PROVE HeldOrAccounted'
  BY <1>1, <1>2, <1>3 DEF Quote
<1>4. ASSUME NEW r \in Rate, Expire(r)  PROVE HeldOrAccounted'
  BY <1>2, <1>4 DEF Expire
<1>5. ASSUME NEW c \in Call, NEW r \in Rate, NEW i \in InvoiceOrNot, NEW l \in Label,
             CreateLabel(c, r, i, l)
      PROVE  HeldOrAccounted'
  <2>1. ~ Held(c) /\ UNCHANGED <<cp, records, faulty>> /\ named \subseteq named'
    BY <1>5 DEF CreateLabel, Held
  <2>2. \A d \in Call : d # c => calls'[d] = calls[d]
    BY <1>5, CreateLabelStarts
  <2>. QED
    BY <2>1, <2>2, HeldOrAccountedFrame DEF Held
<1>6. ASSUME NEW c \in Call, CallStep(c)  PROVE HeldOrAccounted'
  <2>1. ASSUME NEW pc \in PC, pc # "ship", Goto(c, pc), calls[c] # None,
               UNCHANGED <<cp, records, named, faulty>>
        PROVE  HeldOrAccounted'
    BY <1>0, <2>1, GotoMoves, HeldOrAccountedFrame DEF Held
  <2>2. CASE \E s \in Shipment : CreateShipment(c, s)
    BY <2>2, CreateShipmentAccounts
  <2>3. CASE GetArtifact(c)
    BY <2>1, <2>3 DEF GetArtifact, At, PC
  <2>4. CASE SaveLabelPDF(c)
    BY <2>1, <2>4 DEF SaveLabelPDF, At, PC
  <2>5. CASE SaveChosenRateID(c)
    BY <1>1, <2>1, <2>5 DEF SaveChosenRateID, At, PC
  <2>6. CASE SaveTrackingNumber(c)
    BY <1>1, <2>1, <2>6 DEF SaveTrackingNumber, At, PC
  <2>7. CASE SaveLabelRecord(c)
    BY <2>7, SaveRecordAccounts
  <2>8. CASE CreateShipmentFails(c) \/ GetArtifactFails(c) \/ SaveLabelPDFFails(c)
    BY <1>1, <2>8 DEF CreateShipmentFails, GetArtifactFails, SaveLabelPDFFails
  <2>. QED
    BY <1>6, <2>2, <2>3, <2>4, <2>5, <2>6, <2>7, <2>8 DEF CallStep
<1>7. ASSUME NEW f \in RefundCall, NEW l \in Label, RefundShipment(f, l)
      PROVE  HeldOrAccounted'
  BY <1>2, <1>7 DEF RefundShipment
<1>8. ASSUME NEW f \in RefundCall, RefundStep(f)  PROVE HeldOrAccounted'
  BY <1>2, <1>8 DEF RefundStep, CPRefunds, RefundFails
<1>9. CASE Crash
  BY <1>1, <1>9 DEF Crash
<1>10. CASE UNCHANGED vars
  BY <1>2, <1>10 DEF vars
<1>. QED
  BY <1>3, <1>4, <1>5, <1>6, <1>7, <1>8, <1>9, <1>10 DEF Next

\* Without failures and crashes no paid shipment is lost: a call holds it or it
\* has its row, save for a label id that requests reuse.
THEOREM NothingPaidIsLost == Spec => []NoFaultNoOrphan
<1>. DEFINE I == ShipmentInv /\ LabelInv /\ HeldOrAccounted
<1>1. Init => I
  BY ShipmentInit, LabelInit DEF Init, HeldOrAccounted
<1>2. TypeOK /\ HeldShipments /\ I /\ [Next]_vars => I'
  BY ShipmentStep, LabelStep, HeldOrAccountedStep
<1>3. HeldShipments /\ I => NoFaultNoOrphan
  <2>. SUFFICES ASSUME HeldShipments, I, ~ faulty, NEW s \in Shipment, cp[s] # None
                PROVE  s \in InFlight \/ Accounted(s)
    BY DEF NoFaultNoOrphan, Made
  <2>1. CASE \E c \in Call : Held(c) /\ calls[c].shipment = s
    BY <2>1, NoneAssumption DEF InFlight, Held
  <2>. QED
    BY <2>1 DEF HeldOrAccounted
<1>. QED
  BY <1>1, <1>2, <1>3, TypeCorrect, HeldCorrect, PTL DEF Spec

-----------------------------------------------------------------------------
(* label_records implements the ledger of shipments.                       *)

Rows == [l \in Label |-> IF records[l] = None THEN None ELSE records[l].shipment]

LEMMA LedgerInit == Init => Ledger!LInit
  BY DEF Init, Ledger!LInit, Made

LEMMA EnteredIsRecorded ==
  ASSUME TypeOK, RecordsMatchShipments
  PROVE  Ledger!Entered = Recorded
  BY RecordedArePaid, NoneAssumption DEF Ledger!Entered, Recorded

LEMMA LedgerStep ==
  ASSUME TypeOK, HeldShipments, ShipmentInv, [Next]_vars
  PROVE  [Ledger!LNext]_(Ledger!lvars)
<1>. USE DEF history, stored
<1>0. CallsType
  BY DEF TypeOK, CallsType
<1>1. ASSUME UNCHANGED <<cp, records, refunded>>  PROVE UNCHANGED Ledger!lvars
  BY <1>1 DEF Ledger!lvars, Made
<1>2. ASSUME NEW c \in Call, NEW s \in Shipment, calls[c] # None, CPCreates(c, s),
             UNCHANGED <<records, refunded>>
      PROVE  Ledger!LNext
  <2>1. /\ cp[s] = None /\ cp'[s] # None
        /\ \A t \in Shipment : t # s => cp'[t] = cp[t]
    BY <1>0, <1>2, CPCreatesOrder DEF TypeOK
  <2>2. Ledger!Make(s)
    BY <1>2, <2>1 DEF Ledger!Make, Made
  <2>. QED
    BY <2>2 DEF Ledger!LNext
<1>3. ASSUME NEW c \in Call, CallStep(c)  PROVE [Ledger!LNext]_(Ledger!lvars)
  <2>1. CASE \E s \in Shipment : CreateShipment(c, s)
    BY <1>2, <2>1 DEF CreateShipment, At
  <2>2. CASE CreateShipmentFails(c)
    BY <1>1, <1>2, <2>2 DEF CreateShipmentFails, At
  <2>3. CASE SaveLabelRecord(c) /\ records' # records
    <3>. DEFINE l == calls[c].label
                s == calls[c].shipment
    <3>1. /\ calls[c] # None /\ Held(c) /\ records[l] = None
          /\ records' = [records EXCEPT ![l] = NewRecord(c)]
          /\ UNCHANGED <<cp, refunded>>
      BY <2>3 DEF SaveLabelRecord, At, Held
    <3>2. s \in Shipment /\ l \in Label /\ Paid(c) /\ s # None
      BY <1>0, <3>1, CallIsState, NoneAssumption
      DEF HeldShipments, ShipmentInv, HeldArePaid, CallState
    <3>3. NewRecord(c).shipment = s /\ NewRecord(c) # None
      BY <1>0, <3>1, <3>2, NewRecordType DEF NewRecord
    <3>4. Rows' = [Rows EXCEPT ![l] = s] /\ Rows[l] = None
      BY <3>1, <3>2, <3>3 DEF Rows, TypeOK
    <3>5. s \in Made \ Ledger!Entered
      BY <3>2, EnteredIsRecorded DEF Paid, Made, ShipmentInv
    <3>6. Ledger!Enter(s, l)
      BY <3>1, <3>4, <3>5 DEF Ledger!Enter, Rows, Made
    <3>7. \E t \in Shipment, k \in Label : Ledger!Enter(t, k)
      <4>. HIDE DEF l, s
      <4>. QED
        BY <3>2, <3>6 DEF Ledger!Enter
    <3>. QED
      BY <3>7 DEF Ledger!LNext
  <2>4. CASE SaveLabelRecord(c) /\ records' = records
    BY <1>1, <2>4 DEF SaveLabelRecord
  <2>5. CASE GetArtifact(c) \/ GetArtifactFails(c) \/ SaveLabelPDF(c) \/ SaveLabelPDFFails(c)
    BY <1>1, <2>5 DEF GetArtifact, GetArtifactFails, SaveLabelPDF, SaveLabelPDFFails
  <2>6. CASE SaveChosenRateID(c) \/ SaveTrackingNumber(c)
    BY <1>1, <2>6 DEF SaveChosenRateID, SaveTrackingNumber
  <2>. QED
    BY <1>3, <2>1, <2>2, <2>3, <2>4, <2>5, <2>6 DEF CallStep
<1>4. ASSUME NEW f \in RefundCall, CPRefunds(f)  PROVE Ledger!LNext
  <2>1. refunds[f] \in Shipment /\ refunds[f] \in Ledger!Entered
    BY <1>4, EnteredIsRecorded DEF CPRefunds, TypeOK, ShipmentInv, RefundsAreRecorded
  <2>2. Ledger!Refund(refunds[f])
    BY <1>4, <2>1 DEF CPRefunds, Ledger!Refund, Made
  <2>. QED
    BY <2>1, <2>2 DEF Ledger!LNext
<1>5. ASSUME NEW f \in RefundCall, RefundFails(f)  PROVE UNCHANGED Ledger!lvars
  BY <1>1, <1>5 DEF RefundFails
<1>6. ASSUME NEW f \in RefundCall, NEW l \in Label, RefundShipment(f, l)
      PROVE  UNCHANGED Ledger!lvars
  BY <1>1, <1>6 DEF RefundShipment
<1>7. ASSUME NEW r \in Rate, NEW i \in InvoiceOrNot, Quote(r, i)
      PROVE  UNCHANGED Ledger!lvars
  BY <1>1, <1>7 DEF Quote
<1>8. ASSUME NEW r \in Rate, Expire(r)  PROVE UNCHANGED Ledger!lvars
  BY <1>1, <1>8 DEF Expire
<1>9. ASSUME NEW c \in Call, NEW r \in Rate, NEW i \in InvoiceOrNot, NEW l \in Label,
             CreateLabel(c, r, i, l)
      PROVE  UNCHANGED Ledger!lvars
  BY <1>1, <1>9 DEF CreateLabel
<1>10. CASE Crash
  BY <1>1, <1>10 DEF Crash
<1>11. CASE UNCHANGED vars
  BY <1>1, <1>11 DEF vars
<1>. QED
  BY <1>3, <1>4, <1>5, <1>6, <1>7, <1>8, <1>9, <1>10, <1>11 DEF Next, RefundStep

\* label_records is a ledger: a shipment is entered at most once, under one
\* label, its entry never changes, and it is refunded at most once, if entered.
THEOREM RecordsImplementLedger == Spec => ImplementsLedger
<1>1. Init => ShipmentInv
  BY ShipmentInit
<1>2. TypeOK /\ HeldShipments /\ ShipmentInv /\ [Next]_vars => ShipmentInv'
  BY ShipmentStep
<1>3. TypeOK /\ HeldShipments /\ ShipmentInv /\ [Next]_vars => [Ledger!LNext]_(Ledger!lvars)
  BY LedgerStep
<1>. QED
  BY <1>1, <1>2, <1>3, LedgerInit, TypeCorrect, HeldCorrect, PTL
  DEF Spec, ImplementsLedger, Ledger!LSpec
=============================================================================
