--------------------------- MODULE LabelLifecycle ---------------------------
(***************************************************************************)
(* The life of a shipping label, from the quote to the refund.             *)
(*                                                                         *)
(* GetShippingRate quotes rates and keeps a snapshot of each in Redis,     *)
(* where it expires.  CreateLabel turns a rate into a paid shipment: it    *)
(* loads the snapshot, creates the shipment at Canada Post, downloads the  *)
(* label, stores the PDF on disk and then writes three rows, none in a     *)
(* transaction and none of whose failures it reports.  RefundShipment      *)
(* finds the shipment of a label in label_records and asks for a refund.   *)
(* gRPC calls run concurrently; every call to Canada Post, to the disk or  *)
(* to the database is one step; each may fail, Canada Post's answer may be *)
(* lost after it acted, and the process may crash between any two steps.   *)
(* Calls refused before they touch anything are not steps.                 *)
(***************************************************************************)
EXTENDS FiniteSets

CONSTANTS
    Rate,       \* rate ids, drawn at random for each quote
    Invoice,    \* invoice uuids
    Label,      \* label ids, drawn at random or named by the request
    Shipment,   \* shipments Canada Post may create
    Call,       \* CreateLabel calls that can be in flight at a time
    RefundCall, \* RefundShipment calls that can be in flight at a time
    None,       \* no row, no call, no link
    NoInvoice,  \* the empty invoice uuid
    Torn        \* a PDF whose writing was cut short

VARIABLES
    snapshots,  \* Redis: the invoice of the snapshot of each rate, or None
    calls,      \* CreateLabel calls past the snapshot
    refunds,    \* RefundShipment calls: the refund link to be posted
    pdf,        \* files/labels/<id>.pdf: the shipment it was printed for
    chosen,     \* chosen_shipping_rates: rate of each invoice
    tracking,   \* tracking_numbers: tracked shipment of each invoice
    records,    \* label_records
    cp,         \* Canada Post: what each shipment was created for
    refunded,   \* Canada Post: shipments with an accepted refund request
    quotedFor,  \* history: invoice a rate was quoted for, None if unquoted
    named,      \* history: label ids some request has named
    drawn,      \* history: label ids drawn by generateLabelID
    answered,   \* history: <<label, shipment>> of each CreateLabel OK
    faulty      \* history: some operation failed or the process crashed

stored  == <<chosen, tracking, records>>
history == <<quotedFor, named, drawn, answered, faulty>>
vars == <<snapshots, calls, refunds, pdf, stored, cp, refunded, history>>

InvoiceOrNot == Invoice \union {NoInvoice}
PC == {"ship", "artifact", "pdf", "chosen", "tracking", "record"}
CallState == [pc : PC, rate : Rate, label : Label, invoice : InvoiceOrNot,
              shipment : Shipment \union {None}, link : Shipment \union {None}]
Record == [shipment : Shipment, rate : Rate, invoice : InvoiceOrNot,
           link : Shipment \union {None}]
Order == [rate : Rate, invoice : InvoiceOrNot, label : Label]

ASSUME NoneAssumption ==
    /\ None \notin Rate \union InvoiceOrNot \union Shipment \union {Torn}
    /\ None \notin CallState \union Record \union Order
    /\ NoInvoice \notin Invoice
    /\ Torn \notin Shipment

TypeOK ==
    /\ snapshots \in [Rate -> InvoiceOrNot \union {None}]
    /\ calls \in [Call -> CallState \union {None}]
    /\ refunds \in [RefundCall -> Shipment \union {None}]
    /\ pdf \in [Label -> Shipment \union {None, Torn}]
    /\ chosen \in [Invoice -> Rate \union {None}]
    /\ tracking \in [Invoice -> Shipment \union {None}]
    /\ records \in [Label -> Record \union {None}]
    /\ cp \in [Shipment -> Order \union {None}]
    /\ refunded \subseteq Shipment
    /\ quotedFor \in [Rate -> InvoiceOrNot \union {None}]
    /\ named \subseteq Label /\ drawn \subseteq Label
    /\ answered \subseteq Label \X Shipment
    /\ faulty \in BOOLEAN

Init ==
    /\ snapshots = [r \in Rate |-> None]
    /\ calls = [c \in Call |-> None]
    /\ refunds = [f \in RefundCall |-> None]
    /\ pdf = [l \in Label |-> None]
    /\ chosen = [i \in Invoice |-> None]
    /\ tracking = [i \in Invoice |-> None]
    /\ records = [l \in Label |-> None]
    /\ cp = [s \in Shipment |-> None]
    /\ refunded = {}
    /\ quotedFor = [r \in Rate |-> None]
    /\ named = {} /\ drawn = {} /\ answered = {} /\ faulty = FALSE

-----------------------------------------------------------------------------
(* Quotes.                                                                 *)

\* The rate is shown to the customer even if its snapshot could not be saved.
Quote(r, i) ==
    /\ quotedFor[r] = None
    /\ quotedFor' = [quotedFor EXCEPT ![r] = i]
    /\ \/ snapshots' = [snapshots EXCEPT ![r] = i] /\ UNCHANGED faulty
       \/ UNCHANGED snapshots /\ faulty' = TRUE
    /\ UNCHANGED <<calls, refunds, pdf, stored, cp, refunded, named, drawn, answered>>

\* RateSessionTTLMinutes have passed, or Redis lost the key.
Expire(r) ==
    /\ snapshots[r] # None
    /\ snapshots' = [snapshots EXCEPT ![r] = None]
    /\ UNCHANGED <<calls, refunds, pdf, stored, cp, refunded, history>>

-----------------------------------------------------------------------------
(* CreateLabel.                                                            *)

At(c, pc) == calls[c] # None /\ calls[c].pc = pc
Goto(c, pc) == calls' = [calls EXCEPT ![c].pc = pc]
End(c) == calls' = [calls EXCEPT ![c] = None]

InvoiceOfTheRequest(quoted, requested) ==        \* mutant: arguments swapped
    IF requested = NoInvoice THEN quoted ELSE requested

\* The snapshot's invoice, the request's if the snapshot has none.
EffectiveInvoice(quoted, requested) ==
    IF quoted = NoInvoice THEN requested ELSE quoted

CreateLabelUnquoted(c, r, i, l) ==               \* mutant: Load's error is ignored
    /\ calls[c] = None
    /\ named' = named \union {l}
    /\ calls' = [calls EXCEPT ![c] =
                   [pc |-> "ship", rate |-> r, label |-> l,
                    invoice |-> EffectiveInvoice(snapshots[r], i),
                    shipment |-> None, link |-> None]]
    /\ UNCHANGED <<snapshots, refunds, pdf, stored, cp, refunded,
                   quotedFor, drawn, answered, faulty>>

\* The request names a rate, an invoice, and maybe a label id (l in named');
\* otherwise generateLabelID draws one that no one has seen before.
CreateLabel(c, r, i, l) ==
    /\ calls[c] = None
    /\ snapshots[r] # None
    /\ \/ named' = named \union {l} /\ UNCHANGED drawn
       \/ /\ l \notin named \union drawn
          /\ drawn' = drawn \union {l} /\ UNCHANGED named
    /\ calls' = [calls EXCEPT ![c] =
                   [pc |-> "ship", rate |-> r, label |-> l,
                    invoice |-> EffectiveInvoice(snapshots[r], i),
                    shipment |-> None, link |-> None]]
    /\ UNCHANGED <<snapshots, refunds, pdf, stored, cp, refunded,
                   quotedFor, answered, faulty>>

CPCreates(c, s) ==
    /\ cp[s] = None
    /\ cp' = [cp EXCEPT ![s] = [rate |-> calls[c].rate,
                                invoice |-> calls[c].invoice,
                                label |-> calls[c].label]]

\* Canada Post answers with the links of the shipment; refund is optional.
CreateShipment(c, s) ==
    /\ At(c, "ship")
    /\ CPCreates(c, s)
    /\ \E link \in {s, None} :
          calls' = [calls EXCEPT ![c].pc = "artifact",
                                 ![c].shipment = s, ![c].link = link]
    /\ UNCHANGED <<snapshots, refunds, pdf, stored, refunded, history>>

\* Canada Post refuses, or it acts and its answer is lost, late (20 s),
\* unreadable or without a label link.  Either way the call fails.
CreateShipmentFails(c) ==
    /\ At(c, "ship")
    /\ UNCHANGED cp \/ \E s \in Shipment : CPCreates(c, s)
    /\ End(c)
    /\ faulty' = TRUE
    /\ UNCHANGED <<snapshots, refunds, pdf, stored, refunded,
                   quotedFor, named, drawn, answered>>

GetArtifact(c) ==
    /\ At(c, "artifact")
    /\ Goto(c, "pdf")
    /\ UNCHANGED <<snapshots, refunds, pdf, stored, cp, refunded, history>>

GetArtifactFails(c) ==
    /\ At(c, "artifact")
    /\ End(c)
    /\ faulty' = TRUE
    /\ UNCHANGED <<snapshots, refunds, pdf, stored, cp, refunded,
                   quotedFor, named, drawn, answered>>

SaveLabelPDF(c) ==
    /\ At(c, "pdf")
    /\ pdf' = [pdf EXCEPT ![calls[c].label] = calls[c].shipment]
    /\ Goto(c, "chosen")
    /\ UNCHANGED <<snapshots, refunds, stored, cp, refunded, history>>

SaveLabelPDFFailsSilently(c) ==                  \* mutant: the error is only logged
    /\ At(c, "pdf")
    /\ UNCHANGED pdf \/ pdf' = [pdf EXCEPT ![calls[c].label] = Torn]
    /\ Goto(c, "chosen")
    /\ faulty' = TRUE
    /\ UNCHANGED <<snapshots, refunds, stored, cp, refunded,
                   quotedFor, named, drawn, answered>>

\* os.WriteFile truncates the file before it writes.
SaveLabelPDFFails(c) ==
    /\ At(c, "pdf")
    /\ UNCHANGED pdf \/ pdf' = [pdf EXCEPT ![calls[c].label] = Torn]
    /\ End(c)
    /\ faulty' = TRUE
    /\ UNCHANGED <<snapshots, refunds, stored, cp, refunded,
                   quotedFor, named, drawn, answered>>

\* A write that is skipped, done, or fails with a log line.
SaveChosenRateID(c) ==
    /\ At(c, "chosen")
    /\ Goto(c, "tracking")
    /\ LET i == calls[c].invoice IN
       \/ i = NoInvoice /\ UNCHANGED <<chosen, faulty>>
       \/ /\ i # NoInvoice
          /\ chosen' = [chosen EXCEPT ![i] = calls[c].rate] /\ UNCHANGED faulty
       \/ i # NoInvoice /\ faulty' = TRUE /\ UNCHANGED chosen
    /\ UNCHANGED <<snapshots, refunds, pdf, tracking, records, cp, refunded,
                   quotedFor, named, drawn, answered>>

\* Skipped as well when Canada Post gave no tracking pin.
SaveTrackingNumber(c) ==
    /\ At(c, "tracking")
    /\ Goto(c, "record")
    /\ LET i == calls[c].invoice IN
       \/ UNCHANGED <<tracking, faulty>>
       \/ /\ i # NoInvoice
          /\ tracking' = [tracking EXCEPT ![i] = calls[c].shipment] /\ UNCHANGED faulty
       \/ i # NoInvoice /\ faulty' = TRUE /\ UNCHANGED tracking
    /\ UNCHANGED <<snapshots, refunds, pdf, chosen, records, cp, refunded,
                   quotedFor, named, drawn, answered>>

RecordOfTheSnapshot(c) ==                        \* mutant: no fallback invoice
    [shipment |-> calls[c].shipment, rate |-> calls[c].rate,
     invoice |-> quotedFor[calls[c].rate], link |-> calls[c].link]

NewRecord(c) == [shipment |-> calls[c].shipment, rate |-> calls[c].rate,
                 invoice |-> calls[c].invoice, link |-> calls[c].link]

ReplaceLabelRecord(c) ==                         \* mutant: REPLACE for INSERT
    /\ At(c, "record")
    /\ records' = [records EXCEPT ![calls[c].label] = NewRecord(c)]
    /\ answered' = answered \union {<<calls[c].label, calls[c].shipment>>}
    /\ End(c)
    /\ UNCHANGED <<snapshots, refunds, pdf, chosen, tracking, cp, refunded,
                   quotedFor, named, drawn, faulty>>

SaveRefundableRecord(c) ==                       \* mutant: no row without a link
    /\ At(c, "record")
    /\ LET l == calls[c].label IN
       /\ IF records[l] = None /\ calls[c].link # None
          THEN records' = [records EXCEPT ![l] = NewRecord(c)]
          ELSE UNCHANGED records
       /\ answered' = answered \union {<<l, calls[c].shipment>>}
    /\ End(c)
    /\ UNCHANGED <<snapshots, refunds, pdf, chosen, tracking, cp, refunded,
                   quotedFor, named, drawn, faulty>>

InsertUntilSaved(c) ==                           \* mutant: retried until it succeeds
    /\ At(c, "record")
    /\ records[calls[c].label] = None
    /\ records' = [records EXCEPT ![calls[c].label] = NewRecord(c)]
    /\ answered' = answered \union {<<calls[c].label, calls[c].shipment>>}
    /\ End(c)
    /\ UNCHANGED <<snapshots, refunds, pdf, chosen, tracking, cp, refunded,
                   quotedFor, named, drawn, faulty>>

\* A plain INSERT: it fails on a label id that has a row.  Whatever happens,
\* the caller is told "CreateLabel OK".
SaveLabelRecord(c) ==
    /\ At(c, "record")
    /\ LET l == calls[c].label IN
       /\ \/ /\ records[l] = None
             /\ records' = [records EXCEPT ![l] = NewRecord(c)]
             /\ UNCHANGED faulty
          \/ records[l] # None /\ UNCHANGED <<records, faulty>>
          \/ faulty' = TRUE /\ UNCHANGED records
       /\ answered' = answered \union {<<l, calls[c].shipment>>}
    /\ End(c)
    /\ UNCHANGED <<snapshots, refunds, pdf, chosen, tracking, cp, refunded,
                   quotedFor, named, drawn>>

-----------------------------------------------------------------------------
(* RefundShipment.                                                         *)

\* The row of the label is found, with a refund link and an invoice.
RefundShipment(f, l) ==
    /\ refunds[f] = None
    /\ records[l] # None
    /\ records[l].link # None
    /\ records[l].invoice # NoInvoice
    /\ refunds' = [refunds EXCEPT ![f] = records[l].link]
    /\ UNCHANGED <<snapshots, calls, pdf, stored, cp, refunded, history>>

\* Canada Post accepts one refund request a shipment; its answer may be lost.
CPRefunds(f) ==
    /\ refunds[f] # None
    /\ refunds[f] \notin refunded
    /\ refunded' = refunded \union {refunds[f]}
    /\ refunds' = [refunds EXCEPT ![f] = None]
    /\ UNCHANGED <<snapshots, calls, pdf, stored, cp, history>>

\* The customer's email is not found, or Canada Post refuses (a second
\* request is refused with code 7292), or cannot be reached.
RefundFails(f) ==
    /\ refunds[f] # None
    /\ refunds' = [refunds EXCEPT ![f] = None]
    /\ UNCHANGED <<snapshots, calls, pdf, stored, cp, refunded, history>>

\* Every call in flight is dropped; PDFs being written may be cut short.
Crash ==
    /\ faulty' = TRUE
    /\ calls' = [c \in Call |-> None]
    /\ refunds' = [f \in RefundCall |-> None]
    /\ \E cut \in SUBSET {calls[c].label : c \in {d \in Call : At(d, "pdf")}} :
          pdf' = [l \in Label |-> IF l \in cut THEN Torn ELSE pdf[l]]
    /\ UNCHANGED <<snapshots, stored, cp, refunded, quotedFor, named, drawn, answered>>

-----------------------------------------------------------------------------
CallStep(c) ==
    \/ \E s \in Shipment : CreateShipment(c, s)
    \/ CreateShipmentFails(c)
    \/ GetArtifact(c)
    \/ GetArtifactFails(c)
    \/ SaveLabelPDF(c)
    \/ SaveLabelPDFFails(c)
    \/ SaveChosenRateID(c)
    \/ SaveTrackingNumber(c)
    \/ SaveLabelRecord(c)

RefundStep(f) == CPRefunds(f) \/ RefundFails(f)

Next ==
    \/ \E r \in Rate, i \in InvoiceOrNot : Quote(r, i)
    \/ \E r \in Rate : Expire(r)
    \/ \E c \in Call, r \in Rate, i \in InvoiceOrNot, l \in Label : CreateLabel(c, r, i, l)
    \/ \E c \in Call : CallStep(c)
    \/ \E f \in RefundCall, l \in Label : RefundShipment(f, l)
    \/ \E f \in RefundCall : RefundStep(f)
    \/ Crash

Spec == Init /\ [][Next]_vars

\* The HTTP client gives up after 20 s and the handlers wait for nothing else
\* but Redis (3 s), the disk and the database, so a call in flight goes on.
FairSpec ==
    /\ Spec
    /\ \A c \in Call : WF_vars(CallStep(c))
    /\ \A f \in RefundCall : WF_vars(RefundStep(f))

-----------------------------------------------------------------------------
(* Properties.                                                             *)

Made == {s \in Shipment : cp[s] # None}
Recorded == {records[l].shipment : l \in {k \in Label : records[k] # None}}
InFlight == {calls[c].shipment : c \in {d \in Call : calls[d] # None}} \ {None}

QuotedFor(r, i) == quotedFor[r] \in {i, NoInvoice}

\* Whatever order requests, retries and crashes come in, the rows of an
\* invoice are about rates quoted for that invoice, or for none.
RowsFollowQuote ==
    /\ \A i \in Invoice : chosen[i] # None => QuotedFor(chosen[i], i)
    /\ \A i \in Invoice : tracking[i] # None =>
          cp[tracking[i]] # None /\ QuotedFor(cp[tracking[i]].rate, i)
    /\ \A l \in Label : records[l] # None => QuotedFor(records[l].rate, records[l].invoice)

\* A row of label_records is about the shipment made for that very label,
\* and its refund link, if any, refunds that shipment and no other.
RecordsMatchShipments ==
    \A l \in Label : records[l] # None =>
        LET rec == records[l] IN
        /\ cp[rec.shipment] = [rate |-> rec.rate, invoice |-> rec.invoice, label |-> l]
        /\ rec.link \in {rec.shipment, None}

\* A label whose id no request ever named has a whole PDF of its own shipment
\* once it has a row or its success was answered: neither failures, crashes
\* nor other calls tear or replace it.
OwnLabelIsWhole ==
    /\ \A l \in Label \ named :
          records[l] # None => pdf[l] = records[l].shipment
    /\ \A a \in answered : a[1] \notin named => pdf[a[1]] = a[2]

Accounted(s) ==
    LET l == cp[s].label IN
    records[l] # None /\ (records[l].shipment = s \/ l \in named)

\* While nothing fails, every shipment paid for is being handled or is
\* recorded under its label; the exception is a label id named by a request
\* that had a row already, where INSERT keeps the first shipment.
NoFaultNoOrphan ==
    ~ faulty => \A s \in Made : s \in InFlight \/ Accounted(s)

\* Only a shipment that has a row is refunded, or about to be.
RefundsAreRecorded ==
    /\ refunded \subseteq Recorded
    /\ \A f \in RefundCall : refunds[f] # None => refunds[f] \in Recorded

\* label_records is a ledger of shipments.
Ledger == INSTANCE ShipmentLedger WITH
    made   <- Made,
    ledger <- [l \in Label |-> IF records[l] = None THEN None ELSE records[l].shipment]

ImplementsLedger == Ledger!LSpec

\* A CreateLabel call comes to an end, whatever other calls do to its rows.
CallsEnd == \A c \in Call : calls[c] # None ~> calls[c] = None

\* A shipment paid for is in the end recorded, unless something failed or a
\* request reused a label id: no call is left holding it.
PaidIsRecorded ==
    \A s \in Shipment : s \in Made ~> ((s \in Made /\ Accounted(s)) \/ faulty)

\* What the comment on CreateLabel says: it "creates a shipment and persists
\* the label/tracking metadata".  An answered success has its row.
SuccessIsPersisted ==
    \A a \in answered : records[a[1]] # None /\ records[a[1]].shipment = a[2]
=============================================================================
