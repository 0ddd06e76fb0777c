------------------------------ MODULE RateQuote ------------------------------
(***************************************************************************)
(* Quotes of one store, and the shipments bought from them.                *)
(*                                                                         *)
(* GetShippingRate reads the settings of the store, then the rate of the   *)
(* currency of the request, then asks Canada Post; it saves one snapshot   *)
(* per service in Redis, each over a connection of its own, and answers    *)
(* with all the rates at once.  The settings page changes the settings,    *)
(* and an uninstall deletes them, at any time.  CreateLabel loads the      *)
(* snapshot of the chosen rate, if Redis still has it, and ships what it   *)
(* says; only the customs information may come with the request.           *)
(*                                                                         *)
(* A rate id is random; it is named here by the call and the service it is *)
(* made for.                                                               *)
(***************************************************************************)
EXTENDS ShipmentRequest, FiniteSets

CONSTANTS
    Call,      \* calls of GetShippingRate
    Requests,  \* requests they may come with
    Rates,     \* exchange rates that may be saved
    Answers,   \* price quotes Canada Post may answer with, as sets
    Declared,  \* customs information a CreateLabel request may bring
    Width      \* prices are shown modulo this: 2^32 in the program

VARIABLES
    rates,     \* currency_rates: the rate to CAD of each currency
    enabled,   \* shipping_settings.enabled_services
    calls,     \* calls of GetShippingRate
    snapshots, \* Redis: a snapshot by rate id
    late,      \* rate ids whose SET was given up on but may still be executed
    sent,      \* the last shipment request, and the rate id it is for
    offers,    \* history: what a customer was offered under a rate id
    saved,     \* history: every rate that was ever saved, with its currency
    allowed    \* history: services the settings allowed until a call read them

vars == <<rates, enabled, calls, snapshots, late, sent, offers, saved, allowed>>

Price == [service : Service \union {"none"}, due : Nat]
RateID == Call \X Service
One == [n |-> 1, d |-> 1]

Quote == [pc : {"settings", "currency", "prices", "save", "done"}, request : Requests,
          filter : SUBSET Service, rate : Rates \union {One},
          prices : SUBSET Price, left : SUBSET Service]
Offer == [shown : 0..Width - 1, currency : Money, rate : Rates \union {One}]
Sent == [id : RateID, customs : Customs \union {None}, request : SentRequest]

ASSUME RatesAssumption ==
    /\ Requests \subseteq Request
    /\ Rates \subseteq Ratio
    /\ Answers \subseteq SUBSET Price
    /\ Declared \subseteq Customs \union {None}
    /\ Width \in Nat \ {0}
    /\ None \notin Quote \union Offer \union Rates \union Sent

TypeOK ==
    /\ rates \in [Currency -> Rates \union {None}]
    /\ enabled \subseteq Service
    /\ calls \in [Call -> Quote \union {None}]
    /\ snapshots \in [RateID -> Snapshot \union {None}]
    /\ late \subseteq RateID
    /\ sent \in Sent \union {None}
    /\ offers \in [RateID -> Offer \union {None}]
    /\ saved \subseteq Currency \X Rates
    /\ allowed \in [Call -> SUBSET Service]

Init ==
    /\ rates = [c \in Currency |-> None]
    /\ enabled = {}
    /\ calls = [q \in Call |-> None]
    /\ snapshots = [id \in RateID |-> None]
    /\ late = {}
    /\ sent = None
    /\ offers = [id \in RateID |-> None]
    /\ saved = {}
    /\ allowed = [q \in Call |-> {}]

-----------------------------------------------------------------------------
(* The settings page.                                                      *)

\* No service ticked means no filter.
Unfiltered(services) == IF services = {} THEN Service ELSE services

SaveCurrencyRate(c, r) ==
    /\ rates' = [rates EXCEPT ![c] = r]
    /\ saved' = saved \union {<<c, r>>}
    /\ UNCHANGED <<enabled, calls, snapshots, late, sent, offers, allowed>>

\* The calls that have not read the settings yet may read these.
Allow(services) ==
    allowed' = [q \in Call |-> IF calls[q] # None /\ calls[q].pc = "settings"
                               THEN allowed[q] \union Unfiltered(services)
                               ELSE allowed[q]]

SaveShippingSettings(services) ==
    /\ enabled' = services
    /\ Allow(services)
    /\ UNCHANGED <<rates, calls, snapshots, late, sent, offers, saved>>

\* The uninstall deletes both rows, and leaves the snapshots in Redis.
CleanupPluginData ==
    /\ rates' = [c \in Currency |-> None]
    /\ enabled' = {}
    /\ Allow({})
    /\ UNCHANGED <<calls, snapshots, late, sent, offers, saved>>

-----------------------------------------------------------------------------
(* GetShippingRate.                                                        *)

At(q, pc) == calls[q] # None /\ calls[q].pc = pc

GetShippingRate(q, request) ==
    /\ calls[q] = None
    /\ calls' = [calls EXCEPT ![q] =
                    [pc |-> "settings", request |-> request, filter |-> {}, rate |-> One,
                     prices |-> {}, left |-> {}]]
    /\ allowed' = [allowed EXCEPT ![q] = Unfiltered(enabled)]
    /\ UNCHANGED <<rates, enabled, snapshots, late, sent, offers, saved>>

\* Settings that cannot be read are only logged, and filter nothing.
LoadShippingSettings(q) ==
    /\ At(q, "settings")
    /\ \E loaded \in IF calls[q].request.known THEN {enabled, {}} ELSE {{}} :
          /\ calls' = [calls EXCEPT ![q].pc = "currency", ![q].filter = loaded]
          /\ allowed' = [allowed EXCEPT ![q] = @ \union Unfiltered(loaded)]
    /\ UNCHANGED <<rates, enabled, snapshots, late, sent, offers, saved>>

\* Another currency than CAD needs a known store and a saved rate.
LoadCurrencyRate(q) ==
    LET c == ResolveRequestCurrency(calls[q].request) IN
    /\ At(q, "currency")
    /\ c # "CAD" => calls[q].request.known /\ rates[c] # None
    /\ calls' = [calls EXCEPT ![q].pc = "prices",
                              ![q].rate = IF c = "CAD" THEN One ELSE rates[c]]
    /\ UNCHANGED <<rates, enabled, snapshots, late, sent, offers, saved, allowed>>

\* The cheapest price of each service; a price without a service is dropped.
MapAPIRates(prices) ==
    {p \in prices : /\ p.service # "none"
                    /\ \A o \in prices : o.service = p.service => p.due <= o.due}

FilterNothing(prices, filter) == prices  \* mutant: the settings are ignored

FilterRateCandidatesByService(prices, filter) ==
    {p \in prices : filter = {} \/ p.service \in filter}

GetRates(q, answer) ==
    LET candidates == FilterRateCandidatesByService(MapAPIRates(answer), calls[q].filter) IN
    /\ At(q, "prices")
    /\ ValidateCanadaPostAddress(calls[q].request)
    /\ calls[q].request.weight > 0
    /\ calls' = [calls EXCEPT ![q].pc = "save", ![q].prices = answer,
                              ![q].left = {p.service : p \in candidates}]
    /\ UNCHANGED <<rates, enabled, snapshots, late, sent, offers, saved, allowed>>

PriceOf(q, v) == (CHOOSE p \in MapAPIRates(calls[q].prices) : p.service = v).due

NewSnapshot(q, v) ==
    LET r == calls[q].request IN
    [service |-> v, price |-> PriceOf(q, v),
     currency |-> ResolveRequestCurrency(r), rate |-> calls[q].rate,
     shipper |-> r.shipper, customer |-> r.customer,
     weight |-> OuncesToKilograms(r.weight),
     customs |-> SnapshotCustoms(r.customs), insured |-> r.insured,
     decimal |-> r.decimal]

\* A command has a connection of its own.  The dialing, AUTH, SELECT or the SET
\* may fail before it takes effect; its reply may be lost after it has; or the
\* deadline passes with the SET on its way, and Redis executes it later, or never.
RedisSet(id, snapshot) ==
    \/ snapshots' = snapshots /\ late' = late
    \/ snapshots' = [snapshots EXCEPT ![id] = snapshot] /\ late' = late
    \/ snapshots' = snapshots /\ late' = late \union {id}

\* A snapshot that was not saved, as far as the call can tell, is only logged.
Save(q, v) ==
    /\ At(q, "save")
    /\ v \in calls[q].left
    /\ RedisSet(<<q, v>>, NewSnapshot(q, v))
    /\ calls' = [calls EXCEPT ![q].left = @ \ {v}]
    /\ UNCHANGED <<rates, enabled, sent, offers, saved, allowed>>

LateSet(id) ==
    /\ id \in late
    /\ snapshots' = [snapshots EXCEPT ![id] = NewSnapshot(id[1], id[2])]
    /\ late' = late \ {id}
    /\ UNCHANGED <<rates, enabled, calls, sent, offers, saved, allowed>>

ShownPriceWide(cents, currency, rate) ==  \* mutant: not converted to uint32
    IF currency = "CAD" THEN cents ELSE ConvertCadToCurrencyCents(cents, rate)

ShownPriceCut(cents, currency, rate) ==  \* mutant: cut to the cent, not rounded
    (IF currency = "CAD" THEN cents ELSE (cents * rate.d) \div rate.n) % Width

\* The price is converted to uint32 without a check.
ShownPrice(cents, currency, rate) ==
    (IF currency = "CAD" THEN cents ELSE ConvertCadToCurrencyCents(cents, rate)) % Width

Offered(q) ==
    {p.service : p \in FilterRateCandidatesByService(MapAPIRates(calls[q].prices),
                                                     calls[q].filter)}

NewOffer(q, v) ==
    LET c == ResolveRequestCurrency(calls[q].request) IN
    [shown |-> ShownPrice(PriceOf(q, v), c, calls[q].rate),
     currency |-> c, rate |-> calls[q].rate]

AnswerEarly(q) ==                        \* mutant: the snapshots are saved in the background
    /\ At(q, "save")
    /\ offers' = [id \in RateID |->
                    IF id[1] = q /\ id[2] \in Offered(q) THEN NewOffer(q, id[2])
                    ELSE offers[id]]
    /\ UNCHANGED <<rates, enabled, calls, snapshots, late, sent, saved, allowed>>

Answer(q) ==
    /\ At(q, "save") /\ calls[q].left = {}
    /\ offers' = [id \in RateID |->
                    IF id[1] = q /\ id[2] \in Offered(q) THEN NewOffer(q, id[2])
                    ELSE offers[id]]
    /\ calls' = [calls EXCEPT ![q].pc = "done"]
    /\ UNCHANGED <<rates, enabled, snapshots, late, sent, saved, allowed>>

\* A check or a read fails, Canada Post refuses, or the process crashes.
CallFails(q) ==
    /\ calls[q] # None /\ calls[q].pc # "done"
    /\ calls' = [calls EXCEPT ![q].pc = "done"]
    /\ UNCHANGED <<rates, enabled, snapshots, late, sent, offers, saved, allowed>>

\* The TTL of a snapshot.
Expire(id) ==
    /\ snapshots[id] # None
    /\ snapshots' = [snapshots EXCEPT ![id] = None]
    /\ UNCHANGED <<rates, enabled, calls, late, sent, offers, saved, allowed>>

-----------------------------------------------------------------------------
(* CreateLabel, up to the request it sends.  A refusal changes nothing.    *)

WithCustoms(snapshot, customs) ==
    IF customs = None THEN snapshot
    ELSE [snapshot EXCEPT !.customs = SnapshotCustoms(customs)]

\* mutant: the rate of the moment instead of that of the snapshot
LoadWithRates(id, customs) ==
    LET s == WithCustoms(snapshots[id], customs) IN
    IF s.currency = "CAD" \/ rates[s.currency] = None THEN s
    ELSE [s EXCEPT !.rate = rates[s.currency]]

Load(id, customs) == WithCustoms(snapshots[id], customs)

CreateLabel(id, customs, d2po) ==
    /\ offers[id] # None
    /\ snapshots[id] # None
    /\ LET s == Load(id, customs) IN
          /\ ValidateShipmentSnapshot(s)
          /\ d2po => s.customer.countryCode.is = "CA" /\ s.customer.phone.is # "none"
          /\ sent' = [id |-> id, customs |-> s.customs,
                       request |-> BuildShipmentRequest(s, d2po)]
    /\ UNCHANGED <<rates, enabled, calls, snapshots, late, offers, saved, allowed>>

Next ==
    \/ \E c \in Currency : \E r \in Rates : SaveCurrencyRate(c, r)
    \/ \E services \in SUBSET Service : SaveShippingSettings(services)
    \/ CleanupPluginData
    \/ \E q \in Call :
          \/ \E request \in Requests : GetShippingRate(q, request)
          \/ LoadShippingSettings(q)
          \/ LoadCurrencyRate(q)
          \/ \E answer \in Answers : GetRates(q, answer)
          \/ \E v \in Service : Save(q, v)
          \/ Answer(q)
          \/ CallFails(q)
    \/ \E id \in RateID : LateSet(id)
    \/ \E id \in RateID : Expire(id)
    \/ \E id \in RateID : \E customs \in Declared : \E d2po \in BOOLEAN :
          CreateLabel(id, customs, d2po)

Spec == Init /\ [][Next]_vars

-----------------------------------------------------------------------------
(* What a customer is offered is the cheapest price of the service, shown  *)
(* within half a cent of its value in the currency of the request as long  *)
(* as it fits in an unsigned integer, and at a rate saved for it once;     *)
(* a snapshot under the same id says the same.                             *)
Cheapest(prices, v, cents) ==
    /\ \E p \in prices : p.service = v /\ p.due = cents
    /\ \A p \in prices : p.service = v => cents <= p.due

Honest(id, cents) ==
    LET o == offers[id]
        twice == 2 * (o.shown * o.rate.n - cents * o.rate.d)
    IN
    /\ Cheapest(calls[id[1]].prices, id[2], cents)
    /\ o.currency = "CAD" => o.rate = One
    /\ o.currency # "CAD" => <<o.currency, o.rate>> \in saved
    /\ cents * o.rate.d < (Width - 1) * o.rate.n => -o.rate.n <= twice /\ twice <= o.rate.n
    /\ snapshots[id] # None =>
          /\ snapshots[id].price = cents
          /\ snapshots[id].currency = o.currency /\ snapshots[id].rate = o.rate

OffersAreHonest ==
    \A id \in RateID : offers[id] # None =>
        \E p \in calls[id[1]].prices : Honest(id, p.due)

(* Every service offered was ticked in the settings, or none was, at some  *)
(* moment between the start of the call and its reading of the settings,   *)
(* unless they could not be read.                                          *)
OnlyEnabled == \A id \in RateID : offers[id] # None => id[2] \in allowed[id[1]]

(* A shipment is the one that was quoted: the service, the weight and the  *)
(* whole destination are those of the request for rates; a value declared  *)
(* in CAD or in the currency of the offer is converted at the rate the     *)
(* offer was priced with, and the conversion sent is that rate to half a   *)
(* millionth, whatever the settings page saved since.  City, province,     *)
(* postal code and country go out letter by letter as the request had      *)
(* them, the province by its code if it has one; lines, the name, the      *)
(* company and the phone say the same, trimmed or cut.                     *)
SentTo(d, a) ==
    /\ d.city = a.city /\ d.postal = a.zip /\ d.country = a.countryCode
    /\ d.province = ProvinceOf(a)
    /\ d.line1.says = a.street1.says /\ d.line2.says = a.street2.says
    /\ d.company.says = a.company.says
    /\ FullName(a).is # "none" => d.name.says = FullName(a).says
    /\ d.voice.is # "none" => d.voice.says = a.phone.says

ValuedAsOffered(c, o, items) ==
    \A i \in DOMAIN c.items :
        LET u == items[i].value
            v == c.items[i].value * IF c.currency = "CAD" THEN 1 ELSE o.rate.n
            w == c.items[i].units * IF c.currency = "CAD" THEN 1 ELSE o.rate.d
        IN u.n * w = v * u.d

Reciprocal(conversion, rate) ==
    LET twice == 2 * (conversion * rate.n - Million * rate.d)
    IN -rate.n <= twice /\ twice <= rate.n

BoughtAsQuoted ==
    sent # None =>
        LET o == offers[sent.id]
            r == calls[sent.id[1]].request
        IN
        /\ o # None
        /\ sent.request.service = sent.id[2]
        /\ sent.request.weight = OuncesToKilograms(r.weight)
        /\ SentTo(sent.request.destination, r.customer)
        /\ sent.request.customs # None /\ sent.customs.currency \in {"CAD", o.currency} =>
              ValuedAsOffered(sent.customs, o, sent.request.customs.items)
        /\ sent.request.customs # None /\ sent.customs.currency = o.currency
              /\ o.currency # "CAD" =>
              Reciprocal(sent.request.customs.conversion, o.rate)

\* The offers that were made, the rates that can be bought, those whose SET is
\* still on its way, and the last purchase.
Parcel(service, weight, city, postal, country) ==
    [service |-> service, weight |-> weight,
     city |-> city, postal |-> postal, country |-> country]

Quoted(id) ==
    LET r == calls[id[1]].request IN
    Parcel(id[2], OuncesToKilograms(r.weight), r.customer.city, r.customer.zip,
           r.customer.countryCode)

Shipped(request) ==
    LET to == request.destination IN
    Parcel(request.service, request.weight, to.city, to.postal, to.country)

Terms ==
    [id \in {i \in RateID : offers[i] # None} |->
        [offer |-> offers[id], parcel |-> Quoted(id)]]

Standing == {id \in RateID : snapshots[id] # None}

Purchase == IF sent = None THEN None ELSE [id |-> sent.id, parcel |-> Shipped(sent.request)]

Promise == INSTANCE RateOffers
    WITH Id <- RateID, terms <- Terms, standing <- Standing, coming <- late,
         bought <- Purchase

(* Quotes keep the promise of RateOffers: an offer is made once and its    *)
(* terms never change; a snapshot appears under an offer already made only *)
(* if its SET was given up on before the offer was answered, and a         *)
(* snapshot that is gone never comes back; a label is bought only while    *)
(* the snapshot is there, for the parcel offered.                          *)
ImplementsOffers == Promise!Spec

(* Whatever is sent to Canada Post meets what the code says Canada Post    *)
(* requires: the checks and the construction of the request pick the same  *)
(* names, lines and provinces.  A text that is trimmed on the way meets it *)
(* as it is sent.  Names of the sender, cities, provinces, postal codes    *)
(* and countries are checked in their normal form and sent as they came,   *)
(* so they meet it up to blanks and letter case: "m5v 3l9" is sent where   *)
(* the code asks for A9A9A9.  What the code makes optional outside Canada  *)
(* and the US (city, province and postal code) is optional here.  The      *)
(* phone of a recipient whose parcel goes to a post office is not checked, *)
(* and is left out.                                                        *)
Meets(text, classes) == text.is \in classes
MeetsAsSent(text, classes) == text.plain /\ text.is \in classes

SenderMeetsRequirements(a) ==
    /\ Meets(a.name, {"ok"}) /\ Meets(a.company, {"ok"}) /\ Meets(a.city, {"ok"})
    /\ Meets(a.province, {"two"}) /\ Meets(a.postal, {"CA"})
    /\ MeetsAsSent(a.phone, {"ok"})
    /\ MeetsAsSent(a.line1, {"ok"}) /\ MeetsAsSent(a.line2, {"none", "ok"})

DestinationMeetsRequirements(a, service) ==
    /\ MeetsAsSent(a.name, {"ok"}) /\ MeetsAsSent(a.company, {"none", "ok"})
    /\ MeetsAsSent(a.line1, {"ok"}) /\ MeetsAsSent(a.line2, {"none", "ok"})
    /\ service \in VoiceServices => MeetsAsSent(a.voice, {"ok"})
    /\ Meets(a.country, {"CA", "US", "FR"})
    /\ a.country.is \in {"CA", "US"} =>
          /\ Meets(a.city, {"ok"}) /\ Meets(a.province, {"two"})
          /\ Meets(a.postal, {a.country.is})
    /\ a.country.is = "FR" =>
          /\ Meets(a.city, {"none", "ok"}) /\ Meets(a.province, Province \ {"long"})
          /\ Meets(a.postal, Postal \ {"long"})

CustomsMeetRequirements(c, weight) ==
    /\ c.items # <<>>
    /\ CustomsWeight(c.items) <= weight
    /\ c.currency # "CAD" => c.conversion # None
    /\ \A i \in DOMAIN c.items :
          /\ c.items[i].units >= 1 /\ c.items[i].units <= 9999
          /\ c.items[i].description = "ok" /\ c.items[i].sku # "long"
          /\ c.items[i].origin # "none"

MeetsRequirements(request) ==
    /\ request.weight > 0
    /\ SenderMeetsRequirements(request.sender)
    /\ DestinationMeetsRequirements(request.destination, request.service)
    /\ request.destination.country.is # "CA" =>
          request.customs # None /\ CustomsMeetRequirements(request.customs, request.weight)

SentMeetsRequirements == sent # None => MeetsRequirements(sent.request)

(* "conversion-from-cad required when customs currency is not CAD"         *)
(* (shipping_service.go:760; canada_post_xml.md:175): what is sent as the  *)
(* conversion is a rate of the customs currency.                           *)
ConversionIsRate ==
    sent # None /\ sent.request.customs # None /\ sent.request.customs.currency # "CAD" =>
        LET c == sent.request.customs
            o == offers[sent.id]
        IN
        \/ c.currency = o.currency /\ Reciprocal(c.conversion, o.rate)
        \/ \E r \in Rates : <<c.currency, r>> \in saved /\ Reciprocal(c.conversion, r)
=============================================================================
