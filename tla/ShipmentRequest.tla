--------------------------- MODULE ShipmentRequest ---------------------------
(***************************************************************************)
(* From the snapshot of a rate to the shipment request: what               *)
(* createShipmentFromSnapshot checks, and what it then sends.              *)
(*                                                                         *)
(* The checks look at a normal form of each text of an address (trimmed;   *)
(* a country in upper case; a Canadian postal code in upper case and       *)
(* without blanks), but some texts are sent as they came: a text is        *)
(* therefore what it says, the class of its normal form, and whether it    *)
(* came in that form.  The class is "none" (blank), "ok" or "long" (more   *)
(* than Canada Post takes), or what the checks of a province, a postal     *)
(* code, a phone or a country tell apart.  The texts of customs            *)
(* information are trimmed when the snapshot is made, so a class is enough.*)
(*                                                                         *)
(* Money is in cents, an exchange rate is a fraction, a weight of a        *)
(* request is in tenths of an ounce and one of a snapshot in hundredths of *)
(* a kilogram.  Of a refusal only the fact is kept, so the order of the    *)
(* checks does not matter.                                                 *)
(***************************************************************************)
EXTENDS Integers, Sequences

CONSTANTS
    Currency,       \* currencies other than CAD
    Service,        \* service codes
    VoiceServices,  \* those that need the phone of the recipient
    Word,           \* what a text may say, up to blanks and letter case
    None            \* no customs information, no snapshot

ASSUME VoiceAssumption ==
    VoiceServices \subseteq Service /\ {"none", "CAD"} \cap Currency = {}
ASSUME WordAssumption == {"", "Sender", "Recipient"} \subseteq Word

Text == {"none", "ok", "long"}
Province == {"none", "two", "word", "long"}
Postal == {"none", "CA", "US", "other", "long"}
\* "FR" stands for any other country, "FRA" for a code of another length.
Country == {"none", "CA", "US", "FR", "FRA"}
Phone == {"none", "ok", "bad"}
Money == Currency \union {"CAD"}
Ratio == [n : Nat \ {0}, d : Nat \ {0}]

\* plain: the text came in the form that is checked.
Written(Class) == [says : Word, is : Class, plain : BOOLEAN]

Address == [name : Written(Text), names : Written(Text), company : Written(Text),
            street1 : Written(Text), street2 : Written(Text), city : Written(Text),
            provinceCode : Written(Province), province : Written(Province),
            zip : Written(Postal), phone : Written(Phone), countryCode : Written(Country)]

Item == [description : Text, code : Text, origin : Text,
         units : Nat, weight : Nat, value : Nat]
Customs == [currency : Money \union {"none"}, items : Seq(Item)]

\* A request for rates: header and parcel are the currencies named there, and
\* decimal is the insured amount as a text, in millionths.
Request == [known : BOOLEAN, header : Money \union {"none"}, parcel : Money \union {"none"},
            insured : Nat, decimal : Nat \union {None}, insurance : Money \union {"none"},
            customs : Customs \union {None}, weight : Nat,
            shipper : Address, customer : Address]

Snapshot == [service : Service, price : Nat, currency : Money, rate : Ratio,
             shipper : Address, customer : Address, weight : Nat,
             customs : Customs \union {None}, insured : Nat, decimal : Nat \union {None}]

\* Of a shipment request: the customs information, its conversion in millionths.
SentItem == [description : Text, sku : Text, origin : Text, units : Nat,
             weight : Nat, value : [n : Nat, d : Nat]]
SentCustoms == [currency : Money \union {"none"}, conversion : Nat \union {None},
                items : Seq(SentItem)]
SentSender == [name : Written(Text), company : Written(Text), phone : Written(Phone),
               line1 : Written(Text), line2 : Written(Text), city : Written(Text),
               province : Written(Province), postal : Written(Postal)]
SentDestination == [name : Written(Text), company : Written(Text), voice : Written(Phone),
                    line1 : Written(Text), line2 : Written(Text), city : Written(Text),
                    province : Written(Province), postal : Written(Postal),
                    country : Written(Country)]
SentRequest == [service : Service, weight : Nat, sender : SentSender,
                destination : SentDestination, customs : SentCustoms \union {None}]

ASSUME NoneAssumption == None \notin Nat \union Customs \union Snapshot \union SentCustoms

-----------------------------------------------------------------------------
(* Conversions.                                                            *)

\* Rounded to the nearest, halves up; an ounce is 0.028350 kg.
Rounded(n, d) == (2 * n + d) \div (2 * d)
OuncesToKilograms(tenths) == Rounded(tenths * 28350, 100000)

ConvertCadToCurrencyCents(cents, rate) == Rounded(cents * rate.d, rate.n)

DefaultValue(value, fallback) == IF value = "none" THEN fallback ELSE value

\* The first currency the request names decides.
ResolveRequestCurrency(r) ==
    LET customs == IF r.customs = None THEN "none" ELSE r.customs.currency IN
    DefaultValue(r.header, DefaultValue(r.parcel,
        DefaultValue(r.insurance, DefaultValue(customs, "CAD"))))

SnapshotCustoms(c) ==
    IF c = None THEN None
    ELSE [currency |-> c.currency,
          items |-> [i \in DOMAIN c.items |->
                        [c.items[i] EXCEPT !.units = IF @ = 0 THEN 1 ELSE @,
                                           !.weight = OuncesToKilograms(@)]]]

\* A rate needs an origin, a country, and a postal code within CA and US.
ValidateCanadaPostAddress(r) ==
    /\ r.shipper.zip.is # "none"
    /\ r.customer.countryCode.is # "none"
    /\ r.customer.countryCode.is \in {"CA", "US"} => r.customer.zip.is # "none"

-----------------------------------------------------------------------------
(* The checks.  The fallbacks to Origin and Destination read the same      *)
(* fields of the same address again, and are left out.                     *)

\* A blank text gives way to the fallback.
Given(text, fallback) == IF text.is = "none" THEN fallback ELSE text

FullName(a) == Given(a.name, a.names)
ProvinceOf(a) == Given(a.provinceCode, a.province)

ValidateShipper(a) ==
    /\ a.zip.is = "CA"
    /\ a.street1.is = "ok" /\ a.city.is = "ok"
    /\ ProvinceOf(a).is = "two"
    /\ a.phone.is = "ok"
    /\ FullName(a).is # "long" /\ Given(a.company, FullName(a)).is # "long"

ValidateRecipient(a) ==
    /\ a.street1.is = "ok"
    /\ {FullName(a).is, a.company.is} # {"none"}
    /\ FullName(a).is # "long" /\ a.company.is # "long"
    /\ a.countryCode.is \in {"CA", "US", "FR"}
    /\ \/ /\ a.countryCode.is \in {"CA", "US"}
          /\ a.city.is = "ok" /\ ProvinceOf(a).is = "two" /\ a.zip.is = a.countryCode.is
       \/ /\ a.countryCode.is = "FR"
          /\ a.city.is # "long" /\ ProvinceOf(a).is # "long" /\ a.zip.is # "long"

RequiresCustoms(country) == country.is # "CA"
RequiresClientVoice(service) == service \in VoiceServices

\* Sum[i]: the first i of the weights.
Total(weights) ==
    LET Sum[i \in 0..Len(weights)] == IF i = 0 THEN 0 ELSE Sum[i - 1] + weights[i]
    IN Sum[Len(weights)]

\* An item weighs as much as its units together.
CustomsWeight(items) == Total([i \in DOMAIN items |-> items[i].weight * items[i].units])

ValidateCustoms(c, weight) ==
    /\ c # None
    /\ c.items # <<>>
    /\ \A i \in DOMAIN c.items :
          /\ c.items[i].units <= 9999
          /\ DefaultValue(c.items[i].description, c.items[i].code) = "ok"
          /\ c.items[i].code # "long"
          /\ c.items[i].origin # "none"
    /\ CustomsWeight(c.items) <= weight

CustomsCurrency(s) == DefaultValue(s.customs.currency, s.currency)

Million == 1000000

\* The reciprocal of the rate to six decimals, which may be written "0"; of a
\* quote in CAD, which has no rate, the insured amount instead: as the text that
\* came with the request, whatever it says, or else in cents.
ConversionFromCAD(s) ==
    IF CustomsCurrency(s) = "CAD" THEN None
    ELSE IF s.currency # "CAD" THEN Rounded(Million * s.rate.d, s.rate.n)
    ELSE IF s.decimal # None THEN s.decimal
    ELSE IF s.insured > 0 THEN 10000 * s.insured
    ELSE None

\* A shipment abroad in a currency other than CAD needs a conversion.
ConversionKnown(s) == CustomsCurrency(s) # "CAD" => ConversionFromCAD(s) # None

ValidateShipmentSnapshot(s) ==
    /\ ValidateShipper(s.shipper)
    /\ ValidateRecipient(s.customer)
    /\ s.weight > 0
    /\ RequiresCustoms(s.customer.countryCode) =>
          ValidateCustoms(s.customs, s.weight) /\ ConversionKnown(s)
    /\ RequiresClientVoice(s.service) => s.customer.phone.is = "ok"

-----------------------------------------------------------------------------
(* The request that is sent.                                               *)

Literal(word) == [says |-> word, is |-> "ok", plain |-> TRUE]
NoVoice == [says |-> "", is |-> "none", plain |-> TRUE]

TrimSpace(text) == [text EXCEPT !.plain = TRUE]

\* Trimmed, and cut to what Canada Post takes.
SanitizeAddressLine(text) ==
    [text EXCEPT !.is = IF @ = "long" THEN "ok" ELSE @, !.plain = TRUE]

\* Names, city, province and postal code are sent as they came.
SenderSent(a) ==
    LET name == Given(a.name, Literal("Sender")) IN
    [name |-> name, company |-> Given(a.company, name), phone |-> TrimSpace(a.phone),
     line1 |-> SanitizeAddressLine(a.street1), line2 |-> SanitizeAddressLine(a.street2),
     city |-> a.city, province |-> ProvinceOf(a), postal |-> a.zip]

DestinationByName(a, voice) ==          \* mutant: the province is sent by its name
    [name |-> TrimSpace(Given(FullName(a), Literal("Recipient"))),
     company |-> TrimSpace(a.company),
     voice |-> IF voice THEN TrimSpace(a.phone) ELSE NoVoice,
     line1 |-> SanitizeAddressLine(a.street1), line2 |-> SanitizeAddressLine(a.street2),
     city |-> a.city, province |-> Given(a.province, a.provinceCode),
     postal |-> a.zip, country |-> a.countryCode]

\* City, province, postal code and country are sent as they came.
DestinationSent(a, voice) ==
    [name |-> TrimSpace(Given(FullName(a), Literal("Recipient"))),
     company |-> TrimSpace(a.company),
     voice |-> IF voice THEN TrimSpace(a.phone) ELSE NoVoice,
     line1 |-> SanitizeAddressLine(a.street1), line2 |-> SanitizeAddressLine(a.street2),
     city |-> a.city, province |-> ProvinceOf(a), postal |-> a.zip,
     country |-> a.countryCode]

\* The value of one unit: cents * n / (units * d) of the currency sent.
UnitValue(item, rate) == [n |-> item.value * rate.n, d |-> item.units * rate.d]

BuildShipmentCustoms(s) ==
    LET rate == IF CustomsCurrency(s) # "CAD" THEN s.rate ELSE [n |-> 1, d |-> 1] IN
    [currency |-> CustomsCurrency(s),
     conversion |-> ConversionFromCAD(s),
     items |-> [i \in DOMAIN s.customs.items |->
                  LET item == s.customs.items[i] IN
                  [description |-> DefaultValue(item.description, item.code),
                   sku |-> item.code, origin |-> item.origin, units |-> item.units,
                   weight |-> item.weight, value |-> UnitValue(item, rate)]]]

\* d2po: the options send the parcel to a post office.
BuildShipmentRequest(s, d2po) ==
    [service |-> s.service,
     weight |-> s.weight,
     sender |-> SenderSent(s.shipper),
     destination |-> DestinationSent(s.customer, RequiresClientVoice(s.service) \/ d2po),
     customs |-> IF RequiresCustoms(s.customer.countryCode)
                 THEN BuildShipmentCustoms(s) ELSE None]
=============================================================================
