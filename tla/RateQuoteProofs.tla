--------------------------- MODULE RateQuoteProofs ---------------------------
(***************************************************************************)
(* Proofs about RateQuote, for any services, currencies, rates, requests   *)
(* and price quotes, and any width of the shown price.                     *)
(***************************************************************************)
EXTENDS RateQuote, TLAPS

-----------------------------------------------------------------------------
(* Arithmetic.                                                             *)

LEMMA Quotient ==
  ASSUME NEW a \in Nat, NEW b \in Nat, b > 0
  PROVE  /\ a \div b \in Nat
         /\ b * (a \div b) <= a
         /\ a < b * (a \div b) + b
  OBVIOUS

\* Rounding misses by at most half.
LEMMA RoundedFacts ==
  ASSUME NEW n \in Nat, NEW d \in Nat, d > 0
  PROVE  /\ Rounded(n, d) \in Nat
         /\ -d <= 2 * (Rounded(n, d) * d - n)
         /\ 2 * (Rounded(n, d) * d - n) <= d
<1>1. 2 * n + d \in Nat /\ 2 * d \in Nat /\ 2 * d > 0
  OBVIOUS
<1>2. PICK k \in Nat : k = Rounded(n, d)
  BY <1>1, Quotient DEF Rounded
<1>3. (2 * d) * k <= 2 * n + d /\ 2 * n + d < (2 * d) * k + 2 * d
  BY <1>1, <1>2, Quotient DEF Rounded
<1>4. (2 * d) * k = 2 * (k * d) /\ k * d \in Nat
  BY <1>2
<1>5. -d <= 2 * (k * d - n) /\ 2 * (k * d - n) <= d
  BY <1>3, <1>4
<1>. QED  BY <1>2, <1>5

\* A reciprocal to six decimals.
LEMMA Millionths ==
  ASSUME NEW s \in Snapshot
  PROVE  /\ Rounded(Million * s.rate.d, s.rate.n) \in Nat
         /\ Reciprocal(Rounded(Million * s.rate.d, s.rate.n), s.rate)
<1> DEFINE scaled == Million * s.rate.d
           base == s.rate.n
<1>1. scaled \in Nat /\ base \in Nat /\ base > 0
  BY DEF Snapshot, Ratio, Million
<1> HIDE DEF scaled, base
<1>2. /\ Rounded(scaled, base) \in Nat
      /\ -base <= 2 * (Rounded(scaled, base) * base - scaled)
      /\ 2 * (Rounded(scaled, base) * base - scaled) <= base
  BY <1>1, RoundedFacts
<1>. QED  BY <1>2 DEF Reciprocal, scaled, base

LEMMA Weighed ==
  ASSUME NEW tenths \in Nat
  PROVE  OuncesToKilograms(tenths) \in Nat
<1>1. tenths * 28350 \in Nat /\ 100000 \in Nat /\ 100000 > 0
  OBVIOUS
<1>. QED  BY <1>1, RoundedFacts DEF OuncesToKilograms

\* A quotient that fits is not wrapped.
LEMMA FitsFacts ==
  ASSUME NEW n \in Nat, NEW d \in Nat, d > 0, n < (Width - 1) * d
  PROVE  Rounded(n, d) % Width = Rounded(n, d)
<1>1. Width \in Nat /\ Width > 0
  BY RatesAssumption
<1>2. PICK k \in Nat : k = Rounded(n, d)
  BY RoundedFacts
<1>3. 2 * (k * d - n) <= d
  BY <1>2, RoundedFacts
<1>4. k < Width
  <2>1. SUFFICES ASSUME k >= Width PROVE FALSE
    BY <1>1
  <2>2. k * d >= Width * d
    BY <1>1, <2>1
  <2>3. (Width - 1) * d = Width * d - d /\ Width * d \in Nat /\ k * d \in Nat
    BY <1>1
  <2>. QED  BY <1>3, <2>2, <2>3
<1>. QED  BY <1>1, <1>2, <1>4

-----------------------------------------------------------------------------
(* Sequences.                                                              *)

LEMMA Element ==
  ASSUME NEW S, NEW q \in Seq(S)
  PROVE  /\ Len(q) \in Nat
         /\ DOMAIN q = 1..Len(q)
         /\ \A i \in DOMAIN q : q[i] \in S
  OBVIOUS

\* A function over the places of a sequence is a sequence of the same length.
LEMMA Mapped ==
  ASSUME NEW S, NEW T, NEW q \in Seq(S), NEW f, f \in [DOMAIN q -> T]
  PROVE  /\ f \in Seq(T)
         /\ Len(f) = Len(q)
         /\ DOMAIN f = DOMAIN q
<1>1. Len(q) \in Nat /\ DOMAIN q = 1..Len(q)
  OBVIOUS
<1>2. PICK n \in Nat : n = Len(q)
  BY <1>1
<1>3. f \in [1..n -> T]
  BY <1>1, <1>2
<1>4. f \in Seq(T) /\ Len(f) = n /\ DOMAIN f = 1..n
  BY <1>2, <1>3
<1>. QED  BY <1>1, <1>2, <1>4

-----------------------------------------------------------------------------
(* What the operators return.                                              *)

LEMMA CurrencyType ==
  ASSUME NEW r \in Request
  PROVE  ResolveRequestCurrency(r) \in Money
<1>1. r.customs # None => r.customs.currency \in Money \union {"none"}
  BY DEF Request, Customs
<1>. QED
  BY <1>1 DEF ResolveRequestCurrency, DefaultValue, Request, Money

\* Every item of a snapshot has at least one unit.
Counted(c) == c # None => \A i \in DOMAIN c.items : c.items[i].units >= 1

LEMMA CustomsType ==
  ASSUME NEW c \in Customs \union {None}
  PROVE  /\ SnapshotCustoms(c) \in Customs \union {None}
         /\ Counted(SnapshotCustoms(c))
         /\ SnapshotCustoms(c) = None <=> c = None
<1>1. CASE c = None
  BY <1>1 DEF SnapshotCustoms, Counted
<1>2. CASE c # None
  <2> DEFINE Kept(i) == [c.items[i] EXCEPT !.units = IF @ = 0 THEN 1 ELSE @,
                                           !.weight = OuncesToKilograms(@)]
             items == [i \in DOMAIN c.items |-> Kept(i)]
             new == [currency |-> c.currency, items |-> items]
  <2>1. c.currency \in Money \union {"none"} /\ c.items \in Seq(Item)
    BY <1>2 DEF Customs
  <2>2. ASSUME NEW i \in DOMAIN c.items
        PROVE  Kept(i) \in Item /\ Kept(i).units >= 1
    <3>1. c.items[i] \in Item
      BY <2>1, <2>2, Element
    <3>2. OuncesToKilograms(c.items[i].weight) \in Nat
      BY <3>1, Weighed DEF Item
    <3> DEFINE x == c.items[i]
               w == OuncesToKilograms(c.items[i].weight)
               n == IF c.items[i].units = 0 THEN 1 ELSE c.items[i].units
    <3>3. n \in Nat /\ n >= 1
      BY <3>1 DEF Item
    <3>4. Kept(i) = [x EXCEPT !.units = n, !.weight = w]
      OBVIOUS
    <3>5. x \in Item /\ w \in Nat
      BY <3>1, <3>2
    <3> HIDE DEF Kept, x, w, n
    <3>6. [x EXCEPT !.units = n, !.weight = w] \in Item
      BY <3>3, <3>5 DEF Item
    <3>7. [x EXCEPT !.units = n, !.weight = w].units = n
      BY <3>5 DEF Item
    <3>. QED  BY <3>3, <3>4, <3>6, <3>7
  <2>3. items \in Seq(Item)
    <3> HIDE DEF Kept
    <3>1. items \in [DOMAIN c.items -> Item]
      BY <2>2
    <3> HIDE DEF items
    <3>. QED  BY <2>1, <3>1, Mapped
  <2>4. new \in Customs /\ new.items = items
    BY <2>1, <2>3 DEF Customs
  <2>5. SnapshotCustoms(c) = new
    BY <1>2 DEF SnapshotCustoms
  <2>6. \A i \in DOMAIN items : items[i].units >= 1
    BY <2>2
  <2> HIDE DEF items, new, Kept
  <2>. QED  BY <1>2, <2>4, <2>5, <2>6, NoneAssumption DEF Counted
<1>. QED  BY <1>1, <1>2

\* The cheapest price of a service that has one.
LEMMA CheapestFacts ==
  ASSUME NEW prices \in SUBSET Price, NEW p \in MapAPIRates(prices)
  PROVE  LET due == (CHOOSE x \in MapAPIRates(prices) : x.service = p.service).due IN
         due \in Nat /\ p.service \in Service /\ Cheapest(prices, p.service, due)
<1> DEFINE x == CHOOSE y \in MapAPIRates(prices) : y.service = p.service
<1>1. x \in MapAPIRates(prices) /\ x.service = p.service
  OBVIOUS
<1> HIDE DEF x
<1>2. x \in prices /\ p \in prices /\ x \in Price /\ p \in Price /\ p.service # "none"
  BY <1>1 DEF MapAPIRates
<1>3. x.due \in Nat /\ p.service \in Service
  BY <1>2 DEF Price
<1>4. Cheapest(prices, p.service, x.due)
  BY <1>1, <1>2 DEF MapAPIRates, Cheapest
<1>. QED  BY <1>3, <1>4 DEF x

-----------------------------------------------------------------------------
(* The checks of a snapshot are enough for the request built from it.      *)

\* What trimming and cutting do to a text.
LEMMA Trimmed ==
  ASSUME NEW C, NEW t \in Written(C)
  PROVE  LET u == TrimSpace(t) IN
         u \in Written(C) /\ u.says = t.says /\ u.is = t.is /\ u.plain
  BY DEF Written, TrimSpace

LEMMA Sanitized ==
  ASSUME NEW t \in Written(Text)
  PROVE  LET u == SanitizeAddressLine(t) IN
         /\ u \in Written(Text) /\ u.says = t.says /\ u.plain
         /\ u.is \in {"none", "ok"}
         /\ t.is = "ok" => u.is = "ok"
<1> DEFINE is == IF t.is = "long" THEN "ok" ELSE t.is
           u == [t EXCEPT !.is = is, !.plain = TRUE]
<1>1. is \in {"none", "ok"} /\ is \in Text /\ (t.is = "ok" => is = "ok")
  BY DEF Written, Text
<1>2. u = SanitizeAddressLine(t)
  BY DEF SanitizeAddressLine
<1> HIDE DEF is
<1>3. u \in Written(Text) /\ u.says = t.says /\ u.plain /\ u.is = is
  BY <1>1 DEF Written
<1> HIDE DEF u
<1>. QED  BY <1>1, <1>2, <1>3

LEMMA WordText ==
  ASSUME NEW word \in {"Sender", "Recipient"}
  PROVE  Literal(word) \in Written(Text) /\ Literal(word).is = "ok"
  BY WordAssumption DEF Literal, Written, Text

LEMMA AddressFields ==
  ASSUME NEW a \in Address
  PROVE  /\ a.name \in Written(Text) /\ a.names \in Written(Text)
         /\ a.company \in Written(Text) /\ a.city \in Written(Text)
         /\ a.street1 \in Written(Text) /\ a.street2 \in Written(Text)
         /\ a.zip \in Written(Postal) /\ a.phone \in Written(Phone)
         /\ a.countryCode \in Written(Country)
         /\ FullName(a) \in Written(Text) /\ ProvinceOf(a) \in Written(Province)
<1>1. /\ a.provinceCode \in Written(Province) /\ a.province \in Written(Province)
      /\ a.name \in Written(Text) /\ a.names \in Written(Text)
  BY DEF Address
<1>2. FullName(a) \in Written(Text) /\ ProvinceOf(a) \in Written(Province)
  BY <1>1 DEF FullName, ProvinceOf, Given
<1>. QED  BY <1>2 DEF Address

\* The sender that is sent, and that it meets what is required of it.
LEMMA SenderMeets ==
  ASSUME NEW a \in Address
  PROVE  /\ SenderSent(a) \in SentSender
         /\ ValidateShipper(a) => SenderMeetsRequirements(SenderSent(a))
<1> DEFINE name == Given(a.name, Literal("Sender"))
           company == Given(a.company, name)
           phone == TrimSpace(a.phone)
           line1 == SanitizeAddressLine(a.street1)
           line2 == SanitizeAddressLine(a.street2)
           b == [name |-> name, company |-> company, phone |-> phone,
                 line1 |-> line1, line2 |-> line2,
                 city |-> a.city, province |-> ProvinceOf(a), postal |-> a.zip]
<1>1. /\ a.name \in Written(Text) /\ a.names \in Written(Text)
      /\ a.company \in Written(Text) /\ a.city \in Written(Text)
      /\ a.zip \in Written(Postal) /\ ProvinceOf(a) \in Written(Province)
  BY AddressFields
<1>2. name \in Written(Text) /\ company \in Written(Text)
      /\ name.is \in {"ok", "long"} /\ company.is \in {"ok", "long"}
  BY <1>1, WordText DEF Given, Written, Text
<1>3. phone \in Written(Phone) /\ phone.plain /\ phone.is = a.phone.is
  BY AddressFields, Trimmed
<1>4. /\ line1 \in Written(Text) /\ line1.plain /\ (a.street1.is = "ok" => line1.is = "ok")
      /\ line2 \in Written(Text) /\ line2.plain /\ line2.is \in {"none", "ok"}
  BY AddressFields, Sanitized
<1>5. ValidateShipper(a) => name.is # "long" /\ company.is # "long"
  BY <1>1, WordText DEF ValidateShipper, FullName, Given
<1>6. SenderSent(a) = b
  BY DEF SenderSent
<1> HIDE DEF name, company, phone, line1, line2
<1>7. b \in SentSender
  BY <1>1, <1>2, <1>3, <1>4 DEF SentSender
<1>8. ASSUME ValidateShipper(a) PROVE SenderMeetsRequirements(b)
  BY <1>2, <1>3, <1>4, <1>5, <1>8
     DEF ValidateShipper, SenderMeetsRequirements, Meets, MeetsAsSent
<1>. QED  BY <1>6, <1>7, <1>8

\* The same of the destination, which is that of the address.
LEMMA DestinationMeets ==
  ASSUME NEW a \in Address, NEW voice \in BOOLEAN
  PROVE  LET d == DestinationSent(a, voice) IN
         /\ d \in SentDestination
         /\ SentTo(d, a)
         /\ \A service : ValidateRecipient(a)
                /\ (service \in VoiceServices => voice /\ a.phone.is = "ok") =>
                   DestinationMeetsRequirements(d, service)
<1> DEFINE given == Given(FullName(a), Literal("Recipient"))
           name == TrimSpace(given)
           company == TrimSpace(a.company)
           phone == TrimSpace(a.phone)
           spoken == IF voice THEN phone ELSE NoVoice
           line1 == SanitizeAddressLine(a.street1)
           line2 == SanitizeAddressLine(a.street2)
           d == [name |-> name, company |-> company, voice |-> spoken,
                 line1 |-> line1, line2 |-> line2,
                 city |-> a.city, province |-> ProvinceOf(a), postal |-> a.zip,
                 country |-> a.countryCode]
<1>1. /\ FullName(a) \in Written(Text)
      /\ a.company \in Written(Text) /\ a.city \in Written(Text)
      /\ a.zip \in Written(Postal) /\ ProvinceOf(a) \in Written(Province)
      /\ a.countryCode \in Written(Country) /\ a.phone \in Written(Phone)
  BY AddressFields
<1>2. /\ given \in Written(Text) /\ given.is \in {"ok", "long"}
      /\ FullName(a).is # "none" => given = FullName(a)
      /\ FullName(a).is # "long" => given.is = "ok"
  BY <1>1, WordText DEF Given, Written, Text
<1>3. name \in Written(Text) /\ name.plain /\ name.is = given.is /\ name.says = given.says
  <2> HIDE DEF given
  <2>. QED  BY <1>2, Trimmed
<1>4. /\ company \in Written(Text) /\ company.plain /\ company.is = a.company.is
      /\ company.says = a.company.says
  BY <1>1, Trimmed
<1>5. phone \in Written(Phone) /\ phone.plain /\ phone.is = a.phone.is
      /\ phone.says = a.phone.says
  BY <1>1, Trimmed
<1>6. NoVoice \in Written(Phone) /\ NoVoice.is = "none"
  BY WordAssumption DEF NoVoice, Written, Phone
<1>7. /\ line1 \in Written(Text) /\ line1.plain /\ line1.says = a.street1.says
      /\ a.street1.is = "ok" => line1.is = "ok"
      /\ line2 \in Written(Text) /\ line2.plain /\ line2.says = a.street2.says
      /\ line2.is \in {"none", "ok"}
  BY AddressFields, Sanitized
<1>8. DestinationSent(a, voice) = d
  BY DEF DestinationSent
<1> HIDE DEF given, name, company, phone, line1, line2
<1>9. /\ spoken \in Written(Phone)
      /\ spoken.is # "none" => spoken.says = a.phone.says
      /\ voice => spoken = phone
  BY <1>5, <1>6
<1> HIDE DEF spoken
<1>10. d \in SentDestination
  BY <1>1, <1>3, <1>4, <1>7, <1>9 DEF SentDestination
<1>11. SentTo(d, a)
  BY <1>2, <1>3, <1>4, <1>7, <1>9 DEF SentTo
<1>12. ASSUME NEW service, ValidateRecipient(a),
              service \in VoiceServices => voice /\ a.phone.is = "ok"
       PROVE  DestinationMeetsRequirements(d, service)
  <2>1. /\ FullName(a).is # "long" /\ a.company.is # "long" /\ a.street1.is = "ok"
        /\ a.countryCode.is \in {"CA", "US", "FR"}
    BY <1>12 DEF ValidateRecipient
  <2>2. /\ a.countryCode.is \in {"CA", "US"} =>
              a.city.is = "ok" /\ ProvinceOf(a).is = "two" /\ a.zip.is = a.countryCode.is
        /\ a.countryCode.is = "FR" =>
              a.city.is # "long" /\ ProvinceOf(a).is # "long" /\ a.zip.is # "long"
    BY <1>12 DEF ValidateRecipient
  <2>3. a.city.is \in Text /\ ProvinceOf(a).is \in Province /\ a.zip.is \in Postal
        /\ a.company.is \in Text
    BY <1>1 DEF Written
  <2>4. /\ MeetsAsSent(name, {"ok"}) /\ MeetsAsSent(company, {"none", "ok"})
        /\ MeetsAsSent(line1, {"ok"}) /\ MeetsAsSent(line2, {"none", "ok"})
    BY <1>2, <1>3, <1>4, <1>7, <2>1, <2>3 DEF MeetsAsSent, Text
  <2>5. service \in VoiceServices => MeetsAsSent(spoken, {"ok"})
    BY <1>5, <1>9, <1>12 DEF MeetsAsSent
  <2>6. /\ Meets(a.countryCode, {"CA", "US", "FR"})
        /\ a.countryCode.is \in {"CA", "US"} =>
              /\ Meets(a.city, {"ok"}) /\ Meets(ProvinceOf(a), {"two"})
              /\ Meets(a.zip, {a.countryCode.is})
        /\ a.countryCode.is = "FR" =>
              /\ Meets(a.city, {"none", "ok"}) /\ Meets(ProvinceOf(a), Province \ {"long"})
              /\ Meets(a.zip, Postal \ {"long"})
    BY <2>1, <2>2, <2>3 DEF Meets, Text
  <2>7. /\ d.name = name /\ d.company = company /\ d.voice = spoken
        /\ d.line1 = line1 /\ d.line2 = line2 /\ d.city = a.city
        /\ d.province = ProvinceOf(a) /\ d.postal = a.zip /\ d.country = a.countryCode
    OBVIOUS
  <2> HIDE DEF d
  <2>. QED  BY <2>4, <2>5, <2>6, <2>7 DEF DestinationMeetsRequirements
<1> HIDE DEF d
<1>. QED  BY <1>8, <1>10, <1>11, <1>12

LEMMA CustomsBuilt ==
  ASSUME NEW s \in Snapshot, s.customs # None
  PROVE  LET b == BuildShipmentCustoms(s)
             c == s.customs
         IN
         /\ b \in SentCustoms
         /\ c.items \in Seq(Item)
         /\ Len(b.items) = Len(c.items)
         /\ DOMAIN b.items = DOMAIN c.items
         /\ b.currency = CustomsCurrency(s)
         /\ b.conversion = ConversionFromCAD(s)
         /\ \A i \in DOMAIN c.items :
               /\ c.items[i].units \in Nat
               /\ b.items[i].units = c.items[i].units
               /\ b.items[i].weight = c.items[i].weight
               /\ b.items[i].description = DefaultValue(c.items[i].description, c.items[i].code)
               /\ b.items[i].sku = c.items[i].code
               /\ b.items[i].origin = c.items[i].origin
<1> DEFINE c == s.customs
           rate == IF CustomsCurrency(s) # "CAD" THEN s.rate ELSE [n |-> 1, d |-> 1]
           New(i) == [description |-> DefaultValue(c.items[i].description, c.items[i].code),
                      sku |-> c.items[i].code, origin |-> c.items[i].origin,
                      units |-> c.items[i].units, weight |-> c.items[i].weight,
                      value |-> UnitValue(c.items[i], rate)]
           items == [i \in DOMAIN c.items |-> New(i)]
           b == [currency |-> CustomsCurrency(s), conversion |-> ConversionFromCAD(s),
                 items |-> items]
<1>1. c \in Customs /\ c.currency \in Money \union {"none"} /\ c.items \in Seq(Item)
      /\ s.currency \in Money /\ s.rate \in Ratio /\ s.insured \in Nat
      /\ s.decimal \in Nat \union {None}
  BY DEF Snapshot, Customs
<1>2. rate.n \in Nat /\ rate.d \in Nat
  BY <1>1 DEF Ratio
<1> HIDE DEF rate
<1>3. ASSUME NEW i \in DOMAIN c.items
      PROVE  /\ New(i) \in SentItem
             /\ c.items[i].units \in Nat
  <2>1. c.items[i] \in Item
    BY <1>1, <1>3, Element
  <2>2. UnitValue(c.items[i], rate) \in [n : Nat, d : Nat]
    <3>1. c.items[i].value \in Nat /\ c.items[i].units \in Nat
      BY <2>1 DEF Item
    <3>2. c.items[i].value * rate.n \in Nat /\ c.items[i].units * rate.d \in Nat
      BY <1>2, <3>1
    <3>. QED  BY <3>2 DEF UnitValue
  <2>3. DefaultValue(c.items[i].description, c.items[i].code) \in Text
    BY <2>1 DEF Item, DefaultValue
  <2>. QED  BY <2>1, <2>2, <2>3 DEF Item, SentItem
<1>4. items \in Seq(SentItem) /\ Len(items) = Len(c.items) /\ DOMAIN items = DOMAIN c.items
  <2> HIDE DEF New
  <2>1. items \in [DOMAIN c.items -> SentItem]
    BY <1>3
  <2>2. c.items \in Seq(Item)
    BY <1>1
  <2> HIDE DEF items, c, b
  <2>. QED  BY <2>1, <2>2, Mapped
<1>5. ConversionFromCAD(s) \in Nat \union {None} /\ CustomsCurrency(s) \in Money \union {"none"}
  <2>1. 10000 * s.insured \in Nat
    BY <1>1
  <2>2. Rounded(Million * s.rate.d, s.rate.n) \in Nat
    BY Millionths
  <2>3. ConversionFromCAD(s) \in Nat \union {None}
    BY <1>1, <2>1, <2>2 DEF ConversionFromCAD
  <2>. QED  BY <1>1, <2>3 DEF CustomsCurrency, DefaultValue
<1>6. b \in SentCustoms /\ b.items = items
  <2> HIDE DEF items
  <2>. QED  BY <1>4, <1>5 DEF SentCustoms
<1>7. b = BuildShipmentCustoms(s)
  BY DEF BuildShipmentCustoms, rate
<1>8. \A i \in DOMAIN c.items :
         /\ items[i].units = c.items[i].units /\ items[i].weight = c.items[i].weight
         /\ items[i].description = DefaultValue(c.items[i].description, c.items[i].code)
         /\ items[i].sku = c.items[i].code /\ items[i].origin = c.items[i].origin
  OBVIOUS
<1>9. b.currency = CustomsCurrency(s) /\ b.conversion = ConversionFromCAD(s)
  OBVIOUS
<1> HIDE DEF b, items, New
<1>. QED  BY <1>1, <1>3, <1>4, <1>6, <1>7, <1>8, <1>9

LEMMA CustomsMeet ==
  ASSUME NEW s \in Snapshot, Counted(s.customs), s.customs # None,
         ValidateCustoms(s.customs, s.weight), ConversionKnown(s)
  PROVE  CustomsMeetRequirements(BuildShipmentCustoms(s), s.weight)
<1> DEFINE b == BuildShipmentCustoms(s)
           c == s.customs
<1>1. /\ c.items \in Seq(Item)
      /\ Len(b.items) = Len(c.items)
      /\ DOMAIN b.items = DOMAIN c.items
      /\ b.currency = CustomsCurrency(s)
      /\ b.conversion = ConversionFromCAD(s)
      /\ \A i \in DOMAIN c.items :
            /\ c.items[i].units \in Nat
            /\ b.items[i].units = c.items[i].units
            /\ b.items[i].weight = c.items[i].weight
            /\ b.items[i].description = DefaultValue(c.items[i].description, c.items[i].code)
            /\ b.items[i].sku = c.items[i].code
            /\ b.items[i].origin = c.items[i].origin
  BY CustomsBuilt
<1>2. /\ c.items # <<>>
      /\ \A i \in DOMAIN c.items :
            /\ c.items[i].units >= 1 /\ c.items[i].units <= 9999
            /\ DefaultValue(c.items[i].description, c.items[i].code) = "ok"
            /\ c.items[i].code # "long"
            /\ c.items[i].origin # "none"
      /\ CustomsWeight(c.items) <= s.weight
  BY DEF ValidateCustoms, Counted
<1>3. CustomsCurrency(s) # "CAD" => ConversionFromCAD(s) # None
  BY DEF ConversionKnown
<1> HIDE DEF b, c
<1>4. ASSUME NEW i \in DOMAIN b.items
      PROVE  /\ b.items[i].units >= 1 /\ b.items[i].units <= 9999
             /\ b.items[i].description = "ok"
             /\ b.items[i].sku # "long"
             /\ b.items[i].origin # "none"
  <2>1. i \in DOMAIN c.items
    BY <1>1, <1>4
  <2>2. /\ c.items[i].units \in Nat /\ c.items[i].units >= 1 /\ c.items[i].units <= 9999
        /\ DefaultValue(c.items[i].description, c.items[i].code) = "ok"
        /\ c.items[i].code # "long"
    BY <1>1, <1>2, <2>1
  <2>3. /\ b.items[i].units = c.items[i].units
        /\ b.items[i].description = DefaultValue(c.items[i].description, c.items[i].code)
        /\ b.items[i].sku = c.items[i].code
    BY <1>1, <2>1
  <2>6. b.items[i].origin # "none"
    BY <1>1, <1>2, <2>1
  <2>7. b.items[i].units >= 1 /\ b.items[i].units <= 9999
    BY <2>2, <2>3
  <2>8. b.items[i].description = "ok" /\ b.items[i].sku # "long"
    BY <2>2, <2>3
  <2>. QED  BY <2>6, <2>7, <2>8
<1>6. CustomsWeight(b.items) = CustomsWeight(c.items)
  BY <1>1 DEF CustomsWeight
<1>7. b.items # <<>>
  BY <1>1, <1>2
<1>8. CustomsMeetRequirements(b, s.weight)
  <2>1. b.currency # "CAD" => b.conversion # None
    BY <1>1, <1>3
  <2>2. CustomsWeight(b.items) <= s.weight
    BY <1>2, <1>6
  <2>. QED  BY <1>4, <1>7, <2>1, <2>2 DEF CustomsMeetRequirements
<1>. QED  BY <1>8 DEF b

LEMMA BuiltMeets ==
  ASSUME NEW s \in Snapshot, Counted(s.customs), ValidateShipmentSnapshot(s),
         NEW d2po \in BOOLEAN
  PROVE  MeetsRequirements(BuildShipmentRequest(s, d2po))
<1> DEFINE b == BuildShipmentRequest(s, d2po)
           voice == RequiresClientVoice(s.service) \/ d2po
<1>1. /\ s.shipper \in Address /\ s.customer \in Address /\ s.weight \in Nat
      /\ voice \in BOOLEAN
  BY DEF Snapshot
<1>2. /\ b.service = s.service /\ b.weight = s.weight
      /\ b.sender = SenderSent(s.shipper)
      /\ b.destination = DestinationSent(s.customer, voice)
      /\ b.customs = IF RequiresCustoms(s.customer.countryCode)
                     THEN BuildShipmentCustoms(s) ELSE None
  BY DEF BuildShipmentRequest
<1>3. s.service \in VoiceServices => voice /\ s.customer.phone.is = "ok"
  BY DEF ValidateShipmentSnapshot, RequiresClientVoice
<1>4. b.destination.country = s.customer.countryCode
  BY DEF BuildShipmentRequest, DestinationSent
<1> HIDE DEF b, voice
<1>5. SenderMeetsRequirements(b.sender)
  BY <1>1, <1>2, SenderMeets DEF ValidateShipmentSnapshot
<1>6. DestinationMeetsRequirements(b.destination, b.service)
  BY <1>1, <1>2, <1>3, DestinationMeets DEF ValidateShipmentSnapshot
<1>7. ASSUME b.destination.country.is # "CA"
      PROVE  b.customs # None /\ CustomsMeetRequirements(b.customs, b.weight)
  <2>1. /\ RequiresCustoms(s.customer.countryCode)
        /\ s.customs # None /\ ValidateCustoms(s.customs, s.weight) /\ ConversionKnown(s)
    BY <1>4, <1>7 DEF RequiresCustoms, ValidateShipmentSnapshot, ValidateCustoms
  <2>2. CustomsMeetRequirements(b.customs, b.weight)
    BY <1>2, <2>1, CustomsMeet
  <2>3. b.customs # None
    BY <1>2, <2>1, CustomsBuilt, NoneAssumption
  <2>. QED  BY <2>2, <2>3
<1>8. b.weight > 0
  BY <1>2 DEF ValidateShipmentSnapshot
<1>9. MeetsRequirements(b)
  BY <1>5, <1>6, <1>7, <1>8 DEF MeetsRequirements
<1>. QED  BY <1>9 DEF b

-----------------------------------------------------------------------------
(* The invariant.                                                          *)

\* The prices of the call are known.
Settled(q) == calls[q] # None /\ calls[q].pc \in {"save", "done"}

RateKnown(q) ==
    LET c == ResolveRequestCurrency(calls[q].request) IN
    /\ c = "CAD" => calls[q].rate = One
    /\ c # "CAD" => <<c, calls[q].rate>> \in saved

RatesSaved == \A c \in Currency : rates[c] # None => <<c, rates[c]>> \in saved

CallOK(q) ==
    calls[q] # None =>
        /\ calls[q].pc = "settings" => Unfiltered(enabled) \subseteq allowed[q]
        /\ calls[q].pc \in {"currency", "prices", "save"} =>
              Unfiltered(calls[q].filter) \subseteq allowed[q]
        /\ calls[q].pc \in {"prices", "save"} => RateKnown(q)
        /\ calls[q].pc = "save" => calls[q].left \subseteq Offered(q)

CallInv == \A q \in Call : CallOK(q)

\* A snapshot that is there is the one its call made; one that is there or on
\* its way is not to be saved any more.
Placed(id) == snapshots[id] # None \/ id \in late

SnapOK(q, v) ==
    /\ Placed(<<q, v>>) =>
          /\ Settled(q) /\ v \in Offered(q)
          /\ calls[q].pc = "save" => v \notin calls[q].left
    /\ snapshots[<<q, v>>] # None =>
          snapshots[<<q, v>>] = NewSnapshot(q, v) /\ <<q, v>> \notin late

SnapInv == \A q \in Call : \A v \in Service : SnapOK(q, v)

OfferOK(q, v) ==
    offers[<<q, v>>] # None =>
        /\ calls[q] # None /\ calls[q].pc = "done"
        /\ v \in Offered(q)
        /\ v \in allowed[q]
        /\ RateKnown(q)
        /\ offers[<<q, v>>] = NewOffer(q, v)

OfferInv == \A q \in Call : \A v \in Service : OfferOK(q, v)

SentInv ==
    /\ sent # None => offers[sent.id] # None
    /\ SentMeetsRequirements
    /\ BoughtAsQuoted

IInv == TypeOK /\ RatesSaved /\ CallInv /\ SnapInv /\ OfferInv /\ SentInv

-----------------------------------------------------------------------------
(* What is computed from a call.                                           *)

LEMMA QuoteType ==
  ASSUME TypeOK, NEW q \in Call, calls[q] # None
  PROVE  /\ calls[q] \in Quote
         /\ calls[q].request \in Request /\ calls[q].filter \in SUBSET Service
         /\ calls[q].rate \in Rates \union {One} /\ calls[q].rate \in Ratio
         /\ calls[q].rate.n \in Nat /\ calls[q].rate.n > 0
         /\ calls[q].rate.d \in Nat /\ calls[q].rate.d > 0
         /\ calls[q].prices \in SUBSET Price
<1>1. calls[q] \in Quote
  BY DEF TypeOK
<1>2. /\ calls[q].request \in Request /\ calls[q].filter \in SUBSET Service
      /\ calls[q].rate \in Rates \union {One}
      /\ calls[q].prices \in SUBSET Price
  BY <1>1, RatesAssumption DEF Quote
<1>3. /\ calls[q].rate \in Ratio
      /\ calls[q].rate.n \in Nat /\ calls[q].rate.n > 0
      /\ calls[q].rate.d \in Nat /\ calls[q].rate.d > 0
  BY <1>2, RatesAssumption DEF One, Ratio
<1>. QED  BY <1>1, <1>2, <1>3

LEMMA OfferedFacts ==
  ASSUME TypeOK, NEW q \in Call, calls[q] # None, NEW v \in Offered(q)
  PROVE  /\ v \in Service
         /\ v \in Unfiltered(calls[q].filter)
         /\ PriceOf(q, v) \in Nat
         /\ Cheapest(calls[q].prices, v, PriceOf(q, v))
<1>1. PICK p \in MapAPIRates(calls[q].prices) :
        p.service = v /\ (calls[q].filter = {} \/ v \in calls[q].filter)
  BY DEF Offered, FilterRateCandidatesByService
<1>2. calls[q].prices \in SUBSET Price
  BY QuoteType
<1>3. /\ PriceOf(q, v) \in Nat /\ v \in Service
      /\ Cheapest(calls[q].prices, v, PriceOf(q, v))
  BY <1>1, <1>2, CheapestFacts DEF PriceOf
<1>. QED  BY <1>1, <1>3 DEF Unfiltered

LEMMA SnapshotType ==
  ASSUME TypeOK, NEW q \in Call, calls[q] # None, NEW v \in Offered(q)
  PROVE  /\ NewSnapshot(q, v) \in Snapshot
         /\ Counted(NewSnapshot(q, v).customs)
<1> DEFINE r == calls[q].request
<1>1. /\ r.shipper \in Address /\ r.customer \in Address /\ r.weight \in Nat
      /\ r.customs \in Customs \union {None} /\ r.insured \in Nat
      /\ r.decimal \in Nat \union {None}
  BY QuoteType DEF Request
<1>2. OuncesToKilograms(r.weight) \in Nat
  BY <1>1, Weighed
<1>3. ResolveRequestCurrency(r) \in Money
  BY QuoteType, CurrencyType
<1>4. SnapshotCustoms(r.customs) \in Customs \union {None} /\ Counted(SnapshotCustoms(r.customs))
  BY <1>1, CustomsType
<1>5. v \in Service /\ PriceOf(q, v) \in Nat
  BY OfferedFacts
<1>6. calls[q].rate \in Ratio
  BY QuoteType
<1>. QED  BY <1>1, <1>2, <1>3, <1>4, <1>5, <1>6 DEF NewSnapshot, Snapshot

LEMMA OfferType ==
  ASSUME TypeOK, NEW q \in Call, calls[q] # None, NEW v \in Offered(q)
  PROVE  NewOffer(q, v) \in Offer
<1> DEFINE c == ResolveRequestCurrency(calls[q].request)
           n == IF c = "CAD" THEN PriceOf(q, v)
                ELSE ConvertCadToCurrencyCents(PriceOf(q, v), calls[q].rate)
<1>1. c \in Money
  BY QuoteType, CurrencyType
<1>2. PriceOf(q, v) \in Nat
  BY OfferedFacts
<1>3. n \in Nat
  <2>1. /\ calls[q].rate.n \in Nat /\ calls[q].rate.n > 0
        /\ calls[q].rate.d \in Nat
    BY QuoteType
  <2>2. PriceOf(q, v) * calls[q].rate.d \in Nat
    BY <1>2, <2>1
  <2>3. ConvertCadToCurrencyCents(PriceOf(q, v), calls[q].rate) \in Nat
    BY <2>1, <2>2, RoundedFacts DEF ConvertCadToCurrencyCents
  <2>. QED  BY <1>2, <2>3
<1>4. ShownPrice(PriceOf(q, v), c, calls[q].rate) = n % Width
  BY DEF ShownPrice
<1> HIDE DEF n
<1>5. n % Width \in 0..Width - 1
  <2>1. Width \in Nat /\ Width > 0
    BY RatesAssumption
  <2>. QED  BY <1>3, <2>1
<1>6. calls[q].rate \in Rates \union {One}
  BY QuoteType
<1>. QED  BY <1>1, <1>4, <1>5, <1>6 DEF NewOffer, Offer

\* A call whose prices are known keeps everything computed from them.
LEMMA SameQuote ==
  ASSUME NEW q, calls'[q].request = calls[q].request, calls'[q].filter = calls[q].filter,
         calls'[q].rate = calls[q].rate, calls'[q].prices = calls[q].prices
  PROVE  /\ Offered(q)' = Offered(q)
         /\ \A v : NewSnapshot(q, v)' = NewSnapshot(q, v)
         /\ \A v : NewOffer(q, v)' = NewOffer(q, v)
  BY DEF Offered, NewSnapshot, NewOffer, PriceOf

-----------------------------------------------------------------------------
(* What each action does to the calls.                                     *)

Others(q) == \A o \in Call : o # q => calls'[o] = calls[o]

SameAnswer(q) ==
    /\ calls'[q] # None
    /\ calls'[q].request = calls[q].request /\ calls'[q].filter = calls[q].filter
    /\ calls'[q].rate = calls[q].rate /\ calls'[q].prices = calls[q].prices

LEMMA StartFacts ==
  ASSUME TypeOK, NEW q \in Call, NEW request \in Requests, GetShippingRate(q, request)
  PROVE  /\ calls' \in [Call -> Quote \union {None}] /\ Others(q)
         /\ calls[q] = None
         /\ calls'[q] # None /\ calls'[q].pc = "settings"
         /\ allowed' \in [Call -> SUBSET Service]
         /\ allowed'[q] = Unfiltered(enabled)
         /\ \A o \in Call : o # q => allowed'[o] = allowed[o]
<1> DEFINE n == [pc |-> "settings", request |-> request, filter |-> {}, rate |-> One,
                 prices |-> {}, left |-> {}]
<1>1. n \in Quote
  BY DEF Quote
<1>2. n.pc = "settings"
  OBVIOUS
<1>3. calls' = [calls EXCEPT ![q] = n] /\ calls \in [Call -> Quote \union {None}]
      /\ calls[q] = None
  BY DEF GetShippingRate, TypeOK
<1> HIDE DEF n
<1>4. calls' \in [Call -> Quote \union {None}] /\ Others(q) /\ calls'[q] = n
  BY <1>1, <1>3 DEF Others
<1>5. n # None
  BY <1>1, RatesAssumption
<1>6. /\ allowed' \in [Call -> SUBSET Service]
      /\ allowed'[q] = Unfiltered(enabled)
      /\ \A o \in Call : o # q => allowed'[o] = allowed[o]
  BY DEF GetShippingRate, TypeOK, Unfiltered
<1>. QED  BY <1>2, <1>3, <1>4, <1>5, <1>6

LEMMA SettingsFacts ==
  ASSUME TypeOK, NEW q \in Call, LoadShippingSettings(q)
  PROVE  /\ calls' \in [Call -> Quote \union {None}] /\ Others(q)
         /\ calls[q] # None /\ calls[q].pc = "settings"
         /\ calls'[q] # None /\ calls'[q].pc = "currency"
         /\ allowed' \in [Call -> SUBSET Service]
         /\ allowed'[q] = allowed[q] \union Unfiltered(calls'[q].filter)
         /\ \A o \in Call : o # q => allowed'[o] = allowed[o]
<1>1. PICK loaded \in SUBSET Service :
        /\ calls' = [calls EXCEPT ![q].pc = "currency", ![q].filter = loaded]
        /\ allowed' = [allowed EXCEPT ![q] = allowed[q] \union Unfiltered(loaded)]
  BY DEF LoadShippingSettings, TypeOK
<1>2. calls[q] \in Quote /\ calls[q] # None /\ calls[q].pc = "settings"
  BY QuoteType DEF LoadShippingSettings, At
<1> DEFINE n == [calls[q] EXCEPT !.pc = "currency", !.filter = loaded]
<1>3. n \in Quote /\ n.pc = "currency" /\ n.filter = loaded
  BY <1>2 DEF Quote
<1>4. calls' = [calls EXCEPT ![q] = n] /\ calls \in [Call -> Quote \union {None}]
  BY <1>1 DEF TypeOK
<1> HIDE DEF n
<1>5. calls' \in [Call -> Quote \union {None}] /\ Others(q) /\ calls'[q] = n
  BY <1>3, <1>4 DEF Others
<1>6. n # None
  BY <1>3, RatesAssumption
<1>7. /\ allowed' \in [Call -> SUBSET Service]
      /\ allowed'[q] = allowed[q] \union Unfiltered(loaded)
      /\ \A o \in Call : o # q => allowed'[o] = allowed[o]
  BY <1>1 DEF TypeOK, Unfiltered
<1>. QED  BY <1>2, <1>3, <1>5, <1>6, <1>7

LEMMA CurrencyFacts ==
  ASSUME TypeOK, RatesSaved, NEW q \in Call, LoadCurrencyRate(q)
  PROVE  /\ calls' \in [Call -> Quote \union {None}] /\ Others(q)
         /\ calls[q] # None /\ calls[q].pc = "currency"
         /\ calls'[q] # None /\ calls'[q].pc = "prices"
         /\ calls'[q].filter = calls[q].filter
         /\ RateKnown(q)'
<1> DEFINE c == ResolveRequestCurrency(calls[q].request)
           r == IF c = "CAD" THEN One ELSE rates[c]
           n == [calls[q] EXCEPT !.pc = "prices", !.rate = r]
<1>1. calls[q] \in Quote /\ calls[q] # None /\ calls[q].pc = "currency"
  BY QuoteType DEF LoadCurrencyRate, At
<1>2. c \in Money
  BY <1>1, QuoteType, CurrencyType
<1>3. c # "CAD" => c \in Currency /\ rates[c] # None /\ <<c, rates[c]>> \in saved
  BY <1>2 DEF LoadCurrencyRate, Money, RatesSaved
<1>4. r \in Rates \union {One} /\ (c = "CAD" => r = One) /\ (c # "CAD" => <<c, r>> \in saved)
  BY <1>2, <1>3 DEF TypeOK, Money
<1>5. calls' = [calls EXCEPT ![q] = n] /\ calls \in [Call -> Quote \union {None}]
      /\ saved' = saved
  BY DEF LoadCurrencyRate, TypeOK
<1> HIDE DEF r
<1>6. n \in Quote /\ n.pc = "prices" /\ n.filter = calls[q].filter
      /\ n.request = calls[q].request /\ n.rate = r
  BY <1>1, <1>4 DEF Quote
<1> HIDE DEF n
<1>7. calls' \in [Call -> Quote \union {None}] /\ Others(q) /\ calls'[q] = n
  BY <1>5, <1>6 DEF Others
<1>8. n # None
  BY <1>6, RatesAssumption
<1>9. RateKnown(q)'
  BY <1>4, <1>5, <1>6, <1>7 DEF RateKnown
<1>. QED  BY <1>1, <1>6, <1>7, <1>8, <1>9

LEMMA PricesFacts ==
  ASSUME TypeOK, NEW q \in Call, NEW answer \in Answers, GetRates(q, answer)
  PROVE  /\ calls' \in [Call -> Quote \union {None}] /\ Others(q)
         /\ calls[q] # None /\ calls[q].pc = "prices"
         /\ calls'[q] # None /\ calls'[q].pc = "save"
         /\ calls'[q].request = calls[q].request /\ calls'[q].filter = calls[q].filter
         /\ calls'[q].rate = calls[q].rate
         /\ calls'[q].left = Offered(q)'
<1> DEFINE left == {p.service : p \in
                      FilterRateCandidatesByService(MapAPIRates(answer), calls[q].filter)}
           n == [calls[q] EXCEPT !.pc = "save", !.prices = answer, !.left = left]
<1>1. calls[q] \in Quote /\ calls[q] # None /\ calls[q].pc = "prices"
  BY QuoteType DEF GetRates, At
<1>2. answer \in SUBSET Price
  BY RatesAssumption
<1>3. left \in SUBSET Service
  BY <1>2 DEF FilterRateCandidatesByService, MapAPIRates, Price
<1>4. calls' = [calls EXCEPT ![q] = n] /\ calls \in [Call -> Quote \union {None}]
  BY DEF GetRates, TypeOK
<1>5. n \in Quote /\ n.pc = "save" /\ n.request = calls[q].request
      /\ n.filter = calls[q].filter /\ n.rate = calls[q].rate
      /\ n.prices = answer /\ n.left = left
  <2> HIDE DEF left
  <2>. QED  BY <1>1, <1>2, <1>3 DEF Quote
<1> HIDE DEF n
<1>6. calls' \in [Call -> Quote \union {None}] /\ Others(q) /\ calls'[q] = n
  BY <1>4, <1>5 DEF Others
<1>7. n # None
  BY <1>5, RatesAssumption
<1>8. n.left = Offered(q)'
  BY <1>5, <1>6 DEF Offered
<1>. QED  BY <1>1, <1>5, <1>6, <1>7, <1>8

LEMMA SaveFacts ==
  ASSUME TypeOK, NEW q \in Call, NEW v \in Service, Save(q, v)
  PROVE  /\ calls' \in [Call -> Quote \union {None}] /\ Others(q)
         /\ calls[q] # None /\ calls[q].pc = "save" /\ v \in calls[q].left
         /\ SameAnswer(q) /\ calls'[q].pc = "save"
         /\ calls'[q].left \subseteq calls[q].left \ {v}
<1> DEFINE n == [calls[q] EXCEPT !.left = @ \ {v}]
<1>1. calls[q] \in Quote /\ calls[q] # None /\ calls[q].pc = "save" /\ v \in calls[q].left
  BY QuoteType DEF Save, At
<1>2. calls' = [calls EXCEPT ![q] = n] /\ calls \in [Call -> Quote \union {None}]
  BY DEF Save, TypeOK
<1>3. n \in Quote /\ n.pc = "save" /\ n.request = calls[q].request
      /\ n.filter = calls[q].filter /\ n.rate = calls[q].rate
      /\ n.prices = calls[q].prices /\ n.left \subseteq calls[q].left \ {v}
  BY <1>1 DEF Quote
<1> HIDE DEF n
<1>4. calls' \in [Call -> Quote \union {None}] /\ Others(q) /\ calls'[q] = n
  BY <1>2, <1>3 DEF Others
<1>5. n # None
  BY <1>3, RatesAssumption
<1>. QED  BY <1>1, <1>3, <1>4, <1>5 DEF SameAnswer

LEMMA DoneFacts ==
  ASSUME TypeOK, NEW q \in Call, calls[q] # None,
         calls' = [calls EXCEPT ![q].pc = "done"]
  PROVE  /\ calls' \in [Call -> Quote \union {None}] /\ Others(q)
         /\ SameAnswer(q) /\ calls'[q].pc = "done"
<1> DEFINE n == [calls[q] EXCEPT !.pc = "done"]
<1>1. calls[q] \in Quote
  BY QuoteType
<1>2. calls' = [calls EXCEPT ![q] = n] /\ calls \in [Call -> Quote \union {None}]
  BY DEF TypeOK
<1>3. n \in Quote /\ n.pc = "done" /\ n.request = calls[q].request
      /\ n.filter = calls[q].filter /\ n.rate = calls[q].rate
      /\ n.prices = calls[q].prices
  BY <1>1 DEF Quote
<1> HIDE DEF n
<1>4. calls' \in [Call -> Quote \union {None}] /\ Others(q) /\ calls'[q] = n
  BY <1>2, <1>3 DEF Others
<1>5. n # None
  BY <1>3, RatesAssumption
<1>. QED  BY <1>3, <1>4, <1>5 DEF SameAnswer

-----------------------------------------------------------------------------
(* What never changes.                                                     *)

RatesStay == saved \subseteq saved'
AllowedStay == \A q \in Call : calls[q] # None => allowed[q] \subseteq allowed'[q]
AnswersStay ==
    \A q \in Call : Settled(q) =>
        /\ SameAnswer(q) /\ calls'[q].pc \in {"save", "done"}
        /\ calls[q].pc = "done" => calls'[q].pc = "done"
        /\ calls'[q].pc = "save" => calls'[q].left \subseteq calls[q].left

LEMMA OneMoves ==
  ASSUME NEW q \in Call, Others(q), ~ Settled(q)
  PROVE  AnswersStay
  BY DEF Others, Settled, AnswersStay, SameAnswer

LEMMA OneStays ==
  ASSUME NEW q \in Call, Others(q), SameAnswer(q), calls[q] # None,
         calls'[q].pc \in {"save", "done"}, calls[q].pc # "done",
         calls'[q].pc = "save" => calls'[q].left \subseteq calls[q].left
  PROVE  AnswersStay
  BY DEF Others, Settled, AnswersStay, SameAnswer

LEMMA Stays ==
  ASSUME TypeOK, RatesSaved, Next
  PROVE  RatesStay /\ AllowedStay /\ AnswersStay
<1>1. ASSUME NEW c \in Currency, NEW r \in Rates, SaveCurrencyRate(c, r)
      PROVE  RatesStay /\ AllowedStay /\ AnswersStay
  <2>1. RatesStay
    BY <1>1 DEF SaveCurrencyRate, RatesStay
  <2>. QED  BY <1>1, <2>1 DEF SaveCurrencyRate, AllowedStay, AnswersStay, SameAnswer, Settled
<1>2. ASSUME NEW services \in SUBSET Service, SaveShippingSettings(services)
      PROVE  RatesStay /\ AllowedStay /\ AnswersStay
  <2>1. AllowedStay
    BY <1>2 DEF SaveShippingSettings, Allow, TypeOK, AllowedStay
  <2>. QED  BY <1>2, <2>1 DEF SaveShippingSettings, RatesStay, AnswersStay, SameAnswer, Settled
<1>12. ASSUME CleanupPluginData
       PROVE  RatesStay /\ AllowedStay /\ AnswersStay
  <2>1. AllowedStay
    BY <1>12 DEF CleanupPluginData, Allow, TypeOK, AllowedStay
  <2>. QED  BY <1>12, <2>1 DEF CleanupPluginData, RatesStay, AnswersStay, SameAnswer, Settled
<1>3. ASSUME NEW q \in Call, NEW request \in Requests, GetShippingRate(q, request)
      PROVE  RatesStay /\ AllowedStay /\ AnswersStay
  <2>1. Others(q) /\ calls[q] = None /\ \A o \in Call : o # q => allowed'[o] = allowed[o]
    BY <1>3, StartFacts
  <2>2. AnswersStay
    BY <2>1, OneMoves DEF Settled
  <2>3. AllowedStay
    BY <2>1 DEF AllowedStay
  <2>. QED  BY <1>3, <2>2, <2>3 DEF GetShippingRate, RatesStay
<1>4. ASSUME NEW q \in Call, LoadShippingSettings(q)
      PROVE  RatesStay /\ AllowedStay /\ AnswersStay
  <2>1. /\ Others(q) /\ calls[q].pc = "settings"
        /\ allowed[q] \subseteq allowed'[q]
        /\ \A o \in Call : o # q => allowed'[o] = allowed[o]
    BY <1>4, SettingsFacts
  <2>2. AnswersStay
    BY <2>1, OneMoves DEF Settled
  <2>3. AllowedStay
    BY <2>1 DEF AllowedStay
  <2>. QED  BY <1>4, <2>2, <2>3 DEF LoadShippingSettings, RatesStay
<1>5. ASSUME NEW q \in Call, LoadCurrencyRate(q)
      PROVE  RatesStay /\ AllowedStay /\ AnswersStay
  <2>1. AnswersStay
    BY <1>5, CurrencyFacts, OneMoves DEF Settled
  <2>. QED  BY <1>5, <2>1 DEF LoadCurrencyRate, RatesStay, AllowedStay
<1>6. ASSUME NEW q \in Call, NEW answer \in Answers, GetRates(q, answer)
      PROVE  RatesStay /\ AllowedStay /\ AnswersStay
  <2>1. AnswersStay
    BY <1>6, PricesFacts, OneMoves DEF Settled
  <2>. QED  BY <1>6, <2>1 DEF GetRates, RatesStay, AllowedStay
<1>7. ASSUME NEW q \in Call, NEW v \in Service, Save(q, v)
      PROVE  RatesStay /\ AllowedStay /\ AnswersStay
  <2>1. AnswersStay
    BY <1>7, SaveFacts, OneStays
  <2>. QED  BY <1>7, <2>1 DEF Save, RatesStay, AllowedStay
<1>8. ASSUME NEW q \in Call, Answer(q)
      PROVE  RatesStay /\ AllowedStay /\ AnswersStay
  <2>1. calls[q] # None /\ calls[q].pc # "done" /\ calls' = [calls EXCEPT ![q].pc = "done"]
    BY <1>8 DEF Answer, At
  <2>2. AnswersStay
    BY <2>1, DoneFacts, OneStays
  <2>. QED  BY <1>8, <2>2 DEF Answer, RatesStay, AllowedStay
<1>9. ASSUME NEW q \in Call, CallFails(q)
      PROVE  RatesStay /\ AllowedStay /\ AnswersStay
  <2>1. calls[q] # None /\ calls[q].pc # "done" /\ calls' = [calls EXCEPT ![q].pc = "done"]
    BY <1>9 DEF CallFails
  <2>2. Others(q) /\ SameAnswer(q) /\ calls'[q].pc = "done"
    BY <2>1, DoneFacts
  <2>3. AnswersStay
    BY <2>1, <2>2, OneStays
  <2>. QED  BY <1>9, <2>3 DEF CallFails, RatesStay, AllowedStay
<1>10. ASSUME NEW id \in RateID, Expire(id)
      PROVE  RatesStay /\ AllowedStay /\ AnswersStay
  BY <1>10 DEF Expire, RatesStay, AllowedStay, AnswersStay, SameAnswer, Settled
<1>11. ASSUME NEW id \in RateID, NEW customs \in Declared, NEW d2po \in BOOLEAN,
              CreateLabel(id, customs, d2po)
      PROVE  RatesStay /\ AllowedStay /\ AnswersStay
  BY <1>11 DEF CreateLabel, RatesStay, AllowedStay, AnswersStay, SameAnswer, Settled
<1>13. ASSUME NEW id \in RateID, LateSet(id)
      PROVE  RatesStay /\ AllowedStay /\ AnswersStay
  BY <1>13 DEF LateSet, RatesStay, AllowedStay, AnswersStay, SameAnswer, Settled
<1>. QED
  BY <1>1, <1>2, <1>3, <1>4, <1>5, <1>6, <1>7, <1>8, <1>9, <1>10, <1>11, <1>12,
     <1>13 DEF Next

-----------------------------------------------------------------------------
(* The conjuncts of the invariant, step by step.                           *)

LEMMA RateStaysKnown ==
  ASSUME RatesStay, NEW q \in Call, RateKnown(q),
         calls'[q].request = calls[q].request, calls'[q].rate = calls[q].rate
  PROVE  RateKnown(q)'
  BY DEF RateKnown, RatesStay

LEMMA SavedStep ==
  ASSUME TypeOK, RatesSaved, Next
  PROVE  RatesSaved'
<1>1. ASSUME NEW c \in Currency, NEW r \in Rates, SaveCurrencyRate(c, r)
      PROVE  RatesSaved'
  BY <1>1 DEF SaveCurrencyRate, TypeOK, RatesSaved
<1>2. ASSUME CleanupPluginData
      PROVE  RatesSaved'
  BY <1>2 DEF CleanupPluginData, RatesSaved
<1>3. CASE rates' = rates /\ saved' = saved
  BY <1>3 DEF RatesSaved
<1>. QED
  BY <1>1, <1>2, <1>3 DEF Next, SaveShippingSettings, GetShippingRate, LoadShippingSettings,
     LoadCurrencyRate, GetRates, Save, LateSet, Answer, CallFails, Expire, CreateLabel

\* A call that does not move keeps its part of the invariant.
LEMMA CallKeeps ==
  ASSUME TypeOK, RatesStay, AllowedStay, NEW q \in Call, CallOK(q),
         calls'[q] = calls[q], enabled' = enabled
  PROVE  CallOK(q)'
<1>1. SUFFICES ASSUME calls[q] # None PROVE CallOK(q)'
  BY DEF CallOK
<1>2. Offered(q)' = Offered(q)
  BY SameQuote
<1>3. RateKnown(q) => RateKnown(q)'
  BY <1>1, RateStaysKnown
<1>4. allowed[q] \subseteq allowed'[q]
  BY <1>1 DEF AllowedStay
<1>. QED  BY <1>1, <1>2, <1>3, <1>4 DEF CallOK, Unfiltered

LEMMA CallStep ==
  ASSUME TypeOK, RatesSaved, CallInv, Next
  PROVE  CallInv'
<1>0. RatesStay /\ AllowedStay /\ AnswersStay
  BY Stays
<1>1. ASSUME calls' = calls, enabled' = enabled
      PROVE  CallInv'
  BY <1>0, <1>1, CallKeeps DEF CallInv
<1>2. ASSUME NEW q \in Call, Others(q), enabled' = enabled, CallOK(q)'
      PROVE  CallInv'
  <2>1. ASSUME NEW o \in Call, o # q
        PROVE  CallOK(o)'
    <3>1. calls'[o] = calls[o] /\ CallOK(o)
      BY <1>2, <2>1 DEF Others, CallInv
    <3>. QED  BY <1>0, <1>2, <3>1, CallKeeps
  <2>. QED  BY <1>2, <2>1 DEF CallInv
<1>3. ASSUME NEW c \in Currency, NEW r \in Rates, SaveCurrencyRate(c, r)
      PROVE  CallInv'
  BY <1>1, <1>3 DEF SaveCurrencyRate
<1>15. ASSUME NEW services \in SUBSET Service, calls' = calls, enabled' = services,
              saved' = saved, Allow(services)
      PROVE  CallInv'
  <2>1. SUFFICES ASSUME NEW q \in Call, calls[q] # None PROVE CallOK(q)'
    BY <1>15 DEF CallInv, CallOK
  <2>2. CallOK(q) /\ calls' = calls /\ enabled' = services /\ saved' = saved
    BY <1>15 DEF CallInv
  <2>3. calls[q].pc = "settings" => Unfiltered(services) \subseteq allowed'[q]
    BY <1>15, <2>1 DEF Allow, TypeOK
  <2>4. allowed[q] \subseteq allowed'[q]
    BY <1>0, <2>1 DEF AllowedStay
  <2>5. Offered(q)' = Offered(q) /\ (RateKnown(q) => RateKnown(q)')
    BY <2>2, SameQuote DEF RateKnown
  <2>. QED  BY <2>1, <2>2, <2>3, <2>4, <2>5 DEF CallOK, Unfiltered
<1>4. ASSUME NEW services \in SUBSET Service, SaveShippingSettings(services)
      PROVE  CallInv'
  BY <1>4, <1>15 DEF SaveShippingSettings
<1>16. ASSUME CleanupPluginData
       PROVE  CallInv'
  BY <1>15, <1>16 DEF CleanupPluginData
<1>5. ASSUME NEW q \in Call, NEW request \in Requests, GetShippingRate(q, request)
      PROVE  CallInv'
  <2>1. /\ Others(q) /\ calls'[q].pc = "settings"
        /\ allowed'[q] = Unfiltered(enabled)
    BY <1>5, StartFacts
  <2>2. enabled' = enabled
    BY <1>5 DEF GetShippingRate
  <2>3. CallOK(q)'
    BY <2>1, <2>2 DEF CallOK, Unfiltered
  <2>. QED  BY <1>2, <2>1, <2>2, <2>3
<1>6. ASSUME NEW q \in Call, LoadShippingSettings(q)
      PROVE  CallInv'
  <2>1. /\ Others(q) /\ calls'[q].pc = "currency"
        /\ allowed'[q] = allowed[q] \union Unfiltered(calls'[q].filter)
    BY <1>6, SettingsFacts
  <2>2. enabled' = enabled
    BY <1>6 DEF LoadShippingSettings
  <2>3. CallOK(q)'
    BY <2>1 DEF CallOK, Unfiltered
  <2>. QED  BY <1>2, <2>1, <2>2, <2>3
<1>7. ASSUME NEW q \in Call, LoadCurrencyRate(q)
      PROVE  CallInv'
  <2>1. /\ Others(q) /\ calls[q] # None /\ calls[q].pc = "currency"
        /\ calls'[q].pc = "prices" /\ calls'[q].filter = calls[q].filter
        /\ RateKnown(q)'
    BY <1>7, CurrencyFacts
  <2>2. enabled' = enabled /\ allowed' = allowed /\ CallOK(q)
    BY <1>7 DEF LoadCurrencyRate, CallInv
  <2>3. CallOK(q)'
    BY <2>1, <2>2 DEF CallOK, Unfiltered
  <2>. QED  BY <1>2, <2>1, <2>2, <2>3
<1>8. ASSUME NEW q \in Call, NEW answer \in Answers, GetRates(q, answer)
      PROVE  CallInv'
  <2>1. /\ Others(q) /\ calls[q] # None /\ calls[q].pc = "prices"
        /\ calls'[q].pc = "save" /\ calls'[q].filter = calls[q].filter
        /\ calls'[q].request = calls[q].request /\ calls'[q].rate = calls[q].rate
        /\ calls'[q].left = Offered(q)'
    BY <1>8, PricesFacts
  <2>2. enabled' = enabled /\ allowed' = allowed /\ CallOK(q)
    BY <1>8 DEF GetRates, CallInv
  <2>3. RateKnown(q)'
    BY <1>0, <2>1, <2>2, RateStaysKnown DEF CallOK
  <2>4. CallOK(q)'
    BY <2>1, <2>2, <2>3 DEF CallOK, Unfiltered
  <2>. QED  BY <1>2, <2>1, <2>2, <2>4
<1>9. ASSUME NEW q \in Call, NEW v \in Service, Save(q, v)
      PROVE  CallInv'
  <2>1. /\ Others(q) /\ calls[q] # None /\ calls[q].pc = "save"
        /\ SameAnswer(q) /\ calls'[q].pc = "save"
        /\ calls'[q].left \subseteq calls[q].left
    BY <1>9, SaveFacts
  <2>2. enabled' = enabled /\ allowed' = allowed /\ CallOK(q)
    BY <1>9 DEF Save, CallInv
  <2>3. RateKnown(q)'
    BY <1>0, <2>1, <2>2, RateStaysKnown DEF CallOK, SameAnswer
  <2>4. Offered(q)' = Offered(q)
    BY <2>1, SameQuote DEF SameAnswer
  <2>5. CallOK(q)'
    BY <2>1, <2>2, <2>3, <2>4 DEF CallOK, Unfiltered, SameAnswer
  <2>. QED  BY <1>2, <2>1, <2>2, <2>5
<1>10. ASSUME NEW q \in Call, calls[q] # None, calls' = [calls EXCEPT ![q].pc = "done"],
              enabled' = enabled
      PROVE  CallInv'
  <2>1. Others(q) /\ calls'[q].pc = "done"
    BY <1>10, DoneFacts
  <2>2. CallOK(q)'
    BY <2>1 DEF CallOK
  <2>. QED  BY <1>2, <1>10, <2>1, <2>2
<1>11. ASSUME NEW q \in Call, Answer(q)
      PROVE  CallInv'
  BY <1>10, <1>11 DEF Answer, At
<1>12. ASSUME NEW q \in Call, CallFails(q)
      PROVE  CallInv'
  BY <1>10, <1>12 DEF CallFails
<1>13. ASSUME NEW id \in RateID, Expire(id)
      PROVE  CallInv'
  BY <1>1, <1>13 DEF Expire
<1>14. ASSUME NEW id \in RateID, NEW customs \in Declared, NEW d2po \in BOOLEAN,
              CreateLabel(id, customs, d2po)
      PROVE  CallInv'
  BY <1>1, <1>14 DEF CreateLabel
<1>17. ASSUME NEW id \in RateID, LateSet(id)
      PROVE  CallInv'
  BY <1>1, <1>17 DEF LateSet
<1>. QED
  BY <1>3, <1>4, <1>5, <1>6, <1>7, <1>8, <1>9, <1>11, <1>12, <1>13, <1>14,
     <1>16, <1>17 DEF Next

LEMMA Pair ==
  ASSUME NEW id \in RateID
  PROVE  id[1] \in Call /\ id[2] \in Service /\ id = <<id[1], id[2]>>
  BY DEF RateID

LEMMA AllowType ==
  ASSUME TypeOK, NEW services \in SUBSET Service, Allow(services)
  PROVE  allowed' \in [Call -> SUBSET Service]
<1>1. Unfiltered(services) \in SUBSET Service
  BY DEF Unfiltered
<1>. QED  BY <1>1 DEF Allow, TypeOK

\* What is loaded is a snapshot, with the customs information of the request.
LEMMA LoadType ==
  ASSUME NEW n \in Snapshot, NEW customs \in Declared
  PROVE  WithCustoms(n, customs) \in Snapshot
<1>1. CASE customs = None
  BY <1>1 DEF WithCustoms
<1>2. CASE customs # None
  <2>1. SnapshotCustoms(customs) \in Customs \union {None}
    BY RatesAssumption, CustomsType
  <2>. QED  BY <1>2, <2>1 DEF WithCustoms, Snapshot
<1>. QED  BY <1>1, <1>2

LEMMA RequestType ==
  ASSUME NEW s \in Snapshot, ValidateShipmentSnapshot(s), NEW d2po \in BOOLEAN
  PROVE  BuildShipmentRequest(s, d2po) \in SentRequest
<1> DEFINE customs == IF RequiresCustoms(s.customer.countryCode)
                      THEN BuildShipmentCustoms(s) ELSE None
           voice == RequiresClientVoice(s.service) \/ d2po
<1>1. /\ s.service \in Service /\ s.weight \in Nat
      /\ s.shipper \in Address /\ s.customer \in Address
  BY DEF Snapshot
<1>2. customs \in SentCustoms \union {None}
  BY CustomsBuilt DEF ValidateShipmentSnapshot, ValidateCustoms
<1>3. SenderSent(s.shipper) \in SentSender
  BY <1>1, SenderMeets
<1>4. \A f \in BOOLEAN : DestinationSent(s.customer, f) \in SentDestination
  BY <1>1, DestinationMeets
<1>5. BuildShipmentRequest(s, d2po) =
        [service |-> s.service, weight |-> s.weight, sender |-> SenderSent(s.shipper),
         destination |-> DestinationSent(s.customer, voice), customs |-> customs]
  BY DEF BuildShipmentRequest
<1>6. voice \in BOOLEAN
  OBVIOUS
<1> HIDE DEF customs, voice
<1>. QED  BY <1>1, <1>2, <1>3, <1>4, <1>5, <1>6 DEF SentRequest

\* What CreateLabel sends has its type.
LEMMA SentType ==
  ASSUME TypeOK, NEW id \in RateID, NEW customs \in Declared, NEW d2po \in BOOLEAN,
         CreateLabel(id, customs, d2po)
  PROVE  sent' \in Sent /\ sent' # None
<1> DEFINE s == Load(id, customs)
           b == BuildShipmentRequest(s, d2po)
<1>1. snapshots[id] \in Snapshot /\ ValidateShipmentSnapshot(s)
      /\ sent' = [id |-> id, customs |-> s.customs, request |-> b]
  BY DEF CreateLabel, TypeOK
<1>2. s \in Snapshot
  BY <1>1, LoadType DEF Load
<1>3. b \in SentRequest
  BY <1>1, <1>2, RequestType
<1>4. s.customs \in Customs \union {None}
  BY <1>2 DEF Snapshot
<1> HIDE DEF s, b
<1>5. sent' \in Sent
  BY <1>1, <1>3, <1>4 DEF Sent
<1>. QED  BY <1>5, RatesAssumption

\* What is on its way belongs to a call that has its prices.
LEMMA LateFacts ==
  ASSUME SnapInv, NEW id \in RateID, id \in late
  PROVE  /\ id[1] \in Call /\ id[2] \in Service /\ id = <<id[1], id[2]>>
         /\ calls[id[1]] # None /\ id[2] \in Offered(id[1])
         /\ snapshots[id] = None
  BY Pair DEF SnapInv, SnapOK, Placed, Settled

LEMMA TypeStep ==
  ASSUME TypeOK, RatesSaved, CallInv, SnapInv, Next
  PROVE  TypeOK'
<1>1. ASSUME NEW c \in Currency, NEW r \in Rates, SaveCurrencyRate(c, r)
      PROVE  TypeOK'
  BY <1>1 DEF SaveCurrencyRate, TypeOK
<1>2. ASSUME NEW services \in SUBSET Service, SaveShippingSettings(services)
      PROVE  TypeOK'
  <2>1. allowed' \in [Call -> SUBSET Service]
    BY <1>2, AllowType DEF SaveShippingSettings
  <2>. QED  BY <1>2, <2>1 DEF SaveShippingSettings, TypeOK
<1>12. ASSUME CleanupPluginData
       PROVE  TypeOK'
  <2>1. allowed' \in [Call -> SUBSET Service]
    BY <1>12, AllowType DEF CleanupPluginData
  <2>. QED  BY <1>12, <2>1 DEF CleanupPluginData, TypeOK
<1>3. ASSUME NEW q \in Call, NEW request \in Requests, GetShippingRate(q, request)
      PROVE  TypeOK'
  <2>1. calls' \in [Call -> Quote \union {None}] /\ allowed' \in [Call -> SUBSET Service]
    BY <1>3, StartFacts
  <2>. QED  BY <1>3, <2>1 DEF GetShippingRate, TypeOK
<1>4. ASSUME NEW q \in Call, LoadShippingSettings(q)
      PROVE  TypeOK'
  <2>1. calls' \in [Call -> Quote \union {None}] /\ allowed' \in [Call -> SUBSET Service]
    BY <1>4, SettingsFacts
  <2>. QED  BY <1>4, <2>1 DEF LoadShippingSettings, TypeOK
<1>5. ASSUME NEW q \in Call, LoadCurrencyRate(q)
      PROVE  TypeOK'
  <2>1. calls' \in [Call -> Quote \union {None}]
    BY <1>5, CurrencyFacts
  <2>. QED  BY <1>5, <2>1 DEF LoadCurrencyRate, TypeOK
<1>6. ASSUME NEW q \in Call, NEW answer \in Answers, GetRates(q, answer)
      PROVE  TypeOK'
  <2>1. calls' \in [Call -> Quote \union {None}]
    BY <1>6, PricesFacts
  <2>. QED  BY <1>6, <2>1 DEF GetRates, TypeOK
<1>7. ASSUME NEW q \in Call, NEW v \in Service, Save(q, v)
      PROVE  TypeOK'
  <2>1. /\ calls' \in [Call -> Quote \union {None}]
        /\ calls[q] # None /\ calls[q].pc = "save" /\ v \in calls[q].left
    BY <1>7, SaveFacts
  <2>2. v \in Offered(q)
    BY <2>1 DEF CallInv, CallOK
  <2>3. NewSnapshot(q, v) \in Snapshot
    BY <2>1, <2>2, SnapshotType
  <2>4. snapshots' \in [RateID -> Snapshot \union {None}] /\ late' \subseteq RateID
    BY <1>7, <2>3 DEF Save, RedisSet, TypeOK, RateID
  <2>. QED  BY <1>7, <2>1, <2>4 DEF Save, TypeOK
<1>8. ASSUME NEW q \in Call, Answer(q)
      PROVE  TypeOK'
  <2>1. calls[q] # None /\ calls' = [calls EXCEPT ![q].pc = "done"]
    BY <1>8 DEF Answer, At
  <2>2. calls' \in [Call -> Quote \union {None}]
    BY <2>1, DoneFacts
  <2>3. \A v \in Offered(q) : NewOffer(q, v) \in Offer
    BY <2>1, OfferType
  <2>4. offers' \in [RateID -> Offer \union {None}]
    <3>1. offers' = [id \in RateID |->
                       IF id[1] = q /\ id[2] \in Offered(q) THEN NewOffer(q, id[2])
                       ELSE offers[id]]
      BY <1>8 DEF Answer
    <3>2. offers \in [RateID -> Offer \union {None}]
      BY DEF TypeOK
    <3>. QED  BY <2>3, <3>1, <3>2
  <2>. QED  BY <1>8, <2>2, <2>4 DEF Answer, TypeOK
<1>9. ASSUME NEW q \in Call, CallFails(q)
      PROVE  TypeOK'
  <2>1. calls[q] # None /\ calls' = [calls EXCEPT ![q].pc = "done"]
    BY <1>9 DEF CallFails
  <2>2. calls' \in [Call -> Quote \union {None}]
    BY <2>1, DoneFacts
  <2>. QED  BY <1>9, <2>2 DEF CallFails, TypeOK
<1>10. ASSUME NEW id \in RateID, Expire(id)
      PROVE  TypeOK'
  BY <1>10 DEF Expire, TypeOK
<1>11. ASSUME NEW id \in RateID, NEW customs \in Declared, NEW d2po \in BOOLEAN,
              CreateLabel(id, customs, d2po)
      PROVE  TypeOK'
  BY <1>11, SentType DEF CreateLabel, TypeOK
<1>13. ASSUME NEW id \in RateID, LateSet(id)
      PROVE  TypeOK'
  <2>1. NewSnapshot(id[1], id[2]) \in Snapshot
    BY <1>13, LateFacts, SnapshotType DEF LateSet
  <2>. QED  BY <1>13, <2>1 DEF LateSet, TypeOK
<1>. QED
  BY <1>1, <1>2, <1>3, <1>4, <1>5, <1>6, <1>7, <1>8, <1>9, <1>10, <1>11, <1>12,
     <1>13 DEF Next

LEMMA SnapKeeps ==
  ASSUME AnswersStay, NEW q \in Call, NEW v \in Service, SnapOK(q, v),
         snapshots'[<<q, v>>] = snapshots[<<q, v>>],
         <<q, v>> \in late' => <<q, v>> \in late
  PROVE  SnapOK(q, v)'
<1>1. SUFFICES ASSUME Placed(<<q, v>>) PROVE SnapOK(q, v)'
  BY DEF SnapOK, Placed
<1>2. /\ Settled(q) /\ v \in Offered(q)
      /\ calls[q].pc = "save" => v \notin calls[q].left
      /\ snapshots[<<q, v>>] # None =>
            snapshots[<<q, v>>] = NewSnapshot(q, v) /\ <<q, v>> \notin late
  BY <1>1 DEF SnapOK
<1>3. SameAnswer(q) /\ Settled(q)' /\ (calls'[q].pc = "save" => v \notin calls'[q].left)
  BY <1>2 DEF AnswersStay, Settled, SameAnswer
<1>4. Offered(q)' = Offered(q) /\ NewSnapshot(q, v)' = NewSnapshot(q, v)
  BY <1>3, SameQuote DEF SameAnswer
<1>. QED  BY <1>2, <1>3, <1>4 DEF SnapOK, Placed

\* A SET, in time or late, puts the snapshot of a call in place.
LEMMA SnapArrives ==
  ASSUME TypeOK, AnswersStay, SnapInv, NEW q \in Call, NEW v \in Service, Settled(q),
         v \in Offered(q), calls'[q].pc = "save" => v \notin calls'[q].left,
         snapshots' = [snapshots EXCEPT ![<<q, v>>] = NewSnapshot(q, v)],
         late' = late \ {<<q, v>>}
  PROVE  SnapInv'
<1>1. SnapOK(q, v)'
  <2>1. SameAnswer(q) /\ Settled(q)'
    BY DEF AnswersStay, Settled, SameAnswer
  <2>2. Offered(q)' = Offered(q) /\ NewSnapshot(q, v)' = NewSnapshot(q, v)
    BY <2>1, SameQuote DEF SameAnswer
  <2>3. snapshots'[<<q, v>>] = NewSnapshot(q, v) /\ <<q, v>> \notin late'
    BY DEF TypeOK, RateID
  <2>. QED  BY <2>1, <2>2, <2>3 DEF SnapOK, Placed
<1>2. ASSUME NEW o \in Call, NEW w \in Service, <<o, w>> # <<q, v>>
      PROVE  SnapOK(o, w)'
  <2>1. snapshots'[<<o, w>>] = snapshots[<<o, w>>]
    BY <1>2 DEF TypeOK, RateID
  <2>. QED  BY <2>1, SnapKeeps DEF SnapInv
<1>. QED  BY <1>1, <1>2 DEF SnapInv

LEMMA SnapStep ==
  ASSUME TypeOK, RatesSaved, CallInv, SnapInv, Next
  PROVE  SnapInv'
<1>0. AnswersStay /\ \A q \in Call : \A v \in Service : SnapOK(q, v)
  BY Stays DEF SnapInv
<1>2. ASSUME snapshots' = snapshots, late' = late
      PROVE  SnapInv'
  BY <1>0, <1>2, SnapKeeps DEF SnapInv
<1>3. ASSUME NEW q \in Call, NEW v \in Service, Save(q, v)
      PROVE  SnapInv'
  <2>1. /\ calls[q] # None /\ calls[q].pc = "save" /\ v \in calls[q].left
        /\ SameAnswer(q) /\ calls'[q].pc = "save"
        /\ v \notin calls'[q].left
    BY <1>3, SaveFacts
  <2>2. v \in Offered(q) /\ Settled(q)
    BY <2>1 DEF CallInv, CallOK, Settled
  <2>3. snapshots[<<q, v>>] = None /\ <<q, v>> \notin late
    BY <1>0, <2>1 DEF SnapOK, Placed
  <2>4. CASE snapshots' = snapshots /\ late' = late
    BY <1>2, <2>4
  <2>5. CASE snapshots' = [snapshots EXCEPT ![<<q, v>>] = NewSnapshot(q, v)] /\ late' = late
    <3>1. late' = late \ {<<q, v>>}
      BY <2>3, <2>5
    <3>. QED  BY <1>0, <2>1, <2>2, <2>5, <3>1, SnapArrives
  <2>6. CASE snapshots' = snapshots /\ late' = late \union {<<q, v>>}
    <3>1. SnapOK(q, v)'
      <4>1. Offered(q)' = Offered(q) /\ Settled(q)'
        BY <2>1, SameQuote DEF SameAnswer, Settled
      <4>. QED  BY <2>1, <2>2, <2>3, <2>6, <4>1 DEF SnapOK, Placed
    <3>2. ASSUME NEW o \in Call, NEW w \in Service, <<o, w>> # <<q, v>>
          PROVE  SnapOK(o, w)'
      <4>1. <<o, w>> \in late' => <<o, w>> \in late
        BY <2>6, <3>2
      <4>. QED  BY <1>0, <2>6, <4>1, SnapKeeps
    <3>. QED  BY <3>1, <3>2 DEF SnapInv
  <2>. QED  BY <1>3, <2>4, <2>5, <2>6 DEF Save, RedisSet
<1>6. ASSUME NEW id \in RateID, LateSet(id)
      PROVE  SnapInv'
  <2>1. /\ id \in late /\ late' = late \ {id} /\ calls' = calls
        /\ snapshots' = [snapshots EXCEPT ![id] = NewSnapshot(id[1], id[2])]
    BY <1>6 DEF LateSet
  <2> DEFINE q == id[1]
             v == id[2]
  <2>2. q \in Call /\ v \in Service /\ id = <<q, v>>
    BY Pair
  <2> HIDE DEF q, v
  <2>3. Settled(q) /\ v \in Offered(q) /\ (calls'[q].pc = "save" => v \notin calls'[q].left)
    BY <1>0, <2>1, <2>2 DEF SnapOK, Placed
  <2>4. /\ snapshots' = [snapshots EXCEPT ![<<q, v>>] = NewSnapshot(q, v)]
        /\ late' = late \ {<<q, v>>}
    BY <2>1, <2>2 DEF q, v
  <2>. QED  BY <1>0, <2>2, <2>3, <2>4, SnapArrives
<1>4. ASSUME NEW id \in RateID, Expire(id)
      PROVE  SnapInv'
  <2>1. snapshots' = [snapshots EXCEPT ![id] = None] /\ late' = late
        /\ snapshots[id] # None /\ calls' = calls
    BY <1>4 DEF Expire
  <2>2. ASSUME NEW q \in Call, NEW v \in Service
        PROVE  SnapOK(q, v)'
    <3>1. CASE <<q, v>> = id
      <4>1. snapshots'[<<q, v>>] = None
        BY <2>1, <3>1 DEF TypeOK
      <4>2. <<q, v>> \notin late'
        BY <1>0, <2>1, <3>1 DEF SnapOK
      <4>. QED  BY <4>1, <4>2 DEF SnapOK, Placed
    <3>2. CASE <<q, v>> # id
      <4>1. snapshots'[<<q, v>>] = snapshots[<<q, v>>]
        BY <2>1, <3>2 DEF TypeOK, RateID
      <4>. QED  BY <1>0, <2>1, <4>1, SnapKeeps
    <3>. QED  BY <3>1, <3>2
  <2>. QED  BY <2>2 DEF SnapInv
<1>5. CASE snapshots' = snapshots /\ late' = late
  BY <1>2, <1>5
<1>. QED
  BY <1>3, <1>4, <1>5, <1>6 DEF Next, SaveCurrencyRate, SaveShippingSettings, CleanupPluginData,
     GetShippingRate, LoadShippingSettings, LoadCurrencyRate, GetRates, Answer, CallFails,
     CreateLabel

LEMMA OfferKeeps ==
  ASSUME TypeOK, RatesStay, AllowedStay, AnswersStay, NEW q \in Call, NEW v \in Service,
         OfferOK(q, v), offers'[<<q, v>>] = offers[<<q, v>>]
  PROVE  OfferOK(q, v)'
<1>1. SUFFICES ASSUME offers[<<q, v>>] # None PROVE OfferOK(q, v)'
  BY DEF OfferOK
<1>2. /\ calls[q] # None /\ calls[q].pc = "done"
      /\ v \in Offered(q) /\ v \in allowed[q] /\ RateKnown(q)
      /\ offers[<<q, v>>] = NewOffer(q, v)
  BY <1>1 DEF OfferOK
<1>3. SameAnswer(q) /\ calls'[q].pc = "done"
  BY <1>2 DEF AnswersStay, Settled
<1>4. Offered(q)' = Offered(q) /\ NewOffer(q, v)' = NewOffer(q, v)
  BY <1>3, SameQuote DEF SameAnswer
<1>5. RateKnown(q)'
  BY <1>2, <1>3, RateStaysKnown DEF SameAnswer
<1>6. v \in allowed'[q]
  BY <1>2 DEF AllowedStay
<1>. QED  BY <1>2, <1>3, <1>4, <1>5, <1>6 DEF OfferOK, SameAnswer

LEMMA OfferStep ==
  ASSUME TypeOK, RatesSaved, CallInv, OfferInv, Next
  PROVE  OfferInv'
<1>0. /\ RatesStay /\ AllowedStay /\ AnswersStay
      /\ \A q \in Call : \A v \in Service : OfferOK(q, v)
  BY Stays DEF OfferInv
<1>1. SUFFICES \A q \in Call : \A v \in Service : OfferOK(q, v)'
  BY DEF OfferInv
<1>2. ASSUME offers' = offers
      PROVE  \A q \in Call : \A v \in Service : OfferOK(q, v)'
  BY <1>0, <1>2, OfferKeeps
<1>3. ASSUME NEW q \in Call, Answer(q)
      PROVE  \A o \in Call : \A v \in Service : OfferOK(o, v)'
  <2>1. /\ calls[q] # None /\ calls[q].pc = "save"
        /\ calls' = [calls EXCEPT ![q].pc = "done"] /\ allowed' = allowed
    BY <1>3 DEF Answer, At
  <2>2. SameAnswer(q) /\ calls'[q].pc = "done"
    BY <2>1, DoneFacts
  <2>3. /\ Offered(q)' = Offered(q)
        /\ \A v : NewOffer(q, v)' = NewOffer(q, v)
    BY <2>2, SameQuote DEF SameAnswer
  <2>4. offers' = [id \in RateID |->
                     IF id[1] = q /\ id[2] \in Offered(q) THEN NewOffer(q, id[2])
                     ELSE offers[id]]
    BY <1>3 DEF Answer
  <2>5. ASSUME NEW v \in Service, v \in Offered(q)
        PROVE  OfferOK(q, v)'
    <3>1. offers'[<<q, v>>] = NewOffer(q, v)
      BY <2>4, <2>5 DEF RateID
    <3>2. RateKnown(q)'
      BY <1>0, <2>1, <2>2, RateStaysKnown DEF CallInv, CallOK, SameAnswer
    <3>3. v \in Unfiltered(calls[q].filter)
      BY <2>1, <2>5, OfferedFacts
    <3>4. v \in allowed'[q]
      BY <2>1, <3>3 DEF CallInv, CallOK
    <3>5. NewOffer(q, v)' = NewOffer(q, v)
      BY <2>3
    <3>. QED  BY <2>2, <2>3, <2>5, <3>1, <3>2, <3>4, <3>5 DEF OfferOK, SameAnswer
  <2>6. ASSUME NEW o \in Call, NEW v \in Service, ~ (o = q /\ v \in Offered(q))
        PROVE  OfferOK(o, v)'
    <3>1. offers'[<<o, v>>] = offers[<<o, v>>]
      BY <2>4, <2>6 DEF RateID
    <3>. QED  BY <1>0, <3>1, OfferKeeps
  <2>. QED  BY <2>5, <2>6
<1>4. CASE offers' = offers
  BY <1>2, <1>4
<1>. QED
  BY <1>3, <1>4 DEF Next, SaveCurrencyRate, SaveShippingSettings, CleanupPluginData, GetShippingRate,
     LoadShippingSettings, LoadCurrencyRate, GetRates, Save, LateSet, CallFails, Expire,
     CreateLabel

-----------------------------------------------------------------------------
(* What is bought.                                                         *)

\* A value declared in CAD stays, one in the currency of the rate is converted.
LEMMA ValuesBuilt ==
  ASSUME NEW s \in Snapshot, s.customs # None, s.customs.currency \in {"CAD", s.currency},
         NEW i \in DOMAIN s.customs.items
  PROVE  LET u == BuildShipmentCustoms(s).items[i].value
             x == s.customs.items[i]
             v == x.value * IF s.customs.currency = "CAD" THEN 1 ELSE s.rate.n
             w == x.units * IF s.customs.currency = "CAD" THEN 1 ELSE s.rate.d
         IN u.n * w = v * u.d
<1> DEFINE c == s.customs
           rate == IF CustomsCurrency(s) # "CAD" THEN s.rate ELSE [n |-> 1, d |-> 1]
           u == BuildShipmentCustoms(s).items[i].value
<1>1. s.currency \in Money /\ "none" \notin Money
  BY VoiceAssumption DEF Snapshot, Money
<1>2. CustomsCurrency(s) = c.currency
  BY <1>1 DEF CustomsCurrency, DefaultValue, Money
<1>3. u = UnitValue(c.items[i], rate)
  BY DEF BuildShipmentCustoms
<1>4. /\ rate.n = IF c.currency = "CAD" THEN 1 ELSE s.rate.n
      /\ rate.d = IF c.currency = "CAD" THEN 1 ELSE s.rate.d
  BY <1>2
<1> HIDE DEF rate, u
<1>5. u.n = c.items[i].value * rate.n /\ u.d = c.items[i].units * rate.d
  BY <1>3 DEF UnitValue
<1>6. u.n * (c.items[i].units * rate.d) = (c.items[i].value * rate.n) * u.d
  BY <1>5
<1>. QED  BY <1>4, <1>6 DEF u

LEMMA ConversionBuilt ==
  ASSUME NEW s \in Snapshot, s.customs # None, s.customs.currency = s.currency,
         s.currency # "CAD"
  PROVE  LET conversion == BuildShipmentCustoms(s).conversion IN
         Reciprocal(conversion, s.rate)
<1>1. s.currency \in Money /\ "none" \notin Money
  BY VoiceAssumption DEF Snapshot, Money
<1>2. CustomsCurrency(s) = s.currency
  BY <1>1 DEF CustomsCurrency, DefaultValue
<1>3. BuildShipmentCustoms(s).conversion = Rounded(Million * s.rate.d, s.rate.n)
  BY <1>2 DEF BuildShipmentCustoms, ConversionFromCAD
<1>. QED  BY <1>3, Millionths

LEMMA LoadFacts ==
  ASSUME TypeOK, NEW q \in Call, calls[q] # None, NEW v \in Offered(q),
         NEW customs \in Declared
  PROVE  LET s == WithCustoms(NewSnapshot(q, v), customs) IN
         /\ s \in Snapshot
         /\ Counted(s.customs)
         /\ s.service = v
         /\ s.weight = OuncesToKilograms(calls[q].request.weight)
         /\ s.customer = calls[q].request.customer
         /\ s.currency = NewOffer(q, v).currency /\ s.rate = NewOffer(q, v).rate
<1> DEFINE n == NewSnapshot(q, v)
           s == WithCustoms(n, customs)
<1>1. n \in Snapshot /\ Counted(n.customs)
  BY SnapshotType
<1>2. /\ n.service = v /\ n.weight = OuncesToKilograms(calls[q].request.weight)
      /\ n.customer = calls[q].request.customer
      /\ n.currency = NewOffer(q, v).currency /\ n.rate = NewOffer(q, v).rate
  BY DEF NewSnapshot, NewOffer
<1> HIDE DEF n
<1>3. customs \in Customs \union {None}
  BY RatesAssumption
<1>4. CASE customs = None
  BY <1>1, <1>2, <1>4 DEF WithCustoms, n
<1>5. CASE customs # None
  <2>1. SnapshotCustoms(customs) \in Customs \union {None} /\ Counted(SnapshotCustoms(customs))
    BY <1>3, CustomsType
  <2>2. s = [n EXCEPT !.customs = SnapshotCustoms(customs)]
    BY <1>5 DEF WithCustoms
  <2> HIDE DEF s
  <2>3. s \in Snapshot /\ s.customs = SnapshotCustoms(customs)
    BY <1>1, <2>1, <2>2 DEF Snapshot
  <2>4. /\ s.service = n.service /\ s.weight = n.weight /\ s.customer = n.customer
        /\ s.currency = n.currency /\ s.rate = n.rate
    BY <1>1, <2>2 DEF Snapshot
  <2>. QED  BY <1>2, <2>1, <2>3, <2>4 DEF s, n
<1>. QED  BY <1>4, <1>5

LEMMA Bought ==
  ASSUME TypeOK, CallInv, SnapInv, OfferInv, NEW id \in RateID, NEW customs \in Declared,
         NEW d2po \in BOOLEAN, CreateLabel(id, customs, d2po)
  PROVE  SentInv'
<1> DEFINE q == id[1]
           v == id[2]
           s == Load(id, customs)
           o == offers[id]
<1>1. q \in Call /\ v \in Service /\ id = <<q, v>>
  BY Pair
<1>2. /\ o # None /\ snapshots[id] # None
      /\ ValidateShipmentSnapshot(s)
      /\ sent' = [id |-> id, customs |-> s.customs, request |-> BuildShipmentRequest(s, d2po)]
      /\ offers' = offers /\ calls' = calls
  BY DEF CreateLabel
<1>3. calls[q] # None /\ v \in Offered(q) /\ snapshots[id] = NewSnapshot(q, v)
      /\ o = NewOffer(q, v)
  BY <1>1, <1>2 DEF SnapInv, OfferInv, SnapOK, Placed, OfferOK, Settled
<1>4. s = WithCustoms(NewSnapshot(q, v), customs)
  BY <1>3 DEF Load
<1> HIDE DEF q, v, s, o
<1>5. /\ s \in Snapshot /\ Counted(s.customs) /\ s.service = v
      /\ s.weight = OuncesToKilograms(calls[q].request.weight)
      /\ s.customer = calls[q].request.customer
      /\ s.currency = o.currency /\ s.rate = o.rate
  BY <1>1, <1>3, <1>4, LoadFacts
<1> DEFINE b == BuildShipmentRequest(s, d2po)
<1>6. MeetsRequirements(b)
  BY <1>2, <1>5, BuiltMeets
<1>7. /\ b.service = s.service /\ b.weight = s.weight
      /\ SentTo(b.destination, s.customer)
  <2> DEFINE voice == RequiresClientVoice(s.service) \/ d2po
  <2>1. b.service = s.service /\ b.weight = s.weight
        /\ b.destination = DestinationSent(s.customer, voice)
    BY DEF BuildShipmentRequest
  <2>2. voice \in BOOLEAN /\ s.customer \in Address
    BY <1>5 DEF Snapshot
  <2> HIDE DEF b, voice
  <2>. QED  BY <2>1, <2>2, DestinationMeets
<1>8. b.customs # None =>
        b.customs = BuildShipmentCustoms(s) /\ s.customs # None
  BY <1>2 DEF BuildShipmentRequest, ValidateShipmentSnapshot, ValidateCustoms
<1>9. sent'.id = id /\ sent'.customs = s.customs /\ sent'.request = b
  BY <1>2
<1> HIDE DEF b
<1>10. offers'[sent'.id] = o /\ calls'[sent'.id[1]] = calls[q]
  BY <1>2, <1>9 DEF o, q
<1>11. SentMeetsRequirements'
  BY <1>6, <1>9 DEF SentMeetsRequirements
<1>12. ASSUME b.customs # None, s.customs.currency \in {"CAD", o.currency}
       PROVE  ValuedAsOffered(s.customs, o, b.customs.items)
  <2>1. b.customs = BuildShipmentCustoms(s) /\ s.customs # None
        /\ s.customs.currency \in {"CAD", s.currency}
    BY <1>5, <1>8, <1>12
  <2>2. \A i \in DOMAIN s.customs.items :
           LET u == b.customs.items[i].value
               w == s.customs.items[i].units * IF s.customs.currency = "CAD" THEN 1 ELSE o.rate.d
               x == s.customs.items[i].value * IF s.customs.currency = "CAD" THEN 1 ELSE o.rate.n
           IN u.n * w = x * u.d
    BY <1>5, <2>1, ValuesBuilt
  <2>. QED  BY <2>2 DEF ValuedAsOffered
<1>13. ASSUME b.customs # None, s.customs.currency = o.currency, o.currency # "CAD"
       PROVE  Reciprocal(b.customs.conversion, o.rate)
  BY <1>5, <1>8, <1>13, ConversionBuilt
<1>14. BoughtAsQuoted'
  <2>1. sent'.id[1] = q /\ sent'.id[2] = v /\ offers'[sent'.id] = o /\ o # None
        /\ calls'[sent'.id[1]].request = calls[q].request
    BY <1>2, <1>9, <1>10 DEF q, v
  <2>. QED  BY <1>5, <1>7, <1>9, <1>12, <1>13, <2>1 DEF BoughtAsQuoted
<1>15. sent'.id = id /\ offers'[sent'.id] # None
  BY <1>2, <1>9 DEF o
<1>. QED  BY <1>11, <1>14, <1>15 DEF SentInv

LEMMA SentKeeps ==
  ASSUME TypeOK, RatesStay, AnswersStay, OfferInv, SentInv, sent' = sent,
         sent # None => offers'[sent.id] = offers[sent.id]
  PROVE  SentInv'
<1>1. CASE sent = None
  BY <1>1 DEF SentInv, SentMeetsRequirements, BoughtAsQuoted
<1>2. CASE sent # None
  <2> DEFINE q == sent.id[1]
  <2>1. sent.id \in RateID /\ q \in Call /\ sent.id[2] \in Service
        /\ sent.id = <<q, sent.id[2]>> /\ offers[sent.id] # None
    BY <1>2, Pair DEF TypeOK, Sent, SentInv
  <2>2. Settled(q)
    BY <2>1 DEF OfferInv, OfferOK, Settled
  <2>3. calls'[q].request = calls[q].request
    BY <2>1, <2>2 DEF AnswersStay, SameAnswer
  <2>4. offers'[sent.id] = offers[sent.id]
    BY <1>2
  <2>5. BoughtAsQuoted'
    BY <1>2, <2>3, <2>4 DEF SentInv, BoughtAsQuoted
  <2>6. SentMeetsRequirements'
    BY DEF SentInv, SentMeetsRequirements
  <2>. QED  BY <2>1, <2>4, <2>5, <2>6 DEF SentInv
<1>. QED  BY <1>1, <1>2

LEMMA SentStep ==
  ASSUME IInv, Next
  PROVE  SentInv'
<1>0. /\ TypeOK /\ RatesSaved /\ CallInv /\ SnapInv /\ OfferInv /\ SentInv
      /\ RatesStay /\ AnswersStay
  BY Stays DEF IInv
<1>1. CASE sent' = sent /\ offers' = offers
  BY <1>0, <1>1, SentKeeps
<1>2. ASSUME NEW q \in Call, Answer(q)
      PROVE  SentInv'
  <2>1. sent' = sent /\ calls[q].pc = "save"
        /\ offers' = [id \in RateID |->
                        IF id[1] = q /\ id[2] \in Offered(q) THEN NewOffer(q, id[2])
                        ELSE offers[id]]
    BY <1>2 DEF Answer, At
  <2>2. ASSUME sent # None
        PROVE  offers'[sent.id] = offers[sent.id]
    <3>1. sent.id \in RateID /\ offers[sent.id] # None
      BY <1>0, <2>2 DEF TypeOK, Sent, SentInv
    <3>2. sent.id[1] # q
      BY <1>0, <2>1, <3>1, Pair DEF OfferInv, OfferOK
    <3>. QED  BY <2>1, <3>1, <3>2
  <2>. QED  BY <1>0, <2>1, <2>2, SentKeeps
<1>3. ASSUME NEW id \in RateID, NEW customs \in Declared, NEW d2po \in BOOLEAN,
             CreateLabel(id, customs, d2po)
      PROVE  SentInv'
  BY <1>0, <1>3, Bought
<1>. QED
  BY <1>1, <1>2, <1>3 DEF Next, SaveCurrencyRate, SaveShippingSettings, CleanupPluginData, GetShippingRate,
     LoadShippingSettings, LoadCurrencyRate, GetRates, Save, LateSet, CallFails, Expire

-----------------------------------------------------------------------------
(* The theorems.                                                           *)

LEMMA Starts ==
  ASSUME Init
  PROVE  IInv
<1>1. TypeOK
  BY RatesAssumption DEF Init, TypeOK
<1>2. CallInv
  BY DEF Init, CallInv, CallOK
<1>5. RatesSaved
  BY DEF Init, RatesSaved
<1>3. SnapInv /\ OfferInv
  BY DEF Init, SnapInv, OfferInv, SnapOK, Placed, OfferOK, RateID
<1>4. SentInv
  BY DEF Init, SentInv, SentMeetsRequirements, BoughtAsQuoted
<1>. QED  BY <1>1, <1>2, <1>3, <1>4, <1>5 DEF IInv

LEMMA Stuttered ==
  ASSUME IInv, UNCHANGED vars
  PROVE  IInv'
<1>. USE DEF vars
<1>1. TypeOK'
  BY DEF IInv, TypeOK
<1>2. CallInv'
  BY DEF IInv, CallInv, CallOK, Unfiltered, RateKnown, Offered
<1>3. SnapInv'
  <2>1. AnswersStay
    BY DEF AnswersStay, Settled, SameAnswer
  <2>. QED  BY <2>1, SnapKeeps DEF IInv, SnapInv
<1>4. OfferInv'
  BY DEF IInv, OfferInv, OfferOK, Offered, RateKnown, NewOffer, PriceOf
<1>5. SentInv'
  BY DEF IInv, SentInv, SentMeetsRequirements, BoughtAsQuoted
<1>6. RatesSaved'
  BY DEF IInv, RatesSaved
<1>. QED  BY <1>1, <1>2, <1>3, <1>4, <1>5, <1>6 DEF IInv

(* The inductive invariant: rates are saved ones, a snapshot and an offer  *)
(* are those their call makes, and what was sent follows from both.        *)
THEOREM Invariant == Spec => []IInv
<1>1. IInv /\ [Next]_vars => IInv'
  BY TypeStep, SavedStep, CallStep, SnapStep, OfferStep, SentStep, Stuttered DEF IInv
<1>. QED  BY <1>1, Starts, PTL DEF Spec

(* The types of the quotes, the snapshots and the offers.                  *)
THEOREM QuoteTypes == Spec => []TypeOK
<1>1. IInv => TypeOK
  BY DEF IInv
<1>. QED  BY <1>1, Invariant, PTL

(* Only services the settings allowed are offered.                         *)
THEOREM OffersAreEnabled == Spec => []OnlyEnabled
<1>1. IInv => OnlyEnabled
  <2>1. SUFFICES ASSUME IInv, NEW id \in RateID, offers[id] # None
                 PROVE  id[2] \in allowed[id[1]]
    BY DEF OnlyEnabled
  <2>. QED  BY <2>1, Pair DEF IInv, OfferInv, OfferOK
<1>. QED  BY <1>1, Invariant, PTL

(* What is bought is what was quoted, at the rate it was quoted with.      *)
THEOREM PurchasesAsQuoted == Spec => []BoughtAsQuoted
<1>1. IInv => BoughtAsQuoted
  BY DEF IInv, SentInv
<1>. QED  BY <1>1, Invariant, PTL

(* What is sent to Canada Post meets its requirements.                     *)
THEOREM RequestsMeetRequirements == Spec => []SentMeetsRequirements
<1>1. IInv => SentMeetsRequirements
  BY DEF IInv, SentInv
<1>. QED  BY <1>1, Invariant, PTL

\* Within half a cent, if the price fits.
LEMMA ShownFacts ==
  ASSUME NEW cents \in Nat, NEW currency, NEW rate \in Ratio, rate.n > 0,
         currency = "CAD" => rate = One,
         cents * rate.d < (Width - 1) * rate.n
  PROVE  LET twice == 2 * (ShownPrice(cents, currency, rate) * rate.n - cents * rate.d) IN
         -rate.n <= twice /\ twice <= rate.n
<1>1. rate.n \in Nat /\ rate.d \in Nat /\ Width \in Nat /\ Width > 0
  BY RatesAssumption DEF Ratio
<1>2. CASE currency = "CAD"
  <2>1. rate.n = 1 /\ rate.d = 1
    BY <1>2 DEF One
  <2>2. cents < Width
    BY <1>1, <2>1
  <2>3. ShownPrice(cents, currency, rate) = cents
    BY <1>1, <1>2, <2>2 DEF ShownPrice
  <2>. QED  BY <2>1, <2>3
<1>3. CASE currency # "CAD"
  <2>1. cents * rate.d \in Nat
    BY <1>1
  <2>2. ShownPrice(cents, currency, rate) = Rounded(cents * rate.d, rate.n) % Width
    BY <1>3 DEF ShownPrice, ConvertCadToCurrencyCents
  <2>3. ShownPrice(cents, currency, rate) = Rounded(cents * rate.d, rate.n)
    BY <1>1, <2>1, <2>2, FitsFacts
  <2>. QED  BY <1>1, <2>1, <2>3, RoundedFacts
<1>. QED  BY <1>2, <1>3

(* An offer shows the cheapest price, within half a cent, at a saved rate. *)
THEOREM HonestOffers == Spec => []OffersAreHonest
<1>1. IInv => OffersAreHonest
  <2>1. SUFFICES ASSUME IInv, NEW id \in RateID, offers[id] # None
                 PROVE  \E p \in calls[id[1]].prices : Honest(id, p.due)
    BY DEF OffersAreHonest
  <2> DEFINE q == id[1]
             v == id[2]
             o == offers[id]
             cents == PriceOf(q, v)
  <2>2. q \in Call /\ v \in Service /\ id = <<q, v>>
    BY Pair
  <2>3. /\ TypeOK /\ calls[q] # None /\ v \in Offered(q) /\ RateKnown(q)
        /\ o = NewOffer(q, v)
        /\ snapshots[id] # None => snapshots[id] = NewSnapshot(q, v)
    BY <2>1, <2>2 DEF IInv, SnapInv, OfferInv, SnapOK, OfferOK
  <2>4. cents \in Nat /\ Cheapest(calls[q].prices, v, cents)
    BY <2>2, <2>3, OfferedFacts
  <2>5. /\ o.shown = ShownPrice(cents, o.currency, o.rate)
        /\ o.currency = ResolveRequestCurrency(calls[q].request)
        /\ o.rate = calls[q].rate
    BY <2>3 DEF NewOffer
  <2>6. o.rate \in Ratio /\ o.rate.n > 0
    BY <2>2, <2>3, <2>5, QuoteType
  <2>7. /\ o.currency = "CAD" => o.rate = One
        /\ o.currency # "CAD" => <<o.currency, o.rate>> \in saved
    BY <2>3, <2>5 DEF RateKnown
  <2>8. snapshots[id] # None =>
          /\ snapshots[id].price = cents
          /\ snapshots[id].currency = o.currency /\ snapshots[id].rate = o.rate
    BY <2>3, <2>5 DEF NewSnapshot
  <2> HIDE DEF o, cents, v, q
  <2>9. cents * o.rate.d < (Width - 1) * o.rate.n =>
          LET twice == 2 * (o.shown * o.rate.n - cents * o.rate.d) IN
          -o.rate.n <= twice /\ twice <= o.rate.n
    BY <2>4, <2>5, <2>6, <2>7, ShownFacts
  <2>10. Honest(id, cents)
    BY <2>4, <2>7, <2>8, <2>9 DEF Honest, o, q, v
  <2>11. \E p \in calls[q].prices : p.due = cents
    BY <2>4 DEF Cheapest
  <2>. QED  BY <2>10, <2>11 DEF q
<1>. QED  BY <1>1, Invariant, PTL

-----------------------------------------------------------------------------
(* The promise of RateOffers.                                              *)

LEMMA TermsDef ==
  /\ DOMAIN Terms = {id \in RateID : offers[id] # None}
  /\ \A id \in DOMAIN Terms : Terms[id] = [offer |-> offers[id], parcel |-> Quoted(id)]
  BY DEF Terms

\* An offer that was made keeps its terms, whatever becomes of its call.
LEMMA TermsKeep ==
  ASSUME AnswersStay, OfferInv, NEW id \in DOMAIN Terms, offers'[id] = offers[id]
  PROVE  id \in DOMAIN Terms' /\ Terms'[id] = Terms[id]
<1>1. id \in RateID /\ offers[id] # None /\ id[1] \in Call /\ id[2] \in Service
      /\ id = <<id[1], id[2]>>
  BY TermsDef, Pair
<1>2. calls[id[1]] # None /\ calls[id[1]].pc = "done"
  BY <1>1 DEF OfferInv, OfferOK
<1>3. calls'[id[1]].request = calls[id[1]].request
  BY <1>1, <1>2 DEF AnswersStay, Settled, SameAnswer
<1>4. DOMAIN Terms' = {i \in RateID : offers'[i] # None}
  BY DEF Terms
<1>5. id \in DOMAIN Terms'
  BY <1>1, <1>4
<1>6. Terms'[id] = [offer |-> offers'[id], parcel |-> Quoted(id)']
  BY <1>1, <1>4, <1>5 DEF Terms
<1>7. Quoted(id)' = Quoted(id)
  BY <1>3 DEF Quoted
<1>. QED  BY <1>5, <1>6, <1>7, TermsDef

LEMMA TermsStay ==
  ASSUME AnswersStay, OfferInv, offers' = offers
  PROVE  Terms' = Terms
<1>1. DOMAIN Terms' = DOMAIN Terms
  BY DEF Terms
<1>2. \A id \in DOMAIN Terms : Terms'[id] = Terms[id]
  BY TermsKeep
<1>3. /\ Terms = [id \in DOMAIN Terms |-> Terms[id]]
      /\ Terms' = [id \in DOMAIN Terms' |-> Terms'[id]]
  BY DEF Terms
<1>. QED  BY <1>1, <1>2, <1>3

LEMMA OffersOnly ==
  ASSUME AnswersStay, OfferInv, NEW q \in Call, Answer(q)
  PROVE  Promise!Offer
<1>1. /\ calls[q].pc = "save" /\ snapshots' = snapshots /\ sent' = sent
      /\ offers' = [id \in RateID |->
                      IF id[1] = q /\ id[2] \in Offered(q) THEN NewOffer(q, id[2])
                      ELSE offers[id]]
  BY DEF Answer, At
<1>2. ASSUME NEW id \in DOMAIN Terms
      PROVE  offers'[id] = offers[id]
  <2>1. id \in RateID /\ offers[id] # None /\ id[1] \in Call /\ id[2] \in Service
        /\ id = <<id[1], id[2]>>
    BY TermsDef, Pair
  <2>2. calls[id[1]].pc = "done"
    BY <2>1 DEF OfferInv, OfferOK
  <2>. QED  BY <1>1, <2>1, <2>2
<1>3. \A id \in DOMAIN Terms : id \in DOMAIN Terms' /\ Terms'[id] = Terms[id]
  BY <1>2, TermsKeep
<1>4. Standing' = Standing /\ Purchase' = Purchase /\ late' = late
  BY <1>1 DEF Standing, Purchase, Answer
<1>. QED  BY <1>3, <1>4 DEF Promise!Offer

LEMMA SavePrepares ==
  ASSUME TypeOK, SnapInv, AnswersStay, CallInv, OfferInv, NEW q \in Call, NEW v \in Service,
         Save(q, v)
  PROVE  [Promise!Next]_(Promise!vars)
<1> DEFINE id == <<q, v>>
           new == NewSnapshot(q, v)
<1>1. /\ id \in RateID /\ calls[q].pc = "save" /\ calls[q] # None /\ v \in calls[q].left
      /\ offers' = offers /\ sent' = sent
  BY SaveFacts DEF Save, RateID
<1>2. offers[id] = None /\ id \notin DOMAIN Terms
  BY <1>1, TermsDef DEF OfferInv, OfferOK
<1>3. snapshots[id] = None /\ id \notin late
  BY <1>1 DEF SnapInv, SnapOK, Placed
<1>4. id \notin Standing
  BY <1>3 DEF Standing
<1>5. Terms' = Terms /\ Purchase' = Purchase
  BY <1>1, TermsStay DEF Purchase
<1>6. new # None
  <2>1. v \in Offered(q)
    BY <1>1 DEF CallInv, CallOK
  <2>. QED  BY <1>1, <2>1, SnapshotType, NoneAssumption
<1>7. CASE snapshots' = snapshots /\ late' = late
  BY <1>5, <1>7 DEF Standing, Promise!vars
<1>8. CASE snapshots' = [snapshots EXCEPT ![id] = new] /\ late' = late
  <2> HIDE DEF id, new
  <2>1. Standing' = Standing \union {id}
    BY <1>1, <1>6, <1>8 DEF Standing, TypeOK
  <2>2. Promise!Prepare(id)
    BY <1>2, <1>3, <1>4, <1>5, <1>8, <2>1 DEF Promise!Prepare
  <2>. QED  BY <1>1, <2>2 DEF Promise!Next
<1>9. CASE snapshots' = snapshots /\ late' = late \union {id}
  <2> HIDE DEF id, new
  <2>1. Standing' = Standing
    BY <1>9 DEF Standing
  <2>2. Promise!Prepare(id)
    BY <1>2, <1>3, <1>4, <1>5, <1>9, <2>1 DEF Promise!Prepare
  <2>. QED  BY <1>1, <2>2 DEF Promise!Next
<1>. QED  BY <1>7, <1>8, <1>9 DEF Save, RedisSet

LEMMA LateArrives ==
  ASSUME TypeOK, SnapInv, AnswersStay, OfferInv, NEW id \in RateID, LateSet(id)
  PROVE  Promise!Arrive(id)
<1> DEFINE new == NewSnapshot(id[1], id[2])
<1>1. /\ id \in late /\ late' = late \ {id}
      /\ snapshots' = [snapshots EXCEPT ![id] = new]
      /\ offers' = offers /\ sent' = sent
  BY DEF LateSet
<1>2. new # None
  BY <1>1, LateFacts, SnapshotType, NoneAssumption
<1>3. Terms' = Terms /\ Purchase' = Purchase
  BY <1>1, TermsStay DEF Purchase
<1> HIDE DEF new
<1>4. Standing' = Standing \union {id}
  BY <1>1, <1>2 DEF Standing, TypeOK
<1>. QED  BY <1>1, <1>3, <1>4 DEF Promise!Arrive

LEMMA ExpireLapses ==
  ASSUME TypeOK, AnswersStay, OfferInv, NEW id \in RateID, Expire(id)
  PROVE  Promise!Lapse(id)
<1>1. /\ snapshots' = [snapshots EXCEPT ![id] = None]
      /\ offers' = offers /\ sent' = sent /\ late' = late
  BY DEF Expire
<1>2. Terms' = Terms /\ Purchase' = Purchase
  BY <1>1, TermsStay DEF Purchase
<1>3. Standing' = Standing \ {id}
  BY <1>1 DEF Standing, TypeOK
<1>. QED  BY <1>1, <1>2, <1>3 DEF Promise!Lapse

LEMMA LabelBuys ==
  ASSUME TypeOK, CallInv, SnapInv, OfferInv, AnswersStay, NEW id \in RateID,
         NEW customs \in Declared, NEW d2po \in BOOLEAN, CreateLabel(id, customs, d2po)
  PROVE  Promise!Buy(id)
<1> DEFINE request == BuildShipmentRequest(Load(id, customs), d2po)
<1>1. /\ offers[id] # None /\ snapshots[id] # None
      /\ snapshots' = snapshots /\ offers' = offers /\ calls' = calls /\ late' = late
      /\ sent' = [id |-> id, customs |-> Load(id, customs).customs, request |-> request]
  BY DEF CreateLabel
<1> HIDE DEF request
<1>2. Terms' = Terms /\ Standing' = Standing
  BY <1>1, TermsStay DEF Standing
<1>3. sent'.id = id /\ sent'.request = request
  BY <1>1
<1>4. id \in DOMAIN Terms /\ id \in Standing
  BY <1>1, TermsDef DEF Standing
<1>5. sent' # None
  BY SentType
<1>6. BoughtAsQuoted'
  BY Bought DEF SentInv
<1>7. /\ request.service = id[2]
      /\ request.weight = OuncesToKilograms(calls[id[1]].request.weight)
      /\ SentTo(request.destination, calls[id[1]].request.customer)
  BY <1>1, <1>3, <1>5, <1>6 DEF BoughtAsQuoted
<1>8. Quoted(id) = Shipped(request)
  BY <1>7 DEF Quoted, Shipped, SentTo
<1>9. Terms[id].parcel = Quoted(id)
  <2>1. Terms[id] = [offer |-> offers[id], parcel |-> Quoted(id)]
    BY <1>4, TermsDef, Zenon
  <2>. QED  BY <2>1
<1>10. Purchase' = [id |-> id, parcel |-> Shipped(request)]
  BY <1>3, <1>5 DEF Purchase
<1>. QED  BY <1>1, <1>2, <1>4, <1>8, <1>9, <1>10 DEF Promise!Buy

LEMMA OffersStart ==
  ASSUME Init
  PROVE  Promise!Init
<1>1. /\ offers = [id \in RateID |-> None] /\ snapshots = [id \in RateID |-> None]
      /\ sent = None /\ late = {}
  BY DEF Init
<1>2. {id \in RateID : offers[id] # None} = {}
  BY <1>1
<1>3. Terms = [id \in {} |-> {}]
  BY <1>2 DEF Terms
<1>4. Standing = {} /\ Purchase = None
  BY <1>1 DEF Standing, Purchase
<1>. QED  BY <1>1, <1>3, <1>4 DEF Promise!Init

\* Neither the settings nor a call that has not answered shows in the promise.
LEMMA OffersUntouched ==
  ASSUME AnswersStay, OfferInv, snapshots' = snapshots, late' = late, sent' = sent,
         offers' = offers
  PROVE  UNCHANGED Promise!vars
<1>1. Terms' = Terms
  BY TermsStay
<1>2. Standing' = Standing /\ Purchase' = Purchase
  BY DEF Standing, Purchase
<1>. QED  BY <1>1, <1>2 DEF Promise!vars

LEMMA OffersStep ==
  ASSUME IInv, Next
  PROVE  [Promise!Next]_(Promise!vars)
<1>0. /\ TypeOK /\ CallInv /\ SnapInv /\ OfferInv
      /\ AnswersStay
  BY Stays DEF IInv
<1>1. ASSUME NEW q \in Call, Answer(q)
      PROVE  Promise!Next
  BY <1>0, <1>1, OffersOnly DEF Promise!Next
<1>2. ASSUME NEW q \in Call, NEW v \in Service, Save(q, v)
      PROVE  [Promise!Next]_(Promise!vars)
  BY <1>0, <1>2, SavePrepares
<1>3. ASSUME NEW id \in RateID, Expire(id)
      PROVE  Promise!Next
  BY <1>0, <1>3, ExpireLapses DEF Promise!Next
<1>4. ASSUME NEW id \in RateID, NEW customs \in Declared, NEW d2po \in BOOLEAN,
             CreateLabel(id, customs, d2po)
      PROVE  Promise!Next
  BY <1>0, <1>4, LabelBuys DEF Promise!Next
<1>5. CASE snapshots' = snapshots /\ late' = late /\ sent' = sent /\ offers' = offers
  BY <1>0, <1>5, OffersUntouched
<1>6. ASSUME NEW id \in RateID, LateSet(id)
      PROVE  Promise!Next
  BY <1>0, <1>6, LateArrives DEF Promise!Next
<1>. QED
  BY <1>1, <1>2, <1>3, <1>4, <1>5, <1>6 DEF Next, SaveCurrencyRate, SaveShippingSettings,
     CleanupPluginData, GetShippingRate, LoadShippingSettings, LoadCurrencyRate, GetRates,
     CallFails

LEMMA OffersStutter ==
  ASSUME UNCHANGED vars
  PROVE  UNCHANGED Promise!vars
  BY DEF vars, Promise!vars, Terms, Quoted, Standing, Purchase

(* Quotes implement the promise of RateOffers: an offer is made once and   *)
(* keeps its terms, its snapshot is in place or its SET on the way before  *)
(* it is made, it lapses for good, and a label is bought while the         *)
(* snapshot stands, for the parcel that was offered.                       *)
THEOREM QuotesKeepThePromise == Spec => ImplementsOffers
<1>1. Init => Promise!Init
  BY OffersStart
<1>2. IInv /\ [Next]_vars => [Promise!Next]_(Promise!vars)
  BY OffersStep, OffersStutter
<1>. QED  BY <1>1, <1>2, Invariant, PTL DEF Spec, ImplementsOffers, Promise!Spec
=============================================================================
