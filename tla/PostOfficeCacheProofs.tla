----------------------- MODULE PostOfficeCacheProofs -----------------------
(***************************************************************************)
(* Proofs about PostOfficeCache, for any number of codes, offices and      *)
(* search forms, and any answers of Canada Post.                           *)
(***************************************************************************)
EXTENDS PostOfficeCache, TLAPS

\* A removed code has no search in flight that could bring it back.
GoneIsUnsearched == \A p \in gone : ~HasOffices(p) /\ ~Searched(p)

\* A search that is about to set the default has offices, or an excuse.
Offered(p) ==
    default = p \/ \E f \in Form : At(f, "default") /\ forms[f].code = p
OfferedHasOffices == \A p \in Code \ excused : Offered(p) => HasOffices(p)

\* The row a customer chose is still cached.
ChosenIsCached ==
    customer \in Choice /\ customer.pc = "chosen" /\ customer.code # None =>
        \E o \in DOMAIN cached[customer.code] : cached[customer.code][o] = customer.text

\* The inductive invariant.
Inv ==
    /\ TypeOK
    /\ GoneIsUnsearched
    /\ OfferedHasOffices
    /\ NoTornList
    /\ ChosenIsCached
    /\ OfferStands

-----------------------------------------------------------------------------
(* Tables of texts.                                                        *)

LEMMA TextsOfDef ==
  ASSUME NEW S, NEW t
  PROVE  t \in TextsOf(S) <=> (DOMAIN t \subseteq S /\ t \in [DOMAIN t -> Text])
  BY DEF TextsOf

LEMMA NothingType == Nothing \in TextsOf(Office) /\ DOMAIN Nothing = {}
  BY TextsOfDef DEF Nothing

LEMMA InsertFacts ==
  ASSUME NEW old \in TextsOf(Office), NEW new \in TextsOf(Office \union {Unnamed})
  PROVE  /\ Insert(old, new) \in TextsOf(Office)
         /\ DOMAIN old \subseteq DOMAIN Insert(old, new)
         /\ DOMAIN new \ {Unnamed} \subseteq DOMAIN Insert(old, new)
         /\ DOMAIN Insert(old, new) = (DOMAIN old \union DOMAIN new) \ {Unnamed}
         /\ \A o \in DOMAIN old : Insert(old, new)[o] = old[o]
<1>1. /\ DOMAIN old \subseteq Office /\ old \in [DOMAIN old -> Text]
      /\ DOMAIN new \subseteq Office \union {Unnamed} /\ new \in [DOMAIN new -> Text]
  BY TextsOfDef
<1>2. Unnamed \notin DOMAIN old
  BY <1>1, ListingAssumption
<1>3. DOMAIN Insert(old, new) = (DOMAIN old \union DOMAIN new) \ {Unnamed}
  BY DEF Insert
<1>4. Insert(old, new) \in [DOMAIN Insert(old, new) -> Text]
  BY <1>1, <1>3 DEF Insert
<1>5. Insert(old, new) \in TextsOf(Office)
  BY <1>1, <1>3, <1>4, TextsOfDef
<1>6. \A o \in DOMAIN old : Insert(old, new)[o] = old[o]
  BY <1>2, <1>3 DEF Insert
<1>. QED  BY <1>2, <1>3, <1>5, <1>6

-----------------------------------------------------------------------------
(* Records.                                                                *)

LEMMA SearchFields ==
  ASSUME TypeOK, NEW f \in Form, forms[f] # None
  PROVE  /\ forms[f] \in Search /\ forms[f].code \in Code
         /\ At(f, "store") => forms[f].answer \in Listing
  BY DEF TypeOK, Search, At

LEMMA NextSearch ==
  ASSUME NEW p \in Code, NEW pc \in {"lookup", "reread", "ask", "default"}
  PROVE  [pc |-> pc, code |-> p] \in Search /\ [pc |-> pc, code |-> p] # None
<1>1. [pc |-> pc, code |-> p] \in Search
  BY DEF Search
<1>. QED  BY <1>1, ListingAssumption

LEMMA NextStore ==
  ASSUME NEW p \in Code, NEW answer \in Listing
  PROVE  /\ [pc |-> "store", code |-> p, answer |-> answer] \in Search
         /\ [pc |-> "store", code |-> p, answer |-> answer] # None
<1>1. [pc |-> "store", code |-> p, answer |-> answer] \in Search
  BY DEF Search
<1>. QED  BY <1>1, ListingAssumption

LEMMA InitInv == Init => Inv
<1> SUFFICES ASSUME Init PROVE Inv
  OBVIOUS
<1>1. None \notin Choice
  BY ListingAssumption
<1>2. TypeOK
  BY NothingType DEF Init, TypeOK
<1>3. GoneIsUnsearched /\ OfferedHasOffices
  BY ListingAssumption DEF Init, GoneIsUnsearched, OfferedHasOffices, Offered, At
<1>4. NoTornList
  BY NothingType DEF Init, NoTornList, HasOffices
<1>5. ChosenIsCached /\ OfferStands
  BY <1>1 DEF Init, ChosenIsCached, OfferStands
<1>. QED
  BY <1>2, <1>3, <1>4, <1>5 DEF Inv

-----------------------------------------------------------------------------
(* Steps of one search form.  What they have in common: the form keeps its *)
(* code, the others keep everything, and rows are only added.              *)

FormSteps(f) ==
    /\ forms' \in [Form -> Search \union {None}]
    /\ \A g \in Form \ {f} : forms'[g] = forms[g]
    /\ forms'[f] # None => forms[f] # None /\ forms'[f].code = forms[f].code
    /\ UNCHANGED <<customer, gone>>

LEMMA GotoSteps ==
  ASSUME TypeOK, NEW f \in Form, forms[f] # None,
         NEW pc \in {"lookup", "reread", "ask", "default"}, Goto(f, pc),
         UNCHANGED <<customer, gone>>
  PROVE  FormSteps(f) /\ forms'[f].pc = pc /\ forms'[f].code = forms[f].code
<1> DEFINE new == [pc |-> pc, code |-> forms[f].code]
<1>1. forms[f].code \in Code
  BY SearchFields
<1>2. new \in Search /\ new # None /\ new.pc = pc /\ new.code = forms[f].code
  BY <1>1, NextSearch
<1>3. forms' = [forms EXCEPT ![f] = new]
  BY DEF Goto
<1> HIDE DEF new
<1>. QED  BY <1>2, <1>3 DEF FormSteps, TypeOK

LEMMA EndSteps ==
  ASSUME TypeOK, NEW f \in Form, End(f), UNCHANGED <<customer, gone>>
  PROVE  FormSteps(f) /\ forms'[f] = None
  BY DEF End, FormSteps, TypeOK

\* A form that goes on without touching the cache.
LEMMA ReadStepInv ==
  ASSUME Inv, NEW f \in Form, FormSteps(f), UNCHANGED cached,
         default' \in Code \union {None}, excused' \subseteq Code,
         \A p \in Code \ excused' :
            /\ p \notin excused \/ HasOffices(p)
            /\ default' = p => HasOffices(p) \/ Offered(p)
            /\ forms'[f] # None /\ forms'[f].pc = "default" /\ forms'[f].code = p =>
                  HasOffices(p) \/ Offered(p)
  PROVE  Inv'
<1> USE DEF Inv, FormSteps
<1>1. TypeOK'
  BY DEF TypeOK
<1>2. GoneIsUnsearched'
  BY DEF GoneIsUnsearched, Searched, HasOffices
<1>3. OfferedHasOffices'
  BY DEF OfferedHasOffices, Offered, At, HasOffices
<1>4. NoTornList' /\ ChosenIsCached' /\ OfferStands'
  BY DEF NoTornList, ChosenIsCached, OfferStands, HasOffices
<1>. QED  BY <1>1, <1>2, <1>3, <1>4

LEMMA SubmitSearchInv ==
  ASSUME Inv, NEW f \in Form, NEW p \in Code, SubmitSearch(f, p)
  PROVE  Inv'
<1> DEFINE new == [pc |-> "lookup", code |-> p]
<1>1. new \in Search /\ new # None /\ new.pc = "lookup" /\ new.code = p
  BY NextSearch
<1>2. forms' = [forms EXCEPT ![f] = new] /\ gone' = gone \ {p}
      /\ UNCHANGED <<cached, default, customer, excused>>
  BY DEF SubmitSearch
<1> HIDE DEF new
<1> USE <1>1, <1>2 DEF Inv
<1>3. TypeOK'
  BY DEF TypeOK
<1>4. GoneIsUnsearched'
  BY DEF GoneIsUnsearched, Searched, HasOffices, TypeOK
<1>5. OfferedHasOffices'
  BY DEF OfferedHasOffices, Offered, At, HasOffices, TypeOK
<1>6. NoTornList' /\ ChosenIsCached' /\ OfferStands'
  BY DEF NoTornList, ChosenIsCached, OfferStands, HasOffices
<1>. QED  BY <1>3, <1>4, <1>5, <1>6

\* The two reads go on to the default only with rows.
LEMMA LookupInv ==
  ASSUME Inv, NEW f \in Form,
         GetStoredOfficesByPostalCode(f) \/ GetOrFetchPostOffices(f)
  PROVE  Inv'
<1> DEFINE p == forms[f].code
<1>1. forms[f] # None /\ UNCHANGED <<cached, default, customer, gone, excused>>
  BY DEF GetStoredOfficesByPostalCode, GetOrFetchPostOffices, At
<1>2. PICK pc \in {"lookup", "reread", "ask", "default"} :
         Goto(f, pc) /\ (pc = "default" => HasOffices(p))
  BY DEF GetStoredOfficesByPostalCode, GetOrFetchPostOffices
<1>3. FormSteps(f) /\ forms'[f].pc = pc /\ forms'[f].code = p
  BY <1>1, <1>2, GotoSteps DEF Inv
<1>4. default' \in Code \union {None} /\ excused' \subseteq Code
  BY <1>1 DEF Inv, TypeOK
<1>. QED
  <2> HIDE DEF p
  <2>. QED  BY <1>1, <1>2, <1>3, <1>4, ReadStepInv DEF Offered

LEMMA FindPostOfficesInv ==
  ASSUME Inv, NEW f \in Form, NEW answer \in Listing, FindPostOffices(f, answer)
  PROVE  Inv'
<1> DEFINE p == forms[f].code
           new == [pc |-> "store", code |-> p, answer |-> answer]
<1>1. forms[f] # None /\ UNCHANGED <<cached, default, customer, gone>>
  BY DEF FindPostOffices, At
<1>2. p \in Code
  BY <1>1, SearchFields DEF Inv
<1>3. CASE DOMAIN answer = {}
  <2>1. Goto(f, "default") /\ excused' = Excuse(p, cached)
    BY <1>3 DEF FindPostOffices
  <2>2. FormSteps(f) /\ forms'[f].code = p
    BY <1>1, <2>1, GotoSteps DEF Inv
  <2>3. /\ excused' \subseteq Code /\ default' \in Code \union {None}
        /\ p \notin excused' => HasOffices(p)
        /\ \A q \in Code \ excused' : q \notin excused \/ HasOffices(q)
    BY <1>1, <1>2, <2>1 DEF Excuse, HasOffices, Inv, TypeOK
  <2> HIDE DEF p
  <2>. QED  BY <1>1, <2>2, <2>3, ReadStepInv DEF Offered
<1>4. CASE DOMAIN answer # {}
  <2>1. new \in Search /\ new # None /\ new.pc = "store" /\ new.code = p
    BY <1>2, NextStore
  <2>2. forms' = [forms EXCEPT ![f] = new] /\ UNCHANGED excused
    BY <1>4 DEF FindPostOffices
  <2> HIDE DEF new
  <2>3. FormSteps(f) /\ forms'[f] = new
    BY <1>1, <2>1, <2>2 DEF FormSteps, Inv, TypeOK
  <2>4. default' \in Code \union {None} /\ excused' \subseteq Code
    BY <1>1, <2>2 DEF Inv, TypeOK
  <2> HIDE DEF p
  <2>. QED  BY <1>1, <2>1, <2>2, <2>3, <2>4, ReadStepInv DEF Offered
<1>. QED  BY <1>3, <1>4

LEMMA StoreFailsInv ==
  ASSUME Inv, NEW f \in Form, StoreFails(f)
  PROVE  Inv'
<1> DEFINE p == forms[f].code
<1>1. /\ forms[f] # None /\ UNCHANGED <<cached, default, customer, gone>>
      /\ Goto(f, "default") /\ excused' = Excuse(p, cached)
  BY DEF StoreFails, At
<1>2. p \in Code
  BY <1>1, SearchFields DEF Inv
<1>3. FormSteps(f) /\ forms'[f].code = p
  BY <1>1, GotoSteps DEF Inv
<1>4. /\ excused' \subseteq Code /\ default' \in Code \union {None}
      /\ p \notin excused' => HasOffices(p)
      /\ \A q \in Code \ excused' : q \notin excused \/ HasOffices(q)
  BY <1>1, <1>2 DEF Excuse, HasOffices, Inv, TypeOK
<1> HIDE DEF p
<1>. QED  BY <1>1, <1>3, <1>4, ReadStepInv DEF Offered

LEMMA EndInv ==
  ASSUME Inv, NEW f \in Form, SaveDefaultPostalCode(f) \/ SearchFails(f)
  PROVE  Inv'
<1>1. forms[f] # None /\ End(f) /\ UNCHANGED <<cached, customer, gone, excused>>
  BY DEF SaveDefaultPostalCode, SearchFails, At
<1>2. FormSteps(f) /\ forms'[f] = None
  BY <1>1, EndSteps DEF Inv
<1>3. \/ default' = default
      \/ /\ default' = forms[f].code
         /\ Offered(forms[f].code)
  BY DEF At, SaveDefaultPostalCode, SearchFails, Offered
<1>4. default' \in Code \union {None} /\ excused' \subseteq Code
  BY <1>1, <1>3, SearchFields DEF Inv, TypeOK
<1>5. \A p \in Code : default' = p => Offered(p)
  BY <1>3 DEF Offered
<1>. QED  BY <1>1, <1>2, <1>4, <1>5, ReadStepInv

\* The transaction adds the whole answer and changes no row.
LEMMA StoreInDatabaseInv ==
  ASSUME Inv, NEW f \in Form, StoreInDatabase(f)
  PROVE  Inv'
<1> DEFINE p == forms[f].code
           answer == forms[f].answer
           rows == Insert(cached[p], answer)
<1>1. /\ forms[f] # None /\ At(f, "store") /\ UNCHANGED <<default, customer, gone>>
      /\ Goto(f, "default") /\ excused' = Excuse(p, cached')
      /\ cached' = [cached EXCEPT ![p] = rows]
  BY DEF StoreInDatabase, At
<1>2. p \in Code /\ answer \in Listing
  BY <1>1, SearchFields DEF Inv
<1>3. FormSteps(f) /\ forms'[f].code = p /\ forms'[f].pc = "default"
  BY <1>1, GotoSteps DEF Inv
<1>4. cached[p] \in TextsOf(Office) /\ answer \in TextsOf(Office \union {Unnamed})
  BY <1>2, ListingAssumption DEF Inv, TypeOK
<1>5. /\ rows \in TextsOf(Office)
      /\ DOMAIN cached[p] \subseteq DOMAIN rows
      /\ DOMAIN answer \ {Unnamed} \subseteq DOMAIN rows
      /\ DOMAIN rows = (DOMAIN cached[p] \union DOMAIN answer) \ {Unnamed}
      /\ \A o \in DOMAIN cached[p] : rows[o] = cached[p][o]
  BY <1>4, InsertFacts
<1>6. /\ cached' \in [Code -> TextsOf(Office)]
      /\ cached'[p] = rows
      /\ \A q \in Code : q # p => cached'[q] = cached[q]
  BY <1>1, <1>2, <1>5 DEF Inv, TypeOK
<1>7. Unnamed \notin DOMAIN cached[p]
  BY <1>4, TextsOfDef, ListingAssumption
<1>8. /\ excused' \subseteq Code
      /\ p \notin excused' => DOMAIN rows # {}
      /\ \A q \in Code : q # p => (q \in excused' <=> q \in excused)
  BY <1>1, <1>2, <1>6 DEF Excuse, Inv, TypeOK
<1>9. Searched(p)
  BY <1>1 DEF Searched
<1> HIDE DEF p, answer, rows
<1> USE DEF Inv, FormSteps
<1>10. TypeOK'
  BY <1>1, <1>3, <1>6, <1>8 DEF TypeOK
<1>11. GoneIsUnsearched'
  BY <1>3, <1>6, <1>9 DEF GoneIsUnsearched, Searched, HasOffices, TypeOK
<1>12. OfferedHasOffices'
  <2> SUFFICES ASSUME NEW q \in Code, q \notin excused', Offered(q)'
               PROVE  HasOffices(q)'
    BY DEF OfferedHasOffices
  <2>1. CASE q = p
    BY <1>6, <1>8, <2>1 DEF HasOffices
  <2>2. CASE q # p
    <3>1. Offered(q)
      BY <1>1, <1>3, <2>2 DEF Offered, At
    <3>. QED  BY <1>6, <1>8, <2>2, <3>1 DEF OfferedHasOffices, HasOffices
  <2>. QED  BY <2>1, <2>2
<1>13. NoTornList'
  <2> SUFFICES ASSUME NEW q \in Code, HasOffices(q)'
               PROVE  \E a \in Listing : DOMAIN a \ {Unnamed} # {}
                         /\ DOMAIN a \ {Unnamed} \subseteq DOMAIN cached'[q]
    BY DEF NoTornList
  <2>1. CASE q = p /\ DOMAIN answer \ {Unnamed} # {}
    BY <1>2, <1>5, <1>6, <2>1
  <2>2. CASE q = p /\ DOMAIN answer \ {Unnamed} = {}
    <3>1. DOMAIN rows = DOMAIN cached[p]
      BY <1>5, <1>7, <2>2
    <3>. QED  BY <1>6, <2>2, <3>1 DEF NoTornList, HasOffices
  <2>3. CASE q # p
    BY <1>6, <2>3 DEF NoTornList, HasOffices
  <2>. QED  BY <2>1, <2>2, <2>3
<1>14. ChosenIsCached' /\ OfferStands'
  <2>1. customer \in Choice => customer.code \in Code \union {None}
    BY DEF Choice
  <2>. QED
    BY <1>3, <1>5, <1>6, <2>1 DEF ChosenIsCached, OfferStands
<1>. QED  BY <1>10, <1>11, <1>12, <1>13, <1>14

-----------------------------------------------------------------------------
(* Removals.                                                               *)

LEMMA WithdrawFacts ==
  ASSUME TypeOK, NEW P \in SUBSET Code, Withdraw(P)
  PROVE  /\ customer' \in Reader \union Choice \union {None}
         /\ customer' \in Choice => customer \in Choice
               /\ customer'.pc = customer.pc /\ customer'.text = customer.text
         /\ customer' \in Choice =>
               \/ customer'.code = None
               \/ /\ customer'.code = customer.code
                  /\ customer.pc = "chosen" => customer.code \notin P
<1>1. CASE customer \in Choice /\ customer.pc = "chosen" /\ customer.code \in P
  <2>1. customer' = [customer EXCEPT !.code = None]
    BY <1>1 DEF Withdraw
  <2>2. customer' \in Choice /\ customer'.pc = customer.pc
        /\ customer'.text = customer.text /\ customer'.code = None
    BY <1>1, <2>1 DEF Choice
  <2>. QED  BY <1>1, <2>2
<1>2. CASE ~(customer \in Choice /\ customer.pc = "chosen" /\ customer.code \in P)
  BY <1>2 DEF Withdraw, TypeOK
<1>. QED  BY <1>1, <1>2

\* Removing the codes P, whatever becomes of the default.
LEMMA RemoveInv ==
  ASSUME Inv, NEW P \in SUBSET Code,
         cached' = [p \in Code |-> IF p \in P THEN Nothing ELSE cached[p]],
         gone' = gone \union {p \in P : ~Searched(p)},
         excused' = excused \union P,
         Withdraw(P),
         default' = default \/ default' = None,
         UNCHANGED forms
  PROVE  Inv'
<1> USE DEF Inv
<1>1. /\ \A p \in P : cached'[p] = Nothing
      /\ \A p \in Code \ P : cached'[p] = cached[p]
      /\ cached' \in [Code -> TextsOf(Office)]
  BY NothingType DEF TypeOK
<1>2. None \notin Code
  BY ListingAssumption
<1>3. TypeOK'
  BY <1>1, WithdrawFacts DEF TypeOK
<1>4. GoneIsUnsearched'
  BY <1>1, NothingType DEF GoneIsUnsearched, Searched, HasOffices, TypeOK
<1>5. OfferedHasOffices'
  BY <1>1, <1>2 DEF OfferedHasOffices, Offered, At, HasOffices
<1>6. NoTornList'
  BY <1>1, NothingType DEF NoTornList, HasOffices
<1>7. ChosenIsCached' /\ OfferStands'
  <2>1. customer \in Choice => customer.code \in Code \union {None}
    BY DEF Choice
  <2>. QED
    BY <1>1, <2>1, WithdrawFacts DEF ChosenIsCached, OfferStands
<1>. QED  BY <1>3, <1>4, <1>5, <1>6, <1>7

LEMMA DeletePostalCodeInv ==
  ASSUME Inv, NEW p \in Code, DeletePostalCode(p)
  PROVE  Inv'
<1>1. cached' = [q \in Code |-> IF q \in {p} THEN Nothing ELSE cached[q]]
  BY DEF DeletePostalCode, Inv, TypeOK
<1>2. gone' = gone \union {q \in {p} : ~Searched(q)}
  BY DEF DeletePostalCode
<1>. QED
  BY <1>1, <1>2, RemoveInv DEF DeletePostalCode

LEMMA CleanupInv ==
  ASSUME Inv, CleanupPluginData
  PROVE  Inv'
<1>1. cached' = [q \in Code |-> IF q \in Code THEN Nothing ELSE cached[q]]
  BY DEF CleanupPluginData
<1>2. excused' = excused \union Code
  BY DEF CleanupPluginData, Inv, TypeOK
<1>. QED
  BY <1>1, <1>2, RemoveInv DEF CleanupPluginData

LEMMA SubmitDefaultInv ==
  ASSUME Inv, NEW p \in Code, SubmitDefault(p)
  PROVE  Inv'
<1> USE DEF Inv, SubmitDefault
<1>1. /\ excused' \subseteq Code
      /\ p \notin excused' => HasOffices(p)
      /\ \A q \in Code : q # p => (q \in excused' <=> q \in excused)
  BY DEF Excuse, HasOffices, TypeOK
<1>2. TypeOK'
  BY <1>1 DEF TypeOK
<1>3. OfferedHasOffices'
  BY <1>1 DEF OfferedHasOffices, Offered, At, HasOffices
<1>4. GoneIsUnsearched' /\ NoTornList' /\ ChosenIsCached' /\ OfferStands'
  BY DEF GoneIsUnsearched, Searched, NoTornList, ChosenIsCached, OfferStands, HasOffices
<1>. QED  BY <1>2, <1>3, <1>4

-----------------------------------------------------------------------------
(* The label form.                                                         *)

LEMMA CustomerInv ==
  ASSUME Inv, UNCHANGED <<cached, default, forms, gone, excused>>,
         customer' \in Reader \union Choice \union {None},
         ChosenIsCached', OfferStands'
  PROVE  Inv'
<1> USE DEF Inv
<1>1. TypeOK'
  BY DEF TypeOK
<1>2. GoneIsUnsearched' /\ OfferedHasOffices' /\ NoTornList'
  BY DEF GoneIsUnsearched, Searched, OfferedHasOffices, Offered, At, NoTornList, HasOffices
<1>. QED  BY <1>1, <1>2

LEMMA ReaderIsNoChoice == Reader \intersect Choice = {}
<1>1. \A x \in Reader : x.pc = "offices"
  BY DEF Reader
<1>2. \A x \in Choice : x.pc # "offices"
  BY DEF Choice
<1>. QED  BY <1>1, <1>2

LEMMA ReadDefaultInv ==
  ASSUME Inv, ReadDefault
  PROVE  Inv'
<1>1. PICK p \in {default, None} : customer' = [pc |-> "offices", code |-> p]
  BY DEF ReadDefault
<1>2. customer' \in Reader
  BY <1>1 DEF Reader, Inv, TypeOK
<1>3. ChosenIsCached' /\ OfferStands'
  BY <1>2, ReaderIsNoChoice DEF ChosenIsCached, OfferStands
<1>. QED  BY <1>2, <1>3, CustomerInv DEF ReadDefault

LEMMA OfferOfficesInv ==
  ASSUME Inv, OfferOffices
  PROVE  Inv'
<1>1. PICK p \in Code : \E o \in DOMAIN cached[p] :
         customer' = [pc |-> "chosen", code |-> p, text |-> cached[p][o]]
  BY DEF OfferOffices, Reader
<1>2. PICK o \in DOMAIN cached[p] :
         customer' = [pc |-> "chosen", code |-> p, text |-> cached[p][o]]
  BY <1>1
<1>3. cached[p][o] \in Text
  BY TextsOfDef DEF Inv, TypeOK
<1>4. customer' \in Choice /\ customer'.pc = "chosen" /\ customer'.code = p
      /\ customer'.text = cached[p][o]
  BY <1>2, <1>3 DEF Choice
<1>5. UNCHANGED <<cached, default, forms, gone, excused>>
  BY DEF OfferOffices
<1>6. ChosenIsCached' /\ OfferStands'
  BY <1>4, <1>5 DEF ChosenIsCached, OfferStands
<1>. QED  BY <1>4, <1>5, <1>6, CustomerInv

LEMMA FindOfficeInv ==
  ASSUME Inv, FindOfficeIDByDisplayText
  PROVE  Inv'
<1> DEFINE Row == {row \in Code \X Office :
                     row[2] \in DOMAIN cached[row[1]]
                       /\ cached[row[1]][row[2]] = customer.text /\ customer.text \notin Odd}
<1>1. /\ customer \in Choice /\ customer.pc = "chosen"
      /\ customer' = IF Row = {} THEN [customer EXCEPT !.pc = "missing"] ELSE None
      /\ UNCHANGED <<cached, default, forms, gone, excused>>
  BY DEF FindOfficeIDByDisplayText
<1>2. CASE Row = {}
  <2>1. /\ customer' \in Choice /\ customer'.pc = "missing"
        /\ customer'.code = customer.code /\ customer'.text = customer.text
    BY <1>1, <1>2 DEF Choice
  <2>2. customer.code \in Code \union {None}
    BY <1>1 DEF Choice
  <2>3. ASSUME customer.code # None, customer.text \notin Odd
        PROVE  FALSE
    <3>1. PICK o \in DOMAIN cached[customer.code] : cached[customer.code][o] = customer.text
      BY <1>1, <2>3 DEF Inv, ChosenIsCached
    <3>2. o \in Office
      BY <2>2, <2>3, TextsOfDef DEF Inv, TypeOK
    <3>3. <<customer.code, o>> \in Row
      BY <2>2, <2>3, <3>1, <3>2
    <3>. QED  BY <1>2, <3>3
  <2>4. ChosenIsCached' /\ OfferStands'
    BY <2>1, <2>3 DEF ChosenIsCached, OfferStands
  <2>. QED  BY <1>1, <2>1, <2>4, CustomerInv
<1>3. CASE Row # {}
  <2>1. customer' = None
    BY <1>1, <1>3
  <2>2. ChosenIsCached' /\ OfferStands'
    BY <2>1, ListingAssumption DEF ChosenIsCached, OfferStands
  <2>. QED  BY <1>1, <2>1, <2>2, CustomerInv
<1>. QED  BY <1>2, <1>3

LEMMA EndChoiceInv ==
  ASSUME Inv, OfferNothing \/ EndChoice
  PROVE  Inv'
<1>1. customer' = None /\ UNCHANGED <<cached, default, forms, gone, excused>>
  BY DEF OfferNothing, EndChoice
<1>2. ChosenIsCached' /\ OfferStands'
  BY <1>1, ListingAssumption DEF ChosenIsCached, OfferStands
<1>. QED  BY <1>1, <1>2, CustomerInv

-----------------------------------------------------------------------------

LEMMA NextInv == Inv /\ [Next]_vars => Inv'
<1> SUFFICES ASSUME Inv, [Next]_vars PROVE Inv'
  OBVIOUS
<1>1. CASE UNCHANGED vars
  BY <1>1
  DEF vars, Inv, TypeOK, GoneIsUnsearched, Searched, OfferedHasOffices, Offered, At,
      NoTornList, ChosenIsCached, OfferStands, HasOffices
<1>2. CASE \E f \in Form :
              \/ \E p \in Code : SubmitSearch(f, p)
              \/ GetStoredOfficesByPostalCode(f)
              \/ GetOrFetchPostOffices(f)
              \/ \E answer \in Listing : FindPostOffices(f, answer)
              \/ StoreInDatabase(f)
              \/ StoreFails(f)
              \/ SaveDefaultPostalCode(f)
              \/ SearchFails(f)
  BY <1>2, SubmitSearchInv, LookupInv, FindPostOfficesInv, StoreInDatabaseInv,
     StoreFailsInv, EndInv
<1>3. CASE \E p \in Code : DeletePostalCode(p) \/ SubmitDefault(p)
  BY <1>3, DeletePostalCodeInv, SubmitDefaultInv
<1>4. CASE CleanupPluginData \/ ReadDefault \/ OfferOffices \/ OfferNothing
              \/ FindOfficeIDByDisplayText \/ EndChoice
  BY <1>4, CleanupInv, ReadDefaultInv, OfferOfficesInv, FindOfficeInv, EndChoiceInv
<1>. QED  BY <1>1, <1>2, <1>3, <1>4 DEF Next

LEMMA InvAlways == Spec => []Inv
  BY InitInv, NextInv, PTL DEF Spec

(* The cache holds named offices only, and the forms and the history have  *)
(* their types.                                                            *)
THEOREM PostOfficeTypes == Spec => []TypeOK
  BY InvAlways, PTL DEF Inv

(* The removal of a code is undone only by a search that was in flight, or *)
(* by a later one.                                                         *)
THEOREM RemovedCodesStayGone == Spec => []GoneStaysGone
<1>1. Inv => GoneStaysGone
  BY DEF Inv, GoneIsUnsearched, GoneStaysGone
<1>. QED  BY <1>1, InvAlways, PTL

(* A default without offices has one of the four excuses.                  *)
THEOREM DefaultsHaveOffices == Spec => []DefaultHasOffices
<1>1. Inv => DefaultHasOffices
  BY DEF Inv, OfferedHasOffices, Offered, DefaultHasOffices
<1>. QED  BY <1>1, InvAlways, PTL

(* Failures and concurrent searches never leave half an answer.            *)
THEOREM ListsAreWhole == Spec => []NoTornList
  BY InvAlways, PTL DEF Inv

(* An offered office is found again when the label is bought.              *)
THEOREM OffersStand == Spec => []OfferStands
  BY InvAlways, PTL DEF Inv

-----------------------------------------------------------------------------
(* The cache is a directory.  Every step of a form is one of the directory *)
(* or none, after what it does to the codes that are waited for.           *)

Waiting(f) == forms[f] # None /\ forms[f].pc \in {"ask", "store"}

LEMMA MissedDef ==
  ASSUME NEW p
  PROVE  p \in Missed <=> p \in Code /\ \E f \in Form : Waiting(f) /\ forms[f].code = p
  BY DEF Missed, Waiting

LEMMA MissedSteps ==
  ASSUME TypeOK, NEW f \in Form, forms[f] # None, FormSteps(f)
  PROVE  /\ Waiting(f)' /\ ~ Waiting(f) => Missed' = Missed \union {forms[f].code}
         /\ ~ (Waiting(f)') => Missed' \in {Missed, Missed \ {forms[f].code}}
         /\ Waiting(f)' /\ Waiting(f) => Missed' = Missed
         /\ ~ (Waiting(f)') /\ ~ Waiting(f) => Missed' = Missed
<1>1. forms[f].code \in Code
  BY SearchFields
<1>2. /\ \A g \in Form \ {f} : (Waiting(g)' <=> Waiting(g)) /\ forms'[g] = forms[g]
      /\ Waiting(f)' => forms'[f].code = forms[f].code
  BY DEF FormSteps, Waiting
<1>3. ASSUME NEW q
      PROVE  q \in Missed' <=> q \in Code /\ \E g \in Form : Waiting(g)' /\ forms'[g].code = q
  BY DEF Missed, Waiting
<1>4. ASSUME NEW q
      PROVE  q \in Missed' <=>
                \/ q \in Code /\ \E g \in Form \ {f} : Waiting(g) /\ forms[g].code = q
                \/ Waiting(f)' /\ q = forms[f].code
  BY <1>1, <1>2, <1>3
<1>5. ASSUME NEW q
      PROVE  q \in Missed <=>
                \/ q \in Code /\ \E g \in Form \ {f} : Waiting(g) /\ forms[g].code = q
                \/ Waiting(f) /\ q = forms[f].code
  BY <1>1, MissedDef
<1> DEFINE Rest(q) == q \in Code /\ \E g \in Form \ {f} : Waiting(g) /\ forms[g].code = q
<1>6. \A q : q \in Missed' <=> Rest(q) \/ (Waiting(f)' /\ q = forms[f].code)
  BY <1>4
<1>7. \A q : q \in Missed <=> Rest(q) \/ (Waiting(f) /\ q = forms[f].code)
  BY <1>5
<1> DEFINE was == Waiting(f)
           will == Waiting(f)'
<1> HIDE DEF Rest, was, will
<1>8. /\ \A q : q \in Missed' <=> Rest(q) \/ (will /\ q = forms[f].code)
      /\ \A q : q \in Missed <=> Rest(q) \/ (was /\ q = forms[f].code)
  BY <1>6, <1>7 DEF was, will
<1>9. /\ will /\ ~ was => Missed' = Missed \union {forms[f].code}
      /\ will /\ was => Missed' = Missed
      /\ ~ will /\ ~ was => Missed' = Missed
  BY <1>8
<1>10. ~ will /\ was => Missed' = Missed \/ Missed' = Missed \ {forms[f].code}
  <2>1. CASE Rest(forms[f].code)
    BY <1>8, <2>1
  <2>2. CASE ~ Rest(forms[f].code)
    BY <1>8, <2>2
  <2>. QED  BY <2>1, <2>2
<1>. QED  BY <1>9, <1>10 DEF was, will

LEMMA NoOfficesIsEmpty ==
  ASSUME NEW t \in TextsOf(Office), DOMAIN t = {}
  PROVE  t = Directory!Empty
  BY TextsOfDef DEF Directory!Empty

LEMMA InsertIsPublished ==
  ASSUME NEW old \in TextsOf(Office), NEW new
  PROVE  Insert(old, new) =
            [o \in DOMAIN old \union DOMAIN Named(new) |->
               IF o \in DOMAIN old THEN old[o] ELSE Named(new)[o]]
<1>1. Unnamed \notin DOMAIN old
  BY TextsOfDef, ListingAssumption
<1>2. DOMAIN Named(new) = DOMAIN new \ {Unnamed}
      /\ \A o \in DOMAIN new \ {Unnamed} : Named(new)[o] = new[o]
  BY DEF Named
<1>3. (DOMAIN old \union DOMAIN new) \ {Unnamed} = DOMAIN old \union DOMAIN Named(new)
  BY <1>1, <1>2
<1>. QED  BY <1>2, <1>3 DEF Insert

LEMMA DirectoryInit == Init => Directory!Init
<1> SUFFICES ASSUME Init PROVE Directory!Init
  OBVIOUS
<1>1. Nothing = Directory!Empty
  BY NothingType, NoOfficesIsEmpty
<1>2. Missed = {}
  BY MissedDef DEF Init, Waiting
<1>. QED  BY <1>1, <1>2 DEF Init, Directory!Init

\* A form that ends its wait without a store gives up, or others wait on.
LEMMA EndsWait ==
  ASSUME TypeOK, NEW f \in Form, forms[f] # None, FormSteps(f), ~ (Waiting(f)'),
         UNCHANGED cached
  PROVE  [Directory!Next]_(Directory!vars)
<1>1. forms[f].code \in Code
  BY SearchFields
<1>2. Missed' = Missed \/ Missed' = Missed \ {forms[f].code}
  BY MissedSteps
<1>. QED
  BY <1>1, <1>2 DEF Directory!Next, Directory!GiveUp, Directory!vars

LEMMA SearchStepsMap ==
  ASSUME TypeOK, NEW f \in Form,
         \/ \E p \in Code : SubmitSearch(f, p)
         \/ GetStoredOfficesByPostalCode(f)
         \/ GetOrFetchPostOffices(f)
         \/ \E answer \in Listing : FindPostOffices(f, answer)
         \/ StoreFails(f)
         \/ SaveDefaultPostalCode(f)
         \/ SearchFails(f)
  PROVE  [Directory!Next]_(Directory!vars)
<1>1. ASSUME NEW p \in Code, SubmitSearch(f, p)
      PROVE  [Directory!Next]_(Directory!vars)
  <2>1. forms[f] = None /\ forms'[f].pc = "lookup" /\ UNCHANGED cached
        /\ \A g \in Form \ {f} : forms'[g] = forms[g]
    BY <1>1 DEF SubmitSearch, TypeOK
  <2>2. \A g \in Form : /\ Waiting(g)' <=> Waiting(g)
                        /\ Waiting(g) => forms'[g] = forms[g]
    BY <2>1 DEF Waiting
  <2>3. ASSUME NEW q
        PROVE  q \in Missed' <=> q \in Missed
    <3>1. q \in Missed' <=> q \in Code /\ \E g \in Form : Waiting(g)' /\ forms'[g].code = q
      BY DEF Missed, Waiting
    <3>. QED  BY <2>2, <3>1, MissedDef
  <2>4. Missed' = Missed
    BY <2>3
  <2>. QED  BY <2>1, <2>4 DEF Directory!vars
<1>2. CASE GetStoredOfficesByPostalCode(f)
  <2>1. /\ forms[f] # None /\ forms[f].pc = "lookup" /\ UNCHANGED <<cached, customer, gone>>
        /\ \E pc \in {"default", "reread"} : Goto(f, pc)
    BY <1>2 DEF GetStoredOfficesByPostalCode, At
  <2>2. FormSteps(f) /\ ~ (Waiting(f)')
    BY <2>1, GotoSteps DEF Waiting
  <2>. QED  BY <2>1, <2>2, EndsWait
<1>3. CASE GetOrFetchPostOffices(f)
  <2> DEFINE p == forms[f].code
  <2>1. forms[f] # None /\ forms[f].pc = "reread" /\ UNCHANGED <<cached, customer, gone>>
        /\ p \in Code
    BY <1>3, SearchFields DEF GetOrFetchPostOffices, At
  <2>2. CASE HasOffices(p)
    <3>1. Goto(f, "default")
      BY <1>3, <2>2 DEF GetOrFetchPostOffices
    <3>2. FormSteps(f) /\ ~ (Waiting(f)')
      BY <2>1, <3>1, GotoSteps DEF Waiting
    <3>. QED  BY <2>1, <3>2, EndsWait
  <2>3. CASE ~ HasOffices(p)
    <3>1. Goto(f, "ask")
      BY <1>3, <2>3 DEF GetOrFetchPostOffices
    <3>2. FormSteps(f) /\ forms'[f].pc = "ask" /\ forms'[f].code = p
      BY <2>1, <3>1, GotoSteps
    <3>3. forms'[f] # None
      BY <2>1, <3>1, NextSearch DEF Goto, TypeOK
    <3>4. Missed' = Missed \union {p}
      BY <2>1, <3>2, <3>3, MissedSteps DEF Waiting
    <3>5. cached[p] = Directory!Empty
      BY <2>1, <2>3, NoOfficesIsEmpty DEF HasOffices, TypeOK
    <3>6. Directory!Miss(p)
      BY <2>1, <3>4, <3>5 DEF Directory!Miss
    <3>. QED  BY <2>1, <3>6 DEF Directory!Next
  <2>. QED  BY <2>2, <2>3
<1>4. ASSUME NEW answer \in Listing, FindPostOffices(f, answer)
      PROVE  [Directory!Next]_(Directory!vars)
  <2> DEFINE p == forms[f].code
             new == [pc |-> "store", code |-> p, answer |-> answer]
  <2>1. forms[f] # None /\ forms[f].pc = "ask" /\ UNCHANGED <<cached, customer, gone>>
        /\ p \in Code
    BY <1>4, SearchFields DEF FindPostOffices, At
  <2>2. CASE DOMAIN answer = {}
    <3>1. Goto(f, "default")
      BY <1>4, <2>2 DEF FindPostOffices
    <3>2. FormSteps(f) /\ ~ (Waiting(f)')
      BY <2>1, <3>1, GotoSteps DEF Waiting
    <3>. QED  BY <2>1, <3>2, EndsWait
  <2>3. CASE DOMAIN answer # {}
    <3>1. new \in Search /\ new # None /\ new.pc = "store" /\ new.code = p
      BY <2>1, NextStore
    <3>2. forms' = [forms EXCEPT ![f] = new]
      BY <1>4, <2>3 DEF FindPostOffices
    <3> HIDE DEF new
    <3>3. FormSteps(f) /\ forms'[f] = new
      BY <2>1, <3>1, <3>2 DEF FormSteps, TypeOK
    <3>4. Missed' = Missed
      BY <2>1, <3>1, <3>3, MissedSteps DEF Waiting
    <3>. QED  BY <2>1, <3>4 DEF Directory!vars
  <2>. QED  BY <2>2, <2>3
<1>5. CASE StoreFails(f)
  <2>1. forms[f] # None /\ Goto(f, "default") /\ UNCHANGED <<cached, customer, gone>>
    BY <1>5 DEF StoreFails, At
  <2>2. FormSteps(f) /\ ~ (Waiting(f)')
    BY <2>1, GotoSteps DEF Waiting
  <2>. QED  BY <2>1, <2>2, EndsWait
<1>6. CASE SaveDefaultPostalCode(f) \/ SearchFails(f)
  <2>1. forms[f] # None /\ End(f) /\ UNCHANGED <<cached, customer, gone>>
    BY <1>6 DEF SaveDefaultPostalCode, SearchFails, At
  <2>2. FormSteps(f) /\ ~ (Waiting(f)')
    BY <2>1, EndSteps DEF Waiting
  <2>. QED  BY <2>1, <2>2, EndsWait
<1>. QED  BY <1>1, <1>2, <1>3, <1>4, <1>5, <1>6

\* The code was found empty by this form, and is waited for to this step.
LEMMA StoreIsPublish ==
  ASSUME TypeOK, NEW f \in Form, StoreInDatabase(f)
  PROVE  Directory!Next
<1> DEFINE p == forms[f].code
           answer == forms[f].answer
<1>1. /\ forms[f] # None /\ forms[f].pc = "store" /\ UNCHANGED <<customer, gone>>
      /\ Goto(f, "default") /\ cached' = [cached EXCEPT ![p] = Insert(cached[p], answer)]
  BY DEF StoreInDatabase, At
<1>2. p \in Code /\ answer \in Listing
  BY <1>1, SearchFields DEF At
<1>3. FormSteps(f) /\ ~ (Waiting(f)')
  BY <1>1, GotoSteps DEF Waiting
<1>4. Missed' \in {Missed, Missed \ {p}}
  BY <1>1, <1>3, MissedSteps
<1>5. p \in Missed
  BY <1>1, <1>2, MissedDef DEF Waiting
<1>6. cached[p] \in TextsOf(Office)
  BY <1>2 DEF TypeOK
<1> HIDE DEF p, answer
<1>7. Directory!Publish(p, Named(answer))
  BY <1>1, <1>4, <1>5, <1>6, InsertIsPublished DEF Directory!Publish
<1>. QED  BY <1>2, <1>7 DEF Directory!Next

LEMMA RemovalIsWithdraw ==
  ASSUME TypeOK, NEW P \in SUBSET Code, UNCHANGED forms,
         cached' = [p \in Code |-> IF p \in P THEN Nothing ELSE cached[p]]
  PROVE  Directory!Next
<1>1. Missed' = Missed
  BY DEF Missed
<1>2. Nothing = Directory!Empty
  BY NothingType, NoOfficesIsEmpty
<1>. QED  BY <1>1, <1>2 DEF Directory!Next, Directory!Withdraw

LEMMA StepsMap ==
  ASSUME TypeOK, [Next]_vars
  PROVE  [Directory!Next]_(Directory!vars)
<1>1. CASE UNCHANGED <<cached, forms>>
  BY <1>1 DEF Missed, Directory!vars
<1>2. CASE \E f \in Form :
              \/ \E p \in Code : SubmitSearch(f, p)
              \/ GetStoredOfficesByPostalCode(f)
              \/ GetOrFetchPostOffices(f)
              \/ \E answer \in Listing : FindPostOffices(f, answer)
              \/ StoreInDatabase(f)
              \/ StoreFails(f)
              \/ SaveDefaultPostalCode(f)
              \/ SearchFails(f)
  BY <1>2, SearchStepsMap, StoreIsPublish
<1>3. ASSUME NEW p \in Code, DeletePostalCode(p)
      PROVE  Directory!Next
  <2>1. cached' = [q \in Code |-> IF q \in {p} THEN Nothing ELSE cached[q]]
    BY <1>3 DEF DeletePostalCode, TypeOK
  <2>. QED  BY <1>3, <2>1, RemovalIsWithdraw DEF DeletePostalCode
<1>4. CASE CleanupPluginData
  <2>1. cached' = [q \in Code |-> IF q \in Code THEN Nothing ELSE cached[q]]
    BY <1>4 DEF CleanupPluginData
  <2>. QED  BY <1>4, <2>1, RemovalIsWithdraw DEF CleanupPluginData
<1>5. CASE \/ \E p \in Code : SubmitDefault(p)
           \/ ReadDefault \/ OfferOffices \/ OfferNothing
           \/ FindOfficeIDByDisplayText \/ EndChoice
           \/ UNCHANGED vars
  BY <1>1, <1>5 DEF SubmitDefault, ReadDefault, OfferOffices, OfferNothing,
     FindOfficeIDByDisplayText, EndChoice, vars
<1>. QED  BY <1>2, <1>3, <1>4, <1>5 DEF Next

(* For any forms, codes and answers, the cache implements the directory:   *)
(* whole answers, texts that stay, and no store for a code that was not    *)
(* found empty.                                                            *)
THEOREM CacheImplementsDirectory == Spec => ImplementsDirectory
<1>1. Inv => TypeOK
  BY DEF Inv
<1>. QED
  BY <1>1, DirectoryInit, StepsMap, InvAlways, PTL DEF Spec, ImplementsDirectory, Directory!Spec
=============================================================================
