--------------------------- MODULE PostOfficeCache ---------------------------
(***************************************************************************)
(* The post offices one store has cached, by the postal code they were     *)
(* searched with, and the default postal code of the store.                *)
(*                                                                         *)
(* A search form reads the cache twice, asks Canada Post if both reads     *)
(* find nothing, stores the answer in one transaction and then makes the   *)
(* code the default, each a step of its own.  A failed store is only       *)
(* logged.  Delete and default forms are one statement each.  Meanwhile    *)
(* the label form lists offices to a customer, whose choice comes back as  *)
(* a text that CreateLabel looks up in the cache again.                    *)
(***************************************************************************)
EXTENDS FiniteSets

CONSTANTS
    Code,     \* postal codes, as normalizePostalCode leaves them
    Office,   \* office ids
    Unnamed,  \* the office of an answer that has no id
    Text,     \* location, address and city of an office, as displayed
    Odd,      \* texts that do not survive formatPostOfficeDisplay and back
    Listing,  \* answers Canada Post may give to a search
    Form,     \* search forms that can be in flight at a time
    None      \* no form, no default, no customer

VARIABLES
    cached,   \* client_post_offices: the text of each office of each code
    default,  \* shipping_settings.default_postal_code
    forms,    \* search forms whose session token was consumed
    customer, \* the label form: its next read, or the text that was chosen
    gone,     \* history: codes removed with no search for them in flight
    excused   \* history: codes whose last answer, store or removal left no office

vars == <<cached, default, forms, customer, gone, excused>>

\* Functions from some of the offices of S to their texts.
TextsOf(S) == UNION {[D -> Text] : D \in SUBSET S}
Nothing == [o \in {} |-> None]

Search == [pc : {"lookup", "reread", "ask", "default"}, code : Code]
            \union [pc : {"store"}, code : Code, answer : Listing]
Reader == [pc : {"offices"}, code : Code \union {None}]
Choice == [pc : {"chosen", "missing"}, code : Code \union {None}, text : Text]

ASSUME ListingAssumption ==
    /\ Listing \subseteq TextsOf(Office \union {Unnamed})
    /\ Unnamed \notin Office
    /\ Odd \subseteq Text
    /\ None \notin Code \union Search \union Reader \union Choice

TypeOK ==
    /\ cached \in [Code -> TextsOf(Office)]
    /\ default \in Code \union {None}
    /\ forms \in [Form -> Search \union {None}]
    /\ customer \in Reader \union Choice \union {None}
    /\ gone \subseteq Code
    /\ excused \subseteq Code

Init ==
    /\ cached = [p \in Code |-> Nothing]
    /\ default = None
    /\ forms = [f \in Form |-> None]
    /\ customer = None
    /\ gone = {}
    /\ excused = {}

HasOffices(p) == DOMAIN cached[p] # {}
Searched(p) == \E f \in Form : forms[f] # None /\ forms[f].code = p

\* What readers may rely on: a code is waited for from the read that found it
\* empty to the end of the store, and an answer lists its offices with an id.
Missed ==
    {p \in Code : \E f \in Form :
        forms[f] # None /\ forms[f].pc \in {"ask", "store"} /\ forms[f].code = p}

Named(answer) == [o \in DOMAIN answer \ {Unnamed} |-> answer[o]]

Directory == INSTANCE OfficeDirectory
    WITH Answer <- {Named(answer) : answer \in Listing}, listed <- cached, missed <- Missed

-----------------------------------------------------------------------------
(* The search form.                                                        *)

At(f, pc) == forms[f] # None /\ forms[f].pc = pc
Goto(f, pc) == forms' = [forms EXCEPT ![f] = [pc |-> pc, code |-> forms[f].code]]
End(f) == forms' = [forms EXCEPT ![f] = None]

Excuse(p, table) == IF DOMAIN table[p] = {} THEN excused \union {p} ELSE excused \ {p}

SubmitSearch(f, p) ==
    /\ forms[f] = None
    /\ forms' = [forms EXCEPT ![f] = [pc |-> "lookup", code |-> p]]
    /\ gone' = gone \ {p}
    /\ UNCHANGED <<cached, default, customer, excused>>

GetStoredOfficesByPostalCode(f) ==
    /\ At(f, "lookup")
    /\ Goto(f, IF HasOffices(forms[f].code) THEN "default" ELSE "reread")
    /\ UNCHANGED <<cached, default, customer, gone, excused>>

\* GetOrFetchPostOffices reads the cache once more before it asks.
GetOrFetchPostOffices(f) ==
    /\ At(f, "reread")
    /\ Goto(f, IF HasOffices(forms[f].code) THEN "default" ELSE "ask")
    /\ UNCHANGED <<cached, default, customer, gone, excused>>

\* No office is an answer too, and is not stored.
FindPostOffices(f, answer) ==
    /\ At(f, "ask")
    /\ IF DOMAIN answer = {}
       THEN /\ Goto(f, "default")
            /\ excused' = Excuse(forms[f].code, cached)
       ELSE /\ forms' = [forms EXCEPT ![f] = [pc |-> "store", code |-> forms[f].code,
                                              answer |-> answer]]
            /\ UNCHANGED excused
    /\ UNCHANGED <<cached, default, customer, gone>>

InsertReplacing(old, new) ==            \* mutant: the texts are updated as well
    [o \in (DOMAIN old \union DOMAIN new) \ {Unnamed} |->
        IF o \in DOMAIN new THEN new[o] ELSE old[o]]

InsertUnnamed(old, new) ==              \* mutant: an office without an id is stored
    [o \in DOMAIN old \union DOMAIN new |-> IF o \in DOMAIN old THEN old[o] ELSE new[o]]

\* The rows after the INSERTs of an answer: a row that is there keeps its
\* text (ON DUPLICATE KEY UPDATE touches updated_at only), an office without
\* an id is skipped.
Insert(old, new) ==
    [o \in (DOMAIN old \union DOMAIN new) \ {Unnamed} |->
        IF o \in DOMAIN old THEN old[o] ELSE new[o]]

StoreFailsHalfway(f) ==                 \* mutant: no transaction around the INSERTs
    LET p == forms[f].code IN
    /\ At(f, "store")
    /\ \E D \in SUBSET DOMAIN forms[f].answer :
          cached' = [cached EXCEPT ![p] =
                       Insert(cached[p], [o \in D |-> forms[f].answer[o]])]
    /\ excused' = Excuse(p, cached')
    /\ Goto(f, "default")
    /\ UNCHANGED <<default, customer, gone>>

StoreInDatabase(f) ==
    LET p == forms[f].code IN
    /\ At(f, "store")
    /\ cached' = [cached EXCEPT ![p] = Insert(cached[p], forms[f].answer)]
    /\ excused' = Excuse(p, cached')
    /\ Goto(f, "default")
    /\ UNCHANGED <<default, customer, gone>>

\* The transaction is rolled back and the error only logged.
StoreFails(f) ==
    /\ At(f, "store")
    /\ excused' = Excuse(forms[f].code, cached)
    /\ Goto(f, "default")
    /\ UNCHANGED <<cached, default, customer, gone>>

SaveDefaultPostalCode(f) ==
    /\ At(f, "default")
    /\ default' = forms[f].code
    /\ End(f)
    /\ UNCHANGED <<cached, customer, gone, excused>>

SearchGoesOn(f) ==                      \* mutant: an error of Canada Post is "no offices"
    /\ forms[f] # None
    /\ IF forms[f].pc = "ask" THEN Goto(f, "default") ELSE End(f)
    /\ UNCHANGED <<cached, default, customer, gone, excused>>

\* A read, the call to Canada Post or the saving of the default fails: the
\* form is answered with an error.  So does a crash of the process end it.
SearchFails(f) ==
    /\ forms[f] # None
    /\ End(f)
    /\ UNCHANGED <<cached, default, customer, gone, excused>>

-----------------------------------------------------------------------------
(* The other forms, and the removal of the installation.                   *)

\* What the label form showed of the removed codes no longer stands.
Withdraw(P) ==
    customer' = IF customer \in Choice /\ customer.pc = "chosen" /\ customer.code \in P
                THEN [customer EXCEPT !.code = None]
                ELSE customer

DeleteOne(p) ==                         \* mutant: only one row is deleted
    /\ \E o \in DOMAIN cached[p] :
          cached' = [cached EXCEPT ![p] = [x \in DOMAIN cached[p] \ {o} |-> cached[p][x]]]
    /\ gone' = IF Searched(p) THEN gone ELSE gone \union {p}
    /\ excused' = excused \union {p}
    /\ Withdraw({p})
    /\ UNCHANGED <<default, forms>>

\* The default may be the code that is removed: it stays the default.
DeletePostalCode(p) ==
    /\ cached' = [cached EXCEPT ![p] = Nothing]
    /\ gone' = IF Searched(p) THEN gone ELSE gone \union {p}
    /\ excused' = excused \union {p}
    /\ Withdraw({p})
    /\ UNCHANGED <<default, forms>>

\* Any valid code may be made the default, cached or not.
SubmitDefault(p) ==
    /\ default' = p
    /\ excused' = Excuse(p, cached)
    /\ UNCHANGED <<cached, forms, customer, gone>>

CleanupPluginData ==
    /\ cached' = [p \in Code |-> Nothing]
    /\ default' = None
    /\ gone' = gone \union {p \in Code : ~Searched(p)}
    /\ excused' = Code
    /\ Withdraw(Code)
    /\ UNCHANGED forms

-----------------------------------------------------------------------------
(* The label form lists the offices of the default code, or all of them    *)
(* when there is none or the settings cannot be read.                      *)

ReadDefault ==
    /\ customer = None
    /\ \E p \in {default, None} : customer' = [pc |-> "offices", code |-> p]
    /\ UNCHANGED <<cached, default, forms, gone, excused>>

OfferOffices ==
    /\ customer \in Reader
    /\ \E p \in IF customer.code = None THEN Code ELSE {customer.code} :
          \E o \in DOMAIN cached[p] :
             customer' = [pc |-> "chosen", code |-> p, text |-> cached[p][o]]
    /\ UNCHANGED <<cached, default, forms, gone, excused>>

\* No office is listed, the customer wants none, or the read failed.
OfferNothing ==
    /\ customer \in Reader
    /\ customer' = None
    /\ UNCHANGED <<cached, default, forms, gone, excused>>

\* CreateLabel looks the text up under every code of the store.  The SQL
\* text of a row is the displayed one, except for an odd text.
FindOfficeIDByDisplayText ==
    LET Row == {row \in Code \X Office :
                  row[2] \in DOMAIN cached[row[1]]
                    /\ cached[row[1]][row[2]] = customer.text /\ customer.text \notin Odd}
    IN
    /\ customer \in Choice /\ customer.pc = "chosen"
    /\ customer' = IF Row = {} THEN [customer EXCEPT !.pc = "missing"] ELSE None
    /\ UNCHANGED <<cached, default, forms, gone, excused>>

\* The customer gives up, the database fails, or "office not found" is shown.
EndChoice ==
    /\ customer \in Choice
    /\ customer' = None
    /\ UNCHANGED <<cached, default, forms, gone, excused>>

Next ==
    \/ \E f \in Form :
          \/ \E p \in Code : SubmitSearch(f, p)
          \/ GetStoredOfficesByPostalCode(f)
          \/ GetOrFetchPostOffices(f)
          \/ \E answer \in Listing : FindPostOffices(f, answer)
          \/ StoreInDatabase(f)
          \/ StoreFails(f)
          \/ SaveDefaultPostalCode(f)
          \/ SearchFails(f)
    \/ \E p \in Code : DeletePostalCode(p) \/ SubmitDefault(p)
    \/ CleanupPluginData
    \/ ReadDefault
    \/ OfferOffices
    \/ OfferNothing
    \/ FindOfficeIDByDisplayText
    \/ EndChoice

Spec == Init /\ [][Next]_vars

-----------------------------------------------------------------------------
(* A code that was removed while no search for it was in flight, at any of *)
(* its steps, stays removed until someone searches for it again.  Of a     *)
(* code removed during a search nothing is said: that search may store its *)
(* answer afterwards and bring the offices back.                           *)
GoneStaysGone == \A p \in gone : ~HasOffices(p)

(* A default postal code has offices to offer, unless they were removed,   *)
(* the last answer for it had none, storing them failed, or it was made    *)
(* the default without a search: an error of Canada Post or of a read      *)
(* never makes a code without offices the default.                         *)
DefaultHasOffices == default \in Code \ excused => HasOffices(default)

(* What is cached for a code is never a torn answer: all the offices with  *)
(* an id of some answer are there, however stores, failures, removals and  *)
(* other searches interleave.                                              *)
NoTornList ==
    \A p \in Code : HasOffices(p) =>
        \E answer \in Listing :
            DOMAIN answer \ {Unnamed} # {} /\ DOMAIN answer \ {Unnamed} \subseteq DOMAIN cached[p]

(* An office a customer was offered is found again when the label is       *)
(* bought, unless its code was removed before or its text is odd: no later *)
(* answer for the code rewrites an offered text.                           *)
OfferStands ==
    customer \in Choice /\ customer.pc = "missing"
        => customer.code = None \/ customer.text \in Odd

(* The cache is the directory of OfficeDirectory: a store adds a whole     *)
(* answer and rewrites no text, a removal leaves nothing, and an answer is *)
(* stored only for a code that its search had found empty.                 *)
ImplementsDirectory == Directory!Spec
=============================================================================
