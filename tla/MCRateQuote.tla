----------------------------- MODULE MCRateQuote -----------------------------
(* One call with one of a few requests, two services and two currencies.   *)
(* Prices are shown in 4 bits, so that one conversion overflows.           *)
EXTENDS RateQuote

CONSTANTS q1

\* A text in the form that is checked, and one that is not.
Plain(is, says) == [says |-> says, is |-> is, plain |-> TRUE]
Raw(is, says) == [says |-> says, is |-> is, plain |-> FALSE]
Blank == Plain("none", "")

Sender ==
    [name |-> Blank, names |-> Plain("ok", "S"), company |-> Blank,
     street1 |-> Raw("ok", "S"), street2 |-> Plain("long", "s"), city |-> Plain("ok", "S"),
     provinceCode |-> Plain("two", "S"), province |-> Plain("word", "s"),
     zip |-> Raw("CA", "S"), phone |-> Raw("ok", "S"), countryCode |-> Plain("CA", "S")]
Canadian ==
    [name |-> Blank, names |-> Plain("ok", "R"), company |-> Raw("ok", "r"),
     street1 |-> Plain("ok", "R"), street2 |-> Blank, city |-> Raw("ok", "R"),
     provinceCode |-> Plain("two", "R"), province |-> Plain("word", "r"),
     zip |-> Raw("CA", "R"), phone |-> Plain("ok", "R"), countryCode |-> Plain("CA", "R")]
American == [Canadian EXCEPT !.zip = Raw("US", "R"), !.countryCode = Raw("US", "R"),
                             !.name = Raw("ok", "r")]
French == [Canadian EXCEPT !.zip = Blank, !.city = Blank, !.countryCode = Raw("FR", "R"),
                           !.provinceCode = Blank, !.phone = Blank]

Toys(currency) ==
    [currency |-> currency,
     items |-> <<[description |-> "none", code |-> "ok", origin |-> "ok",
                  units |-> 0, weight |-> 30, value |-> 40],
                 [description |-> "ok", code |-> "none", origin |-> "ok",
                  units |-> 2, weight |-> 30, value |-> 10]>>]

Domestic == [known |-> TRUE, header |-> "none", parcel |-> "none", insured |-> 0,
             decimal |-> None, insurance |-> "none",
             customs |-> None, weight |-> 100, shipper |-> Sender, customer |-> Canadian]

MCRequests == {
    [Domestic EXCEPT !.header = "EUR", !.customer.phone = Plain("bad", "R")],
    [Domestic EXCEPT !.known = FALSE, !.weight = 1, !.shipper.provinceCode = Blank],
    [Domestic EXCEPT !.customer = American, !.parcel = "USD", !.customs = Toys("USD")],
    [Domestic EXCEPT !.customer = American, !.insurance = "CAD", !.insured = 500,
                     !.customs = Toys("USD")],
    [Domestic EXCEPT !.customer = French, !.customs = Toys("EUR"), !.weight = 90],
    [Domestic EXCEPT !.customer = French, !.insurance = "CAD", !.decimal = 0,
                     !.customs = Toys("EUR")]}

MCRates == {[n |-> 3, d |-> 2], [n |-> 1, d |-> 4]}

MCAnswers == {
    {[service |-> "DOM", due |-> 5], [service |-> "DOM", due |-> 3], [service |-> "USA", due |-> 4]},
    {[service |-> "USA", due |-> 2], [service |-> "none", due |-> 1]}}

MCDeclared == {None, Toys("EUR"), Toys("CAD")}
=============================================================================
