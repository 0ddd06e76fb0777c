# Canada Post plugin: verification project

TLA+ modules, TLC configurations and TLAPS proofs for the Go program under
`src/`: a plugin that lets stores of the Lexmodo platform quote, buy and refund
Canada Post shipping labels.

Check a model with `tlc -workers 2 -config <cfg> <MC module>.tla`, a proof
module with `tlapm <module>.tla`. `PROJECT.json` lists the runs with their
properties, the source lines each definition stands for, a mutant of the code
for each property, the hazards and the theorems.

## The system

One process (`cmd/server/main.go`) runs an HTTP server for the store's admin
and a gRPC server for the platform. Both share one MySQL database; the rate
snapshots are in Redis, the label PDFs on disk, the session tokens in memory.
Requests are handled concurrently and nothing but the token table is guarded
by a mutex of the program; the database serialises single statements, and two
operations use a transaction (uninstall, storing post offices).

| Part | State it keeps | Operations | Talks to |
|---|---|---|---|
| Session tokens (`protocol/http/app.go`) | `App.tokens`, in memory, under `App.mu` | create, validate, consume | callback, settings page, uninstall |
| OAuth and installation (`protocol/http/handlers.go`, `uninstall_handler.go`, `database/oauth.go`, `service/oauth.go`, `jwt.go`, `plugin_uninstall.go`) | `oauth_state`, `plugin_oauth` | callback with a JWT or a code, redirect to OAuth, uninstall with cleanup | Lexmodo (token exchange, admin gRPC), session tokens |
| Settings page (`handlers.go`, `database/store.go`) | `shipping_settings`, `currency_rates` | five forms, paged views | session tokens, post offices |
| Rate quotes (`get_shipping_rate.go`, `shipping_service.go`) | none | quote, filter by service, convert currency | Canada Post, settings, snapshots |
| Rate snapshots (`rate_snapshot_store.go`) | Redis keys with 30 minutes to live | save, load | Redis |
| Label creation and refund (`create_label.go`, `refund_shipment.go`, `refund_label.go`) | PDFs, `chosen_shipping_rates`, `tracking_numbers`, `label_records` | `CreateLabel`, `RefundShipment` | snapshots, Canada Post, disk, database, orders service |
| Canada Post client (`canada_post_client.go`) | none | rates, shipment, artifact, refund, 20 s timeout | Canada Post |
| Option pipeline (`label_options.go`, `canada_post_options.go`) | none | parse, validate, merge options | quotes, labels |
| Post office cache (`post_office_*.go`) | `client_post_offices` | search, store, page, delete | Canada Post, settings page |
| Admin methods sync (`admin_shipping_methods.go`) | the store's shipping methods, at Lexmodo | list, create or rename what is missing | callback, Lexmodo |
| Middleware (`middleware/`) | none | authentication, client address, timing | every gRPC call |

### What is hard

* Handlers interleave between any two of their database or remote calls: two
  clicks on "create label", a form saved during an uninstall, two logins.
* `CreateLabel` has six steps that change something, in four places, with no
  transaction and no retry; it can fail, or the process can die, between any
  two, and Canada Post may act although its answer never arrives.
* Identifiers decide what is overwritten: `label_records` is inserted under a
  label id that the request may choose, the other rows are upserts by invoice,
  and the invoice may come from the snapshot or from the request.
* Session tokens are chained: each saved form spends one and gets the next.
* Snapshots and tokens expire while they are being used.
* A quote reads settings and exchange rates that the settings page changes
  meanwhile; each of its snapshots is saved, or not, by itself, and the rates
  are offered all the same. The label bought later must go by what was shown.
* The checks of a shipment and the request that is built choose among the same
  fields by separate chains of fallbacks.
* Post offices are fetched, stored, made the default, removed and picked by
  handlers that know nothing of each other.
* `oauth_state` and `plugin_oauth` hold one row a store, which concurrent
  logins and an uninstall share.

### What makes each part correct

* Session tokens: a token is spent at most once, by its store, in time; a login
  never becomes two sessions, whatever is retried or fails.
* Installation: after an uninstall the plugin is gone, and is back only if the
  admin is sent to Lexmodo again.
* Labels: every row is about the shipment, label, rate and invoice it claims;
  what was paid for is recorded unless something failed; PDFs are whole.
* Refunds: only a recorded shipment is refunded, once, by its own link.
* Options: no combination Canada Post forbids reaches it.
* Post offices: a postal code deleted while nobody searches for it stays
  deleted; a list is whole; the
  default one has offices; an office that was offered is found again.
* Method sync: running it again adds no duplicate, and success means an entry.
* Quotes: the cheapest price is shown, converted to the nearest cent at a saved
  rate, and only enabled services show.
* Shipments: what is sent is what was quoted, to where it was quoted, and meets
  the requirements.

## Modules

| Module | What it is |
|---|---|
| `OneTimeTokens` | abstract: a token is handed to one store and accepted at most once, in time, for that store |
| `SessionTokens` | the token table and the handlers that use it; implements `OneTimeTokens` |
| `SessionTokensProofs` | its proofs |
| `PluginSessions` | `PluginLifecycle` of one store over the `SessionTokens` of all stores; implements `PluginLifecycle` |
| `PluginSessionsProofs` | its proofs, with the theorems of both parts instantiated |
| `ShipmentLedger` | abstract: a set of shipments that were made and a write-once ledger of labels |
| `LabelLifecycle` | quote, `CreateLabel`, `RefundShipment`, expiry, faults, crashes; implements `ShipmentLedger` |
| `LabelLifecycleProofs` | its proofs |
| `PluginLifecycle` | one store installs, uses and uninstalls the plugin |
| `PluginLifecycleProofs` | its proofs |
| `ShippingOptions` | the options of one shipment from the quote to Canada Post |
| `ShippingOptionsProofs` | its proofs |
| `AdminMethodSync` | the entry "Canada Post" among the shipping methods of a store |
| `AdminMethodSyncProofs` | its proofs |
| `OfficeDirectory` | abstract: lists of offices that grow by whole answers, on behalf of someone who waits, and are withdrawn whole |
| `PostOfficeCache` | the cached post offices of a store, its default postal code, and a customer who picks an office; implements `OfficeDirectory` |
| `PostOfficeCacheProofs` | its proofs |
| `ShipmentRequest` | operators: from the snapshot of a rate to the shipment request, with the checks between |
| `RateOffers` | abstract: offers made once, with terms that stay, that lapse for good and can be bought while they stand; what they stand on may come late |
| `RateQuote` | `GetShippingRate` and the shipments bought from its quotes; extends `ShipmentRequest`, implements `RateOffers` |
| `RateQuoteProofs` | proofs about both |
| `MC...` | the instances TLC checks |

Operators commented as *mutant* are not part of the specifications. Each is a
variant of the definition it precedes with a plausible bug, and its property
fails when it is put in the place of that definition.

### SessionTokens

`tokens` is `App.tokens`; `now` is the clock; `posts` holds the settings forms
between `consumeSessionToken` and their answer, the one window in which a
handler holds no token. `ConsumeSessionToken`, `Accepts` (validate) and
`CreateSessionToken` are the three methods, each one step because each holds
`App.mu`; `Refuse` is the branch of consume that may delete an entry. The other
actions are the handlers: `Login` (callback), `ViewSettings`, `SubmitSettings`,
`AnswerSaved`, `AnswerError`, `Uninstall`, and `Restart`. A fresh token is one
never drawn before: it has 32 random bytes. `owner`, `issued`, `root` and
`spends` are history; `spends` keeps the stores each token was accepted for, and
in `OneTimeTokens` that can only be the holder, so a form or an uninstall accepted
for another store is no step of it.

### LabelLifecycle

The stored state is `snapshots` (Redis), `pdf` (disk), `chosen`, `tracking`,
`records` (the three tables) and `cp`, `refunded` (Canada Post). A call in
flight is a record with the step it takes next: `ship`, `artifact`, `pdf`,
`chosen`, `tracking`, `record`, in the order of `CreateLabel`. The actions
carry the names of the functions they model; `...Fails` are their error paths.
A failed call to Canada Post may have created the shipment. A failed write of a
PDF may leave a torn file, as may a crash. The three row writes ignore their
errors, as the code does. A request that is refused before it touches anything
is no step. The options, the customs data and the texts of addresses are data
that no property here tells apart; a shipment is identified with its refund
link and its PDF.

### PluginLifecycle

`state`, `grant` and `rows` are what the database keeps of one store:
its row of `oauth_state`, its row of `plugin_oauth`, and which of its other
tables have rows. `callbacks` are the OAuth callbacks in flight, by the call
they make next: `exchange` (with Lexmodo), `delete` (the state), `insert` (the
access token), `sync` (the shipping methods, then mint a session token), or
`ask` (save a state and show the authorization page). `posts` are the forms in
flight, by what they write next; `removals` the uninstall requests past the
token check. A session token is `live` or not: `SessionTokens` has the detail.
`LoseSessions` takes any set of them at once, as the clock does. `Cleanup` is
the committed transaction.
A database call that reports an error is taken to have had no effect. The
remote half of an uninstall may fail without consequence here: the code says
that the local cleanup must go on (`uninstall_handler.go:82`).

### PluginSessions

The two modules above meet here. `PluginLifecycle` follows one store and says of
a session token that it is live; `SessionTokens` has the table with the stores
that share it. `live` becomes `Accepted`: the tokens `consumeSessionToken`
would accept for the store now. A step of a handler that uses the table
(`MintSession`, `SubmitForm`, `AnswerForm`, `FormFails`, `HandleUninstall`,
`Restart`) is a step of both modules, one that does not is a step of the first,
and requests of other stores, refusals and the clock are steps of the table
alone. `owner`, `root` and `early` are histories of the two parts, `older`
collects the logins that an uninstall finds.

`ImplementsPlugin` says that with the real table the installation still is that
of `PluginLifecycle`: what is proved there about abstract sessions holds of the
tokens. `NoNewSession` can only be said of both together: an uninstall leaves
the table alone, so tokens and forms that mint their successors outlive it, but
every session of the store then goes back to a login from before the cleanup, or
of a callback that was in flight during it.

### ShippingOptions

A quote and one label request for it. The state is the `snapshot`, as far as it
decides options, and what was `quoted` and `sent`. A form is a function from
eight fields to a few values: an amount is none, good, above the limit or bad;
a post office is none, named, or asked for and not named. The operators carry
the sense of the functions they model and combine as the handlers do:
`GetShippingRate` checks (`WellFormed`, `RulesAllow`) and quotes
(`RateOptions`); `CreateLabel` merges (`MergeOptionsMaps`), checks again,
builds (`CreateLabelOptions`, `SnapshotOptions`), checks the list
(`OptionsAllowed`) and adds the default (`MergeShipmentOptions`). Lists of
options are sets, since both builders drop a repeated code.

### AdminMethodSync

`methods` is what Lexmodo has for the store; `syncs` says for each sync its next
call (`list`, `rename`, `create`), the form of authorization it tries, the method
it is about to rename and the codes it has left. `List` decides between
"there is one", rename and create on one answer; `CreateFails` goes to the next
code and `NextAttempt` to the next authorization. Any call may be refused, or be
carried out and lose its answer; `Abort` is a login that goes away; `Edit` is the
owner. How Lexmodo treats duplicates is not in this repository, so `Create` may
succeed or be told "already exists" alike.

### PostOfficeCache

`cached` is the table `client_post_offices` of one store: by postal code, the
display text of each office. `default` is the column of `shipping_settings`.
A search form goes through `lookup` (the handler reads the cache), `reread`
(`GetOrFetchPostOffices` reads it once more), `ask` (Canada Post), `store` (one
transaction: all of an answer or nothing, and the error is only logged) and
`default`. `DeletePostalCode`, `SubmitDefault` and `CleanupPluginData` are the
other writers. `customer` is the way of an office through the label form: the
default code is read, the offices are read and one is chosen by its text, and
`FindOfficeIDByDisplayText` looks the text up when the label is bought. The
display of an office and its reversal are modelled by which texts survive them:
those of `Odd` do not (a " [" in the address, missing spaces at an empty part).
`gone` and `excused` are history.

`OfficeDirectory` is what a reader of the cache may rely on. `missed` are the
codes a search found empty and has not stored or given up yet (forms at `ask` or
`store`); only for them an answer is published. The second read of
`GetOrFetchPostOffices` is what makes this true.

### ShipmentRequest and RateQuote

`ShipmentRequest` has the operators between a `Snapshot` and the request sent.
A text of an address is `Written`: what it `says`, the class its normal form
(trimmed; a country in upper case; a Canadian postal code in upper case without
blanks) has in the checks, and whether it came `plain`, that is in that form. A
class is missing, good or too long; a postal code is one of Canada, of the United
States, another or too long. The checks look at the class alone. What is sent is
the text: trimmed, so plain, where the code trims (`TrimSpace`,
`SanitizeAddressLine`), and as it came elsewhere.
Numbers are exact where the code has floats: money is in cents, an exchange
rate a fraction, a weight a number of tenths of an ounce that is rounded to
hundredths of a kilogram, the conversion sent a number of millionths (six
decimals). `ValidateShipmentSnapshot` is the conjunction of the checks; of a
refusal only the fact matters. `BuildShipmentRequest` is what is built without
looking at the checks again.

In `RateQuote` a call of `GetShippingRate` is at `settings`, `currency`,
`prices`, `save` or `done`; each of the reads, the call to Canada Post, each
`Save` of a snapshot and the answer are steps of their own. `RedisSet` may fail
without effect, lose its reply, or be given up on with the command on its way:
then the rate id is `late`, and `LateSet` has Redis execute it at any later time,
before or after the answer, or never. A failed `Save` is only logged. A rate id is
random in the code; here it is the call and the service it was made for.
`CreateLabel` loads the snapshot, lays the customs information of the request
over it, checks it and builds the request; a refusal is no step. What becomes
of the shipment is `LabelLifecycle`'s, and its options are `ShippingOptions`'s.
`offers`, `saved` and `allowed` are history.

`RateOffers` is the promise to the customer: the `terms` of an offer are its
price, its service, weight, city, postal code and country; an offer is `standing`
while its snapshot is there, and what is `bought` is the parcel of the terms.
Redis may lose a snapshot, never have it, or have it only after the offer was
answered, if its SET was given up on before (`coming`). What `ImplementsOffers`
excludes is that any other snapshot appears under an offer already made, that one
comes back after it was gone, that terms change when calls and settings do, and
that a label ships another parcel; that a snapshot which comes late agrees with
its offer is in `OffersAreHonest`. The snapshots of a call are sent before its
answer: doing that in the background (the mutant `AnswerEarly`) breaks the
promise.

`BoughtAsQuoted` compares the whole destination of the shipment with that of the
request for rates (`SentTo`). `SentMeetsRequirements` is as strong as the code:
lines, phones and the name and company of the recipient meet the requirements as
they are sent; the name and company of the sender, cities, provinces, postal codes
and countries only in their normal form, up to blanks and letter case.

## Runs

| Run | Instance | States | Shows |
|---|---|---|---|
| `session_tokens` | 2 stores, 3 tokens, 2 forms in flight, TTL 1, clock to 3 | 26 thousand | type, `SingleSession`, `SpentOnce`, `SessionKeepsStore`; the table implements `OneTimeTokens` |
| `labels` | 1 rate, 2 invoices, 2 labels, 2 shipments, 2 calls, 1 refund | 1.1 million | type, `RecordsMatchShipments`, `OwnLabelIsWhole`, `NoFaultNoOrphan`, `RefundsAreRecorded`, `RowsFollowQuote`; `label_records` implements the ledger |
| `label_liveness` | 1 rate, 1 invoice, 1 label, 2 shipments, 2 calls, no symmetry | 0.1 million | `CallsEnd`, `PaidIsRecorded` |
| `plugin_sessions` | 2 stores, 2 tokens, 2 forms of which 1 of the store, 1 state, 1 callback, 1 uninstall, TTL 0, clock to 1 | 0.27 million | `NoNewSession`; the installation over the real table implements `PluginLifecycle` |
| `plugin_lifecycle` | 3 states, 2 sessions, 2 callbacks, 1 form, 1 uninstall | 0.6 million | type, `QuietIsClean`, `ReinstallIsAsked` |
| `shipping_options` | quotes with 2 of 8 fields filled in, label requests that change 2, all signatures, 2 destinations | 32 thousand | type, `SentIsLegal`, `OneWayBack`, `QuotedIsSent`, `ChecksAgree` |
| `admin_methods` | 2 methods, 2 syncs, 2 authorizations, 2 codes, 1 edit | 0.25 million | type, `SingleEntry`, `SuccessHasEntry`, `SyncsAdvance`, `SyncsEnd` |
| `post_offices` | 2 codes, 2 search forms, 2 offices, 5 answers | 73 thousand | type, `GoneStaysGone`, `DefaultHasOffices`, `OfferStands`; the cache implements `OfficeDirectory` |
| `quotes` | 1 call with one of 6 requests, 2 services, 2 currencies, 2 rates, 2 answers, prices of 4 bits | 0.4 million | type, `OffersAreHonest`, `OnlyEnabled`, `BoughtAsQuoted`, `SentMeetsRequirements`; quotes and labels implement `RateOffers` |
| `label_success` | as `labels`, smaller | violated | "creates a shipment and persists" does not hold |
| `plugin_removed` | one of each | violated | uninstall leaves configuration of a form in flight |
| `quote_conversion` | as `quotes` | violated | the conversion that is sent is a rate of the customs currency |

### Why the bounds are enough

Two calls or forms are what an interleaving needs: the state they share is a
row or an entry that either writes whole, and no step waits for a third. Three
tokens are a login, its next one and another login; a clock to 3 with a TTL
of 1 lets each of them expire and be presented afterwards. Two labels and two
shipments give a label id drawn and one named, and a shipment recorded and one
lost. Two invoices let a request name another one than
its rate was quoted for. In
`plugin_lifecycle` three states let an authorization page be shown before an
uninstall, another one after it, and one be in the hands of a callback. In `plugin_sessions` two
tokens are a login and the next one of its chain, or the logins of two stores;
with a TTL of 0 a token is accepted until the clock ticks, which it does once, so
that several expire in one step. Two
fields filled in and two changed make forms of four, as many as any rule
relates (cash on delivery to a post office: amount, office, e-mail, method); the
rest of what the rules read is not a field and takes all its values. Two
methods are one to keep and one to add or rename; two authorizations and two
codes make each retry happen once. Two syncs overlap at any
of their calls, and one edit may fall between any two.
In `post_offices` the answers include one that swaps the texts of two offices,
an empty one and offices without an id, so that a second answer can contradict
what a customer was shown; two searches, a delete and a customer are as many as
its properties relate. In `quotes` one call is enough: calls share nothing but
the settings, and those change at every step. Its requests go to Canada, the
United States and France, name the currency in the header, the parcel, the
insurance or the customs information, and have a missing province, a bad phone,
a long address line, customs weights just above the parcel, an insured amount in
cents or as a text that is zero, and a parcel that rounds to nothing. Names,
lines, cities, postal codes and countries come in the form that is checked and in
another; the texts of the sender, of the recipient and of the fields that a
fallback skips say different things, so a mixture would be seen. Widths of 32 bits need prices TLC would not enumerate;
with 4 bits one conversion wraps and the others do not.
`shipping_options` does not check for deadlock: its
behaviour is a quote and one label, and then ends. The
theorems below remove the bounds for all safety properties, the width included.

### Fairness

`label_liveness` assumes weak fairness of the steps of each
`CreateLabel` and `RefundShipment` in flight. A handler runs in its own
goroutine and waits for no other: the client of Canada Post gives up after
20 s, Redis after 3 s, and what is left are the disk and the database, taken to
answer. Nothing is assumed of customers, admins, expiry or crashes. `CallsEnd`
says a call comes to its end whatever the others do to its rows;
`PaidIsRecorded` that then no shipment is left to a call: it has its row,
or an operation failed, or the request named a label id that had a row.

`admin_methods` assumes weak fairness of the steps of each sync in flight. A sync
runs under the context of the HTTP request of its login, so a call to Lexmodo
is answered, fails, or ends with that request. `SyncsEnd` says that trying codes
and authorizations then ends as well, although each attempt begins anew from the
listing. Nothing is assumed of logins and of the owner. `SyncsAdvance` is the
part of it that needs no fairness: each step of a sync in flight lowers a
well-founded order (authorizations left, then listing before writing, then codes
left). The other runs assume no fairness.

## Findings

* **A success without its row** (`label_success`). The comment on `CreateLabel`
  (`create_label.go:17`) says that it "creates a shipment and persists the
  label/tracking metadata". The answer is OK even if `SaveLabelRecord` fails,
  and it always does for a label id that has a row. The shipment is then paid
  for and unknown to the plugin: it is not listed and cannot be refunded.
* **Configuration after an uninstall** (`plugin_removed`). The settings page
  says that uninstalling will "delete local plugin configuration and OAuth
  credentials" (`handlers.go:1350`). A form or a callback that is being handled
  during the cleanup writes its row after it. `QuietIsClean` is the
  part that does hold: with nothing in flight and no live session, an uninstall
  is final.
* **A conversion that is no rate** (`quote_conversion`). Canada Post requires
  `conversion-from-cad` "if customs currency != CAD"
  (`docs/canada_post_xml.md:175`, `shipping_service.go:760`). For a quote in CAD
  the program has no rate, and sends the insured amount in its place
  (`shipping_service.go:1169`). For a quote in one currency and customs
  information in another it sends the rate of the former. `BoughtAsQuoted` is
  what holds: with one currency throughout, it is the rate the offer was priced
  with.

### Observations

Met while modelling; no run is about them alone.

* **Leave at door with a signature.** `validateSignatureRequirement` refuses the
  combination ("Leave at Door cannot be combined with signature option",
  `canada_post_options.go:215`) and takes `SIGNATURE_UNSPECIFIED` for none;
  `buildSnapshotOptions` (`label_options.go:461`), which runs after it, takes it
  for one. For a quote with that value the label is sent with both options.
  `SentIsLegal` says, and `SentOptionsAreLegal` proves, that this value is the
  only way to the pair.
* A price that does not fit in 32 bits after its conversion wraps
  (`shipping_service.go:524`). `OffersAreHonest` is about those that fit.
* With no service ticked, or settings that cannot be read, all services are
  shown (`shipping_service.go:361`, `459`).
* Items are rounded to hundredths of a kilogram one by one, so items that weigh
  less than the parcel may be refused as heavier; a parcel of less than 0.2
  ounces rounds to nothing, gets a quote and can never be bought.
* A country and a Canadian postal code are checked in upper case, the latter
  without blanks, and cities, provinces, names of the sender and postal codes are
  checked trimmed (`shipping_service.go:1139`, `1240`, `1414`), but all of them are
  sent as they came (`818`, `822`, `823`, `827` to `829`, `843` to `846`, and the client
  changes nothing). "m5v 3l9" and "us" pass and are sent, although the comment at
  line 1246 says that Canada Post requires A9A9A9.
* `docs/canada_post_xml.md:161` to `164` list the city, prov-state and postal code
  of the destination as required; the code requires them for Canada and the United
  States only and says that they are optional elsewhere
  (`shipping_service.go:1359`). `SentMeetsRequirements` follows the code.
* A SET that timed out is logged as failed and may still be executed: its rate can
  then be bought after all (`rate_snapshot_store.go:115`).
* The phone of a recipient whose parcel goes to a post office must be there but
  is not validated (`shipping_service.go:838`).
* An offer whose snapshot was not saved cannot be bought ("rate expired or
  invalid"), and nothing says so when it is made.
* Customs values of several currencies are all taken to be of the first one
  (`rate_snapshot_store.go:319`).
* A rate above two million CAD a unit is sent as the conversion "0".
* The fallback of `CreateLabel` for a snapshot without a rate
  (`create_label.go:81`) is dead: a quote always has a currency and a rate.
* The page says of a default code that has no offices "Cached postal code", and
  "Saved results are reused automatically" although an empty answer is asked
  for again each time (`handlers.go:1364`, `1382`).
* The sync of admin methods creates its entry under the first code that is
  accepted, which may be that of another plugin with "canada" or "post" in its
  name (`admin_shipping_methods.go:348`); later syncs find the name and stop.

## Proofs

All safety properties of the passing runs, and all five refinements, are proved
for every value of the constants. The assumptions are on the constants only: the
value for "absent" is none of the values it is absent from, times and bounds are
natural numbers, an exchange rate is a positive fraction, and the requests, forms and
answers are of their types.

* `SessionTokensProofs`. None of the properties is inductive by itself.
  `SingleSession`, say, would be broken by a form whose token was never spent,
  or by an entry for a token never issued. `Inv` adds that entries agree with
  the history of their minting, that a token which was not issued has no
  trace, that a live token is unspent, and that a form in flight holds a spent
  token of its store. `TableImplementsOneTime` maps every step to one of
  `OneTimeTokens` or to a stutter, with `Inv` as its premise.
* `LabelLifecycleProofs`. Four layers, each relying on the ones before it:
  the types with the fact that a call past `ship` has a shipment
  (`HeldCorrect`); `ShipmentInv`, where a shipment held by a call was made for
  the call's rate, invoice and label and is held by one call only, which gives
  `RecordsMatchShipments` and `RefundsAreRecorded`; `QuoteInv`, which carries
  the invoice of a rate from the snapshot through the call to the rows;
  `LabelInv`, where a drawn label id belongs to one call or one row, which gives
  `OwnLabelIsWhole`. `NothingPaidIsLost` and `RecordsImplementLedger` follow
  from these. The lemmas at the top say once what each operation on a call
  moves and keeps.
* `PluginLifecycleProofs`. `QuietIsClean` needs `Idle`: a quiet store has no
  form in flight and no callback about to mint a session, so a write can only
  come from a token that is exchanged, which ends the quiet.
  `ReinstallIsAsked` is inductive given the types.
* `PluginSessionsProofs`. `PluginSessions` instantiates its two parts with its
  own variables, so the theorems of `SessionTokensProofs` and
  `PluginLifecycleProofs` are instantiated with them as well (`TP!`, `PP!`). The
  steps of the table alone and of both parts are steps of `SessionTokens`, which
  gives its inductive invariant here without a new proof. On it rest
  `FormsAreOwned` (the forms in flight that the installation knows of are just
  those whose tokens were of its store) and the refinement
  `SessionsImplementPlugin`: each step maps to one of `PluginLifecycle`, the
  clock and the other stores to `LoseSessions` or a stutter. Through it
  `QuietTableIsShut` carries `UninstalledStaysClean` over to the real table.
  `NoSessionBegins` needs `OnlyEarly`: after an uninstall there is no access
  token, and a callback that may still mint was in flight during it.
* `ShippingOptionsProofs`. `CheckedCodes` says which options a form of checked
  values can contribute, and `RulesSuffice` that the rules of the form imply
  the check of the list; `SentIsLegalStep` derives what is sent from these, and
  the invariant only adds that nothing is sent before there is a snapshot.
  The forms are any sets of forms here, not those with few fields.
* `AdminMethodSyncProofs`. `SingleEntry` needs `Alone`: while nothing was lost,
  one sync at most is in flight, and where it is about to make an entry there is
  none. `SuccessHasEntry` needs `Answered`: a sync about to create an entry knows
  of no other method with one of its codes, so that "already exists" can only
  speak of an entry. `Grows` is what every step of a sync does to the methods,
  proved once. `RetriesAreBounded` shows `SyncsAdvance` from the types: a retry
  shortens the list of codes, or goes to a later authorization.
* `PostOfficeCacheProofs`. `GoneStaysGone` needs `GoneIsUnsearched`: while a code
  is gone no form is searching for it. `DefaultHasOffices` needs
  `OfferedHasOffices`: a form about to save its default, or the default itself,
  is excused or has offices. `OfferStands` needs `ChosenIsCached`: the text a
  customer chose is that of a cached office of its code until the code is
  removed; it is inductive because an INSERT never changes the text of a row.
  `ListsAreWhole` proves `NoTornList`, which no run checks by itself: what is
  published to the directory are whole answers, so `ImplementsDirectory` breaks
  first.
  `CacheImplementsDirectory` maps a search that begins to ask to `Miss`, one
  that stores to `Publish`, and every end of a search to `GiveUp` or, when another
  search still waits for the code, to a stutter.
* `RateQuoteProofs`. `RoundedFacts` says that rounding misses by half at most
  and `FitsFacts` that what fits is not wrapped; `BuiltMeets` that the checks of
  a snapshot suffice for the request built from it, for any addresses and
  items. The inductive invariant `IInv` says that currency rates were saved
  (`RatesSaved`), that a call's filter and rate are those it may have read
  (`CallInv`), that a snapshot and an offer are exactly those their call makes
  (`SnapInv`, `OfferInv`), and what follows for the request sent (`SentInv`).
  Neither a snapshot nor an offer says by itself where it came from, which is
  why `BoughtAsQuoted` is not inductive. `QuotesKeepThePromise` rests on it:
  `TermsKeep` says that the call an offer goes back to no longer changes what
  its terms are computed from, `SavePrepares` that a snapshot is saved or set on
  its way only before its offer is made (`OfferInv`: an offer's call is done),
  `LateArrives` that a late one was on its way (`SnapInv` knows the call it is of,
  so it is the snapshot that call made), and `LabelBuys` reads the parcel off
  `BoughtAsQuoted`.

Model-checked only: `CallsEnd`, `PaidIsRecorded` and `SyncsEnd`, since liveness under
fairness is out of the prover's reach (of `SyncsEnd` the order is proved, as
`SyncsAdvance`; of `PaidIsRecorded` its safety part, as `NoFaultNoOrphan`), as are `ENABLED`, results that need
induction over data with an operator as parameter, and anything about
`RECURSIVE` operators. Only `MCShippingOptions` declares one, to enumerate forms.

## Not modelled, and the plan

1. A composition of `LabelLifecycle` and `ShippingOptions`: two label requests
   for one snapshot with different options.
2. The attempts of the orders client (`fetchCustomerEmailFromOrders`), which
   reads only; in `LabelLifecycle` it is the failure of a refund.

Left out of modelled parts: the paged reads of labels and of postal codes, the
creation and migration of tables, three in-memory maps that are written with
each quote and never found again, and code that nothing calls.

Left out for good: HTML, XML and JSON texts, the Redis protocol, logging and
timing (no state, no property); the authentication and address middleware
(one stateless check); the command line client; process start, whose only
effect on the models is the restart. The signature of a JWT is an outcome:
the claims are either valid or not.
