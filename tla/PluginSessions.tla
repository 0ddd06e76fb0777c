--------------------------- MODULE PluginSessions ---------------------------
(***************************************************************************)
(* The life of an installation (PluginLifecycle) over the real table of    *)
(* session tokens (SessionTokens), which all stores share.                 *)
(*                                                                         *)
(* PluginLifecycle says of a session token that it is live.  Here it is    *)
(* live when consumeSessionToken would accept it for the store: it has an  *)
(* entry, of that store, unused and in time.  A step of a handler that     *)
(* uses the table is one step of both modules; requests of other stores,   *)
(* refusals and the clock change the table alone.                          *)
(***************************************************************************)
EXTENDS Integers

CONSTANTS
    Client,     \* stores that install the plugin
    Store,      \* the store whose installation is followed
    Token,      \* session tokens the process may ever draw
    Request,    \* settings POSTs in flight, of all stores
    Form,       \* those of the store
    State, Callback, Removal,   \* OAuth states, callbacks and uninstalls of the store
    TTL, MaxTime,               \* lifetime of a token, bound of the clock
    None        \* no row, no entry, no request

VARIABLES
    tokens, now, saving, owner, issued, root, spends,
    state, grant, rows, callbacks, posts, removals,
    offered, asked, early, quiet, removed,
    older       \* history: logins from before the last cleanup, or of a
                \* callback that was in flight during it

T == INSTANCE SessionTokens WITH posts <- saving

Accepted == {t \in Token : T!Accepts(Store, t)}

P == INSTANCE PluginLifecycle WITH Post <- Form, Session <- Token, live <- Accepted

table == <<tokens, now, saving, owner, issued, root, spends>>
history == <<offered, asked, early, quiet, removed>>
plugin == <<state, grant, rows, callbacks, posts, removals, history, older>>
vars == <<table, plugin>>

ASSUME StoreAssumption == Store \in Client /\ Form \subseteq Request
ASSUME TimesAssumption == TTL \in Nat /\ MaxTime \in Nat
ASSUME AbsentAssumption ==
    /\ None \notin Client \union T!Entry \union T!Post
    /\ None \notin State \union P!CallbackState \union P!FormType \union {"answer"}

TypeOK == T!TypeOK /\ P!TypeOK /\ older \subseteq Token

Init == T!Init /\ P!Init /\ older = {}

-----------------------------------------------------------------------------
(* Steps of the store's handlers that use the table.                       *)

\* A login of a callback that was in flight during the cleanup counts as older.
MintSession(k) ==
    /\ P!At(k, "sync")
    /\ \/ T!Login(Store)
       \/ UNCHANGED table
    /\ older' = IF k \in early
                THEN older \union {t \in Token : owner'[t] # owner[t]} ELSE older
    /\ P!EndCallback(k)
    /\ UNCHANGED <<state, grant, rows, posts, removals, offered, asked, quiet, removed>>

SubmitForm(p, t) ==
    /\ posts[p] = None
    /\ T!Accepts(Store, t)
    /\ T!SubmitSettings(p, Store, t)
    /\ \E form \in P!FormType : posts' = [posts EXCEPT ![p] = form]
    /\ UNCHANGED <<state, grant, rows, callbacks, removals, history, older>>

AnswerForm(p) ==
    /\ posts[p] = "answer"
    /\ T!AnswerSaved(p)
    /\ posts' = [posts EXCEPT ![p] = None]
    /\ UNCHANGED <<state, grant, rows, callbacks, removals, history, older>>

FormFails(p) ==
    /\ posts[p] # None
    /\ T!AnswerError(p)
    /\ posts' = [posts EXCEPT ![p] = None]
    /\ UNCHANGED <<state, grant, rows, callbacks, removals, history, older>>

\* With a session token, or with a JWT, which is no entry of the table.
HandleUninstall(u) ==
    /\ u \notin removals
    /\ \/ \E t \in Token : T!ConsumeSessionToken(Store, t) /\ UNCHANGED <<now, saving>>
       \/ UNCHANGED table
    /\ removals' = removals \union {u}
    /\ UNCHANGED <<state, grant, rows, callbacks, posts, history, older>>

Restart ==
    /\ T!Restart
    /\ P!Restart
    /\ UNCHANGED older

-----------------------------------------------------------------------------
(* Steps of the store's handlers that do not.                              *)

CleanupPluginData(u) ==
    /\ UNCHANGED table
    /\ P!CleanupPluginData(u)
    /\ older' = IF P!Cleanup THEN {t \in Token : owner[t] = Store} ELSE older

CallbackGoesOn(k) ==
    /\ UNCHANGED <<table, older>>
    /\ \/ P!OpenPlugin(k)
       \/ P!ShowAuthURL(k)
       \/ \E s \in State : P!ReturnWithCode(k, s)
       \/ P!ExchangeCodeForToken(k)
       \/ P!DeleteState(k)
       \/ P!InsertToken(k)

FormGoesOn(p) ==
    /\ UNCHANGED <<table, older>>
    /\ P!SaveForm(p) \/ P!SkipSearch(p) \/ P!DeletePostalCode(p)

Others == UNCHANGED <<table, older>> /\ (P!ExpireGrant \/ P!RedirectToOAuth)

-----------------------------------------------------------------------------
(* Steps that change the table alone.                                      *)

\* A page, a form or an uninstall is refused, of whatever store.
Present(c, t) ==
    /\ T!Refuse(c, t)
    /\ UNCHANGED <<now, saving, plugin>>

OtherStore(c) ==
    /\ c # Store
    /\ \/ T!Login(c)
       \/ \E t \in Token :
             \/ T!Uninstall(c, t)
             \/ \E r \in Request \ Form : T!SubmitSettings(r, c, t)
    /\ UNCHANGED plugin

AnswerOther(r) ==
    /\ T!AnswerSaved(r) \/ T!AnswerError(r)
    /\ UNCHANGED plugin

Tick == T!Tick /\ UNCHANGED plugin

Next ==
    \/ \E k \in Callback : MintSession(k) \/ CallbackGoesOn(k)
    \/ \E p \in Form :
          \/ \E t \in Token : SubmitForm(p, t)
          \/ AnswerForm(p) \/ FormFails(p) \/ FormGoesOn(p)
    \/ \E u \in Removal : HandleUninstall(u) \/ CleanupPluginData(u)
    \/ Others
    \/ Restart
    \/ \E c \in Client, t \in Token : Present(c, t)
    \/ \E c \in Client : OtherStore(c)
    \/ \E r \in Request \ Form : AnswerOther(r)
    \/ Tick

Spec == Init /\ [][Next]_vars

-----------------------------------------------------------------------------
(* Properties.                                                             *)

\* The installation of a store is that of PluginLifecycle, although its
\* session tokens expire on a clock and share a table with other stores.
ImplementsPlugin == P!Spec

\* After an uninstall no session begins until an access token is saved again:
\* every session token of the store descends from a login from before the
\* cleanup, or of a callback that was in flight during it.
NoNewSession == removed => \A t \in Token : owner[t] = Store => root[t] \in older
=============================================================================
