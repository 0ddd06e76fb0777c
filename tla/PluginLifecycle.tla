--------------------------- MODULE PluginLifecycle ---------------------------
(***************************************************************************)
(* One store installs, uses and uninstalls the plugin.                     *)
(*                                                                         *)
(* The OAuth callback keeps a state in oauth_state while the admin is away *)
(* at Lexmodo, exchanges the code it comes back with, saves the access     *)
(* token in plugin_oauth and mints a session token; the forms of the       *)
(* settings page write the store's rows; uninstall deletes all of these in *)
(* one transaction.  Each handler is a chain of database or remote calls,  *)
(* handlers of concurrent requests interleave between them, each call may  *)
(* fail, and a restart drops the session tokens and all handlers.          *)
(*                                                                         *)
(* SessionTokens says how a session token is kept; here it is live or not. *)
(* Rows of other stores are never touched: every statement names the store.*)
(***************************************************************************)
CONSTANTS
    State,      \* OAuth states, drawn at random (16 bytes)
    Session,    \* session tokens of the store that may be live at a time
    Callback,   \* callbacks in flight
    Post,       \* settings POSTs in flight
    Removal,    \* uninstall requests in flight
    None        \* no row, no request

VARIABLES
    state,      \* oauth_state: the state of the store, or None
    grant,      \* plugin_oauth: the access token of the store
    rows,       \* which of the store's other tables have rows
    live,       \* session tokens consumeSessionToken would accept
    callbacks,  \* what each callback does next, with the state it came with
    posts,      \* what each settings POST does next
    removals,   \* uninstall requests past the token check
    offered,    \* history: states put in an AuthURL shown to the admin
    asked,      \* history: states drawn since the last cleanup
    early,      \* history: callbacks in flight at the last cleanup
    quiet,      \* history: clean since a cleanup that found nothing in flight
    removed     \* history: cleaned up, and no access token saved since

requests == <<callbacks, posts, removals>>
history == <<offered, asked, early, quiet, removed>>
vars == <<state, grant, rows, live, requests, history>>

Table == {"shipping_settings", "currency_rates", "client_post_offices"}

CallbackState ==
    [pc : {"exchange", "delete", "insert"}, state : State]
        \union [pc : {"ask", "sync"}, state : {None}]

FormType == {"currency", "settings", "search", "default", "delete"}

ASSUME NoneAssumption ==
    None \notin State \union CallbackState \union FormType \union {"answer"}

TypeOK ==
    /\ state \in State \union {None}
    /\ grant \in {"none", "valid", "expired"}
    /\ rows \subseteq Table
    /\ live \subseteq Session
    /\ callbacks \in [Callback -> CallbackState \union {None}]
    /\ posts \in [Post -> FormType \union {"answer", None}]
    /\ removals \subseteq Removal
    /\ offered \subseteq State /\ asked \subseteq State /\ early \subseteq Callback
    /\ quiet \in BOOLEAN /\ removed \in BOOLEAN

Init ==
    /\ state = None /\ grant = "none" /\ rows = {} /\ live = {}
    /\ callbacks = [k \in Callback |-> None]
    /\ posts = [p \in Post |-> None]
    /\ removals = {}
    /\ offered = {} /\ asked = {} /\ early = {}
    /\ quiet = TRUE /\ removed = FALSE

-----------------------------------------------------------------------------
(* The callback.                                                           *)

At(k, pc) == callbacks[k] # None /\ callbacks[k].pc = pc
Goto(k, pc, s) == callbacks' = [callbacks EXCEPT ![k] = [pc |-> pc, state |-> s]]
EndCallback(k) ==
    /\ callbacks' = [callbacks EXCEPT ![k] = None]
    /\ early' = early \ {k}

\* A fresh state is saved, over the store's former one, and shown in an
\* AuthURL; an error of SaveState is ignored.
SaveState ==
    \E s \in State \ offered :
        /\ state' = s \/ UNCHANGED state
        /\ offered' = offered \union {s}
        /\ asked' = asked \union {s}

Mint == \E t \in Session \ live : live' = live \union {t}

\* The admin opens the plugin with a JWT: GetAccessToken, which answers nothing
\* for an expired token and when the query fails.
OpenPlugin(k) ==
    /\ callbacks[k] = None
    /\ \/ grant = "valid" /\ Goto(k, "sync", None)
       \/ Goto(k, "ask", None)
    /\ UNCHANGED <<state, grant, rows, live, posts, removals, history>>

ShowAuthURL(k) ==
    /\ At(k, "ask")
    /\ SaveState
    /\ EndCallback(k)
    /\ UNCHANGED <<grant, rows, live, posts, removals, quiet, removed>>

\* The admin comes back with a code and a state that was offered: it must be
\* the one in oauth_state.
ReturnWithCode(k, s) ==
    /\ callbacks[k] = None
    /\ s \in offered
    /\ state = s
    /\ Goto(k, "exchange", s)
    /\ UNCHANGED <<state, grant, rows, live, posts, removals, history>>

ExchangeCodeForToken(k) ==
    /\ At(k, "exchange")
    /\ \/ Goto(k, "delete", callbacks[k].state) /\ UNCHANGED early
       \/ EndCallback(k)
    /\ UNCHANGED <<state, grant, rows, live, posts, removals, offered, asked, quiet, removed>>

\* The store's state goes, whichever it is by now; an error is only logged.
DeleteState(k) ==
    /\ At(k, "delete")
    /\ state' = None \/ UNCHANGED state
    /\ Goto(k, "insert", callbacks[k].state)
    /\ UNCHANGED <<grant, rows, live, posts, removals, history>>

InsertToken(k) ==
    /\ At(k, "insert")
    /\ \/ /\ grant' = "valid"
          /\ quiet' = FALSE /\ removed' = FALSE
          /\ Goto(k, "sync", None) /\ UNCHANGED early
       \/ EndCallback(k) /\ UNCHANGED <<grant, quiet, removed>>
    /\ UNCHANGED <<state, rows, live, posts, removals, offered, asked>>

\* After the sync of the admin's shipping methods, which may fail silently.
MintSession(k) ==
    /\ At(k, "sync")
    /\ Mint \/ UNCHANGED live
    /\ EndCallback(k)
    /\ UNCHANGED <<state, grant, rows, posts, removals, offered, asked, quiet, removed>>

ExpireGrant ==
    /\ grant = "valid"
    /\ grant' = "expired"
    /\ UNCHANGED <<state, rows, live, requests, history>>

-----------------------------------------------------------------------------
(* The settings page.                                                      *)

\* Tokens expired, or one was presented for the wrong store.
LoseSessions(lost) ==
    /\ lost # {}
    /\ live' = live \ lost
    /\ UNCHANGED <<state, grant, rows, requests, history>>

\* A request without a live token.
RedirectToOAuth ==
    /\ SaveState
    /\ UNCHANGED <<grant, rows, live, requests, early, quiet, removed>>

SubmitUnknown(p, t) ==                            \* mutant: form_type taken as it comes
    /\ posts[p] = None
    /\ t \in live
    /\ live' = live \ {t}
    /\ posts' = [posts EXCEPT ![p] = ""]
    /\ UNCHANGED <<state, grant, rows, callbacks, removals, history>>

SubmitForm(p, t) ==
    /\ posts[p] = None
    /\ t \in live
    /\ live' = live \ {t}
    /\ \E form \in FormType : posts' = [posts EXCEPT ![p] = form]
    /\ UNCHANGED <<state, grant, rows, callbacks, removals, history>>

\* The write of a form, and what the form does next.
Writes(form) ==
    CASE form = "currency" -> rows \union {"currency_rates"}
      [] form = "search"   -> rows \union {"client_post_offices"}
      [] form \in {"settings", "default"} -> rows \union {"shipping_settings"}

NextOf(form) == IF form = "search" THEN "default" ELSE "answer"

SaveForm(p) ==
    /\ posts[p] \in FormType \ {"delete"}
    /\ rows' = Writes(posts[p])
    /\ posts' = [posts EXCEPT ![p] = NextOf(posts[p])]
    /\ UNCHANGED <<state, grant, live, callbacks, removals, history>>

\* The offices of the postal code are stored already, or there are none.
SkipSearch(p) ==
    /\ posts[p] = "search"
    /\ posts' = [posts EXCEPT ![p] = "default"]
    /\ UNCHANGED <<state, grant, rows, live, callbacks, removals, history>>

\* Other postal codes of the store may or may not keep rows in the table.
DeletePostalCode(p) ==
    /\ posts[p] = "delete"
    /\ rows' = rows \ {"client_post_offices"} \/ UNCHANGED rows
    /\ posts' = [posts EXCEPT ![p] = "answer"]
    /\ UNCHANGED <<state, grant, live, callbacks, removals, history>>

\* An invalid form or a failed call: the answer is an error, without a token.
FormFails(p) ==
    /\ posts[p] # None
    /\ posts' = [posts EXCEPT ![p] = None]
    /\ UNCHANGED <<state, grant, rows, live, callbacks, removals, history>>

AnswerForm(p) ==
    /\ posts[p] = "answer"
    /\ Mint
    /\ posts' = [posts EXCEPT ![p] = None]
    /\ UNCHANGED <<state, grant, rows, callbacks, removals, history>>

-----------------------------------------------------------------------------
(* Uninstall.                                                              *)

\* The request spends a session token, or carries a JWT of the store; Lexmodo
\* is then asked to uninstall the plugin, and a refusal is only logged.
HandleUninstall(u) ==
    /\ u \notin removals
    /\ (\E t \in live : live' = live \ {t}) \/ UNCHANGED live
    /\ removals' = removals \union {u}
    /\ UNCHANGED <<state, grant, rows, callbacks, posts, history>>

InFlight ==
    \/ \E k \in Callback : callbacks[k] # None
    \/ \E p \in Post : posts[p] # None

CleanupKeepsCurrency ==                           \* mutant: a table is forgotten
    /\ state' = None /\ grant' = "none" /\ rows' = rows \intersect {"currency_rates"}
    /\ asked' = {} /\ removed' = TRUE
    /\ early' = {k \in Callback : callbacks[k] # None}
    /\ quiet' = (live = {} /\ ~ InFlight)

CleanupKeepsState ==                              \* mutant: oauth_state is forgotten
    /\ grant' = "none" /\ rows' = {} /\ UNCHANGED state
    /\ asked' = {} /\ removed' = TRUE
    /\ early' = {k \in Callback : callbacks[k] # None}
    /\ quiet' = (live = {} /\ ~ InFlight)

CleanupKeepsGrant ==                              \* mutant: plugin_oauth is forgotten
    /\ state' = None /\ rows' = {} /\ UNCHANGED grant
    /\ asked' = {} /\ removed' = TRUE
    /\ early' = {k \in Callback : callbacks[k] # None}
    /\ quiet' = (live = {} /\ ~ InFlight)

\* The transaction, committed.
Cleanup ==
    /\ state' = None /\ grant' = "none" /\ rows' = {}
    /\ asked' = {} /\ removed' = TRUE
    /\ early' = {k \in Callback : callbacks[k] # None}
    /\ quiet' = (live = {} /\ ~ InFlight)

\* All of it, or a rollback and an error; or an error before it begins (no
\* gRPC address is configured).
CleanupPluginData(u) ==
    /\ u \in removals
    /\ removals' = removals \ {u}
    /\ Cleanup \/ UNCHANGED <<state, grant, rows, asked, early, quiet, removed>>
    /\ UNCHANGED <<live, callbacks, posts, offered>>

Restart ==
    /\ live' = {} /\ removals' = {} /\ early' = {}
    /\ callbacks' = [k \in Callback |-> None]
    /\ posts' = [p \in Post |-> None]
    /\ UNCHANGED <<state, grant, rows, offered, asked, quiet, removed>>

-----------------------------------------------------------------------------
CallbackStep(k) ==
    \/ OpenPlugin(k)
    \/ ShowAuthURL(k)
    \/ \E s \in State : ReturnWithCode(k, s)
    \/ ExchangeCodeForToken(k)
    \/ DeleteState(k)
    \/ InsertToken(k)
    \/ MintSession(k)

PostStep(p) ==
    \/ \E t \in Session : SubmitForm(p, t)
    \/ SaveForm(p)
    \/ SkipSearch(p)
    \/ DeletePostalCode(p)
    \/ FormFails(p)
    \/ AnswerForm(p)

Next ==
    \/ \E k \in Callback : CallbackStep(k)
    \/ ExpireGrant
    \/ \E lost \in SUBSET live : LoseSessions(lost)
    \/ RedirectToOAuth
    \/ \E p \in Post : PostStep(p)
    \/ \E u \in Removal : HandleUninstall(u) \/ CleanupPluginData(u)
    \/ Restart

Spec == Init /\ [][Next]_vars

-----------------------------------------------------------------------------
(* Properties.                                                             *)

\* An uninstall that finds no live session and no other request in flight
\* leaves the store clean until an access token is saved anew: nothing that
\* happened before it, and no session or form after it, brings a row back.
QuietIsClean == quiet => rows = {} /\ grant = "none" /\ live = {}

\* After an uninstall the plugin is installed again only if the admin is sent
\* to Lexmodo again: an AuthURL offered before is worth nothing, except to a
\* callback that was being handled during the cleanup.
ReinstallIsAsked ==
    /\ state # None => state \in asked
    /\ \A k \in Callback :
          callbacks[k] # None /\ callbacks[k].state # None
             => callbacks[k].state \in asked \/ k \in early

\* What the danger zone of the settings page says: uninstalling will "delete
\* local plugin configuration and OAuth credentials".
NothingIsLeft == removed => rows = {} /\ grant = "none"
=============================================================================
