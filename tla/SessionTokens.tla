--------------------------- MODULE SessionTokens ---------------------------
(***************************************************************************)
(* The in-memory table of session tokens (protocol/http/app.go) and the    *)
(* HTTP handlers that use it: the OAuth callback mints a token, a GET of   *)
(* the settings page validates one, a POST of a settings form consumes one *)
(* and, when the form was saved, mints the next, and uninstall consumes    *)
(* one.  Handlers of concurrent requests interleave; every operation on    *)
(* the table holds App.mu, so it is one step.  A restart empties the table *)
(* and drops the requests in flight.                                       *)
(***************************************************************************)
EXTENDS Integers, Sequences

CONSTANTS
    Client,     \* stores that install the plugin
    Token,      \* session tokens the process may ever draw (32 random bytes)
    Request,    \* settings POSTs that can be in flight at a time
    None,       \* absent entry, no request
    TTL,        \* lifetime of a token in ticks (2 minutes in the code)
    MaxTime     \* bound of the clock

Entry == [clientID : Client, expires : Nat, used : BOOLEAN]
Post  == [client : Client, token : Token]

ASSUME NoneAssumption == None \notin Client \union Entry \union Post
ASSUME TimeAssumption == TTL \in Nat /\ MaxTime \in Nat

VARIABLES
    tokens,     \* App.tokens: entry of each token, None when absent
    now,        \* time.Now()
    posts,      \* settings POSTs past consumeSessionToken, not yet answered
    owner,      \* history: the store each token was minted for
    issued,     \* history: when each token was minted
    root,       \* history: the login each token descends from
    spends      \* history: the stores consumeSessionToken accepted the token for

vars == <<tokens, now, posts, owner, issued, root, spends>>
history == <<owner, issued, root, spends>>

TypeOK ==
    /\ tokens \in [Token -> Entry \union {None}]
    /\ now \in Nat
    /\ posts \in [Request -> Post \union {None}]
    /\ owner \in [Token -> Client \union {None}]
    /\ issued \in [Token -> Nat]
    /\ root \in [Token -> Token]
    /\ spends \in [Token -> Seq(Client)]

Init ==
    /\ tokens = [t \in Token |-> None]
    /\ now = 0
    /\ posts = [r \in Request |-> None]
    /\ owner = [t \in Token |-> None]
    /\ issued = [t \in Token |-> 0]
    /\ root = [t \in Token |-> t]
    /\ spends = [t \in Token |-> <<>>]

-----------------------------------------------------------------------------
(* The table.  A drawn token is one never drawn before (256 random bits).  *)

CreateSessionToken(t, c, login) ==
    /\ owner[t] = None
    /\ tokens' = [tokens EXCEPT ![t] =
                    [clientID |-> c, expires |-> now + TTL, used |-> FALSE]]
    /\ owner' = [owner EXCEPT ![t] = c]
    /\ issued' = [issued EXCEPT ![t] = now]
    /\ root' = [root EXCEPT ![t] = login]
    /\ UNCHANGED spends

AcceptsAnyStore(c, t) ==                          \* mutant: no owner check
    /\ tokens[t] # None
    /\ ~ tokens[t].used
    /\ now =< tokens[t].expires

AcceptsForever(c, t) ==                           \* mutant: no expiry check
    /\ tokens[t] # None
    /\ ~ tokens[t].used
    /\ tokens[t].clientID = c

\* The check both operations share; it also fails on an absent entry.
Accepts(c, t) ==
    /\ tokens[t] # None
    /\ ~ tokens[t].used
    /\ now =< tokens[t].expires
    /\ tokens[t].clientID = c

RefuseZeroes(c, t) ==                             \* mutant: entry zeroed, not deleted
    /\ ~ Accepts(c, t)
    /\ tokens' = [tokens EXCEPT ![t] =
                    [clientID |-> None, expires |-> 0, used |-> FALSE]]
    /\ UNCHANGED history

\* A refused token loses its entry, whoever presented it.
Refuse(c, t) ==
    /\ ~ Accepts(c, t)
    /\ tokens' = [tokens EXCEPT ![t] = None]
    /\ UNCHANGED history

ConsumeWithoutMark(c, t) ==                       \* mutant: POST only validates
    /\ Accepts(c, t)
    /\ spends' = [spends EXCEPT ![t] = Append(@, c)]
    /\ UNCHANGED <<tokens, owner, issued, root>>

ConsumeSessionToken(c, t) ==
    /\ Accepts(c, t)
    /\ tokens' = [tokens EXCEPT ![t].used = TRUE]
    /\ spends' = [spends EXCEPT ![t] = Append(@, c)]
    /\ UNCHANGED <<owner, issued, root>>

-----------------------------------------------------------------------------
(* The handlers.                                                           *)

\* The callback found or obtained an access token: a new session begins.
Login(c) ==
    /\ \E t \in Token : CreateSessionToken(t, c, t)
    /\ UNCHANGED <<now, posts>>

\* GET: the page is rendered with the token it came with.
ViewSettings(c, t) ==
    /\ \/ Accepts(c, t) /\ UNCHANGED <<tokens, history>>
       \/ Refuse(c, t)
    /\ UNCHANGED <<now, posts>>

SubmitSettings(r, c, t) ==
    /\ posts[r] = None
    /\ \/ /\ ConsumeSessionToken(c, t)
          /\ posts' = [posts EXCEPT ![r] = [client |-> c, token |-> t]]
       \/ /\ Refuse(c, t)          \* redirectToOAuth
          /\ UNCHANGED posts
    /\ UNCHANGED now

\* The form was saved: the answer carries a fresh token for the next form.
AnswerSaved(r) ==
    /\ posts[r] # None
    /\ \E t \in Token :
          CreateSessionToken(t, posts[r].client, root[posts[r].token])
    /\ posts' = [posts EXCEPT ![r] = None]
    /\ UNCHANGED now

AnswerErrorGivesBack(r) ==                        \* mutant: error restores the token
    /\ posts[r] # None
    /\ posts' = [posts EXCEPT ![r] = None]
    /\ LET t == posts[r].token IN
       tokens' = IF tokens[t] = None THEN tokens
                 ELSE [tokens EXCEPT ![t].used = FALSE]
    /\ UNCHANGED <<now, history>>

\* An invalid form, a failed save or a failed draw: the token is spent anyway.
AnswerError(r) ==
    /\ posts[r] # None
    /\ posts' = [posts EXCEPT ![r] = None]
    /\ UNCHANGED <<tokens, now, history>>

\* A refused token may still be a valid JWT of the store, which is no entry
\* of the table; either way no token is minted.
Uninstall(c, t) ==
    /\ ConsumeSessionToken(c, t) \/ Refuse(c, t)
    /\ UNCHANGED <<now, posts>>

Restart ==
    /\ tokens' = [t \in Token |-> None]
    /\ posts' = [r \in Request |-> None]
    /\ UNCHANGED <<now, history>>

Tick ==
    /\ now < MaxTime
    /\ now' = now + 1
    /\ UNCHANGED <<tokens, posts, history>>

Next ==
    \/ \E c \in Client : Login(c)
    \/ \E c \in Client, t \in Token : ViewSettings(c, t)
    \/ \E r \in Request, c \in Client, t \in Token : SubmitSettings(r, c, t)
    \/ \E r \in Request : AnswerSaved(r)
    \/ \E r \in Request : AnswerError(r)
    \/ \E c \in Client, t \in Token : Uninstall(c, t)
    \/ Restart
    \/ Tick

Spec == Init /\ [][Next]_vars

-----------------------------------------------------------------------------
(* Properties.                                                             *)

Live(t) == tokens[t] # None /\ ~ tokens[t].used

\* A login gives one session at a time: it is either one unused token or one
\* form being saved, never two of them, whatever forms are submitted twice,
\* refused, or cut short (consume on POST, mint only in its answer).
SingleSession ==
    /\ \A t, u \in Token :
          Live(t) /\ Live(u) /\ root[t] = root[u] => t = u
    /\ \A t \in Token, r \in Request :
          Live(t) /\ posts[r] # None => root[t] # root[posts[r].token]
    /\ \A r, q \in Request :
          /\ posts[r] # None /\ posts[q] # None
          /\ root[posts[r].token] = root[posts[q].token]
          => r = q

\* No token is accepted twice, by forms or uninstalls in any order.
SpentOnce == \A t \in Token : Len(spends[t]) =< 1

\* A session never passes to another store: every token that descends from a
\* login, and every form being saved, is for the store that logged in.
SessionKeepsStore ==
    /\ \A t \in Token : owner[t] # None => owner[root[t]] = owner[t]
    /\ \A r \in Request :
          posts[r] # None => owner[root[posts[r].token]] = posts[r].client

\* The table implements one-time tokens: accepted at most once, for the store
\* they were minted for and in time, whoever presents them, and never live
\* again, across forms, uninstalls, refusals, errors and restarts.
TokenStatus(t) ==
    IF owner[t] = None THEN "unissued" ELSE IF Live(t) THEN "live" ELSE "gone"

OneTime == INSTANCE OneTimeTokens WITH
    status   <- [t \in Token |-> TokenStatus(t)],
    holder   <- owner,
    deadline <- [t \in Token |-> IF owner[t] = None THEN 0 ELSE issued[t] + TTL],
    clock    <- now

ImplementsOneTime == OneTime!ASpec
=============================================================================
