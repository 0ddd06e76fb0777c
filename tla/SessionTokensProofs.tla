------------------------ MODULE SessionTokensProofs ------------------------
(***************************************************************************)
(* Proofs about SessionTokens, for any number of stores, tokens and        *)
(* requests and any lifetime of a token.                                   *)
(***************************************************************************)
EXTENDS SessionTokens, TLAPS

\* The table agrees with the history: an entry is that of the mint.
EntriesAreMinted ==
    \A t \in Token : tokens[t] # None =>
        /\ owner[t] = tokens[t].clientID
        /\ tokens[t].expires = issued[t] + TTL

\* A token never minted has left no trace.
UnissuedIsClean ==
    \A t \in Token : owner[t] = None => tokens[t] = None /\ spends[t] = <<>>

LiveIsUnspent == \A t \in Token : Live(t) => spends[t] = <<>>

\* The token a form was submitted with is one of the form's store.
PostsAreOwned ==
    \A r \in Request : posts[r] # None => owner[posts[r].token] = posts[r].client

\* The inductive invariant.
Inv ==
    /\ TypeOK
    /\ EntriesAreMinted
    /\ UnissuedIsClean
    /\ LiveIsUnspent
    /\ PostsAreOwned
    /\ SpentOnce
    /\ SessionKeepsStore
    /\ SingleSession

LEMMA InitInv == Init => Inv
  BY NoneAssumption
  DEF Init, Inv, TypeOK, EntriesAreMinted, UnissuedIsClean, LiveIsUnspent,
      PostsAreOwned, SpentOnce, SessionKeepsStore, SingleSession, Live

\* A form past the check carries a store and a token.
LEMMA PostFields ==
  ASSUME TypeOK, NEW r \in Request, posts[r] # None
  PROVE  posts[r].client \in Client /\ posts[r].token \in Token
  BY DEF TypeOK, Post

-----------------------------------------------------------------------------
(* Most steps only take away: entries, requests, or nothing at all.        *)

TakesAway ==
    /\ tokens' \in [Token -> Entry \union {None}]
    /\ \A t \in Token : tokens'[t] = tokens[t] \/ tokens'[t] = None
    /\ posts' \in [Request -> Post \union {None}]
    /\ \A r \in Request : posts'[r] = posts[r] \/ posts'[r] = None
    /\ now' \in Nat
    /\ UNCHANGED history

LEMMA TakesAwayInv ==
  ASSUME Inv, TakesAway
  PROVE  Inv'
<1> USE DEF Inv, TakesAway, history
<1>1. TypeOK'
  BY DEF TypeOK
<1>2. \A t \in Token : Live(t)' => Live(t)
  BY DEF Live
<1>3. EntriesAreMinted' /\ UnissuedIsClean'
  BY DEF EntriesAreMinted, UnissuedIsClean
<1>4. LiveIsUnspent' /\ SpentOnce'
  BY <1>2 DEF LiveIsUnspent, SpentOnce
<1>5. SessionKeepsStore' /\ PostsAreOwned'
  BY DEF SessionKeepsStore, PostsAreOwned
<1>6. SingleSession'
  BY <1>2 DEF SingleSession
<1>. QED
  BY <1>1, <1>3, <1>4, <1>5, <1>6

LEMMA RefuseTakesAway ==
  ASSUME TypeOK, NEW c \in Client, NEW t \in Token, Refuse(c, t),
         UNCHANGED <<now, posts>>
  PROVE  TakesAway
  BY DEF TypeOK, Refuse, TakesAway

-----------------------------------------------------------------------------
(* Minting: t is fresh, and the login it joins is its own or c's.          *)

LEMMA CreateTableInv ==
  ASSUME Inv, NEW c \in Client, NEW t \in Token, NEW login \in Token,
         CreateSessionToken(t, c, login), now' = now,
         posts' \in [Request -> Post \union {None}]
  PROVE  /\ TypeOK' /\ EntriesAreMinted' /\ UnissuedIsClean'
         /\ LiveIsUnspent' /\ SpentOnce'
         /\ Live(t)'
<1> DEFINE e == [clientID |-> c, expires |-> now + TTL, used |-> FALSE]
<1>1. e \in Entry /\ e # None
  <2>1. now + TTL \in Nat
    BY TimeAssumption DEF Inv, TypeOK
  <2>2. e \in Entry
    BY <2>1 DEF Entry
  <2>. QED  BY <2>2, NoneAssumption
<1>2. c # None
  BY NoneAssumption
<1> HIDE DEF e
<1>3. tokens' = [tokens EXCEPT ![t] = e]
  BY DEF CreateSessionToken, e
<1>4. TypeOK'
  <2>1. tokens' \in [Token -> Entry \union {None}]
    BY <1>1, <1>3 DEF Inv, TypeOK
  <2>2. /\ owner' \in [Token -> Client \union {None}]
        /\ issued' \in [Token -> Nat]
        /\ root' \in [Token -> Token]
        /\ spends' \in [Token -> Seq(Client)]
    BY DEF Inv, TypeOK, CreateSessionToken
  <2>. QED  BY <2>1, <2>2 DEF Inv, TypeOK
<1>5. e.clientID = c /\ e.expires = now + TTL /\ e.used = FALSE
  BY DEF e
<1>6. EntriesAreMinted'
  <2> SUFFICES ASSUME NEW u \in Token, tokens'[u] # None
               PROVE  /\ owner'[u] = tokens'[u].clientID
                      /\ tokens'[u].expires = issued'[u] + TTL
    BY DEF EntriesAreMinted
  <2>1. CASE u = t
    BY <2>1, <1>3, <1>5 DEF Inv, TypeOK, CreateSessionToken
  <2>2. CASE u # t
    BY <2>2, <1>3 DEF Inv, TypeOK, CreateSessionToken, EntriesAreMinted
  <2>. QED  BY <2>1, <2>2
<1>7. UnissuedIsClean'
  BY <1>2, <1>3 DEF Inv, TypeOK, CreateSessionToken, UnissuedIsClean
<1>8. LiveIsUnspent' /\ SpentOnce'
  BY <1>3 DEF Inv, TypeOK, CreateSessionToken, UnissuedIsClean,
              LiveIsUnspent, SpentOnce, Live
<1>9. Live(t)'
  BY <1>1, <1>3, <1>5 DEF Inv, TypeOK, Live
<1>. QED
  BY <1>4, <1>6, <1>7, <1>8, <1>9

\* A token that is live, or being spent, descends from a login that happened.
LEMMA RootsAreIssued ==
  ASSUME Inv
  PROVE  /\ \A u \in Token : owner[u] # None => owner[root[u]] # None
         /\ \A u \in Token : Live(u) => owner[u] # None
         /\ \A r \in Request : posts[r] # None =>
               /\ posts[r].token \in Token
               /\ posts[r].client \in Client
               /\ owner[posts[r].token] # None
               /\ owner[root[posts[r].token]] # None
  BY NoneAssumption, PostFields
  DEF Inv, TypeOK, Live, UnissuedIsClean, SessionKeepsStore, PostsAreOwned

\* What a mint does to the store and login of every other token: nothing.
LEMMA CreateFrame ==
  ASSUME Inv, NEW c \in Client, NEW t \in Token, NEW login \in Token,
         CreateSessionToken(t, c, login)
  PROVE  /\ owner[t] = None /\ owner'[t] = c /\ root'[t] = login
         /\ \A u \in Token : u # t =>
               /\ owner'[u] = owner[u] /\ root'[u] = root[u]
               /\ Live(u)' = Live(u)
         /\ \A u \in Token : owner[u] # None =>
               u # t /\ root[u] # t /\ owner'[root[u]] = owner[root[u]]
         /\ \A r \in Request : posts[r] # None =>
               posts[r].token # t /\ root[posts[r].token] # t
<1>1. /\ owner[t] = None /\ owner'[t] = c /\ root'[t] = login
      /\ \A u \in Token : u # t =>
            /\ owner'[u] = owner[u] /\ root'[u] = root[u]
            /\ tokens'[u] = tokens[u]
  BY DEF Inv, TypeOK, CreateSessionToken
<1>2. \A u \in Token : owner[u] # None =>
         u # t /\ root[u] # t /\ owner'[root[u]] = owner[root[u]]
  <2> SUFFICES ASSUME NEW u \in Token, owner[u] # None
               PROVE  u # t /\ root[u] # t /\ owner'[root[u]] = owner[root[u]]
    OBVIOUS
  <2>1. root[u] \in Token /\ owner[root[u]] # None
    BY RootsAreIssued DEF Inv, TypeOK
  <2>. QED  BY <2>1, <1>1
<1>3. \A r \in Request : posts[r] # None =>
         posts[r].token # t /\ root[posts[r].token] # t
  BY <1>1, RootsAreIssued
<1>. QED
  BY <1>1, <1>2, <1>3 DEF Live

\* A mint keeps every session with its store, if its login is that store's.
LEMMA CreateKeepsStore ==
  ASSUME Inv, NEW c \in Client, NEW t \in Token, NEW login \in Token,
         CreateSessionToken(t, c, login), owner'[login] = c,
         \A r \in Request : posts'[r] = posts[r] \/ posts'[r] = None
  PROVE  SessionKeepsStore' /\ PostsAreOwned'
<1>1. \A u \in Token : owner'[u] # None => owner'[root'[u]] = owner'[u]
  <2> SUFFICES ASSUME NEW u \in Token, owner'[u] # None
               PROVE  owner'[root'[u]] = owner'[u]
    OBVIOUS
  <2>1. CASE u = t
    BY <2>1, CreateFrame
  <2>2. CASE u # t
    BY <2>2, CreateFrame DEF Inv, SessionKeepsStore
  <2>. QED  BY <2>1, <2>2
<1>2. \A r \in Request : posts'[r] # None =>
         /\ owner'[root'[posts'[r].token]] = posts'[r].client
         /\ owner'[posts'[r].token] = posts'[r].client
  <2> SUFFICES ASSUME NEW r \in Request, posts'[r] # None
               PROVE  /\ owner'[root'[posts'[r].token]] = posts'[r].client
                      /\ owner'[posts'[r].token] = posts'[r].client
    OBVIOUS
  <2>1. posts'[r] = posts[r] /\ posts[r] # None
    OBVIOUS
  <2>2. posts[r].token \in Token /\ owner[posts[r].token] # None
    BY <2>1, RootsAreIssued
  <2>3. posts[r].token # t
    BY <2>1, CreateFrame
  <2>4. /\ root'[posts[r].token] = root[posts[r].token]
        /\ owner'[posts[r].token] = owner[posts[r].token]
        /\ owner'[root[posts[r].token]] = owner[root[posts[r].token]]
    BY <2>2, <2>3, CreateFrame
  <2>. QED  BY <2>1, <2>4 DEF Inv, SessionKeepsStore, PostsAreOwned
<1>. QED
  BY <1>1, <1>2 DEF SessionKeepsStore, PostsAreOwned

LEMMA LoginInv ==
  ASSUME Inv, NEW c \in Client, Login(c)
  PROVE  Inv'
<1>1. PICK t \in Token : CreateSessionToken(t, c, t)
  BY DEF Login
<1>2. now' = now /\ posts' = posts /\ posts' \in [Request -> Post \union {None}]
  BY DEF Login, Inv, TypeOK
<1>3. /\ TypeOK' /\ EntriesAreMinted' /\ UnissuedIsClean'
      /\ LiveIsUnspent' /\ SpentOnce'
  BY <1>1, <1>2, CreateTableInv
<1>4. SessionKeepsStore' /\ PostsAreOwned'
  BY <1>1, <1>2, CreateFrame, CreateKeepsStore
\* Only t has login t: the tokens minted before have logins minted before.
<1>5. \A u \in Token : u # t /\ Live(u)' =>
         Live(u) /\ root'[u] = root[u] /\ root[u] # t
  BY <1>1, CreateFrame, RootsAreIssued
<1>6. \A r \in Request : posts[r] # None =>
         /\ root[posts[r].token] # t
         /\ root'[posts[r].token] = root[posts[r].token]
  BY <1>1, CreateFrame, RootsAreIssued
<1>7. root'[t] = t
  BY <1>1, CreateFrame
<1>8. SingleSession'
  BY <1>2, <1>5, <1>6, <1>7 DEF Inv, SingleSession
<1>. QED
  BY <1>3, <1>4, <1>8 DEF Inv

LEMMA AnswerSavedInv ==
  ASSUME Inv, NEW r \in Request, AnswerSaved(r)
  PROVE  Inv'
<1> DEFINE p == posts[r].token
           c == posts[r].client
<1>1. /\ posts[r] # None /\ p \in Token /\ c \in Client /\ root[p] \in Token
      /\ owner[root[p]] = c
  BY PostFields DEF AnswerSaved, Inv, TypeOK, SessionKeepsStore
<1>2. PICK t \in Token : CreateSessionToken(t, c, root[p])
  BY DEF AnswerSaved
<1>3. /\ now' = now /\ posts' = [posts EXCEPT ![r] = None]
      /\ posts' \in [Request -> Post \union {None}]
      /\ posts'[r] = None
      /\ \A q \in Request : q # r => posts'[q] = posts[q]
  BY DEF AnswerSaved, Inv, TypeOK
<1> HIDE DEF p, c
<1>4. /\ TypeOK' /\ EntriesAreMinted' /\ UnissuedIsClean'
      /\ LiveIsUnspent' /\ SpentOnce'
  BY <1>1, <1>2, <1>3, CreateTableInv
<1>5. root'[t] = root[p] /\ owner'[root[p]] = c
  <2>1. root[p] # t
    BY <1>1, <1>2, CreateFrame DEF p
  <2>. QED  BY <2>1, <1>1, <1>2, CreateFrame
<1>6. SessionKeepsStore' /\ PostsAreOwned'
  BY <1>1, <1>2, <1>3, <1>5, CreateKeepsStore
\* The login leaves the form and passes to t; no other token or form has it.
<1>7. \A u \in Token : u # t /\ Live(u)' =>
         Live(u) /\ root'[u] = root[u] /\ root[u] # root[p]
  <2>1. \A u \in Token : Live(u) => root[u] # root[p]
    BY <1>1 DEF Inv, SingleSession, p
  <2>. QED  BY <2>1, <1>1, <1>2, CreateFrame
<1>8. \A q \in Request : q # r /\ posts[q] # None =>
         /\ root'[posts[q].token] = root[posts[q].token]
         /\ root[posts[q].token] # root[p]
  <2>1. \A q \in Request : q # r /\ posts[q] # None => root[posts[q].token] # root[p]
    BY <1>1 DEF Inv, SingleSession, p
  <2>2. \A q \in Request : posts[q] # None => root'[posts[q].token] = root[posts[q].token]
    BY <1>1, <1>2, CreateFrame, RootsAreIssued
  <2>. QED  BY <2>1, <2>2
<1>9. SingleSession'
  BY <1>3, <1>5, <1>7, <1>8 DEF Inv, SingleSession
<1>. QED
  BY <1>4, <1>6, <1>9 DEF Inv

-----------------------------------------------------------------------------
(* Consuming: the token stops being live and is accepted for the last time. *)

LEMMA ConsumeFrame ==
  ASSUME Inv, NEW c \in Client, NEW t \in Token, ConsumeSessionToken(c, t)
  PROVE  /\ Live(t) /\ owner[t] = c /\ spends[t] = <<>>
         /\ tokens' \in [Token -> Entry \union {None}]
         /\ spends' \in [Token -> Seq(Client)] /\ Len(spends'[t]) = 1
         /\ ~ Live(t)'
         /\ tokens'[t].clientID = tokens[t].clientID
         /\ tokens'[t].expires = tokens[t].expires
         /\ \A u \in Token : u # t =>
               tokens'[u] = tokens[u] /\ spends'[u] = spends[u] /\ Live(u)' = Live(u)
         /\ UNCHANGED <<owner, issued, root>>
<1>1. tokens[t] \in Entry /\ ~ tokens[t].used /\ tokens[t].clientID = c /\ tokens[t] # None
  BY DEF Inv, TypeOK, ConsumeSessionToken, Accepts
<1>2. tokens' = [tokens EXCEPT ![t] = [tokens[t] EXCEPT !.used = TRUE]]
  BY DEF ConsumeSessionToken
<1>3. /\ [tokens[t] EXCEPT !.used = TRUE] \in Entry
      /\ [tokens[t] EXCEPT !.used = TRUE].used
      /\ [tokens[t] EXCEPT !.used = TRUE].clientID = tokens[t].clientID
      /\ [tokens[t] EXCEPT !.used = TRUE].expires = tokens[t].expires
  BY <1>1 DEF Entry
<1>4. /\ tokens' \in [Token -> Entry \union {None}]
      /\ tokens'[t] = [tokens[t] EXCEPT !.used = TRUE]
      /\ \A u \in Token : u # t => tokens'[u] = tokens[u]
  BY <1>2, <1>3 DEF Inv, TypeOK
<1>5. Live(t) /\ ~ Live(t)' /\ \A u \in Token : u # t => Live(u)' = Live(u)
  BY <1>1, <1>3, <1>4 DEF Live
<1>6. owner[t] = c /\ spends[t] = <<>>
  BY <1>1, <1>5 DEF Inv, EntriesAreMinted, LiveIsUnspent
<1>7. /\ spends' \in [Token -> Seq(Client)] /\ Len(spends'[t]) = 1
      /\ \A u \in Token : u # t => spends'[u] = spends[u]
  BY <1>6 DEF Inv, TypeOK, ConsumeSessionToken
<1>. QED
  BY <1>3, <1>4, <1>5, <1>6, <1>7 DEF ConsumeSessionToken

\* The caller may be a form, which then holds the token, or an uninstall.
LEMMA ConsumeInv ==
  ASSUME Inv, NEW c \in Client, NEW t \in Token, ConsumeSessionToken(c, t),
         now' = now,
         \/ UNCHANGED posts
         \/ \E r \in Request : /\ posts[r] = None
                               /\ posts' = [posts EXCEPT ![r] = [client |-> c, token |-> t]]
  PROVE  Inv'
<1> USE ConsumeFrame
<1>1. PICK new \in SUBSET Request :
         /\ posts' \in [Request -> Post \union {None}]
         /\ \A q \in Request : q \notin new => posts'[q] = posts[q]
         /\ \A q, s \in new : q = s
         /\ \A q \in new : /\ posts[q] = None /\ posts'[q] # None
                           /\ posts'[q].client = c /\ posts'[q].token = t
  <2>1. CASE UNCHANGED posts
    BY <2>1, {} \in SUBSET Request DEF Inv, TypeOK
  <2>2. ASSUME NEW r \in Request, posts[r] = None,
               posts' = [posts EXCEPT ![r] = [client |-> c, token |-> t]]
        PROVE  /\ posts' \in [Request -> Post \union {None}]
               /\ \A q \in Request : q \notin {r} => posts'[q] = posts[q]
               /\ posts'[r] # None /\ posts'[r].client = c /\ posts'[r].token = t
    <3>1. [client |-> c, token |-> t] \in Post
      BY DEF Post
    <3>. QED  BY <2>2, <3>1, NoneAssumption DEF Inv, TypeOK
  <2>. QED
    <3>1. CASE UNCHANGED posts
      BY <3>1, <2>1
    <3>2. CASE \E r \in Request : /\ posts[r] = None
                                  /\ posts' = [posts EXCEPT ![r] = [client |-> c, token |-> t]]
      <4>1. PICK r \in Request : /\ posts[r] = None
                                 /\ posts' = [posts EXCEPT ![r] = [client |-> c, token |-> t]]
        BY <3>2
      <4>2. /\ posts' \in [Request -> Post \union {None}]
            /\ \A q \in Request : q \notin {r} => posts'[q] = posts[q]
            /\ posts'[r] # None /\ posts'[r].client = c /\ posts'[r].token = t
        BY <4>1, <2>2
      <4>3. /\ \A q, s \in {r} : q = s
            /\ \A q \in {r} : /\ posts[q] = None /\ posts'[q] # None
                               /\ posts'[q].client = c /\ posts'[q].token = t
        BY <4>1, <4>2
      <4>. WITNESS {r} \in SUBSET Request
      <4>. QED  BY <4>2, <4>3
    <3>. QED  BY <3>1, <3>2
<1>2. TypeOK'
  BY <1>1 DEF Inv, TypeOK
<1>3. EntriesAreMinted'
  <2> SUFFICES ASSUME NEW u \in Token, tokens'[u] # None
               PROVE  owner[u] = tokens'[u].clientID /\ tokens'[u].expires = issued[u] + TTL
    BY DEF EntriesAreMinted
  <2>1. CASE u = t
    BY <2>1 DEF Inv, EntriesAreMinted, Live
  <2>2. CASE u # t
    BY <2>2 DEF Inv, EntriesAreMinted
  <2>. QED  BY <2>1, <2>2
<1>4. UnissuedIsClean'
  BY NoneAssumption DEF Inv, UnissuedIsClean
<1>5. LiveIsUnspent' /\ SpentOnce'
  <2>1. ASSUME NEW u \in Token, Live(u)' PROVE spends'[u] = <<>>
    BY <2>1 DEF Inv, LiveIsUnspent
  <2>2. ASSUME NEW u \in Token PROVE Len(spends'[u]) =< 1
    <3> DEFINE n == Len(spends'[u])
    <3>1. CASE u = t
      <4>1. n = 1
        BY <3>1, ConsumeFrame
      <4>. HIDE DEF n
      <4>2. n =< 1
        BY ONLY <4>1
      <4>. QED  BY ONLY <4>2 DEF n
    <3>2. CASE u # t
      BY <3>2 DEF Inv, SpentOnce
    <3>. QED  BY <3>1, <3>2
  <2>. QED  BY <2>1, <2>2 DEF LiveIsUnspent, SpentOnce
<1>6. PostsAreOwned' /\ SessionKeepsStore'
  <2>1. owner[root[t]] = c
    BY NoneAssumption DEF Inv, SessionKeepsStore
  <2>. QED  BY <1>1, <2>1 DEF Inv, PostsAreOwned, SessionKeepsStore
<1>7. SingleSession'
  <2>1. \A u \in Token : Live(u)' => u # t /\ Live(u) /\ root[u] # root[t]
    BY DEF Inv, SingleSession
  <2>2. \A q \in Request : posts[q] # None => root[posts[q].token] # root[t]
    BY DEF Inv, SingleSession
  <2>3. root' = root
    BY DEF ConsumeSessionToken
  <2>4. \A u, w \in Token : Live(u)' /\ Live(w)' /\ root'[u] = root'[w] => u = w
    BY <2>1, <2>3 DEF Inv, SingleSession
  <2>5. ASSUME NEW u \in Token, NEW q \in Request, Live(u)', posts'[q] # None
        PROVE  root'[u] # root'[posts'[q].token]
    <3>1. CASE q \in new
      BY <1>1, <2>1, <2>3, <2>5, <3>1
    <3>2. CASE q \notin new
      BY <1>1, <2>1, <2>3, <2>5, <3>2 DEF Inv, SingleSession
    <3>. QED  BY <3>1, <3>2
  <2>6. ASSUME NEW q \in Request, NEW s \in Request, posts'[q] # None, posts'[s] # None,
               root'[posts'[q].token] = root'[posts'[s].token]
        PROVE  q = s
    <3>1. CASE q \in new \/ s \in new
      BY <1>1, <2>2, <2>3, <2>6, <3>1
    <3>2. CASE q \notin new /\ s \notin new
      BY <1>1, <2>3, <2>6, <3>2 DEF Inv, SingleSession
    <3>. QED  BY <3>1, <3>2
  <2>. QED  BY <2>4, <2>5, <2>6 DEF SingleSession
<1>. QED
  BY <1>2, <1>3, <1>4, <1>5, <1>6, <1>7 DEF Inv

-----------------------------------------------------------------------------
(* The steps, one by one.                                                  *)

LEMMA NextInv == Inv /\ [Next]_vars => Inv'
<1> SUFFICES ASSUME Inv, [Next]_vars PROVE Inv'
  OBVIOUS
<1>1. ASSUME NEW c \in Client, Login(c) PROVE Inv'
  BY <1>1, LoginInv
<1>2. ASSUME NEW c \in Client, NEW t \in Token, ViewSettings(c, t) PROVE Inv'
  <2>1. CASE UNCHANGED <<tokens, history>>
    BY <1>2, <2>1, TakesAwayInv DEF ViewSettings, TakesAway, Inv, TypeOK
  <2>2. CASE Refuse(c, t)
    BY <1>2, <2>2, RefuseTakesAway, TakesAwayInv DEF ViewSettings, Inv
  <2>. QED  BY <1>2, <2>1, <2>2 DEF ViewSettings
<1>3. ASSUME NEW r \in Request, NEW c \in Client, NEW t \in Token, SubmitSettings(r, c, t)
      PROVE  Inv'
  <2>1. CASE Refuse(c, t) /\ UNCHANGED posts
    BY <1>3, <2>1, RefuseTakesAway, TakesAwayInv DEF SubmitSettings, Inv
  <2>2. CASE /\ ConsumeSessionToken(c, t)
             /\ posts' = [posts EXCEPT ![r] = [client |-> c, token |-> t]]
    BY <1>3, <2>2, ConsumeInv DEF SubmitSettings
  <2>. QED  BY <1>3, <2>1, <2>2 DEF SubmitSettings
<1>4. ASSUME NEW r \in Request, AnswerSaved(r) PROVE Inv'
  BY <1>4, AnswerSavedInv
<1>5. ASSUME NEW r \in Request, AnswerError(r) PROVE Inv'
  BY <1>5, TakesAwayInv DEF AnswerError, TakesAway, Inv, TypeOK
<1>6. ASSUME NEW c \in Client, NEW t \in Token, Uninstall(c, t) PROVE Inv'
  <2>1. CASE Refuse(c, t)
    BY <1>6, <2>1, RefuseTakesAway, TakesAwayInv DEF Uninstall, Inv
  <2>2. CASE ConsumeSessionToken(c, t)
    BY <1>6, <2>2, ConsumeInv DEF Uninstall
  <2>. QED  BY <1>6, <2>1, <2>2 DEF Uninstall
<1>7. CASE Restart
  BY <1>7, TakesAwayInv DEF Restart, TakesAway, Inv, TypeOK
<1>8. CASE Tick
  BY <1>8, TakesAwayInv DEF Tick, TakesAway, Inv, TypeOK
<1>9. CASE UNCHANGED vars
  BY <1>9, TakesAwayInv DEF vars, history, TakesAway, Inv, TypeOK
<1>. QED
  BY <1>1, <1>2, <1>3, <1>4, <1>5, <1>6, <1>7, <1>8, <1>9 DEF Next

THEOREM InvHolds == Spec => []Inv
  BY InitInv, NextInv, PTL DEF Spec

\* Every variable keeps its type.
THEOREM TypeCorrect == Spec => []TypeOK
<1>1. Inv => TypeOK
  BY DEF Inv
<1>. QED
  BY <1>1, InvHolds, PTL

\* consumeSessionToken accepts no token twice, whoever races for it.
THEOREM NoTokenSpentTwice == Spec => []SpentOnce
<1>1. Inv => SpentOnce
  BY DEF Inv
<1>. QED
  BY <1>1, InvHolds, PTL

\* A login never gives two sessions, whatever forms and uninstalls race.
THEOREM OneSessionPerLogin == Spec => []SingleSession
<1>1. Inv => SingleSession
  BY DEF Inv
<1>. QED
  BY <1>1, InvHolds, PTL

\* The tokens that settingsHandler mints stay with the store of the login.
THEOREM SessionsKeepTheirStore == Spec => []SessionKeepsStore
<1>1. Inv => SessionKeepsStore
  BY DEF Inv
<1>. QED
  BY <1>1, InvHolds, PTL

-----------------------------------------------------------------------------
(* The table implements one-time tokens.                                   *)

LEMMA InitRefines == Init => OneTime!AInit
  BY DEF Init, OneTime!AInit, TokenStatus

LEMMA CreateRefines ==
  ASSUME Inv, NEW c \in Client, NEW t \in Token, NEW login \in Token,
         CreateSessionToken(t, c, login), now' = now,
         posts' \in [Request -> Post \union {None}]
  PROVE  OneTime!Issue(t, c)
<1> DEFINE dl(u) == IF owner[u] = None THEN 0 ELSE issued[u] + TTL
<1>1. c # None
  BY NoneAssumption
<1>2. Live(t)'
  BY CreateTableInv
<1>3. /\ TokenStatus(t) = "unissued" /\ TokenStatus(t)' = "live"
      /\ \A u \in Token : u # t => TokenStatus(u)' = TokenStatus(u)
  BY <1>1, <1>2, CreateFrame DEF TokenStatus
<1>4. /\ dl(t)' = now + TTL
      /\ \A u \in Token : u # t => dl(u)' = dl(u)
  BY <1>1, CreateFrame DEF CreateSessionToken, Inv, TypeOK
<1>5. owner' = [owner EXCEPT ![t] = c]
  BY DEF CreateSessionToken
<1>6. [u \in Token |-> TokenStatus(u)]' = [[u \in Token |-> TokenStatus(u)] EXCEPT ![t] = "live"]
  BY <1>3
<1>7. [u \in Token |-> dl(u)]' = [[u \in Token |-> dl(u)] EXCEPT ![t] = now + TTL]
  BY <1>4
<1>. QED
  BY <1>3, <1>5, <1>6, <1>7 DEF OneTime!Issue, CreateSessionToken

LEMMA ConsumeRefines ==
  ASSUME Inv, NEW c \in Client, NEW t \in Token, ConsumeSessionToken(c, t),
         now' = now
  PROVE  OneTime!Spend(t)
<1> USE ConsumeFrame
<1>1. owner[t] # None
  BY NoneAssumption
<1>2. /\ TokenStatus(t) = "live" /\ TokenStatus(t)' = "gone"
      /\ \A u \in Token : u # t => TokenStatus(u)' = TokenStatus(u)
  BY <1>1 DEF TokenStatus
<1>3. now =< issued[t] + TTL
  BY DEF Inv, EntriesAreMinted, ConsumeSessionToken, Accepts
<1>4. [u \in Token |-> TokenStatus(u)]' = [[u \in Token |-> TokenStatus(u)] EXCEPT ![t] = "gone"]
  BY <1>2
<1>5. spends' = [spends EXCEPT ![t] = Append(@, owner[t])]
  BY DEF ConsumeSessionToken
<1>. QED
  BY <1>1, <1>2, <1>3, <1>4, <1>5 DEF OneTime!Spend

\* A step that only takes entries away revokes those that were live.
LEMMA TakesAwayRefines ==
  ASSUME Inv, TakesAway, now' = now
  PROVE  OneTime!Revoke
<1>1. \A u \in Token : \/ TokenStatus(u)' = TokenStatus(u)
                       \/ TokenStatus(u) = "live" /\ TokenStatus(u)' = "gone"
  BY DEF TakesAway, history, TokenStatus, Live
<1>2. \A u \in Token : TokenStatus(u)' \in {"unissued", "live", "gone"}
  BY DEF TokenStatus
<1>. QED
  BY <1>1, <1>2 DEF OneTime!Revoke, TakesAway, history

LEMMA StepRefines == Inv /\ [Next]_vars => [OneTime!ANext]_(OneTime!avars)
<1> SUFFICES ASSUME Inv, [Next]_vars PROVE [OneTime!ANext]_(OneTime!avars)
  OBVIOUS
<1> USE DEF OneTime!ANext
<1>1. ASSUME NEW c \in Client, Login(c) PROVE OneTime!ANext
  BY <1>1, CreateRefines DEF Login, Inv, TypeOK
<1>2. ASSUME NEW c \in Client, NEW t \in Token, ViewSettings(c, t) PROVE OneTime!ANext
  <2>1. CASE UNCHANGED <<tokens, history>>
    <3>1. TakesAway /\ now' = now
      BY <1>2, <2>1 DEF ViewSettings, TakesAway, Inv, TypeOK
    <3>. QED  BY <3>1, TakesAwayRefines
  <2>2. CASE Refuse(c, t)
    <3>1. TakesAway /\ now' = now
      BY <1>2, <2>2, RefuseTakesAway DEF ViewSettings, Inv
    <3>. QED  BY <3>1, TakesAwayRefines
  <2>. QED  BY <1>2, <2>1, <2>2 DEF ViewSettings
<1>3. ASSUME NEW r \in Request, NEW c \in Client, NEW t \in Token, SubmitSettings(r, c, t)
      PROVE  OneTime!ANext
  <2>1. CASE Refuse(c, t) /\ UNCHANGED posts
    <3>1. TakesAway /\ now' = now
      BY <1>3, <2>1, RefuseTakesAway DEF SubmitSettings, Inv
    <3>. QED  BY <3>1, TakesAwayRefines
  <2>2. CASE ConsumeSessionToken(c, t)
    BY <1>3, <2>2, ConsumeRefines DEF SubmitSettings
  <2>. QED  BY <1>3, <2>1, <2>2 DEF SubmitSettings
<1>4. ASSUME NEW r \in Request, AnswerSaved(r) PROVE OneTime!ANext
  <2>1. /\ posts[r].client \in Client /\ root[posts[r].token] \in Token
        /\ posts' \in [Request -> Post \union {None}]
    BY <1>4, PostFields DEF AnswerSaved, Inv, TypeOK
  <2>. QED  BY <1>4, <2>1, CreateRefines DEF AnswerSaved
<1>5. ASSUME NEW r \in Request, AnswerError(r) PROVE OneTime!ANext
  <2>1. TakesAway /\ now' = now
    BY <1>5 DEF AnswerError, TakesAway, Inv, TypeOK
  <2>. QED  BY <2>1, TakesAwayRefines
<1>6. ASSUME NEW c \in Client, NEW t \in Token, Uninstall(c, t) PROVE OneTime!ANext
  <2>1. CASE Refuse(c, t)
    <3>1. TakesAway /\ now' = now
      BY <1>6, <2>1, RefuseTakesAway DEF Uninstall, Inv
    <3>. QED  BY <3>1, TakesAwayRefines
  <2>2. CASE ConsumeSessionToken(c, t)
    BY <1>6, <2>2, ConsumeRefines DEF Uninstall
  <2>. QED  BY <1>6, <2>1, <2>2 DEF Uninstall
<1>7. ASSUME Restart PROVE OneTime!ANext
  <2>1. TakesAway /\ now' = now
    BY <1>7 DEF Restart, TakesAway, Inv, TypeOK
  <2>. QED  BY <2>1, TakesAwayRefines
<1>8. ASSUME Tick PROVE OneTime!ANext
  BY <1>8 DEF Tick, OneTime!Advance, history, TokenStatus, Live
<1>9. CASE UNCHANGED vars
  BY <1>9 DEF vars, OneTime!avars, TokenStatus, Live
<1>. QED
  BY <1>1, <1>2, <1>3, <1>4, <1>5, <1>6, <1>7, <1>8, <1>9 DEF Next

\* Every run of the table is a run of one-time tokens: a token is accepted at
\* most once, for the store it was minted for and in time, and one that is
\* used, refused, expired or lost in a restart is never good again.
THEOREM TableImplementsOneTime == Spec => ImplementsOneTime
  BY InitRefines, StepRefines, InvHolds, PTL DEF Spec, ImplementsOneTime, OneTime!ASpec
=============================================================================
