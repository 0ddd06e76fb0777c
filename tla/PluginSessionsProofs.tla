------------------------ MODULE PluginSessionsProofs ------------------------
(***************************************************************************)
(* Proofs about PluginSessions, for any number of stores, tokens and       *)
(* requests.                                                               *)
(*                                                                         *)
(* Seen from the table every step is one of SessionTokens, so that its     *)
(* invariant holds here as well.  With it, and with forms that stay with   *)
(* their store (FormsAreOwned), every step is one of PluginLifecycle,      *)
(* whose invariants hold here in turn.                                     *)
(***************************************************************************)
EXTENDS PluginSessions, TLAPS

TP == INSTANCE SessionTokensProofs WITH posts <- saving
PP == INSTANCE PluginLifecycleProofs WITH Post <- Form, Session <- Token, live <- Accepted

LEMMA TableAssumptions == TP!NoneAssumption /\ TP!TimeAssumption
<1>1. TP!Entry = T!Entry /\ TP!Post = T!Post
  BY DEF TP!Entry, T!Entry, TP!Post, T!Post
<1>. QED  BY <1>1, AbsentAssumption, TimesAssumption DEF TP!NoneAssumption, TP!TimeAssumption

-----------------------------------------------------------------------------
(* The table.                                                              *)

LEMMA InitTable == Init => TP!Init
  BY DEF Init, T!Init, TP!Init

\* The operations on the table are those of SessionTokens.
LEMMA TableOperations ==
  ASSUME NEW c \in Client, NEW t \in Token
  PROVE  /\ T!Accepts(c, t) <=> TP!Accepts(c, t)
         /\ T!Refuse(c, t) <=> TP!Refuse(c, t)
         /\ T!ConsumeSessionToken(c, t) <=> TP!ConsumeSessionToken(c, t)
         /\ \A login : T!CreateSessionToken(t, c, login) <=> TP!CreateSessionToken(t, c, login)
  BY DEF T!Accepts, TP!Accepts, T!Refuse, TP!Refuse, T!history, TP!history,
         T!ConsumeSessionToken, TP!ConsumeSessionToken,
         T!CreateSessionToken, TP!CreateSessionToken

LEMMA TableHandlers ==
  ASSUME NEW c \in Client
  PROVE  /\ T!Login(c) => TP!Next
         /\ \A t \in Token : T!Uninstall(c, t) => TP!Next
         /\ \A t \in Token, r \in Request : T!SubmitSettings(r, c, t) => TP!Next
<1>1. T!Login(c) => TP!Login(c)
  BY TableOperations DEF T!Login, TP!Login
<1>2. ASSUME NEW t \in Token, T!Uninstall(c, t)
      PROVE  TP!Uninstall(c, t)
  BY <1>2, TableOperations DEF T!Uninstall, TP!Uninstall
<1>3. ASSUME NEW t \in Token, NEW r \in Request, T!SubmitSettings(r, c, t)
      PROVE  TP!SubmitSettings(r, c, t)
  BY <1>3, TableOperations DEF T!SubmitSettings, TP!SubmitSettings
<1>. QED  BY <1>1, <1>2, <1>3 DEF TP!Next

LEMMA TableAnswers ==
  ASSUME NEW r \in Request
  PROVE  T!AnswerSaved(r) \/ T!AnswerError(r) => TP!Next
<1>1. T!AnswerSaved(r) => TP!AnswerSaved(r)
  BY DEF T!AnswerSaved, TP!AnswerSaved, T!CreateSessionToken, TP!CreateSessionToken
<1>2. T!AnswerError(r) => TP!AnswerError(r)
  BY DEF T!AnswerError, TP!AnswerError, T!history, TP!history
<1>. QED  BY <1>1, <1>2 DEF TP!Next

LEMMA StepTable == [Next]_vars => [TP!Next]_(TP!vars)
<1> SUFFICES ASSUME [Next]_vars PROVE [TP!Next]_(TP!vars)
  OBVIOUS
<1>0. UNCHANGED table => UNCHANGED TP!vars
  BY DEF table, TP!vars
<1>1. ASSUME NEW k \in Callback, MintSession(k) \/ CallbackGoesOn(k)
      PROVE  [TP!Next]_(TP!vars)
  BY <1>0, <1>1, TableHandlers, StoreAssumption DEF MintSession, CallbackGoesOn
<1>2. ASSUME NEW p \in Form, NEW t \in Token, SubmitForm(p, t)
      PROVE  TP!Next
  BY <1>2, TableHandlers, StoreAssumption DEF SubmitForm
<1>3. ASSUME NEW p \in Form, AnswerForm(p) \/ FormFails(p)
      PROVE  TP!Next
  BY <1>3, TableAnswers, StoreAssumption DEF AnswerForm, FormFails
<1>4. ASSUME NEW p \in Form, FormGoesOn(p)
      PROVE  UNCHANGED TP!vars
  BY <1>0, <1>4 DEF FormGoesOn
<1>5. ASSUME NEW u \in Removal, HandleUninstall(u) \/ CleanupPluginData(u)
      PROVE  [TP!Next]_(TP!vars)
  <2>1. ASSUME NEW t \in Token, T!ConsumeSessionToken(Store, t), UNCHANGED <<now, saving>>
        PROVE  TP!Next
    BY <2>1, TableHandlers, StoreAssumption DEF T!Uninstall
  <2>. QED  BY <1>0, <1>5, <2>1 DEF HandleUninstall, CleanupPluginData
<1>6. CASE Others
  BY <1>0, <1>6 DEF Others
<1>7. CASE Restart
  <2>1. T!Restart => TP!Restart
    BY DEF T!Restart, TP!Restart, T!history, TP!history
  <2>. QED  BY <1>7, <2>1 DEF Restart, TP!Next
<1>8. ASSUME NEW c \in Client, NEW t \in Token, Present(c, t)
      PROVE  TP!Next
  BY <1>8, TableHandlers DEF Present, T!Uninstall
<1>9. ASSUME NEW c \in Client, OtherStore(c)
      PROVE  TP!Next
  BY <1>9, TableHandlers DEF OtherStore
<1>10. ASSUME NEW r \in Request \ Form, AnswerOther(r)
       PROVE  TP!Next
  BY <1>10, TableAnswers DEF AnswerOther
<1>11. CASE Tick
  <2>1. T!Tick => TP!Tick
    BY DEF T!Tick, TP!Tick, T!history, TP!history
  <2>. QED  BY <1>11, <2>1 DEF Tick, TP!Next
<1>12. CASE UNCHANGED vars
  BY <1>0, <1>12 DEF vars
<1>. QED  BY <1>1, <1>2, <1>3, <1>4, <1>5, <1>6, <1>7, <1>8, <1>9, <1>10, <1>11, <1>12 DEF Next

\* What SessionTokens keeps of the table is kept in the composition.
LEMMA TableInv == Spec => []TP!Inv
<1>1. Spec => TP!Spec
  BY InitTable, StepTable, PTL DEF Spec, TP!Spec
<1>. QED  BY <1>1, TP!InvHolds, TableAssumptions, PTL

\* The part of that invariant the rest relies on.
LEMMA TableFacts ==
  ASSUME TP!Inv
  PROVE  /\ T!TypeOK
         /\ \A t \in Token : owner[t] = None => tokens[t] = None
         /\ \A t \in Token : tokens[t] # None => owner[t] = tokens[t].clientID
         /\ \A t \in Token : owner[t] # None => owner[root[t]] = owner[t]
         /\ \A r \in Request : saving[r] # None =>
               /\ saving[r].client \in Client /\ saving[r].token \in Token
               /\ owner[saving[r].token] = saving[r].client
<1>1. T!TypeOK
  BY DEF TP!Inv, TP!TypeOK, T!TypeOK, TP!Entry, T!Entry, TP!Post, T!Post
<1>2. \A r \in Request : saving[r] # None =>
         saving[r].client \in Client /\ saving[r].token \in Token
  BY <1>1 DEF T!TypeOK, T!Post
<1>. QED
  BY <1>1, <1>2 DEF TP!Inv, TP!UnissuedIsClean, TP!EntriesAreMinted,
                    TP!SessionKeepsStore, TP!PostsAreOwned

-----------------------------------------------------------------------------
(* The tokens that would be accepted for the store.                        *)

LEMMA MintAccepted ==
  ASSUME TP!Inv, NEW c \in Client, NEW t \in Token, NEW login,
         T!CreateSessionToken(t, c, login), now' = now
  PROVE  /\ t \in Token \ Accepted
         /\ Accepted' = IF c = Store THEN Accepted \union {t} ELSE Accepted
<1> DEFINE e == [clientID |-> c, expires |-> now + TTL, used |-> FALSE]
<1>1. owner[t] = None /\ tokens[t] = None
  BY TableFacts DEF T!CreateSessionToken
<1>2. tokens' = [tokens EXCEPT ![t] = e]
  BY DEF T!CreateSessionToken
<1>3. e # None /\ e.clientID = c /\ ~ e.used /\ now <= e.expires
  <2>1. now \in Nat /\ now + TTL \in Nat /\ now <= now + TTL
    BY TableFacts, TimesAssumption DEF T!TypeOK
  <2>2. e \in T!Entry
    BY <2>1 DEF T!Entry
  <2>. QED  BY <2>1, <2>2, AbsentAssumption
<1> HIDE DEF e
<1>4. tokens \in [Token -> T!Entry \union {None}]
  BY TableFacts DEF T!TypeOK
<1>5. \A u \in Token : T!Accepts(Store, u)' <=>
         IF u = t THEN c = Store ELSE T!Accepts(Store, u)
  BY <1>2, <1>3, <1>4 DEF T!Accepts
<1>6. ~ T!Accepts(Store, t)
  BY <1>1 DEF T!Accepts
<1>. QED  BY <1>5, <1>6 DEF Accepted

LEMMA ConsumeAccepted ==
  ASSUME TP!Inv, NEW c \in Client, NEW t \in Token,
         T!ConsumeSessionToken(c, t), now' = now
  PROVE  /\ Accepted' = Accepted \ {t}
         /\ c = Store <=> t \in Accepted
<1>1. tokens \in [Token -> T!Entry \union {None}]
  BY TableFacts DEF T!TypeOK
<1>2. /\ tokens[t] \in T!Entry /\ tokens[t].clientID = c
      /\ tokens' = [tokens EXCEPT ![t] = [tokens[t] EXCEPT !.used = TRUE]]
  BY <1>1 DEF T!ConsumeSessionToken, T!Accepts
<1>3. T!Accepts(Store, t) <=> c = Store
  BY <1>2 DEF T!ConsumeSessionToken, T!Accepts
<1>4. tokens'[t].used /\ \A u \in Token \ {t} : tokens'[u] = tokens[u]
  BY <1>1, <1>2 DEF T!Entry
<1>5. \A u \in Token : T!Accepts(Store, u)' <=> u # t /\ T!Accepts(Store, u)
  BY <1>4 DEF T!Accepts
<1>. QED  BY <1>3, <1>5 DEF Accepted

LEMMA RefuseAccepted ==
  ASSUME TP!Inv, NEW c \in Client, NEW t \in Token, T!Refuse(c, t), now' = now
  PROVE  /\ Accepted' \subseteq Accepted
         /\ c = Store => Accepted' = Accepted
<1>1. tokens \in [Token -> T!Entry \union {None}]
  BY TableFacts DEF T!TypeOK
<1>2. \A u \in Token : T!Accepts(Store, u)' <=> u # t /\ T!Accepts(Store, u)
  BY <1>1 DEF T!Refuse, T!Accepts
<1>. QED  BY <1>2 DEF Accepted, T!Refuse

\* What changes the table alone, and gives the store no token, is at most a
\* loss of sessions.
LEMMA LossRefines ==
  ASSUME UNCHANGED plugin, Accepted' \subseteq Accepted
  PROVE  [P!Next]_(P!vars)
<1>1. CASE Accepted' = Accepted
  BY <1>1 DEF plugin, history, P!vars, P!requests, P!history
<1>2. CASE Accepted' # Accepted
  <2> DEFINE lost == Accepted \ Accepted'
  <2>1. lost \in SUBSET Accepted /\ lost # {} /\ Accepted' = Accepted \ lost
    BY <1>2
  <2>2. P!LoseSessions(lost)
    BY <2>1 DEF P!LoseSessions, plugin, history, P!requests, P!history
  <2> HIDE DEF lost
  <2>. QED  BY <2>1, <2>2 DEF P!Next
<1>. QED  BY <1>1, <1>2

-----------------------------------------------------------------------------
(* Forms stay with their store.                                            *)

FormsAreOwned == \A r \in Request : saving[r] # None => (r \in Form <=> saving[r].client = Store)

LEMMA SubmitKeepsForms ==
  ASSUME TP!Inv, FormsAreOwned, NEW c \in Client, NEW t \in Token, NEW r \in Request,
         r \in Form <=> c = Store, T!SubmitSettings(r, c, t)
  PROVE  FormsAreOwned'
<1>1. saving \in [Request -> T!Post \union {None}]
  BY TableFacts DEF T!TypeOK
<1>2. saving' = saving \/ saving' = [saving EXCEPT ![r] = [client |-> c, token |-> t]]
  BY DEF T!SubmitSettings
<1>3. saving'[r] = saving[r] \/ saving'[r].client = c
  BY <1>1, <1>2
<1>4. \A q \in Request \ {r} : saving'[q] = saving[q]
  BY <1>1, <1>2
<1>. SUFFICES ASSUME NEW q \in Request, saving'[q] # None
              PROVE  q \in Form <=> saving'[q].client = Store
  BY DEF FormsAreOwned
<1>5. CASE q = r
  BY <1>3, <1>5 DEF FormsAreOwned
<1>6. CASE q # r
  BY <1>4, <1>6 DEF FormsAreOwned
<1>. QED  BY <1>5, <1>6

LEMMA AnswerKeepsForms ==
  ASSUME TP!Inv, FormsAreOwned, NEW r \in Request, T!AnswerSaved(r) \/ T!AnswerError(r)
  PROVE  FormsAreOwned'
<1>1. saving \in [Request -> T!Post \union {None}]
  BY TableFacts DEF T!TypeOK
<1>2. saving' = [saving EXCEPT ![r] = None]
  BY DEF T!AnswerSaved, T!AnswerError
<1>3. \A q \in Request : saving'[q] = saving[q] \/ saving'[q] = None
  BY <1>1, <1>2
<1>. QED  BY <1>3 DEF FormsAreOwned

LEMMA FormsInv == TP!Inv /\ FormsAreOwned /\ [Next]_vars => FormsAreOwned'
<1> SUFFICES ASSUME TP!Inv, FormsAreOwned, [Next]_vars PROVE FormsAreOwned'
  OBVIOUS
<1>0. UNCHANGED saving => FormsAreOwned'
  BY DEF FormsAreOwned
<1>1. ASSUME NEW k \in Callback, MintSession(k) \/ CallbackGoesOn(k)
      PROVE  FormsAreOwned'
  BY <1>0, <1>1 DEF MintSession, CallbackGoesOn, T!Login, table
<1>2. ASSUME NEW p \in Form, NEW t \in Token, SubmitForm(p, t)
      PROVE  FormsAreOwned'
  BY <1>2, SubmitKeepsForms, StoreAssumption DEF SubmitForm
<1>3. ASSUME NEW p \in Form, AnswerForm(p) \/ FormFails(p)
      PROVE  FormsAreOwned'
  BY <1>3, AnswerKeepsForms, StoreAssumption DEF AnswerForm, FormFails
<1>4. ASSUME NEW p \in Form, FormGoesOn(p)
      PROVE  FormsAreOwned'
  BY <1>0, <1>4 DEF FormGoesOn, table
<1>5. ASSUME NEW u \in Removal, HandleUninstall(u) \/ CleanupPluginData(u)
      PROVE  FormsAreOwned'
  BY <1>0, <1>5 DEF HandleUninstall, CleanupPluginData, table
<1>6. CASE Others
  BY <1>0, <1>6 DEF Others, table
<1>7. CASE Restart
  <2>1. \A r \in Request : saving'[r] = None
    BY <1>7 DEF Restart, T!Restart
  <2>. QED  BY <2>1 DEF FormsAreOwned
<1>8. ASSUME NEW c \in Client, NEW t \in Token, Present(c, t)
      PROVE  FormsAreOwned'
  BY <1>0, <1>8 DEF Present
<1>9. ASSUME NEW c \in Client, OtherStore(c)
      PROVE  FormsAreOwned'
  BY <1>0, <1>9, SubmitKeepsForms DEF OtherStore, T!Login, T!Uninstall
<1>10. ASSUME NEW r \in Request \ Form, AnswerOther(r)
       PROVE  FormsAreOwned'
  BY <1>10, AnswerKeepsForms DEF AnswerOther
<1>11. CASE Tick
  BY <1>0, <1>11 DEF Tick, T!Tick
<1>12. CASE UNCHANGED vars
  BY <1>0, <1>12 DEF vars, table
<1>. QED  BY <1>1, <1>2, <1>3, <1>4, <1>5, <1>6, <1>7, <1>8, <1>9, <1>10, <1>11, <1>12 DEF Next

-----------------------------------------------------------------------------
(* Every step is one of PluginLifecycle.                                   *)

LEMMA SameTable == UNCHANGED <<tokens, now>> => Accepted' = Accepted
  BY DEF Accepted, T!Accepts

LEMMA MintRefines ==
  ASSUME TP!Inv, NEW k \in Callback, MintSession(k)
  PROVE  P!Next
<1>1. P!Mint \/ Accepted' = Accepted
  <2>1. CASE T!Login(Store)
    <3>1. PICK t \in Token : T!CreateSessionToken(t, Store, t) /\ now' = now
      BY <2>1 DEF T!Login
    <3>2. t \in Token \ Accepted /\ Accepted' = Accepted \union {t}
      BY <3>1, MintAccepted, StoreAssumption
    <3>. QED  BY <3>2 DEF P!Mint
  <2>2. CASE UNCHANGED table
    BY <2>2, SameTable DEF table
  <2>. QED  BY <2>1, <2>2 DEF MintSession
<1>2. P!MintSession(k)
  BY <1>1 DEF MintSession, P!MintSession
<1>. QED  BY <1>2 DEF P!Next, P!CallbackStep

LEMMA SubmitRefines ==
  ASSUME TP!Inv, NEW p \in Form, NEW t \in Token, SubmitForm(p, t)
  PROVE  P!Next
<1>1. T!ConsumeSessionToken(Store, t) /\ now' = now
  BY DEF SubmitForm, T!SubmitSettings, T!Refuse
<1>2. t \in Accepted /\ Accepted' = Accepted \ {t}
  BY <1>1, ConsumeAccepted, StoreAssumption
<1>3. P!SubmitForm(p, t)
  BY <1>2 DEF SubmitForm, P!SubmitForm, history, P!history
<1>. QED  BY <1>3 DEF P!Next, P!PostStep

LEMMA AnswerRefines ==
  ASSUME TP!Inv, FormsAreOwned, NEW p \in Form, AnswerForm(p)
  PROVE  P!Next
<1>1. saving[p] # None /\ saving[p].client = Store
  BY StoreAssumption DEF AnswerForm, T!AnswerSaved, FormsAreOwned
<1>2. PICK t \in Token :
         T!CreateSessionToken(t, Store, root[saving[p].token]) /\ now' = now
  BY <1>1 DEF AnswerForm, T!AnswerSaved
<1>3. t \in Token \ Accepted /\ Accepted' = Accepted \union {t}
  BY <1>2, MintAccepted, StoreAssumption
<1>4. P!AnswerForm(p)
  BY <1>3 DEF AnswerForm, P!AnswerForm, P!Mint, history, P!history
<1>. QED  BY <1>4 DEF P!Next, P!PostStep

LEMMA FailRefines ==
  ASSUME NEW p \in Form, FormFails(p)
  PROVE  P!Next
<1>1. Accepted' = Accepted
  BY SameTable DEF FormFails, T!AnswerError
<1>2. P!FormFails(p)
  BY <1>1 DEF FormFails, P!FormFails, history, P!history
<1>. QED  BY <1>2 DEF P!Next, P!PostStep

LEMMA UninstallRefines ==
  ASSUME TP!Inv, NEW u \in Removal, HandleUninstall(u)
  PROVE  P!Next
<1>1. (\E t \in Accepted : Accepted' = Accepted \ {t}) \/ Accepted' = Accepted
  <2>1. ASSUME NEW t \in Token, T!ConsumeSessionToken(Store, t), UNCHANGED <<now, saving>>
        PROVE  t \in Accepted /\ Accepted' = Accepted \ {t}
    BY <2>1, ConsumeAccepted, StoreAssumption
  <2>. QED  BY <2>1, SameTable DEF HandleUninstall, table
<1>2. P!HandleUninstall(u)
  BY <1>1 DEF HandleUninstall, P!HandleUninstall, history, P!history
<1>. QED  BY <1>2 DEF P!Next

\* Another store takes tokens away, when it presents one, and gives none.
LEMMA OthersRefine ==
  ASSUME TP!Inv, NEW c \in Client, OtherStore(c)
  PROVE  [P!Next]_(P!vars)
<1>1. CASE T!Login(c)
  <2>1. PICK t \in Token : T!CreateSessionToken(t, c, t) /\ now' = now
    BY <1>1 DEF T!Login
  <2>. QED  BY <2>1, MintAccepted, LossRefines DEF OtherStore
<1>2. ASSUME NEW t \in Token, now' = now,
             T!ConsumeSessionToken(c, t) \/ T!Refuse(c, t)
      PROVE  [P!Next]_(P!vars)
  BY <1>2, ConsumeAccepted, RefuseAccepted, LossRefines DEF OtherStore
<1>. QED  BY <1>1, <1>2 DEF OtherStore, T!Uninstall, T!SubmitSettings

LEMMA AnswerOtherRefines ==
  ASSUME TP!Inv, FormsAreOwned, NEW r \in Request \ Form, AnswerOther(r)
  PROVE  [P!Next]_(P!vars)
<1>1. CASE T!AnswerSaved(r)
  <2>1. saving[r] # None /\ saving[r].client # Store /\ saving[r].client \in Client
    BY <1>1, TableFacts DEF T!AnswerSaved, FormsAreOwned
  <2>2. PICK t \in Token :
           /\ T!CreateSessionToken(t, saving[r].client, root[saving[r].token])
           /\ now' = now
    BY <1>1 DEF T!AnswerSaved
  <2>3. Accepted' = Accepted
    BY <2>1, <2>2, MintAccepted
  <2>. QED  BY <2>3, LossRefines DEF AnswerOther
<1>2. CASE T!AnswerError(r)
  BY <1>2, SameTable, LossRefines DEF AnswerOther, T!AnswerError
<1>. QED  BY <1>1, <1>2 DEF AnswerOther

LEMMA TickRefines ==
  ASSUME TP!Inv, Tick
  PROVE  [P!Next]_(P!vars)
<1>1. tokens \in [Token -> T!Entry \union {None}] /\ now \in Nat
  BY TableFacts DEF T!TypeOK
<1>2. \A t \in Token : T!Accepts(Store, t)' => T!Accepts(Store, t)
  <2> SUFFICES ASSUME NEW t \in Token, T!Accepts(Store, t)' PROVE T!Accepts(Store, t)
    OBVIOUS
  <2>1. tokens' = tokens /\ now' = now + 1
    BY DEF Tick, T!Tick
  <2>2. tokens[t] \in T!Entry
    BY <1>1, <2>1 DEF T!Accepts
  <2>3. tokens[t].expires \in Nat
    BY <2>2 DEF T!Entry
  <2>. QED  BY <1>1, <2>1, <2>3 DEF T!Accepts
<1>3. Accepted' \subseteq Accepted
  BY <1>2 DEF Accepted
<1>. QED  BY <1>3, LossRefines DEF Tick

LEMMA StepRefines == TP!Inv /\ FormsAreOwned /\ [Next]_vars => [P!Next]_(P!vars)
<1> SUFFICES ASSUME TP!Inv, FormsAreOwned, [Next]_vars PROVE [P!Next]_(P!vars)
  OBVIOUS
<1>1. ASSUME NEW k \in Callback, CallbackGoesOn(k)
      PROVE  P!Next
  BY <1>1 DEF CallbackGoesOn, P!Next, P!CallbackStep
<1>2. ASSUME NEW p \in Form, FormGoesOn(p)
      PROVE  P!Next
  BY <1>2 DEF FormGoesOn, P!Next, P!PostStep
<1>3. ASSUME NEW u \in Removal, CleanupPluginData(u)
      PROVE  P!Next
  BY <1>3 DEF CleanupPluginData, P!Next
<1>4. CASE Others
  BY <1>4 DEF Others, P!Next
<1>5. CASE Restart
  BY <1>5 DEF Restart, P!Next
<1>6. ASSUME NEW c \in Client, NEW t \in Token, Present(c, t)
      PROVE  [P!Next]_(P!vars)
  BY <1>6, RefuseAccepted, LossRefines DEF Present
<1>7. CASE UNCHANGED vars
  BY <1>7, SameTable, LossRefines DEF vars, table
<1>. QED
  BY <1>1, <1>2, <1>3, <1>4, <1>5, <1>6, <1>7, MintRefines, SubmitRefines, AnswerRefines,
     FailRefines, UninstallRefines, OthersRefine, AnswerOtherRefines, TickRefines DEF Next

LEMMA InitRefines == Init => P!Init /\ FormsAreOwned
<1> SUFFICES ASSUME Init PROVE P!Init /\ FormsAreOwned
  OBVIOUS
<1>1. Accepted = {}
  BY DEF Init, T!Init, Accepted, T!Accepts
<1>2. FormsAreOwned
  BY DEF Init, T!Init, FormsAreOwned
<1>. QED  BY <1>1, <1>2 DEF Init, P!Init

\* An installation over the shared table is one of PluginLifecycle.
THEOREM SessionsImplementPlugin == Spec => ImplementsPlugin
  BY InitRefines, StepRefines, FormsInv, TableInv, PTL DEF Spec, ImplementsPlugin, P!Spec

-----------------------------------------------------------------------------
(* What is known of PluginLifecycle is known of the installation.          *)

LEMMA PluginAssumption == PP!NoneAssumption
<1>1. PP!CallbackState = P!CallbackState /\ PP!FormType = P!FormType
  BY DEF PP!CallbackState, P!CallbackState, PP!FormType, P!FormType
<1>. QED  BY <1>1, AbsentAssumption DEF PP!NoneAssumption

LEMMA SameCallbackStep ==
  ASSUME NEW k \in Callback, P!CallbackStep(k)
  PROVE  PP!CallbackStep(k)
<1> USE DEF P!At, PP!At, P!Goto, PP!Goto, P!EndCallback, PP!EndCallback,
            P!history, PP!history, P!SaveState, PP!SaveState
<1>1. P!OpenPlugin(k) => PP!OpenPlugin(k)
  BY DEF P!OpenPlugin, PP!OpenPlugin
<1>2. P!ShowAuthURL(k) => PP!ShowAuthURL(k)
  BY DEF P!ShowAuthURL, PP!ShowAuthURL
<1>3. \A s \in State : P!ReturnWithCode(k, s) => PP!ReturnWithCode(k, s)
  BY DEF P!ReturnWithCode, PP!ReturnWithCode
<1>4. P!ExchangeCodeForToken(k) => PP!ExchangeCodeForToken(k)
  BY DEF P!ExchangeCodeForToken, PP!ExchangeCodeForToken
<1>5. P!DeleteState(k) => PP!DeleteState(k)
  BY DEF P!DeleteState, PP!DeleteState
<1>6. P!InsertToken(k) => PP!InsertToken(k)
  BY DEF P!InsertToken, PP!InsertToken
<1>7. P!MintSession(k) => PP!MintSession(k)
  BY DEF P!MintSession, PP!MintSession, P!Mint, PP!Mint
<1>. QED  BY <1>1, <1>2, <1>3, <1>4, <1>5, <1>6, <1>7 DEF P!CallbackStep, PP!CallbackStep

LEMMA SamePostStep ==
  ASSUME NEW p \in Form, P!PostStep(p)
  PROVE  PP!PostStep(p)
<1> USE DEF P!history, PP!history, P!FormType, PP!FormType
<1>1. \A t \in Token : P!SubmitForm(p, t) => PP!SubmitForm(p, t)
  BY DEF P!SubmitForm, PP!SubmitForm
<1>2. P!SaveForm(p) => PP!SaveForm(p)
  BY DEF P!SaveForm, PP!SaveForm, P!Writes, PP!Writes, P!NextOf, PP!NextOf
<1>3. P!SkipSearch(p) => PP!SkipSearch(p)
  BY DEF P!SkipSearch, PP!SkipSearch
<1>4. P!DeletePostalCode(p) => PP!DeletePostalCode(p)
  BY DEF P!DeletePostalCode, PP!DeletePostalCode
<1>5. P!FormFails(p) => PP!FormFails(p)
  BY DEF P!FormFails, PP!FormFails
<1>6. P!AnswerForm(p) => PP!AnswerForm(p)
  BY DEF P!AnswerForm, PP!AnswerForm, P!Mint, PP!Mint
<1>. QED  BY <1>1, <1>2, <1>3, <1>4, <1>5, <1>6 DEF P!PostStep, PP!PostStep

LEMMA SameStep == [P!Next]_(P!vars) => [PP!Next]_(PP!vars)
<1> USE DEF P!history, PP!history, P!requests, PP!requests
<1>1. P!ExpireGrant => PP!ExpireGrant
  BY DEF P!ExpireGrant, PP!ExpireGrant
<1>2. \A lost \in SUBSET Accepted : P!LoseSessions(lost) => PP!LoseSessions(lost)
  BY DEF P!LoseSessions, PP!LoseSessions
<1>3. P!RedirectToOAuth => PP!RedirectToOAuth
  BY DEF P!RedirectToOAuth, PP!RedirectToOAuth, P!SaveState, PP!SaveState
<1>4. \A u \in Removal : P!HandleUninstall(u) => PP!HandleUninstall(u)
  BY DEF P!HandleUninstall, PP!HandleUninstall
<1>5. \A u \in Removal : P!CleanupPluginData(u) => PP!CleanupPluginData(u)
  <2>1. P!Cleanup => PP!Cleanup
    BY DEF P!Cleanup, PP!Cleanup, P!InFlight, PP!InFlight
  <2>. QED  BY <2>1 DEF P!CleanupPluginData, PP!CleanupPluginData
<1>6. P!Restart => PP!Restart
  BY DEF P!Restart, PP!Restart
<1>7. UNCHANGED P!vars => UNCHANGED PP!vars
  BY DEF P!vars, PP!vars
<1>. QED
  BY <1>1, <1>2, <1>3, <1>4, <1>5, <1>6, <1>7, SameCallbackStep, SamePostStep
  DEF P!Next, PP!Next

LEMMA PluginHolds == Spec => PP!Spec
<1>1. P!Init => PP!Init
  BY DEF P!Init, PP!Init
<1>. QED
  BY <1>1, SameStep, SessionsImplementPlugin, PTL DEF ImplementsPlugin, P!Spec, PP!Spec

\* A store that was uninstalled with nothing in flight is clean, and the table
\* has no token that would be accepted for it, until an access token is saved.
THEOREM QuietTableIsShut ==
  Spec => [](quiet => /\ rows = {} /\ grant = "none"
                      /\ \A t \in Token : ~ T!Accepts(Store, t))
<1>1. PP!QuietIsClean => (quiet => /\ rows = {} /\ grant = "none"
                                  /\ \A t \in Token : ~ T!Accepts(Store, t))
  BY DEF PP!QuietIsClean, Accepted
<1>. QED
  BY <1>1, PluginHolds, PP!UninstalledStaysClean, PluginAssumption, PTL

\* The table, the installation and the history are well formed.
THEOREM TypeCorrect == Spec => []TypeOK
<1>1. TP!Inv => T!TypeOK
  BY TableFacts
<1>2. PP!TypeOK => P!TypeOK
  BY DEF PP!TypeOK, P!TypeOK, PP!Table, P!Table, PP!CallbackState, P!CallbackState,
         PP!FormType, P!FormType
<1>3. Init => older \subseteq Token
  BY DEF Init
<1>4. older \subseteq Token /\ [Next]_vars => (older \subseteq Token)'
  BY DEF Next, MintSession, CallbackGoesOn, SubmitForm, AnswerForm, FormFails, FormGoesOn,
         HandleUninstall, CleanupPluginData, Others, Restart, Present, OtherStore,
         AnswerOther, Tick, vars, plugin
<1>. QED
  BY <1>1, <1>2, <1>3, <1>4, TableInv, PluginHolds, PP!TypeCorrect, PluginAssumption, PTL
  DEF Spec, TypeOK

-----------------------------------------------------------------------------
(* No session begins after an uninstall.                                   *)

\* A removed store has no access token, and a callback that is about to mint
\* was in flight during the cleanup.
OnlyEarly == removed => grant = "none" /\ \A k \in Callback : P!At(k, "sync") => k \in early

LEMMA CallbackKeepsEarly ==
  ASSUME P!TypeOK, OnlyEarly, NEW k \in Callback, MintSession(k) \/ CallbackGoesOn(k)
  PROVE  OnlyEarly'
<1> USE DEF OnlyEarly, P!At, P!Goto, P!EndCallback, P!TypeOK
<1>1. CASE MintSession(k)
  BY <1>1 DEF MintSession
<1>2. CASE P!OpenPlugin(k)
  BY <1>2 DEF P!OpenPlugin, P!history
<1>3. CASE P!ShowAuthURL(k)
  BY <1>3 DEF P!ShowAuthURL
<1>4. ASSUME NEW s \in State, P!ReturnWithCode(k, s)
      PROVE  OnlyEarly'
  BY <1>4 DEF P!ReturnWithCode, P!history
<1>5. CASE P!ExchangeCodeForToken(k)
  BY <1>5 DEF P!ExchangeCodeForToken
<1>6. CASE P!DeleteState(k)
  BY <1>6 DEF P!DeleteState, P!history
<1>7. CASE P!InsertToken(k)
  BY <1>7 DEF P!InsertToken
<1>. QED  BY <1>1, <1>2, <1>3, <1>4, <1>5, <1>6, <1>7 DEF CallbackGoesOn

LEMMA CleanupKeepsEarly ==
  ASSUME OnlyEarly, NEW u \in Removal, CleanupPluginData(u)
  PROVE  OnlyEarly'
<1>1. CASE P!Cleanup
  <2>1. grant' = "none" /\ early' = {k \in Callback : callbacks[k] # None}
        /\ callbacks' = callbacks
    BY <1>1 DEF P!Cleanup, CleanupPluginData, P!CleanupPluginData
  <2>. QED  BY <2>1 DEF OnlyEarly, P!At
<1>2. CASE UNCHANGED <<state, grant, rows, asked, early, quiet, removed>>
  BY <1>2 DEF OnlyEarly, P!At, CleanupPluginData, P!CleanupPluginData
<1>. QED  BY <1>1, <1>2 DEF CleanupPluginData, P!CleanupPluginData

LEMMA EarlyInv == P!TypeOK /\ OnlyEarly /\ [Next]_vars => OnlyEarly'
<1> SUFFICES ASSUME P!TypeOK, OnlyEarly, [Next]_vars PROVE OnlyEarly'
  OBVIOUS
<1>0. UNCHANGED <<grant, callbacks, early, removed>> => OnlyEarly'
  BY DEF OnlyEarly, P!At
<1>1. ASSUME NEW p \in Form,
             (\E t \in Token : SubmitForm(p, t)) \/ AnswerForm(p) \/ FormFails(p) \/ FormGoesOn(p)
      PROVE  UNCHANGED <<grant, callbacks, early, removed>>
  BY <1>1 DEF SubmitForm, AnswerForm, FormFails, FormGoesOn, P!SaveForm, P!SkipSearch,
              P!DeletePostalCode, P!history, history
<1>2. ASSUME NEW u \in Removal, HandleUninstall(u)
      PROVE  UNCHANGED <<grant, callbacks, early, removed>>
  BY <1>2 DEF HandleUninstall, history
<1>3. CASE Others
  <2>1. CASE P!ExpireGrant
    BY <2>1 DEF P!ExpireGrant, OnlyEarly, P!history
  <2>2. CASE P!RedirectToOAuth
    BY <1>0, <2>2 DEF P!RedirectToOAuth, P!requests
  <2>. QED  BY <1>3, <2>1, <2>2 DEF Others
<1>4. CASE Restart
  BY <1>4 DEF Restart, P!Restart, OnlyEarly, P!At
<1>5. ASSUME UNCHANGED plugin
      PROVE  OnlyEarly'
  BY <1>0, <1>5 DEF plugin, history
<1>. QED
  BY <1>0, <1>1, <1>2, <1>3, <1>4, <1>5, CallbackKeepsEarly, CleanupKeepsEarly
  DEF Next, Present, OtherStore, AnswerOther, Tick, vars

\* A token that is minted for the store by a login, or by a form.
LEMMA MintKeepsSessions ==
  ASSUME TP!Inv, NoNewSession, removed' = removed,
         NEW c \in Client, NEW t \in Token, NEW login \in Token,
         T!CreateSessionToken(t, c, login), older \subseteq older',
         removed /\ c = Store => login \in older'
  PROVE  NoNewSession'
<1>1. owner \in [Token -> Client \union {None}] /\ root \in [Token -> Token]
  BY TableFacts DEF T!TypeOK
<1>2. owner' = [owner EXCEPT ![t] = c] /\ root' = [root EXCEPT ![t] = login]
  BY DEF T!CreateSessionToken
<1>. QED  BY <1>1, <1>2 DEF NoNewSession

LEMMA LoginKeepsSessions ==
  ASSUME TP!Inv, OnlyEarly, NoNewSession, NEW k \in Callback, MintSession(k)
  PROVE  NoNewSession'
<1>1. CASE T!Login(Store)
  <2>1. PICK t \in Token : T!CreateSessionToken(t, Store, t)
    BY <1>1 DEF T!Login
  <2>2. owner'[t] # owner[t]
    <3>1. owner \in [Token -> Client \union {None}]
      BY TableFacts DEF T!TypeOK
    <3>2. owner[t] = None /\ owner' = [owner EXCEPT ![t] = Store]
      BY <2>1 DEF T!CreateSessionToken
    <3>. QED  BY <3>1, <3>2, StoreAssumption, AbsentAssumption
  <2>3. removed => t \in older'
    BY <2>2 DEF MintSession, OnlyEarly
  <2>4. older \subseteq older' /\ removed' = removed
    BY DEF MintSession
  <2>. QED  BY <2>1, <2>3, <2>4, MintKeepsSessions, StoreAssumption
<1>2. CASE UNCHANGED table
  BY <1>2 DEF table, MintSession, NoNewSession
<1>. QED  BY <1>1, <1>2 DEF MintSession

LEMMA AnswerKeepsSessions ==
  ASSUME TP!Inv, FormsAreOwned, NoNewSession, NEW r \in Request, T!AnswerSaved(r),
         UNCHANGED <<older, removed>>
  PROVE  NoNewSession'
<1> DEFINE u == saving[r].token
           c == saving[r].client
<1>1. c \in Client /\ u \in Token /\ owner[u] = c
  BY TableFacts DEF T!AnswerSaved
<1>2. root[u] \in Token
  BY <1>1, TableFacts DEF T!TypeOK
<1>3. PICK t \in Token : T!CreateSessionToken(t, c, root[u])
  BY DEF T!AnswerSaved
<1>4. removed /\ c = Store => root[u] \in older'
  BY <1>1 DEF NoNewSession
<1> HIDE DEF u, c
<1>. QED  BY <1>1, <1>2, <1>3, <1>4, MintKeepsSessions

LEMMA CleanupKeepsSessions ==
  ASSUME TP!Inv, NoNewSession, NEW u \in Removal, CleanupPluginData(u)
  PROVE  NoNewSession'
<1>1. UNCHANGED <<owner, root>> /\ root \in [Token -> Token]
  BY TableFacts DEF CleanupPluginData, table, T!TypeOK
<1>2. CASE P!Cleanup
  <2>1. older' = {t \in Token : owner[t] = Store}
    BY <1>2 DEF CleanupPluginData
  <2>2. \A t \in Token : owner[t] = Store => owner[root[t]] = Store
    BY TableFacts, StoreAssumption, AbsentAssumption
  <2>. QED  BY <1>1, <2>1, <2>2 DEF NoNewSession
<1>3. CASE ~ P!Cleanup
  BY <1>1, <1>3 DEF CleanupPluginData, P!CleanupPluginData, NoNewSession
<1>. QED  BY <1>2, <1>3

LEMMA OtherKeepsSessions ==
  ASSUME TP!Inv, NoNewSession, NEW c \in Client, OtherStore(c)
  PROVE  NoNewSession'
<1>1. UNCHANGED <<older, removed>>
  BY DEF OtherStore, plugin, history
<1>2. CASE T!Login(c)
  <2>1. PICK t \in Token : T!CreateSessionToken(t, c, t)
    BY <1>2 DEF T!Login
  <2>. QED  BY <1>1, <2>1, MintKeepsSessions DEF OtherStore
<1>3. CASE UNCHANGED <<owner, root>>
  BY <1>1, <1>3 DEF NoNewSession
<1>. QED
  BY <1>2, <1>3 DEF OtherStore, T!Uninstall, T!SubmitSettings, T!ConsumeSessionToken,
                    T!Refuse, T!history

LEMMA SessionsInv ==
  TP!Inv /\ FormsAreOwned /\ OnlyEarly /\ NoNewSession /\ [Next]_vars => NoNewSession'
<1> SUFFICES ASSUME TP!Inv, FormsAreOwned, OnlyEarly, NoNewSession, [Next]_vars
             PROVE  NoNewSession'
  OBVIOUS
<1>0. UNCHANGED <<owner, root, older>> /\ (removed' => removed) => NoNewSession'
  BY DEF NoNewSession
<1>1. ASSUME NEW k \in Callback, CallbackGoesOn(k)
      PROVE  NoNewSession'
  <2>1. removed' => removed
    BY <1>1 DEF CallbackGoesOn, P!OpenPlugin, P!ShowAuthURL, P!ReturnWithCode,
                P!ExchangeCodeForToken, P!DeleteState, P!InsertToken, P!history
  <2>. QED  BY <1>0, <1>1, <2>1 DEF CallbackGoesOn, table
<1>2. ASSUME NEW p \in Form, AnswerForm(p)
      PROVE  NoNewSession'
  BY <1>2, AnswerKeepsSessions, StoreAssumption DEF AnswerForm, history
<1>3. ASSUME NEW p \in Form,
             (\E t \in Token : SubmitForm(p, t)) \/ FormFails(p) \/ FormGoesOn(p)
      PROVE  NoNewSession'
  <2>1. UNCHANGED <<owner, root>>
    BY <1>3 DEF SubmitForm, FormFails, FormGoesOn, T!SubmitSettings, T!ConsumeSessionToken,
                T!Refuse, T!AnswerError, T!history, table
  <2>2. UNCHANGED <<older, removed>>
    BY <1>3 DEF SubmitForm, FormFails, FormGoesOn, history, P!SaveForm, P!SkipSearch,
                P!DeletePostalCode, P!history
  <2>. QED  BY <1>0, <2>1, <2>2
<1>4. ASSUME NEW u \in Removal, HandleUninstall(u)
      PROVE  NoNewSession'
  BY <1>0, <1>4 DEF HandleUninstall, T!ConsumeSessionToken, table, history
<1>5. CASE Others
  BY <1>0, <1>5 DEF Others, table, P!ExpireGrant, P!RedirectToOAuth, P!history
<1>6. CASE Restart
  BY <1>0, <1>6 DEF Restart, T!Restart, T!history, P!Restart
<1>7. ASSUME NEW c \in Client, NEW t \in Token, Present(c, t)
      PROVE  NoNewSession'
  BY <1>0, <1>7 DEF Present, T!Refuse, T!history, plugin, history
<1>8. ASSUME NEW r \in Request \ Form, AnswerOther(r)
      PROVE  NoNewSession'
  <2>1. UNCHANGED <<older, removed>>
    BY <1>8 DEF AnswerOther, plugin, history
  <2>. QED  BY <1>0, <1>8, <2>1, AnswerKeepsSessions DEF AnswerOther, T!AnswerError, T!history
<1>9. CASE Tick
  BY <1>0, <1>9 DEF Tick, T!Tick, T!history, plugin, history
<1>10. CASE UNCHANGED vars
  BY <1>0, <1>10 DEF vars, table, plugin, history
<1>. QED
  BY <1>1, <1>2, <1>3, <1>4, <1>5, <1>6, <1>7, <1>8, <1>9, <1>10, LoginKeepsSessions,
     CleanupKeepsSessions, OtherKeepsSessions DEF Next

\* Whatever forms are saved and callbacks answered after an uninstall, they only
\* go on with sessions from before it, until an access token is saved again.
THEOREM NoSessionBegins == Spec => []NoNewSession
<1>1. Init => FormsAreOwned /\ OnlyEarly /\ NoNewSession
  <2>1. Init => ~ removed
    BY DEF Init, P!Init
  <2>. QED  BY <2>1, InitRefines DEF OnlyEarly, NoNewSession
<1>2. TypeOK => P!TypeOK
  BY DEF TypeOK
<1>. QED
  BY <1>1, <1>2, TableInv, TypeCorrect, FormsInv, EarlyInv, SessionsInv, PTL DEF Spec
=============================================================================
