------------------------ MODULE PluginLifecycleProofs ------------------------
(***************************************************************************)
(* The invariants of PluginLifecycle hold for any number of states,        *)
(* session tokens, callbacks, forms and uninstall requests.                *)
(*                                                                         *)
(* QuietIsClean is not inductive: a form or a callback in flight could     *)
(* still write.  Idle adds that a quiet store has none of either, but for  *)
(* callbacks that are on their way to ask for an access token or to save   *)
(* one.  ReinstallIsAsked is inductive with the type invariant.            *)
(***************************************************************************)
EXTENDS PluginLifecycle, TLAPS

\* In a quiet store no form is in flight and no callback is about to mint.
Idle ==
    quiet => /\ \A p \in Post : posts[p] = None
             /\ \A k \in Callback : ~ At(k, "sync")

-----------------------------------------------------------------------------
\* The callbacks whose pc carries a state have one that was drawn.
LEMMA WithState ==
    ASSUME TypeOK, NEW k \in Callback,
           At(k, "exchange") \/ At(k, "delete") \/ At(k, "insert")
    PROVE  callbacks[k] \in CallbackState /\ callbacks[k].state \in State
<1>1. callbacks[k] \in CallbackState BY DEF TypeOK, At
<1>2. callbacks[k].pc \in {"exchange", "delete", "insert"} BY DEF At
<1> QED BY <1>1, <1>2 DEF CallbackState

-----------------------------------------------------------------------------
\* Init satisfies the invariants: nothing is saved and nothing is in flight.
LEMMA InitInv == Init => TypeOK /\ QuietIsClean /\ Idle /\ ReinstallIsAsked
BY NoneAssumption DEF Init, TypeOK, QuietIsClean, Idle, ReinstallIsAsked, At
-----------------------------------------------------------------------------
(* Type correctness.                                                       *)

LEMMA CallbackTypes ==
    ASSUME TypeOK, NEW k \in Callback, CallbackStep(k)
    PROVE  TypeOK'
<1>1. CASE OpenPlugin(k)
  <2>1. [pc |-> "sync", state |-> None] \in CallbackState
        /\ [pc |-> "ask", state |-> None] \in CallbackState
    BY DEF CallbackState
  <2> QED BY <1>1, <2>1 DEF TypeOK, OpenPlugin, Goto, history
<1>2. CASE ShowAuthURL(k)
  BY <1>2 DEF TypeOK, ShowAuthURL, SaveState, EndCallback
<1>3. ASSUME NEW s \in State, ReturnWithCode(k, s)
      PROVE  TypeOK'
  <2>1. [pc |-> "exchange", state |-> s] \in CallbackState
    BY DEF CallbackState
  <2> QED BY <1>3, <2>1 DEF TypeOK, ReturnWithCode, Goto, history
<1>4. CASE ExchangeCodeForToken(k)
  <2>1. [pc |-> "delete", state |-> callbacks[k].state] \in CallbackState
    BY <1>4, WithState DEF ExchangeCodeForToken, CallbackState
  <2> QED BY <1>4, <2>1 DEF TypeOK, ExchangeCodeForToken, Goto, EndCallback
<1>5. CASE DeleteState(k)
  <2>1. [pc |-> "insert", state |-> callbacks[k].state] \in CallbackState
    BY <1>5, WithState DEF DeleteState, CallbackState
  <2> QED BY <1>5, <2>1 DEF TypeOK, DeleteState, Goto, history
<1>6. CASE InsertToken(k)
  <2>1. [pc |-> "sync", state |-> None] \in CallbackState
    BY DEF CallbackState
  <2> QED BY <1>6, <2>1 DEF TypeOK, InsertToken, Goto, EndCallback
<1>7. CASE MintSession(k)
  BY <1>7 DEF TypeOK, MintSession, Mint, EndCallback
<1> QED BY <1>1, <1>2, <1>3, <1>4, <1>5, <1>6, <1>7 DEF CallbackStep

LEMMA PostTypes ==
    ASSUME TypeOK, NEW p \in Post, PostStep(p)
    PROVE  TypeOK'
<1>1. ASSUME NEW t \in Session, SubmitForm(p, t)
      PROVE  TypeOK'
  BY <1>1 DEF TypeOK, SubmitForm, history
<1>2. CASE SaveForm(p)
  <2>1. Writes(posts[p]) \subseteq Table
    BY <1>2 DEF TypeOK, SaveForm, Writes, Table, FormType
  <2>2. NextOf(posts[p]) \in FormType \union {"answer", None}
    BY DEF NextOf, FormType
  <2> QED BY <1>2, <2>1, <2>2 DEF TypeOK, SaveForm, history
<1>3. CASE SkipSearch(p)
  BY <1>3 DEF TypeOK, SkipSearch, FormType, history
<1>4. CASE DeletePostalCode(p)
  BY <1>4 DEF TypeOK, DeletePostalCode, history
<1>5. CASE FormFails(p)
  BY <1>5 DEF TypeOK, FormFails, history
<1>6. CASE AnswerForm(p)
  BY <1>6 DEF TypeOK, AnswerForm, Mint, history
<1> QED BY <1>1, <1>2, <1>3, <1>4, <1>5, <1>6 DEF PostStep

LEMMA StoreTypes ==
    ASSUME TypeOK
    PROVE  /\ ExpireGrant => TypeOK'
           /\ \A lost \in SUBSET live : LoseSessions(lost) => TypeOK'
           /\ RedirectToOAuth => TypeOK'
           /\ \A u \in Removal : HandleUninstall(u) \/ CleanupPluginData(u) => TypeOK'
           /\ Restart => TypeOK'
<1>1. ExpireGrant => TypeOK'
  BY DEF TypeOK, ExpireGrant, requests, history
<1>2. ASSUME NEW lost \in SUBSET live, LoseSessions(lost)
      PROVE  TypeOK'
  BY <1>2 DEF TypeOK, LoseSessions, requests, history
<1>3. RedirectToOAuth => TypeOK'
  BY DEF TypeOK, RedirectToOAuth, SaveState, requests
<1>4. ASSUME NEW u \in Removal, HandleUninstall(u)
      PROVE  TypeOK'
  BY <1>4 DEF TypeOK, HandleUninstall, history
<1>5. ASSUME NEW u \in Removal, CleanupPluginData(u)
      PROVE  TypeOK'
  <2>1. (live = {} /\ ~ InFlight) \in BOOLEAN
    OBVIOUS
  <2> QED BY <1>5, <2>1 DEF TypeOK, CleanupPluginData, Cleanup
<1>6. Restart => TypeOK'
  BY DEF TypeOK, Restart
<1> QED BY <1>1, <1>2, <1>3, <1>4, <1>5, <1>6

LEMMA NextTypes == TypeOK /\ [Next]_vars => TypeOK'
<1> SUFFICES ASSUME TypeOK, [Next]_vars PROVE TypeOK'
  OBVIOUS
<1>1. CASE Next
  BY <1>1, CallbackTypes, PostTypes, StoreTypes DEF Next
<1>2. CASE UNCHANGED vars
  BY <1>2 DEF TypeOK, vars, requests, history
<1> QED BY <1>1, <1>2

\* The variables stay well formed: a request is always at a step of its
\* handler, and a callback carries a state exactly until the token is saved.
THEOREM TypeCorrect == Spec => []TypeOK
<1>1. Init => TypeOK
  BY InitInv
<1> QED BY <1>1, NextTypes, PTL DEF Spec
-----------------------------------------------------------------------------
(* A quiet store stays clean.                                              *)

Clean == QuietIsClean /\ Idle

LEMMA CallbackKeepsClean ==
    ASSUME TypeOK, Clean, NEW k \in Callback, CallbackStep(k)
    PROVE  Clean'
<1> USE DEF Clean, QuietIsClean, Idle
<1>1. CASE OpenPlugin(k)
  BY <1>1 DEF TypeOK, OpenPlugin, Goto, At, history
<1>2. CASE ShowAuthURL(k)
  BY <1>2 DEF TypeOK, ShowAuthURL, EndCallback, At
<1>3. ASSUME NEW s \in State, ReturnWithCode(k, s)
      PROVE  Clean'
  BY <1>3 DEF TypeOK, ReturnWithCode, Goto, At, history
<1>4. CASE ExchangeCodeForToken(k)
  BY <1>4 DEF TypeOK, ExchangeCodeForToken, Goto, EndCallback, At
<1>5. CASE DeleteState(k)
  BY <1>5 DEF TypeOK, DeleteState, Goto, At, history
<1>6. CASE InsertToken(k)
  BY <1>6 DEF TypeOK, InsertToken, EndCallback, At
<1>7. CASE MintSession(k)
  <2>1. ~ quiet
    BY <1>7 DEF MintSession
  <2> QED BY <1>7, <2>1 DEF MintSession
<1> QED BY <1>1, <1>2, <1>3, <1>4, <1>5, <1>6, <1>7 DEF CallbackStep

\* No form is in flight in a quiet store, and none is accepted.
LEMMA PostKeepsClean ==
    ASSUME TypeOK, Clean, NEW p \in Post, PostStep(p)
    PROVE  Clean'
<1>1. posts[p] = None => \E t \in Session : SubmitForm(p, t)
  BY NoneAssumption DEF PostStep, SaveForm, SkipSearch, DeletePostalCode, FormFails,
                        AnswerForm, FormType
<1>2. ~ quiet
  BY <1>1 DEF Clean, QuietIsClean, Idle, SubmitForm
<1>3. quiet' = quiet
  BY DEF PostStep, SubmitForm, SaveForm, SkipSearch, DeletePostalCode, FormFails,
         AnswerForm, history
<1> QED BY <1>2, <1>3 DEF Clean, QuietIsClean, Idle

\* The cleanup of a store where nothing is in flight makes it quiet.
LEMMA CleanupKeepsClean ==
    ASSUME TypeOK, Clean, NEW u \in Removal, CleanupPluginData(u)
    PROVE  Clean'
<1>1. CASE UNCHANGED <<state, grant, rows, asked, early, quiet, removed>>
  BY <1>1 DEF Clean, QuietIsClean, Idle, CleanupPluginData, At
<1>2. CASE /\ rows' = {} /\ grant' = "none"
           /\ quiet' = (live = {} /\ ~ InFlight)
  <2>1. UNCHANGED <<live, callbacks, posts>>
    BY DEF CleanupPluginData
  <2>2. quiet' => live = {} /\ ~ InFlight
    BY <1>2
  <2>3. ~ InFlight => /\ \A p \in Post : posts[p] = None
                      /\ \A k \in Callback : callbacks[k] = None
    BY DEF InFlight
  <2> QED BY <1>2, <2>1, <2>2, <2>3 DEF Clean, QuietIsClean, Idle, At
<1> QED BY <1>1, <1>2 DEF CleanupPluginData, Cleanup

LEMMA NextClean == TypeOK /\ Clean /\ [Next]_vars => Clean'
<1> SUFFICES ASSUME TypeOK, Clean, [Next]_vars PROVE Clean'
  OBVIOUS
<1>1. CASE ExpireGrant
  BY <1>1 DEF Clean, QuietIsClean, Idle, At, ExpireGrant, requests, history
<1>2. ASSUME NEW lost \in SUBSET live, LoseSessions(lost)
      PROVE  Clean'
  BY <1>2 DEF Clean, QuietIsClean, Idle, At, LoseSessions, requests, history
<1>3. CASE RedirectToOAuth
  BY <1>3 DEF Clean, QuietIsClean, Idle, At, RedirectToOAuth, requests
<1>4. ASSUME NEW u \in Removal, HandleUninstall(u)
      PROVE  Clean'
  BY <1>4 DEF Clean, QuietIsClean, Idle, At, HandleUninstall, history
<1>5. CASE Restart
  BY <1>5 DEF Clean, QuietIsClean, Idle, At, Restart
<1>6. CASE UNCHANGED vars
  BY <1>6 DEF Clean, QuietIsClean, Idle, At, vars, requests, history
<1> QED BY <1>1, <1>2, <1>3, <1>4, <1>5, <1>6, CallbackKeepsClean, PostKeepsClean,
           CleanupKeepsClean DEF Next

\* Nothing brings a row, a session or an access token back into a store that
\* was uninstalled with nothing in flight, until a code is exchanged anew.
THEOREM UninstalledStaysClean == Spec => []QuietIsClean
<1>1. Init => TypeOK /\ Clean
  BY InitInv DEF Clean
<1>2. Clean => QuietIsClean
  BY DEF Clean
<1> QED BY <1>1, <1>2, NextTypes, NextClean, PTL DEF Spec

-----------------------------------------------------------------------------
(* States are asked for anew after a cleanup.                              *)

LEMMA CallbackKeepsAsked ==
    ASSUME TypeOK, ReinstallIsAsked, NEW k \in Callback, CallbackStep(k)
    PROVE  ReinstallIsAsked'
<1> USE NoneAssumption DEF ReinstallIsAsked
<1>1. CASE OpenPlugin(k)
  BY <1>1 DEF TypeOK, OpenPlugin, Goto, history
<1>2. CASE ShowAuthURL(k)
  BY <1>2 DEF TypeOK, ShowAuthURL, SaveState, EndCallback
<1>3. ASSUME NEW s \in State, ReturnWithCode(k, s)
      PROVE  ReinstallIsAsked'
  BY <1>3 DEF TypeOK, ReturnWithCode, Goto, history
<1>4. CASE ExchangeCodeForToken(k)
  BY <1>4 DEF TypeOK, ExchangeCodeForToken, Goto, EndCallback, At
<1>5. CASE DeleteState(k)
  BY <1>5 DEF TypeOK, DeleteState, Goto, At, history
<1>6. CASE InsertToken(k)
  BY <1>6 DEF TypeOK, InsertToken, Goto, EndCallback, At
<1>7. CASE MintSession(k)
  BY <1>7 DEF TypeOK, MintSession, EndCallback
<1> QED BY <1>1, <1>2, <1>3, <1>4, <1>5, <1>6, <1>7 DEF CallbackStep

\* A cleanup deletes the saved state, and every callback in flight is early.
LEMMA CleanupKeepsAsked ==
    ASSUME TypeOK, ReinstallIsAsked, NEW u \in Removal, CleanupPluginData(u)
    PROVE  ReinstallIsAsked'
<1>1. CASE UNCHANGED <<state, grant, rows, asked, early, quiet, removed>>
  BY <1>1 DEF ReinstallIsAsked, CleanupPluginData
<1>2. CASE state' = None /\ early' = {k \in Callback : callbacks[k] # None}
  BY <1>2 DEF ReinstallIsAsked, CleanupPluginData
<1> QED BY <1>1, <1>2 DEF CleanupPluginData, Cleanup

LEMMA NextAsked == TypeOK /\ ReinstallIsAsked /\ [Next]_vars => ReinstallIsAsked'
<1> SUFFICES ASSUME TypeOK, ReinstallIsAsked, [Next]_vars PROVE ReinstallIsAsked'
  OBVIOUS
<1>1. CASE ExpireGrant
  BY <1>1 DEF ReinstallIsAsked, ExpireGrant, requests, history
<1>2. ASSUME NEW lost \in SUBSET live, LoseSessions(lost)
      PROVE  ReinstallIsAsked'
  BY <1>2 DEF ReinstallIsAsked, LoseSessions, requests, history
<1>3. CASE RedirectToOAuth
  BY <1>3 DEF ReinstallIsAsked, RedirectToOAuth, SaveState, requests
<1>4. ASSUME NEW u \in Removal, HandleUninstall(u)
      PROVE  ReinstallIsAsked'
  BY <1>4 DEF ReinstallIsAsked, HandleUninstall, history
<1>5. CASE Restart
  BY <1>5 DEF ReinstallIsAsked, Restart
<1>6. ASSUME NEW p \in Post, PostStep(p)
      PROVE  ReinstallIsAsked'
  BY <1>6 DEF ReinstallIsAsked, PostStep, SubmitForm, SaveForm, SkipSearch,
              DeletePostalCode, FormFails, AnswerForm, history
<1>7. CASE UNCHANGED vars
  BY <1>7 DEF ReinstallIsAsked, vars, requests, history
<1> QED BY <1>1, <1>2, <1>3, <1>4, <1>5, <1>6, <1>7, CallbackKeepsAsked,
           CleanupKeepsAsked DEF Next

\* Only a state that was drawn since the last uninstall, or a callback that was
\* being handled during it, can save an access token.
THEOREM ReinstallNeedsTheAdmin == Spec => []ReinstallIsAsked
<1>1. Init => TypeOK /\ ReinstallIsAsked
  BY InitInv
<1> QED BY <1>1, NextTypes, NextAsked, PTL DEF Spec
=============================================================================
