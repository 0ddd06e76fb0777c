------------------------ MODULE AdminMethodSyncProofs ------------------------
(***************************************************************************)
(* The invariants of AdminMethodSync hold for any number of methods, syncs *)
(* and codes.                                                              *)
(*                                                                         *)
(* Neither property is inductive.  For SingleEntry, Alone adds that while  *)
(* nothing was lost and no syncs overlapped, one sync at most is in flight *)
(* and the store has no entry when it is about to make one.  For           *)
(* SuccessHasEntry, Refusable adds that a sync about to create an entry    *)
(* knows of no method with one of its codes, so that "already exists" can  *)
(* only speak of an entry.                                                 *)
(***************************************************************************)
EXTENDS AdminMethodSync, SequenceTheorems, TLAPS

Alone ==
    ~ unsure =>
        /\ \A j, k \in Sync : InFlight(j) /\ InFlight(k) => j = k
        /\ \A k \in Sync : At(k, "rename") \/ At(k, "create") => Generic = {}

HasEntry == Generic # {} \/ \E m \in Present : methods[m].name = "blank"

\* Every method with one of the codes is an entry, or cannot be renamed.
Refusable(ms, codes) ==
    \A m \in Method :
        \/ ms[m] = None
        \/ ms[m].name \in {"generic", "blank"}
        \/ \A i \in DOMAIN codes : ms[m].code # codes[i]

Answered ==
    \A k \in Sync : ~ syncs[k].edited =>
        /\ At(k, "ok") => HasEntry
        /\ At(k, "create") => Refusable(methods, syncs[k].codes)

-----------------------------------------------------------------------------
(* Types.                                                                  *)

\* The lists of codes are sequences, and none is empty.
LEMMA CodesAreListed ==
    ASSUME NEW s \in PluginCodes
    PROVE  s \in Seq(PluginCode) /\ s # <<>>
<1>1. PICK n \in 1..Cardinality(PluginCode) : s \in [1..n -> PluginCode]
  BY DEF PluginCodes
<1>2. n \in Nat /\ n >= 1
  BY <1>1
<1>3. s \in Seq(PluginCode) /\ Len(s) = n
  BY <1>1, <1>2
<1> QED BY <1>2, <1>3

\* What is left of a list after a code was refused.
LEMMA TailIsListed ==
    ASSUME NEW s \in Seq(PluginCode), Len(s) > 1
    PROVE  /\ Tail(s) \in Seq(PluginCode) /\ Tail(s) # <<>>
           /\ \A i \in DOMAIN Tail(s) : \E j \in DOMAIN s : Tail(s)[i] = s[j]
<1>1. s # <<>> /\ Len(s) \in Nat
  OBVIOUS
<1> DEFINE t == Tail(s)
<1>2. t \in Seq(PluginCode) /\ Len(t) = Len(s) - 1
      /\ \A i \in 1..Len(t) : t[i] = s[i + 1]
  BY <1>1, HeadTailProperties
<1> HIDE DEF t
<1>3. t # <<>>
  BY <1>1, <1>2
<1>4. DOMAIN t = 1..Len(t) /\ DOMAIN s = 1..Len(s)
  BY <1>2
<1>5. \A i \in DOMAIN t : i + 1 \in DOMAIN s
  BY <1>1, <1>2, <1>4
<1> QED BY <1>2, <1>3, <1>4, <1>5 DEF t

\* Where a sync stands outside its calls is a state of one.
LEMMA StandingType ==
    ASSUME NEW pc \in PC, NEW n \in 1..Attempts, NEW edited \in BOOLEAN
    PROVE  Standing(pc, n, edited) \in SyncState
<1>1. <<>> \in Seq(PluginCode)
  OBVIOUS
<1> QED BY <1>1 DEF Standing, SyncState

LEMMA StandType ==
    ASSUME TypeOK, NEW k \in Sync, NEW pc \in {"idle", "list", "ok"},
           NEW n \in 1..Attempts, Stand(k, pc, n)
    PROVE  /\ syncs' \in [Sync -> SyncState]
           /\ \A j \in Sync : /\ syncs'[j].pc = "rename" => syncs'[j].target # None
                              /\ syncs'[j].pc = "create" => syncs'[j].codes # <<>>
<1>1. syncs[k].edited \in BOOLEAN
  BY DEF TypeOK, SyncState
<1>2. Standing(pc, n, syncs[k].edited) \in SyncState
  BY <1>1, StandingType DEF PC
<1>3. Standing(pc, n, syncs[k].edited).pc = pc
  BY DEF Standing
<1> QED BY <1>2, <1>3 DEF TypeOK, Stand

LEMMA NextAttemptStands ==
    ASSUME TypeOK, NEW k \in Sync, NextAttempt(k)
    PROVE  \E pc \in {"idle", "list"}, n \in 1..Attempts : Stand(k, pc, n)
<1>1. syncs[k].attempt \in 1..Attempts
  BY DEF TypeOK, SyncState
<1>2. 1 \in 1..Attempts
  BY AttemptsAssumption
<1>3. CASE syncs[k].attempt < Attempts /\ Stand(k, "list", syncs[k].attempt + 1)
  <2>1. syncs[k].attempt + 1 \in 1..Attempts
    BY <1>1, <1>3, AttemptsAssumption
  <2> QED BY <1>3, <2>1
<1>4. CASE syncs[k].attempt >= Attempts /\ Stand(k, "idle", 1)
  BY <1>2, <1>4
<1> QED BY <1>3, <1>4 DEF NextAttempt

\* A step of a sync leaves a method as it is or makes it an entry, and changes
\* one at most.
Grows ==
    /\ methods' \in [Method -> MethodState \union {None}]
    /\ \A m \in Method :
          \/ methods'[m] = methods[m]
          \/ methods'[m] # None /\ methods'[m].name = "generic"
    /\ \E m \in Method : \A n \in Method \ {m} : methods'[n] = methods[n]

Still == methods' = methods

LEMMA RenamedGrows ==
    ASSUME TypeOK, NEW k \in Sync, Renamed(k)
    PROVE  Grows /\ Generic' # {}
<1> DEFINE t == syncs[k].target
<1>1. t \in Method /\ methods[t] \in MethodState
  BY DEF TypeOK, Renamed, Present
<1>2. methods' = [methods EXCEPT ![t] = [methods[t] EXCEPT !.name = "generic"]]
  BY DEF Renamed
<1>3. [methods[t] EXCEPT !.name = "generic"] \in MethodState
  BY <1>1 DEF MethodState, Name
<1>4. [methods[t] EXCEPT !.name = "generic"].name = "generic"
  BY <1>1 DEF MethodState
<1>5. [methods[t] EXCEPT !.name = "generic"] # None
  BY <1>3, NoneAssumption
<1>6. methods'[t] # None /\ methods'[t].name = "generic"
  BY <1>1, <1>2, <1>4, <1>5 DEF TypeOK
<1>7. Grows
  BY <1>1, <1>2, <1>3, <1>6 DEF TypeOK, Grows
<1>8. t \in Generic'
  BY <1>1, <1>6 DEF Generic, Present
<1> QED BY <1>7, <1>8

LEMMA CreatedGrows ==
    ASSUME TypeOK, NEW k \in Sync, At(k, "create"), Created(k)
    PROVE  Grows /\ Generic' # {}
<1>1. syncs[k].codes \in Seq(PluginCode) /\ syncs[k].codes # <<>>
  BY DEF TypeOK, SyncState, At
<1> DEFINE new == [name |-> "generic", code |-> Head(syncs[k].codes)]
<1>2. new \in MethodState
  <2>1. Head(syncs[k].codes) \in PluginCode
    BY <1>1
  <2> QED BY <2>1 DEF MethodState, Name
<1>3. new # None
  BY <1>2, NoneAssumption
<1>4. new.name = "generic"
  OBVIOUS
<1>5. PICK m \in Method : methods' = [methods EXCEPT ![m] = new]
  BY DEF Created
<1> HIDE DEF new
<1>6. methods'[m] = new
  BY <1>5 DEF TypeOK
<1>7. Grows
  BY <1>2, <1>3, <1>4, <1>5, <1>6 DEF TypeOK, Grows
<1>8. m \in Generic'
  BY <1>3, <1>4, <1>6 DEF Generic, Present
<1> QED BY <1>7, <1>8

\* Every step of a sync, and the beginning of one, only makes methods grow.
LEMMA SyncGrows ==
    ASSUME TypeOK, NEW k \in Sync, SyncStep(k)
    PROVE  Grows \/ Still
<1>1. CASE List(k) \/ ListFails(k) \/ CreateExists(k)
  BY <1>1 DEF List, ListFails, CreateExists, Still
<1>2. CASE Rename(k) \/ RenameFails(k)
  BY <1>2, RenamedGrows DEF Rename, RenameFails, Still
<1>3. CASE Create(k) \/ CreateFails(k)
  BY <1>3, CreatedGrows DEF Create, CreateFails, Still
<1>4. CASE Abort(k)
  BY <1>4, RenamedGrows, CreatedGrows DEF Abort, Still
<1> QED BY <1>1, <1>2, <1>3, <1>4 DEF SyncStep

LEMMA SyncsType ==
    ASSUME TypeOK, NEW k \in Sync, SyncStep(k)
    PROVE  /\ syncs' \in [Sync -> SyncState]
           /\ \A j \in Sync : /\ syncs'[j].pc = "rename" => syncs'[j].target # None
                              /\ syncs'[j].pc = "create" => syncs'[j].codes # <<>>
<1> USE AttemptsAssumption
<1>1. CASE Succeed(k)
  BY <1>1, StandType DEF Succeed
<1>2. CASE NextAttempt(k)
  BY <1>2, StandType, NextAttemptStands
<1>3. CASE Stand(k, "idle", 1)
  BY <1>3, StandType
<1>4. ASSUME NEW pc \in {"rename", "create"}, NEW m \in Method \union {None},
             NEW codes \in PluginCodes, Decide(k, pc, m, codes),
             pc = "rename" => m # None
      PROVE  /\ syncs' \in [Sync -> SyncState]
             /\ \A j \in Sync : /\ syncs'[j].pc = "rename" => syncs'[j].target # None
                                /\ syncs'[j].pc = "create" => syncs'[j].codes # <<>>
  <2> DEFINE new == [syncs[k] EXCEPT !.pc = pc, !.target = m, !.codes = codes]
  <2>1. codes \in Seq(PluginCode) /\ codes # <<>>
    BY CodesAreListed
  <2>2. syncs[k] \in SyncState
    BY DEF TypeOK
  <2>3. new \in SyncState
    BY <2>1, <2>2 DEF SyncState, PC
  <2>4. new.pc = pc /\ new.target = m /\ new.codes = codes
    BY <2>2 DEF SyncState
  <2>5. syncs' = [syncs EXCEPT ![k] = new]
    BY <1>4 DEF Decide
  <2> HIDE DEF new
  <2> QED BY <1>4, <2>1, <2>3, <2>4, <2>5 DEF TypeOK
<1>5. CASE /\ Len(syncs[k].codes) > 1
           /\ syncs' = [syncs EXCEPT ![k].codes = Tail(syncs[k].codes)]
  <2> DEFINE new == [syncs[k] EXCEPT !.codes = Tail(syncs[k].codes)]
  <2>1. syncs[k] \in SyncState
    BY DEF TypeOK
  <2>2. syncs[k].codes \in Seq(PluginCode)
    BY <2>1 DEF SyncState
  <2>3. Tail(syncs[k].codes) \in Seq(PluginCode) /\ Tail(syncs[k].codes) # <<>>
    BY <1>5, <2>2, TailIsListed
  <2>4. new \in SyncState
    BY <2>1, <2>3 DEF SyncState
  <2>5. new.pc = syncs[k].pc /\ new.target = syncs[k].target /\ new.codes # <<>>
    BY <2>1, <2>3 DEF SyncState
  <2>6. syncs' = [syncs EXCEPT ![k] = new]
    BY <1>5
  <2> HIDE DEF new
  <2> QED BY <2>4, <2>5, <2>6 DEF TypeOK
<1>6. CASE List(k)
  <2>1. \A m \in Present : m # None
    BY NoneAssumption DEF Present
  <2>2. CASE Succeed(k)
    BY <1>1, <2>2
  <2>3. ASSUME NEW codes \in PluginCodes, NEW m \in Present, Decide(k, "rename", m, codes)
        PROVE  /\ syncs' \in [Sync -> SyncState]
               /\ \A j \in Sync : /\ syncs'[j].pc = "rename" => syncs'[j].target # None
                                  /\ syncs'[j].pc = "create" => syncs'[j].codes # <<>>
    <3>1. m \in Method
      BY DEF Present
    <3> QED BY <1>4, <2>1, <2>3, <3>1
  <2>4. ASSUME NEW codes \in PluginCodes, Decide(k, "create", None, codes)
        PROVE  /\ syncs' \in [Sync -> SyncState]
               /\ \A j \in Sync : /\ syncs'[j].pc = "rename" => syncs'[j].target # None
                                  /\ syncs'[j].pc = "create" => syncs'[j].codes # <<>>
    BY <1>4, <2>4
  <2> QED BY <1>6, <2>2, <2>3, <2>4 DEF List
<1>7. CASE ListFails(k) \/ RenameFails(k)
  BY <1>2, <1>7 DEF ListFails, RenameFails
<1>8. CASE Rename(k) \/ Create(k) \/ CreateExists(k)
  BY <1>1, <1>8 DEF Rename, Create, CreateExists
<1>9. CASE CreateFails(k)
  BY <1>2, <1>5, <1>9 DEF CreateFails
<1>10. CASE Abort(k)
  BY <1>3, <1>10 DEF Abort
<1> QED BY <1>6, <1>7, <1>8, <1>9, <1>10 DEF SyncStep

LEMMA RestType ==
    ASSUME TypeOK, NEW k \in Sync, SyncStep(k)
    PROVE  edits' \in 0..MaxEdits /\ unsure' \in BOOLEAN
<1>1. edits' = edits /\ (unsure' = unsure \/ unsure' = TRUE)
  BY DEF SyncStep, List, ListFails, Rename, RenameFails, Create, CreateExists,
         CreateFails, Abort
<1> QED BY <1>1 DEF TypeOK

LEMMA StartType ==
    ASSUME TypeOK, NEW k \in Sync, StartSync(k)
    PROVE  TypeOK'
<1>1. Standing("list", 1, FALSE) \in SyncState
  <2>1. 1 \in 1..Attempts
    BY AttemptsAssumption
  <2> QED BY <2>1, StandingType DEF PC
<1>2. Standing("list", 1, FALSE).pc = "list"
  BY DEF Standing
<1>3. unsure' \in BOOLEAN
  BY DEF StartSync, TypeOK
<1> QED BY <1>1, <1>2, <1>3 DEF TypeOK, StartSync

LEMMA EditType ==
    ASSUME TypeOK, NEW m \in Method, NEW s \in MethodState \union {None}, Edit(m, s)
    PROVE  TypeOK'
<1>1. \A k \in Sync : syncs[k] \in SyncState
  BY DEF TypeOK
<1>2. syncs' = [k \in Sync |-> [syncs[k] EXCEPT !.edited = TRUE]]
  BY DEF Edit
<1>3. \A k \in Sync : /\ syncs'[k] \in SyncState
                      /\ syncs'[k].pc = syncs[k].pc
                      /\ syncs'[k].target = syncs[k].target
                      /\ syncs'[k].codes = syncs[k].codes
  BY <1>1, <1>2 DEF SyncState
<1>4. edits' \in 0..MaxEdits /\ unsure' \in BOOLEAN
  BY MaxEditsAssumption DEF Edit, TypeOK
<1>5. methods' \in [Method -> MethodState \union {None}]
  BY DEF Edit, TypeOK
<1> QED BY <1>2, <1>3, <1>4, <1>5 DEF TypeOK

LEMMA NextTypes == TypeOK /\ [Next]_vars => TypeOK'
<1> SUFFICES ASSUME TypeOK, [Next]_vars PROVE TypeOK'
  OBVIOUS
<1>1. ASSUME NEW k \in Sync, SyncStep(k)
      PROVE  TypeOK'
  <2>1. methods' \in [Method -> MethodState \union {None}]
    BY <1>1, SyncGrows DEF Grows, Still, TypeOK
  <2> QED BY <1>1, <2>1, SyncsType, RestType DEF TypeOK
<1>2. CASE UNCHANGED vars
  BY <1>2 DEF TypeOK, vars
<1> QED BY <1>1, <1>2, StartType, EditType DEF Next

LEMMA InitTypes == Init => TypeOK
<1> SUFFICES ASSUME Init PROVE TypeOK
  OBVIOUS
<1>1. Standing("idle", 1, FALSE) \in SyncState
  <2>1. 1 \in 1..Attempts
    BY AttemptsAssumption
  <2> QED BY <2>1, StandingType DEF PC
<1>2. Standing("idle", 1, FALSE).pc = "idle"
  BY DEF Standing
<1>3. syncs \in [Sync -> SyncState] /\ \A k \in Sync : syncs[k].pc = "idle"
  BY <1>1, <1>2 DEF Init
<1>4. edits \in 0..MaxEdits
  BY MaxEditsAssumption DEF Init
<1> QED BY <1>3, <1>4 DEF Init, TypeOK

\* A sync is always at a step of the code: it has a method to rename or a code
\* to try when it is about to use one, and its attempt is one of the four.
THEOREM TypeCorrect == Spec => []TypeOK
BY InitTypes, NextTypes, PTL DEF Spec

-----------------------------------------------------------------------------
(* What a step of a sync does to the syncs.                                *)

LEMMA StandEffect ==
    ASSUME TypeOK, NEW k \in Sync, NEW pc, NEW n, Stand(k, pc, n)
    PROVE  /\ syncs'[k].pc = pc /\ syncs'[k].edited = syncs[k].edited
           /\ \A j \in Sync \ {k} : syncs'[j] = syncs[j]
BY DEF TypeOK, Stand, Standing

LEMMA DecideEffect ==
    ASSUME TypeOK, NEW k \in Sync, NEW pc, NEW m, NEW codes, Decide(k, pc, m, codes)
    PROVE  /\ syncs'[k].pc = pc /\ syncs'[k].edited = syncs[k].edited
           /\ syncs'[k].codes = codes
           /\ \A j \in Sync \ {k} : syncs'[j] = syncs[j]
<1>1. syncs[k] \in SyncState
  BY DEF TypeOK
<1> DEFINE new == [syncs[k] EXCEPT !.pc = pc, !.target = m, !.codes = codes]
<1>2. new.pc = pc /\ new.edited = syncs[k].edited /\ new.codes = codes
  BY <1>1 DEF SyncState
<1>3. syncs' = [syncs EXCEPT ![k] = new]
  BY DEF Decide
<1> HIDE DEF new
<1> QED BY <1>2, <1>3 DEF TypeOK

LEMMA TailEffect ==
    ASSUME TypeOK, NEW k \in Sync,
           syncs' = [syncs EXCEPT ![k].codes = Tail(syncs[k].codes)]
    PROVE  /\ syncs'[k].pc = syncs[k].pc /\ syncs'[k].edited = syncs[k].edited
           /\ syncs'[k].codes = Tail(syncs[k].codes)
           /\ \A j \in Sync \ {k} : syncs'[j] = syncs[j]
<1>1. syncs[k] \in SyncState
  BY DEF TypeOK
<1> DEFINE rest == Tail(syncs[k].codes)
<1> HIDE DEF rest
<1> DEFINE new == [syncs[k] EXCEPT !.codes = rest]
<1>2. new.pc = syncs[k].pc /\ new.edited = syncs[k].edited /\ new.codes = rest
  BY <1>1 DEF SyncState
<1>3. syncs' = [syncs EXCEPT ![k] = new]
  BY DEF rest
<1> HIDE DEF new
<1>4. syncs'[k] = new /\ \A j \in Sync \ {k} : syncs'[j] = syncs[j]
  BY <1>3 DEF TypeOK
<1> QED BY <1>2, <1>4 DEF rest

LEMMA NextAttemptEffect ==
    ASSUME TypeOK, NEW k \in Sync, NextAttempt(k)
    PROVE  /\ syncs'[k].pc \in {"idle", "list"} /\ syncs'[k].edited = syncs[k].edited
           /\ \A j \in Sync \ {k} : syncs'[j] = syncs[j]
BY StandEffect DEF NextAttempt

\* A step is of a sync in flight, which stays where a call led it; it leaves
\* the other syncs alone, and what was lost remains lost.
LEMMA SyncEffect ==
    ASSUME TypeOK, NEW k \in Sync, SyncStep(k)
    PROVE  /\ InFlight(k) /\ syncs'[k].edited = syncs[k].edited
           /\ \A j \in Sync \ {k} : syncs'[j] = syncs[j]
           /\ unsure => unsure'
<1>1. CASE List(k)
  BY <1>1, StandEffect, DecideEffect DEF List, At, InFlight, Succeed
<1>2. CASE ListFails(k) \/ RenameFails(k)
  BY <1>2, NextAttemptEffect DEF ListFails, RenameFails, At, InFlight
<1>3. CASE Rename(k) \/ Create(k) \/ CreateExists(k)
  BY <1>3, StandEffect DEF Rename, Create, CreateExists, At, InFlight, Succeed
<1>4. CASE CreateFails(k)
  BY <1>4, TailEffect, NextAttemptEffect DEF CreateFails, At, InFlight
<1>5. CASE Abort(k)
  BY <1>5, StandEffect DEF Abort
<1> QED BY <1>1, <1>2, <1>3, <1>4, <1>5 DEF SyncStep

-----------------------------------------------------------------------------
(* One entry.                                                              *)

\* While nothing is lost, a step leaves the methods alone, and a sync is then
\* about to make an entry only where there was none; or it makes the entry.
LEMMA SyncOutcome ==
    ASSUME TypeOK, NEW k \in Sync, SyncStep(k), ~ unsure'
    PROVE  \/ /\ Still
              /\ At(k, "rename")' \/ At(k, "create")' => Generic = {} \/ At(k, "create")
           \/ /\ Grows
              /\ At(k, "rename") \/ At(k, "create")
              /\ At(k, "ok")'
<1>1. CASE List(k)
  BY <1>1, StandEffect DEF List, At, Succeed, Still
<1>2. CASE ListFails(k) \/ RenameFails(k)
  BY <1>2, NextAttemptEffect DEF ListFails, RenameFails, At, Still
<1>3. CASE Rename(k)
  BY <1>3, StandEffect, RenamedGrows DEF Rename, At, Succeed
<1>4. CASE Create(k)
  BY <1>4, StandEffect, CreatedGrows DEF Create, At, Succeed
<1>5. CASE CreateExists(k)
  BY <1>5, StandEffect DEF CreateExists, At, Succeed, Still
<1>6. CASE CreateFails(k)
  BY <1>6 DEF CreateFails, Still
<1>7. CASE Abort(k)
  BY <1>7, StandEffect DEF Abort, At, Still
<1> QED BY <1>1, <1>2, <1>3, <1>4, <1>5, <1>6, <1>7 DEF SyncStep

LEMMA SyncKeepsSingle ==
    ASSUME TypeOK, Alone, SingleEntry, NEW k \in Sync, SyncStep(k)
    PROVE  (Alone /\ SingleEntry)'
<1> SUFFICES ASSUME ~ unsure'
             PROVE  /\ \A i, j \in Sync : InFlight(i)' /\ InFlight(j)' => i = j
                    /\ \A j \in Sync : At(j, "rename")' \/ At(j, "create")' => Generic' = {}
                    /\ \A m, n \in Generic' : m = n
  BY DEF Alone, SingleEntry
<1>1. ~ unsure /\ InFlight(k) /\ \A j \in Sync \ {k} : syncs'[j] = syncs[j]
  BY SyncEffect
<1>2. \A j \in Sync \ {k} : ~ InFlight(j) /\ ~ InFlight(j)'
  BY <1>1 DEF Alone, InFlight
<1>3. \A j \in Sync \ {k} : ~ At(j, "rename")' /\ ~ At(j, "create")'
  BY <1>2 DEF InFlight, At
<1>4. CASE /\ Still
           /\ At(k, "rename")' \/ At(k, "create")' => Generic = {} \/ At(k, "create")
  <2>1. Generic' = Generic
    BY <1>4 DEF Still, Generic, Present
  <2>2. At(k, "create") => Generic = {}
    BY <1>1 DEF Alone
  <2>3. \A m, n \in Generic : m = n
    BY <1>1 DEF SingleEntry
  <2> QED BY <1>2, <1>3, <1>4, <2>1, <2>2, <2>3
<1>5. CASE Grows /\ (At(k, "rename") \/ At(k, "create")) /\ At(k, "ok")'
  <2>1. Generic = {}
    BY <1>1, <1>5 DEF Alone
  <2>2. PICK m \in Method : \A n \in Method \ {m} : methods'[n] = methods[n]
    BY <1>5 DEF Grows
  <2>3. \A n \in Method \ {m} : n \notin Generic'
    BY <2>1, <2>2 DEF Generic, Present
  <2>4. \A n \in Generic' : n = m
    BY <2>3 DEF Generic, Present
  <2>5. ~ At(k, "rename")' /\ ~ At(k, "create")'
    BY <1>5 DEF At
  <2> QED BY <1>2, <1>3, <2>4, <2>5
<1> QED BY <1>4, <1>5, SyncOutcome

LEMMA StartKeepsSingle ==
    ASSUME TypeOK, Alone, SingleEntry, NEW k \in Sync, StartSync(k)
    PROVE  (Alone /\ SingleEntry)'
<1>1. /\ syncs'[k].pc = "list" /\ \A j \in Sync \ {k} : syncs'[j] = syncs[j]
  BY DEF StartSync, Standing, TypeOK
<1>2. Generic' = Generic
  BY DEF StartSync, Generic, Present
<1> SUFFICES ASSUME ~ unsure'
             PROVE  /\ \A i, j \in Sync : InFlight(i)' /\ InFlight(j)' => i = j
                    /\ \A j \in Sync : At(j, "rename")' \/ At(j, "create")' => Generic' = {}
                    /\ \A m, n \in Generic' : m = n
  BY DEF Alone, SingleEntry
<1>3. ~ unsure /\ \A j \in Sync : ~ InFlight(j)
  BY DEF StartSync
<1>4. \A j \in Sync \ {k} : ~ InFlight(j)'
  BY <1>1, <1>3 DEF InFlight
<1>5. \A j \in Sync : ~ At(j, "rename")' /\ ~ At(j, "create")'
  BY <1>1, <1>4 DEF InFlight, At
<1>6. \A m, n \in Generic : m = n
  BY <1>3 DEF SingleEntry
<1> QED BY <1>2, <1>4, <1>5, <1>6

\* The owner's edits move no sync.
LEMMA EditEffect ==
    ASSUME TypeOK, NEW m \in Method, NEW s \in MethodState \union {None}, Edit(m, s)
    PROVE  \A k \in Sync : syncs'[k].pc = syncs[k].pc /\ syncs'[k].edited = TRUE
<1>1. \A k \in Sync : syncs[k] \in SyncState
  BY DEF TypeOK
<1>2. syncs' = [k \in Sync |-> [syncs[k] EXCEPT !.edited = TRUE]]
  BY DEF Edit
<1> QED BY <1>1, <1>2 DEF SyncState

LEMMA EditKeepsSingle ==
    ASSUME TypeOK, Alone, SingleEntry, NEW m \in Method,
           NEW s \in MethodState \union {None}, Edit(m, s)
    PROVE  (Alone /\ SingleEntry)'
<1>1. \A k \in Sync : syncs'[k].pc = syncs[k].pc
  BY EditEffect
<1>2. ~ unsure' => ~ unsure /\ (s = None \/ s.name # "generic")
  BY DEF Edit
<1>3. ~ unsure' => Generic' \subseteq Generic
  BY <1>2 DEF Edit, TypeOK, Generic, Present
<1>4. Alone'
  BY <1>1, <1>2, <1>3 DEF Alone, InFlight, At
<1>5. SingleEntry'
  BY <1>2, <1>3 DEF SingleEntry
<1> QED BY <1>4, <1>5

LEMMA NextSingle == TypeOK /\ Alone /\ SingleEntry /\ [Next]_vars => (Alone /\ SingleEntry)'
<1> SUFFICES ASSUME TypeOK, Alone, SingleEntry, [Next]_vars
             PROVE  (Alone /\ SingleEntry)'
  OBVIOUS
<1>1. CASE UNCHANGED vars
  BY <1>1 DEF Alone, SingleEntry, InFlight, At, Generic, Present, vars
<1> QED BY <1>1, SyncKeepsSingle, StartKeepsSingle, EditKeepsSingle DEF Next

LEMMA InitSingle == Init => Alone /\ SingleEntry
<1> SUFFICES ASSUME Init PROVE Alone /\ SingleEntry
  OBVIOUS
<1>1. \A k \in Sync : syncs[k].pc = "idle"
  BY DEF Init, Standing
<1> QED BY <1>1 DEF Init, Alone, SingleEntry, InFlight, At

\* For any number of methods, syncs and codes: as long as no answer was lost,
\* no syncs overlapped and the owner named no method so, the store has one
\* entry called Canada Post at most.
THEOREM OneEntry == Spec => []SingleEntry
BY InitTypes, NextTypes, InitSingle, NextSingle, PTL DEF Spec

-----------------------------------------------------------------------------
(* Success leaves an entry.                                                *)

\* Entries stay, and no method comes to have one of the codes but as an entry.
LEMMA GrowthKeeps ==
    ASSUME TypeOK, Grows \/ Still
    PROVE  /\ HasEntry => HasEntry'
           /\ \A codes : Refusable(methods, codes) => Refusable(methods', codes)
<1>1. \A m \in Method :
         \/ methods'[m] = methods[m]
         \/ methods'[m] # None /\ methods'[m].name = "generic"
  BY DEF Grows, Still
<1>2. ASSUME HasEntry PROVE HasEntry'
  <2>1. CASE Generic # {}
    BY <1>1, <2>1 DEF HasEntry, Generic, Present
  <2>2. CASE \E m \in Present : methods[m].name = "blank"
    BY <1>1, <2>2 DEF HasEntry, Generic, Present
  <2> QED BY <1>2, <2>1, <2>2 DEF HasEntry
<1>3. ASSUME NEW codes, Refusable(methods, codes)
      PROVE  Refusable(methods', codes)
  BY <1>1, <1>3 DEF Refusable
<1> QED BY <1>2, <1>3

\* A sync that comes to succeed made the entry, found it, or was told of it.
LEMMA OkHasEntry ==
    ASSUME TypeOK, Answered, NEW k \in Sync, SyncStep(k), ~ syncs[k].edited, At(k, "ok")'
    PROVE  HasEntry'
<1>1. CASE List(k)
  <2>1. Generic # {}
    BY <1>1, DecideEffect DEF List, At
  <2>2. Generic' = Generic
    BY <1>1 DEF List, Generic, Present
  <2> QED BY <2>1, <2>2 DEF HasEntry
<1>2. CASE ListFails(k) \/ RenameFails(k)
  BY <1>2, NextAttemptEffect DEF ListFails, RenameFails, At
<1>3. CASE Rename(k) \/ Create(k)
  BY <1>3, RenamedGrows, CreatedGrows DEF Rename, Create, HasEntry
<1>4. CASE CreateExists(k)
  <2>1. Refusable(methods, syncs[k].codes)
    BY <1>4 DEF CreateExists, Answered
  <2>2. syncs[k].codes \in Seq(PluginCode) /\ syncs[k].codes # <<>>
    BY <1>4 DEF CreateExists, TypeOK, SyncState, At
  <2>3. 1 \in DOMAIN syncs[k].codes /\ Head(syncs[k].codes) = syncs[k].codes[1]
    BY <2>2
  <2>4. PICK m \in Present : methods[m].name = "generic" \/ methods[m].code = Head(syncs[k].codes)
    BY <1>4 DEF CreateExists
  <2>5. methods[m].name \in {"generic", "blank"}
    BY <2>1, <2>3, <2>4 DEF Refusable, Present
  <2>6. HasEntry
    BY <2>5 DEF HasEntry, Generic
  <2> QED BY <1>4, <2>6 DEF CreateExists, HasEntry, Generic, Present
<1>5. CASE CreateFails(k)
  BY <1>5, TailEffect, NextAttemptEffect DEF CreateFails, At
<1>6. CASE Abort(k)
  BY <1>6, StandEffect DEF Abort, At
<1> QED BY <1>1, <1>2, <1>3, <1>4, <1>5, <1>6 DEF SyncStep

\* A sync about to create an entry saw no method with one of its codes.
LEMMA CreateIsRefusable ==
    ASSUME TypeOK, Answered, NEW k \in Sync, SyncStep(k), ~ syncs[k].edited, At(k, "create")'
    PROVE  Refusable(methods', syncs'[k].codes)
<1>1. CASE List(k)
  <2>1. PICK codes \in PluginCodes : (\A m \in Present : ~ Like(m, codes))
                                     /\ Decide(k, "create", None, codes)
    BY <1>1, StandEffect, DecideEffect DEF List, At, Succeed
  <2>2. Refusable(methods, codes)
    BY <2>1 DEF Refusable, Like, Present
  <2>3. syncs'[k].codes = codes
    BY <2>1, DecideEffect
  <2>4. Still
    BY <1>1 DEF List, Still
  <2> QED BY <2>2, <2>3, <2>4, GrowthKeeps
<1>2. CASE ListFails(k) \/ RenameFails(k)
  BY <1>2, NextAttemptEffect DEF ListFails, RenameFails, At
<1>3. CASE Rename(k) \/ Create(k) \/ CreateExists(k)
  BY <1>3, StandEffect DEF Rename, Create, CreateExists, At, Succeed
<1>4. CASE CreateFails(k)
  <2>1. /\ Len(syncs[k].codes) > 1
        /\ syncs' = [syncs EXCEPT ![k].codes = Tail(syncs[k].codes)]
    BY <1>4, NextAttemptEffect DEF CreateFails, At
  <2>2. syncs'[k].codes = Tail(syncs[k].codes)
    BY <2>1, TailEffect
  <2>3. syncs[k].codes \in Seq(PluginCode)
    BY DEF TypeOK, SyncState
  <2>4. \A i \in DOMAIN Tail(syncs[k].codes) :
           \E j \in DOMAIN syncs[k].codes : Tail(syncs[k].codes)[i] = syncs[k].codes[j]
    BY <2>1, <2>3, TailIsListed
  <2>5. Refusable(methods, syncs[k].codes)
    BY <1>4 DEF CreateFails, Answered
  <2>6. Refusable(methods, Tail(syncs[k].codes))
    BY <2>4, <2>5 DEF Refusable
  <2> QED BY <1>4, <2>2, <2>6, SyncGrows, GrowthKeeps
<1>5. CASE Abort(k)
  BY <1>5, StandEffect DEF Abort, At
<1> QED BY <1>1, <1>2, <1>3, <1>4, <1>5 DEF SyncStep

LEMMA NextAnswered == TypeOK /\ Answered /\ [Next]_vars => Answered'
<1> SUFFICES ASSUME TypeOK, Answered, [Next]_vars PROVE Answered'
  OBVIOUS
<1>1. ASSUME NEW k \in Sync, SyncStep(k)
      PROVE  Answered'
  <2>1. syncs'[k].edited = syncs[k].edited /\ \A j \in Sync \ {k} : syncs'[j] = syncs[j]
    BY <1>1, SyncEffect
  <2>2. Grows \/ Still
    BY <1>1, SyncGrows
  <2>3. ASSUME NEW j \in Sync \ {k}, ~ syncs'[j].edited
        PROVE  /\ At(j, "ok")' => HasEntry'
               /\ At(j, "create")' => Refusable(methods', syncs'[j].codes)
    <3>1. syncs'[j] = syncs[j]
      BY <2>1
    <3>2. /\ At(j, "ok") => HasEntry
          /\ At(j, "create") => Refusable(methods, syncs[j].codes)
      BY <2>3, <3>1 DEF Answered
    <3> QED BY <2>2, <3>1, <3>2, GrowthKeeps DEF At
  <2>4. ASSUME ~ syncs'[k].edited
        PROVE  /\ At(k, "ok")' => HasEntry'
               /\ At(k, "create")' => Refusable(methods', syncs'[k].codes)
    BY <1>1, <2>1, <2>4, OkHasEntry, CreateIsRefusable
  <2> QED BY <2>3, <2>4 DEF Answered
<1>2. ASSUME NEW k \in Sync, StartSync(k)
      PROVE  Answered'
  <2>1. syncs'[k].pc = "list" /\ \A j \in Sync \ {k} : syncs'[j] = syncs[j]
    BY <1>2 DEF StartSync, Standing, TypeOK
  <2>2. Still
    BY <1>2 DEF StartSync, Still
  <2>3. ASSUME NEW j \in Sync \ {k}, ~ syncs'[j].edited
        PROVE  /\ At(j, "ok")' => HasEntry'
               /\ At(j, "create")' => Refusable(methods', syncs'[j].codes)
    <3>1. syncs'[j] = syncs[j]
      BY <2>1
    <3>2. /\ At(j, "ok") => HasEntry
          /\ At(j, "create") => Refusable(methods, syncs[j].codes)
      BY <2>3, <3>1 DEF Answered
    <3> QED BY <2>2, <3>1, <3>2, GrowthKeeps DEF At
  <2> QED BY <2>1, <2>3 DEF Answered, At
<1>3. ASSUME NEW m \in Method, NEW s \in MethodState \union {None}, Edit(m, s)
      PROVE  Answered'
  BY <1>3, EditEffect DEF Answered
<1>4. CASE UNCHANGED vars
  BY <1>4 DEF vars, Answered, At, HasEntry, Refusable, Generic, Present
<1> QED BY <1>1, <1>2, <1>3, <1>4 DEF Next

LEMMA InitAnswered == Init => Answered
BY DEF Init, Standing, Answered, At

\* For any number of methods, syncs and codes: a sync that succeeds leaves a
\* method called Canada Post, although other syncs are at work, unless the
\* owner edited the methods meanwhile or one of them cannot be renamed.
THEOREM SuccessLeavesAnEntry == Spec => []SuccessHasEntry
<1>1. Answered => SuccessHasEntry
  BY DEF Answered, SuccessHasEntry, HasEntry
<1> QED BY <1>1, InitTypes, NextTypes, InitAnswered, NextAnswered, PTL DEF Spec

-----------------------------------------------------------------------------
(* Progress.                                                               *)

LEMMA NextAttemptIsLater ==
    ASSUME TypeOK, NEW k \in Sync, NextAttempt(k)
    PROVE  ~ InFlight(k)' \/ Later(syncs[k], syncs'[k])
<1>1. syncs[k].attempt \in Nat /\ Attempts \in Nat
  BY AttemptsAssumption DEF TypeOK, SyncState
<1>2. CASE Stand(k, "list", syncs[k].attempt + 1)
  <2>1. syncs'[k].attempt = syncs[k].attempt + 1
    BY <1>2 DEF Stand, Standing, TypeOK
  <2> QED BY <1>1, <2>1 DEF Later
<1>3. CASE Stand(k, "idle", 1)
  BY <1>3, StandEffect DEF InFlight
<1> QED BY <1>2, <1>3 DEF NextAttempt

LEMMA DecisionIsLater ==
    ASSUME TypeOK, NEW k \in Sync, At(k, "list"), NEW pc \in {"rename", "create"},
           NEW m, NEW codes, Decide(k, pc, m, codes)
    PROVE  Later(syncs[k], syncs'[k])
<1> DEFINE new == [syncs[k] EXCEPT !.pc = pc, !.target = m, !.codes = codes]
<1>1. syncs[k] \in SyncState
  BY DEF TypeOK
<1>2. new.pc = pc /\ new.attempt = syncs[k].attempt
  BY <1>1 DEF SyncState
<1>3. syncs' = [syncs EXCEPT ![k] = new]
  BY DEF Decide
<1> HIDE DEF new
<1>4. syncs'[k] = new
  BY <1>3 DEF TypeOK
<1>5. syncs'[k].attempt = syncs[k].attempt /\ syncs'[k].pc = pc /\ syncs[k].pc = "list"
  BY <1>2, <1>4 DEF At
<1> QED BY <1>5 DEF Later

LEMMA NextCodeIsLater ==
    ASSUME TypeOK, NEW k \in Sync, At(k, "create"), Len(syncs[k].codes) > 1,
           syncs' = [syncs EXCEPT ![k].codes = Tail(syncs[k].codes)]
    PROVE  Later(syncs[k], syncs'[k])
<1> DEFINE rest == Tail(syncs[k].codes)
<1>1. syncs[k] \in SyncState /\ syncs[k].codes \in Seq(PluginCode)
  BY DEF TypeOK, SyncState
<1>2. syncs[k].codes # <<>>
  BY <1>1
<1>3. Len(rest) = Len(syncs[k].codes) - 1 /\ Len(syncs[k].codes) \in Nat
  BY <1>1, <1>2, HeadTailProperties
<1> HIDE DEF rest
<1> DEFINE new == [syncs[k] EXCEPT !.codes = rest]
<1>4. /\ new.codes = rest /\ new.attempt = syncs[k].attempt
      /\ new.pc = syncs[k].pc
  BY <1>1 DEF SyncState
<1>5. syncs' = [syncs EXCEPT ![k] = new]
  BY DEF rest
<1> HIDE DEF new
<1>6. syncs'[k] = new
  BY <1>5 DEF TypeOK
<1>7. /\ syncs'[k].attempt = syncs[k].attempt
      /\ syncs'[k].pc = "create" /\ syncs[k].pc = "create"
      /\ Len(syncs'[k].codes) < Len(syncs[k].codes)
  BY <1>3, <1>4, <1>6 DEF At
<1> QED BY <1>7 DEF Later

LEMMA StepAdvances ==
    ASSUME TypeOK, NEW k \in Sync, SyncStep(k)
    PROVE  ~ InFlight(k)' \/ Later(syncs[k], syncs'[k])
<1>1. CASE List(k)
  <2>1. CASE Succeed(k)
    BY <2>1, StandEffect DEF Succeed, InFlight
  <2>2. CASE \E codes \in PluginCodes :
                \/ \E m \in Present : Like(m, codes) /\ Decide(k, "rename", m, codes)
                \/ /\ \A m \in Present : ~ Like(m, codes)
                   /\ Decide(k, "create", None, codes)
    BY <1>1, <2>2, DecisionIsLater DEF List
  <2> QED BY <1>1, <2>1, <2>2 DEF List
<1>2. CASE ListFails(k) \/ RenameFails(k)
  BY <1>2, NextAttemptIsLater DEF ListFails, RenameFails
<1>3. CASE Rename(k) \/ Create(k) \/ CreateExists(k)
  BY <1>3, StandEffect DEF Rename, Create, CreateExists, Succeed, InFlight
<1>4. CASE CreateFails(k)
  BY <1>4, NextCodeIsLater, NextAttemptIsLater DEF CreateFails
<1>5. CASE Abort(k)
  BY <1>5, StandEffect DEF Abort, InFlight
<1> QED BY <1>1, <1>2, <1>3, <1>4, <1>5 DEF SyncStep

\* For any number of codes and forms of authorization: no call of a sync is
\* made again in the same place, whatever was lost before it.
THEOREM RetriesAreBounded == Spec => SyncsAdvance
<1>1. TypeOK /\ [Next]_vars =>
        [\A k \in Sync : SyncStep(k) => ~ InFlight(k)' \/ Later(syncs[k], syncs'[k])]_vars
  BY StepAdvances
<1> QED BY <1>1, TypeCorrect, PTL DEF Spec, SyncsAdvance
=============================================================================
