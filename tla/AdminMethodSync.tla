--------------------------- MODULE AdminMethodSync ---------------------------
(***************************************************************************)
(* The entry "Canada Post" among the shipping methods of a store.          *)
(*                                                                         *)
(* Each login lists the methods Lexmodo has for the store and makes sure   *)
(* that one is called "Canada Post": it renames one that looks like it, or *)
(* creates one, trying the codes of the installed plugins in turn.  If     *)
(* that fails it starts again with the next form of authorization.  A call *)
(* may fail, or act and lose its answer; the syncs of concurrent logins    *)
(* interleave, and the owner edits the methods as well.  Lexmodo may       *)
(* refuse a second method of a name or of a code, or may accept it: the    *)
(* code is written for both.                                               *)
(***************************************************************************)
EXTENDS Naturals, Sequences, FiniteSets

CONSTANTS
    Method,     \* ids of shipping methods
    Sync,       \* syncs that may be in flight at once
    Attempts,   \* forms of authorization (four in the code)
    OtherCode,  \* codes of other shipping plugins
    MaxEdits,   \* bound on the owner's edits
    None        \* no method

VARIABLES
    methods,    \* Lexmodo: the shipping methods of the store
    syncs,      \* where each sync is, and whether the owner has edited since
    edits,      \* how often the owner has edited the methods
    unsure      \* history: syncs overlapped, an answer was lost, or the owner
                \* gave a method the name

vars == <<methods, syncs, edits, unsure>>

\* "Canada Post" itself, a name that begins with it, any other, and a method
\* the listing gives no name for, or no id and not that name.
Name == {"generic", "like", "foreign", "blank"}

\* "shipstation", under which this plugin is installed, and other plugins' codes.
PluginCode == {"own"} \union OtherCode
MethodState == [name : Name, code : PluginCode \union {"unknown"}]

\* The codes of the installed shipping plugins, or a default list that begins
\* with the plugin's own.  A plugin with "canada" or "post" in its name comes
\* before the plugin itself, any other after it.
PluginCodes ==
    {s \in UNION {[1..n -> PluginCode] : n \in 1..Cardinality(PluginCode)} :
        \A i, j \in DOMAIN s : s[i] = s[j] => i = j}

PC == {"idle", "list", "rename", "create", "ok"}
SyncState == [pc : PC, attempt : 1..Attempts, target : Method \union {None},
              codes : Seq(PluginCode), edited : BOOLEAN]

ASSUME AttemptsAssumption == Attempts \in Nat \ {0}
ASSUME MaxEditsAssumption == MaxEdits \in Nat
ASSUME NoneAssumption == None \notin Method \union MethodState
ASSUME OtherCodeAssumption == IsFiniteSet(OtherCode) /\ "own" \notin OtherCode

TypeOK ==
    /\ methods \in [Method -> MethodState \union {None}]
    /\ syncs \in [Sync -> SyncState]
    /\ \A k \in Sync : /\ syncs[k].pc = "rename" => syncs[k].target # None
                       /\ syncs[k].pc = "create" => syncs[k].codes # <<>>
    /\ edits \in 0..MaxEdits
    /\ unsure \in BOOLEAN

Present == {m \in Method : methods[m] # None}
Generic == {m \in Present : methods[m].name = "generic"}

Standing(pc, n, edited) ==
    [pc |-> pc, attempt |-> n, target |-> None, codes |-> <<>>, edited |-> edited]

\* The methods of a store before the first sync: no two of the name.
Init ==
    /\ methods \in [Method -> MethodState \union {None}]
    /\ \A m, n \in Generic : m = n
    /\ syncs = [k \in Sync |-> Standing("idle", 1, FALSE)]
    /\ edits = 0
    /\ unsure = FALSE

-----------------------------------------------------------------------------
(* A sync.                                                                 *)

At(k, pc) == syncs[k].pc = pc
InFlight(k) == syncs[k].pc \in {"list", "rename", "create"}

Stand(k, pc, n) ==
    syncs' = [syncs EXCEPT ![k] = Standing(pc, n, syncs[k].edited)]

Succeed(k) == Stand(k, "ok", 1)

NextAttemptForever(k) ==                         \* mutant: the last one again
    Stand(k, "list", IF syncs[k].attempt < Attempts THEN syncs[k].attempt + 1 ELSE Attempts)

NextAttemptPast(k) ==                            \* mutant: one more than there are
    \/ syncs[k].attempt <= Attempts /\ Stand(k, "list", syncs[k].attempt + 1)
    \/ syncs[k].attempt > Attempts /\ Stand(k, "idle", 1)

\* The attempt failed: the next form of authorization, or an error.
NextAttempt(k) ==
    \/ syncs[k].attempt < Attempts /\ Stand(k, "list", syncs[k].attempt + 1)
    \/ syncs[k].attempt >= Attempts /\ Stand(k, "idle", 1)

StartSync(k) ==
    /\ ~ InFlight(k)
    /\ syncs' = [syncs EXCEPT ![k] = Standing("list", 1, FALSE)]
    /\ unsure' = (unsure \/ \E j \in Sync : InFlight(j))
    /\ UNCHANGED <<methods, edits>>

\* isCanadaPostLikeMethod, of a method that can be renamed
Like(m, codes) ==
    /\ methods[m].name # "blank"
    /\ \/ methods[m].name \in {"generic", "like"}
       \/ methods[m].code \in {codes[i] : i \in DOMAIN codes}

\* Decided on the listing and on the plugins, which arrive unchanged.
Decide(k, pc, m, codes) ==
    syncs' = [syncs EXCEPT ![k].pc = pc, ![k].target = m, ![k].codes = codes]

ListForgetful(k) ==                              \* mutant: names are not compared
    /\ At(k, "list")
    /\ \E codes \in PluginCodes :
          \/ \E m \in Present : Like(m, codes) /\ Decide(k, "rename", m, codes)
          \/ /\ \A m \in Present : ~ Like(m, codes)
             /\ Decide(k, "create", None, codes)
    /\ UNCHANGED <<methods, edits, unsure>>

List(k) ==
    /\ At(k, "list")
    /\ \/ Generic # {} /\ Succeed(k)
       \/ /\ Generic = {}
          /\ \E codes \in PluginCodes :
                \/ \E m \in Present : Like(m, codes) /\ Decide(k, "rename", m, codes)
                \/ /\ \A m \in Present : ~ Like(m, codes)
                   /\ Decide(k, "create", None, codes)
    /\ UNCHANGED <<methods, edits, unsure>>

ListFails(k) ==
    /\ At(k, "list")
    /\ NextAttempt(k)
    /\ UNCHANGED <<methods, edits, unsure>>

\* The method is renamed, whatever it has become since it was listed.
Renamed(k) ==
    /\ syncs[k].target \in Present
    /\ methods' = [methods EXCEPT ![syncs[k].target].name = "generic"]

Rename(k) ==
    /\ At(k, "rename")
    /\ Renamed(k)
    /\ Succeed(k)
    /\ UNCHANGED <<edits, unsure>>

RenameFails(k) ==
    /\ At(k, "rename")
    /\ \/ UNCHANGED <<methods, unsure>>
       \/ Renamed(k) /\ unsure' = TRUE
    /\ NextAttempt(k)
    /\ UNCHANGED edits

Created(k) ==
    \E m \in Method \ Present :
        methods' = [methods EXCEPT ![m] =
                      [name |-> "generic", code |-> Head(syncs[k].codes)]]

Create(k) ==
    /\ At(k, "create")
    /\ Created(k)
    /\ Succeed(k)
    /\ UNCHANGED <<edits, unsure>>

\* Lexmodo says that it has a method of the name, or one of the code.
CreateExists(k) ==
    /\ At(k, "create")
    /\ \E m \in Present :
          methods[m].name = "generic" \/ methods[m].code = Head(syncs[k].codes)
    /\ Succeed(k)
    /\ UNCHANGED <<methods, edits, unsure>>

CreateFailsOnce(k) ==                            \* mutant: one code is enough
    /\ At(k, "create")
    /\ \/ UNCHANGED <<methods, unsure>>
       \/ Created(k) /\ unsure' = TRUE
    /\ Succeed(k)
    /\ UNCHANGED edits

\* Refused, unreachable, or done and the answer lost: the next code is tried.
CreateFails(k) ==
    /\ At(k, "create")
    /\ \/ UNCHANGED <<methods, unsure>>
       \/ Created(k) /\ unsure' = TRUE
    /\ \/ /\ Len(syncs[k].codes) > 1
          /\ syncs' = [syncs EXCEPT ![k].codes = Tail(syncs[k].codes)]
       \/ Len(syncs[k].codes) = 1 /\ NextAttempt(k)
    /\ UNCHANGED edits

\* The login is abandoned or the process restarts; a request that was under
\* way may still be carried out.
Abort(k) ==
    /\ InFlight(k)
    /\ \/ UNCHANGED <<methods, unsure>>
       \/ /\ \/ At(k, "rename") /\ Renamed(k)
             \/ At(k, "create") /\ Created(k)
          /\ unsure' = TRUE
    /\ Stand(k, "idle", 1)
    /\ UNCHANGED edits

\* The owner adds, changes or removes a method.
Edit(m, s) ==
    /\ edits < MaxEdits
    /\ s # methods[m]
    /\ methods' = [methods EXCEPT ![m] = s]
    /\ syncs' = [k \in Sync |-> [syncs[k] EXCEPT !.edited = TRUE]]
    /\ edits' = edits + 1
    /\ unsure' = (unsure \/ (s # None /\ s.name = "generic"))

SyncStep(k) ==
    \/ List(k) \/ ListFails(k)
    \/ Rename(k) \/ RenameFails(k)
    \/ Create(k) \/ CreateExists(k) \/ CreateFails(k)
    \/ Abort(k)

Next ==
    \/ \E k \in Sync : StartSync(k) \/ SyncStep(k)
    \/ \E m \in Method, s \in MethodState \union {None} : Edit(m, s)

Spec == Init /\ [][Next]_vars

\* A call of a sync is answered or fails, at the latest when its login is
\* abandoned; logins and edits need not happen.
FairSpec == Spec /\ \A k \in Sync : WF_vars(SyncStep(k))

-----------------------------------------------------------------------------
(* Properties.                                                             *)

\* "Keep a single generic plugin entry in admin shipping settings": syncs that
\* follow one another, whatever calls of theirs are refused or abandoned and
\* whatever else the owner edits, never leave two methods called Canada Post.
SingleEntry == ~ unsure => \A m, n \in Generic : m = n

\* A sync that reports success leaves a method called Canada Post, also if it
\* was told that one exists and although other syncs are at work; unless the
\* owner edited the methods since it began, or one cannot be renamed.
SuccessHasEntry ==
    \A k \in Sync :
        At(k, "ok") /\ ~ syncs[k].edited =>
            Generic # {} \/ \E m \in Present : methods[m].name = "blank"

\* Later in the same sync: another form of authorization, or what the listing
\* led to, or a code after the ones that were tried.
Later(s, t) ==
    \/ t.attempt > s.attempt
    \/ /\ t.attempt = s.attempt
       /\ \/ s.pc = "list" /\ t.pc \in {"rename", "create"}
          \/ s.pc = "create" /\ t.pc = "create" /\ Len(t.codes) < Len(s.codes)

\* No step of a sync repeats one: it ends the sync, or what comes next was not
\* tried before.  So the retries are bounded by the forms of authorization
\* and the codes, however often calls fail and answers are lost.
SyncsAdvance ==
    [][\A k \in Sync : SyncStep(k) => ~ InFlight(k)' \/ Later(syncs[k], syncs'[k])]_vars

\* Trying the codes and the forms of authorization comes to an end.
SyncsEnd == \A k \in Sync : InFlight(k) ~> ~ InFlight(k)
=============================================================================
