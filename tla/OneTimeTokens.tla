--------------------------- MODULE OneTimeTokens ---------------------------
(***************************************************************************)
(* What the settings page and the uninstall endpoint expect of a session   *)
(* token: it is handed to one store, it can be spent at most once, by that *)
(* store and before its deadline, and once it is gone it never comes back. *)
(* Nothing is said of how tokens are kept: SessionTokens, which models the *)
(* in-memory table of protocol/http/app.go, implements this.               *)
(***************************************************************************)
EXTENDS Integers, Sequences

CONSTANTS
    Client,     \* stores that install the plugin
    Token,      \* session tokens the process may ever draw
    None,       \* stands for no store
    TTL         \* lifetime of a token, in ticks of the clock

VARIABLES
    status,     \* status[t]: "unissued", "live" or "gone"
    holder,     \* holder[t]: the store t was handed to
    deadline,   \* deadline[t]: last instant at which t is worth something
    spends,     \* spends[t]: the stores t has been accepted for
    clock

avars == <<status, holder, deadline, spends, clock>>

AInit ==
    /\ status = [t \in Token |-> "unissued"]
    /\ holder = [t \in Token |-> None]
    /\ deadline = [t \in Token |-> 0]
    /\ spends = [t \in Token |-> <<>>]
    /\ clock = 0

Issue(t, c) ==
    /\ status[t] = "unissued"
    /\ status' = [status EXCEPT ![t] = "live"]
    /\ holder' = [holder EXCEPT ![t] = c]
    /\ deadline' = [deadline EXCEPT ![t] = clock + TTL]
    /\ UNCHANGED <<spends, clock>>

\* Whoever presents t, it is good for the store it was handed to only.
Spend(t) ==
    /\ status[t] = "live"
    /\ clock =< deadline[t]
    /\ status' = [status EXCEPT ![t] = "gone"]
    /\ spends' = [spends EXCEPT ![t] = Append(@, holder[t])]
    /\ UNCHANGED <<holder, deadline, clock>>

\* Tokens may be given up for any reason: expiry, a wrong store, a restart.
Revoke ==
    /\ status' \in [Token -> {"unissued", "live", "gone"}]
    /\ \A t \in Token :
          status'[t] # status[t] => status[t] = "live" /\ status'[t] = "gone"
    /\ UNCHANGED <<holder, deadline, spends, clock>>

Advance ==
    /\ clock' = clock + 1
    /\ UNCHANGED <<status, holder, deadline, spends>>

ANext ==
    \/ \E t \in Token, c \in Client : Issue(t, c)
    \/ \E t \in Token : Spend(t)
    \/ Revoke
    \/ Advance

ASpec == AInit /\ [][ANext]_avars
=============================================================================
