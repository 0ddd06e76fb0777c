-------------------------- MODULE OfficeDirectory --------------------------
(***************************************************************************)
(* What the cache of post offices promises to those who read it: a         *)
(* directory with a list of offices for each postal code.                  *)
(*                                                                         *)
(* A list grows by whole answers only, an office that is listed keeps its  *)
(* text, and lists are withdrawn whole.  A list grows only on behalf of    *)
(* someone who found it empty and has been waiting for its offices since.  *)
(***************************************************************************)
CONSTANTS
    Code,       \* postal codes
    Answer      \* what a code may be answered with: functions from the
                \* offices to their texts

VARIABLES
    listed,     \* the offices of each code, with their texts
    missed      \* codes found empty, and waited for

vars == <<listed, missed>>

Empty == [o \in {} |-> {}]

Init ==
    /\ listed = [p \in Code |-> Empty]
    /\ missed = {}

Miss(p) ==
    /\ listed[p] = Empty
    /\ missed' = missed \union {p}
    /\ UNCHANGED listed

\* Whoever waits has no answer, gives up, or finds the code answered by now.
GiveUp(p) ==
    /\ missed' = missed \ {p}
    /\ UNCHANGED listed

\* Others may go on waiting for the code.
Publish(p, answer) ==
    /\ p \in missed
    /\ listed' = [listed EXCEPT ![p] =
                    [o \in DOMAIN listed[p] \union DOMAIN answer |->
                        IF o \in DOMAIN listed[p] THEN listed[p][o] ELSE answer[o]]]
    /\ missed' \in {missed, missed \ {p}}

Withdraw(P) ==
    /\ listed' = [p \in Code |-> IF p \in P THEN Empty ELSE listed[p]]
    /\ UNCHANGED missed

Next ==
    \/ \E p \in Code : Miss(p) \/ GiveUp(p) \/ \E answer \in Answer : Publish(p, answer)
    \/ \E P \in SUBSET Code : Withdraw(P)

Spec == Init /\ [][Next]_vars
=============================================================================
