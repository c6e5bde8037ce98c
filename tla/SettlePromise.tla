--------------------------- MODULE SettlePromise ----------------------------
(***************************************************************************)
(* What the handles of one subscription may rely on when they settle       *)
(* (settle.rs): no slots, no channel and no wake-ups, only which           *)
(* dispositions the client was given and what each settlement was told.    *)
(***************************************************************************)
CONSTANTS
    Settlements,
    Nobody,         \* told nothing yet
    Stopped,        \* told that the subscription's pump has shut down
    Withdrawn,      \* dropped before it asked the pump
    Abandoned       \* dropped while it waited for the pump's answer

VARIABLES
    open,           \* the pump still settles
    applied,        \* the settlements whose disposition the client was given
    result          \* what each settlement was told

vars == <<open, applied, result>>

Init ==
    /\ open = TRUE
    /\ applied = {}
    /\ result = [s \in Settlements |-> Nobody]

Tell(s, r) ==
    /\ result[s] = Nobody
    /\ result' = [result EXCEPT ![s] = r]
    /\ UNCHANGED <<open, applied>>

\* The pump settles a delivery once, while it runs, and also for a handle that
\* no longer waits for the answer.
Apply(s) ==
    /\ open
    /\ s \notin applied
    /\ result[s] \in {Nobody, Abandoned}
    /\ applied' = applied \cup {s}
    /\ UNCHANGED <<open, result>>

Answer(s) == s \in applied /\ Tell(s, s)

Refuse(s) == ~open /\ s \notin applied /\ Tell(s, Stopped)

Withdraw(s) == s \notin applied /\ Tell(s, Withdrawn)

Abandon(s) == Tell(s, Abandoned)

Stop ==
    /\ open
    /\ open' = FALSE
    /\ UNCHANGED <<applied, result>>

Next ==
    \/ Stop
    \/ \E s \in Settlements :
        Apply(s) \/ Answer(s) \/ Refuse(s) \/ Withdraw(s) \/ Abandon(s)

Spec == Init /\ [][Next]_vars

=============================================================================
