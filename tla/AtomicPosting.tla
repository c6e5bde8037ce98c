--------------------------- MODULE AtomicPosting ----------------------------
(***************************************************************************)
(* What a transactional publisher promises (txn.rs, txn/owned.rs,          *)
(* in_process/txn.rs): no locks, no calls in progress and no transport,    *)
(* only what is posted under which transaction, what the subscribers can   *)
(* see, and what the callers were told.                                    *)
(***************************************************************************)
CONSTANTS
    Messages,
    Transactions,
    Settlers        \* the calls that commit or abort

VARIABLES
    fate,           \* what became of each transaction
    held,           \* the messages posted under it
    visible,        \* the messages subscribers may see
    taken,          \* the transaction each settler ended
    told            \* what each call returned

vars == <<fate, held, visible, taken, told>>

\* A message is posted at most once, under a transaction or without.
Fresh(m) == m \notin visible /\ \A t \in Transactions : m \notin held[t]

Init ==
    /\ fate = [t \in Transactions |-> "none"]
    /\ held = [t \in Transactions |-> {}]
    /\ visible = {}
    /\ \A c \in DOMAIN told : told[c] = "nothing"

Open(t) ==
    /\ fate[t] = "none"
    /\ fate' = [fate EXCEPT ![t] = "open"]
    /\ UNCHANGED <<held, visible>>

Post(m, t) ==
    /\ fate[t] = "open" /\ Fresh(m)
    /\ held' = [held EXCEPT ![t] = @ \cup {m}]
    /\ UNCHANGED <<fate, visible>>

Send(m) ==
    /\ Fresh(m)
    /\ visible' = visible \cup {m}
    /\ UNCHANGED <<fate, held>>

\* All of a transaction's messages appear, in one step.
Commit(t) ==
    /\ fate[t] = "open"
    /\ fate' = [fate EXCEPT ![t] = "committed"]
    /\ visible' = visible \cup held[t]
    /\ UNCHANGED held

\* Several at once when the connection goes.
Discard(ts) ==
    /\ \A t \in ts : fate[t] = "open"
    /\ fate' = [t \in Transactions |-> IF t \in ts THEN "discarded" ELSE fate[t]]
    /\ UNCHANGED <<held, visible>>

\* What is told is so: an accepted message is out or under its transaction, and
\* a settled transaction is settled that way.
Honest ==
    /\ \A m \in Messages : told[m] = "ok" => ~Fresh(m)
    /\ \A c \in Settlers :
        /\ told[c] = "committed" => fate[taken[c]] = "committed"
        /\ told[c] = "aborted" => fate[taken[c]] = "discarded"

\* Nobody is told twice, and no transaction is ended by two.
Once ==
    /\ \A c \in DOMAIN told : told[c] # "nothing" => told'[c] = told[c]
    /\ \A c, d \in Settlers :
        taken'[c] = taken'[d] /\ taken'[c] \in Transactions => c = d

Effect ==
    \/ \E t \in Transactions : Open(t) \/ Commit(t)
    \/ \E m \in Messages : Send(m) \/ \E t \in Transactions : Post(m, t)
    \/ \E ts \in SUBSET Transactions : Discard(ts)

Next == Effect /\ Once /\ Honest'

Spec == Init /\ [][Next]_vars

-----------------------------------------------------------------------------

\* A transaction's messages are seen together or not at all.
AllOrNothing ==
    \A t \in Transactions : held[t] \subseteq visible \/ held[t] \cap visible = {}

=============================================================================
