----------------------------- MODULE MCMessages -----------------------------
(* Messages with a byte string of each kind: "a" is ASCII, "u" UTF-8, "b"     *)
(* neither, "f0" the text of a UUID, "7" that of a number.                   *)
EXTENDS Messages

MCBytes == {"a", "u", "b", "f0", "7"}
MCUtf8 == MCBytes \ {"b"}
MCAscii == MCUtf8 \ {"u"}

\* Every header map over five names, with values of three kinds, and some with the
\* partition key.
MCHeaders ==
    UNION {[N -> {"a", "u", "b"}] :
              N \in SUBSET (Ids \cup {"content-type", "reply-to", "x"})}
    \cup UNION {[N -> {"u", "b"}] : N \in SUBSET {"partition-key", "correlation-id"}}

MCAnswers == {[n \in {} |-> "a"], [n \in {"correlation-id"} |-> "a"],
              [n \in {"message-id", "x"} |-> "b"], [n \in {"reply-to"} |-> "b"]}

MCOptions == {[type |-> "string", bytes |-> "u"], [type |-> "binary", bytes |-> "b"],
              [type |-> "binary", bytes |-> "a"],
              [type |-> "uuid", bytes |-> "f0"], [type |-> "ulong", bytes |-> "7"]}

\* Ids of every type, or none, with or without application properties of their
\* names, in bodies that read or do not.
MCForeign ==
    {[properties |-> p, application |-> a, body |-> b] :
        p \in UNION {[N -> MCOptions] : N \in SUBSET Ids},
        a \in UNION {[N -> {"a", "b"}] : N \in SUBSET (Ids \cup {"x"})},
        b \in {"string", "sequence"}}

=============================================================================
