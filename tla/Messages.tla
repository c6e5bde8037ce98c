------------------------------ MODULE Messages ------------------------------
(***************************************************************************)
(* What a header map becomes in an AMQP message and what a message reads as  *)
(* (message.rs), which id a reply correlates to (context.rs) and how a        *)
(* publish sets it (publish_step.rs): a message is published or comes from a  *)
(* peer with its own writing habits, is read, is answered with the transform  *)
(* Correlate, and the answer is read.  Both transports use the same operators *)
(* (in_process/mod.rs, delivered).                                           *)
(*                                                                         *)
(* A value is a byte string; what is told apart is whether it is ASCII or     *)
(* UTF-8.  An id has an AMQP type and the bytes it shows as: its own, or the  *)
(* text of a UUID or a number.                                               *)
(***************************************************************************)
CONSTANTS
    Bytes, Utf8, Ascii,     \* byte strings, those that are UTF-8, ASCII
    UuidText, Digits,       \* those that are the text of a UUID, a number
    Others,                 \* header names without a property of their own
    Headers,                \* the header maps published
    Answers,                \* those of a reply
    Options,                \* the typed correlation ids a publish sets
    Foreign                 \* the messages a peer sends

Ids == {"correlation-id", "message-id"}
WellKnown == Ids \cup {"content-type", "reply-to", "partition-key"}
HeaderNames == WellKnown \cup Others

\* An id in its AMQP type.
Id == [type : {"string"}, bytes : Utf8] \cup [type : {"binary"}, bytes : Bytes]
        \cup [type : {"uuid"}, bytes : UuidText] \cup [type : {"ulong"}, bytes : Digits]
NoId == [type |-> "none"]

\* What a property holds.
ValuesOf(n) == CASE n \in Ids -> Id
              [] n = "content-type" -> Ascii
              [] OTHER -> Utf8

\* A message: its properties, its application properties, and its body.
IsMessage(m) ==
    /\ DOMAIN m.properties \subseteq WellKnown
    /\ \A n \in DOMAIN m.properties : m.properties[n] \in ValuesOf(n)
    /\ DOMAIN m.application \subseteq HeaderNames
    /\ \A n \in DOMAIN m.application : m.application[n] \in Bytes
    /\ m.body \in {"data", "empty", "string", "binary", "value", "sequence"}

ASSUME MessagesAssumption ==
    /\ Ascii \subseteq Utf8 /\ Utf8 \subseteq Bytes
    /\ UuidText \subseteq Ascii /\ Digits \subseteq Ascii
    /\ Others \cap WellKnown = {}
    /\ \A h \in Headers \cup Answers :
          h \in [DOMAIN h -> Bytes] /\ DOMAIN h \subseteq HeaderNames
    /\ Options \subseteq Id
    /\ \A m \in Foreign : IsMessage(m)

VARIABLES
    stage,      \* what happened last
    headers,    \* the header map of the message published last
    option,     \* the typed id of that publish, or NoId
    onWire,     \* the message on its way
    request,    \* the message it answers
    read        \* what the last delivery read as

messageVars == <<stage, headers, option, onWire, request, read>>

None == [n \in {} |-> n]
NoMessage == [properties |-> None, application |-> None, body |-> "empty"]
NoRead == [headers |-> None, replyId |-> NoId]

-----------------------------------------------------------------------------
(* Writing.                                                                *)

\* A value its property cannot hold refuses the publish.
Refused(h) ==
    \/ "content-type" \in DOMAIN h /\ h["content-type"] \notin Ascii
    \/ \E n \in DOMAIN h \cap {"reply-to", "partition-key"} : h[n] \notin Utf8

MessageId(b) == [type |-> IF b \in Utf8 THEN "string" ELSE "binary", bytes |-> b]

\* Mutant of TypedWins: an id among the headers is left alone.
TypedYields(h, id) ==
    IF id = NoId \/ "correlation-id" \in DOMAIN h THEN {} ELSE {"correlation-id"}

\* The properties a typed id sets, over any header.
TypedWins(h, id) == IF id = NoId THEN {} ELSE {"correlation-id"}

\* The message for headers h, with the typed correlation id `id` if there is one.
Build(h, id) ==
    LET typed == TypedWins(h, id)
    IN [properties |->
            [n \in (DOMAIN h \cap WellKnown) \cup typed |->
                IF n \in typed THEN id ELSE IF n \in Ids THEN MessageId(h[n]) ELSE h[n]],
        application |-> [n \in DOMAIN h \ WellKnown |-> h[n]],
        body |-> "data"]

-----------------------------------------------------------------------------
(* Reading.                                                                *)

Shown(n, v) == IF n \in Ids THEN v.bytes ELSE v

\* The headers of a message; an application property hides a property of its name.
HeadersOf(m) ==
    [n \in DOMAIN m.properties \cup DOMAIN m.application |->
        IF n \in DOMAIN m.application THEN m.application[n]
        ELSE Shown(n, m.properties[n])]

\* Mutant of ReplyTo: the message id comes first.
ReplyToMessageId(p) ==
    IF "message-id" \in DOMAIN p THEN "message-id" ELSE "correlation-id"

\* The id a reply correlates to.
ReplyTo(p) == IF "correlation-id" \in DOMAIN p THEN "correlation-id" ELSE "message-id"

\* Its form: where its bytes are for text and binary, itself for the others.
ReplyId(p) ==
    IF ReplyTo(p) \notin DOMAIN p THEN NoId
    ELSE LET id == p[ReplyTo(p)]
         IN IF id.type \in {"string", "binary"} THEN [type |-> id.type, header |-> ReplyTo(p)]
            ELSE id

Readable(body) == body \notin {"value", "sequence"}

Read(m) == [headers |-> HeadersOf(m), replyId |-> ReplyId(m.properties)]

TextId(b) == IF b \in Utf8 THEN [type |-> "string", bytes |-> b] ELSE NoId

\* The id of AmqpContext: read back from the header for text and binary.
Correlation(r) ==
    CASE r.replyId.type = "string" -> TextId(r.headers[r.replyId.header])
      [] r.replyId.type = "binary" -> [type |-> "binary",
                                       bytes |-> r.headers[r.replyId.header]]
      [] OTHER -> r.replyId

-----------------------------------------------------------------------------
MessagesInit ==
    /\ stage = "idle"
    /\ headers = None
    /\ option = NoId
    /\ onWire = NoMessage
    /\ request = NoMessage
    /\ read = NoRead

\* A publish of h with the typed id `id`.
Write(h, id, becomes) ==
    /\ headers' = h
    /\ option' = id
    /\ IF Refused(h) THEN stage' = "refused" /\ UNCHANGED onWire
       ELSE stage' = becomes /\ onWire' = Build(h, id)
    /\ UNCHANGED read

Publish(h, id) ==
    /\ stage = "idle"
    /\ Write(h, id, "published")
    /\ UNCHANGED request

ForeignSend(m) ==
    /\ stage = "idle"
    /\ stage' = "sent"
    /\ onWire' = m
    /\ UNCHANGED <<headers, option, request, read>>

\* The delivery is read; a body without a byte form is refused.
Deliver ==
    /\ stage \in {"published", "sent"}
    /\ IF Readable(onWire.body) THEN read' = Read(onWire) /\ stage' = "delivered"
       ELSE stage' = "unsupported" /\ UNCHANGED read
    /\ UNCHANGED <<headers, option, onWire, request>>

\* The handler's reply, with Correlate: only an id that is there is set.
Respond(h) ==
    /\ stage = "delivered"
    /\ Write(h, Correlation(read), "replied")
    /\ request' = onWire

ReadReply ==
    /\ stage = "replied"
    /\ stage' = "answered"
    /\ read' = Read(onWire)
    /\ UNCHANGED <<headers, option, onWire, request>>

MessagesNext ==
    \/ \E h \in Headers, id \in Options \cup {NoId} : Publish(h, id)
    \/ \E m \in Foreign : ForeignSend(m)
    \/ Deliver
    \/ \E h \in Answers : Respond(h)
    \/ ReadReply

MessagesSpec == MessagesInit /\ [][MessagesNext]_messageVars

-----------------------------------------------------------------------------
(* Properties.                                                             *)

\* What this crate puts on the wire is a message AMQP can carry: a string is
\* UTF-8 and a symbol ASCII, also the id a reply took from a header a peer's
\* application property hid (context.rs:56-58).
MessagesTypeOK ==
    /\ stage \in {"idle", "published", "sent", "refused", "delivered", "unsupported",
                  "replied", "answered"}
    /\ option \in Id \cup {NoId}
    /\ IsMessage(onWire)

\* The names a typed id took over in the publish.
TypedNames == IF option = NoId THEN {} ELSE {"correlation-id"}

\* Every header arrives as it was published, in whichever section it travelled,
\* but for the correlation-id that a typed id replaced; a value no section can
\* hold fails the publish instead of being rewritten (message.rs:280-282).
HeadersSurvive ==
    (stage = "delivered" /\ headers # None) \/ stage = "answered" =>
        read.headers = [n \in DOMAIN headers \cup TypedNames |->
                            IF n \in TypedNames THEN option.bytes ELSE headers[n]]

\* The id of a message that a reply to it correlates to.
IdOf(m) ==
    LET n == IF "correlation-id" \in DOMAIN m.properties THEN "correlation-id"
             ELSE "message-id"
    IN IF n \in DOMAIN m.properties THEN m.properties[n] ELSE NoId

\* Whether an application property hides that id, which is text or bytes.
Hidden(m) ==
    /\ IdOf(m).type \in {"string", "binary"}
    /\ IF "correlation-id" \in DOMAIN m.properties THEN "correlation-id" \in DOMAIN m.application
       ELSE "message-id" \in DOMAIN m.application

\* A reply carries the correlation-id of its request, or else the message-id, in
\* the type the requester wrote it, and the requester reads it back so
\* (context.rs:36-37), unless the requester hid that id behind an application
\* property of its name; to a request without one, the reply has the id its own
\* headers name.
ReplyCorrelates ==
    stage \in {"replied", "answered"} /\ ~Hidden(request) =>
        /\ IdOf(request) # NoId => IdOf(onWire) = IdOf(request)
        /\ IdOf(request) = NoId => onWire = Build(headers, NoId)

=============================================================================
