---------------------------- MODULE RequestReply ----------------------------
(***************************************************************************)
(* Requests of one publisher (publisher.rs, AmqpPublisher::request) and     *)
(* their in-process counterpart (in_process/request.rs), next to responders *)
(* that answer late, twice, with another id or not at all, to callers that  *)
(* drop their request, and to a shutdown.                                   *)
(*                                                                         *)
(* All requests go to one address.  A private reply address is a number: in *)
(* process the bus counts them; over a connection the peer names any that   *)
(* no link holds, and may name one again.                                   *)
(***************************************************************************)
EXTENDS Integers, Sequences, FiniteSets

CONSTANTS
    Requests,       \* the calls, each made at most once
    Transports,     \* the transports considered: "live", "inprocess"
    Names,          \* how many reply addresses a peer names
    MaxReplies,     \* how many replies responders send
    Nobody

ASSUME RequestAssumption ==
    /\ Transports \subseteq {"live", "inprocess"}
    /\ Names \in Nat
    /\ MaxReplies \in Nat
    /\ Nobody \notin Requests

VARIABLES
    transport,
    core,       \* "open"; "closing": the flag is set; "drained": the sender
                \* link is closed; "ended": no session, or an empty router
    seq,        \* the ids given so far (link_seq, or the bus's reply_seq)
    pc,         \* where each request stands
    at,         \* its private reply address, 0 before it has one
    corr,       \* its correlation id, 0 before it has one
    attached,   \* the requests whose reply link, or subscription, is there
    mailbox,    \* what is queued at the reply address of each
    slot,       \* who holds the sender link's slot, or Nobody
    asked,      \* the requests responders have got
    replies,    \* how many replies they sent
    result,     \* what each request returned
    got,        \* the reply it returned with
    flight      \* in process: the harness's in-flight count of replies

ids == <<transport, core, seq, at, corr>>
wire == <<attached, mailbox, flight>>
sent == <<slot, asked, replies>>
told == <<result, got>>
vars == <<ids, pc, wire, sent, told>>

Live == transport = "live"

\* A reply: the request it was made for, the correlation id it carries (0 for
\* none), and whether its body is one the crate reads.
Reply == [of : Requests, id : Nat, readable : BOOLEAN]
NoReply == [of |-> Nobody, id |-> 0, readable |-> FALSE]

Over == {"idle", "done", "dropped"}

TypeOK ==
    /\ transport \in Transports
    /\ core \in {"open", "closing", "drained", "ended"}
    /\ seq \in Nat
    /\ pc \in [Requests -> Over \cup {"attach", "subscribed", "send", "sending",
                                      "wait", "detach", "unlink"}]
    /\ at \in [Requests -> Nat]
    /\ corr \in [Requests -> Nat]
    /\ attached \subseteq Requests
    /\ mailbox \in [Requests -> Seq(Reply)]
    /\ slot \in Requests \cup {Nobody}
    /\ asked \subseteq Requests
    /\ replies \in 0 .. MaxReplies
    /\ result \in [Requests -> {"none", "reply", "unreadable", "timeout", "closed",
                                "attach", "unframed", "refused", "receive"}]
    /\ got \in [Requests -> Reply \cup {NoReply}]
    /\ flight \in Int

Init ==
    /\ transport \in Transports
    /\ core = "open"
    /\ seq = 0
    /\ pc = [r \in Requests |-> "idle"]
    /\ at = [r \in Requests |-> 0]
    /\ corr = [r \in Requests |-> 0]
    /\ attached = {}
    /\ mailbox = [r \in Requests |-> <<>>]
    /\ slot = Nobody
    /\ asked = {}
    /\ replies = 0
    /\ result = [r \in Requests |-> "none"]
    /\ got = [r \in Requests |-> NoReply]
    /\ flight = 0

Goto(r, where) == pc' = [pc EXCEPT ![r] = where]

\* The request has its result; what is left of it is `where`.
Ends(r, what, where) ==
    /\ result' = [result EXCEPT ![r] = what]
    /\ Goto(r, where)
    /\ UNCHANGED got

\* It has a reply address and a correlation id.
Starts(r, a, where) ==
    /\ seq' = seq + 1
    /\ at' = [at EXCEPT ![r] = a]
    /\ corr' = [corr EXCEPT ![r] = seq']
    /\ Goto(r, where)
    /\ UNCHANGED told

-----------------------------------------------------------------------------
(* Over a connection: attach, frame, send, wait, detach.                   *)

Call(r) ==
    /\ Live
    /\ pc[r] = "idle"
    /\ IF core = "open" THEN Goto(r, "attach") /\ UNCHANGED told
       ELSE Ends(r, "closed", "done")
    /\ UNCHANGED <<ids, wire, sent>>

\* The peer names a private address, and the timeout starts; or it refuses the
\* link or names none, or the session has ended.
AttachAnswered(r) ==
    /\ Live
    /\ pc[r] = "attach"
    /\ \/ \E a \in 1 .. Names :
             /\ core # "ended"
             /\ \A s \in attached : at[s] # a
             /\ attached' = attached \cup {r}
             /\ Starts(r, a, "send")
             /\ UNCHANGED <<transport, core>>
       \/ Ends(r, "attach", "done") /\ UNCHANGED <<ids, attached>>
    /\ UNCHANGED <<mailbox, flight, sent>>

\* A header the message cannot carry, no sender link to send it on, for the peer
\* refuses one, or a link that the shutdown took out of its slot.
Unsent(r) ==
    /\ pc[r] = "send"
    /\ \/ Ends(r, "unframed", "detach")
       \/ Ends(r, "attach", "detach")
       \/ core \in {"drained", "ended"} /\ Ends(r, "closed", "detach")
    /\ UNCHANGED <<ids, wire, sent>>

\* The link carries one transfer at a time; the peer takes the message or not.
\* Until the session ends a link is there: the shared one, or, once the shutdown
\* has drained the map, a fresh one.
Send(r) ==
    /\ pc[r] = "send"
    /\ core # "ended"
    /\ slot = Nobody
    /\ slot' = r
    /\ asked' \in {asked, asked \cup {r}}
    /\ Goto(r, "sending")
    /\ UNCHANGED <<ids, wire, replies, told>>

\* The disposition comes back, or the session ended before it did.
Sent(r) ==
    /\ pc[r] = "sending"
    /\ slot' = Nobody
    /\ \/ r \in asked /\ Goto(r, "wait") /\ UNCHANGED told
       \/ (r \notin asked \/ core = "ended") /\ Ends(r, "refused", "detach")
    /\ UNCHANGED <<ids, wire, asked, replies>>

\* The peer answered the detach; or a dropped receiver's detach got there.
Detach(r) ==
    /\ Live
    /\ pc[r] \in {"detach", "unlink"}
    /\ Goto(r, IF pc[r] = "detach" THEN "done" ELSE "dropped")
    /\ attached' = attached \ {r}
    /\ mailbox' = [mailbox EXCEPT ![r] = <<>>]
    /\ UNCHANGED <<ids, flight, sent, told>>

-----------------------------------------------------------------------------
(* In process: subscribe to a fresh address and route, with no wait between; *)
(* other threads may come between.                                          *)

CallInProcess(r) ==
    /\ ~Live
    /\ pc[r] = "idle"
    /\ \/ core # "open" /\ Ends(r, "closed", "done") /\ UNCHANGED <<seq, at, corr>>
       \/ core = "open" /\ Ends(r, "refused", "done")     \* the empty address
            /\ UNCHANGED <<seq, at, corr>>
       \/ core = "open" /\ Ends(r, "unframed", "done")
            /\ seq' = seq + 1 /\ UNCHANGED <<at, corr>>
       \/ core = "open" /\ Starts(r, seq + 1, "attach")
    /\ UNCHANGED <<transport, core, wire, sent>>

Subscribe(r) ==
    /\ ~Live
    /\ pc[r] = "attach"
    /\ IF core = "ended" THEN Ends(r, "closed", "done") /\ UNCHANGED attached
       ELSE attached' = attached \cup {r} /\ Goto(r, "subscribed") /\ UNCHANGED told
    /\ UNCHANGED <<ids, mailbox, flight, sent>>

\* Refused means closed, and a closed router has let the subscription go.
Route(r) ==
    /\ pc[r] = "subscribed"
    /\ IF core = "ended" THEN Ends(r, "closed", "done") /\ UNCHANGED asked
       ELSE Goto(r, "wait") /\ asked' = asked \cup {r} /\ UNCHANGED told
    /\ UNCHANGED <<ids, wire, slot, replies>>

\* Mutant of Raced: what raced the deadline into the channel is left there.
RacedNone(r) == <<>>

\* What raced the deadline into the channel.
Raced(r) == mailbox[r]

\* The subscription leaves and its channel is drained; nothing can be sent to
\* it in between.
Unsubscribe(r) ==
    /\ ~Live
    /\ pc[r] = "detach"
    /\ attached' = attached \ {r}
    /\ flight' = flight - Len(Raced(r))
    /\ mailbox' = [mailbox EXCEPT ![r] = <<>>]
    /\ Goto(r, "done")
    /\ UNCHANGED <<ids, sent, told>>

\* The caller lets go of the reply.
Release(r) ==
    /\ ~Live
    /\ pc[r] = "done"
    /\ result[r] = "reply"
    /\ flight' = flight - 1
    /\ result' = [result EXCEPT ![r] = "none"]
    /\ UNCHANGED <<ids, pc, attached, mailbox, sent, got>>

-----------------------------------------------------------------------------
(* On either transport.                                                     *)

\* Mutant of Matches: the first message at the private address will do.
MatchesAny(m, r) == TRUE

Matches(m, r) == m.id = corr[r]

\* One message of the reply address: the request's own resolves it, any other
\* is discarded and the wait goes on.  An in-process body always reads.
Receive(r) ==
    /\ pc[r] = "wait"
    /\ mailbox[r] # <<>>
    /\ LET m == Head(mailbox[r])
           reads == m.readable \/ ~Live
       IN IF Matches(m, r)
          THEN /\ result' = [result EXCEPT ![r] = IF reads THEN "reply" ELSE "unreadable"]
               /\ got' = IF reads THEN [got EXCEPT ![r] = m] ELSE got
               /\ Goto(r, "detach")
               /\ UNCHANGED flight
          ELSE /\ flight' = IF Live THEN flight ELSE flight - 1
               /\ UNCHANGED <<pc, told>>
    /\ mailbox' = [mailbox EXCEPT ![r] = Tail(@)]
    /\ UNCHANGED <<ids, attached, sent>>

\* The session ended under the reply link; in process the channel ended with
\* the router, and the caller is told of a timeout.
Disconnected(r) ==
    /\ pc[r] = "wait"
    /\ core = "ended"
    /\ mailbox[r] = <<>>
    /\ Ends(r, IF Live THEN "receive" ELSE "timeout", "detach")
    /\ UNCHANGED <<ids, wire, sent>>

\* Mutant of Exchange: the deadline covers the wait only.
WaitOnly == {"wait"}

\* What the timeout covers.
Exchange == {"send", "sending", "wait"}

\* Mutant of LetGo: whoever sends keeps the link.
LetGoNever(r) == slot

\* A send that is dropped lets go of the link.
LetGo(r) == IF slot = r THEN Nobody ELSE slot

\* The deadline passes; the exchange is dropped where it stands.
Expire(r) ==
    /\ pc[r] \in Exchange
    /\ slot' = LetGo(r)
    /\ Ends(r, "timeout", "detach")
    /\ UNCHANGED <<ids, wire, asked, replies>>

\* The caller drops the request.  Over a connection the receiver's drop queues
\* its detach; in process the channel goes with what it held, and nobody
\* leaves the registry.
Abandon(r) ==
    /\ IF Live
       THEN /\ pc[r] \in Exchange \cup {"attach", "detach"}
            /\ Goto(r, IF pc[r] = "attach" THEN "dropped" ELSE "unlink")
            /\ UNCHANGED mailbox
       ELSE /\ pc[r] = "wait"
            /\ Goto(r, "dropped")
            /\ mailbox' = [mailbox EXCEPT ![r] = <<>>]
    /\ slot' = LetGo(r)
    /\ UNCHANGED <<ids, attached, flight, asked, replies, told>>

\* A responder answers, with the id it was sent or with none.  The reply goes to
\* whoever is at the address now; in process a subscription that lost its
\* reader leaves it in the address's queue.
Answer(r) ==
    /\ r \in asked
    /\ replies < MaxReplies
    /\ replies' = replies + 1
    /\ LET there == {s \in attached : at[s] = at[r]}
           answers == {[of |-> r, id |-> corr[r], readable |-> TRUE],
                       [of |-> r, id |-> corr[r], readable |-> FALSE],
                       [of |-> r, id |-> 0, readable |-> TRUE]}
       IN /\ \E m \in answers :
                mailbox' = [s \in Requests |->
                               IF s \in there THEN Append(mailbox[s], m) ELSE mailbox[s]]
          /\ flight' = IF Live \/ \A s \in there : pc[s] = "dropped" THEN flight
                       ELSE flight + 1
    /\ UNCHANGED <<ids, pc, attached, slot, asked, told>>

\* Shutdown: the flag; the sender link, taken out of its slot; the session with
\* every link on it.  In process: the flag, then the router.
Shutdown ==
    /\ \/ core = "open" /\ core' = "closing"
       \/ Live /\ core = "closing" /\ slot = Nobody /\ core' = "drained"
       \/ core = (IF Live THEN "drained" ELSE "closing") /\ core' = "ended"
    /\ attached' = IF core' = "ended" THEN {} ELSE attached
    /\ UNCHANGED <<transport, seq, at, corr, pc, mailbox, flight, sent, told>>

InProcessStep(r) == Subscribe(r) \/ Route(r) \/ Unsubscribe(r)

Next ==
    \/ \E r \in Requests :
          \/ Call(r) \/ AttachAnswered(r) \/ Unsent(r) \/ Send(r) \/ Sent(r) \/ Detach(r)
          \/ CallInProcess(r) \/ InProcessStep(r) \/ Release(r)
          \/ Receive(r) \/ Disconnected(r) \/ Expire(r) \/ Abandon(r) \/ Answer(r)
    \/ Shutdown

Spec == Init /\ [][Next]_vars

\* The peer answers an attach and a detach, the timer fires, and an in-process
\* request goes on.  No disposition and no reply has to come.
FairSpec ==
    /\ Spec
    /\ \A r \in Requests :
          /\ WF_vars(AttachAnswered(r)) /\ WF_vars(Detach(r))
          /\ WF_vars(InProcessStep(r)) /\ WF_vars(Expire(r))

-----------------------------------------------------------------------------
(* Properties.                                                             *)

\* A request returns with a reply to itself, never with a late one to an earlier
\* request that had the same reply address, or with a foreign one
\* (publisher.rs:229-232).
OwnReplyOnly == \A r \in Requests : got[r].of \in {r, Nobody}

\* A request that is over holds nothing any more, however it ended: no turn on
\* the sender link, no reply address (but for one dropped in process), and, if
\* none was dropped, no count in flight but that of a reply its caller has.
OverHoldsNothing ==
    /\ \A r \in Requests : pc[r] \in Over =>
          slot # r /\ (r \in attached => pc[r] = "dropped" /\ ~Live)
    /\ (\A r \in Requests : pc[r] \in {"idle", "done"}) =>
          flight = IF Live THEN 0
                   ELSE Cardinality({r \in Requests : result[r] = "reply"})

\* A request ends, within its timeout and the peer's answers to the attach and
\* the detach of the reply link, whatever responders, the sender link and a
\* shutdown do.
EveryRequestReturns ==
    \A r \in Requests : (pc[r] # "idle") ~> (pc[r] \in Over)

=============================================================================
