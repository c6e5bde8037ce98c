------------------------- MODULE RequestReplyProofs -------------------------
(***************************************************************************)
(* Proofs about RequestReply, for any number of requests, reply addresses  *)
(* and replies, over either transport; and, after them, about Messages, the *)
(* messages requests and replies travel in, for any header maps, typed ids *)
(* and foreign messages.                                                   *)
(***************************************************************************)
EXTENDS RequestReply, Messages, SequenceTheorems, FiniteSetTheorems, TLAPS

\* A request has its correlation id once it has a reply address, and none before.
IdsGiven ==
    \A r \in Requests :
        /\ pc[r] = "idle" \/ (Live /\ pc[r] = "attach") => corr[r] = 0
        /\ pc[r] \in {"subscribed", "send", "sending", "wait"} => corr[r] # 0

\* In process it has it before it subscribes.
IdsGivenEarly == ~Live => \A r \in Requests : pc[r] = "attach" => corr[r] # 0

\* Ids are given once each.
IdsDiffer ==
    /\ \A r \in Requests : corr[r] <= seq
    /\ \A r, s \in Requests : corr[r] = corr[s] => r = s \/ corr[r] = 0

\* A queued reply has the id of the request it was made for, or none.
MailHonest ==
    \A r \in Requests : \A i \in DOMAIN mailbox[r] :
        mailbox[r][i].id \in {0, corr[mailbox[r][i].of]}

IInv ==
    /\ TypeOK
    /\ IdsGiven
    /\ IdsGivenEarly
    /\ IdsDiffer
    /\ MailHonest
    /\ OwnReplyOnly

-----------------------------------------------------------------------------
(* What the parts of a step leave typed. *)

States == Over \cup {"attach", "subscribed", "send", "sending", "wait", "detach", "unlink"}
Results == {"none", "reply", "unreadable", "timeout", "closed", "attach", "unframed",
            "refused", "receive"}

LEMMA GotoTyped ==
    ASSUME TypeOK, NEW r \in Requests, NEW where \in States, Goto(r, where)
    PROVE  /\ pc' \in [Requests -> States]
           /\ pc' = [pc EXCEPT ![r] = where]
BY DEF TypeOK, States, Goto

LEMMA ResultTyped ==
    ASSUME TypeOK, NEW r \in Requests, NEW what \in Results,
           result' = [result EXCEPT ![r] = what]
    PROVE  result' \in [Requests -> Results]
BY DEF TypeOK, Results

LEMMA EndsTyped ==
    ASSUME TypeOK, NEW r \in Requests, NEW what \in Results, NEW where \in States,
           Ends(r, what, where)
    PROVE  /\ pc' \in [Requests -> States]
           /\ result' \in [Requests -> Results]
           /\ pc' = [pc EXCEPT ![r] = where]
           /\ got' = got
BY GotoTyped, ResultTyped DEF Ends

LEMMA EmptyTyped ==
    ASSUME TypeOK, NEW r \in Requests, mailbox' = [mailbox EXCEPT ![r] = <<>>]
    PROVE  /\ mailbox' \in [Requests -> Seq(Reply)]
           /\ \A s \in Requests : mailbox'[s] \in {mailbox[s], <<>>}
BY DEF TypeOK

LEMMA LetGoTyped ==
    ASSUME TypeOK, NEW r \in Requests
    PROVE  LetGo(r) \in Requests \cup {Nobody}
BY DEF TypeOK, LetGo

-----------------------------------------------------------------------------
(* Steps that give no id and deliver no reply. *)

\* What such a step may do to where the requests stand.
Onwards ==
    \A r \in Requests :
        \/ pc'[r] = pc[r]
        \/ pc'[r] \in {"done", "dropped", "detach", "unlink"}
        \/ pc'[r] = "attach" /\ Live /\ corr[r] = 0
        \/ pc'[r] \in {"subscribed", "send", "sending", "wait"} /\ corr[r] # 0

LEMMA QuietKeeps ==
    ASSUME IInv, TypeOK', Onwards, UNCHANGED <<transport, seq, corr, got>>,
           \A r \in Requests : mailbox'[r] \in {mailbox[r], <<>>}
    PROVE  IInv'
<1>1. IdsGiven'
  BY DEF IInv, IdsGiven, Onwards, Live
<1>2. IdsGivenEarly'
  BY DEF IInv, IdsGivenEarly, Onwards, Live
<1>3. IdsDiffer'
  BY DEF IInv, IdsDiffer
<1>4. MailHonest'
  BY DEF IInv, MailHonest
<1>5. OwnReplyOnly'
  BY DEF IInv, OwnReplyOnly
<1> QED BY <1>1, <1>2, <1>3, <1>4, <1>5 DEF IInv

LEMMA CallKeeps ==
    ASSUME IInv, NEW r \in Requests, Call(r)
    PROVE  IInv'
<1>1. UNCHANGED <<transport, core, seq, at, corr, got, attached, mailbox, flight, slot,
                  asked, replies>>
  BY DEF Call, Ends, ids, wire, sent, told
<1>2. CASE Goto(r, "attach") /\ result' = result
  <2>1. pc' \in [Requests -> States] /\ pc' = [pc EXCEPT ![r] = "attach"]
    BY <1>2, GotoTyped DEF IInv, States
  <2>2. TypeOK'
    BY <1>1, <1>2, <2>1 DEF IInv, TypeOK, States
  <2>3. Onwards
    BY <2>1 DEF IInv, TypeOK, Onwards, IdsGiven, Call
  <2> QED BY <1>1, <2>2, <2>3, QuietKeeps
<1>3. CASE Ends(r, "closed", "done")
  <2>1. /\ pc' \in [Requests -> States] /\ pc' = [pc EXCEPT ![r] = "done"]
        /\ result' \in [Requests -> Results]
    BY <1>3, EndsTyped DEF IInv, States, Over, Results
  <2>2. TypeOK'
    BY <1>1, <2>1 DEF IInv, TypeOK, States, Results
  <2>3. Onwards
    BY <2>1 DEF IInv, TypeOK, Onwards
  <2> QED BY <1>1, <2>2, <2>3, QuietKeeps
<1> QED BY <1>2, <1>3 DEF Call, told

LEMMA UnsentKeeps ==
    ASSUME IInv, NEW r \in Requests, Unsent(r)
    PROVE  IInv'
<1>1. UNCHANGED <<transport, core, seq, at, corr, got, attached, mailbox, flight, slot,
                  asked, replies>>
  BY DEF Unsent, Ends, ids, wire, sent
<1>2. \E what \in Results : Ends(r, what, "detach")
  BY DEF Unsent, Results
<1>3. /\ pc' \in [Requests -> States] /\ pc' = [pc EXCEPT ![r] = "detach"]
      /\ result' \in [Requests -> Results]
  BY <1>2, EndsTyped DEF IInv, States
<1>4. TypeOK'
  BY <1>1, <1>3 DEF IInv, TypeOK, States, Results
<1>5. Onwards
  BY <1>3 DEF IInv, TypeOK, Onwards
<1> QED BY <1>1, <1>4, <1>5, QuietKeeps

LEMMA SendKeeps ==
    ASSUME IInv, NEW r \in Requests, Send(r)
    PROVE  IInv'
<1>1. UNCHANGED <<transport, core, seq, at, corr, got, result, attached, mailbox, flight,
                  replies>>
  BY DEF Send, ids, wire, told
<1>2. pc' \in [Requests -> States] /\ pc' = [pc EXCEPT ![r] = "sending"]
  BY GotoTyped DEF IInv, States, Send
<1>3. slot' \in Requests \cup {Nobody} /\ asked' \subseteq Requests
  BY DEF IInv, TypeOK, Send
<1>4. TypeOK'
  BY <1>1, <1>2, <1>3 DEF IInv, TypeOK, States
<1>5. Onwards
  BY <1>2 DEF IInv, TypeOK, Onwards, IdsGiven, Send
<1> QED BY <1>1, <1>4, <1>5, QuietKeeps

LEMMA SentKeeps ==
    ASSUME IInv, NEW r \in Requests, Sent(r)
    PROVE  IInv'
<1>1. UNCHANGED <<transport, core, seq, at, corr, got, attached, mailbox, flight, asked,
                  replies>>
  BY DEF Sent, Ends, ids, wire, told
<1>2. slot' \in Requests \cup {Nobody}
  BY DEF Sent
<1>3. CASE Goto(r, "wait") /\ result' = result
  <2>1. pc' \in [Requests -> States] /\ pc' = [pc EXCEPT ![r] = "wait"]
    BY <1>3, GotoTyped DEF IInv, States
  <2>2. TypeOK'
    BY <1>1, <1>2, <1>3, <2>1 DEF IInv, TypeOK, States
  <2>3. Onwards
    BY <2>1 DEF IInv, TypeOK, Onwards, IdsGiven, Sent
  <2> QED BY <1>1, <2>2, <2>3, QuietKeeps
<1>4. CASE Ends(r, "refused", "detach")
  <2>1. /\ pc' \in [Requests -> States] /\ pc' = [pc EXCEPT ![r] = "detach"]
        /\ result' \in [Requests -> Results]
    BY <1>4, EndsTyped DEF IInv, States, Results
  <2>2. TypeOK'
    BY <1>1, <1>2, <2>1 DEF IInv, TypeOK, States, Results
  <2>3. Onwards
    BY <2>1 DEF IInv, TypeOK, Onwards
  <2> QED BY <1>1, <2>2, <2>3, QuietKeeps
<1> QED BY <1>3, <1>4 DEF Sent, told

LEMMA DetachKeeps ==
    ASSUME IInv, NEW r \in Requests, Detach(r)
    PROVE  IInv'
<1>1. UNCHANGED <<transport, core, seq, at, corr, result, got, flight, slot, asked,
                  replies>>
  BY DEF Detach, ids, sent, told
<1>2. PICK where \in {"done", "dropped"} : Goto(r, where)
  BY DEF Detach
<1>3. pc' \in [Requests -> States] /\ pc' = [pc EXCEPT ![r] = where]
  BY <1>2, GotoTyped DEF IInv, States, Over
<1>4. /\ mailbox' \in [Requests -> Seq(Reply)]
      /\ \A s \in Requests : mailbox'[s] \in {mailbox[s], <<>>}
  BY EmptyTyped DEF IInv, Detach
<1>5. attached' \subseteq Requests
  BY DEF IInv, TypeOK, Detach
<1>6. TypeOK'
  BY <1>1, <1>3, <1>4, <1>5 DEF IInv, TypeOK, States
<1>7. Onwards
  BY <1>3 DEF IInv, TypeOK, Onwards
<1> QED BY <1>1, <1>4, <1>6, <1>7, QuietKeeps

LEMMA SubscribeKeeps ==
    ASSUME IInv, NEW r \in Requests, Subscribe(r)
    PROVE  IInv'
<1>1. UNCHANGED <<transport, core, seq, at, corr, got, mailbox, flight, slot, asked,
                  replies>>
  BY DEF Subscribe, Ends, ids, sent, told
<1>2. attached' \subseteq Requests
  BY DEF IInv, TypeOK, Subscribe
<1>3. CASE Goto(r, "subscribed") /\ result' = result
  <2>1. pc' \in [Requests -> States] /\ pc' = [pc EXCEPT ![r] = "subscribed"]
    BY <1>3, GotoTyped DEF IInv, States
  <2>2. TypeOK'
    BY <1>1, <1>2, <1>3, <2>1 DEF IInv, TypeOK, States
  <2>3. Onwards
    BY <2>1 DEF IInv, TypeOK, Onwards, IdsGivenEarly, Subscribe
  <2> QED BY <1>1, <2>2, <2>3, QuietKeeps
<1>4. CASE Ends(r, "closed", "done")
  <2>1. /\ pc' \in [Requests -> States] /\ pc' = [pc EXCEPT ![r] = "done"]
        /\ result' \in [Requests -> Results]
    BY <1>4, EndsTyped DEF IInv, States, Over, Results
  <2>2. TypeOK'
    BY <1>1, <1>2, <2>1 DEF IInv, TypeOK, States, Results
  <2>3. Onwards
    BY <2>1 DEF IInv, TypeOK, Onwards
  <2> QED BY <1>1, <2>2, <2>3, QuietKeeps
<1> QED BY <1>3, <1>4 DEF Subscribe, told

LEMMA RouteKeeps ==
    ASSUME IInv, NEW r \in Requests, Route(r)
    PROVE  IInv'
<1>1. UNCHANGED <<transport, core, seq, at, corr, got, attached, mailbox, flight, slot,
                  replies>>
  BY DEF Route, Ends, ids, wire, told
<1>2. asked' \subseteq Requests
  BY DEF IInv, TypeOK, Route
<1>3. CASE Goto(r, "wait") /\ result' = result
  <2>1. pc' \in [Requests -> States] /\ pc' = [pc EXCEPT ![r] = "wait"]
    BY <1>3, GotoTyped DEF IInv, States
  <2>2. TypeOK'
    BY <1>1, <1>2, <1>3, <2>1 DEF IInv, TypeOK, States
  <2>3. Onwards
    BY <2>1 DEF IInv, TypeOK, Onwards, IdsGiven, Route
  <2> QED BY <1>1, <2>2, <2>3, QuietKeeps
<1>4. CASE Ends(r, "closed", "done")
  <2>1. /\ pc' \in [Requests -> States] /\ pc' = [pc EXCEPT ![r] = "done"]
        /\ result' \in [Requests -> Results]
    BY <1>4, EndsTyped DEF IInv, States, Over, Results
  <2>2. TypeOK'
    BY <1>1, <1>2, <2>1 DEF IInv, TypeOK, States, Results
  <2>3. Onwards
    BY <2>1 DEF IInv, TypeOK, Onwards
  <2> QED BY <1>1, <2>2, <2>3, QuietKeeps
<1> QED BY <1>3, <1>4 DEF Route, told

LEMMA UnsubscribeKeeps ==
    ASSUME IInv, NEW r \in Requests, Unsubscribe(r)
    PROVE  IInv'
<1>1. UNCHANGED <<transport, core, seq, at, corr, result, got, slot, asked, replies>>
  BY DEF Unsubscribe, ids, sent, told
<1>2. pc' \in [Requests -> States] /\ pc' = [pc EXCEPT ![r] = "done"]
  BY GotoTyped DEF IInv, States, Over, Unsubscribe
<1>3. /\ mailbox' \in [Requests -> Seq(Reply)]
      /\ \A s \in Requests : mailbox'[s] \in {mailbox[s], <<>>}
  BY EmptyTyped DEF IInv, Unsubscribe
<1>4. attached' \subseteq Requests
  BY DEF IInv, TypeOK, Unsubscribe
<1>5. flight' \in Int
  <2>1. Len(mailbox[r]) \in Nat
    <3>1. mailbox[r] \in Seq(Reply)
      BY DEF IInv, TypeOK
    <3> QED BY <3>1, LenProperties
  <2> QED BY <2>1 DEF IInv, TypeOK, Unsubscribe, Raced
<1>6. TypeOK'
  BY <1>1, <1>2, <1>3, <1>4, <1>5 DEF IInv, TypeOK, States
<1>7. Onwards
  BY <1>2 DEF IInv, TypeOK, Onwards
<1> QED BY <1>1, <1>3, <1>6, <1>7, QuietKeeps

LEMMA ReleaseKeeps ==
    ASSUME IInv, NEW r \in Requests, Release(r)
    PROVE  IInv'
<1>1. UNCHANGED <<transport, core, seq, at, corr, pc, got, attached, mailbox, slot, asked,
                  replies>>
  BY DEF Release, ids, sent
<1>2. result' \in [Requests -> Results]
  BY ResultTyped DEF IInv, Results, Release
<1>3. flight' \in Int
  BY DEF IInv, TypeOK, Release
<1>4. TypeOK'
  BY <1>1, <1>2, <1>3 DEF IInv, TypeOK, Results
<1>5. Onwards
  BY <1>1 DEF Onwards
<1> QED BY <1>1, <1>4, <1>5, QuietKeeps

LEMMA DisconnectedKeeps ==
    ASSUME IInv, NEW r \in Requests, Disconnected(r)
    PROVE  IInv'
<1>1. UNCHANGED <<transport, core, seq, at, corr, got, attached, mailbox, flight, slot,
                  asked, replies>>
  BY DEF Disconnected, Ends, ids, wire, sent
<1>2. \E what \in Results : Ends(r, what, "detach")
  BY DEF Disconnected, Results
<1>3. /\ pc' \in [Requests -> States] /\ pc' = [pc EXCEPT ![r] = "detach"]
      /\ result' \in [Requests -> Results]
  BY <1>2, EndsTyped DEF IInv, States
<1>4. TypeOK'
  BY <1>1, <1>3 DEF IInv, TypeOK, States, Results
<1>5. Onwards
  BY <1>3 DEF IInv, TypeOK, Onwards
<1> QED BY <1>1, <1>4, <1>5, QuietKeeps

LEMMA ExpireKeeps ==
    ASSUME IInv, NEW r \in Requests, Expire(r)
    PROVE  IInv'
<1>1. UNCHANGED <<transport, core, seq, at, corr, got, attached, mailbox, flight, asked,
                  replies>>
  BY DEF Expire, Ends, ids, wire
<1>2. /\ pc' \in [Requests -> States] /\ pc' = [pc EXCEPT ![r] = "detach"]
      /\ result' \in [Requests -> Results]
  BY EndsTyped DEF IInv, States, Results, Expire
<1>3. slot' \in Requests \cup {Nobody}
  BY LetGoTyped DEF IInv, Expire
<1>4. TypeOK'
  BY <1>1, <1>2, <1>3 DEF IInv, TypeOK, States, Results
<1>5. Onwards
  BY <1>2 DEF IInv, TypeOK, Onwards
<1> QED BY <1>1, <1>4, <1>5, QuietKeeps

LEMMA AbandonKeeps ==
    ASSUME IInv, NEW r \in Requests, Abandon(r)
    PROVE  IInv'
<1>1. UNCHANGED <<transport, core, seq, at, corr, result, got, attached, flight, asked,
                  replies>>
  BY DEF Abandon, ids, told
<1>2. PICK where \in {"dropped", "unlink"} : Goto(r, where)
  BY DEF Abandon
<1>3. pc' \in [Requests -> States] /\ pc' = [pc EXCEPT ![r] = where]
  BY <1>2, GotoTyped DEF IInv, States, Over
<1>4. /\ mailbox' \in [Requests -> Seq(Reply)]
      /\ \A s \in Requests : mailbox'[s] \in {mailbox[s], <<>>}
  <2>1. CASE mailbox' = mailbox
    BY <2>1 DEF IInv, TypeOK
  <2>2. CASE mailbox' = [mailbox EXCEPT ![r] = <<>>]
    BY <2>2, EmptyTyped DEF IInv
  <2> QED BY <2>1, <2>2 DEF Abandon
<1>5. slot' \in Requests \cup {Nobody}
  BY LetGoTyped DEF IInv, Abandon
<1>6. TypeOK'
  BY <1>1, <1>3, <1>4, <1>5 DEF IInv, TypeOK, States
<1>7. Onwards
  BY <1>3 DEF IInv, TypeOK, Onwards
<1> QED BY <1>1, <1>4, <1>6, <1>7, QuietKeeps

LEMMA ShutdownKeeps ==
    ASSUME IInv, Shutdown
    PROVE  IInv'
<1>1. UNCHANGED <<transport, seq, at, corr, pc, result, got, mailbox, flight, slot, asked,
                  replies>>
  BY DEF Shutdown, sent, told
<1>2. /\ core' \in {"open", "closing", "drained", "ended"}
      /\ attached' \subseteq Requests
  BY DEF IInv, TypeOK, Shutdown
<1>3. TypeOK'
  BY <1>1, <1>2 DEF IInv, TypeOK
<1>4. Onwards
  BY <1>1 DEF Onwards
<1> QED BY <1>1, <1>3, <1>4, QuietKeeps

-----------------------------------------------------------------------------
(* Steps that give an id. *)

LEMMA StartsKeeps ==
    ASSUME IInv, NEW r \in Requests, NEW a \in Nat, NEW where \in {"send", "attach"},
           Starts(r, a, where), corr[r] = 0, where = "attach" => ~Live,
           attached' \subseteq Requests,
           UNCHANGED <<transport, core, mailbox, flight, slot, asked, replies>>
    PROVE  IInv'
<1>1. /\ seq' = seq + 1 /\ seq' \in Nat
      /\ corr' = [corr EXCEPT ![r] = seq + 1]
      /\ at' = [at EXCEPT ![r] = a]
      /\ UNCHANGED <<result, got>>
  BY DEF IInv, TypeOK, Starts, told
<1>2. pc' \in [Requests -> States] /\ pc' = [pc EXCEPT ![r] = where]
  BY GotoTyped DEF IInv, States, Starts
<1>3. at' \in [Requests -> Nat] /\ corr' \in [Requests -> Nat]
  BY <1>1 DEF IInv, TypeOK
<1>4. TypeOK'
  BY <1>1, <1>2, <1>3 DEF IInv, TypeOK, States
<1>5. IdsGiven' /\ IdsGivenEarly'
  <2>1. corr'[r] # 0
    BY <1>1 DEF IInv, TypeOK
  <2> QED BY <1>1, <1>2, <2>1 DEF IInv, TypeOK, IdsGiven, IdsGivenEarly, Live
<1>6. IdsDiffer'
  <2>1. \A s \in Requests : corr[s] \in Nat /\ corr[s] <= seq
    BY DEF IInv, TypeOK, IdsDiffer
  <2>2. corr'[r] = seq + 1 /\ \A s \in Requests \ {r} : corr'[s] = corr[s]
    BY <1>1 DEF IInv, TypeOK
  <2>3. seq \in Nat
    BY DEF IInv, TypeOK
  <2> QED BY <1>1, <2>1, <2>2, <2>3 DEF IInv, IdsDiffer
<1>7. MailHonest'
  <2>1. ASSUME NEW s \in Requests, NEW i \in DOMAIN mailbox[s]
        PROVE  mailbox[s][i].of \in Requests
    <3>1. mailbox[s] \in Seq(Reply)
      BY DEF IInv, TypeOK
    <3>2. mailbox[s][i] \in Reply
      BY <3>1
    <3> QED BY <3>2 DEF Reply
  <2> QED BY <1>1, <2>1 DEF IInv, TypeOK, MailHonest
<1>8. OwnReplyOnly'
  BY <1>1 DEF IInv, OwnReplyOnly
<1> QED BY <1>4, <1>5, <1>6, <1>7, <1>8 DEF IInv

LEMMA AttachAnsweredKeeps ==
    ASSUME IInv, NEW r \in Requests, AttachAnswered(r)
    PROVE  IInv'
<1>1. UNCHANGED <<transport, core, mailbox, flight, slot, asked, replies>>
  BY DEF AttachAnswered, ids, sent
<1>2. CASE \E a \in 1 .. Names : Starts(r, a, "send") /\ attached' = attached \cup {r}
  <2>1. corr[r] = 0
    BY DEF IInv, IdsGiven, AttachAnswered
  <2>2. attached' \subseteq Requests
    BY <1>2 DEF IInv, TypeOK
  <2>3. PICK a \in Nat : Starts(r, a, "send")
    BY <1>2, RequestAssumption
  <2> QED BY <1>1, <2>1, <2>2, <2>3, StartsKeeps
<1>3. CASE Ends(r, "attach", "done") /\ UNCHANGED <<ids, attached>>
  <2>1. /\ pc' \in [Requests -> States] /\ pc' = [pc EXCEPT ![r] = "done"]
        /\ result' \in [Requests -> Results]
        /\ got' = got
    BY <1>3, EndsTyped DEF IInv, States, Over, Results
  <2>2. UNCHANGED <<seq, at, corr, attached>>
    BY <1>3 DEF ids
  <2>3. TypeOK'
    BY <1>1, <2>1, <2>2 DEF IInv, TypeOK, States, Results
  <2>4. Onwards
    BY <2>1 DEF IInv, TypeOK, Onwards
  <2> QED BY <1>1, <2>1, <2>2, <2>3, <2>4, QuietKeeps
<1> QED BY <1>2, <1>3 DEF AttachAnswered

LEMMA CallInProcessKeeps ==
    ASSUME IInv, NEW r \in Requests, CallInProcess(r)
    PROVE  IInv'
<1>1. UNCHANGED <<transport, core, attached, mailbox, flight, slot, asked, replies>>
  BY DEF CallInProcess, wire, sent
<1>2. CASE Starts(r, seq + 1, "attach")
  <2>1. corr[r] = 0 /\ ~Live
    BY DEF IInv, IdsGiven, CallInProcess
  <2>2. attached' \subseteq Requests /\ seq + 1 \in Nat
    BY <1>1 DEF IInv, TypeOK
  <2> QED BY <1>1, <1>2, <2>1, <2>2, StartsKeeps
<1>3. CASE /\ \E what \in Results : Ends(r, what, "done")
           /\ seq' \in {seq, seq + 1}
           /\ UNCHANGED <<at, corr>>
  <2>1. /\ pc' \in [Requests -> States] /\ pc' = [pc EXCEPT ![r] = "done"]
        /\ result' \in [Requests -> Results]
        /\ got' = got
    BY <1>3, EndsTyped DEF IInv, States, Over
  <2>2. seq' \in Nat
    BY <1>3 DEF IInv, TypeOK
  <2>3. TypeOK'
    BY <1>1, <1>3, <2>1, <2>2 DEF IInv, TypeOK, States, Results
  <2>4. IdsGiven' /\ IdsGivenEarly'
    BY <1>1, <1>3, <2>1 DEF IInv, TypeOK, IdsGiven, IdsGivenEarly, Live
  <2>5. IdsDiffer'
    BY <1>3 DEF IInv, TypeOK, IdsDiffer
  <2>6. MailHonest' /\ OwnReplyOnly'
    BY <1>1, <1>3, <2>1 DEF IInv, MailHonest, OwnReplyOnly
  <2> QED BY <2>3, <2>4, <2>5, <2>6 DEF IInv
<1> QED BY <1>2, <1>3 DEF CallInProcess, Results

-----------------------------------------------------------------------------
(* Steps that deliver a reply. *)

LEMMA ReceiveKeeps ==
    ASSUME IInv, NEW r \in Requests, Receive(r)
    PROVE  IInv'
<1> DEFINE m == Head(mailbox[r])
<1>1. UNCHANGED <<transport, core, seq, at, corr, attached, slot, asked, replies>>
  BY DEF Receive, ids, sent
<1>2. mailbox[r] \in Seq(Reply) /\ mailbox[r] # <<>>
  BY DEF IInv, TypeOK, Receive
<1>3. /\ m = mailbox[r][1] /\ 1 \in DOMAIN mailbox[r]
      /\ m \in Reply
      /\ Tail(mailbox[r]) \in Seq(Reply)
      /\ \A i \in DOMAIN Tail(mailbox[r]) :
            i + 1 \in DOMAIN mailbox[r] /\ Tail(mailbox[r])[i] = mailbox[r][i + 1]
  BY <1>2, HeadTailProperties
<1>4. mailbox' = [mailbox EXCEPT ![r] = Tail(mailbox[r])]
  BY DEF Receive
<1>5. mailbox' \in [Requests -> Seq(Reply)]
  BY <1>3, <1>4 DEF IInv, TypeOK
<1>6. MailHonest'
  BY <1>1, <1>3, <1>4 DEF IInv, TypeOK, MailHonest
<1>7. m.of = r \/ m.id # corr[r]
  <2>1. corr[r] # 0
    BY DEF IInv, IdsGiven, Receive
  <2>2. m.id \in {0, corr[m.of]} /\ m.of \in Requests
    BY <1>3 DEF IInv, MailHonest, Reply
  <2> QED BY <2>1, <2>2 DEF IInv, IdsDiffer
<1> HIDE DEF m
<1>8. CASE Matches(m, r)
  <2>1. /\ Goto(r, "detach") /\ flight' = flight
        /\ \E what \in {"reply", "unreadable"} : result' = [result EXCEPT ![r] = what]
        /\ got' = got \/ got' = [got EXCEPT ![r] = m]
    BY <1>8 DEF Receive, m
  <2>2. pc' \in [Requests -> States] /\ pc' = [pc EXCEPT ![r] = "detach"]
    BY <2>1, GotoTyped DEF IInv, States
  <2>3. result' \in [Requests -> Results]
    BY <2>1, ResultTyped DEF IInv, Results
  <2>4. got' \in [Requests -> Reply \cup {NoReply}]
    BY <1>3, <2>1 DEF IInv, TypeOK
  <2>5. TypeOK'
    BY <1>1, <1>5, <2>1, <2>2, <2>3, <2>4 DEF IInv, TypeOK, States, Results
  <2>6. IdsGiven' /\ IdsGivenEarly' /\ IdsDiffer'
    BY <1>1, <2>2 DEF IInv, TypeOK, IdsGiven, IdsGivenEarly, IdsDiffer, Live
  <2>7. OwnReplyOnly'
    BY <1>7, <1>8, <2>1 DEF IInv, TypeOK, OwnReplyOnly, Matches
  <2> QED BY <1>6, <2>5, <2>6, <2>7 DEF IInv
<1>9. CASE ~Matches(m, r)
  <2>1. UNCHANGED <<pc, result, got>> /\ flight' \in Int
    BY <1>9 DEF IInv, TypeOK, Receive, m, told
  <2>2. TypeOK'
    BY <1>1, <1>5, <2>1 DEF IInv, TypeOK
  <2>3. IdsGiven' /\ IdsGivenEarly' /\ IdsDiffer' /\ OwnReplyOnly'
    BY <1>1, <2>1 DEF IInv, IdsGiven, IdsGivenEarly, IdsDiffer, OwnReplyOnly, Live
  <2> QED BY <1>6, <2>2, <2>3 DEF IInv
<1> QED BY <1>8, <1>9

LEMMA AnswerKeeps ==
    ASSUME IInv, NEW r \in Requests, Answer(r)
    PROVE  IInv'
<1>1. UNCHANGED <<transport, core, seq, at, corr, pc, attached, slot, asked, result, got>>
  BY DEF Answer, ids, told
<1>2. replies' \in 0 .. MaxReplies /\ flight' \in Int
  BY RequestAssumption DEF IInv, TypeOK, Answer
<1>3. PICK m \in Reply :
          /\ m.id \in {0, corr[m.of]}
          /\ \E there \in SUBSET Requests :
                mailbox' = [s \in Requests |->
                               IF s \in there THEN Append(mailbox[s], m) ELSE mailbox[s]]
  <2> DEFINE there == {s \in attached : at[s] = at[r]}
             answer(id, readable) == [of |-> r, id |-> id, readable |-> readable]
  <2>1. \A id \in {0, corr[r]}, readable \in BOOLEAN :
            /\ answer(id, readable) \in Reply
            /\ answer(id, readable).id \in {0, corr[answer(id, readable).of]}
    BY DEF IInv, TypeOK, Reply
  <2>2. \E id \in {0, corr[r]}, readable \in BOOLEAN :
            mailbox' = [s \in Requests |->
                           IF s \in there THEN Append(mailbox[s], answer(id, readable))
                           ELSE mailbox[s]]
    BY DEF Answer
  <2>3. there \in SUBSET Requests
    BY DEF IInv, TypeOK
  <2> HIDE DEF there, answer
  <2> QED BY <2>1, <2>2, <2>3
<1>4. \A s \in Requests : mailbox'[s] = mailbox[s] \/ mailbox'[s] = Append(mailbox[s], m)
  BY <1>3
<1>5. \A s \in Requests :
          /\ mailbox'[s] \in Seq(Reply)
          /\ \A i \in DOMAIN mailbox'[s] :
                \/ i \in DOMAIN mailbox[s] /\ mailbox'[s][i] = mailbox[s][i]
                \/ mailbox'[s][i] = m
  <2> SUFFICES ASSUME NEW s \in Requests, mailbox'[s] = Append(mailbox[s], m)
               PROVE  /\ mailbox'[s] \in Seq(Reply)
                      /\ \A i \in DOMAIN mailbox'[s] :
                            \/ i \in DOMAIN mailbox[s] /\ mailbox'[s][i] = mailbox[s][i]
                            \/ mailbox'[s][i] = m
    BY <1>4 DEF IInv, TypeOK
  <2>1. mailbox[s] \in Seq(Reply)
    BY DEF IInv, TypeOK
  <2> QED BY <2>1, AppendProperties
<1>6. mailbox' \in [Requests -> Seq(Reply)]
  BY <1>3, <1>5
<1>7. TypeOK'
  BY <1>1, <1>2, <1>6 DEF IInv, TypeOK
<1>8. MailHonest'
  BY <1>1, <1>3, <1>5 DEF IInv, MailHonest
<1>9. IdsGiven' /\ IdsGivenEarly' /\ IdsDiffer' /\ OwnReplyOnly'
  BY <1>1 DEF IInv, IdsGiven, IdsGivenEarly, IdsDiffer, OwnReplyOnly, Live
<1> QED BY <1>7, <1>8, <1>9 DEF IInv

-----------------------------------------------------------------------------
(* The invariant, and what follows from it. *)

LEMMA InitHolds == Init => IInv
<1> SUFFICES ASSUME Init PROVE IInv
  OBVIOUS
<1>1. TypeOK
  BY RequestAssumption DEF Init, TypeOK, Over
<1>2. IdsGiven /\ IdsGivenEarly /\ IdsDiffer
  BY DEF Init, IdsGiven, IdsGivenEarly, IdsDiffer
<1>3. MailHonest
  BY DEF Init, MailHonest
<1>4. OwnReplyOnly
  BY DEF Init, OwnReplyOnly, NoReply
<1> QED BY <1>1, <1>2, <1>3, <1>4 DEF IInv

LEMMA StepKeeps == IInv /\ [Next]_vars => IInv'
<1> SUFFICES ASSUME IInv, [Next]_vars PROVE IInv'
  OBVIOUS
<1>1. CASE UNCHANGED vars
  BY <1>1 DEF IInv, TypeOK, IdsGiven, IdsGivenEarly, IdsDiffer, MailHonest, OwnReplyOnly,
              Live, vars, ids, wire, sent, told
<1>2. CASE \E r \in Requests :
              Call(r) \/ AttachAnswered(r) \/ Unsent(r) \/ Send(r) \/ Sent(r) \/ Detach(r)
  BY <1>2, CallKeeps, AttachAnsweredKeeps, UnsentKeeps, SendKeeps, SentKeeps, DetachKeeps
<1>3. CASE \E r \in Requests : CallInProcess(r) \/ InProcessStep(r) \/ Release(r)
  BY <1>3, CallInProcessKeeps, SubscribeKeeps, RouteKeeps, UnsubscribeKeeps, ReleaseKeeps
     DEF InProcessStep
<1>4. CASE \E r \in Requests :
              Receive(r) \/ Disconnected(r) \/ Expire(r) \/ Abandon(r) \/ Answer(r)
  BY <1>4, ReceiveKeeps, DisconnectedKeeps, ExpireKeeps, AbandonKeeps, AnswerKeeps
<1>5. CASE Shutdown
  BY <1>5, ShutdownKeeps
<1> QED BY <1>1, <1>2, <1>3, <1>4, <1>5 DEF Next

\* The invariant is inductive, and holds of every reachable state.
THEOREM Invariance == Spec => []IInv
BY InitHolds, StepKeeps, PTL DEF Spec

\* Every variable keeps its type.
THEOREM TypeCorrect == Spec => []TypeOK
<1>1. IInv => TypeOK
  BY DEF IInv
<1> QED BY <1>1, Invariance, PTL

\* A request returns with a reply to itself, however many requests use a reply
\* address one after another and whatever is answered late, twice or with no id.
THEOREM RepliesAreOwn == Spec => []OwnReplyOnly
<1>1. IInv => OwnReplyOnly
  BY DEF IInv
<1> QED BY <1>1, Invariance, PTL

-----------------------------------------------------------------------------
(* What a request holds. *)

\* Only its send holds the sender link, and its reply address only until it
\* detached.
Holds(r) ==
    /\ slot = r => pc[r] = "sending"
    /\ r \in attached =>
          pc[r] \in IF Live THEN {"send", "sending", "wait", "detach", "unlink"}
                    ELSE {"subscribed", "wait", "detach", "dropped"}
    /\ Live \/ pc[r] \notin {"send", "sending", "unlink"}

Holding ==
    /\ \A r \in Requests : Holds(r)
    /\ core = "ended" => attached = {}

\* In process: an address is one request's, replies come once it was routed, and
\* they wait in its channel or with its caller.
Mails(r) ==
    /\ at[r] = corr[r]
    /\ r \in asked => corr[r] # 0 /\ pc[r] \in {"wait", "detach", "done", "dropped"}
    /\ mailbox[r] # <<>> => pc[r] \in {"wait", "detach", "dropped"}
    /\ result[r] = "reply" => pc[r] \in {"detach", "done"}

\* The places of the replies that count: those queued, and those a caller has.
Counted ==
    {p \in Requests \X Nat : \/ p[2] \in DOMAIN mailbox[p[1]]
                             \/ p[2] = 0 /\ result[p[1]] = "reply"}

NoneDropped == \A r \in Requests : pc[r] # "dropped"

Counting ==
    /\ Live => flight = 0
    /\ ~Live => /\ \A r \in Requests : Mails(r)
                /\ IsFiniteSet(Counted)
                /\ NoneDropped => flight = Cardinality(Counted)

Held == Holding /\ Counting

\* Only r goes anywhere.
Moves(r) == \A s \in Requests \ {r} : pc'[s] = pc[s]

LEMMA GotoMoves ==
    ASSUME TypeOK, NEW r \in Requests, NEW where, Goto(r, where)
    PROVE  Moves(r) /\ pc'[r] = where
BY DEF TypeOK, Moves, Goto

LEMMA EndsMoves ==
    ASSUME TypeOK, NEW r \in Requests, NEW what, NEW where, Ends(r, what, where)
    PROVE  /\ Moves(r) /\ pc'[r] = where
           /\ result'[r] = what
           /\ \A s \in Requests \ {r} : result'[s] = result[s]
BY GotoMoves DEF TypeOK, Ends

LEMMA NobodyIsNone ==
    ASSUME NEW r \in Requests
    PROVE  Nobody # r
BY RequestAssumption

\* The other requests hold what they held.
LEMMA HoldingStays ==
    ASSUME Holding, NEW r \in Requests, transport' = transport, Moves(r), Holds(r)',
           \A s \in Requests \ {r} : (s \in attached' => s \in attached)
                                     /\ (slot' = s => slot = s),
           core' = "ended" => attached' = {}
    PROVE  Holding'
BY DEF Holding, Holds, Moves, Live

\* No reply comes, goes or is let go of.
LEMMA CountingStays ==
    ASSUME Counting, NEW r \in Requests, UNCHANGED <<transport, mailbox, flight>>, Moves(r),
           \A s \in Requests \ {r} : /\ at'[s] = at[s] /\ corr'[s] = corr[s]
                                     /\ result'[s] = result[s]
                                     /\ s \in asked' => s \in asked,
           ~Live => /\ Mails(r)' /\ pc[r] # "dropped"
                    /\ result[r] # "reply" /\ result'[r] # "reply"
    PROVE  Counting'
<1>1. CASE Live
  BY <1>1 DEF Counting, Live
<1>2. CASE ~Live
  <2>1. \A s \in Requests : Mails(s)'
    BY <1>2 DEF Counting, Mails, Moves
  <2>2. \A s \in Requests : result'[s] = "reply" <=> result[s] = "reply"
    BY <1>2
  <2>3. Counted' = Counted
    BY <2>2 DEF Counted
  <2>4. NoneDropped' => NoneDropped
    BY <1>2 DEF NoneDropped, Moves
  <2> QED BY <1>2, <2>1, <2>3, <2>4 DEF Counting, Live
<1> QED BY <1>1, <1>2

\* A step a request makes over a connection.
LEMMA CountingLive ==
    ASSUME Counting, Live, UNCHANGED <<transport, flight>>
    PROVE  Counting'
BY DEF Counting, Live

LEMMA CallHolds ==
    ASSUME IInv, Held, NEW r \in Requests, Call(r)
    PROVE  Held'
<1>1. /\ UNCHANGED <<transport, core, attached, mailbox, flight, slot, asked>>
      /\ Live /\ pc[r] = "idle"
      /\ Moves(r) /\ pc'[r] \in {"attach", "done"}
  BY GotoMoves, EndsMoves DEF IInv, Call, ids, wire, sent
<1>2. Holding'
  BY <1>1, HoldingStays DEF Held, Holding, Holds, Live
<1> QED BY <1>1, <1>2, CountingLive DEF Held

LEMMA AttachAnsweredHolds ==
    ASSUME IInv, Held, NEW r \in Requests, AttachAnswered(r)
    PROVE  Held'
<1>1. /\ UNCHANGED <<transport, core, mailbox, flight, slot, asked>>
      /\ Live /\ pc[r] = "attach"
      /\ Moves(r)
      /\ \/ pc'[r] = "send" /\ attached' = attached \cup {r} /\ core # "ended"
         \/ pc'[r] = "done" /\ attached' = attached
  BY GotoMoves, EndsMoves DEF IInv, AttachAnswered, Starts, ids, wire, sent
<1>2. Holding'
  BY <1>1, HoldingStays DEF Held, Holding, Holds, Live
<1> QED BY <1>1, <1>2, CountingLive DEF Held

LEMMA UnsentHolds ==
    ASSUME IInv, Held, NEW r \in Requests, Unsent(r)
    PROVE  Held'
<1>1. /\ UNCHANGED <<transport, core, attached, mailbox, flight, slot, asked>>
      /\ Live /\ pc[r] = "send"
      /\ Moves(r) /\ pc'[r] = "detach"
  BY EndsMoves DEF IInv, Unsent, ids, wire, sent, Held, Holding, Holds
<1>2. Holding'
  BY <1>1, HoldingStays DEF Held, Holding, Holds, Live
<1> QED BY <1>1, <1>2, CountingLive DEF Held

LEMMA SendHolds ==
    ASSUME IInv, Held, NEW r \in Requests, Send(r)
    PROVE  Held'
<1>1. /\ UNCHANGED <<transport, core, attached, mailbox, flight>>
      /\ Live /\ pc[r] = "send" /\ slot = Nobody /\ slot' = r
      /\ Moves(r) /\ pc'[r] = "sending"
  BY GotoMoves DEF IInv, Send, ids, wire, Held, Holding, Holds
<1>2. Holding'
  BY <1>1, HoldingStays DEF Held, Holding, Holds, Live
<1> QED BY <1>1, <1>2, CountingLive DEF Held

LEMMA SentHolds ==
    ASSUME IInv, Held, NEW r \in Requests, Sent(r)
    PROVE  Held'
<1>1. /\ UNCHANGED <<transport, core, attached, mailbox, flight>>
      /\ Live /\ pc[r] = "sending" /\ slot' = Nobody
      /\ Moves(r) /\ pc'[r] \in {"wait", "detach"}
  BY GotoMoves, EndsMoves DEF IInv, Sent, ids, wire, Held, Holding, Holds
<1>2. Holding'
  BY <1>1, HoldingStays, NobodyIsNone DEF Held, Holding, Holds, Live
<1> QED BY <1>1, <1>2, CountingLive DEF Held

LEMMA DetachHolds ==
    ASSUME IInv, Held, NEW r \in Requests, Detach(r)
    PROVE  Held'
<1>1. /\ UNCHANGED <<transport, core, flight, slot>>
      /\ Live /\ pc[r] \in {"detach", "unlink"} /\ attached' = attached \ {r}
      /\ Moves(r) /\ pc'[r] \in {"done", "dropped"}
  BY GotoMoves DEF IInv, Detach, ids, sent
<1>2. Holding'
  BY <1>1, HoldingStays DEF Held, Holding, Holds, Live
<1> QED BY <1>1, <1>2, CountingLive DEF Held

LEMMA CallInProcessHolds ==
    ASSUME IInv, Held, NEW r \in Requests, CallInProcess(r)
    PROVE  Held'
<1>1. /\ UNCHANGED <<transport, core, attached, mailbox, flight, slot, asked>>
      /\ ~Live /\ pc[r] = "idle"
      /\ Moves(r) /\ pc'[r] \in {"attach", "done"}
      /\ result'[r] # "reply" \/ result' = result
      /\ \A s \in Requests \ {r} : result'[s] = result[s]
  BY GotoMoves, EndsMoves DEF IInv, CallInProcess, Starts, wire, sent, told
<1>2. /\ \A s \in Requests \ {r} : at'[s] = at[s] /\ corr'[s] = corr[s]
      /\ at'[r] = corr'[r]
  <2>1. Mails(r)
    BY <1>1 DEF Held, Counting
  <2>2. CASE UNCHANGED <<at, corr>>
    BY <2>1, <2>2 DEF Mails
  <2>3. CASE Starts(r, seq + 1, "attach")
    BY <2>3 DEF IInv, TypeOK, Starts
  <2> QED BY <2>2, <2>3 DEF CallInProcess
<1>3. Holding'
  BY <1>1, HoldingStays DEF Held, Holding, Holds, Live
<1>4. Mails(r)' /\ result[r] # "reply" /\ result'[r] # "reply"
  <2>1. Mails(r)
    BY <1>1 DEF Held, Counting
  <2> QED BY <1>1, <1>2, <2>1 DEF Mails
<1>5. Counting'
  BY <1>1, <1>2, <1>4, CountingStays DEF Held
<1> QED BY <1>3, <1>5 DEF Held

\* A request in process goes on or ends without a reply.
LEMMA GoesOn ==
    ASSUME IInv, Held, NEW r \in Requests, ~Live, Moves(r),
           UNCHANGED <<transport, core, at, corr, mailbox, flight>>,
           slot' = slot \/ slot' = Nobody,
           pc[r] \in {"attach", "subscribed", "wait"},
           attached' = attached \/ (attached' = attached \cup {r} /\ core # "ended"),
           asked' = asked \/ asked' = asked \cup {r},
           result'[r] # "reply" \/ result' = result,
           \A s \in Requests \ {r} : result'[s] = result[s],
           \/ pc'[r] = "subscribed" /\ pc[r] = "attach" /\ asked' = asked
           \/ pc'[r] = "wait" /\ pc[r] = "subscribed" /\ attached' = attached
           \/ pc'[r] = "detach" /\ pc[r] = "wait" /\ asked' = asked /\ attached' = attached
           \/ pc'[r] = "done" /\ core = "ended" /\ pc[r] # "wait" /\ asked' = asked
              /\ attached' = attached
    PROVE  Held'
<1>1. Mails(r) /\ Holds(r)
  BY DEF Held, Counting, Holding
<1>2. Holding'
  BY <1>1, HoldingStays, NobodyIsNone DEF Held, Holding, Holds, Live
<1>3. Mails(r)' /\ result[r] # "reply" /\ result'[r] # "reply"
  BY <1>1 DEF Mails, IInv, IdsGiven
<1>4. Counting'
  BY <1>3, CountingStays DEF Held
<1> QED BY <1>2, <1>4 DEF Held

LEMMA SubscribeHolds ==
    ASSUME IInv, Held, NEW r \in Requests, Subscribe(r)
    PROVE  Held'
<1>1. /\ UNCHANGED <<transport, core, at, corr, mailbox, flight, slot, asked>>
      /\ ~Live /\ pc[r] = "attach" /\ Moves(r)
  BY GotoMoves, EndsMoves DEF IInv, Subscribe, ids, sent
<1>2. CASE core = "ended"
  <2>1. /\ attached' = attached /\ pc'[r] = "done" /\ result'[r] # "reply"
        /\ \A s \in Requests \ {r} : result'[s] = result[s]
    BY <1>2, EndsMoves DEF IInv, Subscribe
  <2> QED BY <1>1, <1>2, <2>1, GoesOn
<1>3. CASE core # "ended"
  <2>1. attached' = attached \cup {r} /\ pc'[r] = "subscribed" /\ result' = result
    BY <1>3, GotoMoves DEF IInv, Subscribe, told
  <2> QED BY <1>1, <1>3, <2>1, GoesOn
<1> QED BY <1>2, <1>3

LEMMA RouteHolds ==
    ASSUME IInv, Held, NEW r \in Requests, Route(r)
    PROVE  Held'
<1>1. /\ UNCHANGED <<transport, core, at, corr, mailbox, flight, slot, attached>>
      /\ pc[r] = "subscribed" /\ Moves(r)
  BY GotoMoves, EndsMoves DEF IInv, Route, ids, wire
<1>2. CASE core = "ended"
  <2>1. /\ asked' = asked /\ pc'[r] = "done" /\ result'[r] # "reply"
        /\ \A s \in Requests \ {r} : result'[s] = result[s]
    BY <1>2, EndsMoves DEF IInv, Route
  <2>2. CASE Live
    <3>1. Holding'
      BY <1>1, <1>2, <2>1, HoldingStays DEF Held, Holding, Holds, Live
    <3> QED BY <1>1, <2>2, <3>1, CountingLive DEF Held
  <2> QED BY <1>1, <1>2, <2>1, <2>2, GoesOn
<1>3. CASE core # "ended"
  <2>1. asked' = asked \cup {r} /\ pc'[r] = "wait" /\ result' = result
    BY <1>3, GotoMoves DEF IInv, Route, told
  <2>2. CASE Live
    <3>1. Holding'
      BY <1>1, <1>3, <2>1, <2>2, HoldingStays DEF Held, Holding, Holds, Live
    <3> QED BY <1>1, <2>2, <3>1, CountingLive DEF Held
  <2> QED BY <1>1, <1>3, <2>1, <2>2, GoesOn
<1> QED BY <1>2, <1>3

LEMMA DisconnectedHolds ==
    ASSUME IInv, Held, NEW r \in Requests, Disconnected(r)
    PROVE  Held'
<1>1. /\ UNCHANGED <<transport, core, at, corr, mailbox, flight, slot, attached, asked>>
      /\ pc[r] = "wait" /\ Moves(r) /\ pc'[r] = "detach" /\ result'[r] # "reply"
      /\ \A s \in Requests \ {r} : result'[s] = result[s]
  BY EndsMoves DEF IInv, Disconnected, ids, wire, sent
<1>2. CASE Live
  <2>1. Holding'
    BY <1>1, <1>2, HoldingStays DEF Held, Holding, Holds, Live
  <2> QED BY <1>1, <1>2, <2>1, CountingLive DEF Held
<1>3. CASE ~Live
  BY <1>1, <1>3, GoesOn
<1> QED BY <1>2, <1>3

LEMMA LetsGo ==
    ASSUME NEW r \in Requests, slot' = LetGo(r)
    PROVE  /\ slot' # r
           /\ slot' = slot \/ slot' = Nobody
BY NobodyIsNone DEF LetGo

LEMMA ExpireHolds ==
    ASSUME IInv, Held, NEW r \in Requests, Expire(r)
    PROVE  Held'
<1>1. /\ UNCHANGED <<transport, core, at, corr, mailbox, flight, attached, asked>>
      /\ pc[r] \in {"send", "sending", "wait"} /\ Moves(r) /\ pc'[r] = "detach"
      /\ result'[r] # "reply"
      /\ \A s \in Requests \ {r} : result'[s] = result[s]
      /\ slot' # r /\ (slot' = slot \/ slot' = Nobody)
  BY EndsMoves, LetsGo DEF IInv, Expire, Exchange, ids, wire
<1>2. CASE Live
  <2>1. Holding'
    BY <1>1, <1>2, HoldingStays, NobodyIsNone DEF Held, Holding, Holds, Live
  <2> QED BY <1>1, <1>2, <2>1, CountingLive DEF Held
<1>3. CASE ~Live
  <2>1. pc[r] = "wait"
    BY <1>1, <1>3 DEF Held, Holding, Holds
  <2> QED BY <1>1, <1>3, <2>1, GoesOn
<1> QED BY <1>2, <1>3

-----------------------------------------------------------------------------
(* Replies that come, go and are let go of. *)

LEMMA QueueTyped ==
    ASSUME TypeOK, NEW r \in Requests
    PROVE  /\ mailbox[r] \in Seq(Reply)
           /\ Len(mailbox[r]) \in Nat
           /\ DOMAIN mailbox[r] = 1 .. Len(mailbox[r])
<1>1. mailbox[r] \in Seq(Reply)
  BY DEF TypeOK
<1> QED BY <1>1, LenProperties

\* The places of one queue.
QueueOf(r) == {<<r, i>> : i \in 1 .. Len(mailbox[r])}

LEMMA QueueCounts ==
    ASSUME TypeOK, NEW r \in Requests
    PROVE  /\ QueueOf(r) \subseteq Counted
           /\ IsFiniteSet(QueueOf(r))
           /\ Cardinality(QueueOf(r)) = Len(mailbox[r])
<1> DEFINE n == Len(mailbox[r])
           place == [i \in 1 .. n |-> <<r, i>>]
<1>1. n \in Nat /\ DOMAIN mailbox[r] = 1 .. n
  BY QueueTyped
<1>2. QueueOf(r) \subseteq Counted
  BY <1>1 DEF QueueOf, Counted
<1>3. IsFiniteSet(1 .. n) /\ Cardinality(1 .. n) = n
  BY <1>1, FS_Interval
<1>4. place \in Bijection(1 .. n, QueueOf(r))
  BY DEF QueueOf, Bijection, Injection, Surjection, IsInjective
<1>5. ExistsBijection(1 .. n, QueueOf(r))
  BY <1>4 DEF ExistsBijection
<1> QED BY <1>2, <1>3, <1>5, FS_Bijection

\* The request's part of the count, and the others'.
LEMMA CountedPlaces ==
    ASSUME NEW r \in Requests,
           \A s \in Requests \ {r} : mailbox'[s] = mailbox[s] /\ result'[s] = result[s],
           NEW p, p \in Counted' \/ p \in Counted, p[1] # r
    PROVE  p \in Counted' /\ p \in Counted
BY DEF Counted

LEMMA UnsubscribeHolds ==
    ASSUME IInv, Held, NEW r \in Requests, Unsubscribe(r)
    PROVE  Held'
<1>1. /\ UNCHANGED <<transport, core, at, corr, slot, asked, result>>
      /\ ~Live /\ pc[r] = "detach" /\ attached' = attached \ {r}
      /\ Moves(r) /\ pc'[r] = "done"
      /\ flight' = flight - Len(mailbox[r])
  BY GotoMoves DEF IInv, Unsubscribe, Raced, ids, sent, told
<1>2. mailbox'[r] = <<>> /\ \A s \in Requests \ {r} : mailbox'[s] = mailbox[s]
  BY DEF IInv, TypeOK, Unsubscribe
<1>3. Holding'
  BY <1>1, HoldingStays DEF Held, Holding, Holds, Live
<1>4. ~Live' /\ \A s \in Requests : Mails(s)'
  BY <1>1, <1>2 DEF Held, Counting, Mails, Moves, Live
<1>5. Counted' = Counted \ QueueOf(r)
  <2>1. DOMAIN mailbox'[r] = {}
    BY <1>2
  <2>2. DOMAIN mailbox[r] = 1 .. Len(mailbox[r]) /\ Len(mailbox[r]) \in Nat
    BY QueueTyped DEF IInv
  <2>3. ASSUME NEW p, p[1] = r PROVE p \in Counted' <=> p \in Counted \ QueueOf(r)
    BY <1>1, <2>1, <2>2, <2>3 DEF Counted, QueueOf
  <2>4. ASSUME NEW p, p[1] # r PROVE p \in Counted' <=> p \in Counted \ QueueOf(r)
    BY <1>1, <1>2, <2>4, CountedPlaces DEF QueueOf
  <2> QED BY <2>3, <2>4
<1>6. /\ IsFiniteSet(Counted) /\ QueueOf(r) \subseteq Counted
      /\ Cardinality(QueueOf(r)) = Len(mailbox[r])
  BY <1>1, QueueCounts DEF IInv, Held, Counting
<1>7. /\ IsFiniteSet(Counted')
      /\ Cardinality(Counted') = Cardinality(Counted) - Len(mailbox[r])
  <2>1. Counted \cap QueueOf(r) = QueueOf(r)
    BY <1>6
  <2>2. /\ IsFiniteSet(Counted \ QueueOf(r))
        /\ Cardinality(Counted \ QueueOf(r))
              = Cardinality(Counted) - Cardinality(Counted \cap QueueOf(r))
    BY <1>6, FS_Difference
  <2> QED BY <1>5, <1>6, <2>1, <2>2
<1>8. NoneDropped' => NoneDropped
  BY <1>1 DEF NoneDropped, Moves
<1>9. Counting'
  BY <1>1, <1>4, <1>7, <1>8 DEF Held, Counting
<1> QED BY <1>3, <1>9 DEF Held

LEMMA ReleaseHolds ==
    ASSUME IInv, Held, NEW r \in Requests, Release(r)
    PROVE  Held'
<1>1. /\ UNCHANGED <<transport, core, at, corr, pc, attached, mailbox, slot, asked>>
      /\ ~Live /\ pc[r] = "done" /\ result[r] = "reply" /\ result'[r] = "none"
      /\ \A s \in Requests \ {r} : result'[s] = result[s]
      /\ flight' = flight - 1
  BY DEF IInv, TypeOK, Release, ids, sent
<1>2. Holding'
  BY <1>1 DEF Held, Holding, Holds, Live
<1>3. ~Live' /\ \A s \in Requests : Mails(s)'
  BY <1>1 DEF Held, Counting, Mails, Live
<1>4. 0 \notin DOMAIN mailbox[r]
  BY QueueTyped DEF IInv
<1>5. Counted' = Counted \ {<<r, 0>>} /\ <<r, 0>> \in Counted
  <2>1. <<r, 0>> \in Counted
    BY <1>1 DEF Counted
  <2>2. ASSUME NEW p, p[1] = r PROVE p \in Counted' <=> p \in Counted \ {<<r, 0>>}
    BY <1>1, <1>4, <2>2 DEF Counted
  <2>3. ASSUME NEW p, p[1] # r PROVE p \in Counted' <=> p \in Counted \ {<<r, 0>>}
    BY <1>1, <2>3, CountedPlaces
  <2> QED BY <2>1, <2>2, <2>3
<1>6. IsFiniteSet(Counted') /\ Cardinality(Counted') = Cardinality(Counted) - 1
  BY <1>1, <1>5, FS_RemoveElement DEF Held, Counting
<1>7. NoneDropped' => NoneDropped
  BY <1>1 DEF NoneDropped
<1>8. Counting'
  BY <1>1, <1>3, <1>6, <1>7 DEF Held, Counting
<1> QED BY <1>2, <1>8 DEF Held

LEMMA ReceiveHolds ==
    ASSUME IInv, Held, NEW r \in Requests, Receive(r)
    PROVE  Held'
<1> DEFINE n == Len(mailbox[r])
           matched == Matches(Head(mailbox[r]), r)
<1>1. /\ UNCHANGED <<transport, core, at, corr, attached, slot, asked>>
      /\ pc[r] = "wait" /\ mailbox[r] # <<>>
      /\ mailbox'[r] = Tail(mailbox[r])
      /\ \A s \in Requests \ {r} : mailbox'[s] = mailbox[s]
  BY DEF IInv, TypeOK, Receive, ids, sent
<1>2. \/ /\ matched /\ Moves(r) /\ pc'[r] = "detach" /\ flight' = flight
         /\ ~Live => result'[r] = "reply"
         /\ \A s \in Requests \ {r} : result'[s] = result[s]
      \/ /\ ~matched /\ UNCHANGED <<pc, result>>
         /\ Live => flight' = flight
         /\ ~Live => flight' = flight - 1
  BY GotoMoves DEF IInv, TypeOK, Receive, told
<1>3. Moves(r) /\ pc'[r] \in {"wait", "detach"}
  BY <1>1, <1>2 DEF Moves
<1>4. \A s \in Requests \ {r} : result'[s] = result[s]
  BY <1>2
<1> HIDE DEF matched
<1>5. Holding'
  BY <1>1, <1>3, HoldingStays DEF Held, Holding, Holds, Live
<1>6. CASE Live
  BY <1>1, <1>2, <1>5, <1>6, CountingLive DEF Held
<1>7. CASE ~Live
  <2>1. Mails(r) /\ result[r] # "reply"
    BY <1>1, <1>7 DEF Held, Counting, Mails
  <2>2. Mails(r)'
    BY <1>1, <1>2, <1>3, <2>1 DEF Mails
  <2>3. ~Live' /\ \A s \in Requests : Mails(s)'
    BY <1>1, <1>3, <1>4, <1>7, <2>2 DEF Held, Counting, Mails, Moves, Live
  <2>4. /\ n \in Nat \ {0} /\ DOMAIN mailbox[r] = 1 .. n
        /\ DOMAIN mailbox'[r] = 1 .. (n - 1)
    <3>1. mailbox[r] \in Seq(Reply)
      BY DEF IInv, TypeOK
    <3>2. n \in Nat /\ n # 0 /\ DOMAIN mailbox[r] = 1 .. n
      BY <1>1, <3>1, LenProperties, EmptySeq
    <3>3. Tail(mailbox[r]) \in Seq(Reply) /\ Len(Tail(mailbox[r])) = n - 1
      BY <1>1, <3>1, HeadTailProperties
    <3>4. DOMAIN Tail(mailbox[r]) = 1 .. (n - 1)
      BY <3>3, LenProperties
    <3> QED BY <1>1, <3>2, <3>4
  <2> DEFINE rest == Counted \ {<<r, n>>}
  <2> HIDE DEF n
  <2>5. /\ <<r, n>> \in Counted /\ <<r, 0>> \notin Counted
        /\ IsFiniteSet(Counted) /\ Cardinality(Counted) \in Nat
    BY <1>7, <2>1, <2>4, FS_CardinalityType DEF Counted, Held, Counting
  <2>6. IsFiniteSet(rest) /\ Cardinality(rest) = Cardinality(Counted) - 1
    BY <2>5, FS_RemoveElement
  <2>7. Counted' = IF matched THEN rest \cup {<<r, 0>>} ELSE rest
    <3>1. \A i \in Nat : i \in 1 .. n => i \in 1 .. (n - 1) \/ i = n
      BY <2>4
    <3>2. n \notin 1 .. (n - 1) /\ n # 0 /\ 1 .. (n - 1) \subseteq 1 .. n
      BY <2>4
    <3>3. result'[r] = "reply" <=> matched
      BY <1>2, <1>7, <2>1
    <3>4. ASSUME NEW p, p[1] = r
          PROVE  p \in Counted' <=> p \in IF matched THEN rest \cup {<<r, 0>>} ELSE rest
      BY <2>1, <2>4, <3>1, <3>2, <3>3, <3>4 DEF Counted
    <3>5. ASSUME NEW p, p[1] # r
          PROVE  p \in Counted' <=> p \in IF matched THEN rest \cup {<<r, 0>>} ELSE rest
      BY <1>1, <1>4, <3>5, CountedPlaces
    <3> QED BY <3>4, <3>5
  <2>8. /\ IsFiniteSet(Counted')
        /\ Cardinality(Counted') =
              IF matched THEN Cardinality(Counted) ELSE Cardinality(Counted) - 1
    <3>1. <<r, 0>> \notin rest
      BY <2>5
    <3> HIDE DEF rest
    <3>2. /\ IsFiniteSet(rest \cup {<<r, 0>>})
          /\ Cardinality(rest \cup {<<r, 0>>}) = Cardinality(rest) + 1
      BY <2>6, <3>1, FS_AddElement
    <3> QED BY <2>5, <2>6, <2>7, <3>2
  <2>9. NoneDropped' => NoneDropped
    BY <1>1, <1>3 DEF NoneDropped, Moves
  <2>10. Counting'
    BY <1>2, <1>7, <2>3, <2>8, <2>9 DEF Held, Counting
  <2> QED BY <1>5, <2>10 DEF Held
<1> QED BY <1>6, <1>7

LEMMA AbandonHolds ==
    ASSUME IInv, Held, NEW r \in Requests, Abandon(r)
    PROVE  Held'
<1>1. /\ UNCHANGED <<transport, core, at, corr, attached, flight, asked, result>>
      /\ Moves(r) /\ pc'[r] \in {"dropped", "unlink"}
      /\ slot' # r /\ (slot' = slot \/ slot' = Nobody)
  BY GotoMoves, LetsGo DEF IInv, Abandon, ids, told
<1>2. CASE Live
  <2>1. \/ pc[r] = "attach" /\ pc'[r] = "dropped"
        \/ pc'[r] = "unlink"
    BY <1>2, GotoMoves DEF IInv, Abandon
  <2>2. Holding'
    BY <1>1, <1>2, <2>1, HoldingStays, NobodyIsNone DEF Held, Holding, Holds, Live
  <2> QED BY <1>1, <1>2, <2>2, CountingLive DEF Held
<1>3. CASE ~Live
  <2>1. /\ pc[r] = "wait" /\ pc'[r] = "dropped" /\ mailbox'[r] = <<>>
        /\ \A s \in Requests \ {r} : mailbox'[s] = mailbox[s]
    BY <1>3, GotoMoves DEF IInv, TypeOK, Abandon
  <2>2. Holding'
    BY <1>1, <1>3, <2>1, HoldingStays, NobodyIsNone DEF Held, Holding, Holds, Live
  <2>3. ~Live' /\ \A s \in Requests : Mails(s)'
    BY <1>1, <1>3, <2>1 DEF Held, Counting, Mails, Moves, Live
  <2>4. Counted' \subseteq Counted
    <3>1. DOMAIN mailbox'[r] = {}
      BY <2>1
    <3> QED BY <1>1, <2>1, <3>1 DEF Counted
  <2>5. IsFiniteSet(Counted') /\ ~NoneDropped'
    BY <1>3, <2>1, <2>4, FS_Subset DEF Held, Counting, NoneDropped
  <2>6. Counting'
    BY <2>3, <2>5 DEF Counting
  <2> QED BY <2>2, <2>6 DEF Held
<1> QED BY <1>2, <1>3

LEMMA AnswerHolds ==
    ASSUME IInv, Held, NEW r \in Requests, Answer(r)
    PROVE  Held'
<1> DEFINE there == {s \in attached : at[s] = at[r]}
<1>1. /\ UNCHANGED <<transport, core, at, corr, pc, attached, slot, asked, result>>
      /\ r \in asked
      /\ flight' = IF Live \/ \A s \in there : pc[s] = "dropped" THEN flight
                   ELSE flight + 1
  BY DEF Answer, IInv, TypeOK, ids, told
<1>2. PICK m \in Reply :
            mailbox' = [s \in Requests |->
                           IF s \in there THEN Append(mailbox[s], m) ELSE mailbox[s]]
  <2> DEFINE answers == {[of |-> r, id |-> corr[r], readable |-> TRUE],
                         [of |-> r, id |-> corr[r], readable |-> FALSE],
                         [of |-> r, id |-> 0, readable |-> TRUE]}
  <2>1. answers \subseteq Reply
    BY DEF IInv, TypeOK, Reply
  <2>2. \E m \in answers :
            mailbox' = [s \in Requests |->
                           IF s \in there THEN Append(mailbox[s], m) ELSE mailbox[s]]
    BY DEF Answer
  <2> HIDE DEF answers, there
  <2> QED BY <2>1, <2>2
<1>3. Holding'
  BY <1>1 DEF Held, Holding, Holds, Live
<1>4. CASE Live
  BY <1>1, <1>3, <1>4, CountingLive DEF Held
<1>5. CASE ~Live
  <2>1. /\ corr[r] # 0 /\ pc[r] \in {"wait", "detach", "done", "dropped"}
        /\ \A s \in Requests : at[s] = corr[s]
    BY <1>1, <1>5 DEF Held, Counting, Mails
  <2>2. there \subseteq {r} /\ attached \subseteq Requests
    BY <2>1 DEF IInv, TypeOK, IdsDiffer
  <2>3. r \in there => r \in attached /\ pc[r] \in {"wait", "detach", "dropped"}
    BY <1>5, <2>1 DEF Held, Holding, Holds
  <2>4. \A s \in Requests \ {r} : mailbox'[s] = mailbox[s]
    BY <1>2, <2>2
  <2>5. mailbox'[r] = IF r \in there THEN Append(mailbox[r], m) ELSE mailbox[r]
    BY <1>2
  <2> HIDE DEF there
  <2>6. ~Live' /\ \A s \in Requests : Mails(s)'
    BY <1>1, <1>5, <2>3, <2>4, <2>5 DEF Held, Counting, Mails, Live
  <2>7. IsFiniteSet(Counted) /\ Cardinality(Counted) \in Nat
    BY <1>5, FS_CardinalityType DEF Held, Counting
  <2>8. CASE r \notin there
    <3>1. Counted' = Counted /\ flight' = flight
      <4>1. \A s \in Requests : mailbox'[s] = mailbox[s]
        BY <2>4, <2>5, <2>8
      <4> QED BY <1>1, <2>2, <2>8, <4>1 DEF Counted
    <3>2. Counting'
      BY <1>1, <1>5, <2>6, <3>1 DEF Held, Counting, NoneDropped
    <3> QED BY <1>3, <3>2 DEF Held
  <2>9. CASE r \in there
    <3> DEFINE n == Len(mailbox[r])
    <3>1. n \in Nat /\ DOMAIN mailbox[r] = 1 .. n /\ DOMAIN mailbox'[r] = 1 .. (n + 1)
      <4>1. mailbox[r] \in Seq(Reply)
        BY DEF IInv, TypeOK
      <4>2. /\ Append(mailbox[r], m) \in Seq(Reply)
            /\ Len(Append(mailbox[r], m)) = n + 1
        BY <4>1, AppendProperties
      <4> QED BY <2>5, <2>9, <4>1, <4>2, LenProperties
    <3> HIDE DEF n
    <3>2. Counted' = Counted \cup {<<r, n + 1>>} /\ <<r, n + 1>> \notin Counted
      <4>1. <<r, n + 1>> \notin Counted
        BY <3>1 DEF Counted
      <4>2. ASSUME NEW p, p[1] = r PROVE p \in Counted' <=> p \in Counted \cup {<<r, n + 1>>}
        <5>1. \A i \in Nat : i \in 1 .. (n + 1) <=> i \in 1 .. n \/ i = n + 1
          BY <3>1
        <5> QED BY <1>1, <3>1, <4>2, <5>1 DEF Counted
      <4>3. ASSUME NEW p, p[1] # r PROVE p \in Counted' <=> p \in Counted \cup {<<r, n + 1>>}
        BY <1>1, <2>4, <4>3, CountedPlaces
      <4> QED BY <4>1, <4>2, <4>3
    <3>3. IsFiniteSet(Counted') /\ Cardinality(Counted') = Cardinality(Counted) + 1
      BY <2>7, <3>2, FS_AddElement
    <3>4. NoneDropped' => NoneDropped /\ flight' = flight + 1
      BY <1>1, <1>5, <2>9 DEF NoneDropped
    <3>5. Counting'
      BY <1>5, <2>6, <3>3, <3>4 DEF Held, Counting
    <3> QED BY <1>3, <3>5 DEF Held
  <2> QED BY <2>8, <2>9
<1> QED BY <1>4, <1>5

LEMMA ShutdownHolds ==
    ASSUME IInv, Held, Shutdown
    PROVE  Held'
<1>1. /\ UNCHANGED <<transport, at, corr, pc, mailbox, flight, slot, asked, result>>
      /\ attached' \subseteq attached /\ (core' = "ended" => attached' = {})
  BY DEF Shutdown, sent, told
<1>2. Holding'
  BY <1>1 DEF Held, Holding, Holds, Live
<1>3. Counting'
  BY <1>1 DEF Held, Counting, Mails, Counted, NoneDropped, Live
<1> QED BY <1>2, <1>3 DEF Held

LEMMA HeldBegins == Init => Held
<1> SUFFICES ASSUME Init PROVE Held
  OBVIOUS
<1>1. Holding
  BY RequestAssumption DEF Init, Holding, Holds
<1>2. \A r \in Requests : Mails(r)
  BY DEF Init, Mails
<1>3. Counted = {}
  <2>1. \A r \in Requests : DOMAIN mailbox[r] = {} /\ result[r] = "none"
    BY DEF Init
  <2> QED BY <2>1 DEF Counted
<1>4. Counting
  BY <1>2, <1>3, FS_EmptySet DEF Init, Counting
<1> QED BY <1>1, <1>4 DEF Held

LEMMA StepHolds == IInv /\ Held /\ [Next]_vars => Held'
<1> SUFFICES ASSUME IInv, Held, [Next]_vars PROVE Held'
  OBVIOUS
<1>1. CASE UNCHANGED vars
  <2>1. UNCHANGED <<transport, core, at, corr, pc, attached, mailbox, flight, slot, asked,
                    result>>
    BY <1>1 DEF vars, ids, wire, sent, told
  <2> QED BY <2>1 DEF Held, Holding, Holds, Counting, Mails, Counted, NoneDropped, Live
<1>2. CASE \E r \in Requests :
              Call(r) \/ AttachAnswered(r) \/ Unsent(r) \/ Send(r) \/ Sent(r) \/ Detach(r)
  BY <1>2, CallHolds, AttachAnsweredHolds, UnsentHolds, SendHolds, SentHolds, DetachHolds
<1>3. CASE \E r \in Requests : CallInProcess(r) \/ InProcessStep(r) \/ Release(r)
  BY <1>3, CallInProcessHolds, SubscribeHolds, RouteHolds, UnsubscribeHolds, ReleaseHolds
     DEF InProcessStep
<1>4. CASE \E r \in Requests :
              Receive(r) \/ Disconnected(r) \/ Expire(r) \/ Abandon(r) \/ Answer(r)
  BY <1>4, ReceiveHolds, DisconnectedHolds, ExpireHolds, AbandonHolds, AnswerHolds
<1>5. CASE Shutdown
  BY <1>5, ShutdownHolds
<1> QED BY <1>1, <1>2, <1>3, <1>4, <1>5 DEF Next

LEMMA HeldByTheLiving ==
    ASSUME IInv, Held
    PROVE  OverHoldsNothing
<1>1. ASSUME NEW r \in Requests, pc[r] \in Over
      PROVE  slot # r /\ (r \in attached => pc[r] = "dropped" /\ ~Live)
  BY <1>1 DEF Held, Holding, Holds, Over
<1>2. ASSUME \A r \in Requests : pc[r] \in {"idle", "done"}, ~Live
      PROVE  flight = Cardinality({r \in Requests : result[r] = "reply"})
  <2> DEFINE having == {r \in Requests : result[r] = "reply"}
             whose == [p \in Counted |-> p[1]]
  <2>1. \A r \in Requests : DOMAIN mailbox[r] = {}
    BY <1>2 DEF Held, Counting, Mails
  <2>2. Counted = {<<r, 0>> : r \in having}
    BY <2>1 DEF Counted
  <2>3. whose \in Bijection(Counted, having)
    <3>1. /\ \A p \in Counted : p[1] \in having /\ p = <<p[1], 0>>
          /\ \A s \in having : <<s, 0>> \in Counted /\ <<s, 0>>[1] = s
      BY <2>2
    <3> HIDE DEF having
    <3>2. whose \in [Counted -> having]
      BY <3>1
    <3>3. \A p, q \in Counted : whose[p] = whose[q] => p = q
      BY <3>1
    <3>4. \A s \in having : \E p \in Counted : whose[p] = s
      BY <3>1
    <3> QED BY <3>2, <3>3, <3>4 DEF Bijection, Injection, Surjection, IsInjective
  <2>4. ExistsBijection(Counted, having)
    BY <2>3 DEF ExistsBijection
  <2>5. IsFiniteSet(Counted) /\ flight = Cardinality(Counted)
    BY <1>2 DEF Held, Counting, NoneDropped
  <2> HIDE DEF having
  <2>6. Cardinality(having) = Cardinality(Counted)
    BY <2>4, <2>5, FS_Bijection
  <2> QED BY <2>5, <2>6 DEF having
<1>3. Live => flight = 0
  BY DEF Held, Counting
<1> QED BY <1>1, <1>2, <1>3 DEF OverHoldsNothing

\* A request that is over has let go of the sender link and its reply address,
\* and what it counted in flight is let go of with the reply its caller has.
THEOREM RequestsLetGo == Spec => []OverHoldsNothing
<1>1. IInv /\ Held => OverHoldsNothing
  BY HeldByTheLiving
<1> QED BY <1>1, HeldBegins, StepHolds, Invariance, PTL DEF Spec

-----------------------------------------------------------------------------
(* Messages: what this crate writes is a message AMQP can carry, headers    *)
(* survive the wire, and a reply carries its request's id.                  *)


IsHeaders(h) == h \in [DOMAIN h -> Bytes] /\ DOMAIN h \subseteq HeaderNames
Answering == stage \in {"replied", "answered"}
Wrote ==
    \/ stage \in {"published", "replied", "answered"}
    \/ stage = "delivered" /\ headers # None

HeadersTyped == IsHeaders(headers)
ForeignHasNone == stage \in {"idle", "sent"} => headers = None
WireIsBuilt == Wrote => onWire = Build(headers, option)
ReadIsWire == stage \in {"delivered", "answered"} => read = Read(onWire)
RequestTyped == Answering => IsMessage(request)
IdIsTaken == Answering => option = Correlation(Read(request))

\* The message on its way was built from the headers and the id of the last
\* publish, or came from a peer; what was read is the message on its way; and the
\* id of a reply is the one its request reads as.
MessagesInv ==
    /\ MessagesTypeOK
    /\ HeadersTyped
    /\ ForeignHasNone
    /\ WireIsBuilt
    /\ ReadIsWire
    /\ RequestTyped
    /\ IdIsTaken

-----------------------------------------------------------------------------
(* Ids and messages.                                                       *)

\* An id shows as a byte string, and no id is NoId.
LEMMA IdParts ==
    ASSUME NEW id \in Id
    PROVE  /\ id.type \in {"string", "binary", "uuid", "ulong"}
           /\ id.bytes \in Bytes
           /\ id.type = "string" => id.bytes \in Utf8
           /\ id = [type |-> id.type, bytes |-> id.bytes]
           /\ id # NoId
  BY MessagesAssumption DEF Id, NoId

\* A header value becomes an id that shows as that value.
LEMMA MessageIdShows ==
    ASSUME NEW b \in Bytes
    PROVE  MessageId(b) \in Id /\ MessageId(b).bytes = b
  BY DEF MessageId, Id

LEMMA NamesDiffer ==
    /\ Ids \subseteq WellKnown
    /\ "correlation-id" \in Ids
    /\ "message-id" \in Ids
  BY DEF Ids, WellKnown

\* What a typed id sets is one property that holds ids, or none.
LEMMA TypedIsId ==
    ASSUME NEW h, NEW id \in Id \cup {NoId}
    PROVE  /\ TypedWins(h, id) \subseteq {"correlation-id"}
           /\ TypedWins(h, id) # {} => id \in Id
           /\ id \in Id => TypedWins(h, id) = {"correlation-id"}
           /\ TypedWins(h, NoId) = {}
  BY IdParts DEF TypedWins

\* The properties of a built message, name by name.
LEMMA BuiltProperties ==
    ASSUME NEW h, NEW id
    PROVE  /\ DOMAIN Build(h, id).properties
                = (DOMAIN h \cap WellKnown) \cup TypedWins(h, id)
           /\ \A n \in DOMAIN Build(h, id).properties :
                Build(h, id).properties[n] =
                  IF n \in TypedWins(h, id) THEN id
                  ELSE IF n \in Ids THEN MessageId(h[n]) ELSE h[n]
           /\ DOMAIN Build(h, id).application = DOMAIN h \ WellKnown
           /\ \A n \in DOMAIN h \ WellKnown : Build(h, id).application[n] = h[n]
           /\ Build(h, id).body = "data"
  BY DEF Build

\* Headers that no property refuses become a message AMQP can carry.
LEMMA BuiltIsMessage ==
    ASSUME NEW h, IsHeaders(h), ~Refused(h), NEW id \in Id \cup {NoId}
    PROVE  IsMessage(Build(h, id))
<1> DEFINE m == Build(h, id)
           t == TypedWins(h, id)
<1>1. /\ DOMAIN m.properties = (DOMAIN h \cap WellKnown) \cup t
      /\ \A n \in DOMAIN m.properties :
            m.properties[n] = IF n \in t THEN id
                              ELSE IF n \in Ids THEN MessageId(h[n]) ELSE h[n]
      /\ DOMAIN m.application = DOMAIN h \ WellKnown
      /\ \A n \in DOMAIN h \ WellKnown : m.application[n] = h[n]
      /\ m.body = "data"
  BY BuiltProperties
<1>2. t \subseteq {"correlation-id"} /\ (t # {} => id \in Id)
  BY TypedIsId
<1> HIDE DEF m, t
<1>3. \A n \in DOMAIN h : h[n] \in Bytes
  BY DEF IsHeaders
<1>4. ASSUME NEW n \in DOMAIN m.properties  PROVE m.properties[n] \in ValuesOf(n)
  <2>1. CASE n \in t
    BY <2>1, <1>1, <1>2, NamesDiffer DEF ValuesOf
  <2>2. CASE n \notin t /\ n \in Ids
    <3>1. h[n] \in Bytes /\ m.properties[n] = MessageId(h[n])
      BY <2>2, <1>1, <1>3
    <3>2. ValuesOf(n) = Id
      BY <2>2 DEF ValuesOf, Ids
    <3> QED BY <3>1, <3>2, MessageIdShows
  <2>3. CASE n \notin t /\ n \notin Ids
    BY <2>3, <1>1 DEF ValuesOf, Refused, WellKnown
  <2> QED BY <2>1, <2>2, <2>3
<1>5. DOMAIN m.properties \subseteq WellKnown
  BY <1>1, <1>2, NamesDiffer
<1>6. /\ DOMAIN m.application \subseteq HeaderNames
      /\ \A n \in DOMAIN m.application : m.application[n] \in Bytes
  BY <1>1, <1>3 DEF IsHeaders
<1> QED BY <1>1, <1>4, <1>5, <1>6 DEF IsMessage, m

\* What comes off the wire is what was put on it, but for a typed id.
LEMMA ReadBack ==
    ASSUME NEW h, IsHeaders(h), NEW id \in Id \cup {NoId}
    PROVE  HeadersOf(Build(h, id)) =
             [n \in DOMAIN h \cup TypedWins(h, id) |->
                IF n \in TypedWins(h, id) THEN id.bytes ELSE h[n]]
<1> DEFINE m == Build(h, id)
           t == TypedWins(h, id)
<1>1. /\ DOMAIN m.properties = (DOMAIN h \cap WellKnown) \cup t
      /\ \A n \in DOMAIN m.properties :
            m.properties[n] = IF n \in t THEN id
                              ELSE IF n \in Ids THEN MessageId(h[n]) ELSE h[n]
      /\ DOMAIN m.application = DOMAIN h \ WellKnown
      /\ \A n \in DOMAIN h \ WellKnown : m.application[n] = h[n]
  BY BuiltProperties
<1>2. t \subseteq {"correlation-id"}
  BY TypedIsId
<1> HIDE DEF m, t
<1>3. DOMAIN m.properties \cup DOMAIN m.application = DOMAIN h \cup t
  BY <1>1, <1>2, NamesDiffer
<1>4. ASSUME NEW n \in DOMAIN h \cup t
      PROVE  (IF n \in DOMAIN m.application THEN m.application[n]
              ELSE Shown(n, m.properties[n])) = IF n \in t THEN id.bytes ELSE h[n]
  <2>1. CASE n \in t
    BY <2>1, <1>1, <1>2, NamesDiffer DEF Shown
  <2>2. CASE n \notin t /\ n \in WellKnown
    <3>1. n \in DOMAIN m.properties /\ n \notin DOMAIN m.application
      BY <2>2, <1>1, <1>2
    <3>2. h[n] \in Bytes
      BY <2>2 DEF IsHeaders
    <3> QED BY <2>2, <3>1, <3>2, <1>1, MessageIdShows DEF Shown
  <2>3. CASE n \notin t /\ n \notin WellKnown
    BY <2>3, <1>1
  <2> QED BY <2>1, <2>2, <2>3
<1>5. HeadersOf(m) = [n \in DOMAIN h \cup t |->
                        IF n \in DOMAIN m.application THEN m.application[n]
                        ELSE Shown(n, m.properties[n])]
  BY <1>3 DEF HeadersOf
<1>6. HeadersOf(m) = [n \in DOMAIN h \cup t |-> IF n \in t THEN id.bytes ELSE h[n]]
  BY <1>4, <1>5
<1> QED BY <1>6 DEF m, t

-----------------------------------------------------------------------------
(* The id a reply correlates to.                                           *)

\* The id of a message is what its property holds, and there is one exactly when
\* one of the two properties is there.
LEMMA IdOfTyped ==
    ASSUME NEW m, IsMessage(m)
    PROVE  /\ IdOf(m) \in Id \cup {NoId}
           /\ ReplyTo(m.properties) \in DOMAIN m.properties
                => /\ IdOf(m) = m.properties[ReplyTo(m.properties)]
                   /\ IdOf(m) \in Id
           /\ ReplyTo(m.properties) \notin DOMAIN m.properties => IdOf(m) = NoId
<1> DEFINE n == ReplyTo(m.properties)
<1>1. n \in Ids
  BY NamesDiffer DEF ReplyTo
<1>2. IdOf(m) = IF n \in DOMAIN m.properties THEN m.properties[n] ELSE NoId
  BY DEF IdOf, ReplyTo
<1> HIDE DEF n
<1>3. n \in DOMAIN m.properties => m.properties[n] \in ValuesOf(n)
  BY DEF IsMessage
<1>4. ValuesOf(n) = Id
  BY <1>1 DEF ValuesOf, Ids
<1> QED BY <1>2, <1>3, <1>4 DEF n

\* What a message reads as under the name its reply id points to, which is an id
\* of its own or an application property that hides it.
LEMMA ReadHeader ==
    ASSUME NEW m, IsMessage(m), NEW n \in DOMAIN m.properties \cap Ids
    PROVE  /\ HeadersOf(m)[n] \in Bytes
           /\ n \notin DOMAIN m.application => HeadersOf(m)[n] = m.properties[n].bytes
<1>1. m.properties[n] \in Id
  BY DEF IsMessage, ValuesOf, Ids
<1>2. HeadersOf(m)[n] = IF n \in DOMAIN m.application THEN m.application[n]
                        ELSE m.properties[n].bytes
  BY DEF HeadersOf, Shown
<1>3. n \in DOMAIN m.application => m.application[n] \in Bytes
  BY DEF IsMessage
<1> QED BY <1>1, <1>2, <1>3, IdParts

\* The context of a handler has an id AMQP can carry, also when the requester hid
\* its id; unless hidden, it is the id of the message, in its type.
LEMMA CorrelationIsId ==
    ASSUME NEW m, IsMessage(m)
    PROVE  /\ Correlation(Read(m)) \in Id \cup {NoId}
           /\ ~Hidden(m) => Correlation(Read(m)) = IdOf(m)
<1> DEFINE n == ReplyTo(m.properties)
           id == m.properties[n]
           r == Read(m)
<1>1. r.headers = HeadersOf(m) /\ r.replyId = ReplyId(m.properties)
  BY DEF Read
<1>2. CASE n \notin DOMAIN m.properties
  <2>1. r.replyId = NoId
    BY <1>1, <1>2 DEF ReplyId
  <2>2. Correlation(r) = NoId
    BY <2>1 DEF Correlation, NoId
  <2> QED BY <1>2, <2>2, IdOfTyped
<1>3. CASE n \in DOMAIN m.properties
  <2>1. /\ IdOf(m) = id
        /\ id \in Id
    BY <1>3, IdOfTyped
  <2>2. n \in DOMAIN m.properties \cap Ids
    BY <1>3, NamesDiffer DEF ReplyTo
  <2>3. r.replyId = IF id.type \in {"string", "binary"}
                    THEN [type |-> id.type, header |-> n] ELSE id
    BY <1>1, <1>3 DEF ReplyId
  <2> DEFINE b == r.headers[n]
  <2>4. /\ b \in Bytes
        /\ n \notin DOMAIN m.application => b = id.bytes
    BY <1>1, <2>2, ReadHeader
  <2>5. /\ id.type \in {"string", "binary", "uuid", "ulong"}
        /\ id.type = "string" => id.bytes \in Utf8
        /\ id = [type |-> id.type, bytes |-> id.bytes]
    BY <2>1, IdParts
  <2>6. ~Hidden(m) /\ id.type \in {"string", "binary"} => b = id.bytes
    BY <1>3, <2>1, <2>4 DEF Hidden, ReplyTo
  <2> HIDE DEF n, id, r, b
  <2>7. CASE id.type = "string"
    <3>1. Correlation(r) = TextId(b)
      BY <2>3, <2>7 DEF Correlation, b
    <3>2. TextId(b) \in Id \cup {NoId}
      BY DEF TextId, Id
    <3>3. b \in Utf8 => TextId(b) = [type |-> "string", bytes |-> b]
      BY DEF TextId
    <3>4. ~Hidden(m) => TextId(b) = id
      BY <2>5, <2>6, <2>7, <3>3
    <3> QED BY <2>1, <3>1, <3>2, <3>4 DEF r
  <2>8. CASE id.type = "binary"
    <3>1. Correlation(r) = [type |-> "binary", bytes |-> b]
      BY <2>3, <2>8 DEF Correlation, b
    <3>2. [type |-> "binary", bytes |-> b] \in Id
      BY <2>4 DEF Id
    <3>3. ~Hidden(m) => Correlation(r) = id
      BY <2>5, <2>6, <2>8, <3>1
    <3> QED BY <2>1, <3>1, <3>2, <3>3 DEF r
  <2>9. CASE id.type \in {"uuid", "ulong"}
    <3>1. Correlation(r) = id
      BY <2>3, <2>9 DEF Correlation
    <3> QED BY <2>1, <3>1 DEF r
  <2> QED BY <2>5, <2>7, <2>8, <2>9
<1> QED BY <1>2, <1>3

\* A typed id is the one the message carries.
LEMMA TypedIsCarried ==
    ASSUME NEW h, NEW id \in Id
    PROVE  IdOf(Build(h, id)) = id
<1>1. TypedWins(h, id) = {"correlation-id"}
  BY TypedIsId
<1>2. /\ "correlation-id" \in DOMAIN Build(h, id).properties
      /\ Build(h, id).properties["correlation-id"] = id
  BY <1>1, BuiltProperties
<1> QED BY <1>2 DEF IdOf

-----------------------------------------------------------------------------
(* The invariant holds initially and every step keeps it.                  *)

\* The message of no publish is one AMQP can carry, and no header map is empty of
\* header names.
LEMMA EmptyMessage == IsMessage(NoMessage) /\ IsHeaders(None)
  BY DEF IsMessage, NoMessage, None, IsHeaders

LEMMA MessagesInitially == MessagesInit => MessagesInv
<1> SUFFICES ASSUME MessagesInit PROVE MessagesInv
  OBVIOUS
<1>1. MessagesTypeOK
  BY EmptyMessage DEF MessagesInit, MessagesTypeOK
<1>2. HeadersTyped
  BY EmptyMessage DEF MessagesInit, HeadersTyped
<1>3. ForeignHasNone /\ WireIsBuilt /\ ReadIsWire /\ RequestTyped /\ IdIsTaken
  BY DEF MessagesInit, ForeignHasNone, WireIsBuilt, ReadIsWire, RequestTyped, IdIsTaken, Wrote,
         Answering
<1> QED BY <1>1, <1>2, <1>3 DEF MessagesInv

\* A publish of a header map with an id: refused, or on the wire.
LEMMA WriteKeeps ==
    ASSUME MessagesInv, NEW h, IsHeaders(h), NEW id \in Id \cup {NoId},
           NEW becomes \in {"published", "replied"}, Write(h, id, becomes)
    PROVE  MessagesTypeOK' /\ HeadersTyped' /\ ForeignHasNone' /\ WireIsBuilt' /\ ReadIsWire'
<1>1. headers' = h /\ option' = id /\ read' = read
  BY DEF Write
<1>2. CASE Refused(h)
  <2>1. stage' = "refused" /\ onWire' = onWire
    BY <1>2 DEF Write
  <2>2. MessagesTypeOK'
    BY <1>1, <2>1 DEF MessagesInv, MessagesTypeOK
  <2> QED BY <1>1, <2>1, <2>2
          DEF HeadersTyped, ForeignHasNone, WireIsBuilt, ReadIsWire, Wrote
<1>3. CASE ~Refused(h)
  <2>1. stage' = becomes /\ onWire' = Build(h, id)
    BY <1>3 DEF Write
  <2>2. IsMessage(onWire')
    BY <1>3, <2>1, BuiltIsMessage
  <2>3. MessagesTypeOK'
    BY <1>1, <2>1, <2>2 DEF MessagesTypeOK
  <2>4. ForeignHasNone' /\ ReadIsWire'
    BY <2>1 DEF ForeignHasNone, ReadIsWire
  <2>5. HeadersTyped' /\ WireIsBuilt'
    BY <1>1, <2>1 DEF HeadersTyped, WireIsBuilt
  <2> QED BY <2>3, <2>4, <2>5
<1> QED BY <1>2, <1>3

LEMMA PublishKeeps ==
    ASSUME MessagesInv, NEW h \in Headers, NEW id \in Options \cup {NoId}, Publish(h, id)
    PROVE  MessagesInv'
<1>1. IsHeaders(h) /\ id \in Id \cup {NoId}
  BY MessagesAssumption DEF IsHeaders
<1>2. Write(h, id, "published")
  BY DEF Publish
<1>3. MessagesTypeOK' /\ HeadersTyped' /\ ForeignHasNone' /\ WireIsBuilt' /\ ReadIsWire'
  BY <1>1, <1>2, WriteKeeps
<1>4. stage' \in {"refused", "published"}
  BY <1>2 DEF Write
<1>5. RequestTyped' /\ IdIsTaken'
  BY <1>4 DEF RequestTyped, IdIsTaken, Answering
<1> QED BY <1>3, <1>5 DEF MessagesInv

LEMMA ForeignSendKeeps ==
    ASSUME MessagesInv, NEW m \in Foreign, ForeignSend(m)
    PROVE  MessagesInv'
<1>1. IsMessage(m)
  BY MessagesAssumption
<1>2. /\ stage = "idle" /\ stage' = "sent" /\ onWire' = m
      /\ headers' = headers /\ option' = option
  BY DEF ForeignSend
<1>3. MessagesTypeOK'
  BY <1>1, <1>2 DEF MessagesInv, MessagesTypeOK
<1>4. HeadersTyped' /\ ForeignHasNone'
  BY <1>2 DEF MessagesInv, HeadersTyped, ForeignHasNone
<1>5. WireIsBuilt' /\ ReadIsWire' /\ RequestTyped' /\ IdIsTaken'
  BY <1>2 DEF WireIsBuilt, ReadIsWire, RequestTyped, IdIsTaken, Wrote, Answering
<1> QED BY <1>3, <1>4, <1>5 DEF MessagesInv

LEMMA DeliverKeeps ==
    ASSUME MessagesInv, Deliver
    PROVE  MessagesInv'
<1>1. /\ stage \in {"published", "sent"}
      /\ headers' = headers /\ option' = option /\ onWire' = onWire
      /\ \/ stage' = "delivered" /\ read' = Read(onWire)
         \/ stage' = "unsupported"
  BY DEF Deliver
<1>2. MessagesTypeOK'
  BY <1>1 DEF MessagesInv, MessagesTypeOK
<1>3. HeadersTyped'
  BY <1>1 DEF MessagesInv, HeadersTyped
<1>4. ForeignHasNone' /\ RequestTyped' /\ IdIsTaken'
  BY <1>1 DEF ForeignHasNone, RequestTyped, IdIsTaken, Answering
<1>5. ReadIsWire'
  BY <1>1 DEF ReadIsWire
<1>6. WireIsBuilt'
  BY <1>1 DEF MessagesInv, WireIsBuilt, ForeignHasNone, Wrote
<1> QED BY <1>2, <1>3, <1>4, <1>5, <1>6 DEF MessagesInv

LEMMA RespondKeeps ==
    ASSUME MessagesInv, NEW h \in Answers, Respond(h)
    PROVE  MessagesInv'
<1>1. /\ stage = "delivered" /\ request' = onWire
      /\ Write(h, Correlation(read), "replied")
  BY DEF Respond
<1>2. read = Read(onWire) /\ IsMessage(onWire)
  BY <1>1 DEF MessagesInv, ReadIsWire, MessagesTypeOK
<1>3. Correlation(read) \in Id \cup {NoId}
  BY <1>2, CorrelationIsId
<1>4. IsHeaders(h)
  BY MessagesAssumption DEF IsHeaders
<1>5. MessagesTypeOK' /\ HeadersTyped' /\ ForeignHasNone' /\ WireIsBuilt' /\ ReadIsWire'
  BY <1>1, <1>3, <1>4, WriteKeeps
<1>6. RequestTyped'
  BY <1>1, <1>2 DEF RequestTyped
<1>7. option' = Correlation(Read(request'))
  BY <1>1, <1>2 DEF Write
<1> QED BY <1>5, <1>6, <1>7 DEF MessagesInv, IdIsTaken

LEMMA ReadReplyKeeps ==
    ASSUME MessagesInv, ReadReply
    PROVE  MessagesInv'
<1>1. /\ stage = "replied" /\ stage' = "answered" /\ read' = Read(onWire)
      /\ headers' = headers /\ option' = option /\ onWire' = onWire /\ request' = request
  BY DEF ReadReply
<1>2. MessagesTypeOK' /\ HeadersTyped'
  BY <1>1 DEF MessagesInv, MessagesTypeOK, HeadersTyped
<1>3. ForeignHasNone' /\ ReadIsWire'
  BY <1>1 DEF ForeignHasNone, ReadIsWire
<1>4. WireIsBuilt'
  BY <1>1 DEF MessagesInv, WireIsBuilt, Wrote
<1>5. RequestTyped' /\ IdIsTaken'
  BY <1>1 DEF MessagesInv, RequestTyped, IdIsTaken, Answering
<1> QED BY <1>2, <1>3, <1>4, <1>5 DEF MessagesInv

LEMMA MessagesStepKeeps == MessagesInv /\ [MessagesNext]_messageVars => MessagesInv'
<1> SUFFICES ASSUME MessagesInv, [MessagesNext]_messageVars PROVE MessagesInv'
  OBVIOUS
<1>1. CASE \E h \in Headers, id \in Options \cup {NoId} : Publish(h, id)
  BY <1>1, PublishKeeps
<1>2. CASE \E m \in Foreign : ForeignSend(m)
  BY <1>2, ForeignSendKeeps
<1>3. CASE Deliver
  BY <1>3, DeliverKeeps
<1>4. CASE \E h \in Answers : Respond(h)
  BY <1>4, RespondKeeps
<1>5. CASE ReadReply
  BY <1>5, ReadReplyKeeps
<1>6. CASE UNCHANGED messageVars
  BY <1>6 DEF messageVars, MessagesInv, MessagesTypeOK, HeadersTyped, ForeignHasNone,
              WireIsBuilt, ReadIsWire,
              RequestTyped, IdIsTaken, Wrote, Answering
<1> QED BY <1>1, <1>2, <1>3, <1>4, <1>5, <1>6 DEF MessagesNext

\* The invariant of messages holds in every behaviour: a message on its way is the
\* one build_message made of the last publish, or a peer's.
THEOREM MessagesInvariance == MessagesSpec => []MessagesInv
<1>1. MessagesInit => MessagesInv
  BY MessagesInitially
<1>2. MessagesInv /\ [MessagesNext]_messageVars => MessagesInv'
  BY MessagesStepKeeps
<1> QED BY <1>1, <1>2, PTL DEF MessagesSpec

-----------------------------------------------------------------------------
(* The properties.                                                         *)

\* What goes on the wire is a message AMQP can carry, whatever the headers, the
\* typed id, and the id a reply took from what it read (message.rs:280-338).
THEOREM MessagesTypeCorrect == MessagesSpec => []MessagesTypeOK
<1>1. MessagesInv => MessagesTypeOK
  BY DEF MessagesInv
<1> QED BY <1>1, MessagesInvariance, PTL

LEMMA SurviveByInv == MessagesInv => HeadersSurvive
<1> SUFFICES ASSUME MessagesInv, (stage = "delivered" /\ headers # None) \/ stage = "answered"
             PROVE  read.headers = [n \in DOMAIN headers \cup TypedNames |->
                                      IF n \in TypedNames THEN option.bytes ELSE headers[n]]
  BY DEF HeadersSurvive
<1>1. onWire = Build(headers, option) /\ read = Read(onWire)
  BY DEF MessagesInv, WireIsBuilt, Wrote, ReadIsWire
<1>2. TypedWins(headers, option) = TypedNames
  BY DEF TypedWins, TypedNames
<1>3. IsHeaders(headers) /\ option \in Id \cup {NoId}
  BY DEF MessagesInv, HeadersTyped, MessagesTypeOK
<1>4. read.headers = HeadersOf(Build(headers, option))
  BY <1>1 DEF Read
<1>5. HeadersOf(Build(headers, option)) =
        [n \in DOMAIN headers \cup TypedWins(headers, option) |->
           IF n \in TypedWins(headers, option) THEN option.bytes ELSE headers[n]]
  BY <1>3, ReadBack
<1> QED BY <1>2, <1>4, <1>5

\* Every header of a publish or a reply arrives as it was written, in whichever
\* section it travelled, but for the correlation-id a typed id replaced.
THEOREM HeadersDoSurvive == MessagesSpec => []HeadersSurvive
  BY SurviveByInv, MessagesInvariance, PTL

LEMMA CorrelatesByInv == MessagesInv => ReplyCorrelates
<1> SUFFICES ASSUME MessagesInv, Answering, ~Hidden(request)
             PROVE  /\ IdOf(request) # NoId => IdOf(onWire) = IdOf(request)
                    /\ IdOf(request) = NoId => onWire = Build(headers, NoId)
  BY DEF ReplyCorrelates, Answering
<1>1. onWire = Build(headers, option)
  BY DEF MessagesInv, WireIsBuilt, Wrote, Answering
<1>2. IsMessage(request) /\ option = Correlation(Read(request))
  BY DEF MessagesInv, RequestTyped, IdIsTaken
<1>3. option = IdOf(request)
  BY <1>2, CorrelationIsId
<1>4. IdOf(request) \in Id \cup {NoId}
  BY <1>2, IdOfTyped
<1>5. IdOf(request) # NoId => IdOf(onWire) = IdOf(request)
  BY <1>1, <1>3, <1>4, TypedIsCarried
<1> QED BY <1>1, <1>3, <1>5

\* A reply made with Correlate carries the id of its request in the type the
\* requester wrote it, for any request that does not hide its own id.
THEOREM RepliesCorrelate == MessagesSpec => []ReplyCorrelates
  BY CorrelatesByInv, MessagesInvariance, PTL

=============================================================================
