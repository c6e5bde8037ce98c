----------------------------- MODULE PumpProofs -----------------------------
(***************************************************************************)
(* Proofs about Pump, for any deliveries, credit and number of workers.    *)
(***************************************************************************)
EXTENDS Pump, SequenceTheorems, TLAPS

-----------------------------------------------------------------------------
(* Where deliveries and their handles are. *)

\* While a delivery waits for room in the channel the pump holds its handle, and
\* no other.
Pending == pc \in {"pending", "permit"} \/ (pc = "applying" /\ back = "pending")

PumpHoldsPending ==
    /\ Pending => item \in Good /\ handle[item] = "pump"
    /\ \A d \in Deliveries : handle[d] = "pump" => Pending /\ item = d

\* What the pump holds elsewhere has no handle.
OtherItems ==
    /\ pc \in {"loop", "failing"} \/ (pc = "applying" /\ back = "loop") => item = Nobody
    /\ pc \in {"rejecting", "delivering"} => item \notin Good

\* What the peer has not transferred has no handle yet.
UnsentIsFresh == \A d \in unsent \cap Good : handle[d] = "none"

\* The readable deliveries in the channel are there once, their handles with them.
ChannelHolds ==
    /\ \A i \in DOMAIN out : out[i] \in Good => handle[out[i]] = "channel"
    /\ \A i, j \in DOMAIN out : out[i] = out[j] /\ out[i] \in Good => i = j

-----------------------------------------------------------------------------
(* What settlements were asked, given and told. *)

\* The deliveries whose command was sent and not applied.
Asked ==
    {commands[i] : i \in DOMAIN commands} \cup (IF pc = "applying" THEN {inHand} ELSE {})

\* Each has one command, from a settlement that waits or was dropped.
AskedOnce ==
    /\ pc = "applying" => inHand \in Deliveries
    /\ \A i, j \in DOMAIN commands : commands[i] = commands[j] => i = j
    /\ pc = "applying" => \A i \in DOMAIN commands : commands[i] # inHand
    /\ \A d \in Asked :
          /\ handle[d] \in {"settling", "gone"}
          /\ d \notin applied
          /\ answer[d] = Nobody
          /\ result[d] \in {Nobody, Abandoned}

\* A delivery nobody settled yet is not applied, and its settlement told nothing.
Unsettled == {"none", "pump", "channel", "handler"}
UnsettledIsUntold ==
    \A d \in Deliveries :
        /\ handle[d] \in Unsettled => d \notin applied /\ answer[d] = Nobody
        /\ handle[d] \in Unsettled \cup {"settling"} => result[d] = Nobody

\* A slot holds the truth about its own delivery.
AnswersAreTrue ==
    \A d \in Deliveries :
        /\ answer[d] \in {Nobody, d, Stopped}
        /\ answer[d] = d => d \in applied
        /\ answer[d] = Stopped => pc = "ended" /\ d \notin applied

\* At most once there is nothing to settle with.
SettledOnReceipt == atMostOnce => commands = <<>>

Handing == PumpHoldsPending /\ OtherItems /\ UnsentIsFresh /\ ChannelHolds
Telling == AskedOnce /\ UnsettledIsUntold /\ AnswersAreTrue /\ SettledOnReceipt

IInv ==
    /\ TypeOK
    /\ Handing
    /\ Telling
    /\ DetachedAfterLastHandle

-----------------------------------------------------------------------------
(* What the parts of a step leave typed. *)

States == MainLoop \cup {"applying", "leaving", "drain"} \cup Teardown

LEMMA RegrantTyped ==
    ASSUME TypeOK, NEW left \in 0 .. Credit, Regrant(left)
    PROVE  credit' \in 0 .. Credit /\ processed' \in 0 .. Credit
BY PumpAssumption DEF TypeOK, Regrant

LEMMA MoveTyped ==
    ASSUME TypeOK, NEW d \in Deliveries, NEW place \in Places, Move(d, place)
    PROVE  /\ handle' \in [Deliveries -> Places]
           /\ handle'[d] = place
           /\ \A e \in Deliveries \ {d} : handle'[e] = handle[e]
BY DEF TypeOK, Move

LEMMA TakenApart ==
    ASSUME NEW S, NEW s \in Seq(S), s # <<>>
    PROVE  /\ Head(s) \in S /\ Tail(s) \in Seq(S)
           /\ 1 \in DOMAIN s /\ Head(s) = s[1]
           /\ \A i \in DOMAIN Tail(s) : i + 1 \in DOMAIN s /\ Tail(s)[i] = s[i + 1]
           /\ \A i \in DOMAIN s : i = 1 \/ (i - 1 \in DOMAIN Tail(s))
<1>1. /\ Head(s) \in S /\ Tail(s) \in Seq(S)
      /\ Head(s) = s[1]
      /\ Len(Tail(s)) = Len(s) - 1
      /\ \A i \in 1 .. Len(Tail(s)) : Tail(s)[i] = s[i + 1]
  BY HeadTailProperties
<1>2. Len(s) \in Nat /\ Len(s) # 0 /\ DOMAIN s = 1 .. Len(s)
  BY EmptySeq, LenProperties
<1>3. DOMAIN Tail(s) = 1 .. Len(Tail(s))
  BY <1>1, LenProperties
<1> QED BY <1>1, <1>2, <1>3

LEMMA Appended ==
    ASSUME NEW S, NEW s \in Seq(S), NEW e \in S
    PROVE  /\ Append(s, e) \in Seq(S)
           /\ \A i \in DOMAIN Append(s, e) :
                 \/ i \in DOMAIN s /\ Append(s, e)[i] = s[i]
                 \/ i = Len(s) + 1 /\ Append(s, e)[i] = e
           /\ \A i \in DOMAIN s : i \in DOMAIN Append(s, e) /\ Append(s, e)[i] = s[i]
           /\ Len(s) + 1 \in DOMAIN Append(s, e) /\ Append(s, e)[Len(s) + 1] = e
<1>1. Len(s) \in Nat /\ DOMAIN s = 1 .. Len(s)
  BY LenProperties
<1>2. /\ Append(s, e) \in Seq(S)
      /\ Len(Append(s, e)) = Len(s) + 1
      /\ \A i \in 1 .. Len(s) : Append(s, e)[i] = s[i]
      /\ Append(s, e)[Len(s) + 1] = e
  BY AppendProperties
<1>3. DOMAIN Append(s, e) = 1 .. (Len(s) + 1)
  BY <1>2, LenProperties
<1> QED BY <1>1, <1>2, <1>3

-----------------------------------------------------------------------------
(* What keeps each part of the invariant. *)

\* Handles move on with their handlers only.
LEMMA HandingStays ==
    ASSUME Handing, UNCHANGED <<pc, back, item, unsent, out>>,
           \A d \in Deliveries :
              handle'[d] = handle[d]
              \/ (handle[d] \in {"handler", "settling"} /\ handle'[d] \in {"settling", "gone"}),
           TypeOK
    PROVE  Handing'
<1>1. \A i \in DOMAIN out : out[i] \in Good => out[i] \in Deliveries
  BY DEF Good
<1>2. PumpHoldsPending' /\ OtherItems' /\ UnsentIsFresh'
  BY DEF Handing, PumpHoldsPending, Pending, OtherItems, UnsentIsFresh, Good
<1>3. ChannelHolds'
  BY <1>1 DEF Handing, ChannelHolds
<1> QED BY <1>2, <1>3 DEF Handing

\* The pump goes from one place to another with nothing pending.
LEMMA HandingMoves ==
    ASSUME Handing, UNCHANGED <<item, unsent, out, handle>>, ~Pending, ~Pending',
           OtherItems'
    PROVE  Handing'
BY DEF Handing, PumpHoldsPending, UnsentIsFresh, ChannelHolds

\* No handle begins or ends a settlement.
LEMMA TellingStays ==
    ASSUME Telling, UNCHANGED <<atMostOnce, commands, inHand, answer, result, applied>>,
           pc' = "applying" <=> pc = "applying", pc' = "ended" <=> pc = "ended",
           \A d \in Deliveries :
              handle'[d] = handle[d]
              \/ (handle[d] \in Unsettled /\ handle'[d] \in Unsettled \cup {"gone"}),
           TypeOK
    PROVE  Telling'
<1>1. Asked' = Asked /\ Asked \subseteq Deliveries
  BY DEF Asked, TypeOK, Telling, AskedOnce
<1>2. AskedOnce'
  BY <1>1 DEF Telling, AskedOnce, Unsettled
<1>3. UnsettledIsUntold'
  BY DEF Telling, UnsettledIsUntold, Unsettled
<1>4. AnswersAreTrue' /\ SettledOnReceipt'
  BY DEF Telling, AnswersAreTrue, SettledOnReceipt
<1> QED BY <1>2, <1>3, <1>4 DEF Telling

\* The teardown has not begun, or nobody becomes able to settle in it.
LEMMA DetachedBefore ==
    ASSUME pc' \notin Teardown
    PROVE  DetachedAfterLastHandle'
BY DEF DetachedAfterLastHandle

LEMMA DetachedStays ==
    ASSUME DetachedAfterLastHandle, pc \in Teardown, stop => stop',
           commands' = commands \/ commands' = <<>>, atMostOnce' = atMostOnce,
           \A d \in Deliveries : handle'[d] \in Live => handle[d] \in Live
    PROVE  DetachedAfterLastHandle'
BY DEF DetachedAfterLastHandle, LineHolders

-----------------------------------------------------------------------------
(* The pump's steps. *)

LEMMA TakeCommandKeeps ==
    ASSUME IInv, TakeCommand
    PROVE  IInv'
<1> USE DEF IInv, TakeCommand, peer, consumer, history
<1>1. /\ commands \in Seq(Deliveries) /\ commands # <<>>
      /\ inHand' = Head(commands) /\ commands' = Tail(commands)
  BY DEF TypeOK
<1>2. inHand' \in Deliveries /\ commands' \in Seq(Deliveries)
  BY <1>1, TakenApart
<1>3. TypeOK'
  BY <1>2 DEF TypeOK
<1>4. Handing'
  BY DEF Handing, PumpHoldsPending, Pending, OtherItems, UnsentIsFresh, ChannelHolds
<1>5. Telling'
  <2>1. Asked' \subseteq Asked
    BY <1>1, TakenApart DEF Asked
  <2>2. AskedOnce'
    <3>1. \A i, j \in DOMAIN commands' : commands'[i] = commands'[j] => i = j
      <4> SUFFICES ASSUME NEW i \in DOMAIN commands', NEW j \in DOMAIN commands',
                          commands'[i] = commands'[j]
                   PROVE  i = j
        OBVIOUS
      <4>1. /\ i + 1 \in DOMAIN commands /\ j + 1 \in DOMAIN commands
            /\ commands[i + 1] = commands[j + 1]
        BY <1>1, TakenApart
      <4>2. i + 1 = j + 1
        BY <4>1 DEF Telling, AskedOnce
      <4>3. i \in Nat /\ j \in Nat
        BY <1>2, LenProperties
      <4> QED BY <4>2, <4>3
    <3>2. \A i \in DOMAIN commands' : commands'[i] # inHand'
      <4> SUFFICES ASSUME NEW i \in DOMAIN commands', commands'[i] = inHand'
                   PROVE  FALSE
        OBVIOUS
      <4>1. /\ i + 1 \in DOMAIN commands /\ 1 \in DOMAIN commands
            /\ commands[i + 1] = commands[1]
        BY <1>1, TakenApart
      <4>2. i + 1 = 1
        BY <4>1 DEF Telling, AskedOnce
      <4>3. i \in 1 .. Len(commands')
        BY <1>2, LenProperties
      <4> QED BY <4>2, <4>3
    <3> QED BY <1>2, <2>1, <3>1, <3>2 DEF Telling, AskedOnce
  <2>3. UnsettledIsUntold' /\ AnswersAreTrue'
    BY DEF Telling, UnsettledIsUntold, AnswersAreTrue
  <2>4. SettledOnReceipt'
    BY DEF Telling, SettledOnReceipt
  <2> QED BY <2>2, <2>3, <2>4 DEF Telling
<1>6. DetachedAfterLastHandle'
  BY DetachedBefore DEF Teardown
<1> QED BY <1>3, <1>4, <1>5, <1>6

LEMMA ApplyKeeps ==
    ASSUME IInv, Apply
    PROVE  IInv'
<1> USE DEF IInv, Apply, consumer, history
<1>1. inHand \in Deliveries /\ inHand \in Asked
  BY DEF Telling, AskedOnce, Asked
<1>2. credit' \in 0 .. Credit /\ processed' \in 0 .. Credit
  BY RegrantTyped DEF TypeOK
<1>3. TypeOK'
  <2>1. pc' \in States
    BY DEF TypeOK, States, MainLoop
  <2>2. /\ answer' \in [Deliveries -> Deliveries \cup {Nobody, Stopped}]
        /\ applied' \subseteq Deliveries
    BY <1>1 DEF TypeOK
  <2> QED BY <1>2, <2>1, <2>2 DEF TypeOK, States
<1>4. back \in {"loop", "pending", "drain"} /\ pc' = back
  BY DEF TypeOK
<1>5. Handing'
  BY <1>4 DEF Handing, PumpHoldsPending, Pending, OtherItems, UnsentIsFresh, ChannelHolds
<1>6. Telling'
  <2>1. Asked' \subseteq Asked \ {inHand}
    BY <1>4 DEF Asked, Telling, AskedOnce
  <2>2. /\ applied' = applied \cup {inHand}
        /\ answer' \in [Deliveries -> Deliveries \cup {Nobody, Stopped}]
        /\ answer'[inHand] = inHand
        /\ \A d \in Deliveries \ {inHand} : answer'[d] = answer[d]
    BY <1>1, <1>3 DEF TypeOK
  <2>3. Asked \subseteq Deliveries
    BY DEF TypeOK, Telling, AskedOnce, Asked
  <2>4. AskedOnce'
    BY <1>4, <2>1, <2>2, <2>3 DEF Telling, AskedOnce
  <2>5. handle[inHand] \in {"settling", "gone"}
    BY <1>1 DEF Telling, AskedOnce
  <2>6. UnsettledIsUntold'
    BY <2>2, <2>5 DEF Telling, UnsettledIsUntold, Unsettled
  <2>7. AnswersAreTrue'
    BY <1>1, <1>4, <2>2, PumpAssumption DEF Telling, AnswersAreTrue
  <2>8. SettledOnReceipt'
    BY DEF Telling, SettledOnReceipt
  <2> QED BY <2>4, <2>6, <2>7, <2>8 DEF Telling
<1>7. DetachedAfterLastHandle'
  BY <1>4, DetachedBefore DEF Teardown
<1> QED BY <1>3, <1>5, <1>6, <1>7

LEMMA LeaveLoopKeeps ==
    ASSUME IInv, LeaveLoop
    PROVE  IInv'
<1> USE DEF IInv, LeaveLoop, peer, task, consumer, settling, history
<1>1. TypeOK'
  BY DEF TypeOK, MainLoop
<1>2. Handing'
  BY HandingMoves DEF Pending, OtherItems, Handing
<1>3. Telling'
  BY TellingStays DEF Unsettled
<1>4. DetachedAfterLastHandle'
  BY DetachedBefore DEF Teardown
<1> QED BY <1>1, <1>2, <1>3, <1>4

LEMMA ReceiveKeeps ==
    ASSUME IInv, NEW d \in Deliveries, Receive(d)
    PROVE  IInv'
<1> USE DEF IInv, Receive, Receiving, settling
<1>1. /\ handle' \in [Deliveries -> Places] /\ handle'[d] = "pump"
      /\ \A e \in Deliveries \ {d} : handle'[e] = handle[e]
      /\ handle[d] = "none"
  BY MoveTyped DEF Places, Handing, UnsentIsFresh
<1>2. credit' \in 0 .. Credit /\ processed' \in 0 .. Credit
  <2>1. credit - 1 \in 0 .. Credit
    BY PumpAssumption DEF TypeOK
  <2>2. CASE Regrant(credit - 1)
    BY <2>1, <2>2, RegrantTyped
  <2>3. CASE credit' = credit - 1 /\ processed' = processed
    BY <2>1, <2>3 DEF TypeOK
  <2> QED BY <2>2, <2>3
<1>3. arrived' \in Seq(Good)
  BY Appended DEF TypeOK
<1>4. TypeOK'
  BY <1>1, <1>2, <1>3 DEF TypeOK, MainLoop
<1>5. Handing'
  <2>1. ~Pending
    BY DEF Pending
  <2>2. PumpHoldsPending' /\ OtherItems' /\ UnsentIsFresh'
    BY <1>1, <2>1 DEF Handing, PumpHoldsPending, Pending, OtherItems, UnsentIsFresh, Good
  <2>3. ChannelHolds'
    BY <1>1 DEF Handing, ChannelHolds, Good
  <2> QED BY <2>2, <2>3 DEF Handing
<1>6. Telling'
  BY <1>1, TellingStays DEF Unsettled
<1>7. DetachedAfterLastHandle'
  BY DetachedBefore DEF Teardown
<1> QED BY <1>4, <1>5, <1>6, <1>7

LEMMA ReceiveUnreadableKeeps ==
    ASSUME IInv, NEW d \in Deliveries, ReceiveUnreadable(d)
    PROVE  IInv'
<1> USE DEF IInv, ReceiveUnreadable, Receiving, consumer, settling, history
<1>1. credit' \in 0 .. Credit /\ processed' \in 0 .. Credit
  <2>1. credit - 1 \in 0 .. Credit
    BY PumpAssumption DEF TypeOK
  <2>2. CASE Regrant(credit - 1)
    BY <2>1, <2>2, RegrantTyped
  <2>3. CASE credit' = credit - 1 /\ processed' = processed
    BY <2>1, <2>3 DEF TypeOK
  <2> QED BY <2>2, <2>3
<1>2. pc' \in {"rejecting", "delivering"} /\ item' = d /\ d \notin Good
  BY DEF Good
<1>3. TypeOK'
  BY <1>1, <1>2 DEF TypeOK, MainLoop
<1>4. Handing'
  <2>1. ~Pending /\ ~Pending'
    BY <1>2 DEF Pending
  <2>2. PumpHoldsPending' /\ OtherItems' /\ UnsentIsFresh'
    BY <1>2, <2>1 DEF Handing, PumpHoldsPending, OtherItems, UnsentIsFresh, Good
  <2>3. ChannelHolds'
    BY DEF Handing, ChannelHolds
  <2> QED BY <2>2, <2>3 DEF Handing
<1>5. Telling'
  BY <1>2, TellingStays
<1>6. DetachedAfterLastHandle'
  BY <1>2, DetachedBefore DEF Teardown
<1> QED BY <1>3, <1>4, <1>5, <1>6

LEMMA ReceiveFailsKeeps ==
    ASSUME IInv, ReceiveFails
    PROVE  IInv'
<1> USE DEF IInv, ReceiveFails, peer, task, consumer, settling, history
<1>1. TypeOK'
  BY DEF TypeOK, MainLoop
<1>2. Handing'
  BY HandingMoves DEF Pending, OtherItems, Handing, Receiving
<1>3. Telling'
  BY TellingStays DEF Unsettled, Receiving
<1>4. DetachedAfterLastHandle'
  BY DetachedBefore DEF Teardown, Receiving
<1> QED BY <1>1, <1>2, <1>3, <1>4

LEMMA RejectKeeps ==
    ASSUME IInv, Reject
    PROVE  IInv'
<1> USE DEF IInv, Reject, consumer, settling, history
<1>1. credit' \in 0 .. Credit /\ processed' \in 0 .. Credit
  BY RegrantTyped DEF TypeOK
<1>2. TypeOK'
  BY <1>1 DEF TypeOK, MainLoop
<1>3. Handing'
  BY HandingMoves DEF Pending, OtherItems, Handing
<1>4. Telling'
  BY TellingStays
<1>5. DetachedAfterLastHandle'
  BY DetachedBefore DEF Teardown
<1> QED BY <1>2, <1>3, <1>4, <1>5

LEMMA DeliverKeeps ==
    ASSUME IInv, Deliver
    PROVE  IInv'
<1> USE DEF IInv, Deliver, peer, consumer, settling, history
<1>1. /\ out \in Seq(Deliveries \cup {Nobody}) /\ item \in Deliveries \cup {Nobody}
      /\ item \notin Good
      /\ out' = out \/ out' = Append(out, item)
      /\ pc' \in {"leaving", "loop"} /\ pc' \in States
      /\ item' = Nobody
  BY PumpAssumption DEF TypeOK, Handing, OtherItems, Good, States, MainLoop
<1>2. /\ out' \in Seq(Deliveries \cup {Nobody})
      /\ \A i \in DOMAIN out' : out'[i] \in Good => i \in DOMAIN out /\ out'[i] = out[i]
  <2>1. CASE out' = out
    BY <1>1, <2>1
  <2>2. CASE out' = Append(out, item)
    BY <1>1, <2>2, Appended
  <2> QED BY <1>1, <2>1, <2>2
<1>3. TypeOK'
  BY <1>1, <1>2 DEF TypeOK, States
<1>4. Handing'
  <2>1. ~Pending /\ ~Pending'
    BY <1>1 DEF Pending
  <2>2. PumpHoldsPending' /\ OtherItems' /\ UnsentIsFresh'
    BY <1>1, <2>1 DEF Handing, PumpHoldsPending, OtherItems, UnsentIsFresh
  <2>3. ChannelHolds'
    BY <1>2 DEF Handing, ChannelHolds
  <2> QED BY <2>2, <2>3 DEF Handing
<1>5. Telling'
  BY <1>1, TellingStays
<1>6. DetachedAfterLastHandle'
  BY <1>1, DetachedBefore DEF Teardown
<1> QED BY <1>3, <1>4, <1>5, <1>6

LEMMA ReserveKeeps ==
    ASSUME IInv, Reserve
    PROVE  IInv'
<1> USE DEF IInv, Reserve, peer, consumer, settling, history
<1>1. TypeOK'
  BY DEF TypeOK, MainLoop
<1>2. Handing'
  BY DEF Handing, PumpHoldsPending, Pending, OtherItems, UnsentIsFresh, ChannelHolds
<1>3. Telling'
  BY TellingStays
<1>4. DetachedAfterLastHandle'
  BY DetachedBefore DEF Teardown
<1> QED BY <1>1, <1>2, <1>3, <1>4

LEMMA PermitSendKeeps ==
    ASSUME IInv, PermitSend
    PROVE  IInv'
<1> USE DEF IInv, PermitSend, peer, settling, history
<1>1. /\ item \in Good /\ item \in Deliveries /\ handle[item] = "pump"
      /\ out \in Seq(Deliveries \cup {Nobody}) /\ out' = Append(out, item)
  BY DEF TypeOK, Handing, PumpHoldsPending, Pending, Good
<1>2. /\ handle' \in [Deliveries -> Places] /\ handle'[item] = "channel"
      /\ \A e \in Deliveries \ {item} : handle'[e] = handle[e]
  BY <1>1, MoveTyped DEF Places
<1>3. out' \in Seq(Deliveries \cup {Nobody})
  BY <1>1, Appended
<1>4. TypeOK'
  BY <1>2, <1>3 DEF TypeOK, MainLoop
<1>5. Handing'
  <2>1. \A e \in Deliveries : handle[e] = "pump" => e = item
    BY DEF Handing, PumpHoldsPending
  <2>2. PumpHoldsPending' /\ OtherItems' /\ UnsentIsFresh'
    BY <1>1, <1>2, <2>1 DEF Handing, PumpHoldsPending, Pending, OtherItems, UnsentIsFresh,
                            Good
  <2>3. \A i \in DOMAIN out : out[i] \in Good => out[i] # item /\ out[i] \in Deliveries
    BY <1>1 DEF Handing, ChannelHolds, Good
  <2>4. \A i \in DOMAIN out' : \/ i \in DOMAIN out /\ out'[i] = out[i]
                               \/ i = Len(out) + 1 /\ out'[i] = item
    BY <1>1, Appended
  <2>5. ChannelHolds'
    BY <1>2, <2>3, <2>4 DEF Handing, ChannelHolds
  <2> QED BY <2>2, <2>5 DEF Handing
<1>6. Telling'
  BY <1>1, <1>2, TellingStays DEF Unsettled
<1>7. DetachedAfterLastHandle'
  BY DetachedBefore DEF Teardown
<1> QED BY <1>4, <1>5, <1>6, <1>7

LEMMA LeavePendingKeeps ==
    ASSUME IInv, LeavePending
    PROVE  IInv'
<1> USE DEF IInv, LeavePending, peer, settling, history
<1>1. item \in Good /\ item \in Deliveries /\ handle[item] = "pump"
  BY DEF Handing, PumpHoldsPending, Pending, Good
<1>2. /\ handle' \in [Deliveries -> Places] /\ handle'[item] = "gone"
      /\ \A e \in Deliveries \ {item} : handle'[e] = handle[e]
  BY <1>1, MoveTyped DEF Places
<1>3. TypeOK'
  BY <1>2 DEF TypeOK
<1>4. Handing'
  <2>1. \A e \in Deliveries : handle[e] = "pump" => e = item
    BY DEF Handing, PumpHoldsPending
  <2>2. PumpHoldsPending' /\ OtherItems' /\ UnsentIsFresh'
    BY <1>1, <1>2, <2>1 DEF Handing, PumpHoldsPending, Pending, OtherItems, UnsentIsFresh,
                            Good
  <2>3. \A i \in DOMAIN out : out[i] \in Good => out[i] # item /\ out[i] \in Deliveries
    BY <1>1 DEF Handing, ChannelHolds, Good
  <2>4. ChannelHolds'
    BY <1>2, <2>3 DEF Handing, ChannelHolds
  <2> QED BY <2>2, <2>4 DEF Handing
<1>5. Telling'
  BY <1>1, <1>2, TellingStays DEF Unsettled
<1>6. DetachedAfterLastHandle'
  BY DetachedBefore DEF Teardown
<1> QED BY <1>3, <1>4, <1>5, <1>6

LEMMA DropEndsKeeps ==
    ASSUME IInv, DropEnds
    PROVE  IInv'
<1> USE DEF IInv, DropEnds, peer, settling, history
<1>1. /\ out' \in Seq(Deliveries \cup {Nobody})
      /\ handle' \in [Deliveries -> Places]
      /\ \A d \in Deliveries :
            handle'[d] = handle[d] \/ (handle[d] = "channel" /\ handle'[d] = "gone")
      /\ out' = <<>> \/ UNCHANGED <<out, handle>>
  <2>1. CASE subscriber = "dropped"
    BY <2>1 DEF TypeOK, Places
  <2>2. CASE subscriber # "dropped"
    BY <2>2 DEF TypeOK
  <2> QED BY <2>1, <2>2
<1>2. TypeOK'
  BY <1>1 DEF TypeOK
<1>3. Handing'
  <2>1. PumpHoldsPending'
    BY <1>1 DEF Handing, PumpHoldsPending, Pending, Good
  <2>2. OtherItems' /\ UnsentIsFresh'
    BY <1>1 DEF Handing, OtherItems, UnsentIsFresh, Good
  <2>3. ChannelHolds'
    BY <1>1 DEF Handing, ChannelHolds
  <2> QED BY <2>1, <2>2, <2>3 DEF Handing
<1>4. Telling'
  BY <1>1, TellingStays DEF Unsettled
<1>5. DetachedAfterLastHandle'
  BY DetachedBefore DEF Teardown
<1> QED BY <1>2, <1>3, <1>4, <1>5

LEMMA DrainedKeeps ==
    ASSUME IInv, Drained
    PROVE  IInv'
<1> USE DEF IInv, Drained, peer, consumer, settling, history
<1>1. TypeOK'
  BY DEF TypeOK, Teardown
<1>2. Handing'
  BY HandingMoves DEF Pending, OtherItems, Handing
<1>3. Telling'
  BY TellingStays
<1>4. DetachedAfterLastHandle'
  BY DEF DetachedAfterLastHandle, LineHolders
<1> QED BY <1>1, <1>2, <1>3, <1>4

LEMMA TearDownKeeps ==
    ASSUME IInv, TearDown
    PROVE  IInv'
<1> USE DEF IInv, TearDown, peer, consumer, settling, history
<1>1. TypeOK'
  BY DEF TypeOK, Teardown
<1>2. Handing'
  BY HandingMoves DEF Pending, OtherItems, Handing
<1>3. Telling'
  BY TellingStays
<1>4. DetachedAfterLastHandle'
  BY DetachedStays DEF Teardown
<1> QED BY <1>1, <1>2, <1>3, <1>4

LEMMA ExitKeeps ==
    ASSUME IInv, Exit
    PROVE  IInv'
<1> USE DEF IInv, Exit, peer, consumer, history
<1>1. TypeOK'
  BY DEF TypeOK, Teardown
<1>2. Handing'
  BY HandingMoves DEF Pending, OtherItems, Handing
<1>3. Telling'
  <2>1. Asked' = {}
    BY DEF Asked
  <2>2. commands \in Seq(Deliveries) /\ DOMAIN commands = 1 .. Len(commands)
    BY LenProperties DEF TypeOK
  <2>3. \A d \in Deliveries : answer'[d] = answer[d] \/ (d \in Asked /\ answer'[d] = Stopped)
    BY <2>2 DEF TypeOK, Asked
  <2>4. AskedOnce'
    BY <2>1 DEF AskedOnce
  <2>5. UnsettledIsUntold'
    BY <2>3 DEF Telling, AskedOnce, UnsettledIsUntold, Unsettled
  <2>6. AnswersAreTrue'
    BY <2>3, PumpAssumption DEF Telling, AskedOnce, AnswersAreTrue
  <2>7. SettledOnReceipt'
    BY DEF SettledOnReceipt
  <2> QED BY <2>4, <2>5, <2>6, <2>7 DEF Telling
<1>4. DetachedAfterLastHandle'
  BY DetachedStays DEF Teardown
<1> QED BY <1>1, <1>2, <1>3, <1>4

-----------------------------------------------------------------------------
(* The steps of the subscriber, its handlers and the connection. *)

LEMMA PollKeeps ==
    ASSUME IInv, Poll
    PROVE  IInv'
<1> USE DEF IInv, Poll, peer, task, settling
<1> DEFINE d == Head(out)
<1>1. /\ out \in Seq(Deliveries \cup {Nobody}) /\ out # <<>> /\ out' = Tail(out)
      /\ d \in Good => d \in Deliveries
  BY DEF TypeOK, Good
<1>2. /\ out' \in Seq(Deliveries \cup {Nobody})
      /\ 1 \in DOMAIN out /\ d = out[1]
      /\ \A i \in DOMAIN out' : i + 1 \in DOMAIN out /\ out'[i] = out[i + 1]
  BY <1>1, TakenApart
<1>3. d \in Good => handle[d] = "channel"
  BY <1>2 DEF Handing, ChannelHolds
<1>4. /\ handle' \in [Deliveries -> Places]
      /\ \A e \in Deliveries :
            handle'[e] = handle[e] \/ (e = d /\ d \in Good /\ handle'[e] = "handler")
  BY <1>1, MoveTyped DEF TypeOK, Places
<1>5. received' \in Seq(Good)
  <2>1. CASE d \in Good
    <3>1. received \in Seq(Good) /\ received' = Append(received, d)
      BY <2>1 DEF TypeOK
    <3> HIDE DEF d, Poll
    <3> QED BY <2>1, <3>1, Appended
  <2>2. CASE d \notin Good
    BY <2>2 DEF TypeOK
  <2> QED BY <2>1, <2>2
<1>6. TypeOK'
  BY <1>2, <1>4, <1>5 DEF TypeOK
<1>7. Handing'
  <2>1. PumpHoldsPending'
    BY <1>3, <1>4 DEF Handing, PumpHoldsPending, Pending, Good
  <2>2. OtherItems' /\ UnsentIsFresh'
    BY <1>3, <1>4 DEF Handing, OtherItems, UnsentIsFresh, Good
  <2>3. ASSUME NEW i \in DOMAIN out', out'[i] \in Good
        PROVE  handle'[out'[i]] = "channel"
    <3>1. i \in 1 .. Len(out')
      BY <1>2, LenProperties
    <3>2. i + 1 # 1
      BY <3>1
    <3>3. out[i + 1] # d
      BY <1>2, <2>3, <3>2 DEF Handing, ChannelHolds
    <3> QED BY <1>2, <1>4, <2>3, <3>3 DEF Handing, ChannelHolds, Good
  <2>4. ASSUME NEW i \in DOMAIN out', NEW j \in DOMAIN out',
               out'[i] = out'[j], out'[i] \in Good
        PROVE  i = j
    <3>1. i + 1 = j + 1
      BY <1>2, <2>4 DEF Handing, ChannelHolds
    <3>2. i \in Nat /\ j \in Nat
      BY <1>2, LenProperties
    <3> QED BY <3>1, <3>2
  <2> QED BY <2>1, <2>2, <2>3, <2>4 DEF Handing, ChannelHolds
<1>8. Telling'
  BY <1>3, <1>4, TellingStays DEF Unsettled
<1>9. DetachedAfterLastHandle'
  BY <1>3, <1>4 DEF DetachedAfterLastHandle, LineHolders, Live
<1> QED BY <1>6, <1>7, <1>8, <1>9

LEMMA SettleKeeps ==
    ASSUME IInv, NEW d \in Deliveries, Settle(d)
    PROVE  IInv'
<1> USE DEF IInv, Settle, peer, task, history
<1>1. \A place \in {"settling", "gone"} : place \in Places
  BY DEF Places
<1>2. CASE atMostOnce \/ pc = "ended"
  <2>1. /\ handle' \in [Deliveries -> Places] /\ handle'[d] = "gone"
        /\ \A e \in Deliveries \ {d} : handle'[e] = handle[e]
    BY <1>1, <1>2, MoveTyped
  <2>2. /\ result' = result \/ result' = [result EXCEPT ![d] = Stopped]
        /\ UNCHANGED <<commands, answer, applied>>
    BY <1>2 DEF settling
  <2>3. TypeOK'
    <3>1. result' \in [Deliveries ->
                          Deliveries \cup {Nobody, Stopped, Withdrawn, Abandoned}]
      BY <2>2 DEF TypeOK
    <3>2. UNCHANGED <<atMostOnce, unsent, credit, processed, pc, item, inHand, back, fatal,
                      stop, out, subscriber, arrived, received>>
      OBVIOUS
    <3> HIDE DEF Settle
    <3> QED BY <2>1, <2>2, <3>1, <3>2 DEF TypeOK
  <2>4. Handing'
    BY <2>1, HandingStays
  <2>5. Telling'
    <3>1. Asked' = Asked /\ d \notin Asked /\ Asked \subseteq Deliveries
      <4>1. Asked' = Asked
        BY <2>2 DEF Asked
      <4>2. d \notin Asked
        BY DEF Telling, AskedOnce
      <4>3. Asked \subseteq Deliveries
        BY DEF Asked, TypeOK, Telling, AskedOnce
      <4> QED BY <4>1, <4>2, <4>3
    <3>2. \A e \in Deliveries \ {d} : result'[e] = result[e]
      BY <2>2 DEF TypeOK
    <3>3. AskedOnce'
      BY <2>1, <2>2, <3>1, <3>2 DEF Telling, AskedOnce
    <3>4. UnsettledIsUntold'
      BY <2>1, <2>2, <3>2 DEF Telling, UnsettledIsUntold, Unsettled
    <3>5. AnswersAreTrue' /\ SettledOnReceipt'
      BY <2>2 DEF Telling, AnswersAreTrue, SettledOnReceipt
    <3> QED BY <3>3, <3>4, <3>5 DEF Telling
  <2>6. DetachedAfterLastHandle'
    BY <2>1, <2>2 DEF DetachedAfterLastHandle, LineHolders, Live
  <2> QED BY <2>3, <2>4, <2>5, <2>6
<1>3. CASE ~atMostOnce /\ pc # "ended"
  <2>1. /\ handle' \in [Deliveries -> Places] /\ handle'[d] = "settling"
        /\ \A e \in Deliveries \ {d} : handle'[e] = handle[e]
    BY <1>1, <1>3, MoveTyped
  <2>2. /\ commands \in Seq(Deliveries) /\ commands' = Append(commands, d)
        /\ UNCHANGED <<answer, result, applied>>
    BY <1>3 DEF TypeOK
  <2>3. /\ commands' \in Seq(Deliveries)
        /\ \A i \in DOMAIN commands' : \/ i \in DOMAIN commands /\ commands'[i] = commands[i]
                                       \/ i = Len(commands) + 1 /\ commands'[i] = d
    BY <2>2, Appended
  <2>4. TypeOK'
    BY <2>1, <2>2, <2>3 DEF TypeOK
  <2>5. Handing'
    BY <2>1, HandingStays
  <2>6. Telling'
    <3>1. Asked' \subseteq Asked \cup {d} /\ d \notin Asked /\ Asked \subseteq Deliveries
      BY <2>3 DEF Asked, TypeOK, Telling, AskedOnce
    <3>2. \A i \in DOMAIN commands : commands[i] # d
      BY <3>1 DEF Asked
    <3>3. pc = "applying" => inHand # d
      BY <3>1 DEF Asked
    <3>4. /\ \A i, j \in DOMAIN commands' : commands'[i] = commands'[j] => i = j
          /\ pc' = "applying" => \A i \in DOMAIN commands' : commands'[i] # inHand'
      BY <2>3, <3>2, <3>3 DEF Telling, AskedOnce
    <3>5. \A e \in Asked \cup {d} :
              /\ handle'[e] \in {"settling", "gone"}
              /\ e \notin applied /\ answer[e] = Nobody
              /\ result[e] \in {Nobody, Abandoned}
      BY <2>1, <3>1 DEF Telling, AskedOnce, UnsettledIsUntold, Unsettled
    <3>6. AskedOnce'
      BY <2>2, <3>1, <3>4, <3>5 DEF Telling, AskedOnce
    <3>7. UnsettledIsUntold'
      BY <2>1, <2>2 DEF Telling, UnsettledIsUntold, Unsettled
    <3>8. AnswersAreTrue' /\ SettledOnReceipt'
      BY <1>3, <2>2 DEF Telling, AnswersAreTrue, SettledOnReceipt
    <3> QED BY <3>6, <3>7, <3>8 DEF Telling
  <2>7. DetachedAfterLastHandle'
    BY <1>3 DEF DetachedAfterLastHandle, LineHolders, Live
  <2> QED BY <2>4, <2>5, <2>6, <2>7
<1> QED BY <1>2, <1>3

LEMMA ReturnKeeps ==
    ASSUME IInv, NEW d \in Deliveries, Return(d)
    PROVE  IInv'
<1> USE DEF IInv, Return, peer, task, history
<1>1. /\ handle' \in [Deliveries -> Places] /\ handle'[d] = "gone"
      /\ \A e \in Deliveries \ {d} : handle'[e] = handle[e]
  BY MoveTyped DEF Places
<1>2. result' \in [Deliveries -> Deliveries \cup {Nobody, Stopped, Withdrawn, Abandoned}]
  BY DEF TypeOK
<1>3. TypeOK'
  BY <1>1, <1>2 DEF TypeOK
<1>4. Handing'
  BY <1>1, HandingStays
<1>5. Telling'
  <2>1. Asked' = Asked /\ Asked \subseteq Deliveries
    BY DEF Asked, TypeOK, Telling, AskedOnce
  <2>2. \A e \in Deliveries \ {d} : result'[e] = result[e]
    BY DEF TypeOK
  <2>3. d \in Asked => result'[d] = Abandoned
    BY DEF TypeOK, Telling, AskedOnce
  <2>4. AskedOnce'
    BY <1>1, <2>1, <2>2, <2>3 DEF Telling, AskedOnce
  <2>5. UnsettledIsUntold'
    BY <1>1, <2>2 DEF Telling, UnsettledIsUntold, Unsettled
  <2>6. AnswersAreTrue' /\ SettledOnReceipt'
    BY DEF Telling, AnswersAreTrue, SettledOnReceipt
  <2> QED BY <2>4, <2>5, <2>6 DEF Telling
<1>6. DetachedAfterLastHandle'
  BY <1>1 DEF DetachedAfterLastHandle, LineHolders, Live
<1> QED BY <1>3, <1>4, <1>5, <1>6

LEMMA DropHandleKeeps ==
    ASSUME IInv, NEW d \in Deliveries, DropHandle(d)
    PROVE  IInv'
<1> USE DEF IInv, DropHandle, peer, task, history
<1>1. /\ handle' \in [Deliveries -> Places] /\ handle'[d] = "gone"
      /\ \A e \in Deliveries \ {d} : handle'[e] = handle[e]
  BY MoveTyped DEF Places
<1>2. result' \in [Deliveries -> Deliveries \cup {Nobody, Stopped, Withdrawn, Abandoned}]
  BY DEF TypeOK
<1>3. TypeOK'
  BY <1>1, <1>2 DEF TypeOK
<1>4. Handing'
  BY <1>1, HandingStays
<1>5. Telling'
  <2>1. Asked' = Asked /\ Asked \subseteq Deliveries
    BY DEF Asked, TypeOK, Telling, AskedOnce
  <2>2. \A e \in Deliveries \ {d} : result'[e] = result[e]
    BY DEF TypeOK
  <2>3. d \in Asked => result'[d] = Abandoned
    BY DEF TypeOK, Telling, AskedOnce
  <2>4. AskedOnce'
    BY <1>1, <2>1, <2>2, <2>3 DEF Telling, AskedOnce
  <2>5. UnsettledIsUntold'
    BY <1>1, <2>2 DEF Telling, UnsettledIsUntold, Unsettled
  <2>6. AnswersAreTrue' /\ SettledOnReceipt'
    BY DEF Telling, AnswersAreTrue, SettledOnReceipt
  <2> QED BY <2>4, <2>5, <2>6 DEF Telling
<1>6. DetachedAfterLastHandle'
  BY <1>1 DEF DetachedAfterLastHandle, LineHolders, Live
<1> QED BY <1>3, <1>4, <1>5, <1>6

LEMMA DropSubscriberKeeps ==
    ASSUME IInv, DropSubscriber
    PROVE  IInv'
<1> USE DEF IInv, DropSubscriber, peer, task, settling, history
<1>1. /\ out' \in Seq(Deliveries \cup {Nobody})
      /\ handle' \in [Deliveries -> Places]
      /\ \A d \in Deliveries :
            handle'[d] = handle[d] \/ (handle[d] = "channel" /\ handle'[d] = "gone")
      /\ out' = <<>> \/ UNCHANGED <<out, handle>>
  BY DEF TypeOK, Places
<1>2. TypeOK'
  BY <1>1 DEF TypeOK
<1>3. Handing'
  <2>1. PumpHoldsPending'
    BY <1>1 DEF Handing, PumpHoldsPending, Pending, Good
  <2>2. OtherItems' /\ UnsentIsFresh'
    BY <1>1 DEF Handing, OtherItems, UnsentIsFresh, Good
  <2>3. ChannelHolds'
    BY <1>1 DEF Handing, ChannelHolds
  <2> QED BY <2>1, <2>2, <2>3 DEF Handing
<1>4. Telling'
  BY <1>1, TellingStays DEF Unsettled
<1>5. DetachedAfterLastHandle'
  BY <1>1 DEF DetachedAfterLastHandle, LineHolders, Live
<1> QED BY <1>2, <1>3, <1>4, <1>5

LEMMA StopKeeps ==
    ASSUME IInv, Stop
    PROVE  IInv'
<1> USE DEF IInv, Stop, peer, task, consumer, settling, history
<1>1. TypeOK'
  BY DEF TypeOK
<1>2. Handing'
  BY HandingStays
<1>3. Telling'
  BY TellingStays
<1>4. DetachedAfterLastHandle'
  BY DEF DetachedAfterLastHandle
<1> QED BY <1>1, <1>2, <1>3, <1>4

-----------------------------------------------------------------------------
(* The invariant, and what follows from it. *)

LEMMA InitHolds == Init => IInv
<1> SUFFICES ASSUME Init PROVE IInv
  OBVIOUS
<1> USE PumpAssumption DEF Init
<1>1. TypeOK
  <2>1. /\ pc \in States
        /\ handle \in [Deliveries -> Places]
        /\ answer \in [Deliveries -> Deliveries \cup {Nobody, Stopped}]
        /\ result \in [Deliveries -> Deliveries \cup {Nobody, Stopped, Withdrawn, Abandoned}]
    BY DEF States, MainLoop, Places
  <2>2. credit \in 0 .. Credit /\ processed \in 0 .. Credit
    OBVIOUS
  <2>3. /\ out \in Seq(Deliveries \cup {Nobody}) /\ commands \in Seq(Deliveries)
        /\ arrived \in Seq(Good) /\ received \in Seq(Good)
    OBVIOUS
  <2> QED BY <2>1, <2>2, <2>3 DEF TypeOK, States
<1>2. Handing
  BY DEF Handing, PumpHoldsPending, Pending, OtherItems, UnsentIsFresh, ChannelHolds, Good
<1>3. Telling
  BY DEF Telling, AskedOnce, Asked, UnsettledIsUntold, AnswersAreTrue, SettledOnReceipt
<1>4. DetachedAfterLastHandle
  BY DEF DetachedAfterLastHandle, Teardown
<1> QED BY <1>1, <1>2, <1>3, <1>4 DEF IInv

LEMMA StepKeeps == IInv /\ [Next]_vars => IInv'
<1> SUFFICES ASSUME IInv, [Next]_vars PROVE IInv'
  OBVIOUS
<1>1. CASE UNCHANGED vars
  BY <1>1 DEF vars, peer, task, consumer, settling, history, IInv, TypeOK, Handing,
              PumpHoldsPending, Pending, OtherItems, UnsentIsFresh, ChannelHolds, Telling,
              AskedOnce, Asked, UnsettledIsUntold, AnswersAreTrue, SettledOnReceipt,
              DetachedAfterLastHandle, LineHolders
<1>2. CASE PumpStep
  BY <1>2, TakeCommandKeeps, ApplyKeeps, LeaveLoopKeeps, RejectKeeps, DeliverKeeps,
     ReserveKeeps, PermitSendKeeps, LeavePendingKeeps, DropEndsKeeps, DrainedKeeps,
     TearDownKeeps, ExitKeeps, ReceiveKeeps, ReceiveUnreadableKeeps
     DEF PumpStep
<1>3. CASE ReceiveFails \/ Poll \/ DropSubscriber \/ Stop
  BY <1>3, ReceiveFailsKeeps, PollKeeps, DropSubscriberKeeps, StopKeeps
<1>4. CASE \E d \in Deliveries : Settle(d) \/ Return(d) \/ DropHandle(d)
  BY <1>4, SettleKeeps, ReturnKeeps, DropHandleKeeps
<1> QED BY <1>1, <1>2, <1>3, <1>4 DEF Next

\* The invariant is inductive, and holds of every reachable state.
THEOREM Invariance == Spec => []IInv
BY InitHolds, StepKeeps, PTL DEF Spec

\* Every variable keeps its type.
THEOREM TypeCorrect == Spec => []TypeOK
<1>1. IInv => TypeOK
  BY DEF IInv
<1> QED BY <1>1, Invariance, PTL

\* But for a shutdown of the connection the pump detaches its link only once no
\* handle is left that could settle, and no command it has not applied.
THEOREM DetachesAfterLastHandle == Spec => []DetachedAfterLastHandle
<1>1. IInv => DetachedAfterLastHandle
  BY DEF IInv
<1> QED BY <1>1, Invariance, PTL


-----------------------------------------------------------------------------
(* The pump keeps the settle line's promise. *)

LEMMA StepKeepsPromise ==
    ASSUME IInv, [Next]_vars
    PROVE  [Promise!Next]_(Promise!vars)
<1> USE PumpAssumption
<1> DEFINE same == UNCHANGED <<pc # "ended", applied, result>>
<1>1. ASSUME same PROVE UNCHANGED Promise!vars
  BY <1>1 DEF Promise!vars
<1>2. ASSUME NEW d \in Deliveries, Settle(d) PROVE same \/ Promise!Refuse(d)
  <2>1. d \notin applied /\ result[d] = Nobody
    BY <1>2 DEF IInv, Telling, UnsettledIsUntold, Unsettled, Settle
  <2> QED BY <1>2, <2>1 DEF Settle, settling, task, Promise!Refuse, Promise!Tell
<1>3. ASSUME NEW d \in Deliveries, Return(d) PROVE Promise!Answer(d) \/ Promise!Refuse(d)
  <2>1. result[d] = Nobody
    BY <1>3 DEF IInv, Telling, UnsettledIsUntold, Return
  <2>2. /\ answer[d] = d => d \in applied
        /\ answer[d] = Stopped => pc = "ended" /\ d \notin applied
        /\ answer[d] \in {d, Stopped}
    BY <1>3 DEF IInv, Telling, AnswersAreTrue, Return
  <2>3. CASE answer[d] = d
    BY <1>3, <2>1, <2>2, <2>3 DEF Return, task, Promise!Answer, Promise!Tell
  <2>4. CASE answer[d] = Stopped
    BY <1>3, <2>1, <2>2, <2>4 DEF Return, task, Promise!Refuse, Promise!Tell
  <2> QED BY <2>2, <2>3, <2>4
<1>4. ASSUME NEW d \in Deliveries, DropHandle(d)
      PROVE  Promise!Withdraw(d) \/ Promise!Abandon(d)
  <2>1. /\ result[d] = Nobody
        /\ handle[d] = "handler" => d \notin applied
    BY <1>4 DEF IInv, Telling, UnsettledIsUntold, Unsettled, DropHandle
  <2> QED BY <1>4, <2>1 DEF DropHandle, task, Promise!Withdraw, Promise!Abandon, Promise!Tell
<1>5. ASSUME Apply PROVE \E d \in Deliveries : Promise!Apply(d)
  <2>1. /\ inHand \in Deliveries /\ inHand \notin applied
        /\ result[inHand] \in {Nobody, Abandoned}
    BY <1>5 DEF IInv, Telling, AskedOnce, Asked, Apply
  <2>2. pc # "ended" /\ pc' # "ended"
    BY <1>5 DEF IInv, TypeOK, Apply
  <2> QED BY <1>5, <2>1, <2>2 DEF Apply, Promise!Apply
<1>6. ASSUME Exit PROVE Promise!Stop
  BY <1>6 DEF Exit, Promise!Stop
<1>7. ASSUME \/ TakeCommand \/ LeaveLoop \/ Reject \/ Deliver \/ Reserve \/ PermitSend
             \/ LeavePending \/ DropEnds \/ Drained \/ TearDown \/ ReceiveFails
             \/ \E d \in Deliveries : Receive(d) \/ ReceiveUnreadable(d)
      PROVE  same
  BY <1>7 DEF TakeCommand, LeaveLoop, Reject, Deliver, Reserve, PermitSend, LeavePending,
              DropEnds, Drained, TearDown, Receiving, ReceiveFails, Receive,
              ReceiveUnreadable, settling
<1>8. ASSUME Poll \/ DropSubscriber \/ Stop \/ UNCHANGED vars PROVE same
  BY <1>8 DEF Poll, DropSubscriber, Stop, vars, task, settling
<1> HIDE DEF same
<1> QED BY <1>1, <1>2, <1>3, <1>4, <1>5, <1>6, <1>7, <1>8
        DEF Next, PumpStep, Promise!Next

\* Whatever is pending, drained, torn down or dropped, a delivery is settled at
\* most once, while the pump runs, and each settlement is told the truth.
THEOREM PumpKeepsPromise == Spec => KeepsPromise
<1>1. Init => Promise!Init
  BY DEF Init, Promise!Init
<1> QED BY <1>1, StepKeepsPromise, Invariance, PTL DEF KeepsPromise, Promise!Spec, Spec

-----------------------------------------------------------------------------
(* What is on its way to the handlers. *)

Rest == Len(received) + 1 .. Len(arrived)

\* The pump is in its main loop, or will be once it has applied a command.
Looping == pc \in MainLoop \/ (pc = "applying" /\ back # "drain")

ArrivedOnce ==
    /\ \A k, l \in DOMAIN arrived : arrived[k] = arrived[l] => k = l
    /\ \A k \in DOMAIN arrived : arrived[k] \notin unsent

ReceivedFirst ==
    /\ Len(received) <= Len(arrived)
    /\ \A i \in 1 .. Len(received) : received[i] = arrived[i]

\* Two places of a sequence hold deliveries that came off the link in their
\* order, neither with the handlers yet: one delivery twice only if i = j.
InOrder(seq, i, j) ==
    \E k, l \in Rest : /\ k <= l /\ (k = l <=> i = j)
                       /\ arrived[k] = seq[i] /\ arrived[l] = seq[j]

ChannelInOrder ==
    \A i, j \in DOMAIN out :
        i <= j /\ out[i] \in Good /\ out[j] \in Good => InOrder(out, i, j)

\* The pending delivery is the last that arrived.
PendingLast == Pending => Len(arrived) \in Rest /\ arrived[Len(arrived)] = item

\* Only the last one can have fallen out, in a pump that left its loop.
NothingLost ==
    subscriber = "alive" =>
        \A k \in Rest : \/ \E i \in DOMAIN out : out[i] = arrived[k]
                        \/ k = Len(arrived) /\ (Pending \/ ~Looping)

Queueing == ArrivedOnce /\ ReceivedFirst /\ ChannelInOrder /\ PendingLast /\ NothingLost

LEMMA QueueTypes ==
    ASSUME TypeOK
    PROVE  /\ arrived \in Seq(Good) /\ received \in Seq(Good)
           /\ out \in Seq(Deliveries \cup {Nobody})
           /\ Len(arrived) \in Nat /\ Len(received) \in Nat /\ Len(out) \in Nat
           /\ DOMAIN arrived = 1 .. Len(arrived)
           /\ DOMAIN received = 1 .. Len(received)
           /\ DOMAIN out = 1 .. Len(out)
           /\ \A k \in DOMAIN arrived : arrived[k] \in Good
           /\ Rest \subseteq DOMAIN arrived
BY LenProperties, ElementOfSeq DEF TypeOK, Rest

\* Nothing moves between the link, the channel and the handlers.
LEMMA QueueingStays ==
    ASSUME Queueing, UNCHANGED <<out, arrived, received>>, unsent' \subseteq unsent,
           subscriber' = "alive" => subscriber = "alive",
           Pending' => Pending /\ item' = item,
           subscriber' = "alive" /\ Looping' => Looping,
           Pending => Pending' \/ ~Looping'
    PROVE  Queueing'
BY DEF Queueing, ArrivedOnce, ReceivedFirst, ChannelInOrder, InOrder, PendingLast,
       NothingLost, Rest

\* The channel goes with its receiver.
LEMMA QueueingEnds ==
    ASSUME Queueing, UNCHANGED <<arrived, received>>, unsent' = unsent, out' = <<>>,
           subscriber' = "dropped", Pending' => Pending /\ item' = item
    PROVE  Queueing'
<1>1. DOMAIN out' = {}
  OBVIOUS
<1> QED BY <1>1 DEF Queueing, ArrivedOnce, ReceivedFirst, ChannelInOrder, PendingLast,
                    NothingLost, Rest

LEMMA ReceiveQueues ==
    ASSUME IInv, Queueing, NEW d \in Deliveries, Receive(d)
    PROVE  Queueing'
<1>1. /\ d \in unsent /\ d \in Good /\ unsent' = unsent \ {d}
      /\ arrived' = Append(arrived, d) /\ received' = received /\ out' = out
      /\ item' = d /\ ~Pending /\ Looping /\ subscriber = "alive"
  BY DEF Receive, Receiving, Pending, Looping, MainLoop
<1> DEFINE n == Len(arrived)
<1>2. /\ Len(arrived') = n + 1 /\ arrived'[n + 1] = d
      /\ DOMAIN arrived' = 1 .. (n + 1)
      /\ \A k \in 1 .. n : arrived'[k] = arrived[k]
  BY <1>1, QueueTypes, AppendProperties, LenProperties DEF IInv
<1>3. n \in Nat /\ Len(received) \in Nat /\ DOMAIN arrived = 1 .. n /\ Len(received) <= n
  BY QueueTypes DEF IInv, Queueing, ReceivedFirst
<1> HIDE DEF n
<1>4. Rest' = Rest \cup {n + 1} /\ Rest \subseteq 1 .. n
  BY <1>1, <1>2, <1>3 DEF Rest, n
<1>5. ArrivedOnce'
  BY <1>1, <1>2, <1>3 DEF Queueing, ArrivedOnce
<1>6. ReceivedFirst'
  BY <1>1, <1>2, <1>3 DEF Queueing, ReceivedFirst, n
<1>7. ChannelInOrder'
  <2> SUFFICES ASSUME NEW i \in DOMAIN out, NEW j \in DOMAIN out, i <= j,
                      out[i] \in Good, out[j] \in Good
               PROVE  InOrder(out, i, j)'
    BY <1>1 DEF ChannelInOrder
  <2>1. PICK k \in Rest, l \in Rest : /\ k <= l /\ (k = l <=> i = j)
                                      /\ arrived[k] = out[i] /\ arrived[l] = out[j]
    BY DEF Queueing, ChannelInOrder, InOrder
  <2>2. k \in Rest' /\ l \in Rest' /\ arrived'[k] = arrived[k] /\ arrived'[l] = arrived[l]
    BY <1>2, <1>4
  <2> QED BY <1>1, <2>1, <2>2 DEF InOrder
<1>8. PendingLast'
  BY <1>1, <1>2, <1>4 DEF PendingLast
<1>9. NothingLost'
  <2>1. \A k \in Rest : \E i \in DOMAIN out : out[i] = arrived[k]
    BY <1>1 DEF Queueing, NothingLost
  <2>2. Pending'
    BY DEF Receive, Pending
  <2> QED BY <1>1, <1>2, <1>4, <2>1, <2>2 DEF NothingLost
<1> QED BY <1>5, <1>6, <1>7, <1>8, <1>9 DEF Queueing

\* An error takes its place behind the deliveries.
LEMMA DeliverQueues ==
    ASSUME IInv, Queueing, Deliver
    PROVE  Queueing'
<1>1. /\ out \in Seq(Deliveries \cup {Nobody}) /\ item \in Deliveries \cup {Nobody}
      /\ item \notin Good /\ UNCHANGED <<arrived, received, unsent, subscriber>>
      /\ out' = out \/ out' = Append(out, item)
      /\ ~Pending /\ ~Pending' /\ Looping
  BY PumpAssumption DEF IInv, TypeOK, Handing, OtherItems, Good, Deliver, Pending, Looping,
                        MainLoop, peer, consumer, history
<1>2. /\ \A i \in DOMAIN out : i \in DOMAIN out' /\ out'[i] = out[i]
      /\ \A i \in DOMAIN out' : out'[i] \in Good => i \in DOMAIN out
  <2>1. CASE out' = out
    BY <1>1, <2>1
  <2>2. CASE out' = Append(out, item)
    BY <1>1, <2>2, Appended
  <2> QED BY <1>1, <2>1, <2>2
<1>3. ArrivedOnce' /\ ReceivedFirst' /\ PendingLast' /\ Rest' = Rest
  BY <1>1 DEF Queueing, ArrivedOnce, ReceivedFirst, PendingLast, Rest
<1>4. ChannelInOrder'
  BY <1>1, <1>2, <1>3 DEF Queueing, ChannelInOrder, InOrder
<1>5. NothingLost'
  BY <1>1, <1>2, <1>3 DEF Queueing, NothingLost
<1> QED BY <1>3, <1>4, <1>5 DEF Queueing

\* The pending delivery takes its place behind those that arrived before it.
LEMMA PermitSendQueues ==
    ASSUME IInv, Queueing, PermitSend
    PROVE  Queueing'
<1>1. /\ UNCHANGED <<arrived, received, unsent, subscriber>>
      /\ out' = Append(out, item) /\ Pending /\ ~Pending' /\ Looping /\ item \in Good
      /\ handle[item] = "pump"
  BY DEF IInv, Handing, PumpHoldsPending, PermitSend, Pending, Looping, MainLoop, peer, history
<1> DEFINE n == Len(out)
<1>2. /\ n \in Nat /\ DOMAIN out = 1 .. n /\ DOMAIN out' = 1 .. (n + 1)
      /\ \A i \in DOMAIN out : i \in DOMAIN out' /\ out'[i] = out[i]
      /\ out'[n + 1] = item
  <2>1. out \in Seq(Deliveries \cup {Nobody}) /\ item \in Deliveries \cup {Nobody}
    BY DEF IInv, TypeOK
  <2> QED BY <1>1, <2>1, Appended, AppendProperties, LenProperties
<1>3. ArrivedOnce' /\ ReceivedFirst' /\ PendingLast' /\ Rest' = Rest
  BY <1>1 DEF Queueing, ArrivedOnce, ReceivedFirst, PendingLast, Rest
<1>4. /\ Len(arrived) \in Rest /\ arrived[Len(arrived)] = item
      /\ \A k \in Rest : k <= Len(arrived)
  BY <1>1, QueueTypes DEF Queueing, PendingLast, IInv, Rest
<1> HIDE DEF n
<1>5. ChannelInOrder'
  <2> SUFFICES ASSUME NEW i \in DOMAIN out', NEW j \in DOMAIN out', i <= j,
                      out'[i] \in Good, out'[j] \in Good
               PROVE  InOrder(out, i, j)'
    BY DEF ChannelInOrder
  <2>1. CASE j \in DOMAIN out
    <3>1. i \in DOMAIN out
      BY <1>2, <2>1
    <3> QED BY <1>1, <1>2, <1>3, <2>1, <3>1 DEF Queueing, ChannelInOrder, InOrder
  <2>2. CASE i = n + 1 /\ j = n + 1
    BY <1>1, <1>2, <1>3, <1>4, <2>2 DEF InOrder, Rest
  <2>3. CASE i \in DOMAIN out /\ j = n + 1
    <3>1. PICK k \in Rest : arrived[k] = out[i]
      BY <1>2, <2>3 DEF Queueing, ChannelInOrder, InOrder
    <3>2. out[i] # item
      BY <1>1, <1>2, <2>3 DEF IInv, Handing, ChannelHolds
    <3>3. k <= Len(arrived) /\ k # Len(arrived) /\ i # j
      BY <1>2, <1>4, <2>3, <3>1, <3>2
    <3> QED BY <1>1, <1>2, <1>3, <1>4, <2>3, <3>1, <3>3 DEF InOrder
  <2> QED BY <1>2, <2>1, <2>2, <2>3
<1>6. NothingLost'
  BY <1>1, <1>2, <1>3, <1>4 DEF Queueing, NothingLost
<1> QED BY <1>3, <1>5, <1>6 DEF Queueing

\* The oldest in the channel is the next that arrived.
LEMMA PollQueues ==
    ASSUME IInv, Queueing, Poll
    PROVE  Queueing'
<1>1. /\ UNCHANGED <<arrived, unsent, subscriber, pc, back, item>>
      /\ subscriber = "alive" /\ out # <<>> /\ out' = Tail(out)
      /\ received' = IF Head(out) \in Good THEN Append(received, Head(out)) ELSE received
  BY DEF Poll, peer, task
<1>2. /\ 1 \in DOMAIN out /\ Head(out) = out[1]
      /\ \A i \in DOMAIN out' : i + 1 \in DOMAIN out /\ out'[i] = out[i + 1]
      /\ \A i \in DOMAIN out : i = 1 \/ (i - 1 \in DOMAIN out' /\ out'[i - 1] = out[i])
      /\ \A i \in DOMAIN out : i \in Nat
      /\ \A i \in DOMAIN out' : i \in Nat \ {0}
  <2>1. out \in Seq(Deliveries \cup {Nobody})
    BY DEF IInv, TypeOK
  <2>2. out' \in Seq(Deliveries \cup {Nobody})
    BY <1>1, <2>1, TakenApart
  <2>3. \A i \in DOMAIN out' : i \in Nat \ {0}
    BY <2>2, LenProperties
  <2>4. \A i \in DOMAIN out : i \in Nat
    BY <2>1, LenProperties
  <2>5. /\ 1 \in DOMAIN out /\ Head(out) = out[1]
        /\ \A i \in DOMAIN out' : i + 1 \in DOMAIN out /\ out'[i] = out[i + 1]
        /\ \A i \in DOMAIN out : i = 1 \/ i - 1 \in DOMAIN out'
    BY <1>1, <2>1, TakenApart
  <2>6. ASSUME NEW i \in DOMAIN out, i # 1
        PROVE  i - 1 \in DOMAIN out' /\ out'[i - 1] = out[i]
    <3>1. i - 1 \in DOMAIN out' /\ (i - 1) + 1 = i
      BY <2>4, <2>5, <2>6
    <3> QED BY <2>5, <3>1
  <2> QED BY <2>3, <2>4, <2>5, <2>6
<1>3. ArrivedOnce' /\ (Pending' <=> Pending) /\ (Looping' <=> Looping)
  BY <1>1 DEF Queueing, ArrivedOnce, Pending, Looping
<1>4. /\ \A k, l \in DOMAIN arrived : arrived[k] = arrived[l] => k = l
      /\ Rest \subseteq DOMAIN arrived
      /\ \A k \in DOMAIN arrived : arrived[k] \in Good
      /\ Len(arrived) \in Nat /\ Len(received) \in Nat /\ DOMAIN arrived = 1 .. Len(arrived)
  BY QueueTypes DEF Queueing, ArrivedOnce, IInv
<1>5. CASE Head(out) \notin Good
  <2>1. UNCHANGED <<arrived, received, subscriber, unsent>> /\ Rest' = Rest /\ out[1] \notin Good
    BY <1>1, <1>2, <1>5 DEF Rest
  <2>2. ReceivedFirst' /\ PendingLast'
    BY <1>1, <1>3, <2>1 DEF Queueing, ReceivedFirst, PendingLast
  <2>3. ChannelInOrder'
    <3> SUFFICES ASSUME NEW i \in DOMAIN out', NEW j \in DOMAIN out', i <= j,
                        out'[i] \in Good, out'[j] \in Good
                 PROVE  InOrder(out, i, j)'
      BY DEF ChannelInOrder
    <3>1. InOrder(out, i + 1, j + 1)
      BY <1>2 DEF Queueing, ChannelInOrder
    <3> QED BY <1>2, <2>1, <3>1 DEF InOrder
  <2>4. NothingLost'
    <3> SUFFICES ASSUME NEW k \in Rest, ~(k = Len(arrived) /\ (Pending \/ ~Looping))
                 PROVE  \E i \in DOMAIN out' : out'[i] = arrived[k]
      BY <1>3, <2>1 DEF NothingLost
    <3>1. PICK i \in DOMAIN out : out[i] = arrived[k]
      BY <1>1 DEF Queueing, NothingLost
    <3>2. i # 1
      BY <1>4, <2>1, <3>1
    <3> QED BY <1>2, <3>1, <3>2
  <2> QED BY <1>3, <2>2, <2>3, <2>4 DEF Queueing
<1>6. CASE Head(out) \in Good
  <2> DEFINE p == Len(received) + 1
  <2>1. /\ out[1] \in Good /\ received \in Seq(Good) /\ received' = Append(received, out[1])
        /\ handle[out[1]] = "channel"
    BY <1>1, <1>2, <1>6 DEF IInv, TypeOK, Handing, ChannelHolds
  <2>2. /\ Len(received') = p /\ received'[p] = out[1]
        /\ \A i \in 1 .. Len(received) : received'[i] = received[i]
    BY <2>1, AppendProperties
  <2>3. PICK k1 \in Rest : arrived[k1] = out[1]
    BY <1>2, <2>1 DEF Queueing, ChannelInOrder, InOrder
  <2>4. /\ p \in Rest /\ p \in Nat /\ Rest' = Rest \ {p} /\ p <= Len(arrived)
        /\ \A k \in Rest : k \in Nat /\ p <= k
    BY <1>1, <1>4, <2>2, <2>3 DEF Rest
  <2> HIDE DEF p
  <2>5. arrived[p] = out[1]
    <3>1. CASE p = Len(arrived)
      BY <1>4, <2>3, <2>4, <3>1 DEF Rest
    <3>2. CASE p # Len(arrived)
      <4>1. PICK m \in DOMAIN out : out[m] = arrived[p]
        BY <1>1, <2>4, <3>2 DEF Queueing, NothingLost
      <4>2. PICK k \in Rest, l \in Rest :
                /\ k <= l /\ (k = l <=> 1 = m)
                /\ arrived[k] = out[1] /\ arrived[l] = out[m]
        <5>1. 1 <= m /\ out[m] \in Good
          BY <1>4, <2>4, <4>1, QueueTypes DEF IInv
        <5> QED BY <1>2, <2>1, <5>1 DEF Queueing, ChannelInOrder, InOrder
      <4>3. l = p
        BY <1>4, <2>4, <4>1, <4>2
      <4>4. k = p
        BY <2>4, <4>2, <4>3
      <4> QED BY <4>2, <4>4
    <3> QED BY <3>1, <3>2
  <2>6. ReceivedFirst'
    BY <1>1, <2>2, <2>4, <2>5, <1>4 DEF Queueing, ReceivedFirst, p
  <2>7. PendingLast'
    <3> SUFFICES ASSUME Pending PROVE Len(arrived) # p
      BY <1>1, <1>3, <2>4 DEF Queueing, PendingLast
    <3> QED BY <2>1, <2>5 DEF IInv, Queueing, PendingLast, Handing, PumpHoldsPending
  <2>8. ChannelInOrder'
    <3> SUFFICES ASSUME NEW i \in DOMAIN out', NEW j \in DOMAIN out', i <= j,
                        out'[i] \in Good, out'[j] \in Good
                 PROVE  InOrder(out, i, j)'
      BY DEF ChannelInOrder
    <3>1. PICK k \in Rest, l \in Rest :
              /\ k <= l /\ (k = l <=> i + 1 = j + 1)
              /\ arrived[k] = out[i + 1] /\ arrived[l] = out[j + 1]
      BY <1>2 DEF Queueing, ChannelInOrder, InOrder
    <3>2. out[i + 1] # out[1] /\ out[j + 1] # out[1]
      BY <1>2, <2>1 DEF IInv, Handing, ChannelHolds
    <3>3. k # p /\ l # p
      BY <2>5, <3>1, <3>2
    <3> QED BY <1>1, <1>2, <2>4, <3>1, <3>3 DEF InOrder
  <2>9. NothingLost'
    <3> SUFFICES ASSUME NEW k \in Rest, k # p, ~(k = Len(arrived) /\ (Pending \/ ~Looping))
                 PROVE  \E i \in DOMAIN out' : out'[i] = arrived[k]
      BY <1>1, <1>3, <2>4 DEF NothingLost
    <3>1. PICK i \in DOMAIN out : out[i] = arrived[k]
      BY <1>1 DEF Queueing, NothingLost
    <3>2. i # 1
      BY <1>4, <2>4, <2>5, <3>1
    <3> QED BY <1>2, <3>1, <3>2
  <2> QED BY <1>3, <2>6, <2>7, <2>8, <2>9 DEF Queueing
<1> QED BY <1>5, <1>6

LEMMA QueueingBegins == Init => Queueing
<1> SUFFICES ASSUME Init PROVE Queueing
  OBVIOUS
<1>1. arrived = <<>> /\ received = <<>> /\ out = <<>> /\ pc = "loop"
  BY DEF Init
<1>2. /\ Len(arrived) = 0 /\ Len(received) = 0
      /\ DOMAIN arrived = {} /\ DOMAIN out = {}
  BY <1>1
<1>3. Rest = {} /\ ~Pending
  BY <1>1, <1>2 DEF Rest, Pending
<1> QED BY <1>1, <1>2, <1>3
        DEF Queueing, ArrivedOnce, ReceivedFirst, ChannelInOrder, PendingLast, NothingLost

LEMMA StepQueues == IInv /\ Queueing /\ [Next]_vars => Queueing'
<1> SUFFICES ASSUME IInv, Queueing, [Next]_vars PROVE Queueing'
  OBVIOUS
<1> USE DEF Pending, Looping, MainLoop, peer, task, consumer, settling, history
<1>1. CASE TakeCommand \/ Apply
  BY <1>1, QueueingStays DEF TakeCommand, Apply, IInv, TypeOK
<1>2. CASE LeaveLoop \/ Reject \/ ReceiveFails \/ Reserve \/ LeavePending
  BY <1>2, QueueingStays DEF LeaveLoop, Reject, Receiving, ReceiveFails, Reserve, LeavePending
<1>3. CASE Drained \/ TearDown \/ Exit \/ Stop \/ UNCHANGED vars
  BY <1>3, QueueingStays DEF Drained, TearDown, Exit, Stop, vars
<1>4. CASE DropEnds
  <2>1. CASE subscriber = "dropped"
    BY <1>4, <2>1, QueueingEnds DEF DropEnds
  <2>2. CASE subscriber # "dropped"
    BY <1>4, <2>2, QueueingStays DEF DropEnds
  <2> QED BY <2>1, <2>2
<1>5. CASE DropSubscriber
  BY <1>5, QueueingEnds DEF DropSubscriber
<1>6. ASSUME NEW d \in Deliveries, ReceiveUnreadable(d) PROVE Queueing'
  BY <1>6, QueueingStays DEF ReceiveUnreadable, Receiving
<1>7. ASSUME NEW d \in Deliveries, Settle(d) \/ Return(d) \/ DropHandle(d) PROVE Queueing'
  BY <1>7, QueueingStays DEF Settle, Return, DropHandle
<1> QED BY <1>1, <1>2, <1>3, <1>4, <1>5, <1>6, <1>7, ReceiveQueues, DeliverQueues,
           PermitSendQueues, PollQueues DEF Next, PumpStep

LEMMA QueueingInOrder ==
    ASSUME IInv, Queueing
    PROVE  HandedOverInOrder
<1>1. /\ arrived \in Seq(Good) /\ received \in Seq(Good)
      /\ Len(received) <= Len(arrived)
      /\ \A i \in 1 .. Len(received) : received[i] = arrived[i]
      /\ Len(arrived) \in Nat /\ Len(received) \in Nat
  BY QueueTypes DEF IInv, Queueing, ReceivedFirst
<1>2. IsPrefix(received, arrived)
  BY <1>1 DEF IsPrefix
<1> SUFFICES ASSUME subscriber = "alive", pc \in MainLoop
             PROVE  /\ \A i, j \in DOMAIN OnTheWay :
                          i <= j /\ OnTheWay[i] \in Good /\ OnTheWay[j] \in Good =>
                              InOrder(OnTheWay, i, j)
                    /\ \A k \in Rest : \E i \in DOMAIN OnTheWay : OnTheWay[i] = arrived[k]
  BY <1>2, Zenon DEF HandedOverInOrder, InOrder, Rest
<1> DEFINE n == Len(out)
<1>3. /\ out \in Seq(Deliveries \cup {Nobody}) /\ item \in Deliveries \cup {Nobody}
      /\ n \in Nat /\ DOMAIN out = 1 .. n
  BY QueueTypes DEF IInv, TypeOK
<1>4. Looping /\ (Pending <=> pc \in {"pending", "permit"})
  BY DEF Looping, Pending, MainLoop
<1>5. CASE ~Pending
  <2>1. OnTheWay = out
    BY ConcatEmptySeq, <1>3, <1>4, <1>5 DEF OnTheWay
  <2> QED BY <1>4, <1>5, <2>1 DEF Queueing, ChannelInOrder, NothingLost
<1>6. CASE Pending
  <2>1. OnTheWay = Append(out, item)
    BY <1>3, <1>4, <1>6 DEF OnTheWay
  <2>2. /\ DOMAIN OnTheWay = 1 .. (n + 1)
        /\ \A i \in DOMAIN out : OnTheWay[i] = out[i]
        /\ OnTheWay[n + 1] = item
    BY <1>3, <2>1, AppendProperties, LenProperties
  <2>3. /\ Len(arrived) \in Rest /\ arrived[Len(arrived)] = item
        /\ \A k \in Rest : k <= Len(arrived)
        /\ item \in Good /\ handle[item] = "pump"
    BY <1>6, QueueTypes DEF Queueing, PendingLast, IInv, Rest, Handing, PumpHoldsPending
  <2> HIDE DEF n
  <2>4. ASSUME NEW i \in DOMAIN OnTheWay, NEW j \in DOMAIN OnTheWay, i <= j,
               OnTheWay[i] \in Good, OnTheWay[j] \in Good
        PROVE  InOrder(OnTheWay, i, j)
    <3>1. CASE j \in DOMAIN out
      <4>1. i \in DOMAIN out
        BY <1>3, <2>2, <2>4, <3>1
      <4> QED BY <2>2, <2>4, <3>1, <4>1 DEF Queueing, ChannelInOrder, InOrder
    <3>2. CASE i = n + 1 /\ j = n + 1
      BY <2>2, <2>3, <3>2 DEF InOrder, Rest
    <3>3. CASE i \in DOMAIN out /\ j = n + 1
      <4>1. PICK k \in Rest : arrived[k] = out[i]
        BY <2>2, <2>4, <3>3 DEF Queueing, ChannelInOrder, InOrder
      <4>2. out[i] # item
        BY <2>2, <2>3, <3>3 DEF IInv, Handing, ChannelHolds
      <4>3. k <= Len(arrived) /\ k # Len(arrived) /\ i # j
        BY <1>3, <2>3, <3>3, <4>1, <4>2
      <4> QED BY <2>2, <2>3, <3>3, <4>1, <4>3 DEF InOrder
    <3> QED BY <1>3, <2>2, <2>4, <3>1, <3>2, <3>3
  <2>5. \A k \in Rest : \E i \in DOMAIN OnTheWay : OnTheWay[i] = arrived[k]
    BY <1>3, <1>4, <2>2, <2>3 DEF Queueing, NothingLost
  <2> QED BY <2>4, <2>5
<1> QED BY <1>5, <1>6

\* Handlers get what the link brought in its order, whatever settlements, errors
\* and polls come in between, and while the main loop runs the rest is on its way
\* in that order, each delivery once.
THEOREM HandsOverInOrder == Spec => []HandedOverInOrder
<1>1. IInv /\ Queueing => HandedOverInOrder
  BY QueueingInOrder
<1> QED BY <1>1, QueueingBegins, StepQueues, Invariance, PTL DEF Spec

=============================================================================
