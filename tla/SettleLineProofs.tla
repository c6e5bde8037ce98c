-------------------------- MODULE SettleLineProofs --------------------------
(***************************************************************************)
(* Proofs about SettleLine, for every set of settlements and every credit. *)
(***************************************************************************)
EXTENDS SettleLine, FiniteSetTheorems, SequenceTheorems, TLAPS

(***************************************************************************)
(* The inductive invariant, one named part per idea.                       *)
(***************************************************************************)

Holders == {s \in Settlements : slot[s] # Nobody}

Early == {"new", "pop", "make", "register", "count", "parked"}

Late == {"wake", "notify", "returned"}

\* What a settlement holds, and what it was told, at each step.
Phases ==
    \A s \in Settlements :
        /\ pc[s] \in Early => slot[s] = Nobody /\ result[s] = Nobody
        /\ pc[s] \in {"uncount", "unlist"} =>
            /\ result[s] \in {Nobody, Withdrawn}
            /\ result[s] = Withdrawn => slot[s] = Nobody
        /\ pc[s] \in {"send", "recv"} => slot[s] # Nobody /\ result[s] = Nobody
        /\ pc[s] = "push" => slot[s] # Nobody /\ result[s] \in {s, Stopped}
        /\ pc[s] = "giveup" => slot[s] # Nobody /\ result[s] \in {Stopped, Abandoned}
        /\ pc[s] \in Late => slot[s] = Nobody /\ result[s] # Nobody

\* The counter is true: every slot that exists is idle or held.
SlotCount ==
    /\ made = Cardinality(idle) + Cardinality(Holders)
    /\ made <= Credit

\* A settlement looking for the second time, and one asleep, is counted.
Counted ==
    {s \in Settlements :
        \/ pc[s] \in {"parked", "uncount"}
        \/ pc[s] \in {"pop", "make"} /\ notified[s] # "none"}

WaitingCount ==
    /\ waiting = Cardinality(Counted)
    /\ \A s \in Settlements :
        /\ pc[s] \in {"count", "parked", "uncount", "unlist"} => notified[s] # "none"
        /\ pc[s] \in {"new", "register", "send", "recv", "push", "giveup"} \cup Late
            => notified[s] = "none"

\* No two settlements hold one slot, and no held slot is idle.
SlotsApart ==
    \A s \in Settlements :
        slot[s] # Nobody =>
            /\ slot[s] \notin idle
            /\ \A t \in Settlements : slot[t] = slot[s] => t = s

\* Settlement k has not made its slot yet.
Unmade(k) ==
    \/ pc[k] \in Early
    \/ pc[k] \in {"uncount", "unlist"} /\ slot[k] = Nobody

Pending == {commands[i] : i \in 1 .. Len(commands)} \cup ({inHand} \ {NoCommand})

\* A slot nobody made is nowhere.
UnmadeIsUnused ==
    \A k \in Settlements :
        Unmade(k) =>
            /\ k \notin idle
            /\ \A s \in Settlements : slot[s] # k
            /\ \A c \in Pending : c.reply # k
            /\ answer[k] = Nobody

\* A pending command is its settlement's only one, and so is its slot.
PendingApart ==
    /\ \A i, j \in 1 .. Len(commands) :
        i # j => /\ commands[i].by # commands[j].by
                 /\ commands[i].reply # commands[j].reply
    /\ \A i \in 1 .. Len(commands) :
        inHand # NoCommand => /\ commands[i].by # inHand.by
                              /\ commands[i].reply # inHand.reply

\* The settlement a pending command came from waits for it, or was dropped.
PendingOwned ==
    \A c \in Pending :
        /\ c.by \notin applied
        /\ c.reply \notin idle
        /\ answer[c.reply] = Nobody
        /\ \A s \in Settlements : slot[s] = c.reply => s = c.by
        /\ \/ pc[c.by] = "recv" /\ slot[c.by] = c.reply
           \/ pc[c.by] \in {"giveup"} \cup Late /\ result[c.by] = Abandoned

\* An answer lies in the slot of the settlement it is for.
AnswerOwned ==
    \A k \in Settlements :
        answer[k] # Nobody =>
            /\ k \notin idle
            /\ answer[k] \in Settlements => answer[k] \in applied
            /\ answer[k] = Stopped => pump = "stopped"
            /\ \A s \in Settlements :
                slot[s] = k =>
                    /\ pc[s] \in {"recv", "giveup"}
                    /\ answer[k] \in {s, Stopped}
                    /\ answer[k] = Stopped => s \notin applied

\* Who was told what, against what the peer got.
ResultOwned ==
    \A s \in Settlements :
        /\ s \in applied =>
            /\ pc[s] \in {"recv", "push", "giveup"} \cup Late
            /\ result[s] \in {Nobody, s, Abandoned}
        /\ result[s] \in Settlements => result[s] = s /\ s \in applied
        /\ result[s] = Stopped => pump = "stopped"

\* A stopped pump has nothing to do.
PumpQuiet ==
    pump = "stopped" => inHand = NoCommand /\ commands = <<>>

IInv ==
    /\ TypeOK
    /\ Phases
    /\ SlotCount
    /\ WaitingCount
    /\ SlotsApart
    /\ UnmadeIsUnused
    /\ PendingApart
    /\ PendingOwned
    /\ AnswerOwned
    /\ ResultOwned
    /\ PumpQuiet

-----------------------------------------------------------------------------
(***************************************************************************)
(* The sets that are counted are finite.                                   *)
(***************************************************************************)

LEMMA FiniteParts ==
    ASSUME TypeOK
    PROVE  /\ IsFiniteSet(idle) /\ Cardinality(idle) \in Nat
           /\ IsFiniteSet(Holders) /\ Cardinality(Holders) \in Nat
           /\ IsFiniteSet(Counted) /\ Cardinality(Counted) \in Nat
<1>1. idle \subseteq Settlements /\ Holders \subseteq Settlements
      /\ Counted \subseteq Settlements
  BY DEF TypeOK, Holders, Counted
<1> QED BY <1>1, SettleLineAssumption, FS_Subset, FS_CardinalityType

\* A counter that counts somebody is positive.
LEMMA CountsAreReal ==
    ASSUME TypeOK, SlotCount, WaitingCount
    PROVE  /\ Holders # {} => made > 0
           /\ Counted # {} => waiting > 0
<1>1. \A S : IsFiniteSet(S) /\ S # {} => Cardinality(S) \in Nat /\ Cardinality(S) # 0
  BY FS_EmptySet, FS_CardinalityType
<1> QED BY <1>1, FiniteParts DEF SlotCount, WaitingCount

(***************************************************************************)
(* Facts about the command channel.                                        *)
(***************************************************************************)

LEMMA CommandsTyped ==
    ASSUME TypeOK
    PROVE  /\ Len(commands) \in Nat
           /\ \A i \in 1 .. Len(commands) : commands[i] \in Command
           /\ Pending \subseteq Command
           /\ \A c \in Command : c.by \in Settlements /\ c.reply \in Settlements
<1>1. \A c \in Command : c.by \in Settlements /\ c.reply \in Settlements
  BY DEF Command
<1>2. Len(commands) \in Nat /\ \A i \in 1 .. Len(commands) : commands[i] \in Command
  BY LenProperties, ElementOfSeq DEF TypeOK
<1>3. inHand # NoCommand => inHand \in Command
  BY DEF TypeOK
<1> QED BY <1>1, <1>2, <1>3 DEF Pending

LEMMA NoCommandIsNone == NoCommand \notin Command
BY NullAssumption DEF Command, NoCommand

LEMMA Sent ==
    ASSUME TypeOK, NEW cmd \in Command, commands' = Append(commands, cmd),
           inHand' = inHand
    PROVE  /\ commands' \in Seq(Command)
           /\ Len(commands') = Len(commands) + 1
           /\ \A i \in 1 .. Len(commands) : commands'[i] = commands[i]
           /\ commands'[Len(commands) + 1] = cmd
           /\ Pending' = Pending \cup {cmd}
<1>1. /\ commands' \in Seq(Command)
      /\ Len(commands') = Len(commands) + 1
      /\ \A i \in 1 .. Len(commands) : commands'[i] = commands[i]
      /\ commands'[Len(commands) + 1] = cmd
  BY AppendProperties DEF TypeOK
<1>2. \A i \in 1 .. Len(commands') :
        i \in 1 .. Len(commands) \/ i = Len(commands) + 1
  BY <1>1, CommandsTyped
<1>3. 1 .. Len(commands) \subseteq 1 .. Len(commands') /\ Len(commands) + 1 \in 1 .. Len(commands')
  BY <1>1, CommandsTyped
<1> QED BY <1>1, <1>2, <1>3 DEF Pending

LEMMA Received ==
    ASSUME TypeOK, PumpTakes
    PROVE  /\ commands' \in Seq(Command)
           /\ inHand' \in Command
           /\ Len(commands') = Len(commands) - 1
           /\ Len(commands) > 0
           /\ inHand' = commands[1]
           /\ \A i \in 1 .. Len(commands') : commands'[i] = commands[i + 1]
           /\ Pending' = Pending
<1>1. commands \in Seq(Command) /\ commands # <<>>
  BY DEF TypeOK, PumpTakes
<1>2. /\ Tail(commands) \in Seq(Command)
      /\ Len(Tail(commands)) = Len(commands) - 1
      /\ \A i \in 1 .. Len(Tail(commands)) : Tail(commands)[i] = commands[i + 1]
  BY <1>1, HeadTailProperties
<1>3. Head(commands) \in Command /\ Head(commands) = commands[1] /\ Len(commands) > 0
  BY <1>1, HeadTailProperties, EmptySeq, LenProperties
<1>4. \A i \in 1 .. Len(commands) : i = 1 \/ i - 1 \in 1 .. Len(commands')
  BY <1>2, CommandsTyped DEF PumpTakes
<1>5. {commands[i] : i \in 1 .. Len(commands)} =
        {commands'[i] : i \in 1 .. Len(commands')} \cup {commands[1]}
  <2>1. ASSUME NEW i \in 1 .. Len(commands)
        PROVE  commands[i] \in {commands'[j] : j \in 1 .. Len(commands')} \cup {commands[1]}
    BY <1>2, <1>4, CommandsTyped DEF PumpTakes
  <2>2. ASSUME NEW i \in 1 .. Len(commands')
        PROVE  i + 1 \in 1 .. Len(commands) /\ commands'[i] = commands[i + 1]
    BY <1>2, CommandsTyped DEF PumpTakes
  <2> QED BY <2>1, <2>2, <1>3, CommandsTyped
<1> QED BY <1>2, <1>3, <1>5, NoCommandIsNone DEF PumpTakes, Pending

LEMMA SettleKeeps ==
    ASSUME NEW s \in Settlements, IInv, Settle(s)
    PROVE  IInv'
<1> USE SettleLineAssumption, NullAssumption DEF NoCommand, Steps, Goto, Early, Late, taking, serving
<1>1. TypeOK'
  BY DEF IInv, TypeOK, Settle
<1>2. Phases'
  BY DEF IInv, Phases, TypeOK, Settle
<1>3. WaitingCount'
  <2>1. Counted' = Counted
    BY DEF IInv, TypeOK, Phases, WaitingCount, Counted, Settle
  <2> QED BY <2>1 DEF IInv, TypeOK, WaitingCount, Settle
<1>4. UnmadeIsUnused'
  BY DEF IInv, UnmadeIsUnused, Unmade, Pending, Phases, SlotsApart, TypeOK,
         Settle
<1>5. PendingOwned'
  BY DEF IInv, PendingOwned, Pending, PendingApart, Phases, SlotsApart,
         UnmadeIsUnused, Unmade, AnswerOwned, ResultOwned, TypeOK, Settle
<1>6. AnswerOwned'
  BY DEF IInv, AnswerOwned, PendingOwned, Pending, Phases, SlotsApart,
         UnmadeIsUnused, Unmade, ResultOwned, PendingApart, TypeOK, Settle
<1>7. ResultOwned'
  BY DEF IInv, ResultOwned, Phases, AnswerOwned, PendingOwned, Pending,
         UnmadeIsUnused, Unmade, TypeOK, Settle
<1>8. (SlotCount /\ SlotsApart /\ PendingApart /\ PumpQuiet)'
  BY DEF IInv, SlotCount, Holders, SlotsApart, PendingApart, PumpQuiet, Settle
<1> QED BY <1>1, <1>2, <1>3, <1>4, <1>5, <1>6, <1>7, <1>8 DEF IInv

LEMMA PopKeeps ==
    ASSUME NEW s \in Settlements, IInv, Pop(s)
    PROVE  IInv'
<1> USE SettleLineAssumption, NullAssumption DEF NoCommand, Steps, Goto, Early, Late, taking, serving
<1>1. TypeOK'
  BY DEF IInv, TypeOK, Pop, Took
<1>2. Phases'
  BY DEF IInv, Phases, TypeOK, Pop, Took
<1>3. SlotCount'
  <2>1. CASE UNCHANGED <<slot, idle>>
    BY <2>1 DEF IInv, SlotCount, Holders, Pop
  <2>2. CASE \E k \in idle : idle' = idle \ {k} /\ (Took(s, k) \/ Took(s, s))
    <3>1. PICK k \in idle : idle' = idle \ {k} /\ (Took(s, k) \/ Took(s, s))
      BY <2>2
    <3>2. Holders' = Holders \cup {s} /\ s \notin Holders
      BY <3>1 DEF IInv, TypeOK, Phases, Pop, Took, Holders
    <3>3. /\ Cardinality(idle') = Cardinality(idle) - 1
          /\ Cardinality(Holders') = Cardinality(Holders) + 1
      BY <3>1, <3>2, FiniteParts, FS_AddElement, FS_RemoveElement DEF IInv
    <3> QED BY <3>3, FiniteParts DEF IInv, TypeOK, SlotCount, Pop
  <2> QED BY <2>1, <2>2 DEF Pop
<1>4. WaitingCount'
  <2>1. Counted' = Counted
    BY DEF IInv, TypeOK, Phases, WaitingCount, Counted, Pop, Took
  <2> QED BY <2>1 DEF IInv, TypeOK, WaitingCount, Pop, Took
<1>5. SlotsApart'
  BY DEF IInv, SlotsApart, Phases, UnmadeIsUnused, Unmade, Pending, TypeOK,
         Pop, Took, SenderOut
<1>6. UnmadeIsUnused'
  BY DEF IInv, UnmadeIsUnused, Unmade, Pending, Phases, SlotsApart, TypeOK,
         Pop, Took, SenderOut
<1>7. PendingOwned'
  <2>1. Pending' = Pending
    BY DEF Pending, Pop
  <2>2. \A c \in Pending : c.by \in Settlements /\ c.reply \in Settlements
    BY CommandsTyped DEF IInv
  <2> QED BY <2>1, <2>2 DEF IInv, TypeOK, Phases, SlotsApart, UnmadeIsUnused,
                         Unmade, PendingOwned, Pop, Took, SenderOut
<1>8. AnswerOwned'
  BY DEF IInv, AnswerOwned, PendingOwned, Pending, Phases, SlotsApart,
         UnmadeIsUnused, Unmade, ResultOwned, PendingApart, TypeOK, Pop, Took,
         SenderOut
<1>9. ResultOwned'
  BY DEF IInv, ResultOwned, Phases, AnswerOwned, PendingOwned, Pending,
         UnmadeIsUnused, Unmade, TypeOK, Pop, Took, SenderOut
<1>10. (PendingApart /\ PumpQuiet)'
  BY DEF IInv, PendingApart, PumpQuiet, Pop
<1> QED BY <1>1, <1>2, <1>3, <1>4, <1>5, <1>6, <1>7, <1>8, <1>9, <1>10 DEF IInv

LEMMA MakeKeeps ==
    ASSUME NEW s \in Settlements, IInv, Make(s)
    PROVE  IInv'
<1> USE SettleLineAssumption, NullAssumption DEF NoCommand, Steps, Goto, Early, Late, taking, serving
<1>1. TypeOK'
  BY DEF IInv, TypeOK, Make, Took
<1>2. Phases'
  BY DEF IInv, Phases, TypeOK, Make, Took
<1>3. SlotCount'
  <2>1. CASE UNCHANGED <<slot, made>>
    BY <2>1 DEF IInv, SlotCount, Holders, Make
  <2>2. CASE made < Credit /\ made' = made + 1 /\ Took(s, s)
    <3>1. Holders' = Holders \cup {s} /\ s \notin Holders
      BY <2>2 DEF IInv, TypeOK, Phases, Make, Took, Holders
    <3>2. Cardinality(Holders') = Cardinality(Holders) + 1
      BY <3>1, FiniteParts, FS_AddElement DEF IInv
    <3> QED BY <2>2, <3>2, FiniteParts DEF IInv, TypeOK, SlotCount, Make
  <2> QED BY <2>1, <2>2 DEF Make
<1>4. WaitingCount'
  <2>1. Counted' = Counted
    BY DEF IInv, TypeOK, Phases, WaitingCount, Counted, Make, Took
  <2> QED BY <2>1 DEF IInv, TypeOK, WaitingCount, Make, Took
<1>5. SlotsApart'
  BY DEF IInv, SlotsApart, Phases, UnmadeIsUnused, Unmade, Pending, TypeOK,
         Make, Took
<1>6. UnmadeIsUnused'
  BY DEF IInv, UnmadeIsUnused, Unmade, Pending, Phases, SlotsApart, TypeOK,
         Make, Took
<1>7. PendingOwned'
  <2>1. Pending' = Pending
    BY DEF Pending, Make
  <2>2. \A c \in Pending : c.by \in Settlements /\ c.reply \in Settlements
    BY CommandsTyped DEF IInv
  <2> QED BY <2>1, <2>2 DEF IInv, TypeOK, Phases, SlotsApart, UnmadeIsUnused,
                         Unmade, PendingOwned, Make, Took
<1>8. AnswerOwned'
  BY DEF IInv, AnswerOwned, PendingOwned, Pending, Phases, SlotsApart,
         UnmadeIsUnused, Unmade, ResultOwned, PendingApart, TypeOK, Make, Took
<1>9. ResultOwned'
  BY DEF IInv, ResultOwned, Phases, AnswerOwned, PendingOwned, Pending,
         UnmadeIsUnused, Unmade, TypeOK, Make, Took
<1>10. (PendingApart /\ PumpQuiet)'
  BY DEF IInv, PendingApart, PumpQuiet, Make
<1> QED BY <1>1, <1>2, <1>3, <1>4, <1>5, <1>6, <1>7, <1>8, <1>9, <1>10 DEF IInv

LEMMA RegisterKeeps ==
    ASSUME NEW s \in Settlements, IInv, Register(s)
    PROVE  IInv'
<1> USE SettleLineAssumption, NullAssumption DEF NoCommand, Steps, Goto, Early, Late, taking, serving
<1>1. TypeOK'
  BY DEF IInv, TypeOK, Register
<1>2. Phases'
  BY DEF IInv, Phases, TypeOK, Register
<1>3. WaitingCount'
  <2>1. Counted' = Counted
    BY DEF IInv, TypeOK, Phases, WaitingCount, Counted, Register
  <2> QED BY <2>1 DEF IInv, TypeOK, WaitingCount, Register
<1>4. UnmadeIsUnused'
  BY DEF IInv, UnmadeIsUnused, Unmade, Pending, Phases, SlotsApart, TypeOK,
         Register
<1>5. PendingOwned'
  BY DEF IInv, PendingOwned, Pending, PendingApart, Phases, SlotsApart,
         UnmadeIsUnused, Unmade, AnswerOwned, ResultOwned, TypeOK, Register
<1>6. AnswerOwned'
  BY DEF IInv, AnswerOwned, PendingOwned, Pending, Phases, SlotsApart,
         UnmadeIsUnused, Unmade, ResultOwned, PendingApart, TypeOK, Register
<1>7. ResultOwned'
  BY DEF IInv, ResultOwned, Phases, AnswerOwned, PendingOwned, Pending,
         UnmadeIsUnused, Unmade, TypeOK, Register
<1>8. (SlotCount /\ SlotsApart /\ PendingApart /\ PumpQuiet)'
  BY DEF IInv, SlotCount, Holders, SlotsApart, PendingApart, PumpQuiet,
         Register
<1> QED BY <1>1, <1>2, <1>3, <1>4, <1>5, <1>6, <1>7, <1>8 DEF IInv

LEMMA CountKeeps ==
    ASSUME NEW s \in Settlements, IInv, Count(s)
    PROVE  IInv'
<1> USE SettleLineAssumption, NullAssumption DEF NoCommand, Steps, Goto, Early, Late, taking, serving
<1>1. TypeOK'
  BY DEF IInv, TypeOK, Count
<1>2. Phases'
  BY DEF IInv, Phases, TypeOK, Count
<1>3. WaitingCount'
  <2>1. Counted' = Counted \cup {s} /\ s \notin Counted
    BY DEF IInv, TypeOK, WaitingCount, Counted, Count
  <2>2. Cardinality(Counted') = Cardinality(Counted) + 1
    BY <2>1, FiniteParts, FS_AddElement DEF IInv
  <2> QED BY <2>2 DEF IInv, TypeOK, WaitingCount, Count
<1>4. UnmadeIsUnused'
  BY DEF IInv, UnmadeIsUnused, Unmade, Pending, Phases, SlotsApart, TypeOK,
         Count
<1>5. PendingOwned'
  BY DEF IInv, PendingOwned, Pending, PendingApart, Phases, SlotsApart,
         UnmadeIsUnused, Unmade, AnswerOwned, ResultOwned, TypeOK, Count
<1>6. AnswerOwned'
  BY DEF IInv, AnswerOwned, PendingOwned, Pending, Phases, SlotsApart,
         UnmadeIsUnused, Unmade, ResultOwned, PendingApart, TypeOK, Count
<1>7. ResultOwned'
  BY DEF IInv, ResultOwned, Phases, AnswerOwned, PendingOwned, Pending,
         UnmadeIsUnused, Unmade, TypeOK, Count
<1>8. (SlotCount /\ SlotsApart /\ PendingApart /\ PumpQuiet)'
  BY DEF IInv, SlotCount, Holders, SlotsApart, PendingApart, PumpQuiet, Count
<1> QED BY <1>1, <1>2, <1>3, <1>4, <1>5, <1>6, <1>7, <1>8 DEF IInv

LEMMA AwakeKeeps ==
    ASSUME NEW s \in Settlements, IInv, Awake(s)
    PROVE  IInv'
<1> USE SettleLineAssumption, NullAssumption DEF NoCommand, Steps, Goto, Early, Late, taking, serving
<1>1. TypeOK'
  BY DEF IInv, TypeOK, Awake
<1>2. Phases'
  BY DEF IInv, Phases, TypeOK, Awake
<1>3. WaitingCount'
  <2>1. Counted' = Counted
    BY DEF IInv, TypeOK, Phases, WaitingCount, Counted, Awake
  <2> QED BY <2>1 DEF IInv, TypeOK, WaitingCount, Awake
<1>4. UnmadeIsUnused'
  BY DEF IInv, UnmadeIsUnused, Unmade, Pending, Phases, SlotsApart, TypeOK,
         Awake
<1>5. PendingOwned'
  BY DEF IInv, PendingOwned, Pending, PendingApart, Phases, SlotsApart,
         UnmadeIsUnused, Unmade, AnswerOwned, ResultOwned, TypeOK, Awake
<1>6. AnswerOwned'
  BY DEF IInv, AnswerOwned, PendingOwned, Pending, Phases, SlotsApart,
         UnmadeIsUnused, Unmade, ResultOwned, PendingApart, TypeOK, Awake
<1>7. ResultOwned'
  BY DEF IInv, ResultOwned, Phases, AnswerOwned, PendingOwned, Pending,
         UnmadeIsUnused, Unmade, TypeOK, Awake
<1>8. (SlotCount /\ SlotsApart /\ PendingApart /\ PumpQuiet)'
  BY DEF IInv, SlotCount, Holders, SlotsApart, PendingApart, PumpQuiet, Awake
<1> QED BY <1>1, <1>2, <1>3, <1>4, <1>5, <1>6, <1>7, <1>8 DEF IInv

LEMMA CancelParkedKeeps ==
    ASSUME NEW s \in Settlements, IInv, CancelParked(s)
    PROVE  IInv'
<1> USE SettleLineAssumption, NullAssumption DEF NoCommand, Steps, Goto, Early, Late, taking, serving
<1>1. TypeOK'
  BY DEF IInv, TypeOK, CancelParked
<1>2. Phases'
  BY DEF IInv, Phases, TypeOK, CancelParked
<1>3. WaitingCount'
  <2>1. Counted' = Counted
    BY DEF IInv, TypeOK, Phases, WaitingCount, Counted, CancelParked
  <2> QED BY <2>1 DEF IInv, TypeOK, WaitingCount, CancelParked
<1>4. UnmadeIsUnused'
  BY DEF IInv, UnmadeIsUnused, Unmade, Pending, Phases, SlotsApart, TypeOK,
         CancelParked
<1>5. PendingOwned'
  BY DEF IInv, PendingOwned, Pending, PendingApart, Phases, SlotsApart,
         UnmadeIsUnused, Unmade, AnswerOwned, ResultOwned, TypeOK,
         CancelParked
<1>6. AnswerOwned'
  BY DEF IInv, AnswerOwned, PendingOwned, Pending, Phases, SlotsApart,
         UnmadeIsUnused, Unmade, ResultOwned, PendingApart, TypeOK,
         CancelParked
<1>7. ResultOwned'
  BY DEF IInv, ResultOwned, Phases, AnswerOwned, PendingOwned, Pending,
         UnmadeIsUnused, Unmade, TypeOK, CancelParked
<1>8. (SlotCount /\ SlotsApart /\ PendingApart /\ PumpQuiet)'
  BY DEF IInv, SlotCount, Holders, SlotsApart, PendingApart, PumpQuiet,
         CancelParked
<1> QED BY <1>1, <1>2, <1>3, <1>4, <1>5, <1>6, <1>7, <1>8 DEF IInv

LEMMA UncountKeeps ==
    ASSUME NEW s \in Settlements, IInv, Uncount(s)
    PROVE  IInv'
<1> USE SettleLineAssumption, NullAssumption DEF NoCommand, Steps, Goto, Early, Late, taking, serving
<1>1. TypeOK'
  <2>1. waiting > 0
    BY CountsAreReal DEF IInv, TypeOK, Counted, Uncount
  <2> QED BY <2>1 DEF IInv, TypeOK, Uncount
<1>2. Phases'
  BY DEF IInv, Phases, TypeOK, Uncount
<1>3. WaitingCount'
  <2>1. Counted' = Counted \ {s} /\ s \in Counted
    BY DEF IInv, TypeOK, WaitingCount, Counted, Uncount
  <2>2. Cardinality(Counted') = Cardinality(Counted) - 1
    BY <2>1, FiniteParts, FS_RemoveElement DEF IInv
  <2> QED BY <2>2 DEF IInv, TypeOK, WaitingCount, Uncount
<1>4. UnmadeIsUnused'
  BY DEF IInv, UnmadeIsUnused, Unmade, Pending, Phases, SlotsApart, TypeOK,
         Uncount
<1>5. PendingOwned'
  BY DEF IInv, PendingOwned, Pending, PendingApart, Phases, SlotsApart,
         UnmadeIsUnused, Unmade, AnswerOwned, ResultOwned, TypeOK, Uncount
<1>6. AnswerOwned'
  BY DEF IInv, AnswerOwned, PendingOwned, Pending, Phases, SlotsApart,
         UnmadeIsUnused, Unmade, ResultOwned, PendingApart, TypeOK, Uncount
<1>7. ResultOwned'
  BY DEF IInv, ResultOwned, Phases, AnswerOwned, PendingOwned, Pending,
         UnmadeIsUnused, Unmade, TypeOK, Uncount
<1>8. (SlotCount /\ SlotsApart /\ PendingApart /\ PumpQuiet)'
  BY DEF IInv, SlotCount, Holders, SlotsApart, PendingApart, PumpQuiet,
         Uncount
<1> QED BY <1>1, <1>2, <1>3, <1>4, <1>5, <1>6, <1>7, <1>8 DEF IInv

LEMMA UnlistKeeps ==
    ASSUME NEW s \in Settlements, IInv, Unlist(s)
    PROVE  IInv'
<1> USE SettleLineAssumption, NullAssumption DEF NoCommand, Steps, Goto, Early, Late, taking, serving
<1>1. TypeOK'
  BY DEF IInv, TypeOK, Unlist, NotifyOne
<1>2. Phases'
  BY DEF IInv, Phases, TypeOK, Unlist, NotifyOne
<1>3. WaitingCount'
  <2>1. Counted' = Counted
    BY DEF IInv, TypeOK, Phases, WaitingCount, Counted, Unlist, NotifyOne
  <2> QED BY <2>1 DEF IInv, TypeOK, WaitingCount, Unlist, NotifyOne
<1>4. UnmadeIsUnused'
  BY DEF IInv, UnmadeIsUnused, Unmade, Pending, Phases, SlotsApart, TypeOK,
         Unlist, NotifyOne
<1>5. PendingOwned'
  BY DEF IInv, PendingOwned, Pending, PendingApart, Phases, SlotsApart,
         UnmadeIsUnused, Unmade, AnswerOwned, ResultOwned, TypeOK, Unlist,
         NotifyOne
<1>6. AnswerOwned'
  BY DEF IInv, AnswerOwned, PendingOwned, Pending, Phases, SlotsApart,
         UnmadeIsUnused, Unmade, ResultOwned, PendingApart, TypeOK, Unlist,
         NotifyOne
<1>7. ResultOwned'
  BY DEF IInv, ResultOwned, Phases, AnswerOwned, PendingOwned, Pending,
         UnmadeIsUnused, Unmade, TypeOK, Unlist, NotifyOne
<1>8. (SlotCount /\ SlotsApart /\ PendingApart /\ PumpQuiet)'
  BY DEF IInv, SlotCount, Holders, SlotsApart, PendingApart, PumpQuiet, Unlist
<1> QED BY <1>1, <1>2, <1>3, <1>4, <1>5, <1>6, <1>7, <1>8 DEF IInv

LEMMA SendKeeps ==
    ASSUME NEW s \in Settlements, IInv, Send(s)
    PROVE  IInv'
<1> USE SettleLineAssumption, NullAssumption DEF NoCommand, Steps, Goto, Early, Late, taking, serving
<1>1. TypeOK'
  <2>1. CASE pump = "stopped"
    BY <2>1 DEF IInv, TypeOK, Send
  <2>2. CASE pump = "serving"
    <3> DEFINE cmd == [by |-> s, reply |-> slot[s]]
    <3>1. cmd \in Command
      BY DEF IInv, TypeOK, Phases, Send, Command
    <3>2. commands' = Append(commands, cmd) /\ inHand' = inHand
      BY <2>2 DEF Send
    <3>3. commands' \in Seq(Command)
      BY <3>1, <3>2, Sent DEF IInv
    <3> QED BY <2>2, <3>3 DEF IInv, TypeOK, Send
  <2> QED BY <2>1, <2>2 DEF IInv, TypeOK
<1>2. Phases'
  BY DEF IInv, Phases, TypeOK, Send
<1>3. WaitingCount'
  <2>1. Counted' = Counted
    BY DEF IInv, TypeOK, Phases, WaitingCount, Counted, Send
  <2> QED BY <2>1 DEF IInv, TypeOK, WaitingCount, Send
<1>4. UnmadeIsUnused'
  <2>1. CASE pump = "stopped"
    <3>1. UNCHANGED <<commands, inHand, Pending>>
      BY <2>1 DEF Send, Pending
    <3> QED BY <2>1, <3>1, CommandsTyped DEF IInv, TypeOK, Phases, SlotsApart, UnmadeIsUnused, Unmade, Send
  <2>2. CASE pump = "serving"
    <3> DEFINE cmd == [by |-> s, reply |-> slot[s]]
    <3>1. cmd \in Command
      BY DEF IInv, TypeOK, Phases, Send, Command
    <3>2. commands' = Append(commands, cmd) /\ inHand' = inHand
      BY <2>2 DEF Send
    <3>3. /\ Pending' = Pending \cup {cmd}
          /\ Len(commands') = Len(commands) + 1
          /\ \A i \in 1 .. Len(commands) : commands'[i] = commands[i]
          /\ commands'[Len(commands) + 1] = cmd
      BY <3>1, <3>2, Sent DEF IInv
    <3>4. \A c \in Pending : c.by # s /\ c.reply # slot[s]
      BY CommandsTyped DEF IInv, TypeOK, Phases, PendingOwned, Send
    <3> QED BY <2>2, <3>2, <3>3, <3>4, CommandsTyped DEF IInv, TypeOK, Phases, SlotsApart, UnmadeIsUnused, Unmade, Send
  <2> QED BY <2>1, <2>2 DEF IInv, TypeOK
<1>5. PendingApart'
  <2>1. CASE pump = "stopped"
    BY <2>1 DEF IInv, PendingApart, Send
  <2>2. CASE pump = "serving"
    <3> DEFINE cmd == [by |-> s, reply |-> slot[s]]
    <3>1. cmd \in Command
      BY DEF IInv, TypeOK, Phases, Send, Command
    <3>2. commands' = Append(commands, cmd) /\ inHand' = inHand
      BY <2>2 DEF Send
    <3>3. /\ Len(commands') = Len(commands) + 1
          /\ \A i \in 1 .. Len(commands) : commands'[i] = commands[i]
          /\ commands'[Len(commands) + 1] = cmd
      BY <3>1, <3>2, Sent DEF IInv
    <3>4. \A c \in Pending : c.by # s /\ c.reply # slot[s]
      BY CommandsTyped DEF IInv, TypeOK, Phases, PendingOwned, Send
    <3>5. \A i \in 1 .. Len(commands) : commands[i] \in Pending
      BY DEF Pending
    <3>6. inHand # NoCommand => inHand \in Pending
      BY DEF Pending
    <3>7. \A i \in 1 .. Len(commands') : i \in 1 .. Len(commands) \/ i = Len(commands) + 1
      BY <3>3, CommandsTyped DEF IInv
    <3> HIDE DEF cmd
    <3>8. cmd.by = s /\ cmd.reply = slot[s]
      BY DEF cmd
    <3> QED BY <3>2, <3>3, <3>4, <3>5, <3>6, <3>7, <3>8 DEF IInv, PendingApart
  <2> QED BY <2>1, <2>2 DEF IInv, TypeOK
<1>6. PendingOwned'
  <2>1. CASE pump = "stopped"
    <3>1. UNCHANGED <<commands, inHand, Pending>>
      BY <2>1 DEF Send, Pending
    <3> QED BY <2>1, <3>1, CommandsTyped DEF IInv, TypeOK, Phases, SlotsApart, UnmadeIsUnused, Unmade, PendingOwned, AnswerOwned, ResultOwned, Send
  <2>2. CASE pump = "serving"
    <3> DEFINE cmd == [by |-> s, reply |-> slot[s]]
    <3>1. cmd \in Command
      BY DEF IInv, TypeOK, Phases, Send, Command
    <3>2. commands' = Append(commands, cmd) /\ inHand' = inHand
      BY <2>2 DEF Send
    <3>3. /\ Pending' = Pending \cup {cmd}
          /\ Len(commands') = Len(commands) + 1
          /\ \A i \in 1 .. Len(commands) : commands'[i] = commands[i]
          /\ commands'[Len(commands) + 1] = cmd
      BY <3>1, <3>2, Sent DEF IInv
    <3>4. \A c \in Pending : c.by # s /\ c.reply # slot[s]
      BY CommandsTyped DEF IInv, TypeOK, Phases, PendingOwned, Send
    <3> QED BY <2>2, <3>2, <3>3, <3>4, CommandsTyped DEF IInv, TypeOK, Phases, SlotsApart, UnmadeIsUnused, Unmade, PendingOwned, AnswerOwned, ResultOwned, Send
  <2> QED BY <2>1, <2>2 DEF IInv, TypeOK
<1>7. AnswerOwned'
  BY DEF IInv, AnswerOwned, PendingOwned, Pending, Phases, SlotsApart,
         UnmadeIsUnused, Unmade, ResultOwned, PendingApart, TypeOK, Send
<1>8. ResultOwned'
  BY DEF IInv, ResultOwned, Phases, AnswerOwned, PendingOwned, Pending,
         UnmadeIsUnused, Unmade, TypeOK, Send
<1>9. PumpQuiet'
  BY DEF IInv, PumpQuiet, TypeOK, Send
<1>10. (SlotCount /\ SlotsApart)'
  BY DEF IInv, SlotCount, Holders, SlotsApart, Send
<1> QED BY <1>1, <1>2, <1>3, <1>4, <1>5, <1>6, <1>7, <1>8, <1>9, <1>10 DEF IInv

LEMMA RecvKeeps ==
    ASSUME NEW s \in Settlements, IInv, Recv(s)
    PROVE  IInv'
<1> USE SettleLineAssumption, NullAssumption DEF NoCommand, Steps, Goto, Early, Late, taking, serving
<1>1. TypeOK'
  <2>1. answer[slot[s]] \in Settlements \cup {Stopped}
    BY DEF IInv, TypeOK, Phases, Recv
  <2> QED BY <2>1 DEF IInv, TypeOK, Recv
<1>2. Phases'
  <2>1. answer[slot[s]] \in {s, Stopped} /\ slot[s] # Nobody
    BY DEF IInv, TypeOK, Phases, AnswerOwned, Recv
  <2> QED BY <2>1 DEF IInv, TypeOK, Phases, Recv
<1>3. WaitingCount'
  <2>1. Counted' = Counted
    BY DEF IInv, TypeOK, Phases, WaitingCount, Counted, Recv
  <2> QED BY <2>1 DEF IInv, TypeOK, WaitingCount, Recv
<1>4. UnmadeIsUnused'
  BY DEF IInv, UnmadeIsUnused, Unmade, Pending, Phases, SlotsApart, TypeOK,
         Recv
<1>5. PendingOwned'
  BY DEF IInv, PendingOwned, Pending, PendingApart, Phases, SlotsApart,
         UnmadeIsUnused, Unmade, AnswerOwned, ResultOwned, TypeOK, Recv
<1>6. AnswerOwned'
  BY DEF IInv, AnswerOwned, PendingOwned, Pending, Phases, SlotsApart,
         UnmadeIsUnused, Unmade, ResultOwned, PendingApart, TypeOK, Recv
<1>7. ResultOwned'
  BY DEF IInv, ResultOwned, Phases, AnswerOwned, PendingOwned, Pending,
         UnmadeIsUnused, Unmade, TypeOK, Recv
<1>8. (SlotCount /\ SlotsApart /\ PendingApart /\ PumpQuiet)'
  BY DEF IInv, SlotCount, Holders, SlotsApart, PendingApart, PumpQuiet, Recv
<1> QED BY <1>1, <1>2, <1>3, <1>4, <1>5, <1>6, <1>7, <1>8 DEF IInv

LEMMA CancelRecvKeeps ==
    ASSUME NEW s \in Settlements, IInv, CancelRecv(s)
    PROVE  IInv'
<1> USE SettleLineAssumption, NullAssumption DEF NoCommand, Steps, Goto, Early, Late, taking, serving
<1>1. TypeOK'
  BY DEF IInv, TypeOK, CancelRecv
<1>2. Phases'
  BY DEF IInv, Phases, TypeOK, CancelRecv
<1>3. WaitingCount'
  <2>1. Counted' = Counted
    BY DEF IInv, TypeOK, Phases, WaitingCount, Counted, CancelRecv
  <2> QED BY <2>1 DEF IInv, TypeOK, WaitingCount, CancelRecv
<1>4. UnmadeIsUnused'
  BY DEF IInv, UnmadeIsUnused, Unmade, Pending, Phases, SlotsApart, TypeOK,
         CancelRecv
<1>5. PendingOwned'
  BY DEF IInv, PendingOwned, Pending, PendingApart, Phases, SlotsApart,
         UnmadeIsUnused, Unmade, AnswerOwned, ResultOwned, TypeOK, CancelRecv
<1>6. AnswerOwned'
  BY DEF IInv, AnswerOwned, PendingOwned, Pending, Phases, SlotsApart,
         UnmadeIsUnused, Unmade, ResultOwned, PendingApart, TypeOK, CancelRecv
<1>7. ResultOwned'
  BY DEF IInv, ResultOwned, Phases, AnswerOwned, PendingOwned, Pending,
         UnmadeIsUnused, Unmade, TypeOK, CancelRecv
<1>8. (SlotCount /\ SlotsApart /\ PendingApart /\ PumpQuiet)'
  BY DEF IInv, SlotCount, Holders, SlotsApart, PendingApart, PumpQuiet,
         CancelRecv
<1> QED BY <1>1, <1>2, <1>3, <1>4, <1>5, <1>6, <1>7, <1>8 DEF IInv

LEMMA PushKeeps ==
    ASSUME NEW s \in Settlements, IInv, Push(s)
    PROVE  IInv'
<1> USE SettleLineAssumption, NullAssumption DEF NoCommand, Steps, Goto, Early, Late, taking, serving
<1>1. TypeOK'
  <2>1. s \in Holders
    BY DEF IInv, TypeOK, Phases, Push, Holders
  <2>2. made > 0 /\ slot[s] \in Settlements
    BY <2>1, CountsAreReal DEF IInv, TypeOK, Holders
  <2> QED BY <2>2 DEF IInv, TypeOK, Push
<1>2. Phases'
  BY DEF IInv, Phases, TypeOK, Push
<1>3. SlotCount'
  <2>1. /\ Holders' = Holders \ {s} /\ s \in Holders
        /\ slot[s] \notin idle
    BY DEF IInv, TypeOK, Phases, SlotsApart, Push, Holders
  <2>2. Cardinality(Holders') = Cardinality(Holders) - 1
    BY <2>1, FiniteParts, FS_RemoveElement DEF IInv
  <2>3. Cardinality(idle \cup {slot[s]}) = Cardinality(idle) + 1
    BY <2>1, FiniteParts, FS_AddElement DEF IInv
  <2>4. CASE Cardinality(idle) < Credit
    <3>1. Cardinality(idle') = Cardinality(idle) + 1 /\ made' = made
      BY <2>3, <2>4 DEF Push
    <3> QED BY <2>2, <3>1, FiniteParts DEF IInv, TypeOK, SlotCount
  <2>5. CASE ~(Cardinality(idle) < Credit)
    <3>1. idle' = idle /\ made' = made - 1
      BY <2>5 DEF Push
    <3> QED BY <2>2, <3>1, FiniteParts DEF IInv, TypeOK, SlotCount
  <2> QED BY <2>4, <2>5
<1>4. WaitingCount'
  <2>1. Counted' = Counted
    BY DEF IInv, TypeOK, Phases, WaitingCount, Counted, Push
  <2> QED BY <2>1 DEF IInv, TypeOK, WaitingCount, Push
<1>5. SlotsApart'
  BY DEF IInv, SlotsApart, Phases, UnmadeIsUnused, Unmade, Pending, TypeOK,
         Push
<1>6. UnmadeIsUnused'
  BY DEF IInv, UnmadeIsUnused, Unmade, Pending, Phases, SlotsApart, TypeOK,
         Push
<1>7. PendingOwned'
  <2>1. Pending' = Pending
    BY DEF Pending, Push
  <2>2. \A c \in Pending : c.by \in Settlements /\ c.reply \in Settlements
    BY CommandsTyped DEF IInv
  <2> QED BY <2>1, <2>2 DEF IInv, TypeOK, Phases, SlotsApart, UnmadeIsUnused,
                         Unmade, PendingOwned, Push
<1>8. AnswerOwned'
  BY DEF IInv, AnswerOwned, PendingOwned, Pending, Phases, SlotsApart,
         UnmadeIsUnused, Unmade, ResultOwned, PendingApart, TypeOK, Push
<1>9. ResultOwned'
  BY DEF IInv, ResultOwned, Phases, AnswerOwned, PendingOwned, Pending,
         UnmadeIsUnused, Unmade, TypeOK, Push
<1>10. (PendingApart /\ PumpQuiet)'
  BY DEF IInv, PendingApart, PumpQuiet, Push
<1> QED BY <1>1, <1>2, <1>3, <1>4, <1>5, <1>6, <1>7, <1>8, <1>9, <1>10 DEF IInv

LEMMA GiveUpKeeps ==
    ASSUME NEW s \in Settlements, IInv, GiveUp(s)
    PROVE  IInv'
<1> USE SettleLineAssumption, NullAssumption DEF NoCommand, Steps, Goto, Early, Late, taking, serving
<1>1. TypeOK'
  <2>1. s \in Holders
    BY DEF IInv, TypeOK, Phases, GiveUp, Holders
  <2>2. made > 0
    BY <2>1, CountsAreReal DEF IInv
  <2> QED BY <2>2 DEF IInv, TypeOK, GiveUp
<1>2. Phases'
  BY DEF IInv, Phases, TypeOK, GiveUp
<1>3. SlotCount'
  <2>1. Holders' = Holders \ {s} /\ s \in Holders
    BY DEF IInv, TypeOK, Phases, GiveUp, Holders
  <2>2. Cardinality(Holders') = Cardinality(Holders) - 1
    BY <2>1, FiniteParts, FS_RemoveElement DEF IInv
  <2> QED BY <2>2, FiniteParts DEF IInv, TypeOK, SlotCount, GiveUp
<1>4. WaitingCount'
  <2>1. Counted' = Counted
    BY DEF IInv, TypeOK, Phases, WaitingCount, Counted, GiveUp
  <2> QED BY <2>1 DEF IInv, TypeOK, WaitingCount, GiveUp
<1>5. SlotsApart'
  BY DEF IInv, SlotsApart, Phases, UnmadeIsUnused, Unmade, Pending, TypeOK,
         GiveUp
<1>6. UnmadeIsUnused'
  BY DEF IInv, UnmadeIsUnused, Unmade, Pending, Phases, SlotsApart, TypeOK,
         GiveUp
<1>7. PendingOwned'
  <2>1. Pending' = Pending
    BY DEF Pending, GiveUp
  <2>2. \A c \in Pending : c.by \in Settlements /\ c.reply \in Settlements
    BY CommandsTyped DEF IInv
  <2> QED BY <2>1, <2>2 DEF IInv, TypeOK, Phases, SlotsApart, UnmadeIsUnused,
                         Unmade, PendingOwned, GiveUp
<1>8. AnswerOwned'
  BY DEF IInv, AnswerOwned, PendingOwned, Pending, Phases, SlotsApart,
         UnmadeIsUnused, Unmade, ResultOwned, PendingApart, TypeOK, GiveUp
<1>9. ResultOwned'
  BY DEF IInv, ResultOwned, Phases, AnswerOwned, PendingOwned, Pending,
         UnmadeIsUnused, Unmade, TypeOK, GiveUp
<1>10. (PendingApart /\ PumpQuiet)'
  BY DEF IInv, PendingApart, PumpQuiet, GiveUp
<1> QED BY <1>1, <1>2, <1>3, <1>4, <1>5, <1>6, <1>7, <1>8, <1>9, <1>10 DEF IInv

LEMMA WakeKeeps ==
    ASSUME NEW s \in Settlements, IInv, Wake(s)
    PROVE  IInv'
<1> USE SettleLineAssumption, NullAssumption DEF NoCommand, Steps, Goto, Early, Late, taking, serving
<1>1. TypeOK'
  BY DEF IInv, TypeOK, Wake
<1>2. Phases'
  BY DEF IInv, Phases, TypeOK, Wake
<1>3. WaitingCount'
  <2>1. Counted' = Counted
    BY DEF IInv, TypeOK, Phases, WaitingCount, Counted, Wake
  <2> QED BY <2>1 DEF IInv, TypeOK, WaitingCount, Wake
<1>4. UnmadeIsUnused'
  BY DEF IInv, UnmadeIsUnused, Unmade, Pending, Phases, SlotsApart, TypeOK,
         Wake
<1>5. PendingOwned'
  BY DEF IInv, PendingOwned, Pending, PendingApart, Phases, SlotsApart,
         UnmadeIsUnused, Unmade, AnswerOwned, ResultOwned, TypeOK, Wake
<1>6. AnswerOwned'
  BY DEF IInv, AnswerOwned, PendingOwned, Pending, Phases, SlotsApart,
         UnmadeIsUnused, Unmade, ResultOwned, PendingApart, TypeOK, Wake
<1>7. ResultOwned'
  BY DEF IInv, ResultOwned, Phases, AnswerOwned, PendingOwned, Pending,
         UnmadeIsUnused, Unmade, TypeOK, Wake
<1>8. (SlotCount /\ SlotsApart /\ PendingApart /\ PumpQuiet)'
  BY DEF IInv, SlotCount, Holders, SlotsApart, PendingApart, PumpQuiet, Wake
<1> QED BY <1>1, <1>2, <1>3, <1>4, <1>5, <1>6, <1>7, <1>8 DEF IInv

LEMMA NotifyKeeps ==
    ASSUME NEW s \in Settlements, IInv, Notify(s)
    PROVE  IInv'
<1> USE SettleLineAssumption, NullAssumption DEF NoCommand, Steps, Goto, Early, Late, taking, serving
<1>1. TypeOK'
  BY DEF IInv, TypeOK, Notify, NotifyOne
<1>2. Phases'
  BY DEF IInv, Phases, TypeOK, Notify, NotifyOne
<1>3. WaitingCount'
  <2>1. Counted' = Counted
    BY DEF IInv, TypeOK, Phases, WaitingCount, Counted, Notify, NotifyOne
  <2> QED BY <2>1 DEF IInv, TypeOK, WaitingCount, Notify, NotifyOne
<1>4. UnmadeIsUnused'
  BY DEF IInv, UnmadeIsUnused, Unmade, Pending, Phases, SlotsApart, TypeOK,
         Notify, NotifyOne
<1>5. PendingOwned'
  <2>1. Pending' = Pending
    BY DEF Pending, Notify
  <2>2. \A c \in Pending : c.by \in Settlements /\ c.reply \in Settlements
    BY CommandsTyped DEF IInv
  <2> QED BY <2>1, <2>2 DEF IInv, TypeOK, Phases, SlotsApart, UnmadeIsUnused,
                         Unmade, PendingOwned, Notify
<1>6. AnswerOwned'
  BY DEF IInv, AnswerOwned, PendingOwned, Pending, Phases, SlotsApart,
         UnmadeIsUnused, Unmade, ResultOwned, PendingApart, TypeOK, Notify,
         NotifyOne
<1>7. ResultOwned'
  BY DEF IInv, ResultOwned, Phases, AnswerOwned, PendingOwned, Pending,
         UnmadeIsUnused, Unmade, TypeOK, Notify, NotifyOne
<1>8. (SlotCount /\ SlotsApart /\ PendingApart /\ PumpQuiet)'
  BY DEF IInv, SlotCount, Holders, SlotsApart, PendingApart, PumpQuiet, Notify
<1> QED BY <1>1, <1>2, <1>3, <1>4, <1>5, <1>6, <1>7, <1>8 DEF IInv

LEMMA PumpTakesKeeps ==
    ASSUME IInv, PumpTakes
    PROVE  IInv'
<1> USE SettleLineAssumption, NullAssumption DEF NoCommand, Steps, Goto, Early, Late, taking, serving
<1>1. TypeOK'
  <2>1. commands' \in Seq(Command) /\ inHand' \in Command
    BY Received DEF IInv
  <2> QED BY <2>1 DEF IInv, TypeOK, PumpTakes
<1>2. UnmadeIsUnused'
  BY DEF IInv, UnmadeIsUnused, Unmade, Pending, Phases, SlotsApart, TypeOK,
         PumpTakes
<1>3. PendingApart'
  BY DEF IInv, PendingApart, PendingOwned, Pending, Phases, SlotsApart,
         TypeOK, PumpTakes
<1>4. PendingOwned'
  BY DEF IInv, PendingOwned, Pending, PendingApart, Phases, SlotsApart,
         UnmadeIsUnused, Unmade, AnswerOwned, ResultOwned, TypeOK, PumpTakes
<1>5. PumpQuiet'
  BY DEF IInv, PumpQuiet, TypeOK, PumpTakes
<1>6. (Phases /\ SlotCount /\ WaitingCount /\ SlotsApart /\ AnswerOwned /\
        ResultOwned)'
  BY DEF IInv, Phases, SlotCount, Holders, WaitingCount, Counted, SlotsApart,
         AnswerOwned, ResultOwned, PumpTakes
<1> QED BY <1>1, <1>2, <1>3, <1>4, <1>5, <1>6 DEF IInv

LEMMA PumpRepliesKeeps ==
    ASSUME IInv, PumpReplies
    PROVE  IInv'
<1> USE SettleLineAssumption, NullAssumption DEF NoCommand, Steps, Goto, Early, Late, taking, serving
<1>1. TypeOK'
  <2>1. inHand.by \in Settlements /\ inHand.reply \in Settlements
    BY CommandsTyped DEF IInv, TypeOK, PumpReplies
  <2> QED BY <2>1 DEF IInv, TypeOK, PumpReplies
<1>2. UnmadeIsUnused'
  BY DEF IInv, UnmadeIsUnused, Unmade, Pending, Phases, SlotsApart, TypeOK,
         PumpReplies
<1>3. PendingApart'
  BY DEF IInv, PendingApart, PendingOwned, Pending, Phases, SlotsApart,
         TypeOK, PumpReplies
<1>4. PendingOwned'
  BY DEF IInv, PendingOwned, Pending, PendingApart, Phases, SlotsApart,
         UnmadeIsUnused, Unmade, AnswerOwned, ResultOwned, TypeOK, PumpReplies
<1>5. AnswerOwned'
  <2>1. inHand \in Pending /\ inHand.by \in Settlements /\ inHand.reply \in Settlements
    BY CommandsTyped DEF IInv, TypeOK, Pending, PumpReplies
  <2>2. /\ inHand.reply \notin idle
        /\ \A t \in Settlements : slot[t] = inHand.reply =>
                t = inHand.by /\ pc[t] \in {"recv", "giveup"}
    BY <2>1 DEF IInv, TypeOK, Phases, PendingOwned, Late
  <2>3. pump = "serving" /\ inHand.by # Stopped
    BY <2>1, NullAssumption DEF IInv, TypeOK, PumpQuiet, PumpReplies
  <2> QED BY <2>1, <2>2, <2>3 DEF IInv, TypeOK, AnswerOwned, PumpReplies
<1>6. ResultOwned'
  BY DEF IInv, ResultOwned, Phases, AnswerOwned, PendingOwned, Pending,
         UnmadeIsUnused, Unmade, TypeOK, PumpReplies
<1>7. PumpQuiet'
  BY DEF IInv, PumpQuiet, TypeOK, PumpReplies
<1>8. (Phases /\ SlotCount /\ WaitingCount /\ SlotsApart)'
  BY DEF IInv, Phases, SlotCount, Holders, WaitingCount, Counted, SlotsApart,
         PumpReplies
<1> QED BY <1>1, <1>2, <1>3, <1>4, <1>5, <1>6, <1>7, <1>8 DEF IInv

LEMMA PumpStopsKeeps ==
    ASSUME IInv, PumpStops
    PROVE  IInv'
<1> USE SettleLineAssumption, NullAssumption DEF NoCommand, Steps, Goto, Early, Late, taking, serving
<1>1. TypeOK'
  BY DEF IInv, TypeOK, PumpStops
<1>2. UnmadeIsUnused'
  BY DEF IInv, UnmadeIsUnused, Unmade, Pending, Phases, SlotsApart, TypeOK,
         PumpStops
<1>3. PendingApart'
  BY DEF IInv, PendingApart, PendingOwned, Pending, Phases, SlotsApart,
         TypeOK, PumpStops
<1>4. PendingOwned'
  BY DEF IInv, PendingOwned, Pending, PendingApart, Phases, SlotsApart,
         UnmadeIsUnused, Unmade, AnswerOwned, ResultOwned, TypeOK, PumpStops
<1>5. AnswerOwned'
  BY DEF IInv, AnswerOwned, PendingOwned, Pending, Phases, SlotsApart,
         UnmadeIsUnused, Unmade, ResultOwned, PendingApart, TypeOK, PumpStops
<1>6. ResultOwned'
  BY DEF IInv, ResultOwned, Phases, AnswerOwned, PendingOwned, Pending,
         UnmadeIsUnused, Unmade, TypeOK, PumpStops
<1>7. PumpQuiet'
  BY DEF IInv, PumpQuiet, TypeOK, PumpStops
<1>8. (Phases /\ SlotCount /\ WaitingCount /\ SlotsApart)'
  BY DEF IInv, Phases, SlotCount, Holders, WaitingCount, Counted, SlotsApart,
         PumpStops
<1> QED BY <1>1, <1>2, <1>3, <1>4, <1>5, <1>6, <1>7, <1>8 DEF IInv

(***************************************************************************)
(* The invariant holds, and with it what the line promises.                *)
(***************************************************************************)

LEMMA InitEstablishes == Init => IInv
<1> SUFFICES ASSUME Init PROVE IInv
  OBVIOUS
<1> USE SettleLineAssumption, NullAssumption DEF Init, NoCommand
<1>1. TypeOK
  <2>1. commands \in Seq(Command)
    BY EmptySeq
  <2> QED BY <2>1 DEF TypeOK, Steps
<1>2. Holders = {} /\ Counted = {} /\ Cardinality({}) = 0
  BY FS_EmptySet DEF Holders, Counted
<1>3. Pending = {}
  BY DEF Pending
<1>4. SlotCount /\ WaitingCount
  BY <1>2 DEF SlotCount, WaitingCount, Late
<1>5. Phases /\ SlotsApart /\ UnmadeIsUnused /\ PendingApart
  BY <1>3 DEF Phases, Early, Late, SlotsApart, UnmadeIsUnused, PendingApart
<1>6. PendingOwned /\ AnswerOwned /\ ResultOwned /\ PumpQuiet
  BY <1>3 DEF PendingOwned, AnswerOwned, ResultOwned, PumpQuiet
<1> QED BY <1>1, <1>4, <1>5, <1>6 DEF IInv

LEMMA StutterKeeps == IInv /\ UNCHANGED vars => IInv'
BY DEF vars, taking, serving, IInv, TypeOK, Phases, SlotCount, Holders,
       WaitingCount, Counted, SlotsApart, UnmadeIsUnused, Unmade, Pending,
       PendingApart, PendingOwned, AnswerOwned, ResultOwned, PumpQuiet

LEMMA NextKeeps == IInv /\ [Next]_vars => IInv'
<1> SUFFICES ASSUME IInv, [Next]_vars PROVE IInv'
  OBVIOUS
<1>1. ASSUME NEW s \in Settlements, Advance(s) PROVE IInv'
  BY <1>1, PopKeeps, MakeKeeps, RegisterKeeps, CountKeeps, AwakeKeeps,
     UncountKeeps, UnlistKeeps, SendKeeps, RecvKeeps, PushKeeps, GiveUpKeeps,
     WakeKeeps, NotifyKeeps DEF Advance
<1>2. ASSUME NEW s \in Settlements,
             Settle(s) \/ CancelParked(s) \/ CancelRecv(s)
      PROVE  IInv'
  BY <1>2, SettleKeeps, CancelParkedKeeps, CancelRecvKeeps
<1>3. CASE PumpTakes \/ PumpReplies \/ PumpStops
  BY <1>3, PumpTakesKeeps, PumpRepliesKeeps, PumpStopsKeeps
<1>4. CASE UNCHANGED vars
  BY <1>4, StutterKeeps
<1> QED BY <1>1, <1>2, <1>3, <1>4 DEF Next

\* Every reachable state of the line satisfies the inductive invariant.
THEOREM Invariance == Spec => []IInv
<1> QED BY InitEstablishes, NextKeeps, PTL DEF Spec

\* Every variable of the line keeps its type: the counters of settle.rs never
\* go below zero, and the commands name real settlements and slots.
THEOREM TypeCorrect == Spec => []TypeOK
<1>1. IInv => TypeOK
  BY DEF IInv
<1> QED BY <1>1, Invariance, PTL

\* The line never holds more slots than the credit, for any number of
\* settlements at once and whichever of them are dropped.
THEOREM SlotsStayWithinCredit == Spec => []SlotsWithinCredit
<1>1. IInv => SlotsWithinCredit
  BY DEF IInv, SlotCount, SlotsWithinCredit, Holders
<1> QED BY <1>1, Invariance, PTL

\* The slot of a pending command is nobody's but the settlement's that sent
\* it, so an answer that arrives late cannot reach a settlement that did not
\* ask for it.
THEOREM PendingSlotsStayPrivate == Spec => []PendingSlotIsPrivate
<1>1. IInv => PendingSlotIsPrivate
  BY DEF IInv, PendingOwned, Pending, PendingSlotIsPrivate
<1> QED BY <1>1, Invariance, PTL

\* A settlement is told the outcome of its own command, and one told that the
\* pump stopped, or dropped before it sent its command, settled nothing.
THEOREM AnswersStayHonest == Spec => []AnswersAreHonest
<1>1. IInv => AnswersAreHonest
  BY NullAssumption DEF IInv, TypeOK, ResultOwned, AnswersAreHonest
<1> QED BY <1>1, Invariance, PTL

-----------------------------------------------------------------------------
(***************************************************************************)
(* The line implements what a handle may rely on.                          *)
(***************************************************************************)

\* Each step of the line is a step of the promise, or changes nothing in it.
LEMMA StepKeepsPromise ==
    ASSUME IInv, [Next]_vars
    PROVE  [Promise!Next]_(Promise!vars)
<1> USE NullAssumption DEF taking, serving
<1> DEFINE same == UNCHANGED <<pump, applied, result>>
<1>1. ASSUME same PROVE UNCHANGED Promise!vars
  BY <1>1 DEF Promise!vars
<1>2. ASSUME NEW s \in Settlements, Recv(s) PROVE Promise!Answer(s) \/ Promise!Refuse(s)
  <2>1. slot[s] \in Settlements /\ result[s] = Nobody
    BY <1>2 DEF IInv, TypeOK, Phases, Recv
  <2>2. answer[slot[s]] \in {s, Stopped}
    BY <1>2, <2>1 DEF IInv, AnswerOwned, Recv
  <2>3. CASE answer[slot[s]] = s
    <3>1. s \in applied /\ result' = [result EXCEPT ![s] = s]
      BY <1>2, <2>1, <2>3 DEF IInv, AnswerOwned, Recv
    <3> QED BY <1>2, <2>1, <3>1 DEF Recv, Promise!Answer, Promise!Tell
  <2>4. CASE answer[slot[s]] = Stopped
    <3>1. /\ s \notin applied /\ pump = "stopped"
          /\ result' = [result EXCEPT ![s] = Stopped]
      BY <1>2, <2>1, <2>4 DEF IInv, AnswerOwned, Recv
    <3> QED BY <1>2, <2>1, <3>1 DEF Recv, Promise!Refuse, Promise!Tell
  <2> QED BY <2>2, <2>3, <2>4
<1>3. ASSUME NEW s \in Settlements, CancelParked(s) PROVE Promise!Withdraw(s)
  BY <1>3 DEF IInv, Phases, Early, Late, ResultOwned, CancelParked,
              Promise!Withdraw, Promise!Tell
<1>4. ASSUME NEW s \in Settlements, CancelRecv(s) PROVE Promise!Abandon(s)
  BY <1>4 DEF IInv, Phases, CancelRecv, Promise!Abandon, Promise!Tell
<1>5. ASSUME NEW s \in Settlements, Send(s) PROVE same \/ Promise!Refuse(s)
  BY <1>5 DEF IInv, Phases, Late, ResultOwned, Send, Promise!Refuse, Promise!Tell
<1>6. ASSUME PumpReplies PROVE \E s \in Settlements : Promise!Apply(s)
  <2>1. inHand \in Pending /\ inHand.by \in Settlements
    BY <1>6, CommandsTyped DEF IInv, TypeOK, Pending, PumpReplies
  <2>2. /\ inHand.by \notin applied
        /\ result[inHand.by] \in {Nobody, Abandoned}
    BY <2>1 DEF IInv, Phases, PendingOwned
  <2>3. pump = "serving"
    BY <1>6 DEF IInv, TypeOK, PumpQuiet, PumpReplies
  <2> QED BY <1>6, <2>1, <2>2, <2>3 DEF PumpReplies, Promise!Apply
<1>7. ASSUME PumpStops PROVE Promise!Stop
  BY <1>7 DEF PumpStops, Promise!Stop
<1>8. ASSUME NEW s \in Settlements,
             \/ Settle(s) \/ Pop(s) \/ Make(s) \/ Register(s) \/ Count(s)
             \/ Awake(s) \/ Uncount(s) \/ Unlist(s) \/ Push(s) \/ GiveUp(s)
             \/ Wake(s) \/ Notify(s)
      PROVE  same
  BY <1>8 DEF Settle, Pop, Make, Register, Count, Awake, Uncount, Unlist, Push,
              GiveUp, Wake, Notify
<1>9. ASSUME PumpTakes \/ UNCHANGED vars PROVE same
  BY <1>9 DEF PumpTakes, vars
<1> HIDE DEF same
<1> QED BY <1>1, <1>2, <1>3, <1>4, <1>5, <1>6, <1>7, <1>8, <1>9
        DEF Next, Advance, Promise!Next

\* Whatever the slots, the channel and the wake-ups do, a handle sees only the
\* promise: each delivery settled at most once, while the pump serves, and each
\* settlement told the truth about its own.
THEOREM LineKeepsPromise == Spec => KeepsPromise
<1>1. Init => Promise!Init
  BY DEF Init, Promise!Init
<1> QED BY <1>1, StepKeepsPromise, Invariance, PTL DEF KeepsPromise, Promise!Spec, Spec

-----------------------------------------------------------------------------
(***************************************************************************)
(* Why no waiter is stranded: while somebody sleeps, as many settlements   *)
(* as there may be slots hold one, are about to look for one, or owe a     *)
(* sleeper a wake-up.                                                      *)
(***************************************************************************)

\* Those with a wake-up they have not used.
Roused == {s \in Settlements : notified[s] = "woken"}

\* Those that hold a slot, will wake somebody, or look at the slots for the
\* first time since they were woken.
Engaged ==
    {s \in Settlements :
        \/ slot[s] # Nobody
        \/ pc[s] \in {"wake", "notify"}
        \/ notified[s] = "spent"
        \/ pc[s] \in {"pop", "make"} /\ notified[s] = "none"}

\* A settlement between its two looks has seen no idle slot, but one may have
\* come since: it does not vouch for it.
Vouching == {s \in Engaged : pc[s] # "make"}

Asleep == \E s \in Settlements : pc[s] = "parked" /\ notified[s] = "listed"

\* Somebody sleeps, or will unless there is room for another slot.
Drowsy ==
    \E s \in Settlements : pc[s] \in {"make", "parked"} /\ notified[s] = "listed"

EnoughEngaged == Asleep => Credit <= Cardinality(Engaged) + Cardinality(Roused)

EnoughVouching == Drowsy => made <= Cardinality(Vouching) + Cardinality(Roused)

\* A wake-up is stored only while nobody is listed.
PermitIsLeft == permit => \A s \in Settlements : notified[s] # "listed"

\* A settlement dropped at its await returned no wake-up.
SpentStays ==
    \A s \in Settlements :
        pc[s] \in {"uncount", "unlist"} /\ notified[s] = "spent" => result[s] # Withdrawn

Watching == EnoughEngaged /\ EnoughVouching /\ PermitIsLeft /\ SpentStays

LEMMA PartsCounted ==
    /\ \A S \in SUBSET Settlements : IsFiniteSet(S) /\ Cardinality(S) \in Nat
    /\ \A S, T \in SUBSET Settlements : S \subseteq T => Cardinality(S) <= Cardinality(T)
    /\ \A S, T \in SUBSET Settlements : \A x \in T :
          x \notin S /\ S \subseteq T => Cardinality(S) + 1 <= Cardinality(T)
    /\ \A S \in SUBSET Settlements : \A x \in S : Cardinality(S \ {x}) + 1 = Cardinality(S)
<1>1. \A S \in SUBSET Settlements : IsFiniteSet(S) /\ Cardinality(S) \in Nat
  BY SettleLineAssumption, FS_Subset, FS_CardinalityType
<1>2. \A S, T \in SUBSET Settlements : S \subseteq T => Cardinality(S) <= Cardinality(T)
  BY <1>1, FS_Subset
<1>3. ASSUME NEW S \in SUBSET Settlements, NEW T \in SUBSET Settlements, NEW x \in T,
             x \notin S, S \subseteq T
      PROVE  Cardinality(S) + 1 <= Cardinality(T)
  <2>1. Cardinality(S \cup {x}) = Cardinality(S) + 1
    BY <1>1, <1>3, FS_AddElement
  <2>2. S \cup {x} \in SUBSET Settlements /\ S \cup {x} \subseteq T
    BY <1>3
  <2> QED BY <1>2, <2>1, <2>2
<1>4. ASSUME NEW S \in SUBSET Settlements, NEW x \in S
      PROVE  Cardinality(S \ {x}) + 1 = Cardinality(S)
  <2>1. Cardinality(S \ {x}) = Cardinality(S) - 1
    BY <1>1, <1>4, FS_RemoveElement
  <2> QED BY <1>1, <1>4, <2>1
<1> QED BY <1>1, <1>2, <1>3, <1>4

LEMMA PartsAre ==
    /\ Roused \in SUBSET Settlements /\ Engaged \in SUBSET Settlements
    /\ Vouching \in SUBSET Settlements
    /\ (Roused \in SUBSET Settlements /\ Engaged \in SUBSET Settlements
        /\ Vouching \in SUBSET Settlements)'
BY DEF Roused, Engaged, Vouching

\* Nobody leaves off, and no slot is made.
LEMMA EnoughStays ==
    ASSUME Watching, Asleep' => Asleep, Drowsy' => Drowsy, Engaged \subseteq Engaged',
           Vouching \subseteq Vouching', Roused \subseteq Roused',
           made \in Nat, made' \in Nat, made' <= made
    PROVE  EnoughEngaged' /\ EnoughVouching'
<1> HIDE DEF Asleep, Drowsy, Engaged, Vouching, Roused
<1>1. /\ Cardinality(Engaged) <= Cardinality(Engaged')
      /\ Cardinality(Vouching) <= Cardinality(Vouching')
      /\ Cardinality(Roused) <= Cardinality(Roused')
      /\ Cardinality(Engaged) \in Nat /\ Cardinality(Engaged') \in Nat
      /\ Cardinality(Vouching) \in Nat /\ Cardinality(Vouching') \in Nat
      /\ Cardinality(Roused) \in Nat /\ Cardinality(Roused') \in Nat
  BY PartsCounted, PartsAre
<1> QED BY <1>1, SettleLineAssumption DEF Watching, EnoughEngaged, EnoughVouching

\* Nobody sleeps or is about to.
LEMMA NobodyDrowsy ==
    ASSUME ~Drowsy'
    PROVE  EnoughEngaged' /\ EnoughVouching'
BY DEF EnoughEngaged, EnoughVouching, Asleep, Drowsy

\* A step of one settlement that wakes nobody.
Alone(s) ==
    \A t \in Settlements \ {s} :
        pc'[t] = pc[t] /\ slot'[t] = slot[t] /\ notified'[t] = notified[t]

LEMMA OthersStay ==
    ASSUME NEW s \in Settlements, Alone(s), NEW t \in Settlements, t # s
    PROVE  /\ t \in Engaged' <=> t \in Engaged
           /\ t \in Vouching' <=> t \in Vouching
           /\ t \in Roused' <=> t \in Roused
BY DEF Alone, Engaged, Vouching, Roused

\* One that keeps what it stands for.
LEMMA AloneEnough ==
    ASSUME Watching, NEW s \in Settlements, Alone(s),
           s \in Engaged => s \in Engaged', s \in Vouching => s \in Vouching',
           s \in Roused => s \in Roused',
           pc'[s] = "parked" /\ notified'[s] = "listed"
              => pc[s] = "parked" /\ notified[s] = "listed",
           pc'[s] = "make" /\ notified'[s] = "listed"
              => pc[s] = "make" /\ notified[s] = "listed",
           made \in Nat, made' \in Nat, made' <= made
    PROVE  EnoughEngaged' /\ EnoughVouching'
<1>1. Asleep' => Asleep
  BY DEF Alone, Asleep
<1>2. Drowsy' => Drowsy
  BY DEF Alone, Drowsy
<1>3. Engaged \subseteq Engaged' /\ Vouching \subseteq Vouching' /\ Roused \subseteq Roused'
  BY OthersStay, PartsAre
<1> QED BY <1>1, <1>2, <1>3, EnoughStays

LEMMA RestStays ==
    ASSUME Watching, NEW s \in Settlements, Alone(s), permit' => permit,
           permit => notified'[s] # "listed",
           \A t \in Settlements \ {s} : result'[t] = result[t],
           pc'[s] \in {"uncount", "unlist"} /\ notified'[s] = "spent" => result'[s] # Withdrawn
    PROVE  PermitIsLeft' /\ SpentStays'
BY DEF Alone, Watching, PermitIsLeft, SpentStays

LEMMA SettleWatches ==
    ASSUME NEW s \in Settlements, IInv, Watching, Settle(s)
    PROVE  Watching'
<1>1. /\ Alone(s) /\ pc[s] = "new" /\ pc'[s] = "pop" /\ notified[s] = "none"
      /\ UNCHANGED <<slot, notified, permit, result, made>> /\ made \in Nat
  BY DEF Settle, Goto, Alone, taking, IInv, TypeOK, WaitingCount
<1>2. EnoughEngaged' /\ EnoughVouching'
  BY <1>1, AloneEnough DEF Engaged, Vouching, Roused
<1>3. PermitIsLeft' /\ SpentStays'
  BY <1>1, RestStays DEF Watching, PermitIsLeft
<1> QED BY <1>2, <1>3 DEF Watching

LEMMA PopWatches ==
    ASSUME NEW s \in Settlements, IInv, Watching, Pop(s)
    PROVE  Watching'
<1>1. /\ Alone(s) /\ pc[s] = "pop" /\ slot[s] = Nobody /\ result[s] = Nobody
      /\ UNCHANGED <<notified, permit, result, made>> /\ made \in Nat
  BY DEF Pop, Took, Goto, Alone, IInv, TypeOK, Phases, Early
<1>2. PermitIsLeft' /\ SpentStays'
  BY <1>1, RestStays, NullAssumption DEF Watching, PermitIsLeft
<1>3. CASE idle = {} /\ pc'[s] = "make" /\ slot' = slot
  <2>1. Asleep' => Asleep
    BY <1>1, <1>3 DEF Asleep, Alone
  <2>2. Engaged \subseteq Engaged' /\ Roused' = Roused
    BY <1>1, <1>3 DEF Engaged, Roused, Alone
  <2>3. Cardinality(Roused) \in Nat
    BY PartsAre, PartsCounted
  <2>4. EnoughEngaged'
    <3>1. Cardinality(Engaged) <= Cardinality(Engaged')
      BY <2>2, PartsAre, PartsCounted
    <3>2. Cardinality(Engaged) \in Nat /\ Cardinality(Engaged') \in Nat
      BY PartsAre, PartsCounted
    <3> QED BY <2>1, <2>2, <2>3, <3>1, <3>2, SettleLineAssumption DEF Watching, EnoughEngaged
  <2>5. EnoughVouching'
    <3>1. made = Cardinality(Holders)
      BY <1>3, FS_EmptySet, FiniteParts DEF IInv, SlotCount
    <3>2. Holders \subseteq Vouching' /\ Holders \in SUBSET Settlements
      BY <1>1, <1>3 DEF Holders, Engaged, Vouching, Alone, IInv, Phases, Early
    <3>3. Cardinality(Holders) <= Cardinality(Vouching')
      BY <3>2, PartsAre, PartsCounted
    <3>4. Cardinality(Vouching') \in Nat
      BY PartsAre, PartsCounted
    <3> QED BY <1>1, <2>2, <2>3, <3>1, <3>3, <3>4 DEF EnoughVouching
  <2> QED BY <1>2, <2>4, <2>5 DEF Watching
<1>4. CASE pc'[s] \in {"send", "uncount"} /\ slot'[s] # Nobody
  <2>1. s \in Engaged' /\ s \in Vouching'
    BY <1>4 DEF Engaged, Vouching
  <2>2. s \in Roused => s \in Roused'
    BY <1>1 DEF Roused
  <2>3. EnoughEngaged' /\ EnoughVouching'
    BY <1>1, <1>4, <2>1, <2>2, AloneEnough
  <2> QED BY <1>2, <2>3 DEF Watching
<1> QED BY <1>3, <1>4, NullAssumption DEF Pop, Took, Goto, IInv, TypeOK

LEMMA MakeWatches ==
    ASSUME NEW s \in Settlements, IInv, Watching, Make(s)
    PROVE  Watching'
<1>1. /\ Alone(s) /\ pc[s] = "make" /\ slot[s] = Nobody /\ result[s] = Nobody
      /\ UNCHANGED <<notified, permit, result>> /\ made \in Nat
      /\ \/ /\ made < Credit /\ made' = made + 1
            /\ pc'[s] \in {"send", "uncount"} /\ slot'[s] # Nobody
         \/ /\ made >= Credit /\ made' = made /\ slot' = slot
            /\ pc'[s] = IF notified[s] = "none" THEN "register" ELSE "parked"
  BY NullAssumption DEF Make, Took, Goto, Alone, IInv, TypeOK, Phases, Early
<1>2. PermitIsLeft' /\ SpentStays'
  BY <1>1, RestStays, NullAssumption DEF Watching, PermitIsLeft
<1>3. s \notin Vouching /\ Vouching \subseteq Engaged
  BY <1>1 DEF Vouching
<1>4. Roused' = Roused /\ Vouching \subseteq Vouching'
  BY <1>1, <1>3, OthersStay, PartsAre DEF Roused
<1>5. Drowsy' => Drowsy
  BY <1>1 DEF Drowsy, Alone
<1>6. /\ Cardinality(Roused) \in Nat /\ Cardinality(Vouching) \in Nat
      /\ Cardinality(Vouching') \in Nat /\ Cardinality(Engaged) \in Nat
      /\ Cardinality(Engaged') \in Nat
      /\ Cardinality(Vouching) <= Cardinality(Vouching')
  BY <1>4, PartsAre, PartsCounted
<1>7. CASE made < Credit /\ made' = made + 1 /\ slot'[s] # Nobody
           /\ pc'[s] \in {"send", "uncount"}
  <2>1. s \in Vouching' /\ s \in Engaged'
    BY <1>7 DEF Vouching, Engaged
  <2>2. Cardinality(Vouching) + 1 <= Cardinality(Vouching')
    BY <1>3, <1>4, <2>1, PartsAre, PartsCounted
  <2>3. EnoughVouching'
    BY <1>1, <1>4, <1>5, <1>6, <1>7, <2>2 DEF Watching, EnoughVouching
  <2>4. Engaged \subseteq Engaged'
    BY <1>1, <2>1, OthersStay, PartsAre
  <2>5. Asleep' => Asleep
    BY <1>1, <1>7 DEF Asleep, Alone
  <2>6. Cardinality(Engaged) <= Cardinality(Engaged')
    BY <2>4, PartsAre, PartsCounted
  <2>7. EnoughEngaged'
    BY <1>4, <1>6, <2>5, <2>6, SettleLineAssumption DEF Watching, EnoughEngaged
  <2> QED BY <1>2, <2>3, <2>7 DEF Watching
<1>8. CASE made >= Credit /\ made' = made /\ slot' = slot
  <2>1. EnoughVouching'
    BY <1>1, <1>4, <1>5, <1>6, <1>8 DEF Watching, EnoughVouching
  <2>2. Vouching \subseteq Engaged'
    BY <1>1, <1>3, OthersStay, PartsAre
  <2>3. Cardinality(Vouching) <= Cardinality(Engaged')
    BY <2>2, PartsAre, PartsCounted
  <2>4. Asleep' => Drowsy
    BY <1>1, <1>8 DEF Asleep, Drowsy, Alone
  <2>5. EnoughEngaged'
    BY <1>1, <1>4, <1>6, <1>8, <2>3, <2>4, SettleLineAssumption
       DEF Watching, EnoughVouching, EnoughEngaged
  <2> QED BY <1>2, <2>1, <2>5 DEF Watching
<1> QED BY <1>1, <1>7, <1>8

LEMMA RegisterWatches ==
    ASSUME NEW s \in Settlements, IInv, Watching, Register(s)
    PROVE  Watching'
<1>1. /\ Alone(s) /\ pc[s] = "register" /\ pc'[s] = "count" /\ notified[s] = "none"
      /\ notified'[s] = (IF permit THEN "spent" ELSE "listed") /\ permit' = FALSE
      /\ UNCHANGED <<slot, result, made>> /\ made \in Nat
  BY DEF Register, Goto, Alone, IInv, TypeOK, WaitingCount
<1>2. EnoughEngaged' /\ EnoughVouching'
  BY <1>1, AloneEnough DEF Engaged, Vouching, Roused
<1>3. PermitIsLeft' /\ SpentStays'
  BY <1>1, RestStays
<1> QED BY <1>2, <1>3 DEF Watching

LEMMA CountWatches ==
    ASSUME NEW s \in Settlements, IInv, Watching, Count(s)
    PROVE  Watching'
<1>1. /\ Alone(s) /\ pc[s] = "count" /\ pc'[s] = "pop" /\ notified[s] # "none"
      /\ UNCHANGED <<slot, notified, permit, result, made>> /\ made \in Nat
  BY DEF Count, Goto, Alone, IInv, TypeOK, WaitingCount
<1>2. EnoughEngaged' /\ EnoughVouching'
  BY <1>1, AloneEnough DEF Engaged, Vouching, Roused
<1>3. PermitIsLeft' /\ SpentStays'
  BY <1>1, RestStays DEF Watching, PermitIsLeft
<1> QED BY <1>2, <1>3 DEF Watching

\* A wake-up that is used passes from the woken to the settlement itself.
LEMMA AwakeWatches ==
    ASSUME NEW s \in Settlements, IInv, Watching, Awake(s)
    PROVE  Watching'
<1>1. /\ Alone(s) /\ pc[s] = "parked" /\ pc'[s] = "uncount" /\ slot[s] = Nobody
      /\ notified[s] \in {"woken", "spent"} /\ notified'[s] = "spent" /\ result[s] = Nobody
      /\ UNCHANGED <<slot, permit, result, made>> /\ made \in Nat
  BY DEF Awake, Goto, Alone, IInv, TypeOK, Phases, Early
<1>2. PermitIsLeft' /\ SpentStays'
  BY <1>1, RestStays, NullAssumption DEF Watching, PermitIsLeft
<1>3. CASE notified[s] = "spent"
  <2>1. EnoughEngaged' /\ EnoughVouching'
    BY <1>1, <1>3, AloneEnough DEF Engaged, Vouching, Roused
  <2> QED BY <1>2, <2>1 DEF Watching
<1>4. CASE notified[s] = "woken"
  <2>1. /\ s \notin Engaged /\ s \notin Vouching /\ s \in Roused
        /\ s \in Engaged' /\ s \in Vouching' /\ s \notin Roused'
    BY <1>1, <1>4 DEF Engaged, Vouching, Roused
  <2>2. Engaged \subseteq Engaged' /\ Vouching \subseteq Vouching' /\ Roused \ {s} \subseteq Roused'
    BY <1>1, <2>1, OthersStay, PartsAre
  <2>3. /\ Cardinality(Engaged) + 1 <= Cardinality(Engaged')
        /\ Cardinality(Vouching) + 1 <= Cardinality(Vouching')
    BY <2>1, <2>2, PartsAre, PartsCounted
  <2>4. Cardinality(Roused) <= Cardinality(Roused') + 1
    <3>1. Roused \ {s} \in SUBSET Settlements
      BY PartsAre
    <3>2. Cardinality(Roused \ {s}) <= Cardinality(Roused')
      BY <2>2, <3>1, PartsAre, PartsCounted
    <3>3. Cardinality(Roused \ {s}) + 1 = Cardinality(Roused)
      BY <2>1, PartsAre, PartsCounted
    <3>4. /\ Cardinality(Roused \ {s}) \in Nat /\ Cardinality(Roused') \in Nat
          /\ Cardinality(Roused) \in Nat
      BY <3>1, PartsAre, PartsCounted
    <3> QED BY <3>2, <3>3, <3>4
  <2>5. /\ Cardinality(Engaged) \in Nat /\ Cardinality(Engaged') \in Nat
        /\ Cardinality(Vouching) \in Nat /\ Cardinality(Vouching') \in Nat
        /\ Cardinality(Roused) \in Nat /\ Cardinality(Roused') \in Nat
    BY PartsAre, PartsCounted
  <2>6. (Asleep' => Asleep) /\ (Drowsy' => Drowsy)
    BY <1>1 DEF Asleep, Drowsy, Alone
  <2>7. EnoughEngaged'
    BY <2>3, <2>4, <2>5, <2>6, SettleLineAssumption DEF Watching, EnoughEngaged
  <2>8. EnoughVouching'
    BY <1>1, <2>3, <2>4, <2>5, <2>6 DEF Watching, EnoughVouching
  <2> QED BY <1>2, <2>7, <2>8 DEF Watching
<1> QED BY <1>1, <1>3, <1>4

LEMMA CancelParkedWatches ==
    ASSUME NEW s \in Settlements, IInv, Watching, CancelParked(s)
    PROVE  Watching'
<1>1. /\ Alone(s) /\ pc[s] = "parked" /\ pc'[s] = "uncount" /\ slot[s] = Nobody
      /\ notified[s] # "spent" /\ notified[s] # "none"
      /\ UNCHANGED <<slot, notified, permit, made>> /\ made \in Nat
      /\ \A t \in Settlements \ {s} : result'[t] = result[t]
  BY DEF CancelParked, Goto, Alone, IInv, TypeOK, Phases, Early, WaitingCount, taking
<1>2. EnoughEngaged' /\ EnoughVouching'
  BY <1>1, AloneEnough DEF Engaged, Vouching, Roused
<1>3. PermitIsLeft' /\ SpentStays'
  BY <1>1, RestStays DEF Watching, PermitIsLeft
<1> QED BY <1>2, <1>3 DEF Watching

LEMMA UncountWatches ==
    ASSUME NEW s \in Settlements, IInv, Watching, Uncount(s)
    PROVE  Watching'
<1>1. /\ Alone(s) /\ pc[s] = "uncount" /\ pc'[s] = "unlist"
      /\ UNCHANGED <<slot, notified, permit, result, made>> /\ made \in Nat
  BY DEF Uncount, Goto, Alone, IInv, TypeOK
<1>2. EnoughEngaged' /\ EnoughVouching'
  BY <1>1, AloneEnough DEF Engaged, Vouching, Roused
<1>3. PermitIsLeft' /\ SpentStays'
  BY <1>1, RestStays DEF Watching, PermitIsLeft, SpentStays
<1> QED BY <1>2, <1>3 DEF Watching

\* A wake-up that goes from one settlement to a listed one.
LEMMA HandedOn ==
    ASSUME Watching, NEW s \in Settlements, NEW t \in Settlements, s # t,
           \A u \in Settlements \ {s} : pc'[u] = pc[u] /\ slot'[u] = slot[u],
           \A u \in Settlements \ {s, t} : notified'[u] = notified[u],
           notified[t] = "listed", notified'[t] = "woken",
           made' = made, made \in Nat,
           pc'[s] \notin {"make", "parked"}, notified'[s] = "none",
           \/ /\ notified[s] = "woken"
              /\ s \in Engaged => s \in Engaged'
              /\ s \in Vouching => s \in Vouching'
           \/ notified[s] # "woken"
    PROVE  EnoughEngaged' /\ EnoughVouching'
<1>1. Asleep' => Asleep
  BY DEF Asleep
<1>2. Drowsy' => Drowsy
  BY DEF Drowsy
<1>3. t \notin Roused /\ t \in Roused' /\ Roused \ {s} \subseteq Roused'
  BY DEF Roused
<1>4. /\ Engaged \ {s} \subseteq Engaged'
      /\ Vouching \ {s} \subseteq Vouching'
  BY DEF Engaged, Vouching
<1>5. Roused \ {s} \in SUBSET Settlements /\ Engaged \ {s} \in SUBSET Settlements
      /\ Vouching \ {s} \in SUBSET Settlements
  BY PartsAre
<1>6. /\ Cardinality(Engaged) \in Nat /\ Cardinality(Engaged') \in Nat
      /\ Cardinality(Vouching) \in Nat /\ Cardinality(Vouching') \in Nat
      /\ Cardinality(Roused) \in Nat /\ Cardinality(Roused') \in Nat
      /\ Cardinality(Roused \ {s}) \in Nat
      /\ Cardinality(Engaged \ {s}) \in Nat
      /\ Cardinality(Vouching \ {s}) \in Nat
  BY <1>5, PartsAre, PartsCounted
<1>7. Cardinality(Roused \ {s}) + 1 <= Cardinality(Roused')
  BY <1>3, <1>5, PartsAre, PartsCounted
<1>8. CASE /\ notified[s] = "woken"
           /\ s \in Engaged => s \in Engaged'
           /\ s \in Vouching => s \in Vouching'
  <2>1. Engaged \subseteq Engaged' /\ Vouching \subseteq Vouching'
    BY <1>4, <1>8
  <2>2. /\ Cardinality(Engaged) <= Cardinality(Engaged')
        /\ Cardinality(Vouching) <= Cardinality(Vouching')
    BY <2>1, PartsAre, PartsCounted
  <2>3. s \in Roused
    BY <1>8 DEF Roused
  <2>4. Cardinality(Roused \ {s}) + 1 = Cardinality(Roused)
    BY <2>3, PartsAre, PartsCounted
  <2>5. Cardinality(Roused) <= Cardinality(Roused')
    BY <1>6, <1>7, <2>4
  <2> QED BY <1>1, <1>2, <1>6, <2>2, <2>5, SettleLineAssumption
          DEF Watching, EnoughEngaged, EnoughVouching
<1>9. CASE notified[s] # "woken"
  <2>1. Roused \ {s} = Roused
    BY <1>9 DEF Roused
  <2>2. Cardinality(Roused) + 1 <= Cardinality(Roused')
    BY <1>7, <2>1
  <2>3. Cardinality(Engaged) <= Cardinality(Engaged \ {s}) + 1
    <3>1. CASE s \in Engaged
      BY <1>6, <3>1, PartsAre, PartsCounted
    <3>2. CASE s \notin Engaged
      <4>1. Engaged \ {s} = Engaged
        BY <3>2
      <4> QED BY <1>6, <4>1
    <3> QED BY <3>1, <3>2
  <2>4. Cardinality(Vouching) <= Cardinality(Vouching \ {s}) + 1
    <3>1. CASE s \in Vouching
      BY <1>6, <3>1, PartsAre, PartsCounted
    <3>2. CASE s \notin Vouching
      <4>1. Vouching \ {s} = Vouching
        BY <3>2
      <4> QED BY <1>6, <4>1
    <3> QED BY <3>1, <3>2
  <2>5. /\ Cardinality(Engaged \ {s}) <= Cardinality(Engaged')
        /\ Cardinality(Vouching \ {s}) <= Cardinality(Vouching')
    BY <1>4, <1>5, PartsAre, PartsCounted
  <2> QED BY <1>1, <1>2, <1>6, <2>2, <2>3, <2>4, <2>5, SettleLineAssumption
          DEF Watching, EnoughEngaged, EnoughVouching
<1> QED BY <1>8, <1>9

LEMMA UnlistWatches ==
    ASSUME NEW s \in Settlements, IInv, Watching, Unlist(s)
    PROVE  Watching'
<1> DEFINE left == [notified EXCEPT ![s] = "none"]
<1>1. /\ pc[s] = "unlist" /\ notified[s] # "none" /\ UNCHANGED <<slot, result, made>>
      /\ made \in Nat
      /\ pc'[s] = IF result[s] = Withdrawn THEN "returned"
                  ELSE IF slot[s] = Nobody THEN "pop" ELSE "send"
      /\ \A t \in Settlements \ {s} : pc'[t] = pc[t]
      /\ notified[s] = "spent" => result[s] # Withdrawn
      /\ notified[s] \in {"none", "listed", "woken", "spent"}
  BY DEF Unlist, Goto, IInv, TypeOK, WaitingCount, Watching, SpentStays
<1>2. left[s] = "none" /\ \A t \in Settlements \ {s} : left[t] = notified[t]
  BY DEF IInv, TypeOK
<1>3. /\ s \in Engaged /\ notified[s] # "woken" => s \in Engaged'
      /\ s \in Vouching /\ notified[s] # "woken" => s \in Vouching'
  <2>1. notified'[s] = "none" \/ notified[s] = "woken"
    BY <1>2 DEF Unlist
  <2>2. s \in Engaged => slot[s] # Nobody \/ notified[s] = "spent"
    BY <1>1 DEF Engaged
  <2>3. CASE slot[s] # Nobody
    BY <1>1, <2>3 DEF Engaged, Vouching
  <2>4. CASE notified[s] = "spent" /\ slot[s] = Nobody
    BY <1>1, <2>1, <2>4 DEF Engaged, Vouching
  <2> QED BY <2>2, <2>3, <2>4 DEF Vouching
<1>4. CASE notified[s] # "woken"
  <2>1. notified' = left /\ permit' = permit
    BY <1>4 DEF Unlist
  <2>2. Alone(s) /\ notified'[s] = "none"
    BY <1>1, <1>2, <2>1 DEF Alone
  <2>3. EnoughEngaged' /\ EnoughVouching'
    <3>1. s \notin Roused
      BY <1>4 DEF Roused
    <3> QED BY <1>1, <1>3, <1>4, <2>2, <3>1, AloneEnough DEF Vouching
  <2>4. PermitIsLeft' /\ SpentStays'
    BY <1>1, <2>1, <2>2, RestStays
  <2> QED BY <2>3, <2>4 DEF Watching
<1>5. CASE notified[s] = "woken" /\ permit' = permit
           /\ \E t \in Settlements : left[t] = "listed" /\ notified' = [left EXCEPT ![t] = "woken"]
  <2>1. PICK t \in Settlements : left[t] = "listed" /\ notified' = [left EXCEPT ![t] = "woken"]
    BY <1>5
  <2>2. /\ t # s /\ notified[t] = "listed" /\ notified'[t] = "woken" /\ notified'[s] = "none"
        /\ \A u \in Settlements \ {s, t} : notified'[u] = notified[u]
    BY <1>2, <2>1 DEF IInv, TypeOK
  <2>3. (s \in Engaged => s \in Engaged') /\ (s \in Vouching => s \in Vouching')
    BY <1>1, <1>5 DEF Engaged, Vouching
  <2>4. EnoughEngaged' /\ EnoughVouching'
    BY <1>1, <1>5, <2>2, <2>3, HandedOn
  <2>5. PermitIsLeft' /\ SpentStays'
    BY <1>1, <1>5, <2>2 DEF Watching, PermitIsLeft, SpentStays
  <2> QED BY <2>4, <2>5 DEF Watching
<1>6. CASE (\A t \in Settlements : left[t] # "listed") /\ notified' = left
  <2>1. \A t \in Settlements : notified'[t] # "listed"
    BY <1>6
  <2>2. EnoughEngaged' /\ EnoughVouching' /\ PermitIsLeft'
    BY <2>1, NobodyDrowsy DEF Drowsy, PermitIsLeft
  <2>3. SpentStays'
    BY <1>1, <1>2, <1>6 DEF Watching, SpentStays
  <2> QED BY <2>2, <2>3 DEF Watching
<1> QED BY <1>4, <1>5, <1>6 DEF Unlist, NotifyOne

\* A settlement that has its slot, and keeps it or will wake somebody.
LEMMA HolderWatches ==
    ASSUME NEW s \in Settlements, IInv, Watching, Alone(s),
           slot[s] # Nobody, notified[s] = "none", notified' = notified, permit' = permit,
           slot'[s] # Nobody \/ pc'[s] = "wake",
           pc'[s] \notin {"make", "parked", "uncount", "unlist"},
           \A t \in Settlements \ {s} : result'[t] = result[t],
           made \in Nat, made' \in Nat, made' <= made
    PROVE  Watching'
<1>1. s \in Engaged' /\ s \in Vouching' /\ s \notin Roused
  BY DEF Engaged, Vouching, Roused
<1>2. EnoughEngaged' /\ EnoughVouching'
  BY <1>1, AloneEnough
<1>3. PermitIsLeft' /\ SpentStays'
  BY RestStays
<1> QED BY <1>2, <1>3 DEF Watching

LEMMA SendWatches ==
    ASSUME NEW s \in Settlements, IInv, Watching, Send(s) \/ Recv(s) \/ CancelRecv(s)
    PROVE  Watching'
<1>1. /\ Alone(s) /\ slot[s] # Nobody /\ notified[s] = "none"
      /\ UNCHANGED <<notified, permit, slot, made>> /\ made \in Nat
      /\ pc'[s] \in {"recv", "giveup", "push"}
      /\ \A t \in Settlements \ {s} : result'[t] = result[t]
  BY DEF Send, Recv, CancelRecv, Goto, Alone, IInv, TypeOK, Phases, WaitingCount, taking
<1> QED BY <1>1, HolderWatches

LEMMA PushWatches ==
    ASSUME NEW s \in Settlements, IInv, Watching, Push(s) \/ GiveUp(s)
    PROVE  Watching'
<1>1. /\ Alone(s) /\ slot[s] # Nobody /\ notified[s] = "none"
      /\ UNCHANGED <<notified, permit, result>> /\ made \in Nat
      /\ pc'[s] = "wake" /\ made' \in {made, made - 1}
  BY DEF Push, GiveUp, Goto, Alone, IInv, TypeOK, Phases, WaitingCount
<1>2. made > 0
  BY <1>1, CountsAreReal DEF IInv, Holders
<1>3. made' \in Nat /\ made' <= made
  BY <1>1, <1>2
<1> QED BY <1>1, <1>3, HolderWatches

LEMMA WakeWatches ==
    ASSUME NEW s \in Settlements, IInv, Watching, Wake(s)
    PROVE  Watching'
<1>1. /\ Alone(s) /\ pc[s] = "wake" /\ notified[s] = "none"
      /\ UNCHANGED <<slot, notified, permit, result, made>> /\ made \in Nat
      /\ pc'[s] = IF waiting > 0 THEN "notify" ELSE "returned"
  BY DEF Wake, Goto, Alone, IInv, TypeOK, WaitingCount, Late, taking
<1>2. PermitIsLeft' /\ SpentStays'
  BY <1>1, RestStays DEF Watching, PermitIsLeft
<1>3. CASE waiting > 0
  <2>1. EnoughEngaged' /\ EnoughVouching'
    BY <1>1, <1>3, AloneEnough DEF Engaged, Vouching, Roused
  <2> QED BY <1>2, <2>1 DEF Watching
<1>4. CASE ~(waiting > 0)
  <2>1. ~Drowsy
    BY <1>4, CountsAreReal DEF IInv, Drowsy, Counted
  <2>2. ~Drowsy'
    BY <1>1, <2>1 DEF Drowsy, Alone
  <2> QED BY <1>2, <2>2, NobodyDrowsy DEF Watching
<1> QED BY <1>3, <1>4

LEMMA NotifyWatches ==
    ASSUME NEW s \in Settlements, IInv, Watching, Notify(s)
    PROVE  Watching'
<1>1. /\ pc[s] = "notify" /\ notified[s] = "none" /\ pc'[s] = "returned"
      /\ UNCHANGED <<slot, result, made>> /\ made \in Nat
      /\ \A t \in Settlements \ {s} : pc'[t] = pc[t]
  BY DEF Notify, Goto, IInv, TypeOK, WaitingCount, Late
<1>2. CASE permit' = permit /\ \E t \in Settlements :
              notified[t] = "listed" /\ notified' = [notified EXCEPT ![t] = "woken"]
  <2>1. PICK t \in Settlements :
              notified[t] = "listed" /\ notified' = [notified EXCEPT ![t] = "woken"]
    BY <1>2
  <2>2. /\ t # s /\ notified'[t] = "woken" /\ notified'[s] = "none"
        /\ \A u \in Settlements \ {s, t} : notified'[u] = notified[u]
    BY <1>1, <2>1 DEF IInv, TypeOK
  <2>3. EnoughEngaged' /\ EnoughVouching'
    BY <1>1, <2>1, <2>2, HandedOn
  <2>4. PermitIsLeft' /\ SpentStays'
    BY <1>1, <1>2, <2>2 DEF Watching, PermitIsLeft, SpentStays
  <2> QED BY <2>3, <2>4 DEF Watching
<1>3. CASE (\A t \in Settlements : notified[t] # "listed") /\ notified' = notified
  <2>1. EnoughEngaged' /\ EnoughVouching' /\ PermitIsLeft'
    BY <1>3, NobodyDrowsy DEF Drowsy, PermitIsLeft
  <2>2. SpentStays'
    BY <1>1, <1>3 DEF Watching, SpentStays
  <2> QED BY <2>1, <2>2 DEF Watching
<1> QED BY <1>2, <1>3 DEF Notify, NotifyOne

LEMMA PumpWatches ==
    ASSUME Watching, UNCHANGED <<pc, slot, notified, permit, result, made>>
    PROVE  Watching'
BY DEF Watching, EnoughEngaged, EnoughVouching, PermitIsLeft, SpentStays, Asleep, Drowsy,
       Engaged, Vouching, Roused

LEMMA WatchingBegins == Init => Watching
BY DEF Init, Watching, EnoughEngaged, EnoughVouching, PermitIsLeft, SpentStays, Asleep, Drowsy

LEMMA StepWatches == IInv /\ Watching /\ [Next]_vars => Watching'
<1> SUFFICES ASSUME IInv, Watching, [Next]_vars PROVE Watching'
  OBVIOUS
<1>1. ASSUME NEW s \in Settlements, Advance(s) PROVE Watching'
  BY <1>1, PopWatches, MakeWatches, RegisterWatches, CountWatches, AwakeWatches,
     UncountWatches, UnlistWatches, SendWatches, PushWatches, WakeWatches, NotifyWatches
     DEF Advance
<1>2. ASSUME NEW s \in Settlements, Settle(s) \/ CancelParked(s) \/ CancelRecv(s)
      PROVE  Watching'
  BY <1>2, SettleWatches, CancelParkedWatches, SendWatches
<1>3. CASE PumpTakes \/ PumpReplies \/ PumpStops \/ UNCHANGED vars
  BY <1>3, PumpWatches DEF PumpTakes, PumpReplies, PumpStops, vars, taking
<1> QED BY <1>1, <1>2, <1>3 DEF Next

LEMMA WatchedIsAwaited ==
    ASSUME IInv, Watching
    PROVE  NoStrandedWaiter
<1> SUFFICES ASSUME idle # {} \/ made < Credit, NEW s \in Settlements, pc[s] = "parked",
                    ~Stirring
             PROVE  FALSE
  BY DEF NoStrandedWaiter
<1>1. \A t \in Settlements :
          /\ pc[t] \in {"new", "parked", "recv", "returned"}
          /\ pc[t] = "parked" => notified[t] = "listed"
          /\ pc[t] # "parked" => notified[t] = "none"
  BY DEF Stirring, IInv, TypeOK, Steps, WaitingCount, Late
<1>2. Roused = {} /\ Engaged = Holders
  BY <1>1 DEF Roused, Engaged, Holders
<1>3. Credit <= Cardinality(Holders)
  <2>1. Asleep
    BY <1>1 DEF Asleep
  <2>2. Cardinality(Roused) = 0 /\ Cardinality(Holders) \in Nat
    BY <1>2, FS_EmptySet, FiniteParts DEF IInv
  <2> QED BY <1>2, <2>1, <2>2, SettleLineAssumption DEF Watching, EnoughEngaged
<1>4. made = Cardinality(idle) + Cardinality(Holders) /\ made <= Credit
      /\ Cardinality(idle) \in Nat /\ Cardinality(Holders) \in Nat
  BY FiniteParts DEF IInv, SlotCount
<1>5. Cardinality(idle) = 0 /\ made = Credit
  BY <1>3, <1>4, SettleLineAssumption
<1>6. idle = {}
  BY <1>5, FiniteParts, FS_EmptySet DEF IInv
<1> QED BY <1>5, <1>6, SettleLineAssumption

\* No wake-up is lost, for any number of settlements and slots, whoever is
\* cancelled on the way: while one sleeps and a slot is free, somebody stirs.
THEOREM NoWaiterIsStranded == Spec => []NoStrandedWaiter
<1>1. IInv /\ Watching => NoStrandedWaiter
  BY WatchedIsAwaited
<1> QED BY <1>1, WatchingBegins, StepWatches, Invariance, PTL DEF Spec

=============================================================================
