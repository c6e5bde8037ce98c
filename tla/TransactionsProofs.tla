------------------------- MODULE TransactionsProofs -------------------------
(***************************************************************************)
(* Proofs about the transactional publisher, for any number of calls and   *)
(* either transport.                                                       *)
(***************************************************************************)
EXTENDS Transactions, TLAPS

(***************************************************************************)
(* The inductive invariant.                                                *)
(***************************************************************************)

\* Which steps each kind of call can stand at, over each transport.
Phases ==
    /\ \A c \in Calls : told[c] # "nothing" => at[c] = "returned"
    /\ \A m \in Messages :
        at[m] \in {"new", "sender", "lock", "posting", "sending", "routing", "returned"}
    /\ \A t \in Transactions :
        at[t] \in {"new", "lock", "declaring", "opening", "open", "committing",
                   "aborting", "routing", "dropped", "returned"}
    /\ \A d \in Discharges :
        at[d] \in {"new", "commit", "abort", "committing", "aborting", "routing",
                   "returned"}
    /\ Live => \A c \in Calls : at[c] # "routing"
    /\ ~Live =>
        /\ lock = Nobody /\ orphans = {}
        /\ \A c \in Calls :
            at[c] \notin {"sender", "posting", "sending", "declaring", "opening",
                           "dropped"}

\* Who holds the slot's mutex, and that a post is under the transaction in the
\* slot, which stays there, or under an owned one, which stays open.
LockKept ==
    /\ lock \in Messages =>
        at[lock] = "posting" /\ slot \in Transactions /\ under[lock] = slot
    /\ lock \in Transactions => at[lock] = "declaring" /\ slot = Nobody
    /\ \A t \in Transactions : at[t] = "declaring" => lock = t
    /\ \A m \in Messages :
        /\ at[m] = "posting" =>
            /\ under[m] \in Transactions
            /\ lock = m \/ at[under[m]] = "open"
        /\ at[m] = "sender" /\ under[m] # Nobody => at[under[m]] = "open"

\* A transaction is in one place: the slot, one discharge, or its own value.
OnePlace ==
    /\ slot \in Transactions => told[slot] = "ok"
    /\ \A d \in Discharges :
        /\ taken[d] \in Transactions => told[taken[d]] = "ok" /\ taken[d] # slot
        /\ at[d] \in {"new", "commit", "abort"} => taken[d] = Nobody
    /\ \A t \in Transactions :
        /\ taken[t] \in {Nobody, t}
        /\ taken[t] = t =>
            /\ told[t] # "ok"
            /\ at[t] \in {"committing", "aborting", "routing", "returned"}
    /\ \A d, e \in Discharges :
        taken[d] \in Transactions /\ taken[d] = taken[e] => d = e

\* A publish that is still within a transaction finds it in the slot, and nobody
\* about to take it.
Spans ==
    /\ \A m \in Messages : at[m] = "new" => within[m] = Nobody /\ under[m] = Nobody
    /\ \A m \in Messages : at[m] # "returned" /\ within[m] # Nobody =>
        /\ within[m] = slot
        /\ \A d \in Discharges : at[d] \in {"new", "returned"}
        /\ at[m] \in {"sender", "lock", "posting"}
        /\ at[m] = "sender" => under[m] = Nobody
        /\ at[m] = "posting" => lock = m

\* Nothing opens a transaction before its call does.
Unopened ==
    \A t \in Transactions :
        at[t] \in {"new", "lock", "declaring", "opening"} => fate[t] = "none"

\* In process nobody but its holder ends a transaction.
Buffers ==
    ~Live =>
        /\ slot \in Transactions => fate[slot] = "open"
        /\ \A t \in Transactions : at[t] = "open" => fate[t] = "open"
        /\ \A c \in Settlers :
            /\ at[c] \in {"committing", "routing"} => fate[taken[c]] = "open"
            /\ at[c] = "aborting" => fate[taken[c]] = "discarded"

\* A settled transaction stays settled the way its settler was told.
SettledAsTold ==
    \A c \in Settlers :
        /\ told[c] \in {"committed", "aborted"} => taken[c] \in Transactions
        /\ told[c] = "committed" => fate[taken[c]] = "committed"
        /\ told[c] = "aborted" => fate[taken[c]] = "discarded"

\* A message is out, or under its transaction, only once its publish returned.
Placed ==
    /\ \A m \in Messages : at[m] # "returned" => Promise!Fresh(m)
    /\ \A m \in Messages : told[m] = "ok" => ~Promise!Fresh(m)

IInv ==
    /\ TypeOK /\ Phases /\ LockKept /\ OnePlace /\ Spans
    /\ Unopened /\ Buffers /\ SettledAsTold /\ Placed
    /\ BegunIsKept /\ JoinsItsTransaction

-----------------------------------------------------------------------------
(***************************************************************************)
(* Every action keeps it.  A part that needs another one to be kept has a  *)
(* step of its own.                                                        *)
(***************************************************************************)

LEMMA CloseKeeps ==
    ASSUME IInv, Close
    PROVE  IInv'
<1> USE TransactionsAssumption DEF IInv, Calls, Settlers, Close, handle, server,
        Live
<1>1. (TypeOK /\ Phases /\ LockKept /\ OnePlace)'
  BY DEF TypeOK, Phases, LockKept, OnePlace
<1>2. (Spans /\ Unopened /\ Buffers /\ SettledAsTold)'
  BY DEF Spans, Unopened, Buffers, SettledAsTold
<1>3. (Placed /\ BegunIsKept /\ JoinsItsTransaction)'
  BY DEF Placed, BegunIsKept, JoinsItsTransaction, Promise!Fresh
<1> QED BY <1>1, <1>2, <1>3

LEMMA CutKeeps ==
    ASSUME IInv, Cut
    PROVE  IInv'
<1> USE TransactionsAssumption DEF IInv, TypeOK, Calls, Settlers, Cut, Live, handle
<1>1. TypeOK'
  OBVIOUS
<1>2. (Phases /\ LockKept /\ OnePlace /\ Spans /\ Unopened)'
  BY DEF Phases, LockKept, OnePlace, Spans, Unopened
<1>3. (Buffers /\ SettledAsTold /\ Placed /\ BegunIsKept /\ JoinsItsTransaction)'
  BY DEF Buffers, SettledAsTold, Placed, BegunIsKept, JoinsItsTransaction,
         Promise!Fresh
<1> QED BY <1>1, <1>2, <1>3

LEMMA PublishKeeps ==
    ASSUME IInv, NEW m \in Messages, Publish(m)
    PROVE  IInv'
<1> USE TransactionsAssumption DEF IInv, TypeOK, Calls, Settlers, Publish, Return,
        To, Live, Undisturbed, conn, handle, server
<1>1. TypeOK'
  OBVIOUS
<1>2. LockKept'
  BY DEF LockKept, Spans
<1>3. JoinsItsTransaction'
  BY DEF Phases, JoinsItsTransaction
<1>4. (Phases /\ OnePlace /\ Spans /\ Unopened)'
  BY DEF Phases, OnePlace, Spans, Unopened
<1>5. (Buffers /\ SettledAsTold /\ Placed /\ BegunIsKept)'
  BY DEF Buffers, SettledAsTold, Placed, BegunIsKept, Promise!Fresh
<1> QED BY <1>1, <1>2, <1>3, <1>4, <1>5

LEMMA SenderForKeeps ==
    ASSUME IInv, NEW m \in Messages, SenderFor(m)
    PROVE  IInv'
<1> USE TransactionsAssumption DEF IInv, TypeOK, Calls, Settlers, SenderFor, To,
        Return, conn, handle, server, Live
<1>1. TypeOK'
  OBVIOUS
<1>2. (Phases /\ LockKept /\ OnePlace /\ Spans /\ Unopened)'
  BY DEF Phases, LockKept, OnePlace, Spans, Unopened
<1>3. (Buffers /\ SettledAsTold /\ Placed /\ BegunIsKept /\ JoinsItsTransaction)'
  BY DEF Buffers, SettledAsTold, Placed, BegunIsKept, JoinsItsTransaction,
         Promise!Fresh
<1> QED BY <1>1, <1>2, <1>3

LEMMA LockSlotKeeps ==
    ASSUME IInv, NEW m \in Messages, LockSlot(m)
    PROVE  IInv'
<1> USE TransactionsAssumption DEF IInv, TypeOK, Calls, Settlers, LockSlot, Live,
        To, conn, server
<1>1. TypeOK'
  OBVIOUS
<1>2. (Phases /\ LockKept /\ OnePlace /\ Spans /\ Unopened)'
  BY DEF Phases, LockKept, OnePlace, Spans, Unopened
<1>3. (Buffers /\ SettledAsTold /\ Placed /\ BegunIsKept /\ JoinsItsTransaction)'
  BY DEF Buffers, SettledAsTold, Placed, BegunIsKept, JoinsItsTransaction,
         Promise!Fresh
<1> QED BY <1>1, <1>2, <1>3

LEMMA BufferKeeps ==
    ASSUME IInv, NEW m \in Messages, Buffer(m)
    PROVE  IInv'
<1> USE TransactionsAssumption DEF IInv, TypeOK, Calls, Settlers, Buffer, Live,
        Hold, Return, To, server, conn, handle
<1>1. TypeOK'
  OBVIOUS
<1>2. Phases'
  BY DEF Phases
<1>3. LockKept'
  BY DEF LockKept
<1>4. OnePlace'
  BY DEF OnePlace
<1>5. Spans'
  BY DEF Spans
<1>6. Unopened'
  BY DEF Unopened
<1>7. JoinsItsTransaction'
  BY DEF Spans, JoinsItsTransaction
<1>8. (Buffers /\ SettledAsTold /\ Placed /\ BegunIsKept)'
  BY DEF Buffers, SettledAsTold, Placed, BegunIsKept, Promise!Fresh
<1> QED BY <1>1, <1>2, <1>3, <1>4, <1>5, <1>6, <1>7, <1>8

LEMMA RouteKeeps ==
    ASSUME IInv, NEW m \in Messages, Route(m)
    PROVE  IInv'
<1> USE TransactionsAssumption DEF IInv, TypeOK, Calls, Settlers, Route, Return,
        server, Show, conn, handle, Live
<1>1. TypeOK'
  OBVIOUS
<1>2. JoinsItsTransaction'
  BY DEF Spans, JoinsItsTransaction
<1>3. (Phases /\ LockKept /\ OnePlace /\ Spans /\ Unopened)'
  BY DEF Phases, LockKept, OnePlace, Spans, Unopened
<1>4. (Buffers /\ SettledAsTold /\ Placed /\ BegunIsKept)'
  BY DEF Buffers, SettledAsTold, Placed, BegunIsKept, Promise!Fresh
<1> QED BY <1>1, <1>2, <1>3, <1>4

LEMMA PostedKeeps ==
    ASSUME IInv, NEW m \in Messages, Posted(m)
    PROVE  IInv'
<1> USE TransactionsAssumption DEF IInv, TypeOK, Calls, Settlers, Posted, Hold,
        Return, PostedOrNot, Unlock, conn, server, Live
<1>1. TypeOK'
  OBVIOUS
<1>2. Placed'
  BY DEF LockKept, Placed, Promise!Fresh
<1>3. JoinsItsTransaction'
  BY DEF LockKept, Spans, JoinsItsTransaction
<1>4. (Phases /\ LockKept /\ OnePlace /\ Spans)'
  BY DEF Phases, LockKept, OnePlace, Spans
<1>5. (Unopened /\ Buffers /\ SettledAsTold /\ BegunIsKept)'
  BY DEF Unopened, Buffers, SettledAsTold, BegunIsKept
<1> QED BY <1>1, <1>2, <1>3, <1>4, <1>5

LEMMA SentKeeps ==
    ASSUME IInv, NEW m \in Messages, Sent(m)
    PROVE  IInv'
<1> USE TransactionsAssumption DEF IInv, TypeOK, Calls, Settlers, Sent, Show,
        Return, SentOrNot, conn, handle, server, Live
<1>1. TypeOK'
  OBVIOUS
<1>2. JoinsItsTransaction'
  BY DEF Spans, JoinsItsTransaction
<1>3. (Phases /\ LockKept /\ OnePlace /\ Spans /\ Unopened)'
  BY DEF Phases, LockKept, OnePlace, Spans, Unopened
<1>4. (Buffers /\ SettledAsTold /\ Placed /\ BegunIsKept)'
  BY DEF Buffers, SettledAsTold, Placed, BegunIsKept, Promise!Fresh
<1> QED BY <1>1, <1>2, <1>3, <1>4

LEMMA CancelPublishKeeps ==
    ASSUME IInv, NEW m \in Messages, CancelPublish(m)
    PROVE  IInv'
<1> USE TransactionsAssumption DEF IInv, TypeOK, Calls, Settlers, CancelPublish,
        Live, server, PostedOrNot, SentOrNot, Return, Unlock, conn, Hold, Show
<1>1. TypeOK'
  OBVIOUS
<1>2. (Phases /\ LockKept /\ OnePlace /\ Spans /\ Unopened)'
  BY DEF Phases, LockKept, OnePlace, Spans, Unopened
<1>3. (Buffers /\ SettledAsTold /\ Placed /\ BegunIsKept /\ JoinsItsTransaction)'
  BY DEF Buffers, SettledAsTold, Placed, BegunIsKept, JoinsItsTransaction,
         Promise!Fresh
<1> QED BY <1>1, <1>2, <1>3

LEMMA BeginKeeps ==
    ASSUME IInv, NEW t \in Transactions, Begin(t)
    PROVE  IInv'
<1> USE TransactionsAssumption DEF IInv, TypeOK, Calls, Settlers, Begin, Return, To,
        conn, handle, server, Live
<1>1. TypeOK'
  OBVIOUS
<1>2. OnePlace'
  BY DEF Phases, OnePlace
<1>3. (Phases /\ LockKept /\ Spans /\ Unopened /\ Buffers)'
  BY DEF Phases, LockKept, Spans, Unopened, Buffers
<1>4. (SettledAsTold /\ Placed /\ BegunIsKept /\ JoinsItsTransaction)'
  BY DEF SettledAsTold, Placed, BegunIsKept, JoinsItsTransaction, Promise!Fresh
<1> QED BY <1>1, <1>2, <1>3, <1>4

LEMMA LockBeginKeeps ==
    ASSUME IInv, NEW t \in Transactions, LockBegin(t)
    PROVE  IInv'
<1> USE TransactionsAssumption DEF IInv, TypeOK, Calls, Settlers, LockBegin, Return,
        handle, server, Live, To, Declare, conn
<1>1. TypeOK'
  OBVIOUS
<1>2. OnePlace'
  BY DEF Phases, OnePlace
<1>3. Buffers'
  BY DEF Phases, OnePlace, Buffers
<1>4. SettledAsTold'
  BY DEF Unopened, SettledAsTold
<1>5. (Phases /\ LockKept /\ Spans /\ Unopened)'
  BY DEF Phases, LockKept, Spans, Unopened
<1>6. (Placed /\ BegunIsKept /\ JoinsItsTransaction)'
  BY DEF Placed, BegunIsKept, JoinsItsTransaction, Promise!Fresh
<1> QED BY <1>1, <1>2, <1>3, <1>4, <1>5, <1>6

LEMMA DeclaredKeeps ==
    ASSUME IInv, NEW t \in Transactions, Declared(t)
    PROVE  IInv'
<1> USE TransactionsAssumption DEF IInv, TypeOK, Calls, Settlers, Declared, Declare,
        Return, To, server, Unlock, conn, Live
<1>1. TypeOK'
  OBVIOUS
<1>2. OnePlace'
  BY DEF Phases, OnePlace
<1>3. Spans'
  BY DEF LockKept, Spans
<1>4. Buffers'
  BY DEF Phases, Buffers
<1>5. SettledAsTold'
  BY DEF Unopened, SettledAsTold
<1>6. BegunIsKept'
  BY DEF LockKept, BegunIsKept
<1>7. (Phases /\ LockKept /\ Unopened /\ Placed /\ JoinsItsTransaction)'
  BY DEF Phases, LockKept, Unopened, Placed, JoinsItsTransaction, Promise!Fresh
<1> QED BY <1>1, <1>2, <1>3, <1>4, <1>5, <1>6, <1>7

LEMMA CancelOpeningKeeps ==
    ASSUME IInv, NEW t \in Transactions,
           CancelOpening(t)
    PROVE  IInv'
<1> USE TransactionsAssumption DEF IInv, TypeOK, Calls, Settlers, CancelOpening,
        Live, server, Return, Unlock, conn
<1>1. TypeOK'
  OBVIOUS
<1>2. OnePlace'
  BY DEF Phases, OnePlace
<1>3. SettledAsTold'
  BY DEF Unopened, SettledAsTold
<1>4. (Phases /\ LockKept /\ Spans /\ Unopened)'
  BY DEF Phases, LockKept, Spans, Unopened
<1>5. (Buffers /\ Placed /\ BegunIsKept /\ JoinsItsTransaction)'
  BY DEF Buffers, Placed, BegunIsKept, JoinsItsTransaction, Promise!Fresh
<1> QED BY <1>1, <1>2, <1>3, <1>4, <1>5

LEMMA DischargeKeeps ==
    ASSUME IInv, NEW d \in Discharges,
           NEW how \in {"commit", "abort"}, Discharge(d, how)
    PROVE  IInv'
<1> USE TransactionsAssumption DEF IInv, Calls, Settlers, Discharge, To, conn,
        handle, server, Live
<1>1. (TypeOK /\ Phases /\ LockKept /\ OnePlace)'
  BY DEF TypeOK, Phases, LockKept, OnePlace
<1>2. (Spans /\ Unopened /\ Buffers /\ SettledAsTold)'
  BY DEF Spans, Unopened, Buffers, SettledAsTold
<1>3. (Placed /\ BegunIsKept /\ JoinsItsTransaction)'
  BY DEF Placed, BegunIsKept, JoinsItsTransaction, Promise!Fresh
<1> QED BY <1>1, <1>2, <1>3

LEMMA TakeKeeps ==
    ASSUME IInv, NEW c \in Settlers, Take(c)
    PROVE  IInv'
<1> USE TransactionsAssumption DEF IInv, TypeOK, Calls, Settlers, Take, Return,
        server, To, Discharging, Live, Discard, conn
<1>1. TypeOK'
  OBVIOUS
<1>2. OnePlace'
  BY DEF Phases, OnePlace
<1>3. Spans'
  BY DEF Phases, Spans
<1>4. Unopened'
  BY DEF Phases, OnePlace, Unopened
<1>5. Buffers'
  BY DEF Phases, OnePlace, Buffers
<1>6. SettledAsTold'
  BY DEF Phases, Buffers, SettledAsTold
<1>7. BegunIsKept'
  BY DEF Phases, OnePlace, BegunIsKept
<1>8. (Phases /\ LockKept /\ Placed /\ JoinsItsTransaction)'
  BY DEF Phases, LockKept, Placed, JoinsItsTransaction, Promise!Fresh
<1> QED BY <1>1, <1>2, <1>3, <1>4, <1>5, <1>6, <1>7, <1>8

LEMMA DischargedKeeps ==
    ASSUME IInv, NEW c \in Settlers, Discharged(c)
    PROVE  IInv'
<1> USE TransactionsAssumption DEF IInv, TypeOK, Calls, Settlers, Discharged, Live,
        CommitAll, Return, Discard, server, conn, handle
<1>1. TypeOK'
  OBVIOUS
<1>2. Phases'
  BY DEF Phases
<1>3. LockKept'
  BY DEF LockKept
<1>4. OnePlace'
  BY DEF OnePlace
<1>5. Spans'
  BY DEF Spans
<1>6. Unopened'
  BY DEF Unopened
<1>7. (Buffers /\ SettledAsTold /\ Placed /\ BegunIsKept /\ JoinsItsTransaction)'
  BY DEF Buffers, SettledAsTold, Placed, BegunIsKept, JoinsItsTransaction,
         Promise!Fresh
<1> QED BY <1>1, <1>2, <1>3, <1>4, <1>5, <1>6, <1>7

LEMMA CancelDischargeKeeps ==
    ASSUME IInv, NEW c \in Settlers,
           CancelDischarge(c)
    PROVE  IInv'
<1> USE TransactionsAssumption DEF IInv, TypeOK, Calls, Settlers, CancelDischarge,
        Live, server, CommitAll, Orphan, Return, conn, handle
<1>1. TypeOK'
  OBVIOUS
<1>2. OnePlace'
  BY DEF Phases, OnePlace
<1>3. (Phases /\ LockKept /\ Spans /\ Unopened /\ Buffers)'
  BY DEF Phases, LockKept, Spans, Unopened, Buffers
<1>4. (SettledAsTold /\ Placed /\ BegunIsKept /\ JoinsItsTransaction)'
  BY DEF SettledAsTold, Placed, BegunIsKept, JoinsItsTransaction, Promise!Fresh
<1> QED BY <1>1, <1>2, <1>3, <1>4

LEMMA CheckLiveKeeps ==
    ASSUME IInv, NEW c \in Settlers, CheckLive(c)
    PROVE  IInv'
<1> USE TransactionsAssumption DEF IInv, TypeOK, Calls, Settlers, CheckLive, Live,
        Discard, Return, To, server, conn, handle
<1>1. TypeOK'
  OBVIOUS
<1>2. Unopened'
  BY DEF Phases, OnePlace, Unopened
<1>3. Buffers'
  BY DEF Phases, OnePlace, Buffers
<1>4. SettledAsTold'
  BY DEF Buffers, SettledAsTold
<1>5. (Phases /\ LockKept /\ OnePlace /\ Spans)'
  BY DEF Phases, LockKept, OnePlace, Spans
<1>6. (Placed /\ BegunIsKept /\ JoinsItsTransaction)'
  BY DEF Placed, BegunIsKept, JoinsItsTransaction, Promise!Fresh
<1> QED BY <1>1, <1>2, <1>3, <1>4, <1>5, <1>6

LEMMA RouteAllKeeps ==
    ASSUME IInv, NEW c \in Settlers, RouteAll(c)
    PROVE  IInv'
<1> USE TransactionsAssumption DEF IInv, TypeOK, Calls, Settlers, RouteAll, Discard,
        Return, CommitAll, conn, handle, Live
<1>1. TypeOK'
  OBVIOUS
<1>2. Phases'
  BY DEF Phases
<1>3. LockKept'
  BY DEF LockKept
<1>4. OnePlace'
  BY DEF OnePlace
<1>5. Spans'
  BY DEF Spans
<1>6. Unopened'
  BY DEF Phases, OnePlace, Unopened
<1>7. Buffers'
  BY DEF Phases, OnePlace, Buffers
<1>8. SettledAsTold'
  BY DEF Phases, Buffers, SettledAsTold
<1>9. (Placed /\ BegunIsKept /\ JoinsItsTransaction)'
  BY DEF Placed, BegunIsKept, JoinsItsTransaction, Promise!Fresh
<1> QED BY <1>1, <1>2, <1>3, <1>4, <1>5, <1>6, <1>7, <1>8, <1>9

LEMMA TransactionKeeps ==
    ASSUME IInv, NEW t \in Transactions, Transaction(t)
    PROVE  IInv'
<1> USE TransactionsAssumption DEF IInv, TypeOK, Calls, Settlers, Transaction,
        Return, server, Live, To, Declare, conn, handle
<1>1. TypeOK'
  OBVIOUS
<1>2. OnePlace'
  BY DEF Phases, OnePlace
<1>3. Buffers'
  BY DEF Phases, OnePlace, Buffers
<1>4. SettledAsTold'
  BY DEF Unopened, SettledAsTold
<1>5. (Phases /\ LockKept /\ Spans /\ Unopened)'
  BY DEF Phases, LockKept, Spans, Unopened
<1>6. (Placed /\ BegunIsKept /\ JoinsItsTransaction)'
  BY DEF Placed, BegunIsKept, JoinsItsTransaction, Promise!Fresh
<1> QED BY <1>1, <1>2, <1>3, <1>4, <1>5, <1>6

LEMMA OwnPublishKeeps ==
    ASSUME IInv, NEW t \in Transactions,
           NEW m \in Messages, OwnPublish(t, m)
    PROVE  IInv'
<1> USE TransactionsAssumption DEF IInv, TypeOK, Calls, Settlers, OwnPublish, Free,
        Return, server, Live, To, Hold, conn, handle
<1>1. TypeOK'
  OBVIOUS
<1>2. Buffers'
  BY DEF Buffers
<1>3. SettledAsTold'
  BY DEF SettledAsTold
<1>4. Placed'
  BY DEF Placed, Promise!Fresh
<1>5. BegunIsKept'
  BY DEF BegunIsKept
<1>6. JoinsItsTransaction'
  BY DEF Spans, JoinsItsTransaction
<1>7. (Phases /\ LockKept /\ OnePlace /\ Spans /\ Unopened)'
  BY DEF Phases, LockKept, OnePlace, Spans, Unopened
<1> QED BY <1>1, <1>2, <1>3, <1>4, <1>5, <1>6, <1>7

LEMMA SettleKeeps ==
    ASSUME IInv, NEW t \in Transactions, NEW how \in {"commit", "abort"}, Settle(t, how)
    PROVE  IInv'
<1> USE TransactionsAssumption DEF IInv, TypeOK, Calls, Settlers, Settle, Free,
        Return, Live, Orphan, Discard, To, Discharging, server, conn, handle
<1>1. TypeOK'
  OBVIOUS
<1>2. OnePlace'
  BY DEF Phases, OnePlace
<1>3. Buffers'
  BY DEF Phases, OnePlace, Buffers
<1>4. SettledAsTold'
  BY DEF Phases, Buffers, SettledAsTold
<1>5. (Phases /\ LockKept /\ Spans /\ Unopened)'
  BY DEF Phases, LockKept, Spans, Unopened
<1>6. (Placed /\ BegunIsKept /\ JoinsItsTransaction)'
  BY DEF Placed, BegunIsKept, JoinsItsTransaction, Promise!Fresh
<1> QED BY <1>1, <1>2, <1>3, <1>4, <1>5, <1>6

LEMMA DropKeeps ==
    ASSUME IInv, NEW t \in Transactions, Drop(t)
    PROVE  IInv'
<1> USE TransactionsAssumption DEF IInv, TypeOK, Calls, Settlers, Drop, Free, Live,
        To, server, Discard, Return, conn, handle
<1>1. TypeOK'
  OBVIOUS
<1>2. OnePlace'
  BY DEF Phases, OnePlace
<1>3. Buffers'
  BY DEF Phases, OnePlace, Buffers
<1>4. SettledAsTold'
  BY DEF Buffers, SettledAsTold
<1>5. (Phases /\ LockKept /\ Spans /\ Unopened)'
  BY DEF Phases, LockKept, Spans, Unopened
<1>6. (Placed /\ BegunIsKept /\ JoinsItsTransaction)'
  BY DEF Placed, BegunIsKept, JoinsItsTransaction, Promise!Fresh
<1> QED BY <1>1, <1>2, <1>3, <1>4, <1>5, <1>6

LEMMA RolledBackKeeps ==
    ASSUME IInv, NEW t \in Transactions, RolledBack(t)
    PROVE  IInv'
<1> USE TransactionsAssumption DEF IInv, TypeOK, Calls, Settlers, RolledBack,
        Return, conn, handle, Live
<1>1. TypeOK'
  OBVIOUS
<1>2. OnePlace'
  BY DEF Phases, OnePlace
<1>3. Buffers'
  BY DEF Phases, Buffers
<1>4. (Phases /\ LockKept /\ Spans /\ Unopened)'
  BY DEF Phases, LockKept, Spans, Unopened
<1>5. (SettledAsTold /\ Placed /\ BegunIsKept /\ JoinsItsTransaction)'
  BY DEF SettledAsTold, Placed, BegunIsKept, JoinsItsTransaction, Promise!Fresh
<1> QED BY <1>1, <1>2, <1>3, <1>4, <1>5

LEMMA OrphanEndsKeeps ==
    ASSUME IInv, NEW t \in Transactions, OrphanEnds(t)
    PROVE  IInv'
<1> USE TransactionsAssumption DEF IInv, TypeOK, Calls, Settlers, OrphanEnds, conn,
        handle, Live
<1>1. TypeOK'
  OBVIOUS
<1>2. Buffers'
  BY DEF Phases, Buffers
<1>3. (Phases /\ LockKept /\ OnePlace /\ Spans /\ Unopened)'
  BY DEF Phases, LockKept, OnePlace, Spans, Unopened
<1>4. (SettledAsTold /\ Placed /\ BegunIsKept /\ JoinsItsTransaction)'
  BY DEF SettledAsTold, Placed, BegunIsKept, JoinsItsTransaction, Promise!Fresh
<1> QED BY <1>1, <1>2, <1>3, <1>4

-----------------------------------------------------------------------------
(***************************************************************************)
(* The invariant holds.                                                    *)
(***************************************************************************)

LEMMA InitHolds == Init => IInv
<1> SUFFICES ASSUME Init PROVE IInv
  OBVIOUS
<1> USE TransactionsAssumption DEF Init, Calls, Settlers, Live
<1>1. TypeOK
  BY DEF TypeOK
<1>2. Phases /\ LockKept /\ OnePlace /\ Spans
  BY DEF Phases, LockKept, OnePlace, Spans
<1>3. Unopened /\ Buffers /\ SettledAsTold
  BY DEF Unopened, Buffers, SettledAsTold
<1>4. Placed /\ BegunIsKept /\ JoinsItsTransaction
  BY DEF Placed, BegunIsKept, JoinsItsTransaction, Promise!Fresh
<1> QED BY <1>1, <1>2, <1>3, <1>4 DEF IInv

LEMMA StutterKeeps ==
    ASSUME IInv, UNCHANGED vars
    PROVE  IInv'
<1> USE DEF IInv, vars, conn, handle, server, Live
<1>1. (TypeOK /\ Phases /\ LockKept /\ OnePlace /\ Spans)'
  BY DEF TypeOK, Phases, LockKept, OnePlace, Spans
<1>2. (Unopened /\ Buffers /\ SettledAsTold)'
  BY DEF Unopened, Buffers, SettledAsTold
<1>3. (Placed /\ BegunIsKept /\ JoinsItsTransaction)'
  BY DEF Placed, BegunIsKept, JoinsItsTransaction, Promise!Fresh
<1> QED BY <1>1, <1>2, <1>3

LEMMA NextKeeps ==
    ASSUME IInv, [Next]_vars
    PROVE  IInv'
<1>1. CASE UNCHANGED vars
  BY <1>1, StutterKeeps
<1>2. CASE Close \/ Cut
  BY <1>2, CloseKeeps, CutKeeps
<1>3. ASSUME NEW m \in Messages, Publish(m) \/ PublishStep(m) \/ CancelPublish(m)
      PROVE  IInv'
  BY <1>3, PublishKeeps, SenderForKeeps, LockSlotKeeps, BufferKeeps, RouteKeeps,
     PostedKeeps, SentKeeps, CancelPublishKeeps DEF PublishStep
<1>4. ASSUME NEW t \in Transactions, NEW m \in Messages, OwnPublish(t, m)
      PROVE  IInv'
  BY <1>4, OwnPublishKeeps
<1>5. ASSUME NEW c \in Settlers, SettleStep(c) \/ CancelDischarge(c)
      PROVE  IInv'
  BY <1>5, TakeKeeps, DischargedKeeps, CheckLiveKeeps, RouteAllKeeps,
     CancelDischargeKeeps DEF SettleStep
<1>6. ASSUME NEW t \in Transactions,
             \/ Begin(t) \/ Transaction(t) \/ OwnStep(t) \/ CancelOpening(t)
             \/ Settle(t, "commit") \/ Settle(t, "abort") \/ Drop(t)
      PROVE  IInv'
  <2>1. t \in Settlers
    BY DEF Settlers
  <2>2. CASE SettleStep(t)
    BY <2>1, <2>2, <1>5
  <2>3. CASE Settle(t, "commit") \/ Settle(t, "abort")
    BY <2>3, SettleKeeps
  <2> QED
    BY <1>6, <2>2, <2>3, BeginKeeps, TransactionKeeps, LockBeginKeeps, DeclaredKeeps,
       RolledBackKeeps, OrphanEndsKeeps, CancelOpeningKeeps, DropKeeps DEF OwnStep
<1>7. ASSUME NEW d \in Discharges,
             Discharge(d, "commit") \/ Discharge(d, "abort") \/ SettleStep(d)
      PROVE  IInv'
  <2>1. d \in Settlers
    BY DEF Settlers
  <2>2. CASE SettleStep(d)
    BY <2>1, <2>2, <1>5
  <2> QED BY <1>7, <2>2, DischargeKeeps
<1> QED BY <1>1, <1>2, <1>3, <1>4, <1>5, <1>6, <1>7 DEF Next

\* The inductive invariant holds of every behaviour.
THEOREM Invariance == Spec => []IInv
<1>1. Init => IInv
  BY InitHolds
<1>2. IInv /\ [Next]_vars => IInv'
  BY NextKeeps
<1> QED BY <1>1, <1>2, PTL DEF Spec

\* Calls, transactions and messages keep their types, and a discharge on its
\* way has a transaction.
THEOREM TypeCorrect == Spec => []TypeOK
<1>1. IInv => TypeOK
  BY DEF IInv
<1> QED BY <1>1, Invariance, PTL

\* begin_transaction never overwrites an open transaction: what it opened stays in
\* the slot until a commit or an abort takes it.
THEOREM BegunStaysKept == Spec => []BegunIsKept
<1>1. IInv => BegunIsKept
  BY DEF IInv
<1> QED BY <1>1, Invariance, PTL

\* A publish between a begin and the next commit or abort is posted under that
\* transaction, however many publishes hold the slot meanwhile.
THEOREM PublishesJoin == Spec => []JoinsItsTransaction
<1>1. IInv => JoinsItsTransaction
  BY DEF IInv
<1> QED BY <1>1, Invariance, PTL

\* commit and abort wait for the post that holds the slot, and an owned one for its
\* own: none is on its way under a transaction being discharged.
THEOREM NoPostMeetsItsDischarge == Spec => []NoPostWhileDischarging
<1>1. ASSUME IInv
      PROVE  NoPostWhileDischarging
  <2> SUFFICES ASSUME NEW m \in Messages, NEW c \in Settlers, at[m] = "posting",
                      at[c] \in {"committing", "aborting"}, under[m] = taken[c]
               PROVE  FALSE
    BY DEF NoPostWhileDischarging
  <2> USE <1>1, TransactionsAssumption DEF IInv, Settlers, Calls
  <2>1. CASE lock = m
    BY <2>1 DEF TypeOK, LockKept, OnePlace
  <2>2. CASE at[under[m]] = "open"
    BY <2>2 DEF TypeOK, LockKept, OnePlace, Phases
  <2> QED BY <2>1, <2>2 DEF LockKept
<1> QED BY <1>1, Invariance, PTL

-----------------------------------------------------------------------------
(***************************************************************************)
(* The publisher implements AtomicPosting.                                 *)
(***************************************************************************)

LEMMA NoEffect ==
    ASSUME TypeOK, UNCHANGED <<fate, held, visible>>
    PROVE  Promise!Effect
<1>1. Promise!Discard({})
  BY DEF TypeOK, Promise!Discard
<1> QED BY <1>1 DEF Promise!Effect

LEMMA DiscardsOne ==
    ASSUME TypeOK, NEW t \in Transactions, fate[t] = "open",
           fate' = [fate EXCEPT ![t] = "discarded"], UNCHANGED <<held, visible>>
    PROVE  Promise!Effect
<1>1. Promise!Discard({t})
  BY DEF TypeOK, Promise!Discard
<1>2. {t} \in SUBSET Transactions
  OBVIOUS
<1> QED BY <1>1, <1>2 DEF Promise!Effect

LEMMA OpensOne ==
    ASSUME NEW t \in Transactions, fate[t] = "none", fate' = [fate EXCEPT ![t] = "open"],
           UNCHANGED <<held, visible>>
    PROVE  Promise!Effect
BY DEF Promise!Effect, Promise!Open

LEMMA CommitsOne ==
    ASSUME NEW t \in Transactions, fate[t] = "open", CommitAll(t)
    PROVE  Promise!Effect
BY DEF CommitAll, Promise!Effect, Promise!Commit

LEMMA PostsOne ==
    ASSUME Placed, NEW m \in Messages, at[m] # "returned",
           NEW t \in Transactions, fate[t] = "open", Hold(m, t)
    PROVE  Promise!Effect
BY DEF Placed, Hold, Promise!Effect, Promise!Post

LEMMA SendsOne ==
    ASSUME Placed, NEW m \in Messages, at[m] # "returned", Show(m)
    PROVE  Promise!Effect
BY DEF Placed, Show, Promise!Effect, Promise!Send

LEMMA PublishEffects ==
    ASSUME IInv, NEW m \in Messages, Publish(m) \/ PublishStep(m) \/ CancelPublish(m)
    PROVE  Promise!Effect
<1> USE NoEffect DEF IInv, server
<1>1. CASE Publish(m) \/ SenderFor(m) \/ LockSlot(m)
  BY <1>1 DEF Publish, SenderFor, LockSlot
<1>2. CASE Buffer(m)
  <2>1. CASE slot = Nobody
    BY <1>2, <2>1 DEF Buffer
  <2>2. CASE slot # Nobody
    <3>1. slot \in Transactions /\ fate[slot] = "open"
      BY <1>2, <2>2 DEF TypeOK, Buffer, Buffers
    <3> QED BY <1>2, <2>2, <3>1, PostsOne DEF Buffer
  <2> QED BY <2>1, <2>2
<1>3. CASE Route(m)
  BY <1>3, SendsOne DEF Route
<1>4. CASE at[m] = "posting" /\ PostedOrNot(m, under[m])
  BY <1>4, PostsOne DEF PostedOrNot, LockKept
<1>5. CASE at[m] = "sending" /\ SentOrNot(m)
  BY <1>5, SendsOne DEF SentOrNot
<1>6. CASE Posted(m)
  BY <1>4, <1>6 DEF Posted, PostedOrNot
<1>7. CASE Sent(m)
  BY <1>5, <1>7 DEF Sent, SentOrNot
<1>8. CASE CancelPublish(m)
  BY <1>4, <1>5, <1>8 DEF CancelPublish
<1> QED BY <1>1, <1>2, <1>3, <1>6, <1>7, <1>8 DEF PublishStep

LEMMA SettleEffects ==
    ASSUME IInv, NEW c \in Settlers, SettleStep(c) \/ CancelDischarge(c)
    PROVE  Promise!Effect
<1> USE NoEffect DEF IInv, server
<1>1. CASE Take(c)
  <2>1. CASE slot # Nobody /\ ~Live /\ at[c] = "abort"
    <3>1. slot \in Transactions /\ fate[slot] = "open"
      BY <2>1 DEF TypeOK, Buffers
    <3> QED BY <1>1, <2>1, <3>1, DiscardsOne DEF Take, Discard
  <2> QED BY <1>1, <2>1 DEF Take
<1>2. CASE Discharged(c)
  <2>1. taken[c] \in Transactions
    BY <1>2 DEF TypeOK, Discharged
  <2> QED BY <1>2, <2>1, CommitsOne, DiscardsOne DEF Discharged, Discard
<1>3. CASE CheckLive(c)
  <2>1. CASE at[c] = "committing" /\ closed
    <3>1. taken[c] \in Transactions /\ fate[taken[c]] = "open"
      BY <1>3, <2>1 DEF TypeOK, CheckLive, Buffers
    <3> QED BY <1>3, <2>1, <3>1, DiscardsOne DEF CheckLive, Discard
  <2> QED BY <1>3, <2>1 DEF CheckLive
<1>4. CASE RouteAll(c)
  <2>1. taken[c] \in Transactions /\ fate[taken[c]] = "open"
    <3>1. ~Live
      BY <1>4 DEF RouteAll, Phases, Calls
    <3> QED BY <1>4, <3>1 DEF TypeOK, RouteAll, Buffers
  <2> QED BY <1>4, <2>1, CommitsOne, DiscardsOne DEF RouteAll, Discard
<1>5. CASE CancelDischarge(c)
  BY <1>5, CommitsOne DEF TypeOK, CancelDischarge, Orphan
<1> QED BY <1>1, <1>2, <1>3, <1>4, <1>5 DEF SettleStep

LEMMA OwnEffects ==
    ASSUME IInv, NEW t \in Transactions,
           \/ Begin(t) \/ Transaction(t) \/ LockBegin(t) \/ Declared(t)
           \/ CancelOpening(t) \/ Settle(t, "commit") \/ Settle(t, "abort")
           \/ Drop(t) \/ RolledBack(t) \/ OrphanEnds(t)
           \/ \E m \in Messages : OwnPublish(t, m)
    PROVE  Promise!Effect
<1> USE NoEffect DEF IInv, server
<1>1. CASE Begin(t) \/ Transaction(t) \/ LockBegin(t) \/ Declared(t) \/ CancelOpening(t)
  BY <1>1, OpensOne
     DEF Begin, Transaction, LockBegin, Declared, CancelOpening, Declare, Unopened
<1>2. ASSUME Free(t), ~Live
      PROVE  fate[t] = "open"
  BY <1>2 DEF Free, Buffers
<1>3. CASE Settle(t, "commit") \/ Settle(t, "abort")
  BY <1>2, <1>3, DiscardsOne DEF Settle, Discard, Orphan
<1>4. CASE Drop(t)
  BY <1>2, <1>4, DiscardsOne DEF Drop, Discard
<1>5. CASE RolledBack(t) \/ OrphanEnds(t)
  <2>1. CASE fate[t] = "open"
    BY <1>5, <2>1, DiscardsOne DEF RolledBack, OrphanEnds
  <2>2. CASE fate[t] # "open"
    BY <1>5, <2>2 DEF TypeOK, RolledBack, OrphanEnds
  <2> QED BY <2>1, <2>2
<1>6. ASSUME NEW m \in Messages, OwnPublish(t, m)
      PROVE  Promise!Effect
  <2>1. CASE Hold(m, t) /\ ~Live
    BY <1>2, <1>6, <2>1, PostsOne DEF OwnPublish
  <2> QED BY <1>6, <2>1 DEF OwnPublish
<1> QED BY <1>1, <1>3, <1>4, <1>5, <1>6

LEMMA CutEffect ==
    ASSUME IInv, Cut
    PROVE  Promise!Effect
<1> DEFINE ts == {t \in Transactions : Live /\ fate[t] = "open"}
<1>1. Promise!Discard(ts)
  BY DEF IInv, TypeOK, Cut, Promise!Discard
<1> QED BY <1>1 DEF Promise!Effect

LEMMA StepHasEffect ==
    ASSUME IInv, Next
    PROVE  Promise!Effect
<1>1. CASE Close
  BY <1>1, NoEffect DEF IInv, Close, server
<1>2. CASE Cut
  BY <1>2, CutEffect
<1>3. ASSUME NEW d \in Discharges,
             Discharge(d, "commit") \/ Discharge(d, "abort")
      PROVE  Promise!Effect
  BY <1>3, NoEffect DEF IInv, Discharge, server
<1> QED
  BY <1>1, <1>2, <1>3, PublishEffects, SettleEffects, OwnEffects
     DEF Next, OwnStep, Settlers

\* What was told is final.
LEMMA ToldOnce ==
    ASSUME IInv, Next, NEW c \in Calls, told[c] # "nothing"
    PROVE  told'[c] = told[c]
<1>1. at[c] = "returned"
  BY DEF IInv, Phases
<1> USE <1>1, TransactionsAssumption DEF IInv, TypeOK, Calls, Settlers, To, Return
<1>2. CASE Close \/ Cut
  BY <1>2 DEF Close, Cut
<1>3. ASSUME NEW m \in Messages, Publish(m) \/ PublishStep(m) \/ CancelPublish(m)
      PROVE  told'[c] = told[c]
  BY <1>3 DEF PublishStep, Publish, SenderFor, LockSlot, Buffer, Route, Posted, Sent,
              CancelPublish
<1>4. ASSUME NEW d \in Settlers, SettleStep(d) \/ CancelDischarge(d)
      PROVE  told'[c] = told[c]
  BY <1>4 DEF SettleStep, Take, Discharged, CheckLive, RouteAll, CancelDischarge
<1>5. ASSUME NEW t \in Transactions,
             \/ Begin(t) \/ Transaction(t) \/ LockBegin(t) \/ Declared(t)
             \/ CancelOpening(t) \/ Settle(t, "commit") \/ Settle(t, "abort")
             \/ Drop(t) \/ RolledBack(t) \/ OrphanEnds(t)
             \/ \E m \in Messages : OwnPublish(t, m)
      PROVE  told'[c] = told[c]
  BY <1>5 DEF Begin, Transaction, LockBegin, Declared, CancelOpening, Settle, Drop,
              RolledBack, OrphanEnds, OwnPublish, Free
<1>6. ASSUME NEW d \in Discharges,
             Discharge(d, "commit") \/ Discharge(d, "abort")
      PROVE  told'[c] = told[c]
  BY <1>6 DEF Discharge
<1> QED BY <1>2, <1>3, <1>4, <1>5, <1>6 DEF Next, OwnStep

LEMMA StepIsAtomic ==
    ASSUME IInv, IInv', [Next]_vars
    PROVE  [Promise!Next]_Promise!vars
<1>1. CASE UNCHANGED vars
  BY <1>1 DEF vars, server, Promise!vars
<1>2. CASE Next
  <2>1. Promise!Effect
    BY <1>2, StepHasEffect
  <2>2. DOMAIN told = Calls
    BY DEF IInv, TypeOK
  <2>3. ASSUME NEW c \in Settlers, NEW d \in Settlers, taken'[c] = taken'[d],
               taken'[c] \in Transactions
        PROVE  c = d
    <3> USE <2>3, TransactionsAssumption DEF IInv, OnePlace, Settlers, Calls
    <3>1. CASE c \in Transactions
      <4>1. taken'[d] = c /\ told'[c] # "ok"
        BY <3>1
      <4>2. d \notin Discharges
        BY <4>1, <3>1
      <4> QED BY <4>1, <4>2, <3>1
    <3>2. CASE d \in Transactions
      <4>1. taken'[c] = d /\ told'[d] # "ok"
        BY <3>2
      <4>2. c \notin Discharges
        BY <4>1, <3>2
      <4> QED BY <4>1, <4>2, <3>2
    <3>3. CASE c \in Discharges /\ d \in Discharges
      BY <3>3
    <3> QED BY <3>1, <3>2, <3>3
  <2>4. Promise!Once
    BY <1>2, <2>2, <2>3, ToldOnce DEF Promise!Once
  <2>5. Promise!Honest'
    BY DEF IInv, SettledAsTold, Placed, Promise!Honest
  <2> QED BY <2>1, <2>4, <2>5 DEF Promise!Next
<1> QED BY <1>1, <1>2

\* Over either transport the publisher implements AtomicPosting: every step has at
\* most one effect there, and callers are told the truth about it.
THEOREM PublisherPostsAtomically == Spec => PostsAtomically
<1>1. Init => Promise!Init
  BY DEF Init, Promise!Init
<1>2. IInv /\ IInv' /\ [Next]_vars => [Promise!Next]_Promise!vars
  BY StepIsAtomic
<1> QED BY <1>1, <1>2, Invariance, PTL DEF Spec, PostsAtomically, Promise!Spec

-----------------------------------------------------------------------------
(***************************************************************************)
(* What atomic posting means for the subscribers.                          *)
(***************************************************************************)

\* A transaction's messages are its own, and out exactly when it is committed.
Apart ==
    /\ \A t \in Transactions :
        IF fate[t] = "committed" THEN held[t] \subseteq visible
                                 ELSE held[t] \cap visible = {}
    /\ \A t, u \in Transactions : t # u => held[t] \cap held[u] = {}
    /\ \A t \in Transactions : fate[t] = "none" => held[t] = {}

\* Subscribers see all the messages of a transaction or none: the publisher's
\* reason to exist, and a consequence of AtomicPosting.
THEOREM TransactionsShowWhole == Spec => []Promise!AllOrNothing
<1>1. Init => Apart
  BY DEF Init, Apart
<1>2. ASSUME IInv, Apart, [Promise!Next]_Promise!vars
      PROVE  Apart'
  <2> USE <1>2 DEF IInv, TypeOK, Apart
  <2>1. CASE UNCHANGED Promise!vars
    BY <2>1 DEF Promise!vars
  <2>2. ASSUME NEW t \in Transactions, Promise!Open(t) \/ Promise!Commit(t)
        PROVE  Apart'
    BY <2>2 DEF Promise!Open, Promise!Commit
  <2>3. ASSUME NEW m \in Messages, Promise!Send(m)
        PROVE  Apart'
    BY <2>3 DEF Promise!Send, Promise!Fresh
  <2>4. ASSUME NEW m \in Messages, NEW t \in Transactions, Promise!Post(m, t)
        PROVE  Apart'
    BY <2>4 DEF Promise!Post, Promise!Fresh
  <2>5. ASSUME NEW ts \in SUBSET Transactions, Promise!Discard(ts)
        PROVE  Apart'
    BY <2>5 DEF Promise!Discard
  <2> QED BY <2>1, <2>2, <2>3, <2>4, <2>5 DEF Promise!Next, Promise!Effect
<1>3. IInv /\ Apart => Promise!AllOrNothing
  BY DEF Apart, Promise!AllOrNothing
<1>4. IInv /\ IInv' /\ [Next]_vars => [Promise!Next]_Promise!vars
  BY StepIsAtomic
<1> QED BY <1>1, <1>2, <1>3, <1>4, Invariance, PTL DEF Spec

=============================================================================
