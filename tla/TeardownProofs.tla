--------------------------- MODULE TeardownProofs ---------------------------
(***************************************************************************)
(* Proofs about Teardown, for any number of subscriptions, publishes and   *)
(* shutdowns and any addresses.                                            *)
(***************************************************************************)
EXTENDS Teardown, TLAPS

\* Where a shutdown stands once it knows that no guard is out.
PastWait == {"drain", "close", "detach", "end", "hangup", "returned"}

\* A guard is out exactly from the moment it is handed out until the pump, or
\* the failed opening, drops it.
GuardsKept ==
    \A s \in Subscriptions :
        s \in guards <=> sub[s] \in {"guarded", "begun", "live", "ended"}

\* A session is open only between its beginning and the end of its pump, and
\* its end is queued only where the peer refused its link.
SessionsGuarded ==
    \A s \in Subscriptions :
        /\ subSession[s] = "open" => sub[s] \in {"begun", "live"}
        /\ subSession[s] = "ending" => sub[s] = "refused"

\* A shutdown past its wait left neither a guard nor a way to get one, and only
\* such a shutdown closes the connection.
NoneLeft ==
    /\ \A h \in Shutdowns : down[h] \in PastWait => ~running /\ guards = {}
    /\ connection = "closed" => ~running /\ guards = {}

\* What a publish holds while it attaches: the map, whose entry for its address
\* is empty.
AttachingHoldsMap ==
    \A p \in Publishes :
        pub[p] \in {"attach", "attaching"} =>
            mapLock = p /\ senders[AddressOf[p]] = Nobody

\* Until a shutdown drains the map, every attached link is the map's for its
\* address.
AttachedIsMapped ==
    \A p \in Publishes :
        link[p] = "attached" /\ ~Drained => senders[AddressOf[p]] = p

\* A shutdown closed all it found before it came to the session.
ClosedBeforeEnd ==
    /\ \A h \in Shutdowns :
        /\ down[h] \notin {"close", "detach"} => todo[h] = {}
        /\ down[h] # "detach" => taken[h] = Nobody
    /\ session = "ended" => \E h \in Shutdowns : down[h] \in {"hangup", "returned"}

IInv ==
    /\ TypeOK
    /\ GuardsKept
    /\ SessionsGuarded
    /\ NoneLeft
    /\ AttachingHoldsMap
    /\ AttachedIsMapped
    /\ ClosedBeforeEnd

-----------------------------------------------------------------------------
(* One lemma per action: it keeps the invariant. *)

LEMMA OpenKeeps ==
    ASSUME IInv, NEW s \in Subscriptions, Open(s)
    PROVE  IInv'
<1> USE TeardownAssumption DEF pumps, conns, subs, links, publishing, tearing
<1>1. TypeOK'
  BY DEF IInv, TypeOK, Locker, Open, SubTo
<1>2. GuardsKept'
  BY DEF IInv, GuardsKept, TypeOK, Open, SubTo
<1>3. SessionsGuarded'
  BY DEF IInv, SessionsGuarded, TypeOK, Open, SubTo
<1>4. (NoneLeft /\ AttachingHoldsMap /\ AttachedIsMapped /\
        ClosedBeforeEnd)'
  BY DEF IInv, NoneLeft, AttachingHoldsMap, AttachedIsMapped, ClosedBeforeEnd,
         Drained, Open, SubTo
<1> QED BY <1>1, <1>2, <1>3, <1>4 DEF IInv

LEMMA GuardKeeps ==
    ASSUME IInv, NEW s \in Subscriptions, Guard(s)
    PROVE  IInv'
<1> USE TeardownAssumption DEF pumps, conns, subs, links, publishing, tearing
<1>1. TypeOK'
  BY DEF IInv, TypeOK, Locker, Guard, SubTo
<1>2. GuardsKept'
  BY DEF IInv, GuardsKept, TypeOK, Guard, SubTo
<1>3. SessionsGuarded'
  BY DEF IInv, SessionsGuarded, TypeOK, Guard, SubTo
<1>4. NoneLeft'
  BY DEF IInv, NoneLeft, TypeOK, GuardsKept, PastWait, Guard, SubTo
<1>5. (AttachingHoldsMap /\ AttachedIsMapped /\ ClosedBeforeEnd)'
  BY DEF IInv, AttachingHoldsMap, AttachedIsMapped, ClosedBeforeEnd, Drained,
         Guard, SubTo
<1> QED BY <1>1, <1>2, <1>3, <1>4, <1>5 DEF IInv

LEMMA BeginKeeps ==
    ASSUME IInv, NEW s \in Subscriptions, Begin(s)
    PROVE  IInv'
<1> USE TeardownAssumption DEF pumps, conns, subs, links, publishing, tearing
<1>1. TypeOK'
  BY DEF IInv, TypeOK, Locker, Begin, SubTo
<1>2. GuardsKept'
  BY DEF IInv, GuardsKept, TypeOK, Begin, SubTo
<1>3. SessionsGuarded'
  BY DEF IInv, SessionsGuarded, TypeOK, Begin, SubTo
<1>4. NoneLeft'
  BY DEF IInv, NoneLeft, TypeOK, GuardsKept, PastWait, Begin, SubTo
<1>5. (AttachingHoldsMap /\ AttachedIsMapped /\ ClosedBeforeEnd)'
  BY DEF IInv, AttachingHoldsMap, AttachedIsMapped, ClosedBeforeEnd, Drained,
         Begin, SubTo
<1> QED BY <1>1, <1>2, <1>3, <1>4, <1>5 DEF IInv

LEMMA AttachKeeps ==
    ASSUME IInv, NEW s \in Subscriptions, Attach(s)
    PROVE  IInv'
<1> USE TeardownAssumption DEF pumps, conns, subs, links, publishing, tearing
<1>1. TypeOK'
  BY DEF IInv, TypeOK, Locker, Attach, SubTo
<1>2. GuardsKept'
  BY DEF IInv, GuardsKept, TypeOK, Attach, SubTo
<1>3. SessionsGuarded'
  BY DEF IInv, SessionsGuarded, TypeOK, Attach, SubTo
<1>4. (NoneLeft /\ AttachingHoldsMap /\ AttachedIsMapped /\
        ClosedBeforeEnd)'
  BY DEF IInv, NoneLeft, AttachingHoldsMap, AttachedIsMapped, ClosedBeforeEnd,
         Drained, Attach, SubTo
<1> QED BY <1>1, <1>2, <1>3, <1>4 DEF IInv

LEMMA AttachRefusedKeeps ==
    ASSUME IInv, NEW s \in Subscriptions, AttachRefused(s)
    PROVE  IInv'
<1> USE TeardownAssumption DEF pumps, conns, subs, links, publishing, tearing
<1>1. TypeOK'
  BY DEF IInv, TypeOK, Locker, AttachRefused, SubTo
<1>2. GuardsKept'
  BY DEF IInv, GuardsKept, TypeOK, AttachRefused, SubTo
<1>3. SessionsGuarded'
  BY DEF IInv, SessionsGuarded, TypeOK, AttachRefused, SubTo
<1>4. NoneLeft'
  BY DEF IInv, NoneLeft, TypeOK, GuardsKept, PastWait, AttachRefused, SubTo
<1>5. (AttachingHoldsMap /\ AttachedIsMapped /\ ClosedBeforeEnd)'
  BY DEF IInv, AttachingHoldsMap, AttachedIsMapped, ClosedBeforeEnd, Drained,
         AttachRefused, SubTo
<1> QED BY <1>1, <1>2, <1>3, <1>4, <1>5 DEF IInv

LEMMA QueuedEndKeeps ==
    ASSUME IInv, NEW s \in Subscriptions, QueuedEnd(s)
    PROVE  IInv'
<1> USE TeardownAssumption DEF pumps, conns, subs, links, publishing, tearing
<1>1. TypeOK'
  BY DEF IInv, TypeOK, Locker, QueuedEnd
<1>2. SessionsGuarded'
  BY DEF IInv, SessionsGuarded, TypeOK, QueuedEnd
<1>3. (GuardsKept /\ NoneLeft /\ AttachingHoldsMap /\ AttachedIsMapped /\
        ClosedBeforeEnd)'
  BY DEF IInv, GuardsKept, NoneLeft, AttachingHoldsMap, AttachedIsMapped,
         ClosedBeforeEnd, Drained, QueuedEnd
<1> QED BY <1>1, <1>2, <1>3 DEF IInv

LEMMA PumpEndsKeeps ==
    ASSUME IInv, NEW s \in Subscriptions, PumpEnds(s)
    PROVE  IInv'
<1> USE TeardownAssumption DEF pumps, conns, subs, links, publishing, tearing
<1>1. TypeOK'
  BY DEF IInv, TypeOK, Locker, PumpEnds, SubTo
<1>2. GuardsKept'
  BY DEF IInv, GuardsKept, TypeOK, PumpEnds, SubTo
<1>3. SessionsGuarded'
  BY DEF IInv, SessionsGuarded, TypeOK, PumpEnds, SubTo
<1>4. (NoneLeft /\ AttachingHoldsMap /\ AttachedIsMapped /\
        ClosedBeforeEnd)'
  BY DEF IInv, NoneLeft, AttachingHoldsMap, AttachedIsMapped, ClosedBeforeEnd,
         Drained, PumpEnds, SubTo
<1> QED BY <1>1, <1>2, <1>3, <1>4 DEF IInv

LEMMA ReleaseKeeps ==
    ASSUME IInv, NEW s \in Subscriptions, Release(s)
    PROVE  IInv'
<1> USE TeardownAssumption DEF pumps, conns, subs, links, publishing, tearing
<1>1. TypeOK'
  BY DEF IInv, TypeOK, Locker, Release, SubTo
<1>2. GuardsKept'
  BY DEF IInv, GuardsKept, TypeOK, Release, SubTo
<1>3. SessionsGuarded'
  BY DEF IInv, SessionsGuarded, TypeOK, Release, SubTo
<1>4. NoneLeft'
  BY DEF IInv, NoneLeft, TypeOK, GuardsKept, PastWait, Release, SubTo
<1>5. (AttachingHoldsMap /\ AttachedIsMapped /\ ClosedBeforeEnd)'
  BY DEF IInv, AttachingHoldsMap, AttachedIsMapped, ClosedBeforeEnd, Drained,
         Release, SubTo
<1> QED BY <1>1, <1>2, <1>3, <1>4, <1>5 DEF IInv

LEMMA PublishKeeps ==
    ASSUME IInv, NEW p \in Publishes, Publish(p)
    PROVE  IInv'
<1> USE TeardownAssumption DEF pumps, conns, subs, links, publishing, tearing
<1>1. TypeOK'
  BY DEF IInv, TypeOK, Locker, Publish, PubTo, Tell
<1>2. AttachingHoldsMap'
  BY DEF IInv, AttachingHoldsMap, TypeOK, Locker, Publish, PubTo, Tell
<1>3. (GuardsKept /\ SessionsGuarded /\ NoneLeft /\ AttachedIsMapped /\
        ClosedBeforeEnd)'
  BY DEF IInv, GuardsKept, SessionsGuarded, NoneLeft, AttachedIsMapped,
         ClosedBeforeEnd, Drained, Publish, PubTo, Tell
<1> QED BY <1>1, <1>2, <1>3 DEF IInv

LEMMA LookupKeeps ==
    ASSUME IInv, NEW p \in Publishes, Lookup(p)
    PROVE  IInv'
<1> USE TeardownAssumption DEF pumps, conns, subs, links, publishing, tearing
<1>1. TypeOK'
  BY DEF IInv, TypeOK, Locker, Lookup, PubTo
<1>2. AttachingHoldsMap'
  BY DEF IInv, AttachingHoldsMap, TypeOK, Locker, Lookup, PubTo
<1>3. (GuardsKept /\ SessionsGuarded /\ NoneLeft /\ AttachedIsMapped /\
        ClosedBeforeEnd)'
  BY DEF IInv, GuardsKept, SessionsGuarded, NoneLeft, AttachedIsMapped,
         ClosedBeforeEnd, Drained, Lookup, PubTo
<1> QED BY <1>1, <1>2, <1>3 DEF IInv

LEMMA LockSessionKeeps ==
    ASSUME IInv, NEW p \in Publishes, LockSession(p)
    PROVE  IInv'
<1> USE TeardownAssumption DEF pumps, conns, subs, links, publishing, tearing
<1>1. TypeOK'
  BY DEF IInv, TypeOK, Locker, LockSession, PubTo
<1>2. AttachingHoldsMap'
  BY DEF IInv, AttachingHoldsMap, TypeOK, Locker, LockSession, PubTo
<1>3. (GuardsKept /\ SessionsGuarded /\ NoneLeft /\ AttachedIsMapped /\
        ClosedBeforeEnd)'
  BY DEF IInv, GuardsKept, SessionsGuarded, NoneLeft, AttachedIsMapped,
         ClosedBeforeEnd, Drained, LockSession, PubTo
<1> QED BY <1>1, <1>2, <1>3 DEF IInv

LEMMA AttachedKeeps ==
    ASSUME IInv, NEW p \in Publishes, Attached(p)
    PROVE  IInv'
<1> USE TeardownAssumption DEF pumps, conns, subs, links, publishing, tearing
<1>1. TypeOK'
  BY DEF IInv, TypeOK, Locker, Attached, PubTo, Unlock
<1>2. AttachingHoldsMap'
  BY DEF IInv, AttachingHoldsMap, TypeOK, Locker, Attached, PubTo, Unlock
<1>3. AttachedIsMapped'
  <2> SUFFICES ASSUME NEW q \in Publishes, link'[q] = "attached", ~Drained'
               PROVE  senders'[AddressOf[q]] = q
    BY DEF AttachedIsMapped
  <2>1. CASE q = p
    BY <2>1 DEF IInv, TypeOK, Attached
  <2>2. CASE q # p
    <3>1. senders[AddressOf[q]] = q
      BY <2>2 DEF IInv, TypeOK, AttachedIsMapped, Drained, Attached
    <3>2. AddressOf[q] # AddressOf[p]
      BY <3>1 DEF IInv, AttachingHoldsMap, Attached
    <3> QED BY <3>1, <3>2 DEF IInv, TypeOK, Attached
  <2> QED BY <2>1, <2>2
<1>4. (GuardsKept /\ SessionsGuarded /\ NoneLeft /\ ClosedBeforeEnd)'
  BY DEF IInv, GuardsKept, SessionsGuarded, NoneLeft, ClosedBeforeEnd,
         Attached, PubTo, Unlock
<1> QED BY <1>1, <1>2, <1>3, <1>4 DEF IInv

LEMMA NotAttachedKeeps ==
    ASSUME IInv, NEW p \in Publishes, NotAttached(p)
    PROVE  IInv'
<1> USE TeardownAssumption DEF pumps, conns, subs, links, publishing, tearing
<1>1. TypeOK'
  BY DEF IInv, TypeOK, Locker, NotAttached, PubTo, Tell, Unlock
<1>2. AttachingHoldsMap'
  BY DEF IInv, AttachingHoldsMap, TypeOK, Locker, NotAttached, PubTo, Tell,
         Unlock
<1>3. (GuardsKept /\ SessionsGuarded /\ NoneLeft /\ AttachedIsMapped /\
        ClosedBeforeEnd)'
  BY DEF IInv, GuardsKept, SessionsGuarded, NoneLeft, AttachedIsMapped,
         ClosedBeforeEnd, Drained, NotAttached, PubTo, Tell, Unlock
<1> QED BY <1>1, <1>2, <1>3 DEF IInv

LEMMA LockSlotKeeps ==
    ASSUME IInv, NEW p \in Publishes, LockSlot(p)
    PROVE  IInv'
<1> USE TeardownAssumption DEF pumps, conns, subs, links, publishing, tearing
<1>1. TypeOK'
  BY DEF IInv, TypeOK, Locker, LockSlot, PubTo, Tell
<1>2. AttachingHoldsMap'
  BY DEF IInv, AttachingHoldsMap, TypeOK, Locker, LockSlot, PubTo, Tell
<1>3. (GuardsKept /\ SessionsGuarded /\ NoneLeft /\ AttachedIsMapped /\
        ClosedBeforeEnd)'
  BY DEF IInv, GuardsKept, SessionsGuarded, NoneLeft, AttachedIsMapped,
         ClosedBeforeEnd, Drained, LockSlot, PubTo, Tell
<1> QED BY <1>1, <1>2, <1>3 DEF IInv

LEMMA SentKeeps ==
    ASSUME IInv, NEW p \in Publishes, NEW outcome \in {"ok", "Publish"}, Sent(p, outcome)
    PROVE  IInv'
<1> USE TeardownAssumption DEF pumps, conns, subs, links, publishing, tearing
<1>1. TypeOK'
  BY DEF IInv, TypeOK, Locker, Sent, PubTo, Tell
<1>2. AttachingHoldsMap'
  BY DEF IInv, AttachingHoldsMap, TypeOK, Locker, Sent, PubTo, Tell
<1>3. (GuardsKept /\ SessionsGuarded /\ NoneLeft /\ AttachedIsMapped /\
        ClosedBeforeEnd)'
  BY DEF IInv, GuardsKept, SessionsGuarded, NoneLeft, AttachedIsMapped,
         ClosedBeforeEnd, Drained, Sent, PubTo, Tell
<1> QED BY <1>1, <1>2, <1>3 DEF IInv

LEMMA CancelPublishKeeps ==
    ASSUME IInv, NEW p \in Publishes, CancelPublish(p)
    PROVE  IInv'
<1> USE TeardownAssumption DEF pumps, conns, subs, links, publishing, tearing
<1>1. TypeOK'
  BY DEF IInv, TypeOK, Locker, CancelPublish, PubTo, Tell
<1>2. AttachingHoldsMap'
  BY DEF IInv, AttachingHoldsMap, TypeOK, Locker, CancelPublish, PubTo, Tell
<1>3. (GuardsKept /\ SessionsGuarded /\ NoneLeft /\ AttachedIsMapped /\
        ClosedBeforeEnd)'
  BY DEF IInv, GuardsKept, SessionsGuarded, NoneLeft, AttachedIsMapped,
         ClosedBeforeEnd, Drained, CancelPublish, PubTo, Tell
<1> QED BY <1>1, <1>2, <1>3 DEF IInv

LEMMA CloseKeeps ==
    ASSUME IInv, NEW h \in Shutdowns, Close(h)
    PROVE  IInv'
<1> USE TeardownAssumption DEF pumps, conns, subs, links, publishing, tearing
<1>1. TypeOK'
  BY DEF IInv, TypeOK, Locker, Close, DownTo
<1>2. NoneLeft'
  BY DEF IInv, NoneLeft, TypeOK, GuardsKept, PastWait, Close, DownTo
<1>3. AttachedIsMapped'
  BY DEF IInv, AttachedIsMapped, TypeOK, AttachingHoldsMap, Drained, Close,
         DownTo
<1>4. ClosedBeforeEnd'
  BY DEF IInv, ClosedBeforeEnd, TypeOK, Close, DownTo
<1>5. (GuardsKept /\ SessionsGuarded /\ AttachingHoldsMap)'
  BY DEF IInv, GuardsKept, SessionsGuarded, AttachingHoldsMap, Close, DownTo
<1> QED BY <1>1, <1>2, <1>3, <1>4, <1>5 DEF IInv

LEMMA TakeRunningKeeps ==
    ASSUME IInv, NEW h \in Shutdowns, TakeRunning(h)
    PROVE  IInv'
<1> USE TeardownAssumption DEF pumps, conns, subs, links, publishing, tearing
<1>1. TypeOK'
  BY DEF IInv, TypeOK, Locker, TakeRunning, DownTo
<1>2. NoneLeft'
  BY DEF IInv, NoneLeft, TypeOK, GuardsKept, PastWait, TakeRunning, DownTo
<1>3. AttachedIsMapped'
  BY DEF IInv, AttachedIsMapped, TypeOK, AttachingHoldsMap, Drained,
         TakeRunning, DownTo
<1>4. ClosedBeforeEnd'
  BY DEF IInv, ClosedBeforeEnd, TypeOK, TakeRunning, DownTo
<1>5. (GuardsKept /\ SessionsGuarded /\ AttachingHoldsMap)'
  BY DEF IInv, GuardsKept, SessionsGuarded, AttachingHoldsMap, TakeRunning,
         DownTo
<1> QED BY <1>1, <1>2, <1>3, <1>4, <1>5 DEF IInv

LEMMA SignalKeeps ==
    ASSUME IInv, NEW h \in Shutdowns, Signal(h)
    PROVE  IInv'
<1> USE TeardownAssumption DEF pumps, conns, subs, links, publishing, tearing
<1>1. TypeOK'
  BY DEF IInv, TypeOK, Locker, Signal, DownTo
<1>2. NoneLeft'
  BY DEF IInv, NoneLeft, TypeOK, GuardsKept, PastWait, Signal, DownTo
<1>3. AttachedIsMapped'
  BY DEF IInv, AttachedIsMapped, TypeOK, AttachingHoldsMap, Drained, Signal,
         DownTo
<1>4. ClosedBeforeEnd'
  BY DEF IInv, ClosedBeforeEnd, TypeOK, Signal, DownTo
<1>5. (GuardsKept /\ SessionsGuarded /\ AttachingHoldsMap)'
  BY DEF IInv, GuardsKept, SessionsGuarded, AttachingHoldsMap, Signal, DownTo
<1> QED BY <1>1, <1>2, <1>3, <1>4, <1>5 DEF IInv

LEMMA WaitKeeps ==
    ASSUME IInv, NEW h \in Shutdowns, Wait(h)
    PROVE  IInv'
<1> USE TeardownAssumption DEF pumps, conns, subs, links, publishing, tearing
<1>1. TypeOK'
  BY DEF IInv, TypeOK, Locker, Wait, DownTo
<1>2. NoneLeft'
  BY DEF IInv, NoneLeft, TypeOK, GuardsKept, PastWait, Wait, DownTo
<1>3. AttachedIsMapped'
  BY DEF IInv, AttachedIsMapped, TypeOK, AttachingHoldsMap, Drained, Wait,
         DownTo
<1>4. ClosedBeforeEnd'
  BY DEF IInv, ClosedBeforeEnd, TypeOK, Wait, DownTo
<1>5. (GuardsKept /\ SessionsGuarded /\ AttachingHoldsMap)'
  BY DEF IInv, GuardsKept, SessionsGuarded, AttachingHoldsMap, Wait, DownTo
<1> QED BY <1>1, <1>2, <1>3, <1>4, <1>5 DEF IInv

LEMMA DrainKeeps ==
    ASSUME IInv, NEW h \in Shutdowns, Drain(h)
    PROVE  IInv'
<1> USE TeardownAssumption DEF pumps, conns, subs, links, publishing, tearing
<1>1. TypeOK'
  BY DEF IInv, TypeOK, Locker, Drain, DownTo
<1>2. NoneLeft'
  BY DEF IInv, NoneLeft, TypeOK, GuardsKept, PastWait, Drain, DownTo
<1>3. AttachingHoldsMap'
  BY DEF IInv, AttachingHoldsMap, TypeOK, Locker, Drain, DownTo
<1>4. AttachedIsMapped'
  BY DEF IInv, AttachedIsMapped, TypeOK, AttachingHoldsMap, Drained, Drain,
         DownTo
<1>5. ClosedBeforeEnd'
  BY DEF IInv, ClosedBeforeEnd, TypeOK, Drain, DownTo
<1>6. (GuardsKept /\ SessionsGuarded)'
  BY DEF IInv, GuardsKept, SessionsGuarded, Drain, DownTo
<1> QED BY <1>1, <1>2, <1>3, <1>4, <1>5, <1>6 DEF IInv

LEMMA TakeSlotKeeps ==
    ASSUME IInv, NEW h \in Shutdowns, TakeSlot(h)
    PROVE  IInv'
<1> USE TeardownAssumption DEF pumps, conns, subs, links, publishing, tearing
<1>1. TypeOK'
  BY DEF IInv, TypeOK, Locker, TakeSlot, DownTo
<1>2. NoneLeft'
  BY DEF IInv, NoneLeft, TypeOK, GuardsKept, PastWait, TakeSlot, DownTo
<1>3. AttachedIsMapped'
  BY DEF IInv, AttachedIsMapped, TypeOK, AttachingHoldsMap, Drained, TakeSlot,
         DownTo
<1>4. ClosedBeforeEnd'
  BY DEF IInv, ClosedBeforeEnd, TypeOK, TakeSlot, DownTo
<1>5. (GuardsKept /\ SessionsGuarded /\ AttachingHoldsMap)'
  BY DEF IInv, GuardsKept, SessionsGuarded, AttachingHoldsMap, TakeSlot,
         DownTo
<1> QED BY <1>1, <1>2, <1>3, <1>4, <1>5 DEF IInv

LEMMA DetachedKeeps ==
    ASSUME IInv, NEW h \in Shutdowns, Detached(h)
    PROVE  IInv'
<1> USE TeardownAssumption DEF pumps, conns, subs, links, publishing, tearing
<1>1. TypeOK'
  BY DEF IInv, TypeOK, Locker, Detached, DownTo, Report
<1>2. NoneLeft'
  BY DEF IInv, NoneLeft, TypeOK, GuardsKept, PastWait, Detached, DownTo,
         Report
<1>3. AttachedIsMapped'
  BY DEF IInv, AttachedIsMapped, TypeOK, AttachingHoldsMap, Drained, Detached,
         DownTo, Report
<1>4. ClosedBeforeEnd'
  BY DEF IInv, ClosedBeforeEnd, TypeOK, Detached, DownTo, Report
<1>5. (GuardsKept /\ SessionsGuarded /\ AttachingHoldsMap)'
  BY DEF IInv, GuardsKept, SessionsGuarded, AttachingHoldsMap, Detached,
         DownTo, Report
<1> QED BY <1>1, <1>2, <1>3, <1>4, <1>5 DEF IInv

LEMMA SendersClosedKeeps ==
    ASSUME IInv, NEW h \in Shutdowns, SendersClosed(h)
    PROVE  IInv'
<1> USE TeardownAssumption DEF pumps, conns, subs, links, publishing, tearing
<1>1. TypeOK'
  BY DEF IInv, TypeOK, Locker, SendersClosed, DownTo
<1>2. NoneLeft'
  BY DEF IInv, NoneLeft, TypeOK, GuardsKept, PastWait, SendersClosed, DownTo
<1>3. AttachedIsMapped'
  BY DEF IInv, AttachedIsMapped, TypeOK, AttachingHoldsMap, Drained,
         SendersClosed, DownTo
<1>4. ClosedBeforeEnd'
  BY DEF IInv, ClosedBeforeEnd, TypeOK, SendersClosed, DownTo
<1>5. (GuardsKept /\ SessionsGuarded /\ AttachingHoldsMap)'
  BY DEF IInv, GuardsKept, SessionsGuarded, AttachingHoldsMap, SendersClosed,
         DownTo
<1> QED BY <1>1, <1>2, <1>3, <1>4, <1>5 DEF IInv

LEMMA EndSessionKeeps ==
    ASSUME IInv, NEW h \in Shutdowns, EndSession(h)
    PROVE  IInv'
<1> USE TeardownAssumption DEF pumps, conns, subs, links, publishing, tearing
<1>1. TypeOK'
  BY DEF IInv, TypeOK, Locker, EndSession, DownTo, Report
<1>2. NoneLeft'
  BY DEF IInv, NoneLeft, TypeOK, GuardsKept, PastWait, EndSession, DownTo,
         Report
<1>3. AttachedIsMapped'
  BY DEF IInv, AttachedIsMapped, TypeOK, AttachingHoldsMap, Drained,
         EndSession, DownTo, Report
<1>4. ClosedBeforeEnd'
  BY DEF IInv, ClosedBeforeEnd, TypeOK, EndSession, DownTo, Report
<1>5. (GuardsKept /\ SessionsGuarded /\ AttachingHoldsMap)'
  BY DEF IInv, GuardsKept, SessionsGuarded, AttachingHoldsMap, EndSession,
         DownTo, Report
<1> QED BY <1>1, <1>2, <1>3, <1>4, <1>5 DEF IInv

LEMMA CloseConnectionKeeps ==
    ASSUME IInv, NEW h \in Shutdowns, CloseConnection(h)
    PROVE  IInv'
<1> USE TeardownAssumption DEF pumps, conns, subs, links, publishing, tearing
<1>1. TypeOK'
  BY DEF IInv, TypeOK, Locker, CloseConnection, DownTo, Report
<1>2. NoneLeft'
  BY DEF IInv, NoneLeft, TypeOK, GuardsKept, PastWait, CloseConnection,
         DownTo, Report
<1>3. AttachedIsMapped'
  BY DEF IInv, AttachedIsMapped, TypeOK, AttachingHoldsMap, Drained,
         CloseConnection, DownTo, Report
<1>4. ClosedBeforeEnd'
  BY DEF IInv, ClosedBeforeEnd, TypeOK, CloseConnection, DownTo, Report
<1>5. (GuardsKept /\ SessionsGuarded /\ AttachingHoldsMap)'
  BY DEF IInv, GuardsKept, SessionsGuarded, AttachingHoldsMap,
         CloseConnection, DownTo, Report
<1> QED BY <1>1, <1>2, <1>3, <1>4, <1>5 DEF IInv

-----------------------------------------------------------------------------
(* The theorems. *)

\* The invariant holds throughout, however subscriptions, publishes and
\* shutdowns interleave.
THEOREM Invariance == Spec => []IInv
<1>1. Init => IInv
  <2> SUFFICES ASSUME Init PROVE IInv
    OBVIOUS
  <2>1. TypeOK
    BY DEF Init, TypeOK, Locker
  <2>2. GuardsKept /\ SessionsGuarded /\ NoneLeft /\ AttachingHoldsMap
    BY DEF Init, GuardsKept, SessionsGuarded, NoneLeft, PastWait, AttachingHoldsMap
  <2>3. AttachedIsMapped /\ ClosedBeforeEnd
    BY DEF Init, AttachedIsMapped, ClosedBeforeEnd
  <2> QED BY <2>1, <2>2, <2>3 DEF IInv
<1>2. ASSUME IInv, [Next]_vars PROVE IInv'
  <2>1. ASSUME NEW s \in Subscriptions, SubStep(s) PROVE IInv'
    BY <1>2, <2>1, OpenKeeps, GuardKeeps, BeginKeeps, AttachKeeps,
                   AttachRefusedKeeps, QueuedEndKeeps, PumpEndsKeeps,
                   ReleaseKeeps
       DEF SubStep
  <2>2. ASSUME NEW p \in Publishes, PubStep(p) \/ CancelPublish(p) PROVE IInv'
    BY <1>2, <2>2, PublishKeeps, LookupKeeps, LockSessionKeeps, AttachedKeeps,
                   NotAttachedKeeps, LockSlotKeeps, SentKeeps,
                   CancelPublishKeeps
       DEF PubStep
  <2>3. ASSUME NEW h \in Shutdowns, Close(h) \/ DownStep(h) PROVE IInv'
    BY <1>2, <2>3, CloseKeeps, TakeRunningKeeps, SignalKeeps, WaitKeeps,
                   DrainKeeps, TakeSlotKeeps, DetachedKeeps,
                   SendersClosedKeeps, EndSessionKeeps, CloseConnectionKeeps
       DEF DownStep
  <2>4. CASE UNCHANGED vars
    BY <1>2, <2>4
       DEF vars, pumps, conns, subs, links, publishing, tearing, IInv, TypeOK, Locker,
           GuardsKept, SessionsGuarded, NoneLeft, AttachingHoldsMap,
           AttachedIsMapped, Drained, ClosedBeforeEnd
  <2> QED BY <1>2, <2>1, <2>2, <2>3, <2>4 DEF Next
<1> QED BY <1>1, <1>2, PTL DEF Spec

\* Every variable keeps its type.
THEOREM TypeCorrect == Spec => []TypeOK
<1>1. IInv => TypeOK
  BY DEF IInv
<1> QED BY <1>1, Invariance, PTL

\* Once the sender of the guards is gone no guard is handed out again.
THEOREM NoGuardsAfterShutdown == Spec => NoGuardAfterShutdown
<1>1. ASSUME [Next]_vars PROVE [~running => guards' \subseteq guards]_vars
  <2>1. ASSUME NEW s \in Subscriptions, SubStep(s), ~running
        PROVE  guards' \subseteq guards
    BY <2>1 DEF SubStep, Open, Guard, Begin, Attach, AttachRefused, QueuedEnd,
                PumpEnds, Release, pumps
  <2>2. ASSUME NEW p \in Publishes, PubStep(p) \/ CancelPublish(p)
        PROVE  guards' \subseteq guards
    BY <2>2 DEF PubStep, Publish, Lookup, LockSession, Attached, NotAttached,
                LockSlot, Sent, CancelPublish, pumps
  <2>3. ASSUME NEW h \in Shutdowns, Close(h) \/ DownStep(h)
        PROVE  guards' \subseteq guards
    BY <2>3 DEF Close, DownStep, TakeRunning, Signal, Wait, Drain, TakeSlot,
                Detached, SendersClosed, EndSession, CloseConnection, pumps
  <2> QED BY <1>1, <2>1, <2>2, <2>3 DEF Next
<1> QED BY <1>1, PTL DEF Spec, NoGuardAfterShutdown

\* The connection closes only after every subscription's session ended, also
\* one that was being opened while the shutdown began, unless the peer refused
\* that subscription's link.
THEOREM OnlyRefusedDoOutlive == Spec => []OnlyRefusedOutlives
<1>1. ASSUME IInv PROVE OnlyRefusedOutlives
  BY <1>1 DEF IInv, TypeOK, GuardsKept, SessionsGuarded, NoneLeft,
              OnlyRefusedOutlives
<1> QED BY <1>1, Invariance, PTL

\* However many publishes race for an address, it carries one link until a
\* shutdown drains the map.
THEOREM AddressesCarryOneLink == Spec => []OneLinkPerAddress
<1>1. ASSUME IInv PROVE OneLinkPerAddress
  BY <1>1 DEF IInv, AttachedIsMapped, OneLinkPerAddress
<1> QED BY <1>1, Invariance, PTL

\* While one shutdown was called, every link it found is closed before the
\* session of those links ends.
THEOREM AloneDoesCloseFound == Spec => []AloneClosesFound
<1>1. ASSUME IInv PROVE AloneClosesFound
  <2> SUFFICES ASSUME \A g, h \in Shutdowns :
                        down[g] # "new" /\ down[h] # "new" => g = h,
                      session = "ended", NEW h \in Shutdowns
               PROVE  todo[h] = {} /\ taken[h] = Nobody
    BY DEF AloneClosesFound, FoundLinksCloseFirst
  <2>1. down[h] \in {"new", "hangup", "returned"}
    BY <1>1 DEF IInv, ClosedBeforeEnd
  <2> QED BY <1>1, <2>1 DEF IInv, ClosedBeforeEnd
<1> QED BY <1>1, Invariance, PTL


-----------------------------------------------------------------------------
(* Whom a publish finds gone.                                              *)

\* Until a shutdown begins every link that the map or a publish names is in its
\* slot.
BeforeShutdown ==
    /\ \A h \in Shutdowns : down[h] # "new" => closed
    /\ ~closed =>
          /\ \A a \in Addresses : senders[a] \in slot \cup {Nobody}
          /\ \A p \in Publishes : pub[p] = "slot" => uses[p] \in slot
    /\ NotConnectedMeansShutdown

LEMMA InitBefore == Init => BeforeShutdown
BY DEF Init, BeforeShutdown, NotConnectedMeansShutdown

LEMMA StepBefore == TypeOK /\ BeforeShutdown /\ [Next]_vars => BeforeShutdown'
<1> SUFFICES ASSUME TypeOK, BeforeShutdown, [Next]_vars PROVE BeforeShutdown'
  OBVIOUS
<1> USE TeardownAssumption
    DEF TypeOK, BeforeShutdown, NotConnectedMeansShutdown, pumps, conns, subs, links,
        publishing, tearing
<1>1. CASE UNCHANGED vars
  BY <1>1 DEF vars
<1>2. ASSUME NEW s \in Subscriptions, SubStep(s)
      PROVE  BeforeShutdown'
  <2>1. UNCHANGED <<closed, down, senders, slot, pub, uses, told>>
    BY <1>2 DEF SubStep, Open, Guard, Begin, Attach, AttachRefused, QueuedEnd, PumpEnds,
                Release
  <2> QED BY <2>1
<1>3. ASSUME NEW p \in Publishes, Publish(p)
      PROVE  BeforeShutdown'
  BY <1>3 DEF Publish, PubTo, Tell
<1>4. ASSUME NEW p \in Publishes, Lookup(p)
      PROVE  BeforeShutdown'
  BY <1>4 DEF Lookup, PubTo
<1>5. ASSUME NEW p \in Publishes, LockSession(p)
      PROVE  BeforeShutdown'
  BY <1>5 DEF LockSession, PubTo
<1>6. ASSUME NEW p \in Publishes, Attached(p)
      PROVE  BeforeShutdown'
  BY <1>6 DEF Attached, PubTo, Unlock
<1>7. ASSUME NEW p \in Publishes, NotAttached(p)
      PROVE  BeforeShutdown'
  BY <1>7 DEF NotAttached, PubTo, Tell, Unlock
<1>8. ASSUME NEW p \in Publishes, LockSlot(p)
      PROVE  BeforeShutdown'
  BY <1>8 DEF LockSlot, PubTo, Tell
<1>9. ASSUME NEW p \in Publishes, NEW outcome \in {"ok", "Publish"}, Sent(p, outcome)
      PROVE  BeforeShutdown'
  BY <1>9 DEF Sent, PubTo, Tell
<1>10. ASSUME NEW p \in Publishes, CancelPublish(p)
       PROVE  BeforeShutdown'
  BY <1>10 DEF CancelPublish, PubTo, Tell
<1>11. ASSUME NEW h \in Shutdowns, Close(h)
       PROVE  BeforeShutdown'
  BY <1>11 DEF Close, DownTo
<1>12. ASSUME NEW h \in Shutdowns, DownStep(h)
       PROVE  BeforeShutdown'
  <2>1. closed /\ closed' = closed
    BY <1>12 DEF DownStep, TakeRunning, Signal, Wait, Drain, TakeSlot, Detached,
                 SendersClosed, EndSession, CloseConnection
  <2> QED BY <2>1
<1> QED BY <1>1, <1>2, <1>3, <1>4, <1>5, <1>6, <1>7, <1>8, <1>9, <1>10, <1>11, <1>12
        DEF Next, PubStep

\* No race of publishes, their cancellation and a shutdown tells a publish that
\* the broker is not connected before the shutdown has begun.
THEOREM NotConnectedDoesMeanShutdown == Spec => []NotConnectedMeansShutdown
<1>1. BeforeShutdown => NotConnectedMeansShutdown
  BY DEF BeforeShutdown
<1> QED BY <1>1, InitBefore, StepBefore, TypeCorrect, PTL DEF Spec

=============================================================================
