---------------------------- MODULE RouterProofs ----------------------------
(***************************************************************************)
(* Proofs about Router, for any number of subscriptions and messages.      *)
(***************************************************************************)
EXTENDS Router, FiniteSetTheorems, NaturalsInduction, WellFoundedInduction, TLAPS

(***************************************************************************)
(* The inductive invariant, one named part per idea.                       *)
(***************************************************************************)

\* What every shelf holds, for a record of the registry.
Contents(r, unread, dropped) ==
    [p \in Shelves |->
        CASE p[1] = "channel" -> r.channel[p[2]]
          [] p[1] = "pending" -> unread[p[2]]
          [] p[1] = "outstanding" -> dropped[p[2]]
          [] OTHER -> IF r.queue = NoQueue THEN <<>> ELSE r.queue]

Kept == Contents(Routes, pending, outstanding)

\* No delivery is on a shelf twice, on two shelves, on a shelf and with a
\* consumer, or with two consumers.
Apart(c, holders) ==
    /\ \A p, q \in Shelves : \A i \in DOMAIN c[p], j \in DOMAIN c[q] :
          c[p][i] = c[q][j] => p = q /\ i = j
    /\ \A p \in Shelves : \A i \in DOMAIN c[p] : \A h \in holders : c[p][i] # h.delivery
    /\ \A h, k \in holders : h.delivery = k.delivery => h = k

\* A topic subscription has its own copies only, and others the shared one.
Belongs(d, s) ==
    /\ s \in Topics => d.copy = s
    /\ orderly /\ s \notin Topics => d.copy = Shared

AllShelved(c) == \A p \in Shelves : \A i \in DOMAIN c[p] : Belongs(c[p][i], p[2])

Stored(c, d) == \E p \in Shelves : \E i \in DOMAIN c[p] : c[p][i] = d

WithConsumer(d) == \E h \in held : h.delivery = d

\* Deliveries are copies of published messages, and where they belong.
Sorted ==
    /\ AllShelved(Kept)
    /\ \A h \in held : Belongs(h.delivery, h.sub)
    /\ \A d : Stored(Kept, d) \/ WithConsumer(d) => d.msg \in log

\* What a subscription has by how far it has come.
Lives ==
    \A s \in Subscriptions :
        /\ receiver[s] = "none" =>
              /\ s \notin subscriptions
              /\ channel[s] = <<>> /\ pending[s] = <<>> /\ outstanding[s] = <<>>
        /\ receiver[s] \in {"open", "closed"} /\ bus # "closed" => s \in subscriptions
        /\ receiver[s] = "gone" => s \notin subscriptions

\* An address with a queue consumer has its queue.
QueueStays == \A s \in subscriptions \cap Queues : queue # NoQueue

Counts ==
    /\ IsFiniteSet(held)
    /\ FlightCounts
    /\ Running <= Threads

Promised ==
    /\ bus # "open" => owed = {}
    /\ orderly => \A d \in owed : Stored(Kept, d) \/ WithConsumer(d)
    /\ orderly => \A h \in held : receiver[h.sub] = "open"

IInv ==
    /\ TypeOK
    /\ Apart(Kept, held)
    /\ Sorted
    /\ Lives
    /\ QueueStays
    /\ Counts
    /\ Promised
    /\ ClosedStaysEmpty

-----------------------------------------------------------------------------
(* What a change of one shelf does.                                        *)

Contented == [Shelves -> Seq(Delivery)]

LEMMA ShelfKinds ==
    ASSUME NEW p \in Shelves
    PROVE  \/ p = <<"queue", Shared>>
           \/ \E s \in Subscriptions :
                 p = <<"channel", s>> \/ p = <<"pending", s>> \/ p = <<"outstanding", s>>
BY DEF Shelves

LEMMA ShelfNames ==
    /\ \A s \in Subscriptions :
          {<<"channel", s>>, <<"pending", s>>, <<"outstanding", s>>} \subseteq Shelves
    /\ <<"queue", Shared>> \in Shelves
BY DEF Shelves

\* A delivery that is nowhere is put at the end of a shelf.
LEMMA Appending ==
    ASSUME NEW c \in Contented, NEW c2 \in Contented, NEW p \in Shelves,
           NEW d \in Delivery, NEW holders,
           c2[p] = Append(c[p], d), \A q \in Shelves : q # p => c2[q] = c[q],
           Apart(c, holders), ~Stored(c, d), \A h \in holders : h.delivery # d
    PROVE  /\ Apart(c2, holders)
           /\ \A e : Stored(c2, e) <=> Stored(c, e) \/ e = d
<1>2. /\ c[p] \in Seq(Delivery)
      /\ c2[p] = Append(c[p], d)
      /\ DOMAIN c2[p] = DOMAIN c[p] \cup {Len(c[p]) + 1}
      /\ Len(c[p]) + 1 \notin DOMAIN c[p]
      /\ c2[p][Len(c[p]) + 1] = d
      /\ \A i \in DOMAIN c[p] : c2[p][i] = c[p][i]
  BY DEF Contented
<1>4. \A q \in Shelves : \A i \in DOMAIN c2[q] :
        \/ i \in DOMAIN c[q] /\ c2[q][i] = c[q][i]
        \/ q = p /\ i = Len(c[p]) + 1 /\ c2[q][i] = d
  BY <1>2
<1>5. \A q \in Shelves : \A i \in DOMAIN c[q] : i \in DOMAIN c2[q] /\ c2[q][i] = c[q][i]
  BY <1>2
<1>6. \A q \in Shelves : \A i \in DOMAIN c[q] : c[q][i] # d
  BY DEF Stored
<1>7. Apart(c2, holders)
  BY <1>4, <1>6 DEF Apart
<1>8. \A e : Stored(c2, e) <=> Stored(c, e) \/ e = d
  BY <1>4, <1>5, <1>2 DEF Stored
<1> QED BY <1>7, <1>8

\* The first delivery of a shelf is taken from it.
LEMMA Taking ==
    ASSUME NEW c \in Contented, NEW c2 \in Contented, NEW p \in Shelves, NEW holders,
           c[p] # <<>>, c2[p] = Tail(c[p]), \A q \in Shelves : q # p => c2[q] = c[q],
           Apart(c, holders)
    PROVE  /\ Apart(c2, holders)
           /\ Head(c[p]) \in Delivery
           /\ Stored(c, Head(c[p]))
           /\ ~Stored(c2, Head(c[p]))
           /\ \A h \in holders : h.delivery # Head(c[p])
           /\ \A e : Stored(c, e) <=> Stored(c2, e) \/ e = Head(c[p])
           /\ AllShelved(c) => AllShelved(c2) /\ Belongs(Head(c[p]), p[2])
<1> DEFINE d == Head(c[p])
<1>2. /\ c[p] \in Seq(Delivery) /\ Len(c[p]) > 0
      /\ c2[p] = Tail(c[p])
      /\ DOMAIN c2[p] = 1 .. Len(c[p]) - 1
      /\ DOMAIN c[p] = 1 .. Len(c[p])
      /\ d = c[p][1] /\ d \in Delivery
      /\ \A i \in 1 .. Len(c[p]) - 1 : c2[p][i] = c[p][i + 1]
  BY DEF Contented
<1> HIDE DEF d
<1>4. \A q \in Shelves : \A i \in DOMAIN c2[q] :
        \/ q # p /\ i \in DOMAIN c[q] /\ c2[q][i] = c[q][i]
        \/ q = p /\ i + 1 \in DOMAIN c[q] /\ i \in Nat /\ i > 0 /\ c2[q][i] = c[q][i + 1]
  <2> SUFFICES ASSUME NEW i \in DOMAIN c2[p]
               PROVE  i + 1 \in DOMAIN c[p] /\ i \in Nat /\ i > 0 /\ c2[p][i] = c[p][i + 1]
    OBVIOUS
  <2>1. i \in 1 .. Len(c[p]) - 1
    BY <1>2
  <2> QED BY <1>2, <2>1
<1>5. \A q \in Shelves : \A i \in DOMAIN c[q] :
        \/ q # p /\ i \in DOMAIN c2[q] /\ c2[q][i] = c[q][i]
        \/ q = p /\ i = 1 /\ c[q][i] = d
        \/ q = p /\ i - 1 \in DOMAIN c2[q] /\ c2[q][i - 1] = c[q][i]
  <2> SUFFICES ASSUME NEW i \in DOMAIN c[p], i # 1
               PROVE  i - 1 \in DOMAIN c2[p] /\ c2[p][i - 1] = c[p][i]
    BY <1>2
  <2>1. i - 1 \in 1 .. Len(c[p]) - 1
    BY <1>2
  <2> QED BY <1>2, <2>1
<1>6. 1 \in DOMAIN c[p] /\ c[p][1] = d
  BY <1>2
<1>7. Apart(c2, holders)
  BY <1>4 DEF Apart
<1>8. ~Stored(c2, d)
  BY <1>4, <1>6 DEF Apart, Stored
<1>9. \A h \in holders : h.delivery # d
  BY <1>6 DEF Apart
<1>10. Stored(c, d)
  BY <1>6 DEF Stored
<1>11. \A e : Stored(c2, e) => Stored(c, e)
  BY <1>4 DEF Stored
<1>12. \A e : Stored(c, e) => Stored(c2, e) \/ e = d
  BY <1>5 DEF Stored
<1>13. AllShelved(c) => AllShelved(c2) /\ Belongs(d, p[2])
  BY <1>4, <1>6 DEF AllShelved
<1> QED BY <1>2, <1>7, <1>8, <1>9, <1>10, <1>11, <1>12, <1>13 DEF d

\* Shelves are emptied.
LEMMA Clearing ==
    ASSUME NEW c \in Contented, NEW c2 \in Contented, NEW holders, Apart(c, holders),
           \A p \in Shelves : c2[p] = c[p] \/ c2[p] = <<>>
    PROVE  /\ Apart(c2, holders)
           /\ \A e : Stored(c2, e) => Stored(c, e)
           /\ AllShelved(c) => AllShelved(c2)
<1>1. \A p \in Shelves : \A i \in DOMAIN c2[p] : i \in DOMAIN c[p] /\ c2[p][i] = c[p][i]
  OBVIOUS
<1> QED BY <1>1 DEF Apart, Stored, AllShelved

\* A shelf is emptied into one that was empty.
LEMMA Moving ==
    ASSUME NEW c \in Contented, NEW c2 \in Contented, NEW holders, Apart(c, holders),
           NEW p \in Shelves, NEW q \in Shelves, p # q,
           c[q] = <<>>, c2[q] = c[p], c2[p] = <<>>,
           \A x \in Shelves \ {p, q} : c2[x] = c[x]
    PROVE  /\ Apart(c2, holders)
           /\ \A e : Stored(c2, e) <=> Stored(c, e)
<1>1. \A x \in Shelves : \A i \in DOMAIN c2[x] :
        \/ x = q /\ i \in DOMAIN c[p] /\ c2[x][i] = c[p][i]
        \/ x # q /\ x # p /\ i \in DOMAIN c[x] /\ c2[x][i] = c[x][i]
  OBVIOUS
<1>2. \A x \in Shelves : \A i \in DOMAIN c[x] :
        \/ x = p /\ i \in DOMAIN c2[q] /\ c2[q][i] = c[x][i]
        \/ x # q /\ x # p /\ i \in DOMAIN c2[x] /\ c2[x][i] = c[x][i]
  OBVIOUS
<1> QED BY <1>1, <1>2 DEF Apart, Stored

\* A consumer gets a delivery that is nowhere.
LEMMA Holding ==
    ASSUME NEW c, NEW holders, NEW h, Apart(c, holders),
           ~Stored(c, h.delivery), \A k \in holders : k.delivery # h.delivery
    PROVE  Apart(c, holders \cup {h})
BY DEF Apart, Stored

\* A consumer lets go of one.
LEMMA LettingGo ==
    ASSUME NEW c, NEW holders, NEW h \in holders, Apart(c, holders)
    PROVE  /\ Apart(c, holders \ {h})
           /\ ~Stored(c, h.delivery)
           /\ \A k \in holders \ {h} : k.delivery # h.delivery
BY DEF Apart, Stored

-----------------------------------------------------------------------------
(* Counting the positions of the channels.                                 *)

Channels == [Subscriptions -> Seq(Delivery)]

LEMMA FiniteImage ==
    ASSUME NEW S, IsFiniteSet(S), NEW T, NEW f \in [S -> T],
           \A y \in T : \E x \in S : f[x] = y
    PROVE  IsFiniteSet(T)
<1> f \in Surjection(S, T)
  BY DEF Surjection
<1> QED BY FS_Surjection

LEMMA SentFinite ==
    ASSUME NEW ch \in Channels
    PROVE  IsFiniteSet(Sent(ch)) /\ Cardinality(Sent(ch)) \in Nat
<1> DEFINE column == [s \in Subscriptions |-> {<<s, i>> : i \in DOMAIN ch[s]}]
<1>1. \A s \in Subscriptions : IsFiniteSet(column[s])
  <2> TAKE s \in Subscriptions
  <2>1. DOMAIN ch[s] = 1 .. Len(ch[s]) /\ Len(ch[s]) \in Nat
    BY DEF Channels
  <2>2. IsFiniteSet(1 .. Len(ch[s]))
    BY <2>1, FS_Interval
  <2>3. IsFiniteSet({s} \X DOMAIN ch[s])
    BY <2>1, <2>2, FS_Singleton, FS_Product
  <2>4. column[s] = {s} \X DOMAIN ch[s]
    OBVIOUS
  <2> QED BY <2>3, <2>4
<1>2. IsFiniteSet({column[s] : s \in Subscriptions})
  <2> DEFINE columns == {column[s] : s \in Subscriptions}
  <2>1. column \in [Subscriptions -> columns]
    OBVIOUS
  <2>2. \A y \in columns : \E s \in Subscriptions : column[s] = y
    OBVIOUS
  <2> HIDE DEF column, columns
  <2>3. IsFiniteSet(columns)
    BY <2>1, <2>2, RouterAssumption, FiniteImage
  <2> QED BY <2>3 DEF columns
<1>3. \A T \in {column[s] : s \in Subscriptions} : IsFiniteSet(T)
  BY <1>1
<1>4. Sent(ch) = UNION {column[s] : s \in Subscriptions}
  BY DEF Sent
<1> HIDE DEF column
<1> QED BY <1>2, <1>3, <1>4, FS_UNION, FS_CardinalityType

LEMMA SentMore ==
    ASSUME NEW ch \in Channels, NEW s \in Subscriptions, NEW d \in Delivery
    PROVE  LET ch2 == [ch EXCEPT ![s] = Append(@, d)]
           IN ch2 \in Channels /\ Cardinality(Sent(ch2)) = Cardinality(Sent(ch)) + 1
<1> DEFINE ch2 == [ch EXCEPT ![s] = Append(@, d)]
<1> DEFINE new == <<s, Len(ch[s]) + 1>>
<1>1. ch2 \in Channels
  BY DEF Channels
<1>2. /\ DOMAIN ch2[s] = DOMAIN ch[s] \cup {Len(ch[s]) + 1}
      /\ Len(ch[s]) + 1 \notin DOMAIN ch[s]
      /\ \A t \in Subscriptions : t # s => ch2[t] = ch[t]
  BY DEF Channels
<1> HIDE DEF ch2
<1>3. Sent(ch2) = Sent(ch) \cup {new} /\ new \notin Sent(ch)
  BY <1>2 DEF Sent
<1> QED BY <1>1, <1>3, SentFinite, FS_AddElement DEF ch2

LEMMA SentLess ==
    ASSUME NEW ch \in Channels, NEW s \in Subscriptions, ch[s] # <<>>
    PROVE  LET ch2 == [ch EXCEPT ![s] = Tail(@)]
           IN ch2 \in Channels /\ Cardinality(Sent(ch)) = Cardinality(Sent(ch2)) + 1
<1> DEFINE ch2 == [ch EXCEPT ![s] = Tail(@)]
<1> DEFINE last == <<s, Len(ch[s])>>
<1>1. ch2 \in Channels
  BY DEF Channels
<1>2. /\ DOMAIN ch[s] = 1 .. Len(ch[s]) /\ Len(ch[s]) \in Nat /\ Len(ch[s]) > 0
      /\ DOMAIN ch2[s] = 1 .. Len(ch[s]) - 1
      /\ \A t \in Subscriptions : t # s => ch2[t] = ch[t]
  BY DEF Channels
<1>3. /\ DOMAIN ch[s] = DOMAIN ch2[s] \cup {Len(ch[s])}
      /\ Len(ch[s]) \notin DOMAIN ch2[s]
  BY <1>2
<1> HIDE DEF ch2
<1>4. Sent(ch) = Sent(ch2) \cup {last} /\ last \notin Sent(ch2)
  BY <1>2, <1>3 DEF Sent
<1> QED BY <1>1, <1>4, SentFinite, FS_AddElement DEF ch2

-----------------------------------------------------------------------------
(* Handing a delivery to a competing consumer.                             *)

Registry ==
    [subs : SUBSET Subscriptions, channel : Channels,
     queue : Seq(Delivery) \cup {NoQueue}, turn : 0 .. TurnWidth - 1, flight : Nat]

LEMMA SmallestOf ==
    ASSUME NEW S \in SUBSET Nat, S # {}
    PROVE  \E m \in S : \A n \in S : m <= n
<1>1. PICK m \in S : \A n \in S : ~(<<n, m>> \in OpToRel(<, Nat))
  BY NatLessThanWellFounded, WFMin
<1>2. \A n \in S : ~(n < m)
  BY <1>1 DEF OpToRel
<1> QED BY <1>2

LEMMA FirstOfTries ==
    ASSUME NEW T, \A t \in T : t.offset \in Nat, T # {}
    PROVE  \E t \in T : FirstOf(T) = t.sub /\ \A u \in T : t.offset <= u.offset
<1> DEFINE offsets == {t.offset : t \in T}
<1>1. offsets # {} /\ offsets \in SUBSET Nat
  OBVIOUS
<1>2. PICK m \in offsets : \A n \in offsets : m <= n
  <2> HIDE DEF offsets
  <2> QED BY <1>1, SmallestOf
<1>3. \E t \in T : \A u \in T : t.offset <= u.offset
  BY <1>2
<1> QED BY <1>3 DEF FirstOf

LEMMA TriesType ==
    ASSUME NEW r \in Registry
    PROVE  \A t \in Tries(r) : t.offset \in Nat /\ t.sub \in Competing(r)
<1>1. IsFiniteSet(Competing(r))
  BY RouterAssumption, FS_Subset DEF Competing, Registry
<1>2. Cardinality(Competing(r)) \in Nat
  BY <1>1, FS_CardinalityType
<1> QED BY <1>2 DEF Tries

LEMMA TurnedType ==
    ASSUME NEW r \in Registry
    PROVE  /\ Turned(r) \in Registry
           /\ Turned(r).subs = r.subs /\ Turned(r).channel = r.channel
           /\ Turned(r).queue = r.queue /\ Turned(r).flight = r.flight
<1>1. r.turn \in Nat /\ TurnWidth \in Nat /\ TurnWidth > 0
  BY RouterAssumption DEF Registry
<1>2. (r.turn + 1) % TurnWidth \in 0 .. TurnWidth - 1
  BY <1>1
<1> QED BY <1>2 DEF Turned, Registry

\* Three ways a hand-over ends: on the queue, with an attached queue consumer
\* that takes it, or, where the address has no queue, nowhere.
KeptOnQueue(r, d, r2) ==
    /\ r.queue # NoQueue
    /\ r2.queue = Append(r.queue, d)
    /\ r2.channel = r.channel
    /\ r2.flight = r.flight

Taken(r, d, r2, s) ==
    /\ Takes(s)
    /\ r2.channel = [r.channel EXCEPT ![s] = Append(@, d)]
    /\ r2.flight = r.flight + 1
    /\ r2.queue = r.queue

Untouched(r, r2) ==
    r2.queue = r.queue /\ r2.channel = r.channel /\ r2.flight = r.flight

LEMMA SendOutcome ==
    ASSUME NEW r \in Registry, NEW s \in Subscriptions, NEW d \in Delivery
    PROVE  /\ Send(r, s, d) \in Registry
           /\ Send(r, s, d).subs = r.subs /\ Send(r, s, d).turn = r.turn
           /\ Takes(s) => Taken(r, d, Send(r, s, d), s)
           /\ ~Takes(s) => Send(r, s, d) = r
<1>1. CASE Takes(s)
  <2> DEFINE ch == [r.channel EXCEPT ![s] = Append(@, d)]
  <2>1. ch \in Channels
    BY DEF Registry, Channels
  <2>2. Send(r, s, d) = [r EXCEPT !.channel = ch, !.flight = @ + 1]
    BY <1>1 DEF Send
  <2> HIDE DEF ch
  <2> DEFINE r1 == [r EXCEPT !.channel = ch]
  <2>3. r1 \in Registry
    BY <2>1 DEF Registry
  <2>5. [r1 EXCEPT !.flight = @ + 1] \in Registry
    <3> HIDE DEF r1
    <3> QED BY <2>3 DEF Registry
  <2>6. [r EXCEPT !.channel = ch, !.flight = @ + 1] = [r1 EXCEPT !.flight = @ + 1]
    OBVIOUS
  <2>4. /\ Send(r, s, d).channel = ch /\ Send(r, s, d).flight = r.flight + 1
        /\ Send(r, s, d).queue = r.queue
        /\ Send(r, s, d).subs = r.subs /\ Send(r, s, d).turn = r.turn
    BY <2>2 DEF Registry
  <2> QED BY <1>1, <2>2, <2>4, <2>5, <2>6 DEF Taken, ch
<1>2. CASE ~Takes(s)
  BY <1>2 DEF Send
<1> QED BY <1>1, <1>2

LEMMA KeepOutcome ==
    ASSUME NEW r \in Registry, NEW d \in Delivery
    PROVE  /\ Keep(r, d) \in Registry
           /\ Keep(r, d).subs = r.subs /\ Keep(r, d).turn = r.turn
           /\ r.queue # NoQueue => KeptOnQueue(r, d, Keep(r, d))
           /\ r.queue = NoQueue => Untouched(r, Keep(r, d))
<1>1. CASE r.queue = NoQueue
  BY <1>1 DEF Keep, Untouched
<1>2. CASE r.queue # NoQueue
  <2>1. r.queue \in Seq(Delivery)
    BY <1>2 DEF Registry
  <2>2. Append(r.queue, d) \in Seq(Delivery)
    BY <2>1
  <2> QED BY <1>2, <2>2 DEF Keep, KeptOnQueue, Registry
<1> QED BY <1>1, <1>2

LEMMA HandToOneOutcome ==
    ASSUME NEW r \in Registry, NEW d \in Delivery
    PROVE  LET r2 == HandToOne(r, d)
           IN /\ r2 \in Registry
              /\ r2.subs = r.subs
              /\ \/ KeptOnQueue(r, d, r2)
                 \/ \E s \in Competing(r) : Taken(r, d, r2, s)
                 \/ r.queue = NoQueue /\ Untouched(r, r2)
<1> DEFINE taking == {t \in Tries(r) : Takes(t.sub)}
<1> DEFINE r2 == HandToOne(r, d)
<1>1. CASE Competing(r) = {}
  <2>1. r2 = Keep(r, d)
    BY <1>1 DEF HandToOne
  <2> QED BY <2>1, KeepOutcome
<1>2. CASE Competing(r) # {} /\ taking = {}
  <2>1. r2 = Keep(Turned(r), d)
    BY <1>2 DEF HandToOne
  <2> QED BY <2>1, KeepOutcome, TurnedType DEF KeptOnQueue, Untouched
<1>3. CASE Competing(r) # {} /\ taking # {}
  <2> DEFINE s == FirstOf(taking)
  <2>1. r2 = Send(Turned(r), s, d)
    BY <1>3 DEF HandToOne
  <2>2. \A t \in taking : t.offset \in Nat
    BY TriesType
  <2>3. s \in Competing(r) /\ Takes(s)
    <3> HIDE DEF taking
    <3>1. PICK t \in taking : s = t.sub
      BY <1>3, <2>2, FirstOfTries
    <3>2. t \in Tries(r) /\ Takes(t.sub)
      BY DEF taking
    <3> QED BY <3>1, <3>2, TriesType
  <2>4. s \in Subscriptions
    BY <2>3 DEF Competing, Registry
  <2> HIDE DEF s
  <2>5. Taken(Turned(r), d, r2, s) /\ r2 \in Registry /\ r2.subs = Turned(r).subs
    BY <2>1, <2>3, <2>4, SendOutcome, TurnedType
  <2> QED BY <2>3, <2>5, TurnedType DEF Taken
<1> QED BY <1>1, <1>2, <1>3

-----------------------------------------------------------------------------
(* Handing over one delivery, and one after the other.                     *)

LEMMA ContentsType ==
    ASSUME NEW r \in Registry, NEW unread \in Channels, NEW dropped \in Channels
    PROVE  /\ Contents(r, unread, dropped) \in Contented
           /\ \A s \in Subscriptions :
                 /\ Contents(r, unread, dropped)[<<"channel", s>>] = r.channel[s]
                 /\ Contents(r, unread, dropped)[<<"pending", s>>] = unread[s]
                 /\ Contents(r, unread, dropped)[<<"outstanding", s>>] = dropped[s]
           /\ Contents(r, unread, dropped)[<<"queue", Shared>>]
                 = IF r.queue = NoQueue THEN <<>> ELSE r.queue
<1> DEFINE c == Contents(r, unread, dropped)
<1>1. \A s \in Subscriptions :
          /\ c[<<"channel", s>>] = r.channel[s]
          /\ c[<<"pending", s>>] = unread[s]
          /\ c[<<"outstanding", s>>] = dropped[s]
  BY ShelfNames DEF Contents
<1>2. c[<<"queue", Shared>>] = IF r.queue = NoQueue THEN <<>> ELSE r.queue
  BY ShelfNames DEF Contents
<1>3. \A s \in Subscriptions : /\ r.channel[s] \in Seq(Delivery)
                               /\ unread[s] \in Seq(Delivery) /\ dropped[s] \in Seq(Delivery)
  BY DEF Channels, Registry
<1>4. r.queue # NoQueue => r.queue \in Seq(Delivery)
  BY DEF Registry
<1>5. c = [p \in Shelves |-> c[p]]
  BY DEF Contents
<1> HIDE DEF c
<1>6. ASSUME NEW p \in Shelves PROVE c[p] \in Seq(Delivery)
  <2>1. CASE p = <<"queue", Shared>>
    BY <2>1, <1>2, <1>4
  <2>2. ASSUME NEW s \in Subscriptions,
               p = <<"channel", s>> \/ p = <<"pending", s>> \/ p = <<"outstanding", s>>
        PROVE  c[p] \in Seq(Delivery)
    BY <2>2, <1>1, <1>3
  <2> QED BY <2>1, <2>2, ShelfKinds
<1>7. c \in Contented
  BY <1>5, <1>6 DEF Contented
<1> QED BY <1>1, <1>2, <1>7 DEF c

\* What handing over the deliveries D does to the registry r.
HandedOver(r, r2, D, holders, unread, dropped) ==
    LET c == Contents(r, unread, dropped)
        c2 == Contents(r2, unread, dropped)
    IN /\ r2 \in Registry
       /\ r2.subs = r.subs
       /\ r2.queue = NoQueue <=> r.queue = NoQueue
       /\ Apart(c2, holders)
       /\ \A e : Stored(c2, e) => Stored(c, e) \/ e \in D
       /\ \A e : Stored(c, e) => Stored(c2, e)
       /\ r.queue # NoQueue => \A d \in D : Stored(c2, d)
       /\ r2.flight + Cardinality(Sent(r.channel)) = r.flight + Cardinality(Sent(r2.channel))
       /\ \A s \in Subscriptions : r2.channel[s] = r.channel[s] \/ Takes(s)
       /\ AllShelved(c) => AllShelved(c2)

\* A consumer takes what belongs with it.
LEMMA HandingTaken ==
    ASSUME NEW r \in Registry, NEW r2 \in Registry, NEW d \in Delivery,
           NEW s \in Subscriptions, NEW holders,
           NEW unread \in Channels, NEW dropped \in Channels,
           Taken(r, d, r2, s), r2.subs = r.subs, Belongs(d, s),
           Apart(Contents(r, unread, dropped), holders),
           ~Stored(Contents(r, unread, dropped), d),
           \A h \in holders : h.delivery # d
    PROVE  HandedOver(r, r2, {d}, holders, unread, dropped)
<1> DEFINE c == Contents(r, unread, dropped)
<1> DEFINE c2 == Contents(r2, unread, dropped)
<1>0. c \in Contented /\ c2 \in Contented
  BY ContentsType
<1> DEFINE S == <<"channel", s>>
<1>1. S \in Shelves /\ S[2] = s
  BY ShelfNames
<1>2. r.channel \in Channels
  BY DEF Registry
<1>3. c2[S] = Append(c[S], d)
  BY <1>1, <1>2 DEF Taken, Channels, Contents
<1>4. \A p \in Shelves : p # S => c2[p] = c[p]
  BY <1>1, <1>2, ShelfKinds DEF Taken, Channels, Contents
<1>6. Cardinality(Sent(r2.channel)) = Cardinality(Sent(r.channel)) + 1
  BY <1>1, <1>2, SentMore DEF Taken
<1>7. Cardinality(Sent(r.channel)) \in Nat /\ r.flight \in Nat
  BY <1>2, SentFinite DEF Registry
<1>8. Apart(c2, holders) /\ \A e : Stored(c2, e) <=> Stored(c, e) \/ e = d
  <2> HIDE DEF c, c2, S
  <2>1. Apart(c, holders) /\ ~Stored(c, d) /\ \A h \in holders : h.delivery # d
    BY DEF c
  <2> QED BY <1>0, <1>1, <1>3, <1>4, <2>1, Appending
<1> HIDE DEF c, c2
<1>9. AllShelved(c) => AllShelved(c2)
  <2>1. c[S] \in Seq(Delivery)
    BY <1>0, <1>1 DEF Contented
  <2>2. \A i \in DOMAIN c2[S] : (i \in DOMAIN c[S] /\ c2[S][i] = c[S][i]) \/ c2[S][i] = d
    BY <1>3, <2>1
  <2> QED BY <1>4, <2>2, <1>1 DEF AllShelved
<1>10. \A t \in Subscriptions : t # s => r2.channel[t] = r.channel[t]
  BY <1>2 DEF Taken, Channels
<1>11. r2.flight + Cardinality(Sent(r.channel)) = r.flight + Cardinality(Sent(r2.channel))
  BY <1>6, <1>7 DEF Taken
<1> QED BY <1>8, <1>9, <1>10, <1>11 DEF HandedOver, Taken, c, c2

LEMMA HandingOne ==
    ASSUME NEW r \in Registry, NEW d \in Delivery, NEW holders,
           NEW unread \in Channels, NEW dropped \in Channels,
           Apart(Contents(r, unread, dropped), holders),
           ~Stored(Contents(r, unread, dropped), d),
           \A h \in holders : h.delivery # d,
           orderly => d.copy = Shared
    PROVE  HandedOver(r, HandToOne(r, d), {d}, holders, unread, dropped)
<1> DEFINE r2 == HandToOne(r, d)
<1> DEFINE c == Contents(r, unread, dropped)
<1> DEFINE c2 == Contents(r2, unread, dropped)
<1> DEFINE Q == <<"queue", Shared>>
<1>1. /\ r2 \in Registry
      /\ r2.subs = r.subs
      /\ \/ KeptOnQueue(r, d, r2)
         \/ \E s \in Competing(r) : Taken(r, d, r2, s)
         \/ r.queue = NoQueue /\ Untouched(r, r2)
  BY HandToOneOutcome
<1> HIDE DEF r2
<1>2. c \in Contented /\ c2 \in Contented
  BY <1>1, ContentsType
<1>3. CASE KeptOnQueue(r, d, r2)
  <2>1. r.queue \in Seq(Delivery) /\ r2.queue \in Seq(Delivery) /\ r2.queue # NoQueue
    <3>1. r.queue \in Seq(Delivery)
      BY <1>3 DEF KeptOnQueue, Registry
    <3>2. r2.queue \in Seq(Delivery)
      BY <1>3, <3>1 DEF KeptOnQueue
    <3> QED BY <3>1, <3>2, RouterAssumption
  <2>2. c2[Q] = Append(c[Q], d)
    BY <1>1, <1>3, <2>1, ContentsType DEF KeptOnQueue
  <2>3. \A p \in Shelves : p # Q => c2[p] = c[p]
    BY <1>3, ShelfKinds DEF KeptOnQueue, Contents
  <2>5. Apart(c2, holders) /\ \A e : Stored(c2, e) <=> Stored(c, e) \/ e = d
    <3> HIDE DEF c, c2, Q
    <3>1. Q \in Shelves
      BY ShelfNames DEF Q
    <3>2. Apart(c, holders) /\ ~Stored(c, d) /\ \A h \in holders : h.delivery # d
      BY DEF c
    <3> QED BY <1>2, <2>2, <2>3, <3>1, <3>2, Appending
  <2> HIDE DEF c, c2
  <2>6. AllShelved(c) => AllShelved(c2)
    <3>1. c[Q] \in Seq(Delivery)
      BY <1>2, ShelfNames DEF Contented
    <3>2. \A i \in DOMAIN c2[Q] : (i \in DOMAIN c[Q] /\ c2[Q][i] = c[Q][i]) \/ c2[Q][i] = d
      BY <2>2, <3>1
    <3>3. Belongs(d, Shared)
      BY RouterAssumption DEF Belongs
    <3> QED BY <2>3, <3>2, <3>3, ShelfNames DEF AllShelved
  <2> QED BY <1>1, <1>3, <2>1, <2>5, <2>6 DEF HandedOver, KeptOnQueue, c, c2, r2
<1>4. ASSUME NEW s \in Competing(r), Taken(r, d, r2, s)
      PROVE  HandedOver(r, r2, {d}, holders, unread, dropped)
  <2>1. s \in Subscriptions
    BY DEF Competing, Registry
  <2>2. Belongs(d, s)
    BY RouterAssumption DEF Competing, Belongs
  <2> QED BY <1>1, <1>4, <2>1, <2>2, HandingTaken
<1>5. CASE r.queue = NoQueue /\ Untouched(r, r2)
  <2>1. c2 = c
    BY <1>5 DEF Untouched, Contents
  <2>2. \A e : Stored(c2, e) <=> Stored(c, e)
    BY <2>1
  <2>3. Apart(c2, holders) /\ (AllShelved(c) => AllShelved(c2))
    BY <2>1
  <2>4. r2.flight + Cardinality(Sent(r.channel)) = r.flight + Cardinality(Sent(r2.channel))
    BY <1>5 DEF Untouched
  <2>5. \A s \in Subscriptions : r2.channel[s] = r.channel[s]
    BY <1>5 DEF Untouched
  <2>6. r2.queue = NoQueue /\ r.queue = NoQueue
    BY <1>5 DEF Untouched
  <2> HIDE DEF c, c2
  <2> QED BY <1>1, <2>2, <2>3, <2>4, <2>5, <2>6 DEF HandedOver, c, c2, r2
<1> QED BY <1>1, <1>3, <1>4, <1>5 DEF r2

LEMMA Composing ==
    ASSUME NEW r, NEW r1, NEW r2, NEW D, NEW d, NEW holders, NEW unread, NEW dropped,
           r \in Registry, r1 \in Registry, unread \in Channels, dropped \in Channels,
           HandedOver(r, r1, D, holders, unread, dropped),
           HandedOver(r1, r2, {d}, holders, unread, dropped)
    PROVE  HandedOver(r, r2, D \cup {d}, holders, unread, dropped)
<1> DEFINE c == Contents(r, unread, dropped)
<1> DEFINE c1 == Contents(r1, unread, dropped)
<1> DEFINE c2 == Contents(r2, unread, dropped)
<1>1. r2 \in Registry
  BY DEF HandedOver
<1>3. r2.flight + Cardinality(Sent(r.channel)) = r.flight + Cardinality(Sent(r2.channel))
  <2>1. /\ r.flight \in Nat /\ r1.flight \in Nat /\ r2.flight \in Nat
        /\ r.channel \in Channels /\ r1.channel \in Channels /\ r2.channel \in Channels
    BY <1>1 DEF Registry
  <2>2. /\ Cardinality(Sent(r.channel)) \in Nat /\ Cardinality(Sent(r1.channel)) \in Nat
        /\ Cardinality(Sent(r2.channel)) \in Nat
    BY <2>1, SentFinite
  <2>3. /\ r1.flight + Cardinality(Sent(r.channel)) = r.flight + Cardinality(Sent(r1.channel))
        /\ r2.flight + Cardinality(Sent(r1.channel)) = r1.flight + Cardinality(Sent(r2.channel))
    BY DEF HandedOver
  <2> QED BY <2>1, <2>2, <2>3
<1>4. \A s \in Subscriptions : r2.channel[s] = r.channel[s] \/ Takes(s)
  BY DEF HandedOver
<1>5. /\ \A e : Stored(c2, e) => Stored(c, e) \/ e \in D \cup {d}
      /\ \A e : Stored(c, e) => Stored(c2, e)
      /\ r.queue # NoQueue => \A e \in D \cup {d} : Stored(c2, e)
      /\ AllShelved(c) => AllShelved(c2)
      /\ Apart(c2, holders)
      /\ r2.subs = r.subs
      /\ r2.queue = NoQueue <=> r.queue = NoQueue
  BY DEF HandedOver
<1> QED BY <1>1, <1>3, <1>4, <1>5 DEF HandedOver

\* Induction over the numbers up to n, stated for the set they are shown to be in.
LEMMA UpTo ==
    ASSUME NEW n \in Nat, NEW S, 0 \in S, \A k \in 0 .. n - 1 : k \in S => k + 1 \in S
    PROVE  \A k \in 0 .. n : k \in S
<1> SUFFICES ASSUME {k \in 0 .. n : k \notin S} # {} PROVE FALSE
  OBVIOUS
<1> DEFINE out == {k \in 0 .. n : k \notin S}
<1>1. out \in SUBSET Nat /\ out # {}
  OBVIOUS
<1>2. PICK m \in out : \A k \in out : m <= k
  <2> HIDE DEF out
  <2> QED BY <1>1, SmallestOf
<1>3. m # 0 /\ m - 1 \in 0 .. n - 1 /\ m - 1 \in 0 .. n
  BY <1>2
<1>4. m - 1 \in S
  <2>1. m - 1 \notin out
    BY <1>2, <1>3
  <2> QED BY <1>3, <2>1
<1>5. (m - 1) + 1 \in S
  BY <1>3, <1>4
<1> QED BY <1>2, <1>3, <1>5

\* The steps of HandEach.
Steps(handed, r, ds, n) ==
    handed = [k \in 0 .. n |-> IF k = 0 THEN r ELSE HandToOne(handed[k - 1], ds[k])]

LEMMA StepsExist ==
    ASSUME NEW r, NEW ds, NEW n \in Nat
    PROVE  \E handed : Steps(handed, r, ds, n)
<1> DEFINE S == {k \in 0 .. n : \E handed : Steps(handed, r, ds, k)}
<1>1. 0 \in S
  <2>1. Steps([k \in 0 .. 0 |-> r], r, ds, 0)
    BY DEF Steps
  <2> QED BY <2>1
<1>2. ASSUME NEW m \in 0 .. n - 1, m \in S PROVE m + 1 \in S
  <2>1. PICK f : Steps(f, r, ds, m)
    BY <1>2
  <2> DEFINE g == [k \in 0 .. m + 1 |-> IF k <= m THEN f[k] ELSE HandToOne(f[m], ds[m + 1])]
  <2>2. \A k \in 0 .. m + 1 : g[k] = IF k = 0 THEN r ELSE HandToOne(g[k - 1], ds[k])
    <3> TAKE k \in 0 .. m + 1
    <3>1. CASE k = 0
      BY <2>1, <3>1 DEF Steps
    <3>2. CASE k \in 1 .. m
      <4>1. k \in 0 .. m /\ k - 1 \in 0 .. m
        BY <3>2
      <4>2. f[k] = HandToOne(f[k - 1], ds[k])
        BY <2>1, <3>2, <4>1 DEF Steps
      <4>3. g[k] = f[k] /\ g[k - 1] = f[k - 1]
        BY <3>2, <4>1
      <4> QED BY <3>2, <4>2, <4>3
    <3>3. CASE k = m + 1
      <4>1. g[k] = HandToOne(f[m], ds[m + 1])
        BY <3>3
      <4>2. k # 0 /\ g[k - 1] = f[m]
        BY <3>3
      <4> QED BY <3>3, <4>1, <4>2
    <3> QED BY <3>1, <3>2, <3>3
  <2>3. g = [k \in 0 .. m + 1 |-> g[k]]
    OBVIOUS
  <2> HIDE DEF g
  <2>4. Steps(g, r, ds, m + 1)
    BY <2>2, <2>3 DEF Steps
  <2> QED BY <2>4
<1> HIDE DEF S
<1>3. n \in S
  BY <1>1, <1>2, UpTo
<1> QED BY <1>3 DEF S

LEMMA HandEachSteps ==
    ASSUME NEW r, NEW ds, Len(ds) \in Nat
    PROVE  \E handed : Steps(handed, r, ds, Len(ds)) /\ HandEach(r, ds) = handed[Len(ds)]
<1> DEFINE f == CHOOSE handed : handed = [k \in 0 .. Len(ds) |->
                    IF k = 0 THEN r ELSE HandToOne(handed[k - 1], ds[k])]
<1>1. Steps(f, r, ds, Len(ds))
  <2>1. \E handed : handed = [k \in 0 .. Len(ds) |->
                    IF k = 0 THEN r ELSE HandToOne(handed[k - 1], ds[k])]
    <3>1. PICK g : Steps(g, r, ds, Len(ds))
      BY StepsExist
    <3> QED BY <3>1 DEF Steps
  <2> QED BY <2>1 DEF Steps
<1>2. HandEach(r, ds) = f[Len(ds)]
  BY DEF HandEach
<1> HIDE DEF f
<1> QED BY <1>1, <1>2

\* The deliveries handed back are nowhere else, and none of them twice.
LEMMA HandingEach ==
    ASSUME NEW r \in Registry, NEW ds \in Seq(Delivery), NEW holders,
           NEW unread \in Channels, NEW dropped \in Channels,
           Apart(Contents(r, unread, dropped), holders),
           \A i, j \in 1 .. Len(ds) : ds[i] = ds[j] => i = j,
           \A i \in 1 .. Len(ds) : /\ ~Stored(Contents(r, unread, dropped), ds[i])
                                   /\ \A h \in holders : h.delivery # ds[i]
                                   /\ orderly => ds[i].copy = Shared
    PROVE  HandedOver(r, HandEach(r, ds), {ds[i] : i \in 1 .. Len(ds)},
                      holders, unread, dropped)
<1> DEFINE c == Contents(r, unread, dropped)
<1> DEFINE First(k) == {ds[i] : i \in 1 .. k}
<1>1. Len(ds) \in Nat
  OBVIOUS
<1>2. PICK handed : Steps(handed, r, ds, Len(ds)) /\ HandEach(r, ds) = handed[Len(ds)]
  BY <1>1, HandEachSteps
<1> DEFINE S == {k \in 0 .. Len(ds) : HandedOver(r, handed[k], First(k), holders, unread, dropped)}
<1>3. 0 \in S
  <2>1. handed[0] = r
    BY <1>1, <1>2 DEF Steps
  <2>2. HandedOver(r, r, First(0), holders, unread, dropped)
    BY DEF HandedOver
  <2> QED BY <1>1, <2>1, <2>2
<1>4. ASSUME NEW k \in 0 .. Len(ds) - 1, k \in S PROVE k + 1 \in S
  <2> DEFINE r1 == handed[k]
  <2> DEFINE d == ds[k + 1]
  <2>1. k + 1 \in 1 .. Len(ds) /\ k + 1 \in 0 .. Len(ds) /\ d \in Delivery
    BY <1>1
  <2>2. handed[k + 1] = HandToOne(r1, d)
    BY <1>2, <2>1 DEF Steps
  <2>3. HandedOver(r, r1, First(k), holders, unread, dropped)
    BY <1>4
  <2>4. r1 \in Registry /\ Apart(Contents(r1, unread, dropped), holders)
    BY <2>3 DEF HandedOver
  <2>5. d \notin First(k)
    BY <2>1
  <2>6. ~Stored(Contents(r1, unread, dropped), d)
    BY <2>1, <2>3, <2>5 DEF HandedOver
  <2>7. (\A h \in holders : h.delivery # d) /\ (orderly => d.copy = Shared)
    BY <2>1
  <2> HIDE DEF r1, d, First
  <2>8. HandedOver(r1, HandToOne(r1, d), {d}, holders, unread, dropped)
    BY <2>1, <2>4, <2>6, <2>7, HandingOne
  <2>9. HandedOver(r, HandToOne(r1, d), First(k) \cup {d}, holders, unread, dropped)
    BY <2>3, <2>4, <2>8, Composing
  <2>10. First(k) \cup {d} = First(k + 1)
    <3>1. \A i : i \in 1 .. k + 1 <=> i \in 1 .. k \/ i = k + 1
      BY <1>1
    <3> QED BY <3>1 DEF First, d
  <2> QED BY <2>1, <2>2, <2>9, <2>10
<1> HIDE DEF S
<1>5. \A k \in 0 .. Len(ds) : k \in S
  BY <1>1, <1>3, <1>4, UpTo
<1>6. Len(ds) \in S
  BY <1>1, <1>5
<1> QED BY <1>2, <1>6 DEF S

\* Whom copies are sent to, and the copies.
TopicTakers(r) == {t \in r.subs \cap Topics : Takes(t)}

CopiesTo(m, taking) == {Copy(m, t) : t \in taking}

LEMMA SentToEach ==
    ASSUME NEW ch \in Channels, NEW ch2 \in Channels, NEW taking \in SUBSET Subscriptions,
           \A s \in taking : Len(ch2[s]) = Len(ch[s]) + 1,
           \A s \in Subscriptions \ taking : ch2[s] = ch[s]
    PROVE  Cardinality(Sent(ch2)) = Cardinality(Sent(ch)) + Cardinality(taking)
<1> DEFINE new == {<<t, Len(ch[t]) + 1>> : t \in taking}
<1>1. \A s \in Subscriptions :
        /\ DOMAIN ch[s] = 1 .. Len(ch[s]) /\ DOMAIN ch2[s] = 1 .. Len(ch2[s])
        /\ Len(ch[s]) \in Nat /\ Len(ch2[s]) \in Nat
  BY DEF Channels
<1>2. ASSUME NEW s \in taking
      PROVE  DOMAIN ch2[s] = DOMAIN ch[s] \cup {Len(ch[s]) + 1} /\ Len(ch[s]) + 1 \notin DOMAIN ch[s]
  BY <1>1
<1>3. Sent(ch2) = Sent(ch) \cup new /\ Sent(ch) \cap new = {}
  BY <1>2 DEF Sent
<1>4. IsFiniteSet(taking) /\ Cardinality(taking) \in Nat
  BY RouterAssumption, FS_Subset, FS_CardinalityType
<1>5. IsFiniteSet(new) /\ Cardinality(new) = Cardinality(taking)
  <2> DEFINE f == [t \in taking |-> <<t, Len(ch[t]) + 1>>]
  <2>1. f \in Bijection(taking, new)
    BY DEF Bijection, Injection, Surjection, IsInjective
  <2>2. ExistsBijection(taking, new)
    BY <2>1 DEF ExistsBijection
  <2> QED BY <1>4, <2>2, FS_Bijection
<1>6. IsFiniteSet(Sent(ch)) /\ Cardinality(Sent(ch)) \in Nat
  BY SentFinite
<1> HIDE DEF new
<1>7. Cardinality(Sent(ch) \cup new)
        = Cardinality(Sent(ch)) + Cardinality(new) - Cardinality(Sent(ch) \cap new)
  BY <1>5, <1>6, FS_Union
<1>8. Cardinality(Sent(ch) \cap new) = 0
  BY <1>3, FS_EmptySet
<1> QED BY <1>3, <1>4, <1>5, <1>6, <1>7, <1>8

LEMMA SendCopiesOutcome ==
    ASSUME NEW r \in Registry, NEW m \in Messages
    PROVE  LET r1 == SendCopies(r, m)
           IN /\ r1 \in Registry
              /\ r1.subs = r.subs /\ r1.queue = r.queue /\ r1.turn = r.turn
              /\ \A s \in TopicTakers(r) : r1.channel[s] = Append(r.channel[s], Copy(m, s))
              /\ \A s \in Subscriptions \ TopicTakers(r) : r1.channel[s] = r.channel[s]
              /\ r1.flight + Cardinality(Sent(r.channel))
                    = r.flight + Cardinality(Sent(r1.channel))
<1> DEFINE taking == TopicTakers(r)
<1> DEFINE ch == [s \in Subscriptions |->
                     IF s \in taking THEN Append(r.channel[s], Copy(m, s)) ELSE r.channel[s]]
<1> DEFINE r1 == SendCopies(r, m)
<1>1. taking \in SUBSET Subscriptions /\ taking \subseteq Topics
  BY DEF TopicTakers, Registry
<1>2. r.channel \in Channels /\ r.flight \in Nat
  BY DEF Registry
<1>3. \A s \in taking : Copy(m, s) \in Delivery
  BY <1>1 DEF Copy, Delivery
<1>4. ch \in Channels
  BY <1>2, <1>3 DEF Channels
<1>5. /\ \A s \in taking : ch[s] = Append(r.channel[s], Copy(m, s))
      /\ \A s \in Subscriptions \ taking : ch[s] = r.channel[s]
  BY <1>1
<1>6. Cardinality(taking) \in Nat
  BY <1>1, RouterAssumption, FS_Subset, FS_CardinalityType
<1>7. r1 = [r EXCEPT !.channel = ch, !.flight = @ + Cardinality(taking)]
  BY DEF SendCopies, TopicTakers
<1> HIDE DEF ch, taking, r1
<1> DEFINE rc == [r EXCEPT !.channel = ch]
<1>8. rc \in Registry
  BY <1>4 DEF Registry
<1>9. [rc EXCEPT !.flight = @ + Cardinality(taking)] \in Registry
  <2> HIDE DEF rc
  <2> QED BY <1>6, <1>8 DEF Registry
<1>10. r1 = [rc EXCEPT !.flight = @ + Cardinality(taking)]
  BY <1>7
<1>11. /\ r1.channel = ch /\ r1.flight = r.flight + Cardinality(taking)
       /\ r1.subs = r.subs /\ r1.queue = r.queue /\ r1.turn = r.turn
  BY <1>7 DEF Registry
<1>12. Cardinality(Sent(ch)) = Cardinality(Sent(r.channel)) + Cardinality(taking)
  <2>1. \A s \in taking : Len(ch[s]) = Len(r.channel[s]) + 1
    BY <1>1, <1>2, <1>3, <1>5 DEF Channels
  <2> QED BY <1>1, <1>2, <1>4, <1>5, <2>1, SentToEach
<1>13. Cardinality(Sent(r.channel)) \in Nat
  BY <1>2, SentFinite
<1>14. r1.flight + Cardinality(Sent(r.channel)) = r.flight + Cardinality(Sent(r1.channel))
  BY <1>2, <1>6, <1>11, <1>12, <1>13
<1>15. r1 \in Registry
  BY <1>9, <1>10
<1> QED BY <1>5, <1>11, <1>14, <1>15 DEF taking, r1

\* Nothing of the message was anywhere.
LEMMA HandingCopies ==
    ASSUME NEW r \in Registry, NEW m \in Messages, NEW holders,
           NEW unread \in Channels, NEW dropped \in Channels,
           Apart(Contents(r, unread, dropped), holders),
           \A e : Stored(Contents(r, unread, dropped), e) => e.msg # m,
           \A h \in holders : h.delivery.msg # m
    PROVE  /\ HandedOver(r, SendCopies(r, m), CopiesTo(m, TopicTakers(r)), holders, unread, dropped)
           /\ \A e \in CopiesTo(m, TopicTakers(r)) :
                 Stored(Contents(SendCopies(r, m), unread, dropped), e)
<1> DEFINE taking == TopicTakers(r)
<1> DEFINE r1 == SendCopies(r, m)
<1> DEFINE c == Contents(r, unread, dropped)
<1> DEFINE c1 == Contents(r1, unread, dropped)
<1>1. /\ r1 \in Registry
      /\ r1.subs = r.subs /\ r1.queue = r.queue /\ r1.turn = r.turn
      /\ \A s \in taking : r1.channel[s] = Append(r.channel[s], Copy(m, s))
      /\ \A s \in Subscriptions \ taking : r1.channel[s] = r.channel[s]
      /\ r1.flight + Cardinality(Sent(r.channel)) = r.flight + Cardinality(Sent(r1.channel))
  BY SendCopiesOutcome
<1>2. taking \subseteq Subscriptions /\ taking \subseteq Topics
  BY DEF TopicTakers, Registry
<1> HIDE DEF r1
<1>3. c \in Contented /\ c1 \in Contented
  BY <1>1, ContentsType
<1>4. \A p \in Shelves : \/ c1[p] = c[p]
                         \/ \E s \in taking : p = <<"channel", s>>
                                /\ c1[p] = Append(c[p], Copy(m, s))
  <2> TAKE p \in Shelves
  <2>1. ASSUME NEW s \in Subscriptions, p = <<"channel", s>>
        PROVE  c1[p] = c[p] \/ (s \in taking /\ c1[p] = Append(c[p], Copy(m, s)))
    BY <1>1, <2>1 DEF Contents
  <2>2. CASE ~\E s \in Subscriptions : p = <<"channel", s>>
    BY SMTT(20), <1>1, <2>2, ShelfKinds DEF Contents
  <2> QED BY <2>1, <2>2
<1>5. \A s \in taking : /\ <<"channel", s>> \in Shelves
                        /\ c1[<<"channel", s>>] = Append(c[<<"channel", s>>], Copy(m, s))
  BY ZenonT(40), <1>1, <1>2, ShelfNames, ContentsType
<1> HIDE DEF c, c1, taking
<1>6. \A p \in Shelves : \A i \in DOMAIN c1[p] :
        \/ i \in DOMAIN c[p] /\ c1[p][i] = c[p][i]
        \/ \E s \in taking : p = <<"channel", s>> /\ i = Len(c[p]) + 1 /\ c1[p][i] = Copy(m, s)
  <2> TAKE p \in Shelves
  <2> TAKE i \in DOMAIN c1[p]
  <2>1. c[p] \in Seq(Delivery)
    BY <1>3 DEF Contented
  <2>2. CASE c1[p] = c[p]
    BY <2>2
  <2>3. ASSUME NEW s \in taking, p = <<"channel", s>>, c1[p] = Append(c[p], Copy(m, s))
        PROVE  \/ i \in DOMAIN c[p] /\ c1[p][i] = c[p][i]
               \/ i = Len(c[p]) + 1 /\ c1[p][i] = Copy(m, s)
    BY <2>1, <2>3
  <2> QED BY <1>4, <2>2, <2>3
<1>7. \A p \in Shelves : \A i \in DOMAIN c[p] : i \in DOMAIN c1[p] /\ c1[p][i] = c[p][i]
  <2> TAKE p \in Shelves
  <2>1. c[p] \in Seq(Delivery)
    BY <1>3 DEF Contented
  <2>2. ASSUME NEW s \in taking, c1[p] = Append(c[p], Copy(m, s))
        PROVE  \A i \in DOMAIN c[p] : i \in DOMAIN c1[p] /\ c1[p][i] = c[p][i]
    BY <2>1, <2>2
  <2> QED BY <1>4, <2>2
<1>8. \A s \in taking : Copy(m, s).msg = m /\ Copy(m, s).copy = s
  BY DEF Copy
<1>9. \A p \in Shelves : \A i \in DOMAIN c[p] : c[p][i].msg # m
  BY DEF Stored, c
<1>10. Apart(c1, holders)
  <2>1. \A p, q \in Shelves : \A i \in DOMAIN c1[p], j \in DOMAIN c1[q] :
           c1[p][i] = c1[q][j] => p = q /\ i = j
    <3> TAKE p, q \in Shelves
    <3> TAKE i \in DOMAIN c1[p], j \in DOMAIN c1[q]
    <3> HAVE c1[p][i] = c1[q][j]
    <3>1. CASE i \in DOMAIN c[p] /\ c1[p][i] = c[p][i]
      <4>1. \A s \in taking : c1[q][j] # Copy(m, s)
        BY <1>8, <1>9, <3>1
      <4>2. j \in DOMAIN c[q] /\ c1[q][j] = c[q][j]
        BY <1>6, <4>1
      <4>3. Apart(c, holders)
        BY DEF c
      <4>4. c[p][i] = c[q][j] /\ i \in DOMAIN c[p] /\ j \in DOMAIN c[q]
        BY <3>1, <4>2
      <4> QED BY <4>3, <4>4 DEF Apart
    <3>2. CASE \E s \in taking : p = <<"channel", s>> /\ i = Len(c[p]) + 1 /\ c1[p][i] = Copy(m, s)
      <4>1. ~(j \in DOMAIN c[q] /\ c1[q][j] = c[q][j])
        BY <1>8, <1>9, <3>2
      <4> QED BY <1>6, <1>8, <3>2, <4>1
    <3> QED BY <1>6, <3>1, <3>2
  <2>2. \A p \in Shelves : \A i \in DOMAIN c1[p] : \A h \in holders : c1[p][i] # h.delivery
    BY <1>6, <1>8 DEF Apart, c
  <2> QED BY <2>1, <2>2 DEF Apart, c
<1>11. \A s \in taking : Stored(c1, Copy(m, s))
  <2> TAKE s \in taking
  <2> DEFINE p == <<"channel", s>>
  <2>1. c[p] \in Seq(Delivery)
    BY <1>3, <1>5 DEF Contented
  <2>2. Len(c[p]) + 1 \in DOMAIN c1[p] /\ c1[p][Len(c[p]) + 1] = Copy(m, s)
    BY <1>5, <2>1
  <2> QED BY <1>5, <2>2 DEF Stored
<1>12. \A e \in CopiesTo(m, taking) : Stored(c1, e)
  BY <1>11 DEF CopiesTo
<1>13. \A e : Stored(c1, e) => Stored(c, e) \/ e \in CopiesTo(m, taking)
  BY <1>6 DEF Stored, CopiesTo
<1>14. \A e : Stored(c, e) => Stored(c1, e)
  BY <1>7 DEF Stored
<1>15. AllShelved(c) => AllShelved(c1)
  <2>1. \A s \in taking : Belongs(Copy(m, s), s)
    BY <1>2, <1>8 DEF Belongs
  <2> QED BY <1>6, <2>1 DEF AllShelved
<1>16. \A s \in Subscriptions : r1.channel[s] = r.channel[s] \/ Takes(s)
  BY <1>1 DEF taking, TopicTakers
<1>17. HandedOver(r, r1, CopiesTo(m, taking), holders, unread, dropped)
  BY <1>1, <1>10, <1>12, <1>13, <1>14, <1>15, <1>16 DEF HandedOver, c, c1
<1> QED BY <1>12, <1>17 DEF taking, c1, r1

-----------------------------------------------------------------------------
(* The state and its registry.                                             *)

LEMMA StateTyped ==
    ASSUME TypeOK
    PROVE  /\ Routes \in Registry
           /\ channel \in Channels /\ pending \in Channels /\ outstanding \in Channels
           /\ Kept \in Contented
BY ContentsType DEF TypeOK, Registry, Routes, Channels, Kept

LEMMA KeptParts ==
    /\ \A s \in Subscriptions : /\ Kept[<<"channel", s>>] = channel[s]
                                /\ Kept[<<"pending", s>>] = pending[s]
                                /\ Kept[<<"outstanding", s>>] = outstanding[s]
    /\ Kept[<<"queue", Shared>>] = IF queue = NoQueue THEN <<>> ELSE queue
BY ShelfNames DEF Kept, Contents, Routes

LEMMA Committed ==
    ASSUME NEW r \in Registry, Commit(r)
    PROVE  Routes' = r
BY DEF Commit, Routes, Registry

LEMMA CommitTypes ==
    ASSUME NEW r \in Registry, Commit(r)
    PROVE  /\ subscriptions' \subseteq Subscriptions
           /\ channel' \in [Subscriptions -> Seq(Delivery)]
           /\ queue' \in Seq(Delivery) \cup {NoQueue}
           /\ turn' \in 0 .. TurnWidth - 1
           /\ flight' \in Nat
BY DEF Commit, Registry, Channels

\* A delivery is in one place exactly when it is kept or held apart.
LEMMA ApartIsNeverDoubled ==
    ASSUME TypeOK, Apart(Kept, held)
    PROVE  NeverDoubled
<1>1. \A p \in Shelves : Kept[p] = On(p)
  BY ShelfKinds DEF Kept, Contents, On, Routes
<1>2. \A p \in Shelves : \A h \in held : \A i : h # [at |-> p, index |-> i]
  BY DEF TypeOK, Held
<1>3. ASSUME NEW d \in Delivery, NEW a \in Places(d), NEW b \in Places(d)
      PROVE  a = b
  <2>1. ASSUME NEW x \in Places(d)
        PROVE  \/ x \in held /\ x.delivery = d
               \/ \E p \in Shelves : \E i \in DOMAIN Kept[p] :
                     Kept[p][i] = d /\ x = [at |-> p, index |-> i]
    <3>1. CASE x \in {h \in held : h.delivery = d}
      BY <3>1
    <3>2. ASSUME NEW p \in Shelves,
                 x \in Spots(p, d)
          PROVE  \E i \in DOMAIN Kept[p] : Kept[p][i] = d /\ x = [at |-> p, index |-> i]
      BY <1>1, <3>2 DEF Spots
    <3> QED BY <3>1, <3>2 DEF Places
  <2> QED BY <2>1 DEF Apart
<1> QED BY <1>3 DEF NeverDoubled

LEMMA StoredIsPlaced ==
    ASSUME TypeOK, NEW d, Stored(Kept, d) \/ WithConsumer(d)
    PROVE  Places(d) # {}
<1>1. \A p \in Shelves : Kept[p] = On(p)
  BY ShelfKinds DEF Kept, Contents, On, Routes
<1>2. CASE Stored(Kept, d)
  <2>1. PICK p \in Shelves : \E i \in DOMAIN On(p) : On(p)[i] = d
    BY <1>1, <1>2 DEF Stored
  <2>2. PICK i \in {j \in DOMAIN On(p) : On(p)[j] = d} : TRUE
    BY <2>1
  <2>3. [at |-> p, index |-> i] \in Spots(p, d)
    BY <2>2 DEF Spots
  <2> QED BY <2>3 DEF Places
<1>3. CASE WithConsumer(d)
  <2>1. PICK h \in held : h.delivery = d
    BY <1>3 DEF WithConsumer
  <2>2. h \in {k \in held : k.delivery = d}
    BY <2>1
  <2> QED BY <2>2 DEF Places
<1> QED BY <1>2, <1>3

-----------------------------------------------------------------------------
(* Counting what is in flight.                                             *)

Returning(holders) == {h \in holders : h.stage = "returning"}

LEMMA CountTypes ==
    ASSUME TypeOK, Counts
    PROVE  /\ Cardinality(Sent(channel)) \in Nat
           /\ Cardinality(held) \in Nat /\ IsFiniteSet(held)
           /\ Cardinality(Returning(held)) \in Nat /\ IsFiniteSet(Returning(held))
           /\ leaving \in Nat /\ flight \in Nat /\ Threads \in Nat
           /\ flight = Cardinality(Sent(channel)) + Cardinality(held) + leaving
           /\ leaving + Cardinality(Returning(held)) <= Threads
<1>1. Cardinality(Sent(channel)) \in Nat
  BY SentFinite, StateTyped
<1>2. IsFiniteSet(held) /\ Cardinality(held) \in Nat
  BY FS_CardinalityType DEF Counts
<1>3. IsFiniteSet(Returning(held)) /\ Cardinality(Returning(held)) \in Nat
  BY <1>2, FS_Subset, FS_CardinalityType DEF Returning
<1>4. leaving \in Nat /\ flight \in Nat /\ Threads \in Nat
  BY RouterAssumption DEF TypeOK
<1>5. /\ flight = Cardinality(Sent(channel)) + Cardinality(held) + leaving
      /\ leaving + Cardinality(Returning(held)) <= Threads
  BY DEF Counts, FlightCounts, Running, Returning
<1> QED BY <1>1, <1>2, <1>3, <1>4, <1>5

Balanced == flight' + Cardinality(Sent(channel)) = flight + Cardinality(Sent(channel'))

\* What is stored and what is counted change alike, and nobody holds more.
LEMMA CountsSame ==
    ASSUME TypeOK, Counts, Balanced, held' = held, leaving' = leaving,
           channel' \in Channels, flight' \in Nat
    PROVE  Counts' /\ leaving' \in 0 .. Threads
<1>1. Cardinality(Sent(channel')) \in Nat
  BY SentFinite
<1>2. FlightCounts'
  BY <1>1, CountTypes DEF FlightCounts, Balanced
<1>3. (Running <= Threads)'
  BY DEF Counts, Running
<1> QED BY <1>2, <1>3, CountTypes DEF Counts, TypeOK

\* A consumer lets go of a delivery, whose settlement is on its way out.
LEMMA CountsOver ==
    ASSUME TypeOK, Counts, Balanced, NEW h \in held, Over(h),
           h.stage = "returning" \/ Running < Threads,
           channel' \in Channels, flight' \in Nat
    PROVE  Counts' /\ leaving' \in 0 .. Threads
<1>1. Cardinality(Sent(channel')) \in Nat
  BY SentFinite
<1>2. IsFiniteSet(held') /\ Cardinality(held') = Cardinality(held) - 1 /\ Cardinality(held') \in Nat
  BY CountTypes, FS_RemoveElement, FS_CardinalityType DEF Over
<1>3. leaving' = leaving + 1
  BY DEF Over
<1>4. FlightCounts'
  BY <1>1, <1>2, <1>3, CountTypes DEF FlightCounts, Balanced
<1>5. leaving' + Cardinality(Returning(held')) <= Threads /\ Cardinality(Returning(held')) \in Nat
  <2>1. Returning(held') = Returning(held) \ {h}
    BY DEF Over, Returning
  <2>2. CASE h.stage = "returning"
    <3>1. h \in Returning(held)
      BY <2>2 DEF Returning
    <3>2. Cardinality(Returning(held')) = Cardinality(Returning(held)) - 1
      BY ZenonT(40), <2>1, <3>1, CountTypes, FS_RemoveElement
    <3>3. Cardinality(Returning(held')) \in Nat
      BY <2>1, CountTypes, FS_RemoveElement, FS_CardinalityType
    <3> QED BY <1>3, <3>2, <3>3, CountTypes
  <2>3. CASE h.stage # "returning"
    <3>1. Returning(held') = Returning(held)
      BY <2>1, <2>3 DEF Returning
    <3>2. leaving + Cardinality(Returning(held)) < Threads
      BY <2>3 DEF Running, Returning
    <3> QED BY <1>3, <3>1, <3>2, CountTypes
  <2> QED BY <2>2, <2>3
<1>6. (Running <= Threads)'
  BY <1>5 DEF Running, Returning
<1>7. leaving' \in 0 .. Threads
  BY <1>3, <1>5, CountTypes
<1> QED BY <1>2, <1>4, <1>6, <1>7 DEF Counts

\* A consumer reads a delivery nobody held.
LEMMA CountsRead ==
    ASSUME TypeOK, Counts, NEW s \in Subscriptions, channel[s] # <<>>,
           channel' = [channel EXCEPT ![s] = Tail(@)], flight' = flight,
           NEW h, h \notin held, h.stage = "held", held' = held \cup {h}, leaving' = leaving
    PROVE  Counts'
<1>1. Cardinality(Sent(channel)) = Cardinality(Sent(channel')) + 1 /\ channel' \in Channels
  BY SentLess, StateTyped
<1>2. Cardinality(Sent(channel')) \in Nat
  BY <1>1, SentFinite
<1>3. IsFiniteSet(held') /\ Cardinality(held') = Cardinality(held) + 1
  BY CountTypes, FS_AddElement
<1>4. FlightCounts'
  BY <1>1, <1>2, <1>3, CountTypes DEF FlightCounts
<1>5. Returning(held') = Returning(held)
  BY DEF Returning
<1>6. (Running <= Threads)'
  BY <1>5, CountTypes DEF Running, Returning
<1> QED BY <1>3, <1>4, <1>6 DEF Counts

\* A release begins.
LEMMA CountsReturning ==
    ASSUME TypeOK, Counts, NEW h \in held, h.stage = "held", Running < Threads,
           NEW k, k \notin held, k.stage = "returning",
           held' = (held \ {h}) \cup {k}, leaving' = leaving,
           channel' = channel, flight' = flight
    PROVE  Counts'
<1>1. /\ IsFiniteSet(held \ {h}) /\ Cardinality(held \ {h}) = Cardinality(held) - 1
      /\ k \notin held \ {h}
  BY CountTypes, FS_RemoveElement
<1>2. IsFiniteSet(held') /\ Cardinality(held') = Cardinality(held)
  BY <1>1, CountTypes, FS_AddElement
<1>3. FlightCounts'
  BY <1>2, CountTypes DEF FlightCounts
<1>4. Returning(held') = Returning(held) \cup {k} /\ k \notin Returning(held)
  BY DEF Returning
<1>5. Cardinality(Returning(held')) = Cardinality(Returning(held)) + 1
  BY <1>4, CountTypes, FS_AddElement
<1>6. leaving + Cardinality(Returning(held)) < Threads
  BY DEF Running, Returning
<1>7. (Running <= Threads)'
  BY <1>5, <1>6, CountTypes DEF Running, Returning
<1> QED BY <1>2, <1>3, <1>7 DEF Counts

-----------------------------------------------------------------------------
(* Each action keeps the invariant.                                        *)

LEMMA NextTyped ==
    ASSUME TypeOK'
    PROVE  /\ Kept' \in Contented
           /\ \A s \in Subscriptions : /\ Kept'[<<"channel", s>>] = channel'[s]
                                       /\ Kept'[<<"pending", s>>] = pending'[s]
                                       /\ Kept'[<<"outstanding", s>>] = outstanding'[s]
           /\ Kept'[<<"queue", Shared>>] = IF queue' = NoQueue THEN <<>> ELSE queue'
<1>1. Routes' \in Registry /\ pending' \in Channels /\ outstanding' \in Channels
  BY DEF TypeOK, Registry, Routes, Channels
<1>2. Kept' = Contents(Routes', pending', outstanding')
  BY DEF Kept
<1>3. Routes'.channel = channel' /\ Routes'.queue = queue'
  BY DEF Routes
<1> QED BY <1>1, <1>2, <1>3, ContentsType

LEMMA NextKept ==
    ASSUME channel' = channel, queue' = queue, pending' = pending, outstanding' = outstanding
    PROVE  Kept' = Kept
BY DEF Kept, Contents, Routes

\* Where deliveries are sorted right in the next state.
LEMMA NextSorted ==
    ASSUME orderly' = orderly, AllShelved(Kept'), \A h \in held' : Belongs(h.delivery, h.sub),
           \A d : Stored(Kept', d) \/ (\E h \in held' : h.delivery = d) => d.msg \in log'
    PROVE  Sorted'
BY DEF Sorted, AllShelved, Belongs, Stored, WithConsumer

LEMMA InitIInv == Init => IInv
<1> SUFFICES ASSUME Init PROVE IInv
  OBVIOUS
<1>1. TypeOK
  BY RouterAssumption DEF Init, TypeOK
<1>2. \A p \in Shelves : Kept[p] = <<>>
  BY <1>1, ShelfKinds, KeptParts DEF Init
<1>3. Apart(Kept, held)
  BY <1>2 DEF Apart, Init
<1>4. Sorted
  BY <1>2 DEF Sorted, AllShelved, Stored, WithConsumer, Init
<1>5. Lives /\ QueueStays /\ Promised /\ ClosedStaysEmpty
  BY DEF Init, Lives, QueueStays, Promised, ClosedStaysEmpty
<1>6. Counts
  <2>1. Sent(channel) = {}
    BY DEF Init, Sent
  <2>2. {h \in held : h.stage = "returning"} = {}
    BY DEF Init
  <2>3. held = {} /\ leaving = 0 /\ flight = 0 /\ 0 <= Threads
    BY RouterAssumption DEF Init
  <2>4. FlightCounts
    BY <2>1, <2>3, FS_EmptySet DEF FlightCounts
  <2>5. Running = 0
    BY <2>2, <2>3, FS_EmptySet DEF Running
  <2> QED BY <2>3, <2>4, <2>5, FS_EmptySet DEF Counts
<1> QED BY <1>1, <1>3, <1>4, <1>5, <1>6 DEF IInv

LEMMA ReceiveKeeps ==
    ASSUME IInv, NEW s \in Subscriptions, Receive(s)
    PROVE  IInv'
<1> DEFINE d == Head(channel[s])
<1> DEFINE h == [sub |-> s, delivery |-> d, stage |-> "held"]
<1> DEFINE p == <<"channel", s>>
<1>1. TypeOK /\ p \in Shelves /\ Kept \in Contented /\ Kept[p] = channel[s] /\ channel \in Channels
  BY StateTyped, KeptParts, ShelfNames DEF IInv
<1>2. d \in Delivery /\ channel' \in Channels
  BY <1>1 DEF Receive, Channels
<1>3. h \in Held /\ TypeOK'
  BY <1>1, <1>2 DEF Receive, TypeOK, Held, history, given, Channels
<1>4. Kept' \in Contented
  BY <1>3, NextTyped
<1>5. Kept'[p] = Tail(Kept[p]) /\ \A q \in Shelves : q # p => Kept'[q] = Kept[q]
  <2>1. /\ channel' = [channel EXCEPT ![s] = Tail(@)] /\ queue' = queue
        /\ pending' = pending /\ outstanding' = outstanding
    BY DEF Receive
  <2> QED BY <1>1, <2>1, ShelfKinds DEF Kept, Contents, Routes, Channels
<1> DEFINE c == Kept
<1> DEFINE c2 == Kept'
<1>6. /\ Apart(c2, held) /\ Stored(c, d) /\ ~Stored(c2, d)
      /\ \A k \in held : k.delivery # d
      /\ \A e : Stored(c, e) <=> Stored(c2, e) \/ e = d
      /\ AllShelved(c2) /\ Belongs(d, s)
  <2>1. c[p] # <<>> /\ d = Head(c[p]) /\ p[2] = s
    BY <1>1 DEF Receive
  <2>2. Apart(c, held) /\ AllShelved(c)
    BY DEF IInv, Sorted
  <2> HIDE DEF c, c2, d, p
  <2> QED BY <1>1, <1>4, <1>5, <2>1, <2>2, Taking DEF c, c2
<1>7. held' = held \cup {h} /\ log' = log /\ orderly' = orderly /\ owed' = owed
  BY DEF Receive, history, given
<1>8. Apart(Kept', held')
  BY <1>6, <1>7, Holding
<1>9. Sorted'
  BY <1>6, <1>7, NextSorted DEF IInv, Sorted, WithConsumer
<1>10. Counts'
  <2>1. h \notin held /\ h.stage = "held"
    BY <1>6
  <2>2. /\ channel[s] # <<>> /\ channel' = [channel EXCEPT ![s] = Tail(@)]
        /\ flight' = flight /\ leaving' = leaving
    BY DEF Receive
  <2> HIDE DEF h
  <2> QED BY <1>7, <2>1, <2>2, CountsRead DEF IInv
<1>11. Promised'
  <2>1. \A e : Stored(Kept, e) \/ WithConsumer(e) => Stored(Kept, e)' \/ WithConsumer(e)'
    <3>1. \A e : WithConsumer(e)' <=> WithConsumer(e) \/ e = d
      <4>1. h.delivery = d
        OBVIOUS
      <4> HIDE DEF h
      <4> QED BY <1>7, <4>1 DEF WithConsumer
    <3>2. \A e : Stored(Kept, e)' <=> Stored(Kept', e)
      BY DEF Stored
    <3> QED BY <1>6, <3>1, <3>2
  <2>2. bus' = bus /\ receiver' = receiver
    BY DEF Receive
  <2>3. \A k \in held' : k \in held \/ receiver[k.sub] = "open"
    BY <1>7 DEF Receive
  <2> QED BY <1>7, <2>1, <2>2, <2>3 DEF IInv, Promised
<1>12. Lives' /\ QueueStays' /\ ClosedStaysEmpty'
  BY <1>1 DEF Receive, IInv, Lives, QueueStays, ClosedStaysEmpty, Channels
<1> QED BY <1>3, <1>8, <1>9, <1>10, <1>11, <1>12 DEF IInv

LEMMA SettleKeeps ==
    ASSUME IInv, NEW h \in held, Settle(h)
    PROVE  IInv'
<1>1. TypeOK /\ Apart(Kept, held) /\ Sorted /\ Counts
  BY DEF IInv
<1>2. /\ held' = held \ {h} /\ leaving' = leaving + 1 /\ owed' = owed \ {h.delivery}
      /\ channel' = channel /\ queue' = queue /\ flight' = flight /\ turn' = turn
      /\ subscriptions' = subscriptions /\ pending' = pending /\ outstanding' = outstanding
      /\ bus' = bus /\ receiver' = receiver /\ log' = log
      /\ orderly' = orderly /\ atMostOnce' = atMostOnce
  BY DEF Settle, Over, routes, given
<1>3. Kept' = Kept
  BY <1>2, NextKept
<1>4. Balanced
  BY <1>1, <1>2, StateTyped, SentFinite DEF Balanced, TypeOK
<1>5. Counts' /\ leaving' \in 0 .. Threads
  BY <1>1, <1>2, <1>4, CountsOver, StateTyped DEF Settle, TypeOK
<1>6. TypeOK'
  BY <1>1, <1>2, <1>5 DEF TypeOK
<1>7. Apart(Kept', held') /\ \A k \in held \ {h} : k.delivery # h.delivery
  BY <1>1, <1>2, <1>3, LettingGo
<1>8. Sorted'
  BY <1>1, <1>2, <1>3, NextSorted DEF Sorted, WithConsumer
<1>9. Promised'
  <2>1. \A e : e # h.delivery /\ (Stored(Kept, e) \/ WithConsumer(e))
               => Stored(Kept, e)' \/ WithConsumer(e)'
    BY <1>2, <1>3 DEF WithConsumer, Stored
  <2> QED BY <1>2, <2>1 DEF IInv, Promised
<1>10. Lives' /\ QueueStays' /\ ClosedStaysEmpty'
  BY <1>2 DEF IInv, Lives, QueueStays, ClosedStaysEmpty
<1> QED BY <1>5, <1>6, <1>7, <1>8, <1>9, <1>10 DEF IInv

LEMMA BeginReturnKeeps ==
    ASSUME IInv, NEW h \in held, BeginReturn(h)
    PROVE  IInv'
<1> DEFINE k == [h EXCEPT !.stage = "returning"]
<1>1. TypeOK /\ Apart(Kept, held) /\ Sorted /\ Counts
  BY DEF IInv
<1>2. /\ h.stage = "held" /\ Running < Threads
      /\ held' = (held \ {h}) \cup {k} /\ leaving' = leaving /\ owed' = owed
      /\ channel' = channel /\ queue' = queue /\ flight' = flight /\ turn' = turn
      /\ subscriptions' = subscriptions /\ pending' = pending /\ outstanding' = outstanding
      /\ bus' = bus /\ receiver' = receiver /\ log' = log
      /\ orderly' = orderly /\ atMostOnce' = atMostOnce
  BY DEF BeginReturn, routes, history, given
<1>3. h \in Held
  BY <1>1 DEF TypeOK
<1>4. k \in Held /\ k.sub = h.sub /\ k.delivery = h.delivery /\ k.stage = "returning"
  BY <1>3 DEF Held
<1> HIDE DEF k
<1>5. k \notin held
  BY <1>1, <1>2, <1>4 DEF Apart
<1>6. Counts'
  BY <1>1, <1>2, <1>4, <1>5, CountsReturning
<1>7. TypeOK'
  BY <1>1, <1>2, <1>4 DEF TypeOK
<1>8. Kept' = Kept
  BY <1>2, NextKept
<1>9. Apart(Kept, held \ {h}) /\ ~Stored(Kept, k.delivery)
      /\ \A x \in held \ {h} : x.delivery # k.delivery
  BY <1>1, <1>4, LettingGo
<1>10. Apart(Kept', held')
  BY <1>2, <1>8, <1>9, Holding
<1>11. \A e : (\E x \in held' : x.delivery = e) <=> WithConsumer(e)
  BY <1>2, <1>4 DEF WithConsumer
<1>12. Sorted'
  <2>1. \A x \in held' : Belongs(x.delivery, x.sub)
    BY <1>1, <1>2, <1>4 DEF Sorted
  <2> QED BY <1>1, <1>2, <1>8, <1>11, <2>1, NextSorted DEF Sorted
<1>13. Promised'
  <2>1. \A e : Stored(Kept, e) \/ WithConsumer(e) => Stored(Kept, e)' \/ WithConsumer(e)'
    BY <1>8, <1>11 DEF WithConsumer, Stored
  <2>2. \A x \in held' : \E y \in held : x.sub = y.sub
    BY <1>2, <1>4
  <2> QED BY <1>2, <2>1, <2>2 DEF IInv, Promised
<1>14. Lives' /\ QueueStays' /\ ClosedStaysEmpty'
  BY <1>2 DEF IInv, Lives, QueueStays, ClosedStaysEmpty
<1> QED BY <1>6, <1>7, <1>10, <1>12, <1>13, <1>14 DEF IInv

\* Nothing is put anywhere else.
LEMMA StayingKeeps ==
    ASSUME IInv, TypeOK', Counts', held' = held, log' = log, orderly' = orderly, Kept' = Kept
    PROVE  /\ Apart(Kept', held') /\ Sorted'
           /\ \A e : Stored(Kept, e) \/ WithConsumer(e) => Stored(Kept, e)' \/ WithConsumer(e)'
<1>1. Apart(Kept', held')
  BY DEF IInv
<1>2. Sorted'
  BY NextSorted DEF IInv, Sorted, WithConsumer
<1>3. \A e : Stored(Kept, e) \/ WithConsumer(e) => Stored(Kept, e)' \/ WithConsumer(e)'
  BY DEF Stored, WithConsumer
<1> QED BY <1>1, <1>2, <1>3

LEMMA ConsumedKeeps ==
    ASSUME IInv, Consumed
    PROVE  IInv'
<1>1. /\ leaving > 0 /\ leaving' = leaving - 1 /\ flight' = flight - 1
      /\ held' = held /\ channel' = channel /\ queue' = queue /\ turn' = turn
      /\ subscriptions' = subscriptions /\ pending' = pending /\ outstanding' = outstanding
      /\ bus' = bus /\ receiver' = receiver /\ log' = log /\ owed' = owed
      /\ orderly' = orderly /\ atMostOnce' = atMostOnce
  BY DEF Consumed, history, given
<1>2. TypeOK /\ Counts
  BY DEF IInv
<1>3. flight' \in Nat /\ leaving' \in 0 .. Threads
  BY <1>1, <1>2, CountTypes
<1>4. Counts'
  <2>1. FlightCounts'
    BY <1>1, <1>2, CountTypes DEF FlightCounts
  <2>2. (Running <= Threads)'
    BY <1>1, <1>2, CountTypes DEF Running, Returning
  <2> QED BY <1>1, <2>1, <2>2, <1>2 DEF Counts
<1>5. TypeOK'
  BY <1>1, <1>2, <1>3 DEF TypeOK
<1>6. Kept' = Kept
  BY <1>1, NextKept
<1>7. /\ Apart(Kept', held') /\ Sorted'
      /\ \A e : Stored(Kept, e) \/ WithConsumer(e) => Stored(Kept, e)' \/ WithConsumer(e)'
  BY <1>1, <1>4, <1>5, <1>6, StayingKeeps
<1>8. Promised' /\ Lives' /\ QueueStays' /\ ClosedStaysEmpty'
  BY <1>1, <1>7 DEF IInv, Promised, Lives, QueueStays, ClosedStaysEmpty
<1> QED BY <1>4, <1>5, <1>7, <1>8 DEF IInv

LEMMA CloseReceiverKeeps ==
    ASSUME IInv, NEW s \in Subscriptions, CloseReceiver(s)
    PROVE  IInv'
<1>1. /\ receiver[s] = "open" /\ receiver' = [receiver EXCEPT ![s] = "closed"]
      /\ orderly => \A h \in held : h.sub # s
      /\ leaving' = leaving /\ flight' = flight
      /\ held' = held /\ channel' = channel /\ queue' = queue /\ turn' = turn
      /\ subscriptions' = subscriptions /\ pending' = pending /\ outstanding' = outstanding
      /\ bus' = bus /\ log' = log /\ owed' = owed
      /\ orderly' = orderly /\ atMostOnce' = atMostOnce
  BY DEF CloseReceiver, routes, history, given
<1>2. TypeOK /\ Counts
  BY DEF IInv
<1>3. TypeOK' /\ Counts'
  BY <1>1, <1>2 DEF TypeOK, Counts, FlightCounts, Running
<1>4. Kept' = Kept
  BY <1>1, NextKept
<1>5. /\ Apart(Kept', held') /\ Sorted'
      /\ \A e : Stored(Kept, e) \/ WithConsumer(e) => Stored(Kept, e)' \/ WithConsumer(e)'
  BY <1>1, <1>3, <1>4, StayingKeeps
<1>6. Promised'
  <2>1. \A h \in held : h.sub \in Subscriptions
    BY <1>2 DEF TypeOK, Held
  <2> QED BY <1>1, <1>2, <1>5, <2>1 DEF IInv, Promised, TypeOK
<1>7. Lives' /\ QueueStays' /\ ClosedStaysEmpty'
  BY <1>1, <1>2 DEF IInv, Lives, QueueStays, ClosedStaysEmpty, TypeOK
<1> QED BY <1>3, <1>5, <1>6, <1>7 DEF IInv

LEMMA BeginCloseKeeps ==
    ASSUME IInv, BeginClose
    PROVE  IInv'
<1>1. /\ bus = "open" /\ bus' = "closing" /\ owed' = {}
      /\ receiver' = receiver /\ leaving' = leaving /\ flight' = flight
      /\ held' = held /\ channel' = channel /\ queue' = queue /\ turn' = turn
      /\ subscriptions' = subscriptions /\ pending' = pending /\ outstanding' = outstanding
      /\ log' = log /\ orderly' = orderly /\ atMostOnce' = atMostOnce
  BY DEF BeginClose, routes, given
<1>2. TypeOK /\ Counts
  BY DEF IInv
<1>3. TypeOK' /\ Counts'
  BY <1>1, <1>2 DEF TypeOK, Counts, FlightCounts, Running
<1>4. Kept' = Kept
  BY <1>1, NextKept
<1>5. Apart(Kept', held') /\ Sorted'
  BY <1>1, <1>3, <1>4, StayingKeeps
<1>6. Promised' /\ Lives' /\ QueueStays' /\ ClosedStaysEmpty'
  BY <1>1 DEF IInv, Promised, Lives, QueueStays, ClosedStaysEmpty
<1> QED BY <1>3, <1>5, <1>6 DEF IInv

LEMMA CloseKeeps ==
    ASSUME IInv, Close
    PROVE  IInv'
<1>1. /\ bus = "closing" /\ bus' = "closed" /\ owed' = owed
      /\ subscriptions' = {} /\ turn' = 0 /\ queue' = NoQueue
      /\ outstanding' = [s \in Subscriptions |-> <<>>]
      /\ receiver' = receiver /\ leaving' = leaving /\ flight' = flight
      /\ held' = held /\ channel' = channel /\ pending' = pending
      /\ log' = log /\ orderly' = orderly /\ atMostOnce' = atMostOnce
  BY DEF Close, history, given
<1>2. TypeOK /\ Counts /\ owed = {}
  BY <1>1 DEF IInv, Promised
<1>3. TypeOK' /\ Counts'
  BY <1>1, <1>2, RouterAssumption DEF TypeOK, Counts, FlightCounts, Running
<1>4. Kept \in Contented /\ Kept' \in Contented
  BY <1>2, <1>3, StateTyped, NextTyped
<1>5. \A p \in Shelves : Kept'[p] = Kept[p] \/ Kept'[p] = <<>>
  BY <1>1, ShelfKinds DEF Kept, Contents, Routes
<1>6. /\ Apart(Kept', held) /\ AllShelved(Kept')
      /\ \A e : Stored(Kept', e) => Stored(Kept, e)
  <2> DEFINE c == Kept
  <2> DEFINE c2 == Kept'
  <2>1. Apart(c, held) /\ AllShelved(c)
    BY DEF IInv, Sorted
  <2> HIDE DEF c, c2
  <2> QED BY <1>4, <1>5, <2>1, Clearing DEF c, c2
<1>7. Sorted'
  BY <1>1, <1>6, NextSorted DEF IInv, Sorted, WithConsumer
<1>8. Promised' /\ Lives' /\ QueueStays' /\ ClosedStaysEmpty'
  BY <1>1, <1>2 DEF IInv, Promised, Lives, QueueStays, ClosedStaysEmpty
<1> QED BY <1>1, <1>3, <1>6, <1>7, <1>8 DEF IInv

LEMMA DrainKeeps ==
    ASSUME IInv, NEW s \in Subscriptions, Drain(s)
    PROVE  IInv'
<1> DEFINE d == Head(channel[s])
<1> DEFINE p == <<"channel", s>>
<1> DEFINE q == <<"pending", s>>
<1>1. /\ receiver[s] = "closed" /\ channel[s] # <<>>
      /\ channel' = [channel EXCEPT ![s] = Tail(@)]
      /\ flight' = flight - 1 /\ queue' = queue /\ outstanding' = outstanding
      /\ s \in atMostOnce => pending' = pending /\ owed' = owed \ {d}
      /\ s \notin atMostOnce => pending' = [pending EXCEPT ![s] = Append(@, d)] /\ owed' = owed
      /\ receiver' = receiver /\ leaving' = leaving /\ held' = held /\ turn' = turn
      /\ subscriptions' = subscriptions /\ bus' = bus /\ log' = log
      /\ orderly' = orderly /\ atMostOnce' = atMostOnce
  BY DEF Drain, given
<1>2. /\ TypeOK /\ Counts /\ Apart(Kept, held) /\ Sorted /\ AllShelved(Kept)
      /\ channel \in Channels /\ pending \in Channels /\ Kept \in Contented
      /\ p \in Shelves /\ q \in Shelves /\ p # q /\ Kept[p] = channel[s] /\ Kept[q] = pending[s]
  BY StateTyped, ShelfNames, KeptParts DEF IInv, Sorted
<1>3. d \in Delivery /\ channel' \in Channels
  BY <1>1, <1>2 DEF Channels
<1>4. pending' \in Channels /\ owed' \subseteq owed
  <2>1. [pending EXCEPT ![s] = Append(@, d)] \in Channels
    <3> HIDE DEF d
    <3> QED BY <1>2, <1>3 DEF Channels
  <2> QED BY <1>1, <1>2, <2>1
<1>5. Cardinality(Sent(channel)) = Cardinality(Sent(channel')) + 1
  BY <1>1, <1>2, SentLess
<1>6. flight' \in Nat /\ Balanced
  <2>1. Cardinality(Sent(channel')) \in Nat
    BY <1>3, SentFinite
  <2>2. /\ Cardinality(held) \in Nat /\ leaving \in Nat /\ flight \in Nat
        /\ flight = Cardinality(Sent(channel)) + Cardinality(held) + leaving
    BY <1>2, CountTypes
  <2>3. flight' = flight - 1
    BY <1>1
  <2> QED BY <1>5, <2>1, <2>2, <2>3 DEF Balanced
<1>7. Counts'
  BY <1>1, <1>2, <1>3, <1>6, CountsSame
<1>8. TypeOK'
  BY <1>1, <1>2, <1>3, <1>4, <1>6 DEF TypeOK, Channels
<1> DEFINE c == Kept
<1> DEFINE c1 == [Kept EXCEPT ![p] = Tail(@)]
<1> DEFINE c2 == Kept'
<1>9. /\ c1 \in Contented /\ c1[p] = Tail(c[p]) /\ \A x \in Shelves : x # p => c1[x] = c[x]
  BY <1>1, <1>2 DEF Contented
<1>10. c[p] # <<>> /\ d = Head(c[p]) /\ p[2] = s /\ q[2] = s
  BY <1>1, <1>2
<1>11. c2 \in Contented
  BY <1>8, NextTyped
<1> HIDE DEF c1
<1>12. /\ Apart(c1, held) /\ Stored(c, d) /\ ~Stored(c1, d)
       /\ \A h \in held : h.delivery # d
       /\ \A e : Stored(c, e) <=> Stored(c1, e) \/ e = d
       /\ AllShelved(c1) /\ Belongs(d, s)
  <2>1. Apart(c, held) /\ AllShelved(c)
    BY <1>2
  <2> HIDE DEF c, d, p
  <2> QED BY <1>2, <1>9, <1>10, <2>1, Taking DEF c
<1>13. CASE s \in atMostOnce
  <2>1. c2 = c1
    <3>1. \A x \in Shelves : c2[x] = c1[x]
      <4>1. c2[p] = Tail(c[p])
        BY <1>1, <1>2, <1>8, NextTyped DEF Channels
      <4>2. \A x \in Shelves : x # p => c2[x] = c[x]
        BY <1>1, <1>2, <1>13, ShelfKinds DEF Kept, Contents, Routes, Channels
      <4> QED BY <1>9, <4>1, <4>2
    <3> HIDE DEF c2
    <3> QED BY <3>1, <1>9, <1>11 DEF Contented
  <2>2. Apart(Kept', held') /\ AllShelved(Kept')
    BY <2>1, <1>1, <1>12
  <2>3. \A e : Stored(Kept', e) <=> Stored(c1, e)
    BY <2>1
  <2>4. Sorted'
    BY <1>1, <1>2, <1>12, <2>2, <2>3, NextSorted DEF Sorted, WithConsumer
  <2>5. Promised'
    <3>1. \A e : e # d /\ (Stored(Kept, e) \/ WithConsumer(e)) => Stored(Kept, e)' \/ WithConsumer(e)'
      <4>1. \A e : Stored(Kept, e)' <=> Stored(Kept', e)
        BY DEF Stored
      <4>2. \A e : WithConsumer(e)' <=> WithConsumer(e)
        BY <1>1 DEF WithConsumer
      <4> QED BY <1>12, <2>3, <4>1, <4>2
    <3>2. d \notin owed' /\ owed' \subseteq owed
      BY <1>1, <1>13
    <3> QED BY <1>1, <3>1, <3>2 DEF IInv, Promised
  <2>6. Lives' /\ QueueStays' /\ ClosedStaysEmpty'
    BY <1>1, <1>2, <1>13 DEF IInv, Lives, QueueStays, ClosedStaysEmpty, Channels
  <2> QED BY <1>7, <1>8, <2>2, <2>4, <2>5, <2>6 DEF IInv
<1>14. CASE s \notin atMostOnce
  <2>1. c2[q] = Append(c1[q], d)
    <3>1. c2[q] = pending'[s]
      BY <1>8, NextTyped
    <3>2. pending'[s] = Append(pending[s], d)
      <4> HIDE DEF d
      <4> QED BY <1>1, <1>2, <1>14 DEF Channels
    <3>3. c1[q] = pending[s]
      BY <1>2, <1>9
    <3> QED BY <3>1, <3>2, <3>3
  <2>2. \A x \in Shelves : x # q => c2[x] = c1[x]
    <3>1. c2[p] = Tail(c[p])
      BY <1>1, <1>2, <1>8, NextTyped DEF Channels
    <3>2. \A x \in Shelves : x # p /\ x # q => c2[x] = c[x]
      <4> HIDE DEF d
      <4> QED BY <1>1, <1>2, <1>14, ShelfKinds DEF Kept, Contents, Routes, Channels
    <3> QED BY <1>9, <3>1, <3>2
  <2>3. Apart(c2, held) /\ \A e : Stored(c2, e) <=> Stored(c1, e) \/ e = d
    <3> HIDE DEF c, c2, d, q
    <3> QED BY <1>2, <1>3, <1>9, <1>11, <1>12, <2>1, <2>2, Appending
  <2>4. AllShelved(c2)
    <3>1. c1[q] \in Seq(Delivery)
      BY <1>2, <1>9 DEF Contented
    <3> HIDE DEF c, c2, d, q
    <3>2. \A i \in DOMAIN c2[q] : (i \in DOMAIN c1[q] /\ c2[q][i] = c1[q][i]) \/ c2[q][i] = d
      BY <2>1, <3>1
    <3> QED BY <1>10, <1>12, <2>2, <3>2 DEF AllShelved
  <2>5. Sorted'
    BY <1>1, <1>2, <1>12, <2>3, <2>4, NextSorted DEF Sorted, WithConsumer
  <2>6. Promised'
    <3>1. \A e : Stored(Kept, e) \/ WithConsumer(e) => Stored(Kept, e)' \/ WithConsumer(e)'
      <4>1. \A e : Stored(Kept, e)' <=> Stored(Kept', e)
        BY DEF Stored
      <4>2. \A e : WithConsumer(e)' <=> WithConsumer(e)
        BY <1>1 DEF WithConsumer
      <4> QED BY <1>12, <2>3, <4>1, <4>2
    <3> QED BY <1>1, <1>14, <3>1 DEF IInv, Promised
  <2>7. Lives' /\ QueueStays' /\ ClosedStaysEmpty'
    BY <1>1, <1>2, <1>14 DEF IInv, Lives, QueueStays, ClosedStaysEmpty, Channels
  <2> QED BY <1>1, <1>7, <1>8, <2>3, <2>5, <2>6, <2>7 DEF IInv
<1> QED BY <1>13, <1>14

LEMMA SentMany ==
    ASSUME NEW ch \in Channels, NEW s \in Subscriptions, ch[s] = <<>>, NEW ds \in Seq(Delivery)
    PROVE  LET ch2 == [ch EXCEPT ![s] = ds]
           IN ch2 \in Channels /\ Cardinality(Sent(ch2)) = Cardinality(Sent(ch)) + Len(ds)
<1> DEFINE ch2 == [ch EXCEPT ![s] = ds]
<1> DEFINE new == {<<s, i>> : i \in 1 .. Len(ds)}
<1>1. ch2 \in Channels
  BY DEF Channels
<1>2. /\ DOMAIN ch2[s] = 1 .. Len(ds) /\ Len(ds) \in Nat /\ DOMAIN ch[s] = {}
      /\ \A t \in Subscriptions : t # s => ch2[t] = ch[t]
  BY DEF Channels
<1> HIDE DEF ch2
<1>3. Sent(ch2) = Sent(ch) \cup new /\ Sent(ch) \cap new = {}
  BY <1>2 DEF Sent
<1>4. IsFiniteSet(1 .. Len(ds)) /\ Cardinality(1 .. Len(ds)) = Len(ds)
  <2>1. /\ IsFiniteSet(1 .. Len(ds))
        /\ Cardinality(1 .. Len(ds)) = IF 1 > Len(ds) THEN 0 ELSE Len(ds) - 1 + 1
    BY <1>2, FS_Interval
  <2> QED BY <1>2, <2>1
<1>5. IsFiniteSet(new) /\ Cardinality(new) = Len(ds)
  <2> DEFINE f == [i \in 1 .. Len(ds) |-> <<s, i>>]
  <2>1. f \in Bijection(1 .. Len(ds), new)
    BY DEF Bijection, Injection, Surjection, IsInjective
  <2>2. ExistsBijection(1 .. Len(ds), new)
    BY <2>1 DEF ExistsBijection
  <2> QED BY <1>4, <2>2, FS_Bijection
<1>6. IsFiniteSet(Sent(ch)) /\ Cardinality(Sent(ch)) \in Nat
  BY SentFinite
<1> HIDE DEF new
<1>7. Cardinality(Sent(ch) \cup new)
        = Cardinality(Sent(ch)) + Cardinality(new) - Cardinality(Sent(ch) \cap new)
  BY <1>5, <1>6, FS_Union
<1>8. Cardinality(Sent(ch) \cap new) = 0
  BY <1>3, FS_EmptySet
<1>9. Cardinality(Sent(ch2)) = Cardinality(Sent(ch)) + Len(ds)
  BY <1>2, <1>3, <1>5, <1>6, <1>7, <1>8
<1> QED BY <1>1, <1>9 DEF ch2

LEMMA SubscribeKeeps ==
    ASSUME IInv, NEW s \in Subscriptions, Subscribe(s)
    PROVE  IInv'
<1> DEFINE p == <<"queue", Shared>>
<1> DEFINE q == <<"channel", s>>
<1> DEFINE stored == IF queue = NoQueue THEN <<>> ELSE queue
<1>1. /\ bus # "closed" /\ receiver[s] = "none"
      /\ receiver' = [receiver EXCEPT ![s] = "open"] /\ subscriptions' = subscriptions \cup {s}
      /\ bus' = bus /\ pending' = pending /\ outstanding' = outstanding /\ turn' = turn
      /\ log' = log /\ held' = held /\ leaving' = leaving
      /\ orderly' = orderly /\ atMostOnce' = atMostOnce /\ owed' = owed
  BY DEF Subscribe, history, given
<1>2. \/ /\ s \in Queues /\ channel' = [channel EXCEPT ![s] = stored]
         /\ flight' = flight + Len(stored) /\ queue' = <<>>
      \/ s \notin Queues /\ channel' = channel /\ flight' = flight /\ queue' = queue
  BY DEF Subscribe
<1>3. /\ TypeOK /\ Counts /\ Apart(Kept, held) /\ Sorted /\ AllShelved(Kept)
      /\ channel \in Channels /\ Kept \in Contented
      /\ p \in Shelves /\ q \in Shelves /\ p # q
      /\ Kept[p] = stored /\ Kept[q] = channel[s] /\ channel[s] = <<>>
  BY <1>1, StateTyped, ShelfNames, KeptParts DEF IInv, Sorted, Lives
<1>4. stored \in Seq(Delivery)
  BY <1>3 DEF TypeOK
<1> HIDE DEF stored
<1>5. channel' \in Channels /\ flight' \in Nat /\ Balanced
  <2>1. CASE s \in Queues
    <3>1. channel' \in Channels /\ Cardinality(Sent(channel')) = Cardinality(Sent(channel)) + Len(stored)
      BY <1>2, <1>3, <1>4, <2>1, SentMany
    <3>2. Len(stored) \in Nat
      BY <1>4
    <3> QED BY <1>2, <1>3, <2>1, <3>1, <3>2, CountTypes DEF Balanced
  <2>2. CASE s \notin Queues
    BY <1>2, <1>3, <2>2, CountTypes DEF Balanced
  <2> QED BY <2>1, <2>2
<1>6. Counts'
  BY <1>1, <1>3, <1>5, CountsSame
<1>7. TypeOK'
  <2>1. queue' \in Seq(Delivery) \cup {NoQueue}
    BY <1>2, <1>3 DEF TypeOK
  <2> QED BY <1>1, <1>3, <1>5, <2>1 DEF TypeOK, Channels
<1>8. /\ Apart(Kept', held') /\ AllShelved(Kept')
      /\ \A e : Stored(Kept', e) <=> Stored(Kept, e)
  <2>1. CASE s \in Queues
    <3>1. \A x \in Shelves \ {p, q} : Kept'[x] = Kept[x]
      BY <1>1, <1>2, <1>3, <2>1, ShelfKinds DEF Kept, Contents, Routes, Channels
    <3>2. Kept'[q] = Kept[p] /\ Kept'[p] = <<>> /\ Kept' \in Contented
      BY <1>2, <1>3, <1>7, <2>1, NextTyped DEF Channels
    <3> DEFINE c == Kept
    <3> DEFINE c2 == Kept'
    <3>3. p[2] = Shared /\ q[2] = s /\ s \notin Topics /\ Shared \notin Topics
      BY <2>1, RouterAssumption
    <3> HIDE DEF p, q, c, c2
    <3>4. Apart(c2, held) /\ \A e : Stored(c2, e) <=> Stored(c, e)
      BY <1>3, <3>1, <3>2, Moving DEF c, c2
    <3>5. AllShelved(c2)
      BY <1>3, <3>1, <3>2, <3>3 DEF AllShelved, Belongs, c, c2
    <3> QED BY <1>1, <3>4, <3>5 DEF c, c2
  <2>2. CASE s \notin Queues
    <3>1. Kept' = Kept
      BY <1>1, <1>2, <2>2, NextKept
    <3> QED BY <1>1, <1>3, <3>1
  <2> QED BY <2>1, <2>2
<1>9. Sorted'
  BY <1>1, <1>3, <1>8, NextSorted DEF Sorted, WithConsumer
<1>10. Promised'
  <2>1. \A e : Stored(Kept, e) \/ WithConsumer(e) => Stored(Kept, e)' \/ WithConsumer(e)'
    <3>1. \A e : Stored(Kept, e)' <=> Stored(Kept', e)
      BY DEF Stored
    <3>2. \A e : WithConsumer(e)' <=> WithConsumer(e)
      BY <1>1 DEF WithConsumer
    <3> QED BY <1>8, <3>1, <3>2
  <2>2. \A h \in held : h.sub \in Subscriptions
    BY <1>3 DEF TypeOK, Held
  <2>3. receiver \in [Subscriptions -> {"none", "open", "closed", "gone"}]
    BY <1>3 DEF TypeOK
  <2> QED BY <1>1, <2>1, <2>2, <2>3 DEF IInv, Promised
<1>11. Lives'
  <2>1. receiver \in [Subscriptions -> {"none", "open", "closed", "gone"}]
    BY <1>3 DEF TypeOK
  <2> QED BY <1>1, <1>2, <1>3, <2>1 DEF IInv, Lives, Channels
<1>12. QueueStays' /\ ClosedStaysEmpty'
  <2>1. <<>> # NoQueue
    <3>1. <<>> \in Seq(Delivery)
      OBVIOUS
    <3> QED BY <3>1, RouterAssumption
  <2> QED BY <1>1, <1>2, <2>1 DEF IInv, QueueStays, ClosedStaysEmpty
<1> QED BY <1>6, <1>7, <1>8, <1>9, <1>10, <1>11, <1>12 DEF IInv

\* What a step that hands deliveries over does to the state.
LEMMA HandedOn ==
    ASSUME NEW r \in Registry, NEW r2, NEW D, NEW holders,
           NEW unread \in Channels, NEW dropped \in Channels,
           HandedOver(r, r2, D, holders, unread, dropped), Commit(r2),
           pending' = unread, outstanding' = dropped
    PROVE  LET c == Contents(r, unread, dropped)
           IN /\ Apart(Kept', holders)
              /\ \A e : Stored(Kept', e) => Stored(c, e) \/ e \in D
              /\ \A e : Stored(c, e) => Stored(Kept', e)
              /\ r.queue # NoQueue => \A d \in D : Stored(Kept', d)
              /\ AllShelved(c) => AllShelved(Kept')
              /\ subscriptions' = r.subs /\ subscriptions' \subseteq Subscriptions
              /\ queue' = NoQueue <=> r.queue = NoQueue
              /\ queue' \in Seq(Delivery) \cup {NoQueue}
              /\ channel' \in Channels /\ flight' \in Nat /\ turn' \in 0 .. TurnWidth - 1
              /\ flight' + Cardinality(Sent(r.channel)) = r.flight + Cardinality(Sent(channel'))
              /\ \A s \in Subscriptions : channel'[s] = r.channel[s] \/ Takes(s)
<1>1. r2 \in Registry
  BY DEF HandedOver
<1>2. /\ subscriptions' = r2.subs /\ channel' = r2.channel /\ queue' = r2.queue
      /\ turn' = r2.turn /\ flight' = r2.flight
  BY DEF Commit
<1>3. Kept' = Contents(r2, unread, dropped)
  BY <1>2 DEF Kept, Contents, Routes
<1>4. /\ r2.subs \subseteq Subscriptions /\ r2.queue \in Seq(Delivery) \cup {NoQueue}
      /\ r2.channel \in Channels /\ r2.flight \in Nat /\ r2.turn \in 0 .. TurnWidth - 1
  BY <1>1 DEF Registry
<1> QED BY <1>2, <1>3, <1>4 DEF HandedOver

LEMMA PublishKeeps ==
    ASSUME IInv, NEW m \in Messages, Publish(m)
    PROVE  IInv'
<1> DEFINE r1 == SendCopies(Routes, m)
<1> DEFINE r2 == PublishOne(m)
<1> DEFINE D == CopiesTo(m, TopicTakers(Routes))
<1> DEFINE d == Copy(m, Shared)
<1>1. /\ bus # "closed" /\ m \notin log /\ log' = log \cup {m} /\ Commit(r2)
      /\ owed' = owed \cup Debt(m)
      /\ bus' = bus /\ receiver' = receiver /\ pending' = pending
      /\ outstanding' = outstanding /\ held' = held /\ leaving' = leaving
      /\ orderly' = orderly /\ atMostOnce' = atMostOnce
  BY DEF Publish, given
<1>2. /\ TypeOK /\ Counts /\ Apart(Kept, held) /\ Sorted /\ AllShelved(Kept)
      /\ Routes \in Registry /\ pending \in Channels /\ outstanding \in Channels
      /\ Kept = Contents(Routes, pending, outstanding) /\ channel \in Channels
  BY StateTyped DEF IInv, Sorted, Kept
<1>3. /\ d \in Delivery /\ d.msg = m /\ d.copy = Shared
      /\ \A t : Copy(m, t).msg = m /\ Copy(m, t).copy = t
  BY DEF Copy, Delivery
<1>4. (\A e : Stored(Kept, e) => e.msg # m) /\ \A h \in held : h.delivery.msg # m
  BY <1>1, <1>2 DEF Sorted, WithConsumer
<1>5. /\ HandedOver(Routes, r1, D, held, pending, outstanding)
      /\ \A e \in D : Stored(Contents(r1, pending, outstanding), e)
  BY <1>2, <1>4, HandingCopies
<1>6. \A e \in D : e.msg = m /\ e # d
  BY <1>3, RouterAssumption DEF CopiesTo, TopicTakers
<1>7. r2 = HandToOne(r1, d)
  BY DEF PublishOne
<1> HIDE DEF r1, r2, d, D
<1>8. r1 \in Registry /\ Apart(Contents(r1, pending, outstanding), held)
  BY <1>5 DEF HandedOver
<1>9. ~Stored(Contents(r1, pending, outstanding), d)
  BY <1>2, <1>3, <1>4, <1>5, <1>6 DEF HandedOver
<1>10. HandedOver(r1, r2, {d}, held, pending, outstanding)
  BY <1>2, <1>3, <1>4, <1>7, <1>8, <1>9, HandingOne
<1>11. HandedOver(Routes, r2, D \cup {d}, held, pending, outstanding)
  BY <1>2, <1>5, <1>8, <1>10, Composing
<1>12. /\ Apart(Kept', held')
       /\ \A e : Stored(Kept', e) => Stored(Kept, e) \/ e \in D \cup {d}
       /\ \A e : Stored(Kept, e) => Stored(Kept', e)
       /\ Routes.queue # NoQueue => \A e \in D \cup {d} : Stored(Kept', e)
       /\ AllShelved(Kept) => AllShelved(Kept')
       /\ subscriptions' = Routes.subs /\ subscriptions' \subseteq Subscriptions
       /\ queue' = NoQueue <=> Routes.queue = NoQueue
       /\ queue' \in Seq(Delivery) \cup {NoQueue}
       /\ channel' \in Channels /\ flight' \in Nat /\ turn' \in 0 .. TurnWidth - 1
       /\ flight' + Cardinality(Sent(Routes.channel))
             = Routes.flight + Cardinality(Sent(channel'))
       /\ \A s \in Subscriptions : channel'[s] = Routes.channel[s] \/ Takes(s)
  BY <1>1, <1>2, <1>11, HandedOn
<1>13. /\ Routes.queue = queue /\ Routes.subs = subscriptions /\ Routes.channel = channel
       /\ Routes.flight = flight
  BY DEF Routes
<1>14. TypeOK'
  <2>1. owed' \subseteq Delivery
    BY <1>1, <1>2, <1>3 DEF Debt, TypeOK, Copy, Delivery
  <2>2. channel' \in [Subscriptions -> Seq(Delivery)]
    BY <1>12 DEF Channels
  <2>3. /\ atMostOnce' \subseteq EitherMode /\ bus' \in {"open", "closing", "closed"}
        /\ receiver' \in [Subscriptions -> {"none", "open", "closed", "gone"}]
        /\ pending' \in [Subscriptions -> Seq(Delivery)]
        /\ outstanding' \in [Subscriptions -> Seq(Delivery)]
        /\ log' \subseteq Messages /\ held' \subseteq Held /\ leaving' \in 0 .. Threads
        /\ orderly' \in BOOLEAN
    BY <1>1, <1>2 DEF TypeOK
  <2> QED BY <1>12, <2>1, <2>2, <2>3 DEF TypeOK
<1>15. Counts'
  <2>1. Balanced
    BY <1>12, <1>13 DEF Balanced
  <2> QED BY <1>1, <1>2, <1>12, <2>1, CountsSame
<1>16. Sorted'
  <2>1. \A e : Stored(Kept', e) \/ (\E h \in held' : h.delivery = e) => e.msg \in log'
    BY <1>1, <1>2, <1>3, <1>6, <1>12 DEF Sorted, WithConsumer
  <2>2. \A h \in held' : Belongs(h.delivery, h.sub)
    BY <1>1, <1>2 DEF Sorted
  <2> QED BY <1>1, <1>2, <1>12, <2>1, <2>2, NextSorted
<1>17. Promised'
  <2>1. \A e : Stored(Kept, e)' <=> Stored(Kept', e)
    BY DEF Stored
  <2>2. \A e : WithConsumer(e)' <=> WithConsumer(e)
    BY <1>1 DEF WithConsumer
  <2>3. \A e \in Debt(m) : Stored(Kept', e)
    <3>1. \A e \in D : Stored(Kept', e)
      <4>1. \A e \in D : Stored(Contents(r2, pending, outstanding), e)
        BY <1>5, <1>10 DEF HandedOver
      <4>2. Kept' = Contents(r2, pending, outstanding)
        BY <1>1 DEF Commit, Kept, Contents, Routes
      <4> QED BY <4>1, <4>2
    <3>2. \A e \in Debt(m) : e \in D \/ (e = d /\ queue # NoQueue)
      BY DEF Debt, Attached, D, CopiesTo, TopicTakers, Routes, d
    <3> QED BY <1>12, <1>13, <3>1, <3>2
  <2>4. bus # "open" => Debt(m) = {}
    BY DEF Debt
  <2> QED BY <1>1, <1>12, <2>1, <2>2, <2>3, <2>4 DEF IInv, Promised
<1>18. Lives'
  BY <1>1, <1>12, <1>13 DEF IInv, Lives, Takes
<1>19. QueueStays' /\ ClosedStaysEmpty'
  BY <1>1, <1>12, <1>13 DEF IInv, QueueStays, ClosedStaysEmpty
<1> QED BY <1>12, <1>14, <1>15, <1>16, <1>17, <1>18, <1>19 DEF IInv

\* A consumer lets go of a delivery, which goes back, or nowhere.
LEMMA BackKeeps ==
    ASSUME IInv, NEW h \in held, Over(h), h.stage = "returning" \/ Running < Threads,
           bus' = bus, receiver' = receiver, pending' = pending, log' = log,
           orderly' = orderly, atMostOnce' = atMostOnce, owed' = owed,
           subscriptions' = subscriptions, queue' = NoQueue <=> queue = NoQueue,
           queue' \in Seq(Delivery) \cup {NoQueue}, turn' \in 0 .. TurnWidth - 1,
           channel' \in Channels, outstanding' \in Channels, flight' \in Nat, Balanced,
           \A s \in Subscriptions : channel'[s] = channel[s] \/ Takes(s),
           \A s \in Subscriptions :
              outstanding'[s] = outstanding[s] \/ (Attached(s) /\ bus # "closed"),
           Apart(Kept', held'), AllShelved(Kept'),
           \A e : Stored(Kept', e) => Stored(Kept, e) \/ e = h.delivery,
           \A e : Stored(Kept, e) => Stored(Kept', e),
           orderly /\ bus = "open" => Stored(Kept', h.delivery)
    PROVE  IInv'
<1>1. TypeOK /\ Sorted /\ Counts
  BY DEF IInv
<1>2. held' = held \ {h} /\ leaving' = leaving + 1
  BY DEF Over
<1>3. Counts' /\ leaving' \in 0 .. Threads
  BY <1>1, CountsOver
<1>4. TypeOK'
  <2>1. held' \subseteq Held /\ channel' \in [Subscriptions -> Seq(Delivery)]
    BY <1>1, <1>2 DEF TypeOK, Channels
  <2>2. /\ subscriptions' \subseteq Subscriptions /\ owed' \subseteq Delivery
        /\ log' \subseteq Messages /\ orderly' \in BOOLEAN /\ atMostOnce' \subseteq EitherMode
        /\ bus' \in {"open", "closing", "closed"}
        /\ receiver' \in [Subscriptions -> {"none", "open", "closed", "gone"}]
        /\ pending' \in [Subscriptions -> Seq(Delivery)]
        /\ outstanding' \in [Subscriptions -> Seq(Delivery)]
    BY <1>1 DEF TypeOK, Channels
  <2> QED BY <1>3, <2>1, <2>2 DEF TypeOK
<1>5. Sorted'
  <2>1. \A e : Stored(Kept', e) \/ (\E k \in held' : k.delivery = e) => e.msg \in log'
    BY <1>1, <1>2 DEF Sorted, WithConsumer
  <2>2. \A k \in held' : Belongs(k.delivery, k.sub)
    BY <1>1, <1>2 DEF Sorted
  <2> QED BY <2>1, <2>2, NextSorted
<1>6. Promised'
  <2>1. \A e : Stored(Kept, e)' <=> Stored(Kept', e)
    BY DEF Stored
  <2>2. \A e : e # h.delivery /\ WithConsumer(e) => WithConsumer(e)'
    BY <1>2 DEF WithConsumer
  <2>3. Promised
    BY DEF IInv
  <2>4. (bus # "open" => owed = {})'
    BY <2>3 DEF Promised
  <2>5. orderly => \A e \in owed : Stored(Kept, e)' \/ WithConsumer(e)'
    BY <2>1, <2>2, <2>3 DEF Promised
  <2>6. orderly => \A k \in held' : receiver[k.sub] = "open"
    BY <1>2, <2>3 DEF Promised
  <2> QED BY <2>4, <2>5, <2>6 DEF Promised
<1>7. Lives'
  BY DEF IInv, Lives, Takes, Attached
<1>8. QueueStays' /\ ClosedStaysEmpty'
  BY DEF IInv, QueueStays, ClosedStaysEmpty, Attached
<1> QED BY <1>3, <1>4, <1>5, <1>6, <1>7, <1>8 DEF IInv

\* The same where nothing goes back.
LEMMA GoneKeeps ==
    ASSUME IInv, NEW h \in held, Over(h), h.stage = "returning" \/ Running < Threads,
           bus' = bus, receiver' = receiver, pending' = pending, log' = log,
           orderly' = orderly, atMostOnce' = atMostOnce, owed' = owed,
           UNCHANGED routes, outstanding' = outstanding,
           ~(orderly /\ bus = "open")
    PROVE  IInv'
<1>1. TypeOK /\ Apart(Kept, held) /\ AllShelved(Kept)
  BY DEF IInv, Sorted
<1>2. /\ channel' = channel /\ queue' = queue /\ flight' = flight /\ turn' = turn
      /\ subscriptions' = subscriptions
  BY DEF routes
<1>3. Kept' = Kept
  BY <1>2, NextKept
<1>4. Apart(Kept', held')
  BY <1>1, <1>3, LettingGo DEF Over
<1>5. channel \in Channels /\ outstanding \in Channels
  BY <1>1, StateTyped
<1>6. queue \in Seq(Delivery) \cup {NoQueue} /\ turn \in 0 .. TurnWidth - 1 /\ flight \in Nat
  BY <1>1 DEF TypeOK
<1>7. Balanced
  BY <1>2, <1>5, <1>6, SentFinite DEF Balanced
<1> QED BY <1>1, <1>2, <1>3, <1>4, <1>5, <1>6, <1>7, BackKeeps

\* The same where the router hands it to a consumer or keeps it.
LEMMA HandedBackKeeps ==
    ASSUME IInv, NEW h \in held, Over(h), h.stage = "returning" \/ Running < Threads,
           bus' = bus, receiver' = receiver, pending' = pending, log' = log,
           orderly' = orderly, atMostOnce' = atMostOnce, owed' = owed,
           outstanding' = outstanding,
           NEW r2, HandedOver(Routes, r2, {h.delivery}, held \ {h}, pending, outstanding),
           Commit(r2), orderly /\ bus = "open" => Stored(Kept', h.delivery)
    PROVE  IInv'
<1>1. /\ TypeOK /\ AllShelved(Kept) /\ Routes \in Registry /\ pending \in Channels
      /\ outstanding \in Channels /\ Kept = Contents(Routes, pending, outstanding)
  BY StateTyped DEF IInv, Sorted, Kept
<1>2. held' = held \ {h}
  BY DEF Over
<1>3. /\ Routes.queue = queue /\ Routes.subs = subscriptions /\ Routes.channel = channel
      /\ Routes.flight = flight
  BY DEF Routes
<1> DEFINE D == {h.delivery}
<1> HIDE DEF D
<1>4. /\ Apart(Kept', held \ {h})
      /\ \A e : Stored(Kept', e) => Stored(Kept, e) \/ e \in D
      /\ \A e : Stored(Kept, e) => Stored(Kept', e)
      /\ AllShelved(Kept) => AllShelved(Kept')
      /\ subscriptions' = Routes.subs
      /\ queue' = NoQueue <=> Routes.queue = NoQueue
      /\ queue' \in Seq(Delivery) \cup {NoQueue}
      /\ channel' \in Channels /\ flight' \in Nat /\ turn' \in 0 .. TurnWidth - 1
      /\ flight' + Cardinality(Sent(Routes.channel))
            = Routes.flight + Cardinality(Sent(channel'))
      /\ \A s \in Subscriptions : channel'[s] = Routes.channel[s] \/ Takes(s)
  BY <1>1, HandedOn DEF D
<1>5. Balanced
  BY <1>3, <1>4 DEF Balanced
<1>6. \A e : Stored(Kept', e) => Stored(Kept, e) \/ e = h.delivery
  BY <1>4 DEF D
<1> QED BY <1>1, <1>2, <1>3, <1>4, <1>5, <1>6, BackKeeps

\* Handing back what a consumer lets go of.
LEMMA HandBackKeeps ==
    ASSUME IInv, NEW h \in held, Over(h), h.stage = "returning" \/ Running < Threads,
           bus' = bus, receiver' = receiver, pending' = pending, log' = log,
           orderly' = orderly, atMostOnce' = atMostOnce, owed' = owed,
           outstanding' = outstanding, bus # "closed", ~Attached(h.sub),
           Commit(HandToOne(Routes, h.delivery))
    PROVE  IInv'
<1>1. /\ TypeOK /\ Routes \in Registry /\ pending \in Channels /\ outstanding \in Channels
      /\ Apart(Kept, held) /\ Kept = Contents(Routes, pending, outstanding)
  BY StateTyped DEF IInv, Kept
<1>2. h.sub \in Subscriptions /\ h.delivery \in Delivery
  BY <1>1 DEF TypeOK, Held
<1>3. ~orderly
  BY <1>2 DEF IInv, Promised, Lives, Attached
<1>4. /\ Apart(Kept, held \ {h}) /\ ~Stored(Kept, h.delivery)
      /\ \A k \in held \ {h} : k.delivery # h.delivery
  BY <1>1, LettingGo
<1>5. HandedOver(Routes, HandToOne(Routes, h.delivery), {h.delivery}, held \ {h},
                 pending, outstanding)
  BY <1>1, <1>2, <1>3, <1>4, HandingOne
<1> QED BY <1>3, <1>5, HandedBackKeeps

LEMMA RequeueKeeps ==
    ASSUME IInv, NEW h \in held, Requeue(h)
    PROVE  IInv'
<1>1. /\ h.stage = "returning" /\ Over(h) /\ bus' = bus /\ receiver' = receiver
      /\ pending' = pending /\ outstanding' = outstanding /\ log' = log
      /\ orderly' = orderly /\ atMostOnce' = atMostOnce /\ owed' = owed
  BY DEF Requeue, history, given
<1>2. /\ TypeOK /\ Routes \in Registry /\ pending \in Channels /\ outstanding \in Channels
      /\ Apart(Kept, held) /\ Sorted /\ Kept = Contents(Routes, pending, outstanding)
  BY StateTyped DEF IInv, Kept
<1>3. h.sub \in Subscriptions /\ h.delivery \in Delivery
  BY <1>2 DEF TypeOK, Held
<1>4. CASE bus = "closed"
  BY <1>1, <1>4, GoneKeeps DEF Requeue
<1>5. CASE bus # "closed" /\ Attached(h.sub)
  <2> DEFINE r2 == Send(Routes, h.sub, h.delivery)
  <2>1. Commit(r2)
    BY <1>5 DEF Requeue
  <2>2. CASE Takes(h.sub)
    <3>1. Taken(Routes, h.delivery, r2, h.sub) /\ r2 \in Registry /\ r2.subs = Routes.subs
      BY <1>2, <1>3, <2>2, SendOutcome
    <3>2. /\ Apart(Kept, held \ {h}) /\ ~Stored(Kept, h.delivery)
          /\ \A k \in held \ {h} : k.delivery # h.delivery
      BY <1>2, LettingGo
    <3>3. Belongs(h.delivery, h.sub)
      BY <1>2 DEF Sorted
    <3> HIDE DEF r2
    <3>4. HandedOver(Routes, r2, {h.delivery}, held \ {h}, pending, outstanding)
      BY <1>2, <1>3, <3>1, <3>2, <3>3, HandingTaken
    <3>5. Stored(Kept', h.delivery)
      <4>1. /\ Kept'[<<"channel", h.sub>>] = r2.channel[h.sub]
            /\ r2.channel = [Routes.channel EXCEPT ![h.sub] = Append(@, h.delivery)]
            /\ Routes.channel \in Channels
        <5>1. Kept' = Contents(r2, pending, outstanding)
          BY <1>1, <2>1 DEF Commit, Kept, Contents, Routes
        <5>2. Kept'[<<"channel", h.sub>>] = r2.channel[h.sub]
          BY <1>2, <1>3, <3>1, <5>1, ContentsType
        <5> QED BY <1>2, <3>1, <5>2 DEF Taken, Registry
      <4>2. Len(Routes.channel[h.sub]) + 1 \in DOMAIN r2.channel[h.sub]
              /\ r2.channel[h.sub][Len(Routes.channel[h.sub]) + 1] = h.delivery
        BY <1>3, <4>1 DEF Channels
      <4> DEFINE q == <<"channel", h.sub>>
      <4> DEFINE i == Len(Routes.channel[h.sub]) + 1
      <4>3. q \in Shelves /\ i \in DOMAIN Kept'[q] /\ Kept'[q][i] = h.delivery
        BY <1>3, <4>1, <4>2, ShelfNames
      <4> HIDE DEF q, i
      <4> QED BY <4>3 DEF Stored
    <3> QED BY <1>1, <2>1, <3>4, <3>5, HandedBackKeeps
  <2>3. CASE ~Takes(h.sub)
    <3>1. r2 = Routes
      BY <1>2, <1>3, <2>3, SendOutcome
    <3>2. UNCHANGED routes
      BY <2>1, <3>1 DEF Commit, Routes, routes
    <3>3. ~orderly
      BY <2>3 DEF IInv, Promised, Takes
    <3> QED BY <1>1, <3>2, <3>3, GoneKeeps
  <2> QED BY <2>2, <2>3
<1>6. CASE bus # "closed" /\ ~Attached(h.sub)
  BY <1>1, <1>6, HandBackKeeps DEF Requeue
<1> QED BY <1>4, <1>5, <1>6

LEMMA ReleaseKeeps ==
    ASSUME IInv, NEW h \in held, Release(h)
    PROVE  IInv'
<1>1. /\ h.stage = "held" /\ Running < Threads /\ Over(h) /\ bus' = bus
      /\ receiver' = receiver /\ pending' = pending /\ log' = log
      /\ orderly' = orderly /\ atMostOnce' = atMostOnce /\ owed' = owed
  BY DEF Release, history, given
<1>2. CASE bus = "closed"
  BY <1>1, <1>2, GoneKeeps DEF Release
<1>3. CASE bus # "closed" /\ ~Attached(h.sub)
  BY <1>1, <1>3, HandBackKeeps DEF Release
<1>4. CASE bus # "closed" /\ Attached(h.sub)
  <2> DEFINE d == h.delivery
  <2> DEFINE s == h.sub
  <2> DEFINE p == <<"outstanding", s>>
  <2> DEFINE c == Kept
  <2> DEFINE c2 == Kept'
  <2>1. /\ outstanding' = [outstanding EXCEPT ![s] = Append(@, d)]
        /\ channel' = channel /\ queue' = queue /\ flight' = flight /\ turn' = turn
        /\ subscriptions' = subscriptions
    BY <1>4 DEF Release, routes
  <2>2. /\ TypeOK /\ Apart(Kept, held) /\ AllShelved(Kept) /\ Sorted /\ Kept \in Contented
        /\ channel \in Channels /\ outstanding \in Channels /\ pending \in Channels
        /\ p \in Shelves /\ p[2] = s /\ Kept[p] = outstanding[s]
        /\ s \in Subscriptions /\ d \in Delivery
    <3>1. TypeOK /\ Apart(Kept, held) /\ AllShelved(Kept) /\ Sorted
      BY DEF IInv, Sorted
    <3>2. s \in Subscriptions /\ d \in Delivery
      BY <3>1 DEF TypeOK, Held
    <3> QED BY <3>1, <3>2, StateTyped, ShelfNames, KeptParts
  <2>3. outstanding' \in Channels
    <3> HIDE DEF d, s
    <3> QED BY <2>1, <2>2 DEF Channels
  <2>4. c2 \in Contented /\ c2[p] = Append(c[p], d)
    <3>1. outstanding'[s] = Append(outstanding[s], d)
      <4> HIDE DEF d, s
      <4> QED BY <2>1, <2>2 DEF Channels
    <3>2. /\ Routes' \in Registry /\ pending' \in Channels
          /\ Kept' = Contents(Routes', pending', outstanding')
      BY SMTT(20), <1>1, <2>1, <2>2, StateTyped DEF Kept, Registry, Routes
    <3>3. Kept' \in Contented /\ Kept'[p] = outstanding'[s]
      BY <2>2, <2>3, <3>2, ContentsType
    <3> QED BY <2>2, <3>1, <3>3
  <2>5. \A x \in Shelves : x # p => c2[x] = c[x]
    <3> HIDE DEF d
    <3> QED BY <1>1, <2>1, <2>2, ShelfKinds DEF Kept, Contents, Routes, Channels
  <2>6. /\ Apart(c, held \ {h}) /\ ~Stored(c, d)
        /\ \A k \in held \ {h} : k.delivery # d
    BY <2>2, LettingGo
  <2>7. Apart(c2, held \ {h}) /\ \A e : Stored(c2, e) <=> Stored(c, e) \/ e = d
    <3> DEFINE holders == held \ {h}
    <3> HIDE DEF c, c2, d, p, holders
    <3> QED BY <2>2, <2>4, <2>5, <2>6, Appending DEF c, holders
  <2>8. AllShelved(c2)
    <3>1. Belongs(d, s)
      BY <2>2 DEF Sorted
    <3>2. c[p] \in Seq(Delivery)
      BY <2>2 DEF Contented
    <3>3. AllShelved(c)
      BY <2>2
    <3> HIDE DEF c, c2, d, p, s
    <3>4. \A i \in DOMAIN c2[p] : (i \in DOMAIN c[p] /\ c2[p][i] = c[p][i]) \/ c2[p][i] = d
      BY <2>4, <3>2
    <3> QED BY <2>2, <2>5, <3>1, <3>3, <3>4 DEF AllShelved
  <2>9. Balanced /\ flight' \in Nat
    <3>1. Cardinality(Sent(channel)) \in Nat /\ flight \in Nat
      BY <2>2, SentFinite DEF TypeOK
    <3> QED BY <2>1, <3>1 DEF Balanced
  <2>10. held' = held \ {h}
    BY <1>1 DEF Over
  <2>11. \A t \in Subscriptions : outstanding'[t] = outstanding[t] \/ (Attached(t) /\ bus # "closed")
    BY <1>4, <2>1, <2>2 DEF Channels
  <2>12. queue' \in Seq(Delivery) \cup {NoQueue} /\ turn' \in 0 .. TurnWidth - 1
    BY <2>1, <2>2 DEF TypeOK
  <2>13. channel' \in Channels /\ \A t \in Subscriptions : channel'[t] = channel[t]
    BY <2>1, <2>2
  <2> QED BY <1>1, <2>1, <2>2, <2>3, <2>7, <2>8, <2>9, <2>10, <2>11, <2>12, <2>13, BackKeeps
<1> QED BY <1>2, <1>3, <1>4

\* Where each of two sequences is found in the two put together.
Joined(ds, a, b, m) ==
    /\ \A i \in DOMAIN a : i \in DOMAIN ds /\ ds[i] = a[i]
    /\ \A j \in DOMAIN b : j + m \in DOMAIN ds /\ ds[j + m] = b[j]
    /\ \A i \in DOMAIN ds : \/ i \in DOMAIN a /\ ds[i] = a[i]
                            \/ \E j \in DOMAIN b : i = j + m /\ ds[i] = b[j]

LEMMA Spliced ==
    ASSUME NEW m \in Nat, NEW n \in Nat, NEW a, NEW b, NEW ds,
           DOMAIN a = 1 .. m, DOMAIN b = 1 .. n, DOMAIN ds = 1 .. m + n,
           \A i \in 1 .. m + n : ds[i] = IF i <= m THEN a[i] ELSE b[i - m]
    PROVE  Joined(ds, a, b, m)
<1>1. \A i \in 1 .. m : i \in 1 .. m + n /\ ds[i] = a[i]
  OBVIOUS
<1>2. ASSUME NEW i \in 1 .. n PROVE i + m \in 1 .. m + n /\ ds[i + m] = b[i]
  <2>1. i + m \in 1 .. m + n /\ ~(i + m <= m) /\ (i + m) - m = i
    OBVIOUS
  <2> QED BY <2>1
<1>3. ASSUME NEW i \in 1 .. m + n
      PROVE  (i \in 1 .. m /\ ds[i] = a[i]) \/ (\E j \in 1 .. n : i = j + m /\ ds[i] = b[j])
  <2>1. CASE i <= m
    BY <2>1
  <2>2. CASE ~(i <= m)
    <3>1. i - m \in 1 .. n /\ i = (i - m) + m /\ ds[i] = b[i - m]
      BY <2>2
    <3> QED BY <3>1
  <2> QED BY <2>1, <2>2
<1> QED BY <1>1, <1>2, <1>3, Zenon DEF Joined

LEMMA Concatenated ==
    ASSUME NEW T, NEW a \in Seq(T), NEW b \in Seq(T)
    PROVE  a \o b \in Seq(T) /\ Len(a \o b) \in Nat /\ Joined(a \o b, a, b, Len(a))
<1> DEFINE ds == a \o b
<1> DEFINE m == Len(a)
<1> DEFINE n == Len(b)
<1>1. ds \in Seq(T) /\ Len(ds) = m + n /\ Len(ds) \in Nat
  OBVIOUS
<1>2. /\ m \in Nat /\ n \in Nat
      /\ DOMAIN a = 1 .. m /\ DOMAIN b = 1 .. n /\ DOMAIN ds = 1 .. m + n
      /\ \A i \in 1 .. m + n : ds[i] = IF i <= m THEN a[i] ELSE b[i - m]
  OBVIOUS
<1> HIDE DEF ds, m, n
<1>3. Joined(ds, a, b, m)
  BY <1>2, Spliced
<1> QED BY <1>1, <1>3 DEF ds, m

\* The deliveries of two shelves, one after the other.
BothOf(ds, a, b, holders) ==
    /\ ds \in Seq(Delivery)
    /\ \A i, j \in 1 .. Len(ds) : ds[i] = ds[j] => i = j
    /\ \A i \in 1 .. Len(ds) : \A h \in holders : h.delivery # ds[i]
    /\ \A e : (\E i \in 1 .. Len(ds) : ds[i] = e)
           <=> (\E i \in DOMAIN a : a[i] = e) \/ (\E i \in DOMAIN b : b[i] = e)

LEMMA Distinct ==
    ASSUME NEW c \in Contented, NEW holders, Apart(c, holders),
           NEW p \in Shelves, NEW q \in Shelves, p # q
    PROVE  BothOf(c[p] \o c[q], c[p], c[q], holders)
<1> DEFINE ds == c[p] \o c[q]
<1> DEFINE a == c[p]
<1> DEFINE b == c[q]
<1>1. /\ a \in Seq(Delivery) /\ b \in Seq(Delivery)
      /\ DOMAIN a = 1 .. Len(a) /\ DOMAIN b = 1 .. Len(b)
  BY DEF Contented
<1>2. /\ \A i, j \in DOMAIN a : a[i] = a[j] => i = j
      /\ \A i, j \in DOMAIN b : b[i] = b[j] => i = j
  BY DEF Apart
<1>3. \A i \in DOMAIN a : \A j \in DOMAIN b : a[i] # b[j]
  BY DEF Apart
<1>4. /\ \A i \in DOMAIN a : \A h \in holders : h.delivery # a[i]
      /\ \A i \in DOMAIN b : \A h \in holders : h.delivery # b[i]
  BY DEF Apart
<1> DEFINE m == Len(a)
<1> DEFINE k == Len(ds)
<1>5. ds = a \o b
  OBVIOUS
<1> HIDE DEF a, b, ds
<1>6. ds \in Seq(Delivery) /\ k \in Nat /\ DOMAIN ds = 1 .. k /\ Joined(ds, a, b, m)
  <2>1. ds \in Seq(Delivery) /\ k \in Nat /\ Joined(ds, a, b, m)
    BY <1>1, <1>5, Concatenated
  <2> HIDE <1>5
  <2>2. DOMAIN ds = 1 .. Len(ds)
    BY <2>1
  <2> QED BY <2>1, <2>2
<1> HIDE DEF m, k
<1>7. \A i \in DOMAIN a : i \in 1 .. k /\ ds[i] = a[i]
  BY <1>6 DEF Joined
<1>8. \A j \in DOMAIN b : j + m \in 1 .. k /\ ds[j + m] = b[j]
  BY <1>6 DEF Joined
<1>9. \A i \in 1 .. k : \/ i \in DOMAIN a /\ ds[i] = a[i]
                        \/ \E j \in DOMAIN b : i = j + m /\ ds[i] = b[j]
  BY <1>6, Zenon DEF Joined
<1>10. ASSUME NEW i \in 1 .. k, NEW j \in 1 .. k, ds[i] = ds[j] PROVE i = j
  <2>1. CASE i \in DOMAIN a /\ ds[i] = a[i]
    <3>1. ~\E y \in DOMAIN b : j = y + m /\ ds[j] = b[y]
      BY <1>3, <1>10, <2>1, Zenon
    <3>2. j \in DOMAIN a /\ ds[j] = a[j]
      BY <1>9, <3>1, Zenon
    <3> QED BY <1>2, <1>10, <2>1, <3>2, Zenon
  <2>2. ASSUME NEW x \in DOMAIN b, i = x + m, ds[i] = b[x] PROVE i = j
    <3>1. ~(j \in DOMAIN a /\ ds[j] = a[j])
      BY <1>3, <1>10, <2>2, Zenon
    <3>2. PICK y \in DOMAIN b : j = y + m /\ ds[j] = b[y]
      BY <1>9, <3>1, Zenon
    <3>3. x = y
      BY <1>2, <1>10, <2>2, <3>2, Zenon
    <3> QED BY <2>2, <3>2, <3>3, Zenon
  <2> QED BY <1>9, <2>1, <2>2, Zenon
<1>11. ASSUME NEW i \in 1 .. k, NEW h \in holders PROVE h.delivery # ds[i]
  <2>1. CASE i \in DOMAIN a /\ ds[i] = a[i]
    BY <1>4, <2>1, Zenon
  <2>2. ASSUME NEW x \in DOMAIN b, ds[i] = b[x] PROVE h.delivery # ds[i]
    BY <1>4, <2>2, Zenon
  <2> QED BY <1>9, <2>1, <2>2, Zenon
<1>12. \A e : (\E i \in 1 .. k : ds[i] = e)
          <=> (\E i \in DOMAIN a : a[i] = e) \/ (\E i \in DOMAIN b : b[i] = e)
  BY <1>7, <1>8, <1>9, Zenon
<1>13. BothOf(ds, a, b, holders)
  BY <1>6, <1>10, <1>11, <1>12, Zenon DEF BothOf, k
<1> QED BY <1>13 DEF a, b, ds

LEMMA LeaveQueueOutcome ==
    ASSUME NEW r \in Registry, NEW unread, NEW dropped
    PROVE  LET r2 == LeaveQueue(r)
           IN /\ r2 \in Registry
              /\ r2.subs = r.subs /\ r2.channel = r.channel
              /\ r2.flight = r.flight /\ r2.turn = r.turn
              /\ Contents(r2, unread, dropped) = Contents(r, unread, dropped)
              /\ Competing(r) # {} => r2.queue = r.queue
<1>1. CASE r.queue = <<>> /\ Competing(r) = {}
  <2> DEFINE r2 == [r EXCEPT !.queue = NoQueue]
  <2>1. LeaveQueue(r) = r2
    BY <1>1 DEF LeaveQueue
  <2>2. /\ r2 \in Registry /\ r2.queue = NoQueue
        /\ r2.subs = r.subs /\ r2.channel = r.channel
        /\ r2.flight = r.flight /\ r2.turn = r.turn
    BY DEF Registry
  <2>3. Contents(r2, unread, dropped) = Contents(r, unread, dropped)
    <3> HIDE DEF r2
    <3> QED BY <1>1, <2>2 DEF Contents
  <2> QED BY <1>1, <2>1, <2>2, <2>3
<1>2. CASE ~(r.queue = <<>> /\ Competing(r) = {})
  BY <1>2 DEF LeaveQueue
<1> QED BY <1>1, <1>2

LEMMA UnsubscribeKeeps ==
    ASSUME IInv, NEW s \in Subscriptions, Unsubscribe(s)
    PROVE  IInv'
<1> DEFINE P == <<"outstanding", s>>
<1> DEFINE Q == <<"pending", s>>
<1> DEFINE c == Kept
<1>1. /\ receiver[s] = "closed" /\ channel[s] = <<>>
      /\ receiver' = [receiver EXCEPT ![s] = "gone"]
      /\ pending' = [pending EXCEPT ![s] = <<>>]
      /\ owed' = {d \in owed : d.copy # s}
      /\ bus' = bus /\ log' = log /\ held' = held /\ leaving' = leaving
      /\ orderly' = orderly /\ atMostOnce' = atMostOnce
  BY DEF Unsubscribe, given
<1>2. /\ TypeOK /\ Counts /\ Apart(c, held) /\ Sorted /\ AllShelved(c) /\ c \in Contented
      /\ Promised /\ Lives /\ QueueStays /\ ClosedStaysEmpty
      /\ channel \in Channels /\ pending \in Channels /\ outstanding \in Channels
      /\ receiver \in [Subscriptions -> {"none", "open", "closed", "gone"}]
      /\ P \in Shelves /\ Q \in Shelves /\ P # Q /\ P[2] = s /\ Q[2] = s
      /\ c[P] = outstanding[s] /\ c[Q] = pending[s]
      /\ Routes \in Registry
  BY StateTyped, ShelfNames, KeptParts DEF IInv, Sorted, TypeOK
<1>3. pending' \in Channels /\ pending'[s] = <<>> /\ \A t \in Subscriptions \ {s} : pending'[t] = pending[t]
  BY <1>1, <1>2 DEF Channels
<1>4. receiver'[s] = "gone" /\ \A t \in Subscriptions \ {s} : receiver'[t] = receiver[t]
  BY <1>1, <1>2
<1>5. \A h \in held : h.sub \in Subscriptions
  BY <1>2 DEF TypeOK, Held
<1>6. orderly => \A h \in held' : receiver'[h.sub] = "open"
  BY <1>1, <1>2, <1>4, <1>5 DEF Promised
<1>7. \A e : WithConsumer(e)' <=> WithConsumer(e)
  BY <1>1 DEF WithConsumer
<1>8. \A e : Stored(Kept, e)' <=> Stored(Kept', e)
  BY DEF Stored
\* What every case comes to.
<1>9. ASSUME outstanding' \in Channels, channel' \in Channels, flight' \in Nat,
             turn' \in 0 .. TurnWidth - 1, subscriptions' \subseteq Subscriptions,
             queue' \in Seq(Delivery) \cup {NoQueue}, Balanced,
             Apart(Kept', held), AllShelved(Kept'),
             \A e : Stored(Kept', e) => Stored(c, e),
             orderly => \A d \in owed' : Stored(Kept', d) \/ WithConsumer(d),
             Lives', QueueStays', ClosedStaysEmpty'
      PROVE  IInv'
  <2>1. Counts'
    BY <1>1, <1>2, <1>9, CountsSame
  <2>2. TypeOK'
    <3>1. /\ receiver' \in [Subscriptions -> {"none", "open", "closed", "gone"}]
          /\ owed' \subseteq Delivery /\ pending' \in [Subscriptions -> Seq(Delivery)]
          /\ bus' \in {"open", "closing", "closed"} /\ log' \subseteq Messages
          /\ held' \subseteq Held /\ leaving' \in 0 .. Threads
          /\ orderly' \in BOOLEAN /\ atMostOnce' \subseteq EitherMode
      BY <1>1, <1>2, <1>3 DEF TypeOK, Channels
    <3>2. channel' \in [Subscriptions -> Seq(Delivery)] /\ outstanding' \in [Subscriptions -> Seq(Delivery)]
      BY <1>9 DEF Channels
    <3> QED BY <1>9, <3>1, <3>2 DEF TypeOK
  <2>3. Sorted'
    <3>1. \A e : Stored(Kept', e) \/ (\E h \in held' : h.delivery = e) => e.msg \in log'
      BY <1>1, <1>2, <1>9 DEF Sorted, WithConsumer
    <3>2. \A h \in held' : Belongs(h.delivery, h.sub)
      BY <1>1, <1>2 DEF Sorted
    <3> QED BY <1>1, <1>9, <3>1, <3>2, NextSorted
  <2>4. Promised'
    <3>1. (bus # "open" => owed = {})'
      BY <1>1, <1>2 DEF Promised
    <3>2. orderly' => \A d \in owed' : Stored(Kept, d)' \/ WithConsumer(d)'
      BY <1>1, <1>7, <1>8, <1>9
    <3> QED BY <1>1, <1>6, <3>1, <3>2 DEF Promised
  <2> QED BY <1>1, <1>9, <2>1, <2>2, <2>3, <2>4 DEF IInv
<1>10. CASE ~Attached(s)
  <2>1. /\ channel' = channel /\ queue' = queue /\ flight' = flight /\ turn' = turn
        /\ subscriptions' = subscriptions /\ outstanding' = outstanding
    BY <1>10 DEF Unsubscribe, routes
  <2>2. bus = "closed" /\ owed' = {}
    BY <1>1, <1>2, <1>10 DEF Lives, Attached, Promised
  <2>3. Kept' \in Contented
    BY <1>2, <1>3, <2>1, ContentsType DEF Kept, Registry, Routes
  <2>4. \A x \in Shelves : Kept'[x] = c[x] \/ Kept'[x] = <<>>
    BY <1>3, <2>1, ShelfKinds DEF Kept, Contents, Routes
  <2>5. Apart(Kept', held) /\ (\A e : Stored(Kept', e) => Stored(c, e)) /\ AllShelved(Kept')
    <3> DEFINE c2 == Kept'
    <3> HIDE DEF c, c2
    <3> QED BY <1>2, <2>3, <2>4, Clearing DEF c2
  <2>6. queue \in Seq(Delivery) \cup {NoQueue} /\ turn \in 0 .. TurnWidth - 1 /\ flight \in Nat
        /\ subscriptions \subseteq Subscriptions
    BY <1>2 DEF TypeOK
  <2>7. Balanced
    BY <1>2, <2>1, <2>6, SentFinite DEF Balanced
  <2>8. Lives'
    BY <1>1, <1>2, <1>3, <1>4, <1>10, <2>1 DEF Lives, Attached
  <2>9. QueueStays' /\ ClosedStaysEmpty'
    BY <1>1, <1>2, <2>1 DEF QueueStays, ClosedStaysEmpty
  <2> QED BY <1>2, <1>9, <2>1, <2>2, <2>5, <2>6, <2>7, <2>8, <2>9
<1>11. CASE Attached(s)
  <2> DEFINE rest == [Routes EXCEPT !.subs = @ \ {s}]
  <2> DEFINE ds == HandsBack(s)
  <2> DEFINE r2 == HandEach(rest, ds)
  <2> DEFINE c0 == Contents(rest, pending', outstanding')
  <2> DEFINE D == {ds[i] : i \in 1 .. Len(ds)}
  <2>1. Commit(LeaveQueue(r2)) /\ outstanding' = [outstanding EXCEPT ![s] = <<>>]
    BY <1>11 DEF Unsubscribe
  <2>2. outstanding' \in Channels /\ outstanding'[s] = <<>>
          /\ \A t \in Subscriptions \ {s} : outstanding'[t] = outstanding[t]
    BY <1>2, <2>1 DEF Channels
  <2>3. /\ rest \in Registry /\ rest.subs = subscriptions \ {s} /\ rest.channel = channel
        /\ rest.queue = queue /\ rest.flight = flight
    BY <1>2 DEF Registry, Routes
  <2>4. bus # "closed" /\ (s \in Queues => queue # NoQueue)
    BY <1>2, <1>11 DEF ClosedStaysEmpty, Attached, QueueStays
  <2> HIDE DEF rest
  <2>5. /\ c0 \in Contented /\ c0[P] = <<>> /\ c0[Q] = <<>>
    <3> DEFINE unread == pending'
    <3> DEFINE dropped == outstanding'
    <3>1. unread \in Channels /\ dropped \in Channels /\ unread[s] = <<>> /\ dropped[s] = <<>>
      BY <1>3, <2>2
    <3> HIDE DEF unread, dropped
    <3>2. Contents(rest, unread, dropped) \in Contented
      BY <2>3, <3>1, ContentsType
    <3>3. /\ Contents(rest, unread, dropped)[P] = dropped[s]
          /\ Contents(rest, unread, dropped)[Q] = unread[s]
      BY <1>2 DEF Contents
    <3> QED BY <3>1, <3>2, <3>3 DEF unread, dropped
  <2>6. \A x \in Shelves : x # P /\ x # Q => c0[x] = c[x]
    BY <1>3, <2>2, <2>3, ShelfKinds DEF Kept, Contents, Routes
  <2>7. Apart(c0, held) /\ (\A e : Stored(c0, e) => Stored(c, e)) /\ AllShelved(c0)
    <3> HIDE DEF c, c0, P, Q
    <3> QED BY <1>2, <2>5, <2>6, Clearing
  <2>8. /\ ds \in Seq(Delivery)
        /\ \A i, j \in 1 .. Len(ds) : ds[i] = ds[j] => i = j
        /\ \A i \in 1 .. Len(ds) : /\ ~Stored(c0, ds[i])
                                   /\ \A h \in held : h.delivery # ds[i]
                                   /\ orderly => ds[i].copy = Shared
        /\ \A e \in D : Stored(c, e) /\ s \in Queues
        /\ \A e : Stored(c, e) => Stored(c0, e) \/ e \in D \/ (s \in Topics /\ e.copy = s)
    <3>1. CASE s \in Queues
      <4>1. ds = c[P] \o c[Q] /\ s \notin Topics
        BY <1>2, <3>1, RouterAssumption DEF HandsBack
      <4> HIDE DEF c, c0, P, Q, ds
      <4>2. /\ ds \in Seq(Delivery)
            /\ \A i, j \in 1 .. Len(ds) : ds[i] = ds[j] => i = j
            /\ \A i \in 1 .. Len(ds) : \A h \in held : h.delivery # ds[i]
            /\ \A e : (\E i \in 1 .. Len(ds) : ds[i] = e)
                   <=> (\E i \in DOMAIN c[P] : c[P][i] = e) \/ (\E i \in DOMAIN c[Q] : c[Q][i] = e)
        <5>1. c \in Contented /\ Apart(c, held) /\ P \in Shelves /\ Q \in Shelves /\ P # Q
          BY <1>2
        <5>2. BothOf(ds, c[P], c[Q], held)
          BY <4>1, <5>1, Distinct
        <5> QED BY <5>2 DEF BothOf
      <4>3. ASSUME NEW i \in 1 .. Len(ds) PROVE ~Stored(c0, ds[i]) /\ (orderly => ds[i].copy = Shared)
        <5>1. PICK x \in {P, Q} : \E j \in DOMAIN c[x] : c[x][j] = ds[i]
          BY <4>2
        <5>2. PICK j \in DOMAIN c[x] : c[x][j] = ds[i]
          BY <5>1
        <5>3. x \in Shelves /\ x[2] = s
          BY <1>2
        <5>4. \A y \in Shelves : y # P /\ y # Q => \A k \in DOMAIN c[y] : c[y][k] # ds[i]
          BY <1>2, <5>2, <5>3 DEF Apart
        <5>5. ~Stored(c0, ds[i])
          BY <2>5, <2>6, <5>4 DEF Stored
        <5>6. Belongs(ds[i], s)
          BY <1>2, <5>2, <5>3 DEF AllShelved
        <5> QED BY <4>1, <5>5, <5>6 DEF Belongs
      <4>4. \A e \in D : Stored(c, e) /\ s \in Queues
        BY <1>2, <3>1, <4>2 DEF Stored
      <4>5. \A e : Stored(c, e) => Stored(c0, e) \/ e \in D
        <5> TAKE e
        <5> HAVE Stored(c, e)
        <5>1. PICK x \in Shelves : \E j \in DOMAIN c[x] : c[x][j] = e
          BY DEF Stored
        <5>2. CASE x \in {P, Q}
          BY <4>2, <5>1, <5>2
        <5>3. CASE x \notin {P, Q}
          BY <2>6, <5>1, <5>3 DEF Stored
        <5> QED BY <5>2, <5>3
      <4>6. \A i \in 1 .. Len(ds) : /\ ~Stored(c0, ds[i])
                                    /\ \A h \in held : h.delivery # ds[i]
                                    /\ orderly => ds[i].copy = Shared
        BY <4>2, <4>3
      <4> HIDE DEF D
      <4> QED BY <4>2, <4>4, <4>5, <4>6
    <3>2. CASE s \notin Queues
      <4>1. ds = <<>> /\ s \in Topics
        BY <3>2 DEF HandsBack, Subscriptions
      <4>2. \A e : Stored(c, e) => Stored(c0, e) \/ e.copy = s
        <5> HIDE DEF c, c0, P, Q
        <5> TAKE e
        <5> HAVE Stored(c, e)
        <5>1. PICK x \in Shelves : \E j \in DOMAIN c[x] : c[x][j] = e
          BY DEF Stored
        <5>2. CASE x \in {P, Q}
          BY <1>2, <4>1, <5>1, <5>2 DEF AllShelved, Belongs
        <5>3. CASE x \notin {P, Q}
          BY <2>6, <5>1, <5>3 DEF Stored
        <5> QED BY <5>2, <5>3
      <4>3. Len(ds) = 0 /\ ds \in Seq(Delivery)
        BY <4>1
      <4> HIDE DEF ds
      <4>4. D = {}
        BY <4>3
      <4> HIDE DEF c, c0, D
      <4> QED BY <4>1, <4>2, <4>3, <4>4
    <3> QED BY <3>1, <3>2
  <2> HIDE DEF ds
  <2>9. HandedOver(rest, r2, D, held, pending', outstanding')
    BY <1>3, <2>2, <2>3, <2>7, <2>8, HandingEach
  <2> DEFINE r3 == LeaveQueue(r2)
  <2> HIDE DEF D, r2
  <2>10. r2 \in Registry
    BY <2>9 DEF HandedOver
  <2>11. /\ r3 \in Registry /\ r3.subs = r2.subs /\ r3.channel = r2.channel
         /\ r3.flight = r2.flight
         /\ Contents(r3, pending', outstanding') = Contents(r2, pending', outstanding')
         /\ Competing(r2) # {} => r3.queue = r2.queue
    BY <2>10, LeaveQueueOutcome
  <2> HIDE DEF r3
  <2>12. /\ subscriptions' = r3.subs /\ channel' = r3.channel /\ queue' = r3.queue
         /\ turn' = r3.turn /\ flight' = r3.flight
    BY <2>1 DEF Commit, r3
  <2>13. Kept' = Contents(r2, pending', outstanding')
    <3>1. Kept' = Contents(r3, pending', outstanding')
      BY <2>12 DEF Kept, Contents, Routes
    <3> QED BY <2>11, <3>1
  <2>14. /\ Apart(Kept', held) /\ AllShelved(Kept')
         /\ \A e : Stored(Kept', e) => Stored(c0, e) \/ e \in D
         /\ \A e : Stored(c0, e) => Stored(Kept', e)
         /\ queue # NoQueue => \A d \in D : Stored(Kept', d)
    BY <2>3, <2>7, <2>9, <2>13 DEF HandedOver
  <2>15. /\ subscriptions' = subscriptions \ {s}
         /\ flight' + Cardinality(Sent(channel)) = flight + Cardinality(Sent(channel'))
         /\ \A t \in Subscriptions : channel'[t] = channel[t] \/ Takes(t)
         /\ r2.queue = NoQueue <=> queue = NoQueue
    BY <2>3, <2>9, <2>11, <2>12 DEF HandedOver
  <2>16. Balanced
    BY <2>15 DEF Balanced
  <2>17. /\ channel' \in Channels /\ flight' \in Nat /\ turn' \in 0 .. TurnWidth - 1
         /\ subscriptions' \subseteq Subscriptions /\ queue' \in Seq(Delivery) \cup {NoQueue}
    BY <2>11, <2>12 DEF Registry
  <2>18. \A e : Stored(Kept', e) => Stored(c, e)
    BY <2>7, <2>8, <2>14 DEF D
  <2>19. orderly => \A d \in owed' : Stored(Kept', d) \/ WithConsumer(d)
    <3> SUFFICES ASSUME orderly, NEW d \in owed' PROVE Stored(Kept', d) \/ WithConsumer(d)
      OBVIOUS
    <3>1. d \in owed /\ d.copy # s
      BY <1>1
    <3>2. CASE Stored(c, d)
      <4>1. Stored(c0, d) \/ (d \in D /\ s \in Queues)
        <5> HIDE DEF c, c0
        <5>1. Stored(c0, d) \/ d \in D \/ (s \in Topics /\ d.copy = s)
          BY <2>8, <3>2
        <5> QED BY <2>8, <3>1, <5>1
      <4> QED BY <2>4, <2>14, <4>1
    <3>3. CASE WithConsumer(d)
      BY <3>3
    <3> QED BY <1>2, <3>1, <3>2, <3>3 DEF Promised
  <2>20. Lives'
    BY <1>1, <1>2, <1>3, <1>4, <2>2, <2>15 DEF Lives, Takes
  <2>21. QueueStays'
    <3> SUFFICES ASSUME NEW t \in subscriptions' \cap Queues PROVE queue' # NoQueue
      BY DEF QueueStays
    <3>1. t \in Competing(r2) /\ t \in subscriptions
      BY <2>11, <2>12, <2>15 DEF Competing
    <3>2. queue # NoQueue
      BY <1>2, <3>1 DEF QueueStays
    <3> QED BY <2>11, <2>12, <2>15, <3>1, <3>2
  <2>22. ClosedStaysEmpty'
    BY <1>1, <2>4 DEF ClosedStaysEmpty
  <2> QED BY <1>9, <2>2, <2>14, <2>16, <2>17, <2>18, <2>19, <2>20, <2>21, <2>22
<1> QED BY <1>10, <1>11

LEMMA StepKeeps == IInv /\ [Next]_vars => IInv'
<1> SUFFICES ASSUME IInv, [Next]_vars PROVE IInv'
  OBVIOUS
<1>1. ASSUME NEW s \in Subscriptions, Subscribe(s) PROVE IInv'
  BY <1>1, SubscribeKeeps
<1>2. ASSUME NEW s \in Subscriptions, Receive(s) PROVE IInv'
  BY <1>2, ReceiveKeeps
<1>3. ASSUME NEW s \in Subscriptions, CloseReceiver(s) PROVE IInv'
  BY <1>3, CloseReceiverKeeps
<1>4. ASSUME NEW s \in Subscriptions, Drain(s) PROVE IInv'
  BY <1>4, DrainKeeps
<1>5. ASSUME NEW s \in Subscriptions, Unsubscribe(s) PROVE IInv'
  BY <1>5, UnsubscribeKeeps
<1>6. ASSUME NEW m \in Messages, Publish(m) PROVE IInv'
  BY <1>6, PublishKeeps
<1>7. ASSUME NEW h \in held, Settle(h) PROVE IInv'
  BY <1>7, SettleKeeps
<1>8. ASSUME NEW h \in held, BeginReturn(h) PROVE IInv'
  BY <1>8, BeginReturnKeeps
<1>9. ASSUME NEW h \in held, Requeue(h) PROVE IInv'
  BY <1>9, RequeueKeeps
<1>10. ASSUME NEW h \in held, Release(h) PROVE IInv'
  BY <1>10, ReleaseKeeps
<1>11. CASE Consumed
  BY <1>11, ConsumedKeeps
<1>12. CASE BeginClose
  BY <1>12, BeginCloseKeeps
<1>13. CASE Close
  BY <1>13, CloseKeeps
<1>14. CASE UNCHANGED vars
  <2>1. /\ atMostOnce' = atMostOnce /\ bus' = bus /\ subscriptions' = subscriptions
        /\ receiver' = receiver /\ channel' = channel /\ pending' = pending
        /\ queue' = queue /\ outstanding' = outstanding /\ turn' = turn /\ log' = log
        /\ held' = held /\ leaving' = leaving /\ flight' = flight
        /\ orderly' = orderly /\ owed' = owed
    BY <1>14 DEF vars, routes, history, given
  <2>2. Kept' = Kept
    BY <2>1, NextKept
  <2>3. TypeOK' /\ Counts'
    BY <2>1 DEF IInv, TypeOK, Counts, FlightCounts, Running
  <2>4. Apart(Kept', held') /\ Sorted'
    BY <2>1, <2>2, <2>3, StayingKeeps
  <2>5. Promised'
    <3>1. \A e : Stored(Kept, e) \/ WithConsumer(e) => Stored(Kept, e)' \/ WithConsumer(e)'
      BY <2>1, <2>2 DEF Stored, WithConsumer
    <3> QED BY <2>1, <3>1 DEF IInv, Promised
  <2>6. Lives' /\ QueueStays' /\ ClosedStaysEmpty'
    BY <2>1 DEF IInv, Lives, QueueStays, ClosedStaysEmpty
  <2> QED BY <2>3, <2>4, <2>5, <2>6 DEF IInv
<1> QED BY <1>1, <1>2, <1>3, <1>4, <1>5, <1>6, <1>7, <1>8, <1>9, <1>10, <1>11, <1>12, <1>13, <1>14
        DEF Next

\* The invariant of the router holds in every behaviour.
THEOREM Invariance == Spec => []IInv
  BY InitIInv, StepKeeps, PTL DEF Spec

\* Every variable keeps its type.
THEOREM TypeCorrect == Spec => []TypeOK
<1>1. IInv => TypeOK
  BY DEF IInv
<1> QED BY <1>1, Invariance, PTL

\* No copy of a message is ever in two places, for any subscriptions, any
\* messages and any order of detaching, releasing and shutting down: what
\* hand_to_one, unsubscribe and requeue do between them never gives a delivery
\* to a consumer while another one has it, or puts it on the queue again.
THEOREM DeliveriesNeverDoubled == Spec => []NeverDoubled
<1>1. IInv => NeverDoubled
  BY ApartIsNeverDoubled DEF IInv
<1> QED BY <1>1, Invariance, PTL

\* Where consumers settle what they hold before they detach, a delivery that is
\* still owed is in exactly one place until the shutdown begins.
THEOREM OrderlyLosesNothing == Spec => []OrderlyKeepsAll
<1>1. IInv => OrderlyKeepsAll
  <2> SUFFICES ASSUME IInv, orderly, NEW d \in owed PROVE \E p \in Places(d) : Places(d) = {p}
    BY DEF OrderlyKeepsAll
  <2>1. TypeOK /\ Apart(Kept, held) /\ d \in Delivery /\ (Stored(Kept, d) \/ WithConsumer(d))
    BY DEF IInv, Promised, TypeOK
  <2>2. Places(d) # {}
    BY <2>1, StoredIsPlaced
  <2>3. \A a, b \in Places(d) : a = b
    BY <2>1, ApartIsNeverDoubled DEF NeverDoubled
  <2> QED BY <2>2, <2>3
<1> QED BY <1>1, Invariance, PTL

\* Where they do, the queue consumers of an address get the shared copies only:
\* a topic subscription's copy never comes to them.
THEOREM OrderlyQueuesGetShared == Spec => []OrderlyOneDeliveryEach
<1>1. IInv => OrderlyOneDeliveryEach
  <2> SUFFICES ASSUME IInv, orderly, NEW d \in Delivery, InQueues(d) PROVE d.copy = Shared
    BY DEF OrderlyOneDeliveryEach, OneDeliveryEach
  <2>1. TypeOK /\ AllShelved(Kept) /\ \A h \in held : Belongs(h.delivery, h.sub)
    BY DEF IInv, Sorted
  <2>2. \A p \in Shelves : Kept[p] = On(p)
    BY ShelfKinds DEF Kept, Contents, On, Routes
  <2>3. \A p \in Shelves : p[2] \in Queues \cup {Shared} => p[2] \notin Topics
    BY RouterAssumption
  <2>4. \A h \in held : h.sub \in Queues => h.sub \notin Topics
    BY RouterAssumption
  <2> QED BY <2>1, <2>2, <2>3, <2>4 DEF InQueues, AllShelved, Belongs
<1> QED BY <1>1, Invariance, PTL

\* The harness's in-flight count is, at every step, what is in the channels,
\* what consumers hold and the settlements whose count is not released yet.
THEOREM FlightIsCounted == Spec => []FlightCounts
<1>1. IInv => FlightCounts
  BY DEF IInv, Counts
<1> QED BY <1>1, Invariance, PTL

\* A router that was closed registers nobody and stores nothing again.
THEOREM ClosedDoesStayEmpty == Spec => []ClosedStaysEmpty
<1>1. IInv => ClosedStaysEmpty
  BY DEF IInv
<1> QED BY <1>1, Invariance, PTL

-----------------------------------------------------------------------------
(* Whom a publish reaches.                                                 *)

\* The competing consumers' ranks are 0, 1, 2 and so on, each given once.
LEMMA Ranked ==
    ASSUME NEW C \in SUBSET Nat, IsFiniteSet(C)
    PROVE  /\ \A s, t \in C : Rank(s, C) = Rank(t, C) => s = t
           /\ \A k \in 0 .. Cardinality(C) - 1 : \E s \in C : Rank(s, C) = k
<1> DEFINE n == Cardinality(C)
<1> DEFINE Below(s) == {q \in C : q < s}
<1>1. n \in Nat
  BY FS_CardinalityType
<1>2. ASSUME NEW s \in C
      PROVE  /\ IsFiniteSet(Below(s)) /\ Rank(s, C) = Cardinality(Below(s))
             /\ Rank(s, C) \in 0 .. n - 1
  <2>1. Below(s) \in SUBSET C /\ s \notin Below(s)
    OBVIOUS
  <2> HIDE DEF Below
  <2>2. IsFiniteSet(Below(s)) /\ Cardinality(Below(s)) <= n /\ n # Cardinality(Below(s))
    BY <2>1, FS_Subset
  <2>3. Cardinality(Below(s)) \in Nat
    BY <2>2, FS_CardinalityType
  <2>4. Rank(s, C) = Cardinality(Below(s))
    BY DEF Rank, Below
  <2> QED BY <1>1, <2>2, <2>3, <2>4
<1>3. ASSUME NEW s \in C, NEW t \in C, s < t PROVE Rank(s, C) # Rank(t, C)
  <2>1. Below(s) \in SUBSET Below(t) /\ s \in Below(t) /\ s \notin Below(s)
    <3>1. s \in Nat /\ t \in Nat /\ \A q \in C : q \in Nat
      OBVIOUS
    <3>2. \A q \in C : q < s => q < t
      BY <1>3, <3>1
    <3>3. s \in Below(t) /\ s \notin Below(s)
      BY <1>3, <3>1
    <3> QED BY <3>2, <3>3
  <2> HIDE DEF Below
  <2>2. Cardinality(Below(s)) # Cardinality(Below(t))
    BY <1>2, <2>1, FS_Subset
  <2> QED BY <1>2, <2>2
<1>4. \A s, t \in C : Rank(s, C) = Rank(t, C) => s = t
  <2> SUFFICES ASSUME NEW s \in C, NEW t \in C, s # t PROVE Rank(s, C) # Rank(t, C)
    OBVIOUS
  <2>1. s < t \/ t < s
    OBVIOUS
  <2> QED BY <1>3, <2>1
<1> DEFINE T == 0 .. n - 1
<1> DEFINE f == [s \in C |-> Rank(s, C)]
<1>5. IsFiniteSet(T) /\ Cardinality(T) = n
  <2>1. IsFiniteSet(0 .. n - 1) /\ Cardinality(0 .. n - 1) = IF 0 > n - 1 THEN 0 ELSE n - 1 - 0 + 1
    BY <1>1, FS_Interval
  <2> QED BY <1>1, <2>1
<1>6. f \in Injection(C, T)
  <2>1. \A s \in C : f[s] \in T
    BY <1>2
  <2> QED BY <1>4, <2>1 DEF Injection, IsInjective
<1>7. f \in Surjection(C, T)
  <2> HIDE DEF f, T
  <2> QED BY <1>5, <1>6, FS_Injection
<1>8. \A k \in T : \E s \in C : f[s] = k
  BY <1>7 DEF Surjection
<1>9. \A s \in C : f[s] = Rank(s, C)
  OBVIOUS
<1> HIDE DEF f, T
<1>10. \A k \in T : \E s \in C : Rank(s, C) = k
  BY <1>8, <1>9
<1> QED BY <1>4, <1>10 DEF T

\* Where every competing consumer takes what it is sent, the one whose turn it
\* is gets the delivery.
LEMMA TurnTaken ==
    ASSUME NEW r \in Registry, NEW d \in Delivery, Competing(r) # {},
           \A s \in Competing(r) : Takes(s)
    PROVE  \E s \in Competing(r) :
              /\ {q \in Competing(r) : Rank(q, Competing(r)) = r.turn % Cardinality(Competing(r))} = {s}
              /\ Taken(r, d, HandToOne(r, d), s)
<1> DEFINE C == Competing(r)
<1> DEFINE n == Cardinality(C)
<1> DEFINE taking == {t \in Tries(r) : Takes(t.sub)}
<1>1. IsFiniteSet(C) /\ C \in SUBSET Nat /\ C \subseteq Subscriptions
  BY RouterAssumption, FS_Subset DEF Competing, Registry
<1>2. n \in Nat /\ n # 0
  BY <1>1, FS_CardinalityType, FS_EmptySet
<1>3. r.turn \in 0 .. TurnWidth - 1 /\ TurnWidth \in Nat /\ TurnWidth > 0
  BY RouterAssumption DEF Registry
<1>4. r.turn % n \in 0 .. n - 1
  BY <1>2, <1>3
<1>5. PICK s \in C : Rank(s, C) = r.turn % n
  BY <1>1, <1>4, Ranked
<1>6. {q \in C : Rank(q, C) = r.turn % n} = {s}
  BY <1>1, <1>5, Ranked
<1>7. ((r.turn + 0) % TurnWidth) % n = r.turn % n
  BY <1>3
<1> DEFINE t0 == [offset |-> 0, sub |-> s]
<1>8. t0 \in Tries(r) /\ t0.offset = 0
  <2>1. t0 \in [offset : 0 .. n - 1, sub : C] /\ t0.sub = s /\ t0.offset = 0
    BY <1>2
  <2> HIDE DEF t0
  <2> QED BY <1>5, <1>7, <2>1 DEF Tries
<1>9. taking = Tries(r)
  BY TriesType
<1> HIDE DEF taking, t0
<1>10. PICK t \in taking : FirstOf(taking) = t.sub /\ \A u \in taking : t.offset <= u.offset
  <2>1. taking # {} /\ \A u \in taking : u.offset \in Nat
    BY <1>8, <1>9, TriesType
  <2> QED BY <2>1, FirstOfTries
<1>11. t \in Tries(r) /\ t.offset \in Nat /\ t.sub \in C /\ t.offset <= 0
  BY <1>8, <1>9, <1>10, TriesType
<1>12. t.offset = 0 /\ Rank(t.sub, C) = ((r.turn + t.offset) % TurnWidth) % n
  BY <1>11 DEF Tries
<1>13. t.sub = s
  BY <1>6, <1>7, <1>11, <1>12
<1>14. HandToOne(r, d) = Send(Turned(r), s, d)
  BY <1>8, <1>9, <1>10, <1>13 DEF HandToOne, taking
<1>15. s \in Subscriptions /\ Takes(s)
  BY <1>1, <1>5
<1>16. Taken(Turned(r), d, HandToOne(r, d), s)
  BY <1>14, <1>15, SendOutcome, TurnedType
<1>17. Taken(r, d, HandToOne(r, d), s)
  BY <1>16, TurnedType DEF Taken
<1> QED BY <1>5, <1>6, <1>17

Reached == {s \in Subscriptions : channel'[s] # channel[s]}

LEMMA PublishReaches ==
    ASSUME IInv, NEW m \in Messages, Publish(m), \A s \in Subscriptions : Attached(s) => Takes(s)
    PROVE  /\ Reached = Recipients
           /\ \/ Competing(Routes) = {} /\ Recipients = subscriptions \cap Topics
              \/ /\ Competing(Routes) # {}
                 /\ \E s \in Competing(Routes) : Recipients = (subscriptions \cap Topics) \cup {s}
<1> DEFINE r1 == SendCopies(Routes, m)
<1> DEFINE d == Copy(m, Shared)
<1> DEFINE r2 == HandToOne(r1, d)
<1>1. /\ Routes \in Registry /\ subscriptions \subseteq Subscriptions /\ channel \in Channels
      /\ Routes.subs = subscriptions /\ Routes.channel = channel /\ Routes.turn = turn
      /\ TypeOK
  BY StateTyped DEF IInv, TypeOK, Routes
<1>2. channel' = r2.channel /\ d \in Delivery
  BY DEF Publish, PublishOne, Commit, Copy, Delivery
<1>3. TopicTakers(Routes) = subscriptions \cap Topics
  BY <1>1 DEF TopicTakers, Attached
<1>4. /\ r1 \in Registry /\ r1.subs = subscriptions /\ r1.turn = turn
      /\ \A s \in subscriptions \cap Topics : r1.channel[s] = Append(channel[s], Copy(m, s))
      /\ \A s \in Subscriptions \ (subscriptions \cap Topics) : r1.channel[s] = channel[s]
  BY <1>1, <1>3, SendCopiesOutcome
<1> HIDE DEF r1, d
<1>5. Competing(r1) = Competing(Routes)
  BY <1>1, <1>4 DEF Competing
<1>6. \A s \in subscriptions \cap Topics : r1.channel[s] # channel[s]
  <2> TAKE s \in subscriptions \cap Topics
  <2>1. channel[s] \in Seq(Delivery)
    BY <1>1 DEF Channels
  <2>2. Len(Append(channel[s], Copy(m, s))) = Len(channel[s]) + 1 /\ Len(channel[s]) \in Nat
    BY <2>1
  <2> QED BY <1>4, <2>2
<1>7. CASE Competing(Routes) = {}
  <2>1. r2.channel = r1.channel
    BY <1>2, <1>4, <1>5, <1>7 DEF HandToOne, Keep
  <2>2. Recipients = subscriptions \cap Topics
    BY <1>7 DEF Recipients
  <2> QED BY <1>1, <1>2, <1>4, <1>6, <1>7, <2>1, <2>2 DEF Reached
<1>8. CASE Competing(Routes) # {}
  <2> DEFINE C == Competing(Routes)
  <2>1. \A s \in C : Takes(s)
    BY <1>1 DEF Competing, Attached
  <2>2. PICK s \in C : /\ {q \in C : Rank(q, C) = turn % Cardinality(C)} = {s}
                       /\ Taken(r1, d, r2, s)
    BY <1>2, <1>4, <1>5, <1>8, <2>1, TurnTaken
  <2>3. s \in subscriptions /\ s \in Queues /\ s \notin Topics /\ s \in Subscriptions
    BY <1>1, RouterAssumption DEF Competing
  <2>4. Recipients = (subscriptions \cap Topics) \cup {s}
    BY <2>2 DEF Recipients
  <2>5. r1.channel \in Channels
    BY <1>4 DEF Registry
  <2>6. /\ r2.channel[s] = Append(r1.channel[s], d)
        /\ \A t \in Subscriptions \ {s} : r2.channel[t] = r1.channel[t]
    BY <2>2, <2>3, <2>5 DEF Taken, Channels
  <2>7. r2.channel[s] # channel[s]
    <3>1. r1.channel[s] = channel[s] /\ channel[s] \in Seq(Delivery)
      BY <1>1, <1>4, <2>3 DEF Channels
    <3>2. Len(Append(channel[s], d)) = Len(channel[s]) + 1 /\ Len(channel[s]) \in Nat
      BY <1>2, <3>1
    <3> QED BY <2>6, <3>1, <3>2
  <2>8. Reached = (subscriptions \cap Topics) \cup {s}
    BY <1>1, <1>2, <1>4, <1>6, <2>3, <2>6, <2>7 DEF Reached
  <2> QED BY <1>8, <2>4, <2>8
<1> QED BY <1>7, <1>8

LEMMA NamedIsReached ==
    ASSUME IInv, NEW m \in Messages, Publish(m), \A s \in Subscriptions : Attached(s) => Takes(s)
    PROVE  Cardinality(Recipients) = NamedCount
<1> DEFINE opened == {s \in Subscriptions : receiver[s] # "none"}
<1> DEFINE topics == subscriptions \cap Topics
<1> DEFINE C == Competing(Routes)
<1>1. subscriptions \subseteq opened /\ opened \in SUBSET Subscriptions
  BY DEF IInv, TypeOK, Lives
<1>2. IsFiniteSet(opened) /\ IsFiniteSet(subscriptions)
  <2> HIDE DEF opened
  <2> QED BY <1>1, RouterAssumption, FS_Subset
<1>3. Cardinality(subscriptions) <= Cardinality(opened)
  <2> HIDE DEF opened
  <2> QED BY <1>1, <1>2, FS_Subset
<1>4. /\ Recipients \in SUBSET subscriptions /\ topics \in SUBSET subscriptions
      /\ C \in SUBSET subscriptions /\ C \cap Topics = {}
  BY RouterAssumption DEF Recipients, Competing, Routes
<1>5. /\ IsFiniteSet(Recipients) /\ IsFiniteSet(topics) /\ IsFiniteSet(C)
      /\ Cardinality(Recipients) <= Cardinality(subscriptions)
  <2> HIDE DEF topics, C
  <2> QED BY <1>2, <1>4, FS_Subset
<1>6. /\ Cardinality(opened) \in Nat /\ Cardinality(subscriptions) \in Nat
      /\ Cardinality(Recipients) \in Nat /\ Cardinality(topics) \in Nat /\ Cardinality(C) \in Nat
  BY <1>2, <1>5, FS_CardinalityType
<1>7. Cardinality(Recipients) = Cardinality(topics) + (IF Cardinality(C) = 0 THEN 0 ELSE 1)
  <2>1. CASE C = {} /\ Recipients = topics
    <3>1. Cardinality(C) = 0
      BY <2>1, FS_EmptySet
    <3> QED BY <1>6, <2>1, <3>1
  <2>2. ASSUME NEW s \in C, Recipients = topics \cup {s}
        PROVE  Cardinality(Recipients) = Cardinality(topics) + (IF Cardinality(C) = 0 THEN 0 ELSE 1)
    <3>1. Cardinality(C) # 0
      BY <1>5, <2>2, FS_EmptySet
    <3>2. s \notin topics
      BY <1>4
    <3>3. Cardinality(topics \cup {s}) = Cardinality(topics) + 1
      <4> HIDE DEF topics
      <4> QED BY <1>5, <3>2, FS_AddElement
    <3> QED BY <2>2, <3>1, <3>3
  <2> QED BY <2>1, <2>2, PublishReaches
<1> DEFINE reached == Termini.multicast + (IF Termini.anycast = 0 THEN 0 ELSE 1)
<1>8. reached = Cardinality(Recipients)
  BY <1>7 DEF Termini
<1>9. NamedCount = IF Cardinality(subscriptions) = Cardinality(opened) THEN Cardinality(Recipients)
                   ELSE IF reached < Cardinality(opened) THEN reached ELSE Cardinality(opened)
  BY DEF NamedCount
<1> HIDE DEF opened, reached
<1> QED BY <1>3, <1>5, <1>6, <1>8, <1>9

LEMMA OnlyPublishLogs ==
    ASSUME [Next]_vars, log' # log
    PROVE  \E m \in Messages : Publish(m)
BY DEF Next, vars, Subscribe, Receive, CloseReceiver, Drain, Unsubscribe, Settle, BeginReturn,
       Requeue, Release, Consumed, BeginClose, Close

Forecast ==
    log' # log /\ (\A s \in Subscriptions : Attached(s) => Takes(s))
        => LET reached == {s \in Subscriptions : channel'[s] # channel[s]}
           IN reached = Recipients /\ Cardinality(reached) = NamedCount

\* A publish reaches exactly the subscriptions that Recipients names for it just
\* before, and as many as the harness is told of, whoever has detached before,
\* while nobody is detaching: the turn is read and advanced in one step.
THEOREM ForecastsHold == Spec => ForecastHolds
<1>1. IInv /\ [Next]_vars => [Forecast]_vars
  <2> SUFFICES ASSUME IInv, [Next]_vars, log' # log,
                      \A s \in Subscriptions : Attached(s) => Takes(s)
               PROVE  Reached = Recipients /\ Cardinality(Reached) = NamedCount
    BY DEF Forecast, Reached
  <2>1. PICK m \in Messages : Publish(m)
    BY OnlyPublishLogs
  <2>2. Reached = Recipients
    BY <2>1, PublishReaches
  <2> QED BY <2>1, <2>2, NamedIsReached
<1> QED BY <1>1, Invariance, PTL DEF Spec, ForecastHolds, Forecast

=============================================================================
