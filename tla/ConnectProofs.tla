---------------------------- MODULE ConnectProofs ----------------------------
(***************************************************************************)
(* Proofs about Connect, for any number of clones and any URLs, profiles   *)
(* and settings.                                                           *)
(***************************************************************************)
EXTENDS Connect, TLAPS

LiveLink(c) == [kind |-> "live", by |-> c]

\* A clone dials exactly while it fills the cell, and the cell it fills is empty.
FillerDials ==
    /\ \A c \in Clones : pc[c] \in Dialling <=> filling = c
    /\ filling # Nobody => cell = NoLink

\* A socket is open only for the clone that fills the cell or the one whose
\* connection it holds.
SocketsHeld == \A c \in opened : filling = c \/ cell = LiveLink(c)

\* The login a clone's settings ask for, and the part of it this crate makes.
Asked(c) ==
    IF sasl[c] = "unset" /\ url.userinfo = "none" THEN <<>>
    ELSE <<[mechanism |-> IF sasl[c] = "unset" THEN "plain" ELSE sasl[c],
            covered |-> url.scheme = "amqps"]>>

\* The login that this crate makes.
OwnLogin == <<[mechanism |-> "external", covered |-> TRUE]>>

\* How far the login of a dialling clone is.
LoginUnderWay ==
    \A c \in Clones :
        /\ pc[c] \in {"idle", "queued", "socket", "tls", "mechanisms"} => logins[c] = <<>>
        /\ pc[c] \in Dialling => SchemeFits(c)
        /\ pc[c] \in {"mechanisms", "outcome"} => External(c)
        /\ pc[c] = "outcome" => logins[c] = OwnLogin
        /\ pc[c] = "open" => logins[c] = IF External(c) THEN OwnLogin ELSE <<>>
        /\ pc[c] = "session" => logins[c] = Asked(c)

\* The login of the connection in the cell.
LoggedIn == \A c \in Clones : cell = LiveLink(c) => logins[c] = Asked(c)

IInv ==
    /\ TypeOK
    /\ FillerDials
    /\ SocketsHeld
    /\ LoginUnderWay
    /\ LoggedIn
    /\ ConnectedAsCalled

-----------------------------------------------------------------------------
(* Logins and links. *)

LEMMA MadeLinks ==
    ASSUME NEW c \in Clones
    PROVE  /\ [kind |-> "live", by |-> c] \in Link
           /\ [kind |-> "inprocess", by |-> c] \in Link
BY DEF Link

LEMMA NoLinkIsNotLive == \A c \in Clones : NoLink # LiveLink(c)
BY DEF NoLink, LiveLink

LEMMA LinkThatIs ==
    ASSUME NEW l \in Link \cup {NoLink}, l.kind # "none"
    PROVE  l \in Link
BY DEF NoLink

LEMMA SaysTyped ==
    ASSUME TypeOK, NEW c \in Clones,
           NEW mechanism \in {"anonymous", "plain", "external"}, Says(c, mechanism)
    PROVE  logins' \in [Clones -> Seq(Login)]
<1> DEFINE login == [mechanism |-> mechanism, covered |-> Connector(c)]
<1>1. login \in Login
  <2>1. Connector(c) \in BOOLEAN
    BY DEF Connector
  <2> QED BY <2>1 DEF Login
<1> HIDE DEF login
<1>2. logins \in [Clones -> Seq(Login)]
  BY DEF TypeOK
<1>3. Append(logins[c], login) \in Seq(Login)
  BY <1>1, <1>2
<1>4. logins' = [logins EXCEPT ![c] = Append(logins[c], login)]
  BY DEF Says, login
<1> QED BY <1>2, <1>3, <1>4

LEMMA SaysFirst ==
    ASSUME TypeOK, NEW c \in Clones, NEW mechanism, Says(c, mechanism),
           logins[c] = <<>>
    PROVE  logins' = [logins EXCEPT ![c] =
                        <<[mechanism |-> mechanism, covered |-> Connector(c)]>>]
<1> DEFINE login == [mechanism |-> mechanism, covered |-> Connector(c)]
<1>1. logins' = [logins EXCEPT ![c] = Append(logins[c], login)]
  BY DEF Says
<1> HIDE DEF login
<1>2. Append(<<>>, login) = <<login>>
  OBVIOUS
<1>3. logins' = [logins EXCEPT ![c] = <<login>>]
  BY <1>1, <1>2
<1> QED BY <1>3 DEF login

-----------------------------------------------------------------------------
(* What the parts of a step leave typed. *)

States == Dialling \cup {"idle", "queued", "done", "dropped"}
Outcomes == {"none", "ok", "test", "settings", "connect", "session", "inprocess", "live"}

LEMMA GotoTyped ==
    ASSUME TypeOK, NEW c \in Clones, NEW where \in States, Goto(c, where)
    PROVE  pc' \in [Clones -> States]
BY DEF TypeOK, States, Goto

LEMMA ResultTyped ==
    ASSUME TypeOK, NEW c \in Clones, NEW what \in Outcomes,
           result' = [result EXCEPT ![c] = what]
    PROVE  result' \in [Clones -> Outcomes]
BY DEF TypeOK, Outcomes

LEMMA LinkTyped ==
    ASSUME TypeOK, NEW c \in Clones, NEW l \in Link \cup {NoLink},
           link' = [link EXCEPT ![c] = l]
    PROVE  link' \in [Clones -> Link \cup {NoLink}]
BY DEF TypeOK

-----------------------------------------------------------------------------
(* A connect that fails, and one lemma per action: it keeps the invariant. *)

LEMMA FailsKeeps ==
    ASSUME IInv, NEW c \in Clones, pc[c] \in Dialling \cup {"queued"},
           NEW what \in {"settings", "connect", "session"}, Fails(c, what),
           UNCHANGED <<config, shut>>
    PROVE  IInv'
<1> USE ConnectAssumption DEF config, wire, Goto, Fails, Frees
<1>1. TypeOK'
  BY DEF IInv, TypeOK, Dialling
<1>2. FillerDials'
  BY DEF IInv, TypeOK, FillerDials, Dialling
<1>3. SocketsHeld'
  BY DEF IInv, TypeOK, FillerDials, SocketsHeld, LiveLink, NoLink, Dialling
<1>4. LoginUnderWay'
  BY DEF IInv, TypeOK, FillerDials, LoginUnderWay, SchemeFits, External, Connector,
         Profile, Asked, Dialling
<1>5. LoggedIn'
  BY DEF IInv, TypeOK, FillerDials, LoggedIn, LiveLink, NoLink, Asked, Dialling
<1>6. ConnectedAsCalled'
  BY DEF IInv, TypeOK, FillerDials, ConnectedAsCalled, NoLink, Link, Dialling
<1> QED BY <1>1, <1>2, <1>3, <1>4, <1>5, <1>6 DEF IInv

LEMMA ConnectKeeps ==
    ASSUME IInv, NEW c \in Clones, Connect(c)
    PROVE  IInv'
<1> USE ConnectAssumption DEF config, wire, Goto, Connect
<1>1. TypeOK'
  BY DEF IInv, TypeOK, Dialling
<1>2. FillerDials'
  BY DEF IInv, TypeOK, FillerDials, Dialling
<1>3. SocketsHeld'
  BY DEF IInv, TypeOK, FillerDials, SocketsHeld, LiveLink, NoLink, Dialling
<1>4. LoginUnderWay'
  BY DEF IInv, TypeOK, FillerDials, LoginUnderWay, SchemeFits, External, Connector,
         Profile, Asked, Dialling
<1>5. LoggedIn'
  BY DEF IInv, TypeOK, FillerDials, LoggedIn, LiveLink, NoLink, Asked, Dialling
<1>6. ConnectedAsCalled'
  BY DEF IInv, TypeOK, FillerDials, ConnectedAsCalled, NoLink, Link, Dialling
<1> QED BY <1>1, <1>2, <1>3, <1>4, <1>5, <1>6 DEF IInv

LEMMA StartKeeps ==
    ASSUME IInv, NEW c \in Clones, Start(c)
    PROVE  IInv'
<1> USE ConnectAssumption DEF config, wire, Goto, Start, Free, SettingsRefused
<1>1. CASE Fails(c, "settings")
  BY <1>1, FailsKeeps DEF Start, Dialling
<1>2. CASE ~SettingsRefused(c)
  <2>1. TypeOK'
    <3>1. \E where \in States : Goto(c, where)
      BY <1>2 DEF States, Dialling
    <3>2. pc' \in [Clones -> States]
      BY <3>1, GotoTyped DEF IInv
    <3> HIDE DEF Goto
    <3> QED BY <1>2, <3>2 DEF IInv, TypeOK, States
  <2>2. FillerDials'
    BY <1>2 DEF IInv, TypeOK, FillerDials, Dialling
  <2>3. SocketsHeld'
    <3>1. filling = Nobody /\ cell = NoLink /\ UNCHANGED <<opened, cell>>
      BY <1>2
    <3>2. opened = {}
      BY <3>1, NoLinkIsNotLive DEF IInv, TypeOK, SocketsHeld
    <3> QED BY <3>1, <3>2 DEF SocketsHeld
  <2>4. LoginUnderWay'
    BY <1>2 DEF IInv, TypeOK, FillerDials, LoginUnderWay, SchemeFits, External, Connector,
         Profile, Asked, Dialling
  <2>5. LoggedIn'
    BY <1>2 DEF IInv, TypeOK, FillerDials, LoggedIn, LiveLink, NoLink, Asked, Dialling
  <2>6. ConnectedAsCalled'
    BY <1>2 DEF IInv, TypeOK, FillerDials, ConnectedAsCalled, NoLink, Link, Dialling
  <2> QED BY <2>1, <2>2, <2>3, <2>4, <2>5, <2>6 DEF IInv
<1> QED BY <1>1, <1>2 DEF Start

LEMMA DialKeeps ==
    ASSUME IInv, NEW c \in Clones, Dial(c)
    PROVE  IInv'
<1> USE ConnectAssumption DEF config, wire, Goto, Dial, Proceeds
<1>1. CASE Fails(c, "connect")
  BY <1>1, FailsKeeps DEF Dial, Dialling
<1>2. CASE ~Fails(c, "connect")
  <2>1. TypeOK'
    <3>1. \E where \in States : Goto(c, where)
      BY <1>2 DEF States, Dialling
    <3>2. pc' \in [Clones -> States]
      BY <3>1, GotoTyped DEF IInv
    <3> HIDE DEF Goto
    <3> QED BY <1>2, <3>2 DEF IInv, TypeOK, States
  <2>2. FillerDials'
    BY <1>2 DEF IInv, TypeOK, FillerDials, Dialling
  <2>3. SocketsHeld'
    <3>1. filling = c /\ cell = NoLink /\ filling' = filling /\ cell' = cell
      BY <1>2 DEF IInv, FillerDials, Dialling
    <3>2. opened' \subseteq opened \cup {c}
      BY <1>2
    <3> HIDE DEF Goto, Dial, Proceeds
    <3> QED BY <3>1, <3>2, NoLinkIsNotLive DEF IInv, TypeOK, SocketsHeld
  <2>4. LoginUnderWay'
    BY <1>2 DEF IInv, TypeOK, FillerDials, LoginUnderWay, SchemeFits, External, Connector,
         Profile, Asked, Dialling
  <2>5. LoggedIn'
    BY <1>2 DEF IInv, TypeOK, FillerDials, LoggedIn, LiveLink, NoLink, Asked, Dialling
  <2>6. ConnectedAsCalled'
    BY <1>2 DEF IInv, TypeOK, FillerDials, ConnectedAsCalled, NoLink, Link, Dialling
  <2> QED BY <2>1, <2>2, <2>3, <2>4, <2>5, <2>6 DEF IInv
<1> QED BY <1>1, <1>2 DEF Dial

LEMMA EstablishKeeps ==
    ASSUME IInv, NEW c \in Clones, Establish(c)
    PROVE  IInv'
<1> USE ConnectAssumption DEF config, wire, Goto, Establish, Proceeds
<1>1. CASE Fails(c, "connect")
  BY <1>1, FailsKeeps DEF Establish, Dialling
<1>2. CASE ~Fails(c, "connect")
  <2>1. TypeOK'
    <3>1. \E where \in States : Goto(c, where)
      BY <1>2 DEF States, Dialling
    <3>2. pc' \in [Clones -> States]
      BY <3>1, GotoTyped DEF IInv
    <3> HIDE DEF Goto
    <3> QED BY <1>2, <3>2 DEF IInv, TypeOK, States
  <2>2. FillerDials'
    BY <1>2 DEF IInv, TypeOK, FillerDials, Dialling
  <2>3. SocketsHeld'
    BY <1>2 DEF IInv, TypeOK, FillerDials, SocketsHeld, LiveLink, NoLink, Dialling
  <2>4. LoginUnderWay'
    BY <1>2 DEF IInv, TypeOK, FillerDials, LoginUnderWay, SchemeFits, External, Connector,
         Profile, Asked, Dialling
  <2>5. LoggedIn'
    BY <1>2 DEF IInv, TypeOK, FillerDials, LoggedIn, LiveLink, NoLink, Asked, Dialling
  <2>6. ConnectedAsCalled'
    BY <1>2 DEF IInv, TypeOK, FillerDials, ConnectedAsCalled, NoLink, Link, Dialling
  <2> QED BY <2>1, <2>2, <2>3, <2>4, <2>5, <2>6 DEF IInv
<1> QED BY <1>1, <1>2 DEF Establish

LEMMA OfferedKeeps ==
    ASSUME IInv, NEW c \in Clones, Offered(c)
    PROVE  IInv'
<1> USE ConnectAssumption DEF config, wire, Goto, Offered, Proceeds, Says
<1>1. CASE Fails(c, "connect")
  BY <1>1, FailsKeeps DEF Offered, Dialling
<1>2. CASE ~Fails(c, "connect")
  <2>1. TypeOK'
    <3>1. Says(c, "external")
      BY <1>2
    <3>2. logins' \in [Clones -> Seq(Login)]
      BY <3>1, SaysTyped DEF IInv
    <3>3. pc' \in [Clones -> States]
      BY <1>2, GotoTyped DEF IInv, States, Dialling
    <3> HIDE DEF Goto, Says
    <3> QED BY <1>2, <3>2, <3>3 DEF IInv, TypeOK, States
  <2>2. FillerDials'
    BY <1>2 DEF IInv, TypeOK, FillerDials, Dialling
  <2>3. SocketsHeld'
    BY <1>2 DEF IInv, TypeOK, FillerDials, SocketsHeld, LiveLink, NoLink, Dialling
  <2>4. LoginUnderWay'
    <3>1. logins[c] = <<>> /\ External(c) /\ Connector(c)
      BY DEF IInv, LoginUnderWay, External
    <3>2. logins' = [logins EXCEPT ![c] = OwnLogin]
      BY <1>2, <3>1, SaysFirst DEF IInv, OwnLogin
    <3> HIDE DEF Says
    <3> QED BY <1>2, <3>1, <3>2 DEF IInv, TypeOK, LoginUnderWay, SchemeFits, External,
                     Connector, Profile, Asked, Dialling
  <2>5. LoggedIn'
    BY <1>2 DEF IInv, TypeOK, FillerDials, LoggedIn, LiveLink, NoLink, Asked, Dialling
  <2>6. ConnectedAsCalled'
    BY <1>2 DEF IInv, TypeOK, FillerDials, ConnectedAsCalled, NoLink, Link, Dialling
  <2> QED BY <2>1, <2>2, <2>3, <2>4, <2>5, <2>6 DEF IInv
<1> QED BY <1>1, <1>2 DEF Offered

LEMMA OutcomeKeeps ==
    ASSUME IInv, NEW c \in Clones, Outcome(c)
    PROVE  IInv'
<1> USE ConnectAssumption DEF config, wire, Goto, Outcome, Proceeds
<1>1. CASE Fails(c, "connect")
  BY <1>1, FailsKeeps DEF Outcome, Dialling
<1>2. CASE ~Fails(c, "connect")
  <2>1. TypeOK'
    <3>1. \E where \in States : Goto(c, where)
      BY <1>2 DEF States, Dialling
    <3>2. pc' \in [Clones -> States]
      BY <3>1, GotoTyped DEF IInv
    <3> HIDE DEF Goto
    <3> QED BY <1>2, <3>2 DEF IInv, TypeOK, States
  <2>2. FillerDials'
    BY <1>2 DEF IInv, TypeOK, FillerDials, Dialling
  <2>3. SocketsHeld'
    BY <1>2 DEF IInv, TypeOK, FillerDials, SocketsHeld, LiveLink, NoLink, Dialling
  <2>4. LoginUnderWay'
    BY <1>2 DEF IInv, TypeOK, FillerDials, LoginUnderWay, SchemeFits, External, Connector,
         Profile, Asked, Dialling
  <2>5. LoggedIn'
    BY <1>2 DEF IInv, TypeOK, FillerDials, LoggedIn, LiveLink, NoLink, Asked, Dialling
  <2>6. ConnectedAsCalled'
    BY <1>2 DEF IInv, TypeOK, FillerDials, ConnectedAsCalled, NoLink, Link, Dialling
  <2> QED BY <2>1, <2>2, <2>3, <2>4, <2>5, <2>6 DEF IInv
<1> QED BY <1>1, <1>2 DEF Outcome

LEMMA OpenKeeps ==
    ASSUME IInv, NEW c \in Clones, Open(c)
    PROVE  IInv'
<1> USE ConnectAssumption DEF config, wire, Goto, Open, Proceeds, Says
<1>1. CASE Fails(c, "connect")
  BY <1>1, FailsKeeps DEF Open, Dialling
<1>2. CASE ~Fails(c, "connect")
  <2>1. TypeOK'
    <3>1. logins' \in [Clones -> Seq(Login)]
      <4>1. CASE ClientProfile(c) = "none"
        BY <1>2, <4>1 DEF IInv, TypeOK
      <4>2. CASE ClientProfile(c) # "none"
        <5>1. ClientProfile(c) \in {"anonymous", "plain", "external"}
          BY <4>2 DEF IInv, TypeOK, ClientProfile, Profile
        <5>2. Says(c, ClientProfile(c))
          BY <1>2, <4>2
        <5> QED BY <5>1, <5>2, SaysTyped DEF IInv
      <4> QED BY <4>1, <4>2
    <3>2. pc' \in [Clones -> States]
      BY <1>2, GotoTyped DEF IInv, States, Dialling
    <3> HIDE DEF Goto, Says
    <3> QED BY <1>2, <3>1, <3>2 DEF IInv, TypeOK, States
  <2>2. FillerDials'
    BY <1>2 DEF IInv, TypeOK, FillerDials, Dialling
  <2>3. SocketsHeld'
    BY <1>2 DEF IInv, TypeOK, FillerDials, SocketsHeld, LiveLink, NoLink, Dialling
  <2>4. LoginUnderWay'
    <3>1. pc[c] = "open" /\ SchemeFits(c)
      BY DEF IInv, LoginUnderWay, Dialling
    <3>2. logins' = [logins EXCEPT ![c] = Asked(c)]
      <4>1. CASE External(c)
        <5>1. logins[c] = OwnLogin
          BY <3>1, <4>1 DEF IInv, LoginUnderWay
        <5>2. Asked(c) = OwnLogin
          BY <3>1, <4>1 DEF Asked, OwnLogin, External, Profile, Connector, SchemeFits
        <5> QED BY <1>2, <4>1, <5>1, <5>2 DEF IInv, TypeOK, ClientProfile
      <4>2. CASE ~External(c)
        <5>1. logins[c] = <<>>
          BY <3>1, <4>2 DEF IInv, LoginUnderWay
        <5>2. CASE Profile(c) = "none"
          <6>1. Asked(c) = <<>>
            BY <5>2 DEF IInv, TypeOK, Asked, Profile
          <6> QED BY <1>2, <4>2, <5>1, <5>2, <6>1 DEF IInv, TypeOK, ClientProfile
        <5>3. CASE Profile(c) # "none"
          <6>1. Says(c, Profile(c))
            BY <1>2, <4>2, <5>3 DEF ClientProfile
          <6>2. Asked(c) = <<[mechanism |-> Profile(c), covered |-> Connector(c)]>>
            <7>1. Connector(c) = (url.scheme = "amqps")
              BY <3>1 DEF Connector, SchemeFits
            <7>2. ~(sasl[c] = "unset" /\ url.userinfo = "none")
              BY <5>3 DEF Profile
            <7>3. Profile(c) = IF sasl[c] = "unset" THEN "plain" ELSE sasl[c]
              BY <7>2 DEF Profile
            <7> QED BY <7>1, <7>2, <7>3 DEF Asked
          <6> QED BY <5>1, <6>1, <6>2, SaysFirst DEF IInv
        <5> QED BY <5>2, <5>3
      <4> QED BY <4>1, <4>2
    <3> HIDE DEF Says
    <3> QED BY <1>2, <3>1, <3>2 DEF IInv, TypeOK, LoginUnderWay, SchemeFits, External,
                     Connector, Profile, Asked, Dialling
  <2>5. LoggedIn'
    BY <1>2 DEF IInv, TypeOK, FillerDials, LoggedIn, LiveLink, NoLink, Asked, Dialling
  <2>6. ConnectedAsCalled'
    BY <1>2 DEF IInv, TypeOK, FillerDials, ConnectedAsCalled, NoLink, Link, Dialling
  <2> QED BY <2>1, <2>2, <2>3, <2>4, <2>5, <2>6 DEF IInv
<1> QED BY <1>1, <1>2 DEF Open

LEMMA BeginSessionKeeps ==
    ASSUME IInv, NEW c \in Clones, BeginSession(c)
    PROVE  IInv'
<1> USE ConnectAssumption DEF config, wire, Goto, BeginSession, Connected, Frees
<1>1. CASE Fails(c, "session")
  BY <1>1, FailsKeeps DEF BeginSession, Dialling
<1>2. CASE ~Fails(c, "session")
  <2>1. TypeOK'
    <3>1. cell' \in Link
      BY <1>2, MadeLinks
    <3>2. link' = [link EXCEPT ![c] = cell']
      BY <1>2
    <3>3. pc' \in [Clones -> States]
      BY <1>2, GotoTyped DEF IInv, States
    <3>4. result' \in [Clones -> Outcomes]
      BY <1>2, ResultTyped DEF IInv, Outcomes
    <3>5. filling' \in Clones \cup {Nobody}
      BY <1>2 DEF IInv, TypeOK, Frees
    <3>6. UNCHANGED <<url, sasl, tls, opened, logins, shut>>
      BY <1>2
    <3> HIDE DEF BeginSession, Connected, Goto, config, wire
    <3> QED BY <3>1, <3>2, <3>3, <3>4, <3>5, <3>6 DEF IInv, TypeOK, States, Outcomes
  <2>2. FillerDials'
    BY <1>2 DEF IInv, TypeOK, FillerDials, Dialling
  <2>3. SocketsHeld'
    BY <1>2 DEF IInv, TypeOK, FillerDials, SocketsHeld, LiveLink, NoLink, Dialling
  <2>4. LoginUnderWay'
    BY <1>2 DEF IInv, TypeOK, FillerDials, LoginUnderWay, SchemeFits, External, Connector,
         Profile, Asked, Dialling
  <2>5. LoggedIn'
    <3>1. logins[c] = Asked(c)
      BY DEF IInv, LoginUnderWay
    <3>2. cell' = LiveLink(c) /\ logins' = logins
      BY <1>2 DEF LiveLink
    <3>3. \A d \in Clones : LiveLink(d) = LiveLink(c) => d = c
      BY DEF LiveLink
    <3> QED BY <3>1, <3>2, <3>3 DEF LoggedIn, Asked
  <2>6. ConnectedAsCalled'
    BY <1>2 DEF IInv, TypeOK, FillerDials, ConnectedAsCalled, NoLink, Link, Dialling
  <2> QED BY <2>1, <2>2, <2>3, <2>4, <2>5, <2>6 DEF IInv
<1> QED BY <1>1, <1>2 DEF BeginSession

LEMMA FoundKeeps ==
    ASSUME IInv, NEW c \in Clones, Found(c)
    PROVE  IInv'
<1> USE ConnectAssumption DEF config, wire, Found, Goto, Connected, Usable
<1>1. TypeOK'
  <2>1. link' \in [Clones -> Link \cup {NoLink}]
    BY DEF IInv, TypeOK
  <2>2. pc' \in [Clones -> States]
    BY GotoTyped DEF IInv, States
  <2>4. result' \in [Clones -> Outcomes]
    <3>1. \E what \in Outcomes : result' = [result EXCEPT ![c] = what]
      BY DEF Outcomes
    <3> QED BY <3>1, ResultTyped DEF IInv
  <2>3. UNCHANGED <<url, sasl, tls, cell, filling, opened, logins, shut>>
    OBVIOUS
  <2> HIDE DEF Found, Connected, Goto, Usable, config, wire
  <2> QED BY <2>1, <2>2, <2>3, <2>4 DEF IInv, TypeOK, States, Outcomes
<1>2. FillerDials'
  BY DEF IInv, TypeOK, FillerDials, Dialling
<1>3. SocketsHeld'
  BY DEF IInv, TypeOK, FillerDials, SocketsHeld, LiveLink, NoLink, Dialling
<1>4. LoginUnderWay'
  BY DEF IInv, TypeOK, FillerDials, LoginUnderWay, SchemeFits, External, Connector,
         Profile, Asked, Dialling
<1>5. LoggedIn'
  BY DEF IInv, TypeOK, FillerDials, LoggedIn, LiveLink, NoLink, Asked, Dialling
<1>6. ConnectedAsCalled'
  <2>1. CASE cell.kind = "live"
    BY <2>1 DEF IInv, TypeOK, ConnectedAsCalled
  <2>2. CASE cell.kind # "live"
    BY <2>2 DEF IInv, TypeOK, ConnectedAsCalled
  <2> QED BY <2>1, <2>2
<1> QED BY <1>1, <1>2, <1>3, <1>4, <1>5, <1>6 DEF IInv

LEMMA AbandonKeeps ==
    ASSUME IInv, NEW c \in Clones, Abandon(c)
    PROVE  IInv'
<1> USE ConnectAssumption DEF config, wire, Abandon, Goto, Frees
<1>1. TypeOK'
  BY DEF IInv, TypeOK, Dialling
<1>2. FillerDials'
  BY DEF IInv, TypeOK, FillerDials, Dialling
<1>3. SocketsHeld'
  BY DEF IInv, TypeOK, FillerDials, SocketsHeld, LiveLink, NoLink, Dialling
<1>4. LoginUnderWay'
  BY DEF IInv, TypeOK, FillerDials, LoginUnderWay, SchemeFits, External, Connector,
         Profile, Asked, Dialling
<1>5. LoggedIn'
  BY DEF IInv, TypeOK, FillerDials, LoggedIn, LiveLink, NoLink, Asked, Dialling
<1>6. ConnectedAsCalled'
  BY DEF IInv, TypeOK, FillerDials, ConnectedAsCalled, NoLink, Link, Dialling
<1> QED BY <1>1, <1>2, <1>3, <1>4, <1>5, <1>6 DEF IInv

LEMMA ConnectInProcessKeeps ==
    ASSUME IInv, NEW c \in Clones, ConnectInProcess(c)
    PROVE  IInv'
<1> USE ConnectAssumption DEF config, wire, ConnectInProcess, Goto, Connected
<1>1. TypeOK'
  <2> DEFINE fresh == [kind |-> "inprocess", by |-> c]
  <2>1. fresh \in Link
    BY MadeLinks
  <2>2. /\ cell' \in {cell, fresh}
        /\ link' = link \/ \E l \in {cell', fresh} : link' = [link EXCEPT ![c] = l]
    OBVIOUS
  <2>3. UNCHANGED <<url, sasl, tls, filling, opened, logins, shut>>
    OBVIOUS
  <2>4. pc' \in [Clones -> States]
    BY GotoTyped DEF IInv, States
  <2>7. result' \in [Clones -> Outcomes]
    <3>1. \E what \in Outcomes : result' = [result EXCEPT ![c] = what]
      BY DEF Outcomes
    <3> QED BY <3>1, ResultTyped DEF IInv
  <2> HIDE DEF fresh, ConnectInProcess, Connected, Goto, config, wire
  <2>5. cell \in Link \cup {NoLink} /\ link \in [Clones -> Link \cup {NoLink}]
    BY DEF IInv, TypeOK
  <2>6. cell' \in Link \cup {NoLink} /\ link' \in [Clones -> Link \cup {NoLink}]
    BY <2>1, <2>2, <2>5
  <2> QED BY <2>3, <2>4, <2>6, <2>7 DEF IInv, TypeOK, States, Outcomes
<1>2. FillerDials'
  BY DEF IInv, TypeOK, FillerDials, Dialling
<1>3. SocketsHeld'
  BY DEF IInv, TypeOK, FillerDials, SocketsHeld, LiveLink, NoLink, Dialling
<1>4. LoginUnderWay'
  BY DEF IInv, TypeOK, FillerDials, LoginUnderWay, SchemeFits, External, Connector,
         Profile, Asked, Dialling
<1>5. LoggedIn'
  BY DEF IInv, TypeOK, FillerDials, LoggedIn, LiveLink, NoLink, Asked, Dialling
<1>6. ConnectedAsCalled'
  <2>1. CASE TestRefused(c) \/ cell.kind = "live"
    BY <2>1 DEF IInv, TypeOK, ConnectedAsCalled
  <2>2. CASE ~(TestRefused(c) \/ cell.kind = "live")
    <3>1. /\ result' = [result EXCEPT ![c] = "test"]
          /\ \E l : /\ l.kind = "inprocess"
                    /\ l = cell' \/ l.by = c
                    /\ link' = [link EXCEPT ![c] = l]
      BY <2>2
    <3>2. cell' = cell \/ cell.kind = "none"
      BY <2>2 DEF NoLink
    <3> HIDE DEF ConnectInProcess, Connected
    <3> QED BY <3>1, <3>2 DEF IInv, TypeOK, ConnectedAsCalled
  <2> QED BY <2>1, <2>2
<1> QED BY <1>1, <1>2, <1>3, <1>4, <1>5, <1>6 DEF IInv

LEMMA ShutdownKeeps ==
    ASSUME IInv, NEW c \in Clones, Shutdown(c)
    PROVE  IInv'
<1> USE ConnectAssumption DEF config, wire, Shutdown
<1>1. TypeOK'
  <2>1. link[c] \in Link
    <3>1. link[c].kind # "none"
      BY DEF IInv, ConnectedAsCalled
    <3> QED BY <3>1, LinkThatIs DEF IInv, TypeOK
  <2> QED BY <2>1 DEF IInv, TypeOK
<1>2. FillerDials'
  BY DEF IInv, TypeOK, FillerDials, Dialling
<1>3. SocketsHeld'
  BY DEF IInv, TypeOK, FillerDials, SocketsHeld, LiveLink, NoLink, Dialling
<1>4. LoginUnderWay'
  BY DEF IInv, TypeOK, FillerDials, LoginUnderWay, SchemeFits, External, Connector,
         Profile, Asked, Dialling
<1>5. LoggedIn'
  BY DEF IInv, TypeOK, FillerDials, LoggedIn, LiveLink, NoLink, Asked, Dialling
<1>6. ConnectedAsCalled'
  BY DEF IInv, TypeOK, FillerDials, ConnectedAsCalled, NoLink, Link, Dialling
<1> QED BY <1>1, <1>2, <1>3, <1>4, <1>5, <1>6 DEF IInv

-----------------------------------------------------------------------------
(* The invariant, and what follows from it. *)

LEMMA InitHolds == Init => IInv
<1> SUFFICES ASSUME Init PROVE IInv
  OBVIOUS
<1> USE ConnectAssumption DEF Init
<1>1. TypeOK
  BY DEF TypeOK, Dialling
<1>2. FillerDials /\ SocketsHeld
  BY DEF FillerDials, SocketsHeld, Dialling
<1>3. LoginUnderWay /\ LoggedIn
  BY DEF LoginUnderWay, LoggedIn, LiveLink, NoLink, Dialling
<1>4. ConnectedAsCalled
  BY DEF ConnectedAsCalled
<1> QED BY <1>1, <1>2, <1>3, <1>4 DEF IInv

LEMMA StepKeeps == IInv /\ [Next]_vars => IInv'
<1> SUFFICES ASSUME IInv, [Next]_vars PROVE IInv'
  OBVIOUS
<1>1. CASE UNCHANGED vars
  BY <1>1 DEF IInv, TypeOK, FillerDials, SocketsHeld, LoginUnderWay, LoggedIn, Asked,
              SchemeFits, External, Connector, Profile, LiveLink, ConnectedAsCalled,
              vars, config, wire
<1>2. CASE \E c \in Clones : Dials(c)
  BY <1>2, StartKeeps, DialKeeps, EstablishKeeps, OfferedKeeps, OutcomeKeeps, OpenKeeps,
     BeginSessionKeeps, FoundKeeps DEF Dials
<1>3. CASE \E c \in Clones : Connect(c) \/ Abandon(c) \/ ConnectInProcess(c) \/ Shutdown(c)
  BY <1>3, ConnectKeeps, AbandonKeeps, ConnectInProcessKeeps, ShutdownKeeps
<1> QED BY <1>1, <1>2, <1>3 DEF Next

\* The invariant is inductive, and holds of every reachable state.
THEOREM Invariance == Spec => []IInv
BY InitHolds, StepKeeps, PTL DEF Spec

\* Every variable keeps its type.
THEOREM TypeCorrect == Spec => []TypeOK
<1>1. IInv => TypeOK
  BY DEF IInv
<1> QED BY <1>1, Invariance, PTL

\* However many clones connect, fail, are dropped and are shut down, at most one
\* socket is open, and none beside the connection in the cell.
THEOREM SocketsAreOne == Spec => []OneConnection
<1>1. ASSUME IInv PROVE OneConnection
  <2>1. ASSUME NEW c \in Clones, filling = c
        PROVE  /\ pc[c] \in Dialling
               /\ \A d \in Clones : cell # LiveLink(d)
    BY <1>1, <2>1, ConnectAssumption DEF IInv, FillerDials, LiveLink, NoLink
  <2>2. ASSUME NEW c \in Clones, NEW d \in Clones, LiveLink(c) = LiveLink(d)
        PROVE  c = d
    BY <2>2 DEF LiveLink
  <2>3. \A c \in opened : c \in Clones /\ (filling = c \/ cell = LiveLink(c))
    BY <1>1 DEF IInv, TypeOK, SocketsHeld
  <2> QED BY <2>1, <2>2, <2>3 DEF OneConnection, LiveLink
<1> QED BY <1>1, Invariance, PTL

\* The connection in the cell is logged in once, with the profile its clone asked
\* for, under TLS where the URL says so, but for EXTERNAL on a URL without TLS.
THEOREM LoginsAreAsAsked == Spec => []LoggedInAsAsked
<1>1. ASSUME IInv PROVE LoggedInAsAsked
  BY <1>1 DEF IInv, LoggedIn, LiveLink, Asked, LoggedInAsAsked, ExternalUncovered
<1> QED BY <1>1, Invariance, PTL

\* A clone that called connect is connected over the socket in the cell, and one
\* that called connect_in_process over an in-process transport.
THEOREM LinksAreAsCalled == Spec => []ConnectedAsCalled
<1>1. IInv => ConnectedAsCalled
  BY DEF IInv
<1> QED BY <1>1, Invariance, PTL

-----------------------------------------------------------------------------
(* What a clone is connected or refused for. *)

\* What nothing refuses: neither a connect nor a test.
Accepted(c) == ~SettingsRefused(c) /\ ~TestRefused(c)

\* A dialling clone has passed each check that its step comes after, the connection
\* in the cell passed all of them, and the results agree with the settings.
SettingsRead ==
    \A c \in Clones :
        /\ pc[c] \in Dialling => ~SettingsRefused(c)
        /\ pc[c] \in Dialling \ {"socket"} => url.host # "none"
        /\ pc[c] \in {"mechanisms", "outcome", "open", "session"} /\ Connector(c) =>
              url.host = "domain"
        /\ pc[c] = "session" => url.scheme # "other"
        /\ cell = LiveLink(c) => Accepted(c)
        /\ result[c] = "settings" => ~Accepted(c)
        /\ result[c] = "test" => ~TestRefused(c)

LEMMA ConfigKept ==
    ASSUME [Next]_vars
    PROVE  \A c \in Clones :
               /\ url' = url
               /\ Connector(c)' = Connector(c)
               /\ SettingsRefused(c)' = SettingsRefused(c)
               /\ TestRefused(c)' = TestRefused(c)
               /\ Accepted(c)' = Accepted(c)
<1>1. UNCHANGED <<url, sasl, tls>>
  BY DEF Next, Dials, Connect, Start, Dial, Establish, Offered, Outcome, Open, BeginSession,
         Found, Abandon, ConnectInProcess, Shutdown, vars, config
<1> QED BY <1>1 DEF Connector, SettingsRefused, TestRefused, Accepted, SchemeFits

LEMMA SettingsStayRead ==
    ASSUME IInv, SettingsRead, [Next]_vars
    PROVE  SettingsRead'
<1> USE ConfigKept
<1> USE DEF Goto, Fails, Proceeds, Connected
<1>0. TypeOK
  BY DEF IInv
<1>1. CASE UNCHANGED vars
  BY <1>0, <1>1 DEF SettingsRead, vars, config, wire, LiveLink
<1>2. ASSUME NEW c \in Clones, Connect(c) \/ Abandon(c) \/ Shutdown(c)
      PROVE  SettingsRead'
  BY <1>0, <1>2 DEF SettingsRead, TypeOK, Connect, Abandon, Shutdown, LiveLink, Dialling
<1>3. ASSUME NEW c \in Clones, Start(c)
      PROVE  SettingsRead'
  BY <1>0, <1>3 DEF SettingsRead, TypeOK, Start, LiveLink, Dialling, Accepted
<1>4. ASSUME NEW c \in Clones, Dial(c)
      PROVE  SettingsRead'
  <2>1. CASE Fails(c, "connect")
    BY <1>0, <1>4, <2>1 DEF SettingsRead, TypeOK, Dial, LiveLink, Dialling
  <2>2. CASE ~Fails(c, "connect")
    BY <1>0, <1>4, <2>2 DEF SettingsRead, TypeOK, Dial, LiveLink, Dialling
  <2> QED BY <2>1, <2>2
<1>5. ASSUME NEW c \in Clones, Establish(c)
      PROVE  SettingsRead'
  BY <1>0, <1>5 DEF SettingsRead, TypeOK, Establish, LiveLink, Dialling
<1>6. ASSUME NEW c \in Clones, Offered(c) \/ Outcome(c)
      PROVE  SettingsRead'
  BY <1>0, <1>6 DEF SettingsRead, TypeOK, Offered, Outcome, LiveLink, Dialling
<1>7. ASSUME NEW c \in Clones, Open(c)
      PROVE  SettingsRead'
  BY <1>0, <1>7 DEF SettingsRead, TypeOK, Open, LiveLink, Dialling
<1>8. ASSUME NEW c \in Clones, BeginSession(c)
      PROVE  SettingsRead'
  <2>1. CASE Fails(c, "session")
    BY <1>0, <1>8, <2>1 DEF SettingsRead, TypeOK, BeginSession, LiveLink, Dialling
  <2>2. CASE cell' = LiveLink(c) /\ Connected(c, cell', "ok")
    <3>1. Accepted(c)
      BY <1>8 DEF SettingsRead, BeginSession, Accepted, TestRefused, SettingsRefused,
                  Connector, SchemeFits, Dialling
    <3>2. \A d \in Clones : LiveLink(d) = LiveLink(c) => d = c
      BY DEF LiveLink
    <3> QED BY <1>0, <1>8, <2>2, <3>1, <3>2 DEF SettingsRead, TypeOK, BeginSession, Dialling,
                                                LiveLink
  <2> QED BY <1>8, <2>1, <2>2 DEF BeginSession, LiveLink
<1>9. ASSUME NEW c \in Clones, Found(c)
      PROVE  SettingsRead'
  <2>1. /\ pc' = [pc EXCEPT ![c] = "done"]
        /\ \E what \in {"ok", "inprocess"} : result' = [result EXCEPT ![c] = what]
        /\ cell' = cell
    BY <1>9 DEF Found
  <2> QED BY <1>0, <2>1 DEF SettingsRead, TypeOK, Dialling
<1>10. ASSUME NEW c \in Clones, ConnectInProcess(c)
       PROVE  SettingsRead'
  <2>1. \A d \in Clones : cell' = LiveLink(d) => cell = LiveLink(d)
    BY <1>10 DEF ConnectInProcess, LiveLink
  <2>2. /\ pc' = [pc EXCEPT ![c] = "done"]
        /\ \/ result' = [result EXCEPT ![c] = "settings"] /\ TestRefused(c)
           \/ result' = [result EXCEPT ![c] = "live"]
           \/ result' = [result EXCEPT ![c] = "test"] /\ ~TestRefused(c)
    BY <1>10 DEF ConnectInProcess
  <2> QED BY <1>0, <2>1, <2>2 DEF SettingsRead, TypeOK, Dialling, Accepted
<1> QED BY <1>1, <1>2, <1>3, <1>4, <1>5, <1>6, <1>7, <1>8, <1>9, <1>10 DEF Next, Dials

\* Of two clones set up alike, none is connected by its own connect while the other is
\* refused for its settings, but for what a test does not read.
THEOREM TestsAgree == Spec => []TestAgreesWithService
<1>1. Init => SettingsRead
  <2> SUFFICES ASSUME Init, NEW c \in Clones
               PROVE  pc[c] = "idle" /\ result[c] = "none" /\ cell # LiveLink(c)
    BY DEF SettingsRead, Dialling
  <2> QED BY NoLinkIsNotLive DEF Init
<1>2. ASSUME IInv, SettingsRead
      PROVE  TestAgreesWithService
  <2> SUFFICES ASSUME NEW c \in Clones, NEW d \in Clones,
                      sasl[c] = sasl[d], tls[c] = tls[d],
                      Own(c), result[d] = "settings"
               PROVE  result[c] = "test" /\ (tls[d] = "unusable" \/ url.userinfo = "undecodable")
    BY DEF TestAgreesWithService
  <2>1. ~Accepted(d)
    BY <1>2 DEF SettingsRead
  <2>2. /\ SettingsRefused(c) <=> SettingsRefused(d)
        /\ TestRefused(c) <=> TestRefused(d)
    BY DEF SettingsRefused, TestRefused, SchemeFits
  <2>3. ~Accepted(c)
    BY <2>1, <2>2 DEF Accepted
  <2>4. result[c] = "test"
    <3>1. SUFFICES ASSUME result[c] = "ok", link[c].by = c PROVE FALSE
      BY DEF Own
    <3>2. cell = link[c] /\ cell.kind = "live"
      BY <1>2, <3>1 DEF IInv, ConnectedAsCalled
    <3>3. cell \in Link
      BY <1>2, <3>2, LinkThatIs DEF IInv, TypeOK
    <3>4. cell = LiveLink(c)
      BY <3>1, <3>2, <3>3 DEF Link, LiveLink
    <3> QED BY <1>2, <2>3, <3>4 DEF SettingsRead
  <2>5. ~TestRefused(d) /\ SettingsRefused(d)
    BY <1>2, <2>1, <2>2, <2>4 DEF SettingsRead, Accepted
  <2> QED BY <2>4, <2>5 DEF SettingsRefused, TestRefused
<1> QED BY <1>1, <1>2, SettingsStayRead, Invariance, PTL DEF Spec

=============================================================================
