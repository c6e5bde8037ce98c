------------------------------ MODULE Connect ------------------------------
(***************************************************************************)
(* How the clones of one AmqpBroker connect (broker.rs, config.rs, tls/,    *)
(* in_process/mod.rs): over a socket, with TLS and a SASL login, or in       *)
(* process, into the one cell they and the publishers they handed out share. *)
(*                                                                         *)
(* The clones have one URL, and each its own SASL profile and TLS settings.  *)
(* The build has a TLS feature and the testing feature.  The peer is free to *)
(* refuse every step; what a login sends is kept in `logins`.                *)
(***************************************************************************)
EXTENDS Sequences

CONSTANTS
    Clones,
    Urls,           \* the URLs considered, each a Url
    Profiles,       \* what `sasl` may have been called with, or "unset"
    Settings,       \* what `tls` may have been called with, or "unset"
    Nobody

\* A host is a domain name (or an IPv4 address), an IPv6 address, or missing;
\* userinfo is missing (or has no user or no password), decodes to UTF-8, or
\* does not.
Url == [scheme : {"malformed", "amqp", "amqps", "other"},
        host : {"domain", "ipv6", "none"},
        userinfo : {"none", "plain", "undecodable"}]

ASSUME ConnectAssumption ==
    /\ Urls \subseteq Url
    /\ Profiles \subseteq {"unset", "anonymous", "plain", "external"}
    /\ Settings \subseteq {"unset", "valid", "unusable"}
    /\ Nobody \notin Clones

VARIABLES
    url,        \* the clones' URL
    sasl,       \* each clone's profile
    tls,        \* each clone's TLS settings
    pc,         \* where each clone's connect stands
    cell,       \* the shared cell: an empty Link, or what they speak over
    filling,    \* the clone whose connect fills the cell, or Nobody
    opened,     \* the clones whose socket is open
    logins,     \* the logins made over each clone's socket
    result,     \* what each clone's connect returned
    link,       \* what the connected form of each clone speaks over
    shut        \* the links that were shut down

config == <<url, sasl, tls>>
wire == <<opened, logins>>
vars == <<config, pc, cell, filling, wire, result, link, shut>>

\* A transport: its kind, and whose connect made it.
Link == [kind : {"live", "inprocess"}, by : Clones]
NoLink == [kind |-> "none", by |-> Nobody]

\* A login: its mechanism, and whether TLS covers it.
Login == [mechanism : {"anonymous", "plain", "external"}, covered : BOOLEAN]

Dialling == {"socket", "tls", "mechanisms", "outcome", "open", "session"}

TypeOK ==
    /\ url \in Urls
    /\ sasl \in [Clones -> Profiles]
    /\ tls \in [Clones -> Settings]
    /\ pc \in [Clones -> Dialling \cup {"idle", "queued", "done", "dropped"}]
    /\ cell \in Link \cup {NoLink}
    /\ filling \in Clones \cup {Nobody}
    /\ opened \subseteq Clones
    /\ logins \in [Clones -> Seq(Login)]
    /\ result \in [Clones -> {"none", "ok", "test", "settings", "connect",
                              "session", "inprocess", "live"}]
    /\ link \in [Clones -> Link \cup {NoLink}]
    /\ shut \subseteq Link

Init ==
    /\ url \in Urls
    /\ sasl \in [Clones -> Profiles]
    /\ tls \in [Clones -> Settings]
    /\ pc = [c \in Clones |-> "idle"]
    /\ cell = NoLink
    /\ filling = Nobody
    /\ opened = {}
    /\ logins = [c \in Clones |-> <<>>]
    /\ result = [c \in Clones |-> "none"]
    /\ link = [c \in Clones |-> NoLink]
    /\ shut = {}

Goto(c, where) == pc' = [pc EXCEPT ![c] = where]

-----------------------------------------------------------------------------
(* What the settings ask for.                                              *)

\* TLS settings on a URL that opens no TLS are refused.
SchemeFits(c) == tls[c] # "unset" => url.scheme = "amqps"

\* Whether the connection opens TLS: with the clone's settings, or on an
\* amqps URL with the default ones.
Connector(c) == tls[c] # "unset" \/ url.scheme = "amqps"

\* The profile: the one set, or PLAIN from the URL, or none.
Profile(c) ==
    IF sasl[c] # "unset" THEN sasl[c]
    ELSE IF url.userinfo = "none" THEN "none" ELSE "plain"

\* What is refused before a socket opens.
SettingsRefused(c) ==
    \/ url.scheme = "malformed"
    \/ ~SchemeFits(c)
    \/ tls[c] = "unusable"
    \/ sasl[c] = "unset" /\ url.userinfo = "undecodable"

\* The login this crate makes itself, before the client runs the connection.
External(c) == Connector(c) /\ Profile(c) = "external"

\* Mutant of ClientProfile: the client is given the profile in any case.
ClientProfileAlways(c) == Profile(c)

\* The profile the client is given.
ClientProfile(c) == IF External(c) THEN "none" ELSE Profile(c)

\* Mutant of TestRefused: TLS settings on an amqp URL pass a test.
TestRefusedLess(c) ==
    \/ url.scheme \in {"malformed", "other"}
    \/ url.host = "none"
    \/ url.scheme = "amqps" /\ url.host = "ipv6"

\* What an in-process connect refuses of the URL and the settings.
TestRefused(c) ==
    \/ url.scheme \in {"malformed", "other"}
    \/ url.host = "none"
    \/ url.scheme = "amqps" /\ url.host = "ipv6"
    \/ ~SchemeFits(c)

-----------------------------------------------------------------------------
(* Broker::connect.                                                        *)

Connect(c) ==
    /\ pc[c] = "idle"
    /\ Goto(c, "queued")
    /\ UNCHANGED <<config, cell, filling, wire, result, link, shut>>

\* Mutant of Free: every clone that finds the cell empty dials.
FreeAlways == cell = NoLink

\* One connect at a time fills the cell.
Free == cell = NoLink /\ filling = Nobody

\* Mutant of Frees: a connect that fails keeps its turn.
FreesNever(c) == filling

\* A connect that ends frees the cell for the next one.
Frees(c) == IF filling = c THEN Nobody ELSE filling

\* The connect of c ends with an error, and its socket goes.
Fails(c, what) ==
    /\ result' = [result EXCEPT ![c] = what]
    /\ filling' = Frees(c)
    /\ opened' = opened \ {c}
    /\ Goto(c, "done")
    /\ UNCHANGED <<logins, cell, link>>

\* It goes on dialling.
Proceeds(c, where) ==
    /\ Goto(c, where)
    /\ UNCHANGED <<cell, filling, result, link>>

Start(c) ==
    /\ pc[c] = "queued"
    /\ Free
    /\ IF SettingsRefused(c) THEN Fails(c, "settings")
       ELSE /\ filling' = c
            /\ Goto(c, "socket")
            /\ UNCHANGED <<cell, wire, result, link>>
    /\ UNCHANGED <<config, shut>>

Dial(c) ==
    /\ pc[c] = "socket"
    /\ \/ Fails(c, "connect")
       \/ /\ url.host # "none"
          /\ opened' = opened \cup {c}
          /\ Proceeds(c, IF Connector(c) THEN "tls" ELSE "open")
          /\ UNCHANGED logins
    /\ UNCHANGED <<config, shut>>

\* TLS on the socket, which needs a server name.
Establish(c) ==
    /\ pc[c] = "tls"
    /\ \/ Fails(c, "connect")
       \/ /\ url.host = "domain"
          /\ Proceeds(c, IF External(c) THEN "mechanisms" ELSE "open")
          /\ UNCHANGED wire
    /\ UNCHANGED <<config, shut>>

Says(c, mechanism) ==
    logins' = [logins EXCEPT ![c] = Append(@, [mechanism |-> mechanism,
                                               covered |-> Connector(c)])]

\* The peer offers EXTERNAL, and gets the empty initial response.
Offered(c) ==
    /\ pc[c] = "mechanisms"
    /\ \/ Fails(c, "connect")
       \/ Says(c, "external") /\ Proceeds(c, "outcome") /\ UNCHANGED opened
    /\ UNCHANGED <<config, shut>>

\* The outcome, after any number of challenges answered empty; bytes behind an
\* Ok are an error too.
Outcome(c) ==
    /\ pc[c] = "outcome"
    /\ \/ Fails(c, "connect")
       \/ Proceeds(c, "open") /\ UNCHANGED wire
    /\ UNCHANGED <<config, shut>>

\* The client logs in with the profile it was given and opens the connection;
\* it knows two schemes.
Open(c) ==
    /\ pc[c] = "open"
    /\ \/ Fails(c, "connect")
       \/ /\ url.scheme # "other"
          /\ IF ClientProfile(c) = "none" THEN UNCHANGED logins
             ELSE Says(c, ClientProfile(c))
          /\ Proceeds(c, "session")
          /\ UNCHANGED opened
    /\ UNCHANGED <<config, shut>>

\* c is connected over l: "ok" to a server, "test" in process.
Connected(c, l, what) ==
    /\ result' = [result EXCEPT ![c] = what]
    /\ link' = [link EXCEPT ![c] = l]
    /\ Goto(c, "done")

\* The session begins, and the cell is filled.
BeginSession(c) ==
    /\ pc[c] = "session"
    /\ \/ Fails(c, "session")
       \/ /\ cell' = [kind |-> "live", by |-> c]
          /\ filling' = Frees(c)
          /\ Connected(c, cell', "ok")
          /\ UNCHANGED wire
    /\ UNCHANGED <<config, shut>>

\* Mutant of Usable: whatever the cell holds.
UsableAny(l) == TRUE

Usable(l) == l.kind = "live"

\* The cell was filled by another: its connection is shared, shut down or not,
\* and the in-process transport is refused.
Found(c) ==
    /\ pc[c] = "queued"
    /\ cell # NoLink
    /\ IF Usable(cell) THEN Connected(c, cell, "ok")
       ELSE /\ result' = [result EXCEPT ![c] = "inprocess"]
            /\ Goto(c, "done")
            /\ UNCHANGED link
    /\ UNCHANGED <<config, cell, filling, wire, shut>>

\* The connect is dropped: its turn and its socket go with it.
Abandon(c) ==
    /\ pc[c] \in Dialling \cup {"queued"}
    /\ filling' = Frees(c)
    /\ opened' = opened \ {c}
    /\ Goto(c, "dropped")
    /\ UNCHANGED <<config, logins, cell, result, link, shut>>

-----------------------------------------------------------------------------
(* InProcess::connect_in_process, which does not wait.  A cell that is being *)
(* filled is left alone, and the clone has a transport of its own.          *)

ConnectInProcess(c) ==
    LET fresh == [kind |-> "inprocess", by |-> c] IN
    /\ pc[c] = "idle"
    /\ IF TestRefused(c) \/ cell.kind = "live"
       THEN /\ result' = [result EXCEPT ![c] = IF TestRefused(c) THEN "settings"
                                               ELSE "live"]
            /\ Goto(c, "done")
            /\ UNCHANGED <<cell, link>>
       ELSE /\ cell' = IF cell = NoLink /\ filling = Nobody THEN fresh ELSE cell
            /\ Connected(c, IF cell'.kind = "inprocess" THEN cell' ELSE fresh, "test")
    /\ UNCHANGED <<config, filling, wire, shut>>

\* The connected form is shut down; the cell keeps what it holds.
Shutdown(c) ==
    /\ result[c] \in {"ok", "test"}
    /\ link[c] \notin shut
    /\ shut' = shut \cup {link[c]}
    /\ opened' = opened \ {d \in Clones : link[c] = [kind |-> "live", by |-> d]}
    /\ UNCHANGED <<config, pc, cell, filling, logins, result, link>>

Dials(c) == \/ Start(c) \/ Dial(c) \/ Establish(c) \/ Offered(c) \/ Outcome(c)
            \/ Open(c) \/ BeginSession(c) \/ Found(c)

Next == \E c \in Clones :
    \/ Connect(c) \/ Dials(c) \/ Abandon(c) \/ ConnectInProcess(c) \/ Shutdown(c)

Spec == Init /\ [][Next]_vars

\* The peer answers every step of a connect, and the runtime polls it.
FairSpec == Spec /\ \A c \in Clones : WF_vars(Dials(c))

-----------------------------------------------------------------------------
(* Properties.                                                             *)

\* At most one socket is open at any time, however many clones connect, fail,
\* are dropped and are shut down: that of the clone which is dialling, or that of
\* the connection in the cell (docs/architecture/lifecycle.md:55).
OneConnection ==
    /\ \A c, d \in opened : c = d
    /\ \A c \in opened : pc[c] \in Dialling \/ cell = [kind |-> "live", by |-> c]

\* EXTERNAL asked for on an amqp URL, which the documentation says fails the
\* connect (docs/components/broker/security.md:27, config.rs:138-139).  The code has
\* no such check: without TLS settings, which an amqp URL refuses by themselves, the
\* client is given the profile (broker.rs:598-603), and whether the login fails is
\* the client's and the peer's to say.
ExternalUncovered(c) == sasl[c] = "external" /\ url.scheme # "amqps"

\* The connection in the cell is logged in as asked, once: with the profile set, or
\* else the URL's credentials, covered by TLS on an amqps URL, or not at all
\* (broker.rs:583-585, tls/open.rs:7-12).  It says nothing of a connection that by
\* the documentation should not be there (ExternalUncovered).
LoggedInAsAsked ==
    \A c \in Clones :
        cell = [kind |-> "live", by |-> c] /\ ~ExternalUncovered(c)
        => logins[c] = IF sasl[c] = "unset" /\ url.userinfo = "none" THEN <<>>
                       ELSE <<[mechanism |-> IF sasl[c] = "unset" THEN "plain" ELSE sasl[c],
                               covered |-> url.scheme = "amqps"]>>

\* What a clone is connected over is what it asked for: connect gives the live
\* connection in the cell and never a transport that has no socket, also after a
\* shutdown or when a clone connected in process meanwhile (broker.rs:631-636);
\* connect_in_process gives the in-process transport in the cell, or its own.
ConnectedAsCalled ==
    \A c \in Clones :
        /\ result[c] = "ok" => link[c] = cell /\ link[c].kind = "live"
        /\ result[c] = "test" =>
              link[c].kind = "inprocess" /\ (link[c] = cell \/ link[c].by = c)

\* The connection is the clone's own: it did not find one that another opened.
Own(c) == result[c] = "test" \/ (result[c] = "ok" /\ link[c].by = c)

\* Test and service agree on the settings (in_process/mod.rs:52-53): of two clones
\* set up alike, none is connected while the other is refused for its settings;
\* but a test reads neither the certificates nor the URL's userinfo, and a clone
\* that finds a connection in the cell has no setting of its own read.
TestAgreesWithService ==
    \A c, d \in Clones :
        /\ sasl[c] = sasl[d] /\ tls[c] = tls[d]
        /\ Own(c) /\ result[d] = "settings"
        => result[c] = "test" /\ (tls[d] = "unusable" \/ url.userinfo = "undecodable")

\* A connect returns, if the peer answers: a failed or dropped one passes its turn
\* on, and a filled cell ends the wait.
EveryConnectReturns ==
    \A c \in Clones : (pc[c] = "queued") ~> (pc[c] \in {"done", "dropped"})

=============================================================================
