----------------------------- MODULE MCConnect -----------------------------
(* Connect with the URLs that are told apart: each scheme, each host, each    *)
(* kind of userinfo.                                                         *)
EXTENDS Connect

MCUrls ==
    {[scheme |-> s, host |-> "domain", userinfo |-> u] :
        s \in {"amqp", "amqps"}, u \in {"none", "plain", "undecodable"}}
    \cup {[scheme |-> "amqps", host |-> "ipv6", userinfo |-> "none"],
          [scheme |-> "amqp", host |-> "ipv6", userinfo |-> "none"],
          [scheme |-> "amqp", host |-> "none", userinfo |-> "none"],
          [scheme |-> "other", host |-> "domain", userinfo |-> "none"],
          [scheme |-> "malformed", host |-> "none", userinfo |-> "none"]}

=============================================================================
