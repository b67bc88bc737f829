--------------------------- MODULE MCSessionOpen ---------------------------
(* Instances of SessionOpen for TLC. *)
EXTENDS SessionOpen
MCOffers == {{}, {"STARTTLS"}}
MCRequests == [transport : Transports, starttls : BOOLEAN, allow_cleartext_auth : BOOLEAN,
               sasl : {NoSasl, "PLAIN", "SCRAM", "LOGIN"}]
MCFewRequests == [transport : {"tcp"}, starttls : BOOLEAN, allow_cleartext_auth : {FALSE},
                  sasl : {NoSasl, "PLAIN"}]
MCCuts == {[kind |-> "bad", val |-> "none"], [kind |-> "data", val |-> "garbage"]}
MCStrayCuts == MCCuts \cup {[kind |-> "open", val |-> "none"], [kind |-> "ok", val |-> "none"]}
=============================================================================
