-------------------------- MODULE MCAuthentication --------------------------
(* Instances of Authentication for TLC. *)
EXTENDS Authentication
MCOffers == {{}, {"STARTTLS"}}
MCMechs == {"PLAIN", "LOGIN", "CRAM-MD5", "SCRAM", "GSSAPI"}
MCCuts == {[kind |-> "bad", val |-> "none"], [kind |-> "data", val |-> "garbage"]}
MCStrayCuts == {[kind |-> "data", val |-> "garbage"], [kind |-> "open", val |-> "none"]}
=============================================================================
