---------------------------- MODULE MCHandshake ----------------------------
(* Instances of Handshake for TLC. *)
EXTENDS Handshake
\* PLAIN, first with its response inline, then with the capabilities read again.
MCChoices ==
  {[mech |-> "PLAIN", initial_response |-> b, ensure_capabilities |-> ~b] : b \in BOOLEAN}
MCOffers == {{"STARTTLS"}}
MCCuts == {[kind |-> "open", val |-> "none"]}
=============================================================================
