------------------------------- MODULE Server -------------------------------
(***************************************************************************)
(* The peer, which is not part of the repository: a ManageSieve server as  *)
(* the crate's tests script it (tests/exchange.rs).  It answers what it is *)
(* sent, one command after the other, with any reply that is well formed,  *)
(* and may give up on the client at any time.  With MaxStray > 0 it, or    *)
(* someone on the path, also sends lines nobody asked for.                 *)
(***************************************************************************)
EXTENDS Exchange

CONSTANTS
  MaxChallenges,  \* challenges of one exchange
  MaxStray,       \* unsolicited lines; 0 is a server that keeps the protocol
  Offers,         \* capability lists it may report: sets of names
  Proofs          \* the strings a challenge or a SASL response code carries

ASSUME ServerAssumption ==
  /\ MaxChallenges \in Nat /\ MaxStray \in Nat
  /\ Offers \subseteq SUBSET {"STARTTLS"}
  /\ Proofs \subseteq Vals
  /\ Cuts \subseteq Cut

VARIABLES
  st,       \* what the server is waiting for
  asked,    \* challenges sent
  strays,   \* unsolicited lines sent
  authed    \* it has accepted an AUTHENTICATE

serverVars == << st, asked, strays, authed >>

ServerStates == {"greet", "idle", "exchange", "handshake", "closed"}

ServerTypeOK ==
  /\ st \in ServerStates
  /\ asked \in 0..MaxChallenges
  /\ strays \in 0..MaxStray
  /\ authed \in BOOLEAN

\* The ghost every line carries.
Phase == IF authed THEN "auth" ELSE IF sock = "tcp" THEN "clear" ELSE "secure"

Whole(kind, val, cut) == Frame([kind |-> kind, val |-> val, on |-> Phase, cut |-> cut])
Send(units) == net' = net \o units

\* A line, whatever its octets would read as if it were broken.
Tells(kind, val) == \E cut \in CutsOf(kind) : Send(Whole(kind, val, cut))

\* A response listing capabilities: STARTTLS when offered, and others.
Listing(offer, cut) ==
  (IF "STARTTLS" \in offer THEN Whole("data", "STARTTLS", cut) ELSE <<>>)
    \o Whole("ok", "none", cut)
Lists == \E offer \in Offers, cut \in Cuts : Send(Listing(offer, cut))

Refuse == \E kind \in {"no", "bye"} :
  /\ Tells(kind, "none")
  /\ st' = IF kind = "bye" THEN "closed" ELSE "idle"

\* The greeting, on connecting and again once TLS is up.
Greet ==
  /\ st = "greet" /\ sock # "none"
  /\ \/ Lists /\ st' = "idle"
     \/ Refuse
  /\ UNCHANGED << asked, strays, authed, inbox >>

AnswerStartTls(m) ==
  /\ m.cmd = "STARTTLS" /\ st = "idle"
  /\ \/ Tells("ok", "none") /\ st' = "handshake"
     \/ Refuse
  /\ UNCHANGED << asked, authed >>

AnswerCapability(m) ==
  /\ m.cmd = "CAPABILITY" /\ st = "idle"
  /\ \/ Lists /\ UNCHANGED st
     \/ Refuse
  /\ UNCHANGED << asked, authed >>

\* AUTHENTICATE, and each response to a challenge: one more challenge, an OK
\* that may carry the final data in its SASL code, or a refusal.
AnswerSasl(m) ==
  /\ \/ m.cmd = "AUTHENTICATE" /\ st = "idle"
     \/ m.cmd = "RESPONSE" /\ st = "exchange"
  /\ \/ /\ asked < MaxChallenges
        /\ \E val \in Proofs : Tells("data", val)
        /\ st' = "exchange" /\ asked' = asked + 1 /\ UNCHANGED authed
     \/ /\ \E val \in Proofs \cup {"none"} : Tells("ok", val)
        /\ st' = "idle" /\ authed' = TRUE /\ UNCHANGED asked
     \/ Refuse /\ UNCHANGED << asked, authed >>

\* The string "*" ends the exchange with a NO, and a message that makes no
\* sense where the server stands is answered with one too.
AnswerNo(m) ==
  /\ \/ st = "exchange" /\ m.cmd # "RESPONSE"
     \/ st = "idle" /\ m.cmd \in {"RESPONSE", "CANCEL"}
  /\ Tells("no", "none")
  /\ st' = "idle"
  /\ UNCHANGED << asked, authed >>

ServerAnswer ==
  /\ inbox # <<>>
  /\ inbox' = Tail(inbox)
  /\ \/ AnswerStartTls(Head(inbox))
     \/ AnswerCapability(Head(inbox))
     \/ AnswerSasl(Head(inbox))
     \/ AnswerNo(Head(inbox))
  /\ UNCHANGED strays

\* An inactive client is told BYE, or just disconnected.
GiveUp ==
  /\ st \in {"idle", "exchange"} /\ sock # "none"
  /\ \/ Tells("bye", "none")
     \/ UNCHANGED net
  /\ st' = "closed"
  /\ UNCHANGED << asked, strays, authed, inbox >>

\* A line nobody asked for, or one that never ends.
Stray ==
  /\ strays < MaxStray /\ st # "closed" /\ sock # "none"
  /\ \/ \E kind \in Kinds : Tells(kind, IF kind = "data" THEN "plain" ELSE "none")
     \/ \E cut \in Cuts : Send(SubSeq(Whole("data", "plain", cut), 1, 1))
  /\ strays' = strays + 1
  /\ UNCHANGED << st, asked, authed, inbox >>

Reply == (Greet \/ ServerAnswer) /\ UNCHANGED << coroutineVars, sock, sent >>
Disturb == (GiveUp \/ Stray) /\ UNCHANGED << coroutineVars, sock, sent >>
=============================================================================
