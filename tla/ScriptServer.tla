---------------------------- MODULE ScriptServer ----------------------------
(***************************************************************************)
(* The peer of an open session, which is not part of the repository: a     *)
(* ManageSieve server that keeps the protocol, as the crate's tests script *)
(* it.  It serves the commands of a connection in order, answers each with *)
(* what Scripts says, and may give up on the client at any time.  `on' is  *)
(* the number of the command a line answers, 0 when it answers none.       *)
(***************************************************************************)
EXTENDS Exchange, Scripts, SequencesExt

ASSUME CutsAssumption == \A c \in Cuts : c.kind \in Kinds \cup {"open"}

VARIABLES
  store,    \* the scripts
  served,   \* the command served last, and how
  open,     \* the server has not closed the connection
  logged,   \* the session is authenticated
  late      \* commands of earlier connections that may still be served

scriptServerVars == << store, served, open, logged, late >>

NoReply == [status |-> "none", code |-> "none", lines |-> {}]
Unserved == [n |-> 0, reply |-> NoReply]

LineOf(n, kind, entry, cut) ==
  [kind |-> kind, val |-> entry.val, active |-> entry.active, on |-> n, cut |-> cut]

\* What lines travel as, one after the other.
Frames(lines) ==
  [i \in 1..(2 * Len(lines)) |-> Frame(lines[(i + 1) \div 2])[IF i % 2 = 1 THEN 1 ELSE 2]]

\* An answer: its data lines and its completion.
LinesOf(n, entries, reply, cuts) ==
  [i \in 1..(Len(entries) + 1) |->
     IF i <= Len(entries) THEN LineOf(n, "data", entries[i], cuts[i])
     ELSE LineOf(n, reply.status, Plain(reply.code), cuts[i])]
Framed(n, entries, reply, cuts) == Frames(LinesOf(n, entries, reply, cuts))

\* The data lines come in any order.  The connection is gone once BYE is said
\* or a LOGOUT accepted.
AnswerWith(reply) == LET m == Head(inbox) IN
  /\ inbox' = Tail(inbox)
  /\ \E entries \in SetToSeqs(reply.lines) :
       \E cuts \in [1..(Len(entries) + 1) -> CutsOf(reply.status)] :
         net' = net \o Framed(m.n, entries, reply, cuts)
  /\ served' = [n |-> m.n, reply |-> reply]
  /\ open' = (reply.status # "bye" /\ ~(reply.status = "ok" /\ m.call.op = "logout"))
  /\ logged' = (logged /\ ~(reply.status = "ok" /\ m.call.op = "unauthenticate"))
  /\ UNCHANGED late

\* Some commands need no authentication.
Permitted(c) == logged \/ c.op \in {"noop", "logout"}

ServerAccept ==
  /\ inbox # <<>> /\ open
  /\ LET c == Head(inbox).call IN
     /\ Permitted(c) /\ Allowed(store, c)
     /\ \E reply \in Replies(store, c) : AnswerWith(reply)
     /\ store' = Applied(store, c)

ServerRefuse ==
  /\ inbox # <<>> /\ open
  /\ \E reply \in Refusals(store, Head(inbox).call) : AnswerWith(reply)
  /\ UNCHANGED store

\* An inactive client is told BYE, or just disconnected.
ServerGiveUp ==
  /\ open /\ open' = FALSE
  /\ \/ \E cut \in CutsOf("bye") :
          net' = net \o Frame(LineOf(0, "bye", Plain("none"), cut))
     \/ UNCHANGED net
  /\ UNCHANGED << store, served, logged, late, inbox >>

\* What reaches a closed connection is never read.
ServerDiscard ==
  /\ ~open /\ inbox # <<>>
  /\ inbox' = <<>>
  /\ UNCHANGED << store, served, open, logged, late, net >>

\* A command of a connection the client left is served, or the connection
\* dies before it is.
ServerLate == \E i \in DOMAIN late :
  /\ \/ UNCHANGED store
     \/ Allowed(store, late[i]) /\ store' = Applied(store, late[i])
  /\ late' = RemoveAt(late, i)
  /\ UNCHANGED << served, open, logged, net, inbox >>

ServerAnswers == ServerAccept \/ ServerRefuse
Peer ==
  /\ ServerAnswers \/ ServerGiveUp \/ ServerDiscard \/ ServerLate
  /\ UNCHANGED << coroutineVars, sock, sent >>
=============================================================================
