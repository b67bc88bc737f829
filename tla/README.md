# A formal model of io-managesieve

io-managesieve is an I/O-free ManageSieve (RFC 5804) client library. Its
protocol logic is a set of coroutines: each is a state machine whose `resume`
takes the bytes of a read (or nothing) and answers with a request (read, write,
connect, upgrade to TLS) or with its result. A thin pump does the I/O. This
directory holds TLA+ specifications of those state machines composed with the
pump and with a server, the TLC configurations that check them on small
instances, and proofs checked by TLAPS. Paths below are relative to the
repository.

## 1. The system

| component | source | state it keeps | operations |
|---|---|---|---|
| framing | `src/utils.rs`, `src/rfc5804/response.rs` | none (pure) | `scan_line`, `ManagesieveLine::parse`, `ManagesieveResponse::parse`, quoting and literals for commands |
| base coroutines | `src/send.rs` | `buf`, `wants_read`, the command not sent yet | `ManagesieveResponseRead::resume`, `ManagesieveCommandSend::resume` |
| greeting, STARTTLS, CAPABILITY | `src/rfc5804/{greeting,starttls,capability}.rs` | a base coroutine | `resume`: read, look at trailing bytes, look at the status |
| AUTHENTICATE | `src/rfc5804/authenticate.rs` | `State` (Start, Write, Read, Cancel, Abort, Capability), the mechanism, `buf`, `pending` payload, the cancellation's cause | `resume`, one arm per state; `complete`; `saw_cancellation_reply` |
| session opening | `src/session.rs` | `State` (Connect, Greeting, StartTls, Upgraded, GreetingTls, Auth), `upgraded`, the capabilities, the policy options | `resume`, `wants_auth` |
| script and session commands | `src/rfc5804/{listscripts,getscript,putscript,checkscript,setactive,deletescript,renamescript,havespace,noop,unauthenticate,logout,raw}.rs` | a base coroutine | `resume`: send, read, decode |
| client | `src/client.rs`, `src/client/connect.rs` | the stream | `run` (the pump), one method per command, `connect`, `set_stream` |
| SASL mechanisms | io-sasl (a dependency) | what was said, what was verified | `resume(None / Input / Done)` |
| the server | not in the repository | | scripted by `tests/exchange.rs` |

The parts interact by calls only: the pump calls `resume` in a loop; a
coroutine resumes the one it contains (`managesieve_try!`) and forwards its
yields. No thread is shared and nothing is persisted. What is concurrent is the
connection: the server writes when it likes, TCP cuts what it writes anywhere,
either end may go away, and a coroutine's buffer may hold less or more than the
line it waits for.

### What is hard here

- **Chunking.** A read returns any piece of what the server sent. A state taken
  out of the coroutine (`pending.take()`) must be put back when the line is not
  complete; a line read early must be acted on before asking for another read.
- **Phase changes.** STARTTLS must be asked for, granted, and followed by the
  handshake with nothing in the buffers; the credentials policy is decided from
  a flag set before the upgrade happens.
- **Nested coroutines and one argument.** A resume runs through as many states
  as need no I/O with the same argument: the greeting's bytes are still in hand
  when STARTTLS or AUTHENTICATE starts.
- **A SASL exchange that fails halfway** must be cancelled, and the reply read,
  or the next command reads it as its own; the cause must survive an EOF or a
  garbled reply.
- **Mutual authentication.** The server's final proof arrives as a challenge or
  inside the OK; an OK alone proves nothing.
- **Endings.** The loop must end whatever the server sends, lines that never
  end included, or at the latest with the connection.
- **Broken lines.** A read that fails leaves the next call in the middle of a
  line, perhaps of a script, whose octets may look like a reply or like the
  marker of a literal; an unfinished line has the same effect on what runs into it.

The file `PROJECT.json` lists each of these at the line where it bites
(`hazards`).


## 2. The modules and the code

```
Wire            what a byte stream is cut into: lines, responses, what is left
  Exchange      one coroutine, the pump, the connection; the base coroutines
    Server        the peer while a session is opened          (external)
      Authenticate    the states of ManagesieveAuthenticate
        Authentication  ManagesieveClient::authenticate on an open connection
        SessionOpen     ManagesieveSessionOpen under connect; refines SessionPolicy
        Handshake       the handshake methods of ManagesieveClient called by hand
    ScriptServer  the peer of an open session                 (external)
      Commands        script and session commands; refines ScriptStore
Scripts         what the commands do to the scripts, shared by both ends
SessionPolicy, ScriptStore      the abstract specifications

Lexer           octets to tokens: scan_line, lex, quoted strings, literals
  Responses       tokens to data lines, completions, codes, responses
    ResponseRead    the reader of responses and the line-at-a-time reader of
                    AUTHENTICATE, the octets delivered in every split
      Capabilities    the capability set and its accessors
  Serialise       what every command puts on the wire, and a server reading it

WireProofs      parsing a sequence of units
  AuthenticateProofs    the exchange: its states, its payloads, what it keeps;
                        a stream that a server keeping the protocol writes
    AuthenticationProofs  about Authentication
    SessionOpenProofs     about SessionOpen: types, credentials, STARTTLS, the
                          refinement of SessionPolicy, in step, fresh, clean upgrade
    HandshakeProofs       about Handshake
  CommandsProofs        about Commands: types, the refinement of ScriptStore, tags
LexerProofs     the lexer, for every segment and every buffer; about Serialise
  ResponseReadProofs    about ResponseRead
MC*             instances for TLC; MCResponses holds the streams of octets
```

The system is modelled at two grains. `Wire` and what builds on it cut a line in
two and keep of it what the protocol acts on; the second tree reads every octet
and has no protocol. What the first takes for granted, that a line is found
whole and the same whatever the reads were, is what the second checks.

**One step is one call of `resume`.** A coroutine is a function of its state and
of the argument, so nothing can interleave inside a call: `out` holds what it
yielded last, or `"Run"` while the pump holds an answer to resume with. A resume
that passes through several states without I/O (a greeting, the policy, the
first write of AUTHENTICATE) is one action. Between two resumes the pump fulfils
the yield (`PumpRead`, `PumpWrite`, `PumpEof`, `PumpConnect`, `PumpUpgrade`) or
fails (`PumpFail`), and the server does what it likes.

| state of the model | in the code |
|---|---|
| `out`, `result`, `msg`, `arg` | `ManagesieveYield`, `Complete(..)`, the bytes of `WantsWrite`, the argument of `resume` |
| `buf` | the `buf` of the coroutine at work; `NewBuffer` is the switch to one with its own |
| `auth`, `pending`, `cause` | `State` of `authenticate.rs` with its payload and its error |
| `turn`, `proved` | the state of the io-sasl mechanism |
| `sess`, `upgraded`, `request`, `caps` | `State`, `upgraded`, the arguments of `new`, `capabilities` of `session.rs` |
| `call`, `told` | the running command method and what it returned |
| `sock`, `net`, `inbox` | the socket, units on their way to the client, messages on their way to the server |
| `st`, `asked`, `authed`; `store`, `open`, `logged`, `late` | the server |
| `dropped`, `sent`, `strays`, `tags`, `on`, `calls` | ghosts: bytes thrown away, what was written and over which socket, and so on |

**Lines.** A line is what the parsers tell apart: a data line, a completion of
one of the three statuses, or a malformed line. It travels as two units, the
second of which carries the CRLF, so a read may end between lines or inside one.
A line may be broken: its head was thrown away (the parser starts again in the
middle of a string or of a literal and takes its octets for a line), or it was
never finished and another runs into it. What it then reads as is its `cut`,
which the server picks from the constant `Cuts` when it sends the line, and which
may be anything: any data line, a malformed line, a completion with any code
(`OK (TAG "u")` in a script), or "open", the marker of a literal. The end of an
open one is no line end, and neither is any behind it (`Opens`, `Ends`): the
client waits for octets (`HoldsOpen`), as `scan_line` does when the buffer is
shorter than the literal announced. A literal that ends later on is one whose
octets take in some more lines and then start another broken one; within a call it
does what an open one or a string that runs into the next line does. The remains of a script that make several lines are
read as one of them: in a stream with stray lines the others are further strays,
of which the theorems allow any number, and on a stream used again they cannot
be a NOOP's own answer either, under the condition that `OwnTagMeansInStep`
states. A BYE whose text is cut leaves a string or a malformed line, its text
being taken to be quoted (`CutsOf`). A malformed line is found malformed when
its end is there; the code may find it so earlier. A challenge is one of "plain",
"final" (the server's proof) and "garbage" (not base64).

**Payloads.** What a mechanism computes is its number in the exchange. Mechanisms
differ in whether they speak first, how many payloads they have and whether
they want a proof; any of them may refuse any challenge.

**The server** keeps the protocol and answers one command after the other with
any reply that is well formed, but may say BYE or hang up at any point; with
`MaxStray` it also sends lines nobody asked for, lines that do not parse, and a
line that never ends.

**Commands.** Every method is `Issue` (build the coroutine, first resume),
reads (`ReadMore`, `Fails`) and one action per coroutine for what it makes of
the response. After a call that failed a caller takes a new stream
(`OnNewStream`, `set_stream`) or, with `Reuse`, goes on with the old one, which
nothing in `run` prevents. A command left on an old stream is `late`: the server
may still serve it, before or after the next ones. A write that failed is not
followed by another call on the same stream (half a command would be in it).

**By hand.** `Handshake` has one action per method of `ManagesieveClient` that
opens a session. Each call builds its coroutine, so only the connection and what
is on it survive a call; `Upgrades` is the caller's part, done on a reply to
STARTTLS, after which it starts over with a new client and `greeting`; a server
that waits for the handshake and gets a command instead closes. `May` is
what the docs of the methods ask of a caller, `Survives` the failures after
which the stream is still usable.

**Octets.** The set of octets is a constant, all strings in the instances: the
ones the lexer tells apart stand for themselves, every other is a letter, and a whole word (a status, the name of a
code or a capability) is one letter too: the lexer takes the octets of an atom
as they come, and nothing about a cut inside a word differs from a cut before
it. `"8BIT"` stands for octets that are not UTF-8. The limits (`MAX_LITERAL`,
`u32::MAX`, `QUOTED_MAX`, `MAX_RESPONSE`, the read buffer) are constants scaled
down so that the streams reach them. `LexQuoted`, `Lex`, `ScanLine` and
`ParseResponse` are the loops of the functions they model, written as recursive
functions from an index; the turn of each loop is an operator of its own
(`QuotedAt`, `LexAt`, `ScanAt`, `LinesAt`), which gets what later turns find as an
argument. In `ResponseRead` the server's stream is fixed at the
start, with what the server means by it as a ghost, and goes to one of two
readers: `ManagesieveResponseRead`, which keeps the octets until the response is
whole (`TakeResponse`), or that of `ManagesieveAuthenticate`, which drains one
line at a time and goes on with what is there before it reads again
(`TakeLine`). In `Serialise` the server reads with
the lexer of the client: section 4 of RFC 5804 has one set of tokens for both
directions, and the lexer takes the `+` form of literals too.

The two abstract specifications: `SessionPolicy` is a
channel that is opened, secured and used; `ScriptStore` is a store whose calls
are served at most once and answered with what they were served with.

## 3. Runs

| run | question | bounds |
|---|---|---|
| `authentication` | does an exchange lose or repeat a payload, trust an OK without a proof, block on bytes it holds, report the wrong cause, leave the stream out of step, or not end? | every shape of mechanism (speaks first or second, one payload or two, mutual or not, unsupported), both options, three challenges, reads of one to four units |
| `authentication_stray` | are payloads and causes kept, and does it end, with a stray, malformed or endless line and what it swallows? | SCRAM, two challenges, a limit of three units, broken lines that read as a string or as a marker |
| `session` | is the channel policy kept, are the capabilities fresh, is the stream in step, does it end, does it implement `SessionPolicy`? | all 48 combinations of transport, options and {none, PLAIN, SCRAM, LOGIN}; two capability lists |
| `session_stray` | does plaintext cross the upgrade when lines are injected? | TCP, no cleartext authentication, one stray line |
| `commands` | do client and server implement `ScriptStore`; does every call return? | every command, two calls, eight stores of two names and one body |
| `commands_reuse` | does a NOOP's own tag mean in step when a stream whose read failed is used again, and when does a call return? | two calls, each a GETSCRIPT or a NOOP; a script with lines that read as a marker, as a string, and as an OK with another tag |
| `handshake` | called one by one, do the methods leave the stream in step for the next, return the set in force and end; does plaintext cross an upgrade done by hand when lines are injected? | three calls from a plain connection, PLAIN with its response inline or with the capabilities read again, one challenge, reads of one to three units, at most one stray line, broken lines that read as a marker; `CallsInStep` and `SetsInForce` are about the executions without |
| `responses` | is what a server said what the caller gets, by either reader, whatever the cuts; are literals read to the octet and refused with their marker; is the buffer bounded; do the accessors answer what was advertised? | reads of up to 5 octets of 17000 streams: 2760 responses of up to two data lines (strings of nine contents, quoted or literal; six kinds of code; three tails); every single deletion, substitution and insertion in seed responses, every stream of up to three octets, four that exceed the limit of 60 octets; ten sizes around the two limits of a literal in four spellings; every pair of 62 lines for STARTTLS, SASL, MAXREDIRECTS and others |
| `serialise` | does a server read every command as the caller meant it? | every argument of two octets out of eight, and longer ones on the quoting limit, in one command; the hardest in two; reads of up to 5 octets |
| `authentication_unexpected_ok`, `serialise_raw`, `commands_tag_in_script` | the disagreements of section 5 | |

Why these are enough. A coroutine keeps a buffer and a bounded state, so what
matters about chunking is whether a read ends inside a line, at its end, or in a
later one: two units a line and reads of one to three or four units give all of them. An
exchange of three challenges is longer than any mechanism needs by one, so a
payload can be asked for once too often. A second call is enough for a reply,
a buffer or a command of the first to reach another; that
the same is so after many, with the stream used again, is proved
(`CommandsOwnTag`). One stray line at any
place of the stream displaces every later reply. `Cuts` has in each run the kinds
of broken line that its properties tell apart: a marker, a string, and a
completion the caller may take for its own. The response limit is above
every legal response in the runs of well-behaved servers and below the longest
in `authentication_stray`.

At the grain of octets, the lexer has a state of at most two octets (a CR that
may belong to a line ending, a backslash) besides what it counts, so strings of
two octets reach every pair of them and one edit in a response reaches every
error; the counters are tried at, below and above each limit. No fairness is
assumed there: an execution reads the stream to its end or stops in an outcome,
and a deadlock before either would be reported.

Every property is violated by a mutant: an operator placed before the one it
replaces and marked "Mutant", with the kind of bug it stands for.

**Fairness.** `run` and `connect` are loops without any way out but a result or
an error, so `Resume` and the pump's work are weakly fair; a blocking read
returns when bytes or the end of the stream are there, and not before. The
server's replies are weakly fair (a server that neither answers nor hangs up
makes any blocking client wait, and the client sets no timeout); hanging up,
stray lines and I/O errors are not, they may or may not happen. So with broken
lines a call need not return: a reply that ran into an unfinished line may be a
part of it, and a marker left of a script takes in the reply that follows, with the
server having said all it had to. `ReturnsUnlessOpen` (a call returns unless its
buffer holds such a marker), `TerminatesUnlessTorn` and `CallsReturn` (unless a
reply ran into an unfinished line, or was thrown away with a stray one) say when a
call is sure to return, and `EndsOnceClosed` that no call outlasts the connection (checked for commands and for an exchange).

## 4. Proofs

The theorems hold for every value of the constants: any set of requests,
mechanisms or calls, any response limit and read size, any number of challenges.
They rest on the named assumptions of the modules only (`LimitsAssumption`: the
response limit and the read size are at least one; `ServerAssumption`,
`RequestsAssumption`, `MechsAssumption`, `HandshakeAssumption`; `CallsAssumption`:
a caller has some command to call, each with arguments that its method takes;
`NamesAssumption`: the scripts of a user are finitely many, their names are not
the empty string, and a tag is none of the response codes; `LexerAssumption`:
what the lexer tells apart are octets, and its limits are natural numbers;
`ReadAssumption`: a stream is a
sequence of octets and one of the two readers reads it; `SerialiseAssumption`:
the words of the commands are octets, an argument is any sequence of octets that
a server reads when it comes as a literal, and a size is a number), which TLC
evaluates in the runs. A theorem about a server that keeps the protocol says so as a hypothesis,
`MaxStray = 0`; `Handshake`'s properties carry `strays = 0` themselves and are
proved for any number. A theorem about a caller that replaces its stream once a
call failed has the hypothesis `~Reuse`. `RawsAreWhole(Callers)` is a hypothesis
about the users of `raw.rs`: each gives a command whole, its closing CRLF left out
or not, and means what it gives (`serialise_raw` shows what happens otherwise;
`serialise` assumes that its own callers meet it, so TLC checks that they do).

| module | theorems |
|---|---|
| `SessionOpen` | `SessionTypeOK`, `SessionNoCleartextCredential`, `SessionStartTlsHonoured`, `SessionCleanUpgrade`, `SessionImplementsPolicy`; without stray lines `SessionInStep`, `SessionCapabilitiesFresh` |
| `Authentication` | `AuthenticationTypeOK`, `AuthenticationPayloadsInOrder`, `AuthenticationOkMeansProved`, `AuthenticationCauseReported`, `AuthenticationNoIdleRead`; without stray lines `AuthenticationInStep` |
| `Handshake` | `HandshakeTypeOK`, `HandshakeNothingClearKept`, `HandshakeCallsInStep`, `HandshakeSetsInForce` |
| `Commands` | `CommandsOwnTag`; of a caller that replaces its stream `CommandsTypeOK`, `CommandsImplementStore` |
| `ResponseRead` | `ReadTypeCorrect`, `HoldsBounded`, `SplitsDoNotMatter`, `LinesMakeTheResponse` |
| `Serialise` | `CommandReadsBack`, `SerialiseTypeCorrect`; of callers whose passthrough commands are whole `Understood` |

- `WireProofs`: parsing a sequence of units gives lines, values and sequences of
  units; `FirstOf` is the least index. `Cuts` is any set of broken lines, so what
  is proved holds however they read.
- Type correctness goes action by action in parts: what a resume returns
  (`Returned`), what it leaves in the buffer (`Buffered`), the state of the
  exchange and of the session. `Assemble` puts the parts together; the lemmas
  `PeerTypeOK`, `PumpTypeOK`, `AuthResumeTypes` and `ResumeTypeOK` each take one
  group of actions.
- `NoCleartextCredential` is not inductive: it is about what was written, and
  `wants_auth` decides from `upgraded`, which is set one step before the socket
  is TLS. `ChannelInv` says that from a protected transport, or once the upgrade
  is behind, the socket is not "tcp", and that while `upgraded` runs ahead of
  the socket nothing is about to be written; `CredentialInv` adds that a
  credential waiting in a `WantsWrite`, or an exchange under way, was allowed by
  the policy. `AuthResumeSpeaks` and `StartSpeaks` bound what the exchange can
  write, so each step of the session has only to keep the policy.
- The rest of `SessionOpenProofs` strengthens this to `PolicyInv`. Neither
  `StartTlsHonoured` nor the refinement is inductive: both are about the socket
  and the messages written, and the session decides from its own state.
  `SocketInv` ties the state to the socket; `BeforeAuth` says that nothing but
  STARTTLS is written before the exchange, so an upgrade comes before any
  credential; `UpgradeInv` that a session that asked for STARTTLS reaches the
  second greeting and the exchange only with `upgraded`, which `ChannelInv`
  turns into a TLS socket; `ExchangeInv` that the exchange's first message
  leaves before it can return a success; `OpenInv` what a returned session has.
- `SessionImplementsPolicy` then goes step by step: the policy's `Connect`,
  `Secure` and `Present` are steps of the pump (`PumpConnect`, `PumpUpgrade`,
  the write of AUTHENTICATE), `Open` is a resume that returns, `Fail` is either,
  and every other step leaves the policy's variables alone.

**The exchange** (`AuthenticateProofs`, `AuthenticationProofs`). None of its
properties is inductive: each is about what was written or returned, and the
coroutine decides from `State`, `pending` and the mechanism. Five invariants tie
these together. `StartInv`: before the first resume nothing was said. `OrderInv`:
a payload about to be written is the one after those that left, and one that is
kept for a challenge is the first, with nothing said yet; it is what makes
`pending.take()` followed by an incomplete line safe. `ProvenInv`: an exchange
that goes on to read the capabilities, or that returned "ok", has a mechanism
that spoke and was convinced. `CancelInv`: there is a cause exactly while a
cancellation's reply is awaited, and a cancellation that was written is the last
message. `HeldInv` gives `NoIdleRead`: a coroutine resumed without bytes, which
asks for a read whatever it holds, holds none.

**In step** (the second half of `AuthenticateProofs`). What a coroutine leaves behind can only be bounded
by what was on its way before, so the invariant is about the whole connection.
Take everything the client has not acted on: the buffer, the bytes in the
argument, the bytes on their way, in this order. `InStepWith(w)` says that it is
exactly one reply, cut anywhere (with `w` what the coroutine waits for), or that
it is empty and exactly one message is with the server, or about to be; that the
server's state is the one that message or reply leads to; and that behind it there is at
most the farewell of a server that says BYE and closes (`Byes`, `Rests`): a BYE
can be sent at any moment, so it may follow a complete reply, and then the
server is closed, which `InStep` allows. A second reply can only be there when a
second message is, and no coroutine writes one before it has read the reply.
Strays break exactly this, so the theorems ask for none. The limit enters
because an oversized response ends a call with `toolarge`, which `InStep`
excepts. `SessionOpenProofs` carries the invariant through the sequence of
coroutines of a session; the greeting is a reply nobody asked for
(`GreetingOwed`), once per channel. `IsAnswer` says of a
capability list on its way that it was sent in the present phase of the
connection; `FreshInv` adds that the server takes the client for authenticated
only within the exchange and before it is asked for the list that ends it.

**Clean upgrade.** With strays the stream invariant is gone, and `CleanInv`
says instead what survives: the switch to TLS empties `net`, so afterwards every
unit still to be read is marked as sent inside TLS (`AllSecured`), and the only
way to the upgrade is a reply to STARTTLS with nothing behind it.

**By hand** (`HandshakeProofs`). `KeptInv` is the same argument with the caller
doing the upgrade. `StepInv` holds while no stray line was sent and generalises the stream
invariant to any sequence of methods: a call under way waits for the answer to
what it asked (`Awaited`), one that has not spoken yet finds the stream at rest
(`Unspoken`), and a call on which the next may follow leaves it so. `SetsInv` adds
that every call starts without a set, so the one it returns is the one it read.

**Commands** (`CommandsProofs`). An answer is as long as the set of scripts, so
its parse is a lemma about sequences of any length: of an answer with something
behind it, `AnswerRead` says, either the completion is still to be read or the
data lines and the completion are found as they were sent and what is behind
them is left. `StateInv` has the types of every behaviour. `StepInv` is about a
caller that replaces its stream: the command under way is either with the server,
or lost with a server that closed, and nothing is unread (`Owed`), or it was
served and what is unread is its answer (`Unread`), with at most a farewell
behind either; a caller at rest has left at most one command on its stream, and
none if the last call ended in "ok" or "no". `AnswerTold` reads off `Unread`
what each coroutine returns, and `FarewellTold` off `Owed` that a goodbye read in the place of
an answer is returned as an error, never as success. In the refinement a call's
phase follows from `Idle` and the number of the command served last, and a
command left in the inbox of a stream whose call failed counts as late already
(`GivenUp`): it is served by the abstract `ServeLate` whether the old server
takes it now or after the stream was replaced. `Issue` is the abstract one, a
served command is `Accept` or `Refuse`, a response returned is `Tell`, any other
end is `Lose` (`EndIsLose`), and reads and writes stutter.

`CommandsOwnTag` holds for a stream used again too, where neither `Owed` nor
`Unread` does: several commands and several answers, cut anywhere, may be under
way. `TagInv` keeps of them what their order says (`Numbered`): no unit answers
a command later than the last one served, the inbox holds only later ones,
behind an OK come only answers to later commands, and an OK carries a tag only if
its command asked for it (`Asked`). A fresh tag that no broken line reads as
either then can only be that of the last command, so all is behind it that was
ever sent. Without that condition the property is false (`commands_tag_in_script`).
The property is of the coroutine of `noop.rs` only: a `NOOP` sent through the
passthrough of `raw.rs` hands back every string of its reply, and a reply of an
earlier `LISTSCRIPTS` may hold a script of that name.

**Octets** (`LexerProofs`, `ResponseReadProofs`). A loop of the lexer is a
recursive function of an index, which TLA+ defines as *some* function that
satisfies its equation. That there is one, and only one, is `BackwardRecursion`:
the equation uses later indices only, so it is solved from the end of the buffer
backwards. The induction is over sets of indices, not over predicates
(`MinIsLeast`, `BackwardInduction`), since the provers take no operator as a
parameter; the turn of a loop goes in as a function (`IsStep`, `IsLoop`). With
the equation in hand, each loop gets its type, and its *locality*: it looks at
no octet behind the end of what it returns. `ScanStable` is what this is for: a
line found in a buffer, or an error, is found again, the same, whatever is
appended. `ResponseStable` says so of a whole response and `ResponseUnfold` that
behind a data line a response is read as if its octets stood alone.

`SplitInvariance`, `BufferBounded` and `LinesAsWhole` are about a reader that has
ended and about all the stream, and a reader decides from what it holds; none
is inductive. `ReadInv` adds `AtPlace`: what was taken, what is held and what is
still to come are the stream, in this order; `Bounded`: what was held before the
last read was undecided and within the limit; `WholeInv`: an outcome is what
`ParseResponse` makes of what was held, and a reader with no outcome yet has
parsed all it holds; and `LineInv`: the lines taken, put in front of what is left,
are the response the whole stream parses to. `ReadInv` was checked by TLC
on the instance of `responses` before it was proved.

**What a server understands** (`LexerProofs`, the second half). The lexer is turned
on what the commands write. First the pieces, for every value: `DecimalIsNumber`
(a size in decimal is read as that size: `DecimalLoop` and `NumberLoop` run in
opposite directions, `NumberOfMore` joins them), `EscapedReadsBack` (unescaping
undoes escaping, whatever is behind the closing quote), `EscapedLength` (what
`quote` counts before it quotes is what it then writes, which bounds a quoted
string, `QuotedFits`). Then a command is assembled from its end: `IsLine` says
that octets are exactly one line of some tokens, and `CrlfLine`, `LiteralLine`,
`StringLine`, `BlankLine` and `WordLine` that each piece in front of a line makes
a line with its token in front. They need that the lexer does not care for what
is *before* it (`LexAhead`, `ScanAhead`), the counterpart of `ScanStable`; and
that an atom ends where the next piece begins (`Follows`). `CommandReadsBack` puts
them together for each command.

`UnderstoodAsMeant` is not inductive: it speaks of what the server took, and the
server decides from what it holds. `SerialiseInv` adds that the octets held and in
flight are those of the commands written and not taken, whole. So whatever the
server finds in what it holds, however little of it that is, is by `ScanStable`
(twice: what it holds is the beginning of what is in flight, and so are the octets
of the next command) the line of the next command (`FoundAsWritten`), and when
all is read and nothing is found nothing was left. `SerialiseInv` too was checked
by TLC on the instance of `serialise` first.

Only model-checked:

- everything under fairness (`Terminates`, `TerminatesUnlessTorn`, `Returns`,
  `ReturnsUnlessOpen`, `CallsReturn`, `EndsOnceClosed`): the prover has no rule for
  liveness;
- `Delivered`, `LiteralAsAnnounced` and `AsAdvertised`: what a server means by a
  stream is a ghost that comes with the stream, so they compare the parsers with a
  reference written out in the instance, for the streams of the instance.

## 5. Where the documentation and the code disagree

- `authentication_unexpected_ok`: the error `UnexpectedOk` is documented for a
  server that answers OK before the mechanism sent anything; the code raises it
  only when a payload is waiting, so CRAM-MD5 (which speaks second) answered OK
  at once ends otherwise.
- `serialise_raw`: `raw` adds the closing CRLF unless the bytes end with one,
  and the last literal's octets may. A CHECKSCRIPT whose script ends in a line
  break, passed without its closing CRLF, is never closed.

- `commands_tag_in_script`: the header of `noop.rs` says that with the tag "a
  client can tell its own round trip from a reply it did not ask for". After a
  read that failed inside the reply to GETSCRIPT, the rest of the script is read
  as lines, and one that reads `OK (TAG "t")` answers `NOOP "t"` before the
  server does. The tag tells it only when nothing the server stores holds it,
  a random one for instance (`OwnTagMeansInStep`).

Observed, without a run:

- STARTTLS over a unix socket is refused with `StartTlsOverTls`, documented as
  "already TLS" (`session.rs`); the code refuses every protected transport.
- `MAX_RESPONSE` is documented as the bytes a response may occupy; the code
  looks at it only when no response is complete, so a longer one is returned
  when the read that crosses the limit completes it, and is an error when the
  same bytes come in smaller pieces. `SplitInvariance` is stated with that
  exception, `BufferBounded` with that read. `take_line` of `authenticate.rs`
  does the same.
- A line the grammar does not fit is documented as skipped (`capability.rs`,
  `cairn/spec/commands.md`); such a line fails `ManagesieveResponse::parse`, so
  the set is lost before the code that skips is reached. What `response.rs`
  hands on always starts with a string.
- The header of `unauthenticate.rs` says that the capabilities are re-read
  afterwards; no code of the crate does so, it is left to the caller.

A NOOP whose tag does not come back does not put a stream in step again: each
takes one reply and leaves one.

## 6. Not modelled

- URLs, default ports, ALPN, the nonce's randomness, error texts, logging: no
  state and no ordering, or no property about them.
- `ManagesieveClientAsync`: its commands are the same one-liners over the
  implementor's `run`.
- What io-sasl computes. Mechanisms are their shape; base64 is a string that
  decodes or does not.
- UTF-8 beyond "well-formed or replaced", and Unicode white space in the lists
  of a capability set.
- Real time. A timeout is a read that fails.

## 7. Plan

1. *Prove more.* `Delivered` of `ResponseRead`, for the responses of a grammar
   instead of a list: the pieces in front of a line (`IsLine`, `Reads`) are those
   of a data line or a completion too.
2. *Extend.* `Wire` with lines of more than two units, so that what is left of a
   script is several lines, and literals that end.
