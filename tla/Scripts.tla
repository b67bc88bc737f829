------------------------------ MODULE Scripts ------------------------------
(***************************************************************************)
(* The scripts of one user and what each ManageSieve command does to them, *)
(* as the docs of the modules of src/rfc5804 tell what to expect of a      *)
(* server.  The server is not part of the repository; both the abstract    *)
(* ScriptStore and the ScriptServer behind the wire are made of these.     *)
(***************************************************************************)
EXTENDS FiniteSets

CONSTANTS
  Names,    \* script names, strings
  Bodies,   \* script sources, strings
  Tags      \* the strings a NOOP may ask to be echoed

NoName == ""            \* no script is active; a command without an argument
Missing == "missing"    \* the body of a script that is not stored

\* Response codes without what they carry; the code of a NOOP is its tag.
FixedCodes == {"none", "WARNINGS", "QUOTA", "ACTIVE", "NONEXISTENT", "ALREADYEXISTS"}
Codes == FixedCodes \cup Tags

ASSUME NamesAssumption ==
  /\ Names \cup Bodies \cup Tags \subseteq STRING
  /\ IsFiniteSet(Names)
  /\ NoName \notin Names \cup Tags
  /\ Missing \notin Bodies
  /\ Tags \cap FixedCodes = {}

Ops == {"list", "get", "put", "check", "activate", "delete", "rename",
        "havespace", "noop", "unauthenticate", "logout"}

\* A command and its arguments: `name' is a script or a tag, `to' a body or
\* the new name, and `raw' says it went through the passthrough.
Call ==
  {c \in [op : Ops, name : Names \cup Tags \cup {NoName},
          to : Names \cup Bodies \cup {NoName}, raw : BOOLEAN] :
     /\ c.op \in {"get", "put", "delete", "rename", "havespace"} => c.name \in Names
     /\ c.op = "activate" => c.name \in Names \cup {NoName}
     /\ c.op = "noop" => c.name \in Tags \cup {NoName}
     /\ c.op = "put" => c.to \in Bodies
     /\ c.op = "rename" => c.to \in Names}

\* At most one script is active, and it is a stored one.
Store == {s \in [scripts : [Names -> Bodies \cup {Missing}], active : Names \cup {NoName}] :
            s.active # NoName => s.scripts[s.active] # Missing}

\* A name, a body or a response code of an answer, and whether the ACTIVE
\* atom is next to it.
Entry == [val : Names \cup Bodies \cup Codes, active : BOOLEAN]
Plain(v) == [val |-> v, active |-> FALSE]

Stored(s, name) == name \in Names /\ s.scripts[name] # Missing

\* Why a server may refuse a command, in the codes the docs tell to expect.
Reasons(s, c) ==
  {code \in Codes :
     \/ code = "QUOTA" /\ c.op \in {"put", "havespace"}
     \/ code = "ACTIVE" /\ c.op = "delete" /\ c.name = s.active
     \/ code = "NONEXISTENT" /\ c.op \in {"get", "delete", "rename", "activate"}
          /\ c.name # NoName /\ ~Stored(s, c.name)
     \/ code = "ALREADYEXISTS" /\ c.op = "rename" /\ Stored(s, c.to)}

\* Space is a matter of opinion, the other reasons are not.
Allowed(s, c) == Reasons(s, c) \subseteq {"QUOTA"}

\* What an accepted command does.  Renaming the active script keeps it active.
Applied(s, c) ==
  CASE c.op = "put"      -> [s EXCEPT !.scripts[c.name] = c.to]
    [] c.op = "activate" -> [s EXCEPT !.active = c.name]
    [] c.op = "delete"   -> [s EXCEPT !.scripts[c.name] = Missing]
    [] c.op = "rename"   -> [scripts |-> [s.scripts EXCEPT ![c.to] = s.scripts[c.name],
                                                           ![c.name] = Missing],
                             active |-> IF s.active = c.name THEN c.to ELSE s.active]
    [] OTHER             -> s

\* The data lines of the answer, and the codes an OK may carry.
Answer(s, c) ==
  CASE c.op = "list" -> {[val |-> n, active |-> n = s.active] : n \in {m \in Names : Stored(s, m)}}
    [] c.op = "get"  -> {Plain(s.scripts[c.name])}
    [] OTHER         -> {}

OkCodes(c) ==
  CASE c.op = "put"   -> {"none", "WARNINGS", "QUOTA"}
    [] c.op = "check" -> {"none", "WARNINGS"}
    [] c.op = "noop"  -> {IF c.name = NoName THEN "none" ELSE c.name}
    [] OTHER          -> {"none"}

\* What a server may answer to a command it served, and to one it did not.
Replies(s, c) ==
  [status : {"ok"}, code : OkCodes(c), lines : {Answer(s, c)}]
    \cup [status : {"bye"}, code : {"none"}, lines : {{}}]

Refusals(s, c) == [status : {"no", "bye"}, code : Reasons(s, c) \cup {"none"}, lines : {{}}]
=============================================================================
