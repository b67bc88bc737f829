----------------------------- MODULE MCCommands -----------------------------
(* Instances of Commands for TLC. *)
EXTENDS Commands
Do(op, name, to) == [op |-> op, name |-> name, to |-> to, raw |-> FALSE]
MCCalls ==
  {Do("list", "", ""), Do("get", "a", ""), Do("put", "a", "x"),
   Do("check", "", "x"), Do("activate", "a", ""), Do("activate", "", ""),
   Do("delete", "a", ""), Do("rename", "a", "b"), Do("havespace", "b", ""),
   Do("noop", "t", ""), Do("unauthenticate", "", ""),
   Do("logout", "", ""), [Do("list", "", "") EXCEPT !.raw = TRUE]}
MCFewCalls ==
  {Do("get", "a", ""), Do("noop", "u", "")}
MCCuts == {[kind |-> "data", val |-> "cut"]}
\* A script with lines that look like a marker and like the answer to a NOOP.
MCScriptCuts == MCCuts \cup {[kind |-> "open", val |-> "none"], [kind |-> "ok", val |-> "t"]}
MCTagCalls == {Do("get", "a", ""), Do("noop", "t", "")}
=============================================================================
