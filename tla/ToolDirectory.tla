---------------------------- MODULE ToolDirectory ----------------------------
(***************************************************************************)
(* What the MCP tool registry promises, apart from how it is stored: a     *)
(* directory that holds at most one tool under a key, a key being a server *)
(* and a tool name with case folded (models/mcp.py, McpTool.key).  A tool  *)
(* keeps its identifier for life and an identifier is issued once, so what *)
(* refers to a tool by identifier never comes to mean another one.         *)
(***************************************************************************)
CONSTANTS
    Ids,        \* the identifiers the directory may issue
    Keys,       \* what a tool is found by
    Bodies      \* everything else a tool records

VARIABLES
    directory,  \* a set of [id, key, body]
    issued      \* the identifiers given out so far

vars == <<directory, issued>>

Entry == [id : Ids, key : Keys, body : Bodies]

Init ==
    /\ directory = {}
    /\ issued = {}

\* A new tool, under a key that is free and an identifier never used before.
Register(e) ==
    /\ e.id \notin issued
    /\ \A d \in directory : d.key # e.key
    /\ directory' = directory \cup {e}
    /\ issued' = issued \cup {e.id}

\* A tool changes, and may move to another key if that key is free.
Revise(d, e) ==
    /\ e.id = d.id
    /\ \A other \in directory \ {d} : other.key # e.key
    /\ directory' = (directory \ {d}) \cup {e}
    /\ UNCHANGED issued

Remove(d) ==
    /\ directory' = directory \ {d}
    /\ UNCHANGED issued

Next ==
    \/ \E e \in Entry : Register(e)
    \/ \E d \in directory, e \in Entry : Revise(d, e)
    \/ \E d \in directory : Remove(d)

Spec == Init /\ [][Next]_vars
=============================================================================
