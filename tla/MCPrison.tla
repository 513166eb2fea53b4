------------------------------ MODULE MCPrison ------------------------------
(***************************************************************************)
(* Two streams; a request of each kind of verdict: allowed, denied by its  *)
(* command, and one whose command passes and names another file.           *)
(***************************************************************************)
EXTENDS Prison

Asks(command, named, target) ==
    [command |-> command, kind |-> "read", path |-> TRUE, named |-> named, target |-> target]

MCRequest ==
    {Asks("PASS", TRUE, "PASS"), Asks("KILL", TRUE, "PASS"), Asks("PASS", FALSE, "PASS")}

MCMaxSent == [s \in Stream |-> IF s = "first" THEN 2 ELSE 1]
=============================================================================
