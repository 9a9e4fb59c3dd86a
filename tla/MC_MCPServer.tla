---------------------------- MODULE MC_MCPServer ------------------------------
(* A server, and a program on another thread that wants stdout, with a task.   *)
EXTENDS MCPServer

CONSTANTS server, task_, host, guest, u1, u2, mine, other

AllContexts == {server, task_, host, guest}
TwoThreads == {mine, other}
WhoRunsWhere == [c \in AllContexts |-> IF c \in {host, guest} THEN other ELSE mine]
OneStopper == {u1}
TwoStoppers == {u1, u2}
==============================================================================
