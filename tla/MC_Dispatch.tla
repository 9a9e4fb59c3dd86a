----------------------------- MODULE MC_Dispatch ------------------------------
(* JSON objects of three levels, {"a": {"b": {"s": ..., "p": ...}}}, in which a.b.s or *)
(* a.b is secret; the merge is capped at one level of recursion.                       *)
EXTENDS Dispatch

CONSTANTS c1, m1, m2, taskTool, approvalTool

OneCall == {c1}
TwoModules == {m1, m2}
OneTaskTool == {taskTool}
OneApprovalTool == {approvalTool}
OneModule == {m1}

AllKeys == {"a", "b", "s", "p"}
AllLeaves == {"x", Masked}
\* In the results of m2 a whole object is secret.
AllSecrets == [m \in TwoModules |-> {IF m = m1 THEN <<"a", "b", "s">> ELSE <<"a", "b">>}]

Below(t) == Object([a |-> Object([b |-> t])])
Returned ==
  {Leaf("x"), EmptyDict, Object([a |-> Leaf("x")]), Below(Leaf("x")),
   Below(Object([s |-> Leaf("x")])), Below(Object([p |-> Leaf("x")]))}

\* The advertised schema wants an object in which a secret is x where it is present.
Meets(m, t) == t # Below(Leaf("x")) /\ \A n \in t : n[2] # Masked
TaskEnvelope == Below(Leaf("x"))

AllSetups == [tasks : BOOLEAN, approvals : BOOLEAN, streams : BOOLEAN,
              redacts : BOOLEAN, plain : BOOLEAN]
==============================================================================
