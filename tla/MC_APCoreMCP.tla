---------------------------- MODULE MC_APCoreMCP ------------------------------
(* Configurations in five families, each varying one concern: the OpenAPI document and *)
(* the registry while other threads change it, the registry alone, access rules, the   *)
(* schemas that are exported, and the errors of calls.                                 *)
EXTENDS APCoreMCP, TLC

CONSTANTS m1, m2, sys, odd, res, badId, t1, t2

FiveModules == {m1, m2, sys, odd, res}
OddId == {badId}
SystemOnly == {sys}
OddOnly == {odd}
ReservedOnly == {res}
Declaring == {m1, sys}
Explained == {m1, odd}
SurfaceOf == [m \in FiveModules |-> IF m = sys THEN "health" ELSE IF m = m2 THEN "control" ELSE "none"]
TwoHosts == {t1, t2}
HostSymmetry == Permutations(TwoHosts)

------------------------------------------------------------------------------
(* Schemas over two definitions *)

AllKeys ==
  {"type", "properties", "additionalProperties", "anyOf", "items", "title", "default", "x", "y", "*",
   "ref", "defs", "A", "B"}
AllLeaves == {"object", "string", "A", "B", "C", "true", "false", "t", "own"}

ListOf(n) == Object([k \in {"*"} |-> n])
Str == Object([type |-> Leaf("string")])
Ref(d) == Object([ref |-> Leaf(d)])
Having(n) == Object([type |-> Leaf("object"), properties |-> Object([x |-> n])])
Titled(n) == Object([ref |-> Leaf("A"), title |-> n])
Bodies ==
  {Str, Leaf("true"), Ref("A"), Ref("B"), Ref("C"), Having(Str), Having(Ref("A")), Having(Ref("B")),
   Titled(Leaf("t")), Titled(Having(Ref("B"))),
   Object([type |-> Leaf("object"), default |-> Having(Str), title |-> Leaf("own")]),
   Object([properties |-> Object([x |-> Having(Str)]), additionalProperties |-> Leaf("true")]),
   Object([anyOf |-> ListOf(Ref("B")), items |-> Having(Str)]),
   Object([type |-> ListOf(Leaf("object")), items |-> ListOf(Ref("A"))])}
Open == Object([properties |-> Object([y |-> Ref("A")]), items |-> ListOf(Ref("B"))])
Defining(r, defs) == r \cup Object([defs |-> Object(defs)])
Schemas ==
  {Defining(r, [A |-> a, B |-> b]) : a \in Bodies, b \in Bodies, r \in (Bodies \cap Dicts) \cup {Open}}
    \cup {EmptyDict, Having(Having(Str)), Defining(Having(Ref("A")), <<>>)}

------------------------------------------------------------------------------
(* Access rules *)

Good == [object |-> TRUE, unknownKeys |-> FALSE, effect |-> "allow", approval |-> "required",
         callers |-> TRUE, targets |-> TRUE, conditions |-> "object"]
Deny == [Good EXCEPT !.effect = "deny", !.approval = "absent", !.conditions = "absent"]
Entries ==
  {Good, Deny, [Good EXCEPT !.object = FALSE], [Good EXCEPT !.unknownKeys = TRUE],
   [Good EXCEPT !.effect = "bad", !.callers = FALSE], [Good EXCEPT !.approval = "bad"],
   [Good EXCEPT !.targets = FALSE], [Good EXCEPT !.conditions = "bad"], [Good EXCEPT !.effect = "deny"]}
Section(d, es) == [kind |-> "mapping", default |-> d, list |-> TRUE, entries |-> es]
NoSection == [kind |-> "none", default |-> "deny", list |-> TRUE, entries |-> <<>>]
Sections ==
  {Section(d, es) : d \in {"allow", "bad"},
                    es \in {<<>>} \cup {<<e>> : e \in Entries} \cup {<<e, f>> : e \in Entries, f \in Entries}}
    \cup {NoSection, [NoSection EXCEPT !.kind = "other"], [Section("deny", <<>>) EXCEPT !.list = FALSE]}
OwnAcl == Acl("deny", <<Rule(Deny)>>)
CallerAcl == Acl("allow", <<>>)

------------------------------------------------------------------------------
(* Errors *)

Errors ==
  [class : {"cancelled", "taskLimit", "circuitOpen", "module", "lookalike", "foreign"},
   code : InternalCodes \cup
     {"ACL_DENIED", "TASK_LIMIT_EXCEEDED", "CIRCUIT_BREAKER_OPEN", "SCHEMA_VALIDATION_ERROR",
      "APPROVAL_PENDING", "APPROVAL_TIMEOUT", "APPROVAL_DENIED", "PIPELINE_ABORT", "MODULE_TIMEOUT"},
   details : {"none", "other", "mapping", "approval"}, hints : BOOLEAN]

------------------------------------------------------------------------------
(* Configurations *)

NoDocument == [section |-> "none", spec |-> "missing", prefix |-> FALSE, loads |-> TRUE,
               scanned |-> {}, baseUrl |-> TRUE]
Documents ==
  [section : {"mapping"}, spec : {"given"}, prefix : BOOLEAN, loads : BOOLEAN,
   scanned : {{}, {m1, m2}, {m2, badId}}, baseUrl : BOOLEAN]
    \cup {[NoDocument EXCEPT !.section = "mapping", !.spec = x] : x \in {"missing", "blank"}}
    \cup {[NoDocument EXCEPT !.section = "other"], NoDocument}
Plain ==
  [source |-> "registry", modules |-> {}, openapi |-> NoDocument, acl |-> NoSection, middleware |-> TRUE,
   callerAcl |-> NoAcl, executorAcl |-> NoAcl, redacts |-> TRUE, dynamic |-> FALSE, live |-> FALSE,
   schema |-> EmptyDict, error |-> CHOOSE e \in Errors : e.class = "cancelled"]

WithDocuments ==
  {[Plain EXCEPT !.source = s, !.modules = IF s = "none" THEN {} ELSE ms, !.openapi = d, !.live = s # "none"] :
     s \in {"none", "registry"}, ms \in {{}, {m1}}, d \in Documents}
Registries ==
  {[Plain EXCEPT !.modules = ms, !.dynamic = d, !.live = TRUE, !.redacts = r] :
     ms \in SUBSET {m1, sys, odd} \cup {{m1, res}}, d \in BOOLEAN, r \in BOOLEAN}
WithRules ==
  {[Plain EXCEPT !.source = IF own = NoAcl THEN "registry" ELSE "executor", !.acl = sec,
                 !.callerAcl = c, !.executorAcl = own, !.middleware = m] :
     sec \in Sections, c \in {NoAcl, CallerAcl}, own \in {NoAcl, OwnAcl}, m \in BOOLEAN}
WithSchemas == {[Plain EXCEPT !.modules = {m1}, !.schema = s] : s \in Schemas}
WithErrors == {[Plain EXCEPT !.error = e] : e \in Errors}
AllSetups == WithDocuments \cup Registries \cup WithRules \cup WithSchemas \cup WithErrors
==============================================================================
