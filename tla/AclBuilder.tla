------------------------------ MODULE AclBuilder ------------------------------
(***************************************************************************)
(* build_acl_from_config (acl_builder.py): the access rules of a Config    *)
(* Bus section, or the first fault in it.  A value is kept where the       *)
(* rules' meaning needs it; elsewhere only whether it is well formed.      *)
(* What a rule matches is apcore's business.                               *)
(***************************************************************************)
EXTENDS Naturals, Sequences
LOCAL INSTANCE SequencesExt

\* What a rule of the section looks like.
Entry == [object : BOOLEAN, unknownKeys : BOOLEAN, effect : STRING, approval : STRING,
          callers : BOOLEAN, targets : BOOLEAN, conditions : STRING]

NoAcl == [kind |-> "none"]
Acl(default, rules) == [kind |-> "acl", default |-> default, rules |-> rules]
Refused(index, fault) == [kind |-> "refused", rule |-> index, fault |-> fault]

\* The checks of one rule in the order they are made; the last is apcore's own,
\* which the builder reports with the index of the rule.
Checks(e) ==
  << [fault |-> "rule",       ok |-> e.object],
     [fault |-> "keys",       ok |-> ~e.unknownKeys],
     [fault |-> "effect",     ok |-> e.effect \in {"allow", "deny"}],
     [fault |-> "approval",   ok |-> e.approval \in {"absent", "required", "not_required"}],
     [fault |-> "callers",    ok |-> e.callers],
     [fault |-> "targets",    ok |-> e.targets],
     [fault |-> "conditions", ok |-> e.conditions # "bad"],
     [fault |-> "apcore",     ok |-> ~(e.approval = "required" /\ e.effect = "deny")] >>

Broken(e) == SelectInSeq(Checks(e), LAMBDA c : ~c.ok)
WellFormed(e) == Broken(e) = 0

\* The rule that is built: its effect and what restricts it.
Rule(e) == [effect |-> e.effect, approval |-> e.approval, conditions |-> e.conditions]
Rules(entries) == [i \in DOMAIN entries |-> Rule(entries[i])]

\* Slip the runs must catch: a malformed rule is left out.
BuildLenient(section) ==
  IF section.kind # "mapping" THEN NoAcl
  ELSE Acl(section.default, Rules(SelectSeq(section.entries, WellFormed)))

\* An absent section is no ACL; a malformed one is refused as a whole.
Build(section) ==
  LET first == SelectInSeq(section.entries, LAMBDA e : ~WellFormed(e))
  IN IF section.kind = "none" THEN NoAcl
     ELSE IF section.kind # "mapping" THEN Refused(0, "section")
     ELSE IF section.default \notin {"allow", "deny"} THEN Refused(0, "default_effect")
     ELSE IF ~section.list THEN Refused(0, "rules")
     ELSE IF first # 0
          THEN Refused(first, Checks(section.entries[first])[Broken(section.entries[first])].fault)
     ELSE Acl(section.default, Rules(section.entries))
==============================================================================
