----------------------------- MODULE PolicyEngine -----------------------------
(***************************************************************************)
(* PolicyEngine.classify: hard checks on the arguments, then an ordered    *)
(* rule list whose first match decides the tier; a call no rule matches    *)
(* keeps the tier it came with.  Arguments are told apart by what classify *)
(* tests: the namespace, a wildcard character, the replica count.          *)
(***************************************************************************)
EXTENDS Integers, Sequences, FiniteSetsExt

CONSTANTS
  AllowedNamespaces,  \* namespace allowlist
  MaxAutonomousTier   \* highest tier that runs without a human

ASSUME PolicyAssumption == MaxAutonomousTier \in 0..4

Tiers == 0..4
ProhibitedTier == 4
SystemNamespaces == {"kube-system", "kube-public", "kube-node-lease", "cert-manager"}
HardBlockedTools == {"delete_namespace", "drop_table"}

\* The namespace "" is an empty one, "absent" no namespace; replicas is "absent" also
\* when malformed or negative.
ArgShapes ==
  [namespace : AllowedNamespaces \cup SystemNamespaces \cup {"", "absent", "foreign"},
   wildcard : BOOLEAN, replicas : {"absent", "zero", "positive"}]

Rule(tool, applies, tier) == [tool |-> tool, applies |-> applies, tier |-> tier]

\* _DEFAULT_RULES, in order.
DefaultRules ==
  <<Rule("delete_namespace", "always", 4), Rule("drop_table", "always", 4),
    Rule("*", "system_namespace", 4), Rule("delete_database_row", "always", 3),
    Rule("scale_deployment", "zero", 2), Rule("set_feature_flag", "always", 2),
    Rule("scale_deployment", "positive", 1), Rule("restart_deployment", "always", 1),
    Rule("terminate_backend", "always", 1), Rule("delete_valkey_key", "always", 1)>>

Matches(rule, tool, args) ==
  /\ rule.tool \in {"*", tool}
  /\ \/ rule.applies = "always"
     \/ rule.applies = "system_namespace" /\ args.namespace \in SystemNamespaces
     \/ rule.applies = args.replicas

\* The checks made before any rule.
HardRejected(tool, args) ==
  \/ args.namespace \notin AllowedNamespaces \cup {"absent"}
  \/ args.wildcard
  \/ tool \in HardBlockedTools
  \/ tool = "scale_deployment" /\ args.replicas = "absent"

\* Mutant: the last matching rule wins.
LastRuleTier(tool, args, base) ==
  LET hits == {i \in DOMAIN DefaultRules : Matches(DefaultRules[i], tool, args)} IN
  IF hits = {} THEN base ELSE DefaultRules[Max(hits)].tier

RuleTier(tool, args, base) ==
  LET hits == {i \in DOMAIN DefaultRules : Matches(DefaultRules[i], tool, args)} IN
  IF hits = {} THEN base ELSE DefaultRules[Min(hits)].tier

\* _build_decision on the tier classify arrives at.
Classify(tool, args, base) ==
  LET tier == IF HardRejected(tool, args) THEN ProhibitedTier ELSE RuleTier(tool, args, base) IN
  [allowed |-> tier # ProhibitedTier, tier |-> tier,
   approval |-> tier # ProhibitedTier /\ tier > MaxAutonomousTier]
=============================================================================
