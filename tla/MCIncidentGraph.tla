--------------------------- MODULE MCIncidentGraph ---------------------------
(***************************************************************************)
(* Instances of IncidentGraph for TLC: five alert categories that between  *)
(* them take every path through the tables, tools of each tier, and model  *)
(* answers chosen for the guards of propose_node and execute_node.         *)
(***************************************************************************)
EXTENDS IncidentGraph

T == INSTANCE RemediationTables

MCTools == T!RegisteredTools \cup T!MUTATING_TOOLS \cup {"none"}
MCFallback == T!FALLBACK_ACTIONS
MCForbidden == T!CATEGORY_FORBIDDEN_TOOLS
MCMutating == T!MUTATING_TOOLS
MCNamespaced == T!TOOLS_WITH_NAMESPACE
MCRegistered == T!RegisteredTier

MCAlert(c, named, allowed) ==
  [category |-> c, namesService |-> named, allowedNamespace |-> allowed]

\* A category per shape of the tables (no action, tier 1, tier 2 with and without a
\* forbidden set, unknown), an alert without a service and one outside the allowlist.
MCAlerts ==
  {MCAlert(c, TRUE, TRUE) : c \in {"false_positive", "crash_loop", "cpu_saturation",
                                   "cache_eviction", "unlisted"}}
  \cup {MCAlert("crash_loop", FALSE, TRUE), MCAlert("crash_loop", TRUE, FALSE)}

\* "template" and "unnamed" are fallback arguments, "other" differs and is valid,
\* "drifted" is "other" under another namespace, "glob" has a wildcard, "bad"
\* does not validate.
MCArgs == {"template", "unnamed", "other", "drifted", "glob", "bad"}
MCInIncidentNamespace == [a \in MCArgs |-> IF a = "drifted" THEN "other" ELSE a]
MCValidCalls == (DOMAIN MCRegistered) \X (MCArgs \ {"unnamed", "bad"})

MCAnswer(t, a, r) == [tool |-> t, args |-> a, tier |-> r]

\* An honest call, one under a reduced tier, one under an impossible tier, the same
\* tool with drifted arguments, an unregistered tool, a read-only tool, a wildcard.
MCAnswers ==
  {MCAnswer("restart_deployment", "other", 1), MCAnswer("restart_deployment", "drifted", 2),
   MCAnswer("scale_deployment", "other", 2), MCAnswer("flush_all", "other", 1),
   MCAnswer("flush_all", "other", 2), MCAnswer("delete_valkey_key", "glob", 1),
   MCAnswer("set_feature_flag", "other", 2), MCAnswer("list_pods", "drifted", 0),
   MCAnswer("terminate_backend", "other", -1), MCAnswer("restart_deployment", "bad", 1)}

MCPicks == {"list_pods", "delete_pod"}
MCLevels == {20, 52, 85}
MCHandled == {"scale_deployment"}
=============================================================================
