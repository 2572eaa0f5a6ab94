---------------------------- MODULE MCSafeExecutor ----------------------------
(***************************************************************************)
(* An instance of SafeExecutor with every combination of handlers on some  *)
(* tool, every argument shape that changes a classification, and an        *)
(* allowlist that wrongly names a system namespace.                        *)
(***************************************************************************)
EXTENDS SafeExecutor

T == INSTANCE RemediationTables

MCRegistered == T!RegisteredTier

\* "unknown" is not registered.  flush_all and list_pods match no rule.
MCTools ==
  {"restart_deployment", "scale_deployment", "delete_valkey_key", "flush_all", "list_pods",
   "unknown"}

MCSnapshots == {"scale_deployment", "flush_all"}
MCVerifiers == {"scale_deployment", "restart_deployment"}
MCRollbacks == {"scale_deployment", "delete_valkey_key", "restart_deployment"}
MCNamespaces == {"rivulet", "kube-system"}

MCShapes ==
  {s \in ArgShapes :
     /\ s.namespace \in {"rivulet", "kube-system", "absent", "foreign", ""}
     /\ s.wildcard => s.namespace = "rivulet"}

MCProposals ==
  {[tool |-> t, args |-> a, tier |-> r, approval |-> b] :
     t \in MCTools, a \in MCShapes, r \in {0, 1, 2, 4}, b \in BOOLEAN}

\* What execute_node builds: approval is asked for from Tier 2 on.
MCGraphProposals == {p \in MCProposals : p.approval = (p.tier >= 2)}
=============================================================================
