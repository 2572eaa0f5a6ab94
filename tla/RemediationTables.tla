-------------------------- MODULE RemediationTables --------------------------
(***************************************************************************)
(* The static tables the agent consults: the fallback action of each alert *)
(* category, the tools a category forbids, the tools whose execution       *)
(* mutates state, the tools that take a namespace, and the risk tier each  *)
(* tool is registered with.  Every other module takes them as CONSTANTS;   *)
(* the model-checking modules pass these.                                  *)
(***************************************************************************)
EXTENDS Naturals

Observe        == 0
ReversibleLow  == 1
ReversibleHigh == 2
Prohibited     == 4

RestartCategories ==
  {"crash_loop", "memory_pressure", "pod_oom", "stale_pod", "image_pull_error",
   "http_errors", "consumer_lag", "cascading_failure"}

NoActionCategories == {"webhook_dedup", "false_positive", "prohibited_action"}

FallbackCategories ==
  NoActionCategories \cup RestartCategories
    \cup {"db_connection_exhaustion", "cache_poison_key", "cpu_saturation",
          "cache_eviction", "resource_quota"}

\* Remediation per category; "none" means the alert needs no action.
FALLBACK_ACTIONS ==
  [c \in FallbackCategories |->
     CASE c \in NoActionCategories -> [tool |-> "none", tier |-> 0]
       [] c \in RestartCategories -> [tool |-> "restart_deployment", tier |-> 1]
       [] c = "db_connection_exhaustion" -> [tool |-> "terminate_backend", tier |-> 1]
       [] c = "cache_poison_key" -> [tool |-> "delete_valkey_key", tier |-> 1]
       [] c \in {"cpu_saturation", "resource_quota"} ->
            [tool |-> "scale_deployment", tier |-> 2]
       [] c = "cache_eviction" -> [tool |-> "flush_all", tier |-> 2]]

\* Tools the proposal node refuses for a category.
CATEGORY_FORBIDDEN_TOOLS ==
  [c \in {"cache_eviction", "db_connection_exhaustion", "cpu_saturation",
          "pod_oom", "memory_pressure"} |->
     CASE c \in {"cache_eviction", "db_connection_exhaustion"} -> {"restart_deployment"}
       [] c = "cpu_saturation" -> {"restart_deployment", "delete_pod"}
       [] OTHER -> {"scale_deployment"}]

\* Tools matched by name alone when a proposal is compared with the history.
MUTATING_TOOLS ==
  {"restart_deployment", "scale_deployment", "delete_pod", "terminate_backend",
   "delete_valkey_key", "set_feature_flag"}

K8sReadTools ==
  {"list_pods", "get_pod_events", "get_pod_logs", "get_deployment_status",
   "get_pod_metrics"}

OtherReadTools ==
  {"query_openobserve", "get_active_queries", "get_lock_waits",
   "get_connection_stats", "get_valkey_stats", "get_valkey_stream_info"}

\* The tools whose arguments carry a namespace.
TOOLS_WITH_NAMESPACE ==
  K8sReadTools \cup {"restart_deployment", "scale_deployment", "delete_pod"}

RegisteredTools ==
  K8sReadTools \cup OtherReadTools
    \cup {"restart_deployment", "delete_pod", "scale_deployment",
          "terminate_backend", "delete_valkey_key", "flush_all"}

\* The tier every tool declares when it is registered.
RegisteredTier ==
  [t \in RegisteredTools |->
     CASE t \in K8sReadTools \cup OtherReadTools -> Observe
       [] t \in {"scale_deployment", "flush_all"} -> ReversibleHigh
       [] OTHER -> ReversibleLow]
=============================================================================
