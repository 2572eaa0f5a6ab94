----------------------------- MODULE MCLLMRouter -----------------------------
(***************************************************************************)
(* Instances of LLMRouter for TLC: two runs that share two models, one of  *)
(* them under a budget, and a fallback list that names a model by its      *)
(* alias and repeats one.                                                  *)
(***************************************************************************)
EXTENDS LLMRouter

CONSTANTS flash, pro, first, resumed

MCModelMap == [a \in {"coordinator", "fast", "worker", "slow"} |->
                 IF a \in {"coordinator", "fast"} THEN flash ELSE pro]
MCFallbacks == <<"worker", flash>>
MCErrors == [status : {401, 403, 404, 429, 500, 503}, says : SUBSET {"auth", "quota", "capacity"}]
MCQuotas == [m \in {flash} |-> 2]
=============================================================================
