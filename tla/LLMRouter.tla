------------------------------ MODULE LLMRouter ------------------------------
(***************************************************************************)
(* TokenVelocityRouter: every call of the language model.  A call walks    *)
(* its rotation of models, passing over those at their local daily quota   *)
(* or with an open circuit, and asks the provider, again and again after a *)
(* backoff while the errors are transient.  The usage counters and the     *)
(* failure windows are shared by all the incidents of the process; a call  *)
(* looks at them before it asks a model and writes them when the answer is *)
(* there, and others run in between.                                       *)
(*                                                                         *)
(* Nothing else suspends a call: the locks of the breaker and of the       *)
(* metrics are never held across an await.  So a step runs from an answer, *)
(* or the end of a backoff, to the next request or to the end of the call. *)
(***************************************************************************)
EXTENDS Integers, Sequences, FiniteSets

CONSTANTS
  Callers,       \* runs of incidents in this process; each makes one call at a time
  Metered,       \* those with RunMetrics: first runs, not the ones an approval resumed
  Models,
  ModelMap,      \* model_map: alias -> model
  Fallbacks,     \* fallback_models, aliases and repetitions included
  Sizes,         \* estimated prompt sizes
  SizeThreshold, \* threshold_tokens
  Errors,        \* what LiteLLM raises: [status, says]
  Quotas,        \* model_quotas
  DefaultQuota,  \* quota of a model that is not listed
  Threshold,     \* circuit_breaker_threshold
  MaxRetries,    \* max_retries
  Budget,        \* max_llm_calls_per_incident
  InitialBackoff, MaxBackoff, AbsoluteCap,  \* in tenths of a second
  RetryAfter,    \* Retry-After values providers send, in tenths of a second
  MaxFailures,   \* bound: failures counted in a window
  MaxDays        \* bound: days that pass

ASSUME RouterAssumption ==
  /\ IsFiniteSet(Callers) /\ Metered \subseteq Callers
  /\ {"fast", "worker"} \subseteq DOMAIN ModelMap
  /\ \A a \in DOMAIN ModelMap : ModelMap[a] \in Models
  /\ Fallbacks \in Seq(Models \cup DOMAIN ModelMap)
  /\ Sizes \subseteq Nat /\ SizeThreshold \in Nat
  /\ \A m \in DOMAIN Quotas : Quotas[m] \in Nat \ {0}
  /\ {DefaultQuota, Threshold, Budget} \subseteq Nat \ {0} /\ {MaxRetries, MaxDays, MaxFailures} \subseteq Nat
  /\ {InitialBackoff, MaxBackoff, AbsoluteCap} \subseteq Nat /\ RetryAfter \subseteq Nat

VARIABLES
  call,      \* Callers -> [step, primary, at, attempt, sleep]
  spent,     \* Callers -> llm_call_count
  usage,     \* model_usage
  dayOver,   \* a day has passed since the counters were last reset
  failures,  \* Models -> failures in the sliding window
  days

vars == <<call, spent, usage, dayOver, failures, days>>

-----------------------------------------------------------------------------
Resolve(name) == IF name \in DOMAIN ModelMap THEN ModelMap[name] ELSE name

\* select_model
SelectModel(tokens) == ModelMap[IF tokens < SizeThreshold THEN "fast" ELSE "worker"]

\* acompletion's first model: by size for "auto", else what the caller names.
Primaries ==
  {SelectModel(tokens) : tokens \in Sizes} \cup {Resolve(name) : name \in DOMAIN ModelMap}

\* _get_configured_fallback_models and _build_model_rotation: the primary, then the
\* fallbacks; of a model named twice only the first place is tried.
Rotation ==
  [primary \in Models |-> [j \in 1..(Len(Fallbacks) + 1) |->
     IF j = 1 THEN primary ELSE Resolve(Fallbacks[j - 1])]]
Tried ==
  [primary \in Models |-> {j \in DOMAIN Rotation[primary] :
     \A i \in 1..(j - 1) : Rotation[primary][i] # Rotation[primary][j]}]

\* classify_llm_error.  The checks are tried in this order.
Classify(e) ==
  CASE e.status = 401 \/ (e.status = 403 /\ "auth" \in e.says) -> "authentication"
    [] e.status = 429 /\ "quota" \in e.says -> "quota_exhausted"
    [] e.status = 503 /\ "capacity" \in e.says -> "capacity_exhausted"
    [] e.status \in {400, 404} -> "validation"
    [] OTHER -> "transient"
Categories == {Classify(e) : e \in Errors}

Least(S) == CHOOSE x \in S : \A y \in S : x <= y

\* _compute_backoff before the jitter: the provider's hint, or a growing wait.
Backoff(hint, attempt) ==
  LET raw == IF hint # {} THEN hint
             ELSE {InitialBackoff * (IF attempt < 3 THEN attempt + 1 ELSE 2^attempt)}
  IN {Least(raw \cup {MaxBackoff, AbsoluteCap})}

\* The least and the most jitter _compute_backoff adds.
Jittered(base) == {base, base + base \div 10}

Sleeps(attempt) ==
  UNION {Jittered(base) : base \in UNION {Backoff(hint, attempt) :
    hint \in {{}} \cup {{h} : h \in RetryAfter}}}

-----------------------------------------------------------------------------
QuotaOf(m) == IF m \in DOMAIN Quotas THEN Quotas[m] ELSE DefaultQuota

\* _check_and_reset_daily_quotas: every look at the counters resets them when it is time.
UsageToday == IF dayOver THEN [m \in Models |-> 0] ELSE usage
ResetDaily == usage' = UsageToday /\ dayOver' = FALSE

\* _increment_model_usage
Increment(m) == usage' = [UsageToday EXCEPT ![m] = @ + 1] /\ dayOver' = FALSE

\* _is_model_at_quota.  (Mutant: off by one.)
AtQuotaLate(m, used) == used[m] > QuotaOf(m)
AtQuota(m, used) == used[m] >= QuotaOf(m)

\* CircuitBreaker.is_open.  (Mutant: off by one.)
IsOpenLate(m, failed) == failed[m] > Threshold
IsOpen(m, failed) == failed[m] >= Threshold

\* CircuitBreaker.record_failure, record_success
RecordFailure(m) ==
  failures' = [failures EXCEPT ![m] = IF @ < MaxFailures THEN @ + 1 ELSE @]
RecordSuccess(m) == failures' = [failures EXCEPT ![m] = 0]

Idle == [step |-> "idle", primary |-> ModelMap["fast"], at |-> 0, attempt |-> 0, sleep |-> 0]
ModelOf(c) == Rotation[call[c].primary][call[c].at]

OverBudget(c) == c \in Metered /\ spent[c] >= Budget
Pay(c) == spent' = IF c \in Metered THEN [spent EXCEPT ![c] = @ + 1] ELSE spent

End(c) == call' = [call EXCEPT ![c] = Idle] /\ UNCHANGED spent

\* The loop over the rotation from position j on, with the counters as the step leaves
\* them: the first model that passes both gates is asked, if the budget allows.
Proceed(c, primary, j) ==
  LET Passing == {i \in Tried[primary] : 
                    /\ i >= j
                    /\ ~AtQuota(Rotation[primary][i], usage')
                    /\ ~IsOpen(Rotation[primary][i], failures')}
  IN IF Passing = {} \/ OverBudget(c) THEN End(c)
     ELSE /\ call' = [call EXCEPT ![c] = [Idle EXCEPT !.step = "asked", !.primary = primary,
                                                      !.at = Least(Passing)]]
          /\ Pay(c)

\* _call begins.
Begin(c) ==
  /\ call[c].step = "idle"
  /\ \E primary \in Primaries :
       /\ ResetDaily /\ UNCHANGED <<failures, days>>
       /\ Proceed(c, primary, 1)

\* The provider answers.
Succeeds(c) ==
  /\ call[c].step = "asked"
  /\ RecordSuccess(ModelOf(c)) /\ Increment(ModelOf(c))
  /\ End(c) /\ UNCHANGED days

\* QUOTA_EXHAUSTED, CAPACITY_EXHAUSTED: on to the next model at once.
Rotates(c) ==
  /\ call[c].step = "asked" /\ Categories \cap {"quota_exhausted", "capacity_exhausted"} # {}
  /\ RecordFailure(ModelOf(c)) /\ Increment(ModelOf(c)) /\ UNCHANGED days
  /\ Proceed(c, call[c].primary, call[c].at + 1)

\* AUTHENTICATION, VALIDATION: the call fails, and nothing is counted.
GivesUp(c) ==
  /\ call[c].step = "asked" /\ Categories \cap {"authentication", "validation"} # {}
  /\ End(c) /\ UNCHANGED <<usage, dayOver, failures, days>>

AnotherAttempt(c) == call[c].attempt < MaxRetries

\* TRANSIENT, with retries left: the call sleeps.
BacksOff(c) ==
  /\ call[c].step = "asked" /\ "transient" \in Categories /\ AnotherAttempt(c)
  /\ RecordFailure(ModelOf(c))
  /\ \E seconds \in Sleeps(call[c].attempt) :
       call' = [call EXCEPT ![c].step = "asleep", ![c].sleep = seconds]
  /\ UNCHANGED <<spent, usage, dayOver, days>>

\* TRANSIENT on the last attempt: on to the next model.
Exhausts(c) ==
  /\ call[c].step = "asked" /\ "transient" \in Categories /\ ~AnotherAttempt(c)
  /\ RecordFailure(ModelOf(c)) /\ Increment(ModelOf(c)) /\ UNCHANGED days
  /\ Proceed(c, call[c].primary, call[c].at + 1)

\* Mutant: the attempts are not counted.
SameAttempt(c) == call[c].attempt
NextAttempt(c) == call[c].attempt + 1

\* The backoff is over: the same model again, with no look at its quota or its circuit.
Wakes(c) ==
  /\ call[c].step = "asleep"
  /\ IF OverBudget(c) THEN End(c)
     ELSE /\ call' = [call EXCEPT ![c].step = "asked", ![c].sleep = 0,
                                  ![c].attempt = NextAttempt(c)]
          /\ Pay(c)
  /\ UNCHANGED <<usage, dayOver, failures, days>>

\* A run is over and another incident's takes its place, with RunMetrics of its own.
NewRun(c) ==
  /\ call[c].step = "idle" /\ spent[c] > 0
  /\ spent' = [spent EXCEPT ![c] = 0]
  /\ UNCHANGED <<call, usage, dayOver, failures, days>>

\* Mutant: a failure leaves the window only with a success.
NeverExpires(m) == FALSE
\* The oldest failure leaves the window; _prune drops it before the next look.
Expires(m) ==
  /\ failures[m] > 0
  /\ failures' = [failures EXCEPT ![m] = @ - 1]
  /\ UNCHANGED <<call, spent, usage, dayOver, days>>

DayPasses ==
  /\ days < MaxDays /\ ~dayOver
  /\ days' = days + 1 /\ dayOver' = TRUE
  /\ UNCHANGED <<call, spent, usage, failures>>

Init ==
  /\ call = [c \in Callers |-> Idle] /\ spent = [c \in Callers |-> 0]
  /\ usage = [m \in Models |-> 0] /\ dayOver = FALSE
  /\ failures = [m \in Models |-> 0] /\ days = 0

Answer(c) == Succeeds(c) \/ Rotates(c) \/ GivesUp(c) \/ BacksOff(c) \/ Exhausts(c)

Next ==
  \/ \E c \in Callers : Begin(c) \/ Answer(c) \/ Wakes(c) \/ NewRun(c)
  \/ \E m \in Models : Expires(m)
  \/ DayPasses

Spec == Init /\ [][Next]_vars

\* LiteLLM answers or raises, sleeps end, time passes.
FairSpec ==
  /\ Spec
  /\ \A c \in Callers : WF_vars(Answer(c) \/ Wakes(c))
  /\ \A m \in Models : WF_vars(Expires(m))

-----------------------------------------------------------------------------
CallStates ==
  [step : {"idle", "asked", "asleep"}, primary : Models, at : 0..(Len(Fallbacks) + 1),
   attempt : 0..MaxRetries, sleep : Int]

Placed(x) ==
  /\ x.step # "idle" => x.at # 0
  /\ x.step = "asleep" => x.attempt < MaxRetries

\* The router's counters are counts, and a call stands at a place of its rotation.
TypeOK ==
  /\ call \in [Callers -> CallStates]
  /\ \A c \in Callers : Placed(call[c])
  /\ spent \in [Callers -> 0..Budget]
  /\ usage \in [Models -> Nat] /\ failures \in [Models -> Nat]
  /\ dayOver \in BOOLEAN /\ days \in 0..MaxDays

\* _is_model_at_quota looks before the request and _increment_model_usage counts after it:
\* calls that run in between exceed the quota, by one each and no more, across resets.
QuotaOverrunBounded ==
  \A m \in Models : usage[m] <= QuotaOf(m) + Cardinality(Callers) - 1

\* "Hammering a rate-limited model": the breaker is looked at once per model and call, so
\* the calls already past it may fail max_retries + 1 times each, and no more.
BreakerBoundsHammering ==
  \A m \in Models :
    failures[m] <= Threshold - 1 + Cardinality(Callers) * (MaxRetries + 1)

\* Every call comes to an end, with an answer or an error, however often models fail.
CallsEnd == \A c \in Callers : call[c].step # "idle" ~> call[c].step = "idle"

\* An open circuit closes again: a model is never lost for good.
ModelsComeBack == \A m \in Models : []<>~IsOpen(m, failures)

-----------------------------------------------------------------------------
\* The inductive strengthenings: a call past the gate will still count, and it may still
\* fail once for each attempt it has left.
Engaged(m) == {c \in Callers : call[c].step # "idle" /\ ModelOf(c) = m}
QuotaInv ==
  \A m \in Models :
    usage[m] + Cardinality(Engaged(m)) <= QuotaOf(m) + Cardinality(Callers) - 1

Attempts == Callers \X (0..MaxRetries)
Ahead(c, n) == n > call[c].attempt \/ (n = call[c].attempt /\ call[c].step = "asked")
Owed(m) == {x \in Attempts : x[1] \in Engaged(m) /\ Ahead(x[1], x[2])}
BreakerInv ==
  \A m \in Models :
    failures[m] + Cardinality(Owed(m)) <= Threshold - 1 + Cardinality(Callers) * (MaxRetries + 1)

\* Whatever Retry-After a provider sends and however often a call has tried, no call sleeps
\* longer than the cap and its jitter.  Every sleep is one of Sleeps: what is to be shown is
\* a fact of arithmetic, so it is proved (SleepsCapped) and not checked.
SleepBounded == \A c \in Callers : call[c].sleep <= AbsoluteCap + AbsoluteCap \div 10

RInv == TypeOK /\ QuotaInv /\ BreakerInv /\ SleepBounded
=============================================================================
