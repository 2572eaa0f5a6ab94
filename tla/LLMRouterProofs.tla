--------------------------- MODULE LLMRouterProofs ---------------------------
(***************************************************************************)
(* LLMRouter's safety for any number of runs that share the router, any    *)
(* rotation, quotas, retries and limits.                                   *)
(***************************************************************************)
EXTENDS LLMRouter, FiniteSetTheorems, WellFoundedInduction, TLAPS

\* The least of a set of numbers is there.
LEMMA LeastOf ==
  ASSUME NEW S \in SUBSET Nat, S # {}
  PROVE  Least(S) \in S /\ \A y \in S : Least(S) <= y
<1> DEFINE R == OpToRel(<, Nat)
<1>1. IsWellFoundedOn(R, Nat)
  BY NatLessThanWellFounded, Zenon
<1>2. \A x, y \in Nat : y < x => <<y, x>> \in R
  BY DEF OpToRel
<1> HIDE DEF R
<1>3. PICK x \in S : \A y \in S : ~(<<y, x>> \in R)
  BY <1>1, WFMin, Zenon
<1>4. \A y \in S : ~(y < x)
  BY <1>2, <1>3
<1>5. \A y \in S : x <= y
  BY <1>4
<1> QED BY <1>5 DEF Least

\* The least of three numbers is a number, and no greater than the last.
LEMMA LeastOfThree ==
  ASSUME NEW a \in Int, NEW b \in Int, NEW c \in Int
  PROVE  /\ Least({a, b, c}) \in Int /\ Least({a, b, c}) <= c
<1>1. \E x \in {a, b, c} : \A y \in {a, b, c} : x <= y
  OBVIOUS
<1>2. Least({a, b, c}) \in {a, b, c} /\ \A y \in {a, b, c} : Least({a, b, c}) <= y
  BY <1>1 DEF Least
<1> QED BY <1>2

\* A rotation names a model at each of its places, the primary and each fallback.
LEMMA RotationTyped ==
  ASSUME NEW primary \in Models
  PROVE  /\ Rotation[primary] \in [1..(Len(Fallbacks) + 1) -> Models]
         /\ Tried[primary] \subseteq 1..(Len(Fallbacks) + 1)
         /\ Len(Fallbacks) \in Nat
<1>1. Len(Fallbacks) \in Nat /\ \A k \in 1..Len(Fallbacks) : Fallbacks[k] \in Models \cup DOMAIN ModelMap
  BY RouterAssumption
<1>2. ASSUME NEW j \in 1..(Len(Fallbacks) + 1)
      PROVE  (IF j = 1 THEN primary ELSE Resolve(Fallbacks[j - 1])) \in Models
  <2>1. CASE j = 1
    BY <2>1
  <2>2. CASE j # 1
    <3>1. j - 1 \in 1..Len(Fallbacks)
      BY <1>1, <2>2
    <3>2. Fallbacks[j - 1] \in Models \cup DOMAIN ModelMap
      BY <1>1, <3>1
    <3> QED BY <2>2, <3>2, RouterAssumption DEF Resolve
  <2> QED BY <2>1, <2>2
<1>3. Rotation[primary] = [j \in 1..(Len(Fallbacks) + 1) |->
                             IF j = 1 THEN primary ELSE Resolve(Fallbacks[j - 1])]
  BY DEF Rotation
<1>4. Rotation[primary] \in [1..(Len(Fallbacks) + 1) -> Models]
  BY <1>2, <1>3
<1>5. Tried[primary] \subseteq DOMAIN Rotation[primary]
  BY DEF Tried
<1> QED BY <1>1, <1>4, <1>5

\* The first model of a call is a model.
LEMMA PrimariesTyped == Primaries \subseteq Models
  BY RouterAssumption DEF Primaries, SelectModel, Resolve

\* Whatever a provider's hint, the wait is at most the cap and its jitter.
LEMMA SleepsTyped ==
  ASSUME NEW attempt \in Nat, NEW seconds \in Sleeps(attempt)
  PROVE  seconds \in Int /\ seconds <= AbsoluteCap + AbsoluteCap \div 10
<1>1. PICK hint \in {{}} \cup {{h} : h \in RetryAfter} :
        \E base \in Backoff(hint, attempt) : seconds \in Jittered(base)
  BY DEF Sleeps
<1>2. PICK base \in Backoff(hint, attempt) : seconds \in Jittered(base)
  BY <1>1
<1>3. base \in Int /\ base <= AbsoluteCap
  <2>1. PICK raw \in Int : base = Least({raw} \cup {MaxBackoff, AbsoluteCap})
    <3>1. CASE hint = {}
      <4>1. InitialBackoff * (IF attempt < 3 THEN attempt + 1 ELSE 2^attempt) \in Int
        BY RouterAssumption
      <4> QED BY <1>2, <3>1, <4>1 DEF Backoff
    <3>2. CASE hint # {}
      <4>1. PICK h \in RetryAfter : hint = {h}
        BY <1>1, <3>2
      <4>2. h \in Int
        BY RouterAssumption
      <4>3. base = Least({h} \cup {MaxBackoff, AbsoluteCap})
        BY <1>2, <3>2, <4>1 DEF Backoff
      <4> QED BY <4>2, <4>3
    <3> QED BY <3>1, <3>2
  <2>2. {raw} \cup {MaxBackoff, AbsoluteCap} = {raw, MaxBackoff, AbsoluteCap}
    OBVIOUS
  <2>3. MaxBackoff \in Int /\ AbsoluteCap \in Int
    BY RouterAssumption
  <2>4. base = Least({raw, MaxBackoff, AbsoluteCap})
    BY <2>1, <2>2
  <2> QED BY <2>1, <2>3, <2>4, LeastOfThree
<1>4. /\ base \div 10 \in Int /\ base \div 10 <= AbsoluteCap \div 10
      /\ AbsoluteCap \div 10 \in Nat
  <2>1. \A x \in Int, y \in Nat :
          x <= y => x \div 10 \in Int /\ x \div 10 <= y \div 10 /\ y \div 10 \in Nat
    OBVIOUS
  <2>2. AbsoluteCap \in Nat
    BY RouterAssumption
  <2> QED BY <1>3, <2>1, <2>2
<1>5. seconds = base \/ seconds = base + base \div 10
  BY <1>2 DEF Jittered
<1>6. AbsoluteCap \in Int
  BY RouterAssumption
<1> QED BY <1>3, <1>4, <1>5, <1>6

-----------------------------------------------------------------------------
\* A call that is not under way has the shape of one.
LEMMA IdleTyped == Idle \in CallStates
<1>1. ModelMap["fast"] \in Models /\ Len(Fallbacks) \in Nat /\ MaxRetries \in Nat
  BY RouterAssumption
<1> QED BY <1>1 DEF Idle, CallStates

\* The fields of a call, each with its type; a call under way stands at a model.
LEMMA CallTyped ==
  ASSUME TypeOK, NEW c \in Callers
  PROVE  /\ call[c] \in CallStates
         /\ call[c].primary \in Models /\ call[c].at \in Nat
         /\ call[c].attempt \in 0..MaxRetries /\ call[c].attempt \in Nat
         /\ call[c].step # "idle" => /\ call[c].at \in 1..(Len(Fallbacks) + 1)
                                    /\ ModelOf(c) \in Models
<1>1. call[c] \in CallStates /\ (call[c].step # "idle" => call[c].at # 0)
  BY DEF TypeOK, Placed
<1>2. /\ call[c].primary \in Models /\ call[c].at \in 0..(Len(Fallbacks) + 1)
      /\ call[c].attempt \in 0..MaxRetries
  BY <1>1 DEF CallStates
<1>3. Rotation[call[c].primary] \in [1..(Len(Fallbacks) + 1) -> Models] /\ Len(Fallbacks) \in Nat
  BY <1>2, RotationTyped
<1>4. MaxRetries \in Nat
  BY RouterAssumption
<1> QED BY <1>1, <1>2, <1>3, <1>4 DEF ModelOf

\* What walking the rotation on makes of a call: its end, or a request to a model that is
\* not at its quota and whose circuit is closed.
Asks(c, primary, k) == [Idle EXCEPT !.step = "asked", !.primary = primary, !.at = k]

\* The loop over the rotation ends the call or asks a model that passed both gates.
LEMMA Proceeding ==
  ASSUME TypeOK, NEW c \in Callers, NEW primary \in Models, NEW j \in Nat,
         Proceed(c, primary, j)
  PROVE  /\ \/ call' = [call EXCEPT ![c] = Idle]
            \/ \E k \in Tried[primary] :
                 /\ call' = [call EXCEPT ![c] = Asks(c, primary, k)]
                 /\ k >= j /\ Pay(c) /\ ~OverBudget(c)
                 /\ ~AtQuota(Rotation[primary][k], usage')
                 /\ ~IsOpen(Rotation[primary][k], failures')
         /\ spent' \in [Callers -> 0..Budget]
<1> DEFINE Passing == {i \in Tried[primary] :
                         /\ i >= j
                         /\ ~AtQuota(Rotation[primary][i], usage')
                         /\ ~IsOpen(Rotation[primary][i], failures')}
<1>0. spent \in [Callers -> 0..Budget] /\ Budget \in Nat
  BY RouterAssumption DEF TypeOK
<1>1. CASE Passing = {} \/ OverBudget(c)
  <2>1. End(c)
    BY <1>1 DEF Proceed
  <2> QED BY <1>0, <2>1 DEF End
<1>2. CASE ~(Passing = {} \/ OverBudget(c))
  <2>1. /\ call' = [call EXCEPT ![c] = [Idle EXCEPT !.step = "asked", !.primary = primary,
                                                    !.at = Least(Passing)]]
        /\ Pay(c)
    BY <1>2 DEF Proceed
  <2>2. Least(Passing) \in Passing
    <3>1. Passing \in SUBSET Nat
      BY RotationTyped
    <3>2. Passing # {}
      BY <1>2
    <3> HIDE DEF Passing
    <3> QED BY <3>1, <3>2, LeastOf
  <2>3. spent' \in [Callers -> 0..Budget]
    BY <1>0, <1>2, <2>1 DEF Pay, OverBudget
  <2>4. /\ Least(Passing) \in Tried[primary] /\ Least(Passing) >= j
        /\ ~AtQuota(Rotation[primary][Least(Passing)], usage')
        /\ ~IsOpen(Rotation[primary][Least(Passing)], failures')
    BY <2>2
  <2>5. call' = [call EXCEPT ![c] = Asks(c, primary, Least(Passing))] /\ Pay(c)
    BY <2>1 DEF Asks
  <2>6. ~OverBudget(c)
    BY <1>2
  <2> HIDE DEF Passing
  <2> QED BY <2>3, <2>4, <2>5, <2>6
<1> QED BY <1>1, <1>2

\* A call that asks a model has the shape of one and stands at that model's place.
LEMMA AsksTyped ==
  ASSUME NEW c \in Callers, NEW primary \in Models, NEW k \in Tried[primary]
  PROVE  /\ Asks(c, primary, k) \in CallStates /\ Asks(c, primary, k).step = "asked"
         /\ Asks(c, primary, k).at # 0 /\ Asks(c, primary, k).sleep = 0
         /\ Asks(c, primary, k).primary = primary /\ Asks(c, primary, k).at = k
<1>1. k \in 1..(Len(Fallbacks) + 1) /\ Len(Fallbacks) \in Nat /\ MaxRetries \in Nat
  BY RotationTyped, RouterAssumption
<1>2. Idle.sleep = 0
  BY DEF Idle
<1>3. k \in 0..(Len(Fallbacks) + 1) /\ k # 0
  BY <1>1
<1>4. Idle \in [step : {"idle", "asked", "asleep"}, primary : Models,
                at : 0..(Len(Fallbacks) + 1), attempt : 0..MaxRetries, sleep : Int]
  BY IdleTyped DEF CallStates
<1>5. /\ Asks(c, primary, k).step = "asked" /\ Asks(c, primary, k).primary = primary
      /\ Asks(c, primary, k).at = k /\ Asks(c, primary, k).sleep = Idle.sleep
  BY <1>4 DEF Asks
<1>6. Asks(c, primary, k) \in CallStates
  BY <1>3, <1>4 DEF Asks, CallStates
<1> QED BY <1>2, <1>3, <1>5, <1>6

\* One call changes, to an end, a request or a wait within the cap.
Wait == AbsoluteCap + AbsoluteCap \div 10
\* Replacing one call by another of the right shape keeps the types of all calls.
LEMMA CallUpdated ==
  ASSUME TypeOK, SleepBounded, NEW c \in Callers, NEW new \in CallStates,
         Placed(new), new.sleep <= Wait,
         call' = [call EXCEPT ![c] = new]
  PROVE  /\ call' \in [Callers -> CallStates]
         /\ \A d \in Callers : Placed(call'[d])
         /\ SleepBounded'
<1>1. call \in [Callers -> CallStates]
  BY DEF TypeOK
<1> QED BY <1>1 DEF TypeOK, SleepBounded, Wait

\* The loop over the rotation keeps the types of the calls.
LEMMA ProceedTyped ==
  ASSUME TypeOK, SleepBounded, NEW c \in Callers, NEW primary \in Models, NEW j \in Nat,
         Proceed(c, primary, j)
  PROVE  /\ call' \in [Callers -> CallStates]
         /\ \A d \in Callers : Placed(call'[d])
         /\ SleepBounded' /\ spent' \in [Callers -> 0..Budget]
<1>0. 0 <= Wait
  BY RouterAssumption DEF Wait
<1>1. CASE call' = [call EXCEPT ![c] = Idle]
  BY <1>0, <1>1, IdleTyped, CallUpdated, Proceeding DEF Idle, Placed
<1>2. ASSUME NEW k \in Tried[primary], call' = [call EXCEPT ![c] = Asks(c, primary, k)]
      PROVE  /\ call' \in [Callers -> CallStates]
             /\ \A d \in Callers : Placed(call'[d])
             /\ SleepBounded'
  <2>1. PICK new : new = Asks(c, primary, k)
    OBVIOUS
  <2>2. new \in CallStates /\ Placed(new) /\ new.sleep <= Wait
    BY <1>0, <2>1, AsksTyped DEF Placed
  <2> QED BY <1>2, <2>1, <2>2, CallUpdated
<1> QED BY <1>1, <1>2, Proceeding

\* A router that has just started satisfies every part.
LEMMA InitInv == Init => RInv
<1> SUFFICES ASSUME Init PROVE RInv
  OBVIOUS
<1>1. TypeOK
  <2>1. \A c \in Callers : Placed(call[c])
    BY DEF Init, Idle, Placed
  <2>2. /\ call \in [Callers -> CallStates] /\ usage \in [Models -> Nat]
        /\ failures \in [Models -> Nat] /\ dayOver \in BOOLEAN
    BY IdleTyped DEF Init
  <2>3. spent \in [Callers -> 0..Budget] /\ days \in 0..MaxDays
    BY RouterAssumption DEF Init
  <2> QED BY <2>1, <2>2, <2>3 DEF TypeOK
<1>2. SleepBounded
  BY RouterAssumption DEF Init, SleepBounded, Idle
<1>3. ASSUME NEW m \in Models
      PROVE  usage[m] + Cardinality(Engaged(m)) <= QuotaOf(m) + Cardinality(Callers) - 1
  <2>1. Engaged(m) = {}
    BY DEF Init, Engaged, Idle
  <2>2. Cardinality(Callers) \in Nat /\ QuotaOf(m) \in Nat \ {0}
    BY FS_CardinalityType, RouterAssumption DEF QuotaOf
  <2> QED BY <2>1, <2>2, FS_EmptySet DEF Init
<1>4. ASSUME NEW m \in Models
      PROVE  failures[m] + Cardinality(Owed(m)) <= Threshold - 1 + Cardinality(Callers) * (MaxRetries + 1)
  <2>1. Owed(m) = {}
    BY DEF Init, Owed, Engaged, Idle
  <2>2. PICK n \in Nat : n = Cardinality(Callers) * (MaxRetries + 1)
    BY FS_CardinalityType, RouterAssumption
  <2>3. Threshold \in Nat /\ Threshold >= 1
    BY RouterAssumption
  <2> QED BY <2>1, <2>2, <2>3, FS_EmptySet DEF Init
<1> QED BY <1>1, <1>2, <1>3, <1>4 DEF RInv, QuotaInv, BreakerInv

\* Usage counters and failure windows stay natural numbers.
LEMMA CountersTyped ==
  ASSUME TypeOK, NEW m \in Models
  PROVE  /\ UsageToday \in [Models -> Nat]
         /\ ResetDaily => usage' \in [Models -> Nat] /\ dayOver' \in BOOLEAN
         /\ Increment(m) => usage' \in [Models -> Nat] /\ dayOver' \in BOOLEAN
         /\ RecordFailure(m) => failures' \in [Models -> Nat]
         /\ RecordSuccess(m) => failures' \in [Models -> Nat]
<1>1. UsageToday \in [Models -> Nat]
  BY DEF TypeOK, UsageToday
<1>2. /\ failures \in [Models -> Nat] /\ failures[m] \in Nat /\ MaxFailures \in Nat
      /\ UsageToday[m] \in Nat
  BY <1>1, RouterAssumption DEF TypeOK
<1>3. RecordFailure(m) => failures' \in [Models -> Nat]
  BY <1>2 DEF RecordFailure
<1>4. Increment(m) => usage' \in [Models -> Nat] /\ dayOver' \in BOOLEAN
  <2>1. PICK u \in [Models -> Nat] : u = UsageToday
    BY <1>1
  <2>2. Increment(m) => usage' = [u EXCEPT ![m] = u[m] + 1] /\ dayOver' = FALSE
    BY <2>1 DEF Increment
  <2>3. [u EXCEPT ![m] = u[m] + 1] \in [Models -> Nat]
    BY <2>1
  <2> QED BY <2>2, <2>3
<1>5. ResetDaily => usage' \in [Models -> Nat] /\ dayOver' \in BOOLEAN
  BY <1>1 DEF ResetDaily
<1>6. RecordSuccess(m) => failures' \in [Models -> Nat]
  BY <1>2 DEF RecordSuccess
<1> QED BY <1>1, <1>3, <1>4, <1>5, <1>6

\* Types and waits are kept, action by action.
LEMMA TypeStep ==
  ASSUME TypeOK, SleepBounded, [Next]_vars
  PROVE  TypeOK' /\ SleepBounded'
<1>0. /\ spent \in [Callers -> 0..Budget] /\ days \in 0..MaxDays /\ Budget \in Nat
      /\ MaxDays \in Nat /\ MaxRetries \in Nat /\ call \in [Callers -> CallStates]
      /\ usage \in [Models -> Nat] /\ failures \in [Models -> Nat] /\ dayOver \in BOOLEAN
  BY RouterAssumption DEF TypeOK
<1>01. 0 <= Wait
  BY RouterAssumption DEF Wait
<1> DEFINE CallOK == /\ call' \in [Callers -> CallStates]
                     /\ \A d \in Callers : Placed(call'[d])
                     /\ SleepBounded'
           SpentOK == spent' \in [Callers -> 0..Budget]
           CountersOK == /\ usage' \in [Models -> Nat] /\ failures' \in [Models -> Nat]
                         /\ dayOver' \in BOOLEAN
           Goal == CallOK /\ SpentOK /\ CountersOK /\ days' \in 0..MaxDays
<1>1. ASSUME NEW c \in Callers, End(c)
      PROVE  CallOK /\ SpentOK
  <2>1. CallOK
    BY <1>01, <1>1, IdleTyped, CallUpdated DEF End, Idle, Placed
  <2> QED BY <1>0, <1>1, <2>1 DEF End
<1>2. ASSUME NEW c \in Callers, Begin(c)
      PROVE  Goal
  <2>1. PICK primary \in Primaries :
          ResetDaily /\ UNCHANGED <<failures, days>> /\ Proceed(c, primary, 1)
    BY <1>2 DEF Begin
  <2>2. primary \in Models
    BY PrimariesTyped
  <2> QED BY <1>0, <2>1, <2>2, ProceedTyped, CountersTyped
<1>3. ASSUME NEW c \in Callers, Rotates(c) \/ Exhausts(c)
      PROVE  Goal
  <2>1. /\ RecordFailure(ModelOf(c)) /\ Increment(ModelOf(c)) /\ UNCHANGED days
        /\ Proceed(c, call[c].primary, call[c].at + 1) /\ call[c].step = "asked"
    BY <1>3 DEF Rotates, Exhausts
  <2>2. ModelOf(c) \in Models /\ call[c].primary \in Models /\ call[c].at + 1 \in Nat
    BY <2>1, CallTyped
  <2>3. CallOK /\ SpentOK
    BY <2>1, <2>2, ProceedTyped
  <2>4. CountersOK
    BY <2>1, <2>2, CountersTyped
  <2> QED BY <1>0, <2>1, <2>3, <2>4
<1>4. ASSUME NEW c \in Callers, Succeeds(c)
      PROVE  Goal
  <2>1. ModelOf(c) \in Models
    BY <1>4, CallTyped DEF Succeeds
  <2> QED BY <1>0, <1>1, <1>4, <2>1, CountersTyped DEF Succeeds
<1>5. ASSUME NEW c \in Callers, GivesUp(c)
      PROVE  Goal
  BY <1>0, <1>1, <1>5 DEF GivesUp
<1>6. ASSUME NEW c \in Callers, BacksOff(c)
      PROVE  Goal
  <2>1. PICK seconds \in Sleeps(call[c].attempt) :
          call' = [call EXCEPT ![c].step = "asleep", ![c].sleep = seconds]
    BY <1>6 DEF BacksOff
  <2>2. seconds \in Int /\ seconds <= Wait
    BY CallTyped, SleepsTyped DEF Wait
  <2>3. PICK new : new = [call[c] EXCEPT !.step = "asleep", !.sleep = seconds]
    OBVIOUS
  <2>4. call' = [call EXCEPT ![c] = new]
    BY <1>0, <2>1, <2>3
  <2>5. /\ new \in CallStates /\ new.at = call[c].at /\ new.sleep = seconds
        /\ new.attempt = call[c].attempt
    BY <1>0, <2>2, <2>3 DEF CallStates
  <2>6. Placed(new)
    BY <1>6, <2>5, CallTyped DEF BacksOff, AnotherAttempt, Placed
  <2>7. CallOK
    BY <2>2, <2>4, <2>5, <2>6, CallUpdated
  <2>8. ModelOf(c) \in Models
    BY <1>6, CallTyped DEF BacksOff
  <2> QED BY <1>0, <1>6, <2>7, <2>8, CountersTyped DEF BacksOff
<1>7. ASSUME NEW c \in Callers, Wakes(c)
      PROVE  Goal
  <2>1. CASE OverBudget(c)
    BY <1>0, <1>1, <1>7, <2>1 DEF Wakes
  <2>2. CASE ~OverBudget(c)
    <3>1. /\ call' = [call EXCEPT ![c].step = "asked", ![c].sleep = 0,
                                  ![c].attempt = NextAttempt(c)]
          /\ Pay(c)
      BY <1>7, <2>2 DEF Wakes
    <3>2. call[c].attempt + 1 \in 0..MaxRetries /\ call[c].at # 0
      <4>1. call[c].step = "asleep"
        BY <1>7 DEF Wakes
      <4>2. call[c].attempt < MaxRetries /\ call[c].at # 0
        BY <1>0, <4>1 DEF TypeOK, Placed
      <4>3. call[c].attempt \in Nat
        BY <1>0, CallTyped
      <4>4. MaxRetries \in Nat
        BY RouterAssumption
      <4> QED BY <4>2, <4>3, <4>4
    <3>3. PICK new : new = [call[c] EXCEPT !.step = "asked", !.sleep = 0,
                                           !.attempt = call[c].attempt + 1]
      OBVIOUS
    <3>4. call' = [call EXCEPT ![c] = new]
      BY <1>0, <3>1, <3>3 DEF NextAttempt
    <3>5. /\ new \in CallStates /\ new.step = "asked" /\ new.sleep = 0
          /\ new.at = call[c].at
      <4>1. PICK more \in 0..MaxRetries : more = call[c].attempt + 1
        BY <3>2
      <4>2. new = [call[c] EXCEPT !.step = "asked", !.sleep = 0, !.attempt = more]
        BY <3>3, <4>1
      <4>3. new.step = "asked" /\ new.sleep = 0 /\ new.at = call[c].at
        BY <1>0, <4>2 DEF CallStates
      <4>4. call[c] \in CallStates /\ 0 \in Int
        BY <1>0
      <4>5. new \in CallStates
        BY <4>2, <4>4 DEF CallStates
      <4> QED BY <4>3, <4>5
    <3>6. CallOK
      BY <1>01, <3>2, <3>4, <3>5, CallUpdated DEF Placed
    <3>7. SpentOK
      BY <1>0, <2>2, <3>1 DEF Pay, OverBudget
    <3> QED BY <1>0, <1>7, <3>6, <3>7 DEF Wakes
  <2> QED BY <2>1, <2>2
<1>8. ASSUME NEW c \in Callers, NewRun(c)
      PROVE  Goal
  BY <1>0, <1>8 DEF NewRun, TypeOK, SleepBounded
<1>9. ASSUME NEW m \in Models, Expires(m)
      PROVE  Goal
  BY <1>0, <1>9 DEF Expires, TypeOK, SleepBounded
<1>10. CASE DayPasses
  BY <1>0, <1>10 DEF DayPasses, TypeOK, SleepBounded
<1>11. CASE UNCHANGED vars
  BY <1>11 DEF vars, TypeOK, SleepBounded
<1> QED
  BY <1>2, <1>3, <1>4, <1>5, <1>6, <1>7, <1>8, <1>9, <1>10, <1>11 DEF Next, Answer, TypeOK

-----------------------------------------------------------------------------
\* The quota of a model is at least one.
LEMMA QuotaTyped ==
  ASSUME NEW m \in Models
  PROVE  QuotaOf(m) \in Nat /\ QuotaOf(m) >= 1
<1>1. CASE m \in DOMAIN Quotas
  <2>1. Quotas[m] \in Nat \ {0}
    BY <1>1, RouterAssumption
  <2> QED BY <1>1, <2>1 DEF QuotaOf
<1>2. CASE m \notin DOMAIN Quotas
  <2>1. DefaultQuota \in Nat \ {0}
    BY RouterAssumption
  <2> QED BY <1>2, <2>1 DEF QuotaOf
<1> QED BY <1>1, <1>2

\* The quota.  What a step does to a model's counter and to the calls engaged there: it
\* lets one in below the quota, or none, or takes one out and counts it.
LEMMA QuotaKept ==
  ASSUME TypeOK, QuotaInv, NEW m \in Models, NEW used \in Nat, NEW T \in SUBSET Callers,
         \/ used < QuotaOf(m)
         \/ (used <= usage[m] \/ used = 0) /\ T \subseteq Engaged(m)
         \/ \E c \in Engaged(m) : (used <= usage[m] + 1 \/ used = 1) /\ T \subseteq Engaged(m) \ {c}
  PROVE  used + Cardinality(T) <= QuotaOf(m) + Cardinality(Callers) - 1
<1>0. PICK q \in Nat : q = QuotaOf(m) /\ q >= 1
  BY QuotaTyped
<1>1. PICK n \in Nat, t \in Nat : n = Cardinality(Callers) /\ t = Cardinality(T) /\ t <= n
  BY RouterAssumption, FS_Subset, FS_CardinalityType
<1>2. Engaged(m) \in SUBSET Callers /\ IsFiniteSet(Callers)
  BY RouterAssumption DEF Engaged
<1>3. PICK e \in Nat : e = Cardinality(Engaged(m)) /\ e <= n /\ IsFiniteSet(Engaged(m))
  BY <1>1, <1>2, FS_Subset, FS_CardinalityType
<1>4. PICK u \in Nat : u = usage[m] /\ u + e <= q + n - 1
  BY <1>0, <1>1, <1>3 DEF QuotaInv, TypeOK
<1>5. CASE used < QuotaOf(m)
  BY <1>0, <1>1, <1>5
<1>6. CASE (used <= usage[m] \/ used = 0) /\ T \subseteq Engaged(m)
  <2>1. t <= e
    BY <1>1, <1>3, <1>6, FS_Subset
  <2>2. used <= u \/ used = 0
    BY <1>4, <1>6
  <2>3. used + t <= q + n - 1
    BY <1>0, <1>1, <1>3, <1>4, <2>1, <2>2
  <2> QED BY <1>0, <1>1, <2>3
<1>7. ASSUME NEW c \in Engaged(m), used <= usage[m] + 1 \/ used = 1, T \subseteq Engaged(m) \ {c}
      PROVE  used + Cardinality(T) <= QuotaOf(m) + Cardinality(Callers) - 1
  <2>1. IsFiniteSet(Engaged(m) \ {c}) /\ Cardinality(Engaged(m) \ {c}) = e - 1
    BY <1>3, FS_RemoveElement
  <2>2. t <= e - 1
    BY <1>1, <1>7, <2>1, FS_Subset
  <2>3. used <= u + 1 \/ used = 1
    BY <1>4, <1>7
  <2>4. used + t <= q + n - 1
    BY <1>0, <1>1, <1>3, <1>4, <2>2, <2>3
  <2> QED BY <1>0, <1>1, <2>4
<1> QED BY <1>5, <1>6, <1>7

\* Who is engaged where, when one call changes.
LEMMA EngagedAfter ==
  ASSUME TypeOK, NEW c \in Callers, NEW new, call' = [call EXCEPT ![c] = new], NEW m \in Models
  PROVE  /\ Engaged(m)' \in SUBSET Callers
         /\ \/ new.step = "idle"
            \/ Rotation[new.primary][new.at] # m
            => Engaged(m)' \subseteq Engaged(m) \ {c}
         /\ new.step # "idle" /\ call[c].step # "idle" /\ new.primary = call[c].primary
               /\ new.at = call[c].at
            => Engaged(m)' = Engaged(m)
  BY DEF Engaged, ModelOf, TypeOK

\* A call that ends is no longer engaged with any model.
LEMMA EngagedEnds ==
  ASSUME TypeOK, NEW c \in Callers, call' = [call EXCEPT ![c] = Idle], NEW m \in Models
  PROVE  Engaged(m)' \subseteq Engaged(m) \ {c}
<1>1. PICK new : new = Idle
  OBVIOUS
<1>2. call' = [call EXCEPT ![c] = new] /\ new.step = "idle"
  BY <1>1 DEF Idle
<1> QED BY <1>2, EngagedAfter

\* The loop over the rotation engages a call only with a model below its quota.
LEMMA EngagedProceeding ==
  ASSUME TypeOK, NEW c \in Callers, NEW primary \in Models, NEW j \in Nat,
         Proceed(c, primary, j), NEW m \in Models, usage' \in [Models -> Nat]
  PROVE  /\ Engaged(m)' \in SUBSET Callers
         /\ usage'[m] < QuotaOf(m) \/ Engaged(m)' \subseteq Engaged(m) \ {c}
<1>1. CASE call' = [call EXCEPT ![c] = Idle]
  BY <1>1, EngagedEnds DEF Engaged
<1>2. ASSUME NEW k \in Tried[primary], call' = [call EXCEPT ![c] = Asks(c, primary, k)],
             ~AtQuota(Rotation[primary][k], usage')
      PROVE  /\ Engaged(m)' \in SUBSET Callers
             /\ usage'[m] < QuotaOf(m) \/ Engaged(m)' \subseteq Engaged(m) \ {c}
  <2>1. PICK new : new = Asks(c, primary, k)
    OBVIOUS
  <2>2. call' = [call EXCEPT ![c] = new] /\ new.primary = primary /\ new.at = k
    BY <1>2, <2>1, AsksTyped
  <2>3. CASE Rotation[primary][k] = m
    <3>1. usage'[m] < QuotaOf(m)
      BY <1>2, <2>3, QuotaTyped DEF AtQuota
    <3> QED BY <3>1 DEF Engaged
  <2>4. CASE Rotation[primary][k] # m
    BY <2>2, <2>4, EngagedAfter
  <2> QED BY <2>3, <2>4
<1> QED BY <1>1, <1>2, Proceeding

\* Usage and the calls still to be counted stay within the bound: QuotaInv is preserved.
LEMMA QuotaStep ==
  ASSUME TypeOK, TypeOK', QuotaInv, [Next]_vars
  PROVE  QuotaInv'
<1> SUFFICES ASSUME NEW m \in Models
             PROVE  usage'[m] + Cardinality(Engaged(m)') <= QuotaOf(m) + Cardinality(Callers) - 1
  BY DEF QuotaInv
<1> DEFINE Goal == usage'[m] + Cardinality(Engaged(m)') <= QuotaOf(m) + Cardinality(Callers) - 1
<1>0. /\ usage \in [Models -> Nat] /\ usage' \in [Models -> Nat] /\ usage[m] \in Nat /\ usage'[m] \in Nat
      /\ Engaged(m)' \in SUBSET Callers
  BY DEF TypeOK, Engaged
<1>1. ASSUME UNCHANGED usage, Engaged(m)' \subseteq Engaged(m)
      PROVE  Goal
  BY <1>0, <1>1, QuotaKept
<1>2. ASSUME NEW c \in Callers, Begin(c)
      PROVE  Goal
  <2>1. PICK primary \in Primaries : ResetDaily /\ Proceed(c, primary, 1)
    BY <1>2 DEF Begin
  <2>2. usage'[m] = usage[m] \/ usage'[m] = 0
    BY <2>1 DEF ResetDaily, UsageToday
  <2>3. usage'[m] < QuotaOf(m) \/ Engaged(m)' \subseteq Engaged(m)
    BY <1>0, <2>1, PrimariesTyped, EngagedProceeding
  <2> QED BY <1>0, <2>2, <2>3, QuotaKept
<1>3. ASSUME NEW c \in Callers, Increment(ModelOf(c)), call[c].step # "idle",
             usage'[m] < QuotaOf(m) \/ Engaged(m)' \subseteq Engaged(m) \ {c}
      PROVE  Goal
  <2>0. ModelOf(c) \in Models
    BY <1>3, CallTyped
  <2>1. PICK u \in [Models -> Nat] : u = UsageToday
    BY CountersTyped
  <2>2. u[m] = usage[m] \/ u[m] = 0
    BY <2>1 DEF UsageToday
  <2>3. usage' = [u EXCEPT ![ModelOf(c)] = u[ModelOf(c)] + 1]
    BY <1>3, <2>1 DEF Increment
  <2>4. CASE usage'[m] < QuotaOf(m)
    BY <1>0, <2>4, QuotaKept
  <2>5. CASE Engaged(m)' \subseteq Engaged(m) \ {c} /\ ModelOf(c) = m
    <3>1. c \in Engaged(m)
      BY <1>3, <2>5 DEF Engaged
    <3>2. usage'[m] <= usage[m] + 1 \/ usage'[m] = 1
      BY <1>0, <2>2, <2>3, <2>5
    <3> QED BY <1>0, <2>5, <3>1, <3>2, QuotaKept
  <2>6. CASE Engaged(m)' \subseteq Engaged(m) \ {c} /\ ModelOf(c) # m
    <3>1. usage'[m] <= usage[m] \/ usage'[m] = 0
      BY <1>0, <2>2, <2>3, <2>6
    <3>2. Engaged(m)' \subseteq Engaged(m)
      BY <2>6
    <3> QED BY <1>0, <3>1, <3>2, QuotaKept
  <2> QED BY <1>3, <2>4, <2>5, <2>6
<1>4. ASSUME NEW c \in Callers, Rotates(c) \/ Exhausts(c)
      PROVE  Goal
  <2>1. /\ Increment(ModelOf(c)) /\ call[c].step = "asked"
        /\ Proceed(c, call[c].primary, call[c].at + 1)
    BY <1>4 DEF Rotates, Exhausts
  <2>2. call[c].primary \in Models /\ call[c].at + 1 \in Nat
    BY CallTyped
  <2> QED BY <1>0, <1>3, <2>1, <2>2, EngagedProceeding
<1>5. ASSUME NEW c \in Callers, Succeeds(c)
      PROVE  Goal
  <2>1. Engaged(m)' \subseteq Engaged(m) \ {c}
    BY <1>5, EngagedEnds DEF Succeeds, End
  <2> QED BY <1>3, <1>5, <2>1 DEF Succeeds
<1>6. ASSUME NEW c \in Callers, GivesUp(c)
      PROVE  Goal
  <2>1. Engaged(m)' \subseteq Engaged(m)
    BY <1>6, EngagedEnds DEF GivesUp, End
  <2> QED BY <1>1, <1>6, <2>1 DEF GivesUp
<1>7. ASSUME NEW c \in Callers, BacksOff(c) \/ Wakes(c)
      PROVE  Goal
  <2>1. UNCHANGED usage /\ call[c].step # "idle"
    BY <1>7 DEF BacksOff, Wakes
  <2>2. CASE End(c)
    BY <1>1, <2>1, <2>2, EngagedEnds DEF End
  <2>3. CASE ~End(c)
    <3>0. call \in [Callers -> CallStates]
      BY DEF TypeOK
    <3>1. \A d \in Callers : /\ call'[d].at = call[d].at /\ call'[d].primary = call[d].primary
                             /\ d # c => call'[d].step = call[d].step
      <4>1. CASE BacksOff(c)
        <5>1. PICK seconds : call' = [call EXCEPT ![c].step = "asleep", ![c].sleep = seconds]
          BY <4>1 DEF BacksOff
        <5> QED BY <3>0, <5>1 DEF CallStates
      <4>2. CASE Wakes(c)
        <5>1. call' = [call EXCEPT ![c].step = "asked", ![c].sleep = 0,
                                   ![c].attempt = NextAttempt(c)]
          BY <2>3, <4>2 DEF Wakes
        <5>2. PICK more : more = NextAttempt(c)
          OBVIOUS
        <5>3. call' = [call EXCEPT ![c].step = "asked", ![c].sleep = 0, ![c].attempt = more]
          BY <5>1, <5>2
        <5> QED BY <3>0, <5>3 DEF CallStates
      <4> QED BY <1>7, <4>1, <4>2
    <3>2. Engaged(m)' \subseteq Engaged(m)
      BY <2>1, <3>1 DEF Engaged, ModelOf
    <3> QED BY <1>1, <2>1, <3>2
  <2> QED BY <2>2, <2>3
<1>8. ASSUME UNCHANGED <<call, usage>>
      PROVE  Goal
  BY <1>1, <1>8 DEF Engaged, ModelOf
<1>9. ASSUME NEW c \in Callers, NewRun(c)
      PROVE  Goal
  BY <1>8, <1>9 DEF NewRun
<1>10. CASE (\E n \in Models : Expires(n)) \/ DayPasses \/ UNCHANGED vars
  BY <1>8, <1>10 DEF Expires, DayPasses, vars
<1> QED BY <1>2, <1>4, <1>5, <1>6, <1>7, <1>9, <1>10 DEF Next, Answer

-----------------------------------------------------------------------------
\* The circuit.  What a step does to a model's window and to the failures owed there: it
\* lets a call in while the circuit is closed, or owes no more, or one owed has come.
LEMMA BreakerKept ==
  ASSUME TypeOK, BreakerInv, NEW m \in Models, NEW failed \in Nat, NEW T \in SUBSET Attempts,
         \/ failed < Threshold
         \/ failed <= failures[m] /\ T \subseteq Owed(m)
         \/ \E x \in Owed(m) : failed <= failures[m] + 1 /\ T \subseteq Owed(m) \ {x}
  PROVE  failed + Cardinality(T) <= Threshold - 1 + Cardinality(Callers) * (MaxRetries + 1)
<1>0. Threshold \in Nat /\ MaxRetries \in Nat /\ IsFiniteSet(Callers)
  BY RouterAssumption
<1>1. IsFiniteSet(0..MaxRetries) /\ Cardinality(0..MaxRetries) = MaxRetries + 1
  BY <1>0, FS_Interval
<1>2. /\ IsFiniteSet(Attempts)
      /\ Cardinality(Attempts) = Cardinality(Callers) * (MaxRetries + 1)
  BY <1>0, <1>1, FS_Product DEF Attempts
<1>3. PICK n \in Nat, t \in Nat :
        n = Cardinality(Callers) * (MaxRetries + 1) /\ t = Cardinality(T) /\ t <= n
  BY <1>2, FS_Subset, FS_CardinalityType
<1>4. Owed(m) \in SUBSET Attempts
  BY DEF Owed
<1>5. PICK e \in Nat : e = Cardinality(Owed(m)) /\ IsFiniteSet(Owed(m))
  BY <1>2, <1>4, FS_Subset, FS_CardinalityType
<1>6. PICK f \in Nat : f = failures[m] /\ f + e <= Threshold - 1 + n
  BY <1>3, <1>5 DEF BreakerInv, TypeOK
<1>7. CASE failed < Threshold
  BY <1>0, <1>3, <1>7
<1>8. CASE failed <= failures[m] /\ T \subseteq Owed(m)
  <2>1. t <= e
    BY <1>3, <1>5, <1>8, FS_Subset
  <2>2. failed <= f
    BY <1>6, <1>8
  <2>3. failed + t <= Threshold - 1 + n
    BY <1>0, <1>3, <1>5, <1>6, <2>1, <2>2
  <2> QED BY <1>3, <2>3
<1>9. ASSUME NEW x \in Owed(m), failed <= failures[m] + 1, T \subseteq Owed(m) \ {x}
      PROVE  failed + Cardinality(T) <= Threshold - 1 + Cardinality(Callers) * (MaxRetries + 1)
  <2>1. IsFiniteSet(Owed(m) \ {x}) /\ Cardinality(Owed(m) \ {x}) = e - 1
    BY <1>5, FS_RemoveElement
  <2>2. t <= e - 1
    BY <1>3, <1>9, <2>1, FS_Subset
  <2>3. failed <= f + 1
    BY <1>6, <1>9
  <2>4. failed + t <= Threshold - 1 + n
    BY <1>0, <1>3, <1>5, <1>6, <2>2, <2>3
  <2> QED BY <1>3, <2>4
<1> QED BY <1>7, <1>8, <1>9

\* A call that leaves a model takes what it owed with it.
LEMMA OwedWithout ==
  ASSUME TypeOK, NEW c \in Callers, NEW new, call' = [call EXCEPT ![c] = new], NEW m \in Models,
         Engaged(m)' \subseteq Engaged(m) \ {c}
  PROVE  Owed(m)' \subseteq {x \in Owed(m) : x[1] # c}
<1>1. \A d \in Callers : d # c => call'[d] = call[d]
  BY DEF TypeOK
<1>2. ASSUME NEW x \in Owed(m)'
      PROVE  x \in Owed(m) /\ x[1] # c
  <2>1. x \in Attempts /\ x[1] \in Engaged(m)' /\ x[1] \in Callers
    BY DEF Owed, Attempts
  <2>2. x[1] # c /\ x[1] \in Engaged(m) /\ call'[x[1]] = call[x[1]]
    BY <1>1, <2>1
  <2> QED BY <2>1, <2>2 DEF Owed, Ahead
<1> QED BY <1>2

\* The loop over the rotation adds failures a call may still cause only to a model whose
\* circuit is closed.
LEMMA OwedProceeding ==
  ASSUME TypeOK, NEW c \in Callers, NEW primary \in Models, NEW j \in Nat,
         Proceed(c, primary, j), NEW m \in Models, failures' \in [Models -> Nat]
  PROVE  failures'[m] < Threshold \/ Owed(m)' \subseteq {x \in Owed(m) : x[1] # c}
<1>1. CASE call' = [call EXCEPT ![c] = Idle]
  <2>1. PICK new : new = Idle
    OBVIOUS
  <2> QED BY <1>1, <2>1, EngagedEnds, OwedWithout
<1>2. ASSUME NEW k \in Tried[primary], call' = [call EXCEPT ![c] = Asks(c, primary, k)],
             ~IsOpen(Rotation[primary][k], failures')
      PROVE  failures'[m] < Threshold \/ Owed(m)' \subseteq {x \in Owed(m) : x[1] # c}
  <2>1. PICK new : new = Asks(c, primary, k)
    OBVIOUS
  <2>2. call' = [call EXCEPT ![c] = new] /\ new.primary = primary /\ new.at = k
    BY <1>2, <2>1, AsksTyped
  <2>3. CASE Rotation[primary][k] = m
    <3>1. Threshold \in Nat
      BY RouterAssumption
    <3> QED BY <1>2, <2>3, <3>1 DEF IsOpen
  <2>4. CASE Rotation[primary][k] # m
    BY <2>2, <2>4, EngagedAfter, OwedWithout
  <2> QED BY <2>3, <2>4
<1> QED BY <1>1, <1>2, Proceeding

\* The failure that has come was owed.
LEMMA OwedNow ==
  ASSUME TypeOK, NEW c \in Callers, call[c].step = "asked", NEW m \in Models, ModelOf(c) = m
  PROVE  <<c, call[c].attempt>> \in Owed(m)
<1>1. call[c].attempt \in 0..MaxRetries
  BY CallTyped
<1> QED BY <1>1 DEF Owed, Attempts, Engaged, Ahead

\* Failures counted and failures still possible stay within the bound: BreakerInv is
\* preserved.
LEMMA BreakerStep ==
  ASSUME TypeOK, TypeOK', BreakerInv, [Next]_vars
  PROVE  BreakerInv'
<1> SUFFICES ASSUME NEW m \in Models
             PROVE  failures'[m] + Cardinality(Owed(m)')
                      <= Threshold - 1 + Cardinality(Callers) * (MaxRetries + 1)
  BY DEF BreakerInv
<1> DEFINE Goal == failures'[m] + Cardinality(Owed(m)')
                     <= Threshold - 1 + Cardinality(Callers) * (MaxRetries + 1)
<1>0. /\ failures \in [Models -> Nat] /\ failures' \in [Models -> Nat]
      /\ failures[m] \in Nat /\ failures'[m] \in Nat /\ Owed(m)' \in SUBSET Attempts
      /\ call \in [Callers -> CallStates]
  BY DEF TypeOK, Owed
<1>1. ASSUME failures'[m] <= failures[m], Owed(m)' \subseteq Owed(m)
      PROVE  Goal
  BY <1>0, <1>1, BreakerKept
<1>2. ASSUME NEW c \in Callers, Begin(c)
      PROVE  Goal
  <2>1. PICK primary \in Primaries : failures' = failures /\ Proceed(c, primary, 1)
    BY <1>2 DEF Begin
  <2>2. failures'[m] < Threshold \/ Owed(m)' \subseteq Owed(m)
    BY <1>0, <2>1, PrimariesTyped, OwedProceeding
  <2> QED BY <1>0, <2>1, <2>2, BreakerKept
<1>3. ASSUME NEW c \in Callers, RecordFailure(ModelOf(c)), call[c].step = "asked",
             \/ failures'[m] < Threshold
             \/ /\ Owed(m)' \subseteq Owed(m)
                /\ ModelOf(c) = m => <<c, call[c].attempt>> \notin Owed(m)'
      PROVE  Goal
  <2>0. ModelOf(c) \in Models /\ MaxFailures \in Nat
    BY <1>3, CallTyped, RouterAssumption
  <2>1. failures'[m] <= failures[m] + 1 /\ (ModelOf(c) # m => failures'[m] = failures[m])
    BY <1>0, <1>3, <2>0 DEF RecordFailure
  <2>2. CASE failures'[m] < Threshold
    BY <1>0, <2>2, BreakerKept
  <2>3. CASE failures'[m] >= Threshold /\ ModelOf(c) = m
    <3>1. Threshold \in Nat
      BY RouterAssumption
    <3>2. PICK x \in Owed(m) : x \notin Owed(m)'
      BY <1>0, <1>3, <2>3, <3>1, OwedNow
    <3>3. Owed(m)' \subseteq Owed(m) \ {x}
      BY <1>0, <1>3, <2>3, <3>1, <3>2
    <3> QED BY <1>0, <2>1, <3>2, <3>3, BreakerKept
  <2>4. CASE failures'[m] >= Threshold /\ ModelOf(c) # m
    <3>1. Threshold \in Nat
      BY RouterAssumption
    <3> QED BY <1>0, <1>1, <1>3, <2>1, <2>4, <3>1
  <2>5. Threshold \in Nat
    BY RouterAssumption
  <2> QED BY <1>0, <2>2, <2>3, <2>4, <2>5
<1>4. ASSUME NEW c \in Callers, Rotates(c) \/ Exhausts(c)
      PROVE  Goal
  <2>1. /\ RecordFailure(ModelOf(c)) /\ call[c].step = "asked"
        /\ Proceed(c, call[c].primary, call[c].at + 1)
    BY <1>4 DEF Rotates, Exhausts
  <2>2. call[c].primary \in Models /\ call[c].at + 1 \in Nat
    BY CallTyped
  <2>3. failures'[m] < Threshold \/ Owed(m)' \subseteq {x \in Owed(m) : x[1] # c}
    BY <1>0, <2>1, <2>2, OwedProceeding
  <2>4. \/ failures'[m] < Threshold
        \/ Owed(m)' \subseteq Owed(m) /\ <<c, call[c].attempt>> \notin Owed(m)'
    BY <2>3
  <2> QED BY <1>3, <2>1, <2>4
<1>5. ASSUME NEW c \in Callers, Succeeds(c) \/ GivesUp(c)
      PROVE  Goal
  <2>1. call' = [call EXCEPT ![c] = Idle] /\ call[c].step = "asked"
    BY <1>5 DEF Succeeds, GivesUp, End
  <2>2. Owed(m)' \subseteq Owed(m)
    <3>1. PICK new : new = Idle
      OBVIOUS
    <3> QED BY <2>1, <3>1, EngagedEnds, OwedWithout
  <2>3. failures'[m] <= failures[m]
    BY <1>0, <1>5 DEF Succeeds, GivesUp, RecordSuccess
  <2> QED BY <1>1, <2>2, <2>3
<1>6. ASSUME NEW c \in Callers, BacksOff(c)
      PROVE  Goal
  <2>1. PICK seconds : call' = [call EXCEPT ![c].step = "asleep", ![c].sleep = seconds]
    BY <1>6 DEF BacksOff
  <2>2. /\ \A d \in Callers : /\ call'[d].at = call[d].at /\ call'[d].primary = call[d].primary
                              /\ call'[d].attempt = call[d].attempt
                              /\ d # c => call'[d].step = call[d].step
        /\ call'[c].step = "asleep"
    BY <1>0, <2>1 DEF CallStates
  <2>3. RecordFailure(ModelOf(c)) /\ call[c].step = "asked" /\ call[c].attempt \in Nat
    BY <1>6, CallTyped DEF BacksOff
  <2>4. Owed(m)' \subseteq Owed(m)
    <3>1. ASSUME NEW x \in Owed(m)'
          PROVE  x \in Owed(m)
      <4>1. PICK d \in Callers, n \in Nat :
              x = <<d, n>> /\ x \in Attempts /\ d \in Engaged(m)' /\ Ahead(d, n)'
        BY RouterAssumption DEF Owed, Attempts
      <4>2. d \in Engaged(m)
        <5>1. call'[d].step # "idle" /\ ModelOf(d)' = m
          BY <4>1 DEF Engaged
        <5>2. ModelOf(d) = m
          BY <2>2, <4>1, <5>1 DEF ModelOf
        <5>3. call[d].step # "idle"
          BY <2>2, <2>3, <4>1, <5>1
        <5> QED BY <4>1, <5>2, <5>3 DEF Engaged
      <4>3. Ahead(d, n)
        <5>1. n > call'[d].attempt \/ (n = call'[d].attempt /\ call'[d].step = "asked")
          BY <4>1 DEF Ahead
        <5>2. d = c => call'[d].step # "asked"
          BY <2>2
        <5> QED BY <2>2, <2>3, <4>1, <5>1, <5>2 DEF Ahead
      <4> QED BY <4>1, <4>2, <4>3 DEF Owed
    <3> QED BY <3>1
  <2>5. <<c, call[c].attempt>> \notin Owed(m)'
    <3>1. PICK n \in Nat : n = call[c].attempt
      BY <2>3
    <3>2. ~Ahead(c, n)'
      BY <2>2, <3>1 DEF Ahead
    <3>3. <<c, n>> \notin Owed(m)'
      BY <3>2 DEF Owed
    <3> QED BY <3>1, <3>3
  <2> QED BY <1>3, <2>3, <2>4, <2>5
<1>7. ASSUME NEW c \in Callers, Wakes(c)
      PROVE  Goal
  <2>1. failures' = failures /\ call[c].step = "asleep" /\ call[c].attempt \in Nat
    BY <1>7, CallTyped DEF Wakes
  <2>2. CASE call' = [call EXCEPT ![c] = Idle]
    <3>1. PICK new : new = Idle
      OBVIOUS
    <3>2. Owed(m)' \subseteq Owed(m)
      BY <2>2, <3>1, EngagedEnds, OwedWithout
    <3> QED BY <1>0, <1>1, <2>1, <3>2
  <2>3. CASE call' = [call EXCEPT ![c].step = "asked", ![c].sleep = 0, ![c].attempt = NextAttempt(c)]
    <3>1. PICK more \in Nat : more = NextAttempt(c) /\ more = call[c].attempt + 1
      BY <2>1 DEF NextAttempt
    <3>2. call' = [call EXCEPT ![c].step = "asked", ![c].sleep = 0, ![c].attempt = more]
      BY <2>3, <3>1
    <3>3. /\ \A d \in Callers : /\ call'[d].at = call[d].at /\ call'[d].primary = call[d].primary
                                /\ d # c => call'[d] = call[d]
          /\ call'[c].step = "asked" /\ call'[c].attempt = more
      BY <1>0, <3>2 DEF CallStates
    <3>4. ASSUME NEW x \in Owed(m)'
          PROVE  x \in Owed(m)
      <4>1. PICK d \in Callers, n \in Nat :
              x = <<d, n>> /\ x \in Attempts /\ d \in Engaged(m)' /\ Ahead(d, n)'
        BY RouterAssumption DEF Owed, Attempts
      <4>2. d \in Engaged(m)
        <5>1. call'[d].step # "idle" /\ ModelOf(d)' = m
          BY <4>1 DEF Engaged
        <5>2. ModelOf(d) = m
          BY <3>3, <4>1, <5>1 DEF ModelOf
        <5>3. call[d].step # "idle"
          BY <2>1, <3>3, <4>1, <5>1
        <5> QED BY <4>1, <5>2, <5>3 DEF Engaged
      <4>3. Ahead(d, n)
        <5>1. n > call'[d].attempt \/ (n = call'[d].attempt /\ call'[d].step = "asked")
          BY <4>1 DEF Ahead
        <5>2. CASE d = c
          BY <2>1, <3>1, <3>3, <4>1, <5>1, <5>2 DEF Ahead
        <5>3. CASE d # c
          BY <3>3, <4>1, <5>1, <5>3 DEF Ahead
        <5> QED BY <5>2, <5>3
      <4> QED BY <4>1, <4>2, <4>3 DEF Owed
    <3> QED BY <1>0, <1>1, <2>1, <3>4
  <2> QED BY <1>7, <2>2, <2>3 DEF Wakes, End
<1>8. ASSUME UNCHANGED call, failures'[m] <= failures[m]
      PROVE  Goal
  BY <1>1, <1>8 DEF Owed, Engaged, ModelOf, Ahead
<1>9. ASSUME NEW c \in Callers, NewRun(c)
      PROVE  Goal
  BY <1>0, <1>8, <1>9 DEF NewRun
<1>10. ASSUME NEW n \in Models, Expires(n)
       PROVE  Goal
  <2>1. failures'[m] <= failures[m]
    BY <1>0, <1>10 DEF Expires
  <2> QED BY <1>8, <1>10, <2>1 DEF Expires
<1>11. CASE DayPasses \/ UNCHANGED vars
  BY <1>0, <1>8, <1>11 DEF DayPasses, vars
<1> QED BY <1>2, <1>4, <1>5, <1>6, <1>7, <1>9, <1>10, <1>11 DEF Next, Answer

-----------------------------------------------------------------------------
\* The invariant holds in every reachable state, for any constants.
THEOREM Invariance == Spec => []RInv
<1>1. ASSUME RInv, [Next]_vars
      PROVE  RInv'
  BY <1>1, TypeStep, QuotaStep, BreakerStep DEF RInv
<1> QED BY InitInv, <1>1, PTL DEF Spec

\* Type correctness: counters are counts, a call stands in its rotation, and it sleeps
\* only with a retry left.
THEOREM TypeCorrect == Spec => []TypeOK
<1>1. RInv => TypeOK
  BY DEF RInv
<1> QED BY Invariance, <1>1, PTL

\* _is_model_at_quota and _increment_model_usage are apart: however many calls pass the
\* gate at once, and whenever the day ends, the quota is exceeded by fewer than there are.
THEOREM QuotaOverrun == Spec => []QuotaOverrunBounded
<1>1. ASSUME RInv
      PROVE  QuotaOverrunBounded
  <2> SUFFICES ASSUME NEW m \in Models
               PROVE  usage[m] <= QuotaOf(m) + Cardinality(Callers) - 1
    BY DEF QuotaOverrunBounded
  <2>1. usage[m] + Cardinality(Engaged(m)) <= QuotaOf(m) + Cardinality(Callers) - 1
    BY <1>1 DEF RInv, QuotaInv
  <2>2. Engaged(m) \in SUBSET Callers
    BY DEF Engaged
  <2>3. Cardinality(Engaged(m)) \in Nat /\ Cardinality(Callers) \in Nat
    BY <2>2, RouterAssumption, FS_Subset, FS_CardinalityType
  <2>4. usage[m] \in Nat /\ QuotaOf(m) \in Nat
    BY <1>1, RouterAssumption DEF RInv, TypeOK, QuotaOf
  <2> QED BY <2>1, <2>3, <2>4
<1> QED BY Invariance, <1>1, PTL

\* CircuitBreaker is looked at when a call takes up a model and never again while it
\* retries: each call already past an open circuit adds at most its attempts.
THEOREM HammeringBounded == Spec => []BreakerBoundsHammering
<1>1. ASSUME RInv
      PROVE  BreakerBoundsHammering
  <2> SUFFICES ASSUME NEW m \in Models
               PROVE  failures[m] <= Threshold - 1 + Cardinality(Callers) * (MaxRetries + 1)
    BY DEF BreakerBoundsHammering
  <2>1. failures[m] + Cardinality(Owed(m)) <= Threshold - 1 + Cardinality(Callers) * (MaxRetries + 1)
    BY <1>1 DEF RInv, BreakerInv
  <2>2. MaxRetries \in Nat /\ Threshold \in Nat /\ failures[m] \in Nat
    BY <1>1, RouterAssumption DEF RInv, TypeOK
  <2>3. IsFiniteSet(0..MaxRetries) /\ Cardinality(0..MaxRetries) = MaxRetries + 1
    BY <2>2, FS_Interval
  <2>4. IsFiniteSet(Attempts) /\ Cardinality(Attempts) = Cardinality(Callers) * (MaxRetries + 1)
    BY <2>3, FS_Product, RouterAssumption DEF Attempts
  <2>5. Cardinality(Owed(m)) \in Nat
    <3>1. Owed(m) \in SUBSET Attempts
      BY DEF Owed
    <3> QED BY <2>4, <3>1, FS_Subset, FS_CardinalityType
  <2>6. PICK n \in Nat : n = Cardinality(Callers) * (MaxRetries + 1)
    BY <2>2, RouterAssumption, FS_CardinalityType
  <2> QED BY <2>1, <2>2, <2>5, <2>6
<1> QED BY Invariance, <1>1, PTL

\* _compute_backoff: no Retry-After of a provider makes a call sleep past the cap and its
\* jitter.
THEOREM SleepsCapped == Spec => []SleepBounded
<1>1. RInv => SleepBounded
  BY DEF RInv
<1> QED BY Invariance, <1>1, PTL

-----------------------------------------------------------------------------
\* The most a call in state x can still do: for every later place of the rotation a
\* request and a sleep per attempt, and what is left of the attempts at this one.
Round == 2 * (MaxRetries + 1)
Places == Len(Fallbacks) + 1
Work(x) ==
  IF x.step = "idle" THEN 0
  ELSE (Places - x.at) * Round + 2 * (MaxRetries - x.attempt) + (IF x.step = "asked" THEN 2 ELSE 1)

\* Every place further on saves a round.
LEMMA FurtherOn ==
  ASSUME NEW n \in Int, NEW m \in Int, NEW r \in Nat, n <= m
  PROVE  n * r <= m * r /\ n * r \in Int /\ m * r \in Int
<1>1. PICK d \in Nat : m = n + d
  <2>1. m - n \in Nat /\ m = n + (m - n)
    OBVIOUS
  <2> QED BY <2>1
<1>2. (n + d) * r = n * r + d * r /\ d * r \in Nat /\ n * r \in Int
  OBVIOUS
<1> QED BY <1>1, <1>2

\* What a call has left is a number within the rotation's, and none only when it is over.
LEMMA WorkBounded ==
  ASSUME NEW x \in CallStates, Placed(x)
  PROVE  Work(x) \in 0..(Places * Round) /\ (Work(x) = 0 <=> x.step = "idle")
<1>1. /\ MaxRetries \in Nat /\ Len(Fallbacks) \in Nat
  BY RouterAssumption
<1>2. Places \in Nat /\ Round \in Nat /\ Round = 2 * MaxRetries + 2
  BY <1>1 DEF Places, Round
<1>3. Places * Round \in Nat
  BY <1>2
<1>4. CASE x.step = "idle"
  BY <1>3, <1>4 DEF Work
<1>5. CASE x.step # "idle"
  <2>1. x.at \in 1..Places /\ x.attempt \in 0..MaxRetries /\ x.attempt \in Nat
    BY <1>1, <1>5 DEF CallStates, Placed, Places
  <2>2. (Places - x.at) * Round <= (Places - 1) * Round /\ 0 * Round <= (Places - x.at) * Round
        /\ (Places - x.at) * Round \in Int
    BY <1>2, <2>1, FurtherOn
  <2>3. (Places - 1) * Round = Places * Round - Round /\ 0 * Round = 0
    BY <1>2
  <2>4. PICK w \in Nat : w = (Places - x.at) * Round /\ w <= Places * Round - Round
    BY <2>2, <2>3
  <2>5. Work(x) = w + 2 * (MaxRetries - x.attempt) + (IF x.step = "asked" THEN 2 ELSE 1)
    BY <1>5, <2>4 DEF Work
  <2>6. PICK a \in Nat : a = x.attempt /\ a <= MaxRetries
    BY <2>1
  <2>7. PICK b \in 1..2 : b = IF x.step = "asked" THEN 2 ELSE 1
    OBVIOUS
  <2>8. Work(x) = w + 2 * (MaxRetries - a) + b
    BY <2>5, <2>6, <2>7
  <2>9. PICK t \in Nat : t = Places * Round
    BY <1>3
  <2>10. w <= t - (2 * MaxRetries + 2)
    BY <1>2, <2>4, <2>9
  <2>11. w \in Nat /\ t \in Nat /\ a \in Nat /\ a <= MaxRetries /\ (b = 1 \/ b = 2)
    BY <2>4, <2>6, <2>7, <2>9
  <2>12. w + 2 * (MaxRetries - a) + b \in 1..t
    BY <1>1, <2>10, <2>11
  <2> QED BY <1>5, <2>8, <2>9, <2>12
<1> QED BY <1>4, <1>5

\* A step of a call that is under way leaves it less to do.
LEMMA WorkStep ==
  ASSUME TypeOK, [Next]_vars, NEW c \in Callers, call[c].step # "idle", call'[c] # call[c]
  PROVE  Work(call'[c]) < Work(call[c])
<1>1. /\ call \in [Callers -> CallStates] /\ call[c] \in CallStates /\ Placed(call[c])
      /\ call[c].at \in 1..Places /\ call[c].attempt \in 0..MaxRetries /\ call[c].attempt \in Nat
      /\ MaxRetries \in Nat /\ Places \in Nat /\ Round = 2 * MaxRetries + 2 /\ Round \in Nat
  <2>1. /\ call \in [Callers -> CallStates] /\ call[c] \in CallStates /\ Placed(call[c])
        /\ call[c].at \in 1..Places /\ call[c].attempt \in 0..MaxRetries /\ call[c].attempt \in Nat
    BY CallTyped DEF TypeOK, Places
  <2>2. MaxRetries \in Nat /\ Len(Fallbacks) \in Nat
    BY RouterAssumption
  <2> QED BY <2>1, <2>2 DEF Places, Round
<1>2. PICK w \in Int : w = (Places - call[c].at) * Round
  BY <1>1
<1>3. Work(call[c]) = w + 2 * (MaxRetries - call[c].attempt)
                        + (IF call[c].step = "asked" THEN 2 ELSE 1)
  BY <1>2 DEF Work
<1>4. Work(call[c]) \in Nat /\ Work(call[c]) > 0
  BY <1>1, WorkBounded
<1>5. CASE call' = [call EXCEPT ![c] = Idle]
  <2>1. call'[c].step = "idle"
    BY <1>1, <1>5 DEF Idle
  <2> QED BY <1>4, <2>1 DEF Work
<1>6. CASE Rotates(c) \/ Exhausts(c)
  <2>1. call[c].step = "asked" /\ Proceed(c, call[c].primary, call[c].at + 1)
    BY <1>6 DEF Rotates, Exhausts
  <2>2. call[c].primary \in Models /\ call[c].at + 1 \in Nat
    BY CallTyped
  <2>3. CASE ~(call' = [call EXCEPT ![c] = Idle])
    <3>1. PICK k \in Tried[call[c].primary] :
            call' = [call EXCEPT ![c] = Asks(c, call[c].primary, k)] /\ k >= call[c].at + 1
      BY <2>1, <2>2, <2>3, Proceeding
    <3>2. k \in 1..Places
      BY <2>2, RotationTyped DEF Places
    <3>3. call'[c] = Asks(c, call[c].primary, k)
      BY <1>1, <3>1
    <3>4. call'[c].step = "asked" /\ call'[c].at = k /\ call'[c].attempt = 0
      BY <3>3 DEF Asks, Idle
    <3>5. /\ (Places - k) * Round <= (Places - call[c].at - 1) * Round
          /\ (Places - k) * Round \in Int
      BY <1>1, <3>1, <3>2, FurtherOn
    <3>6. (Places - call[c].at - 1) * Round = w - Round
      <4>1. PICK n \in Int : n = Places - call[c].at
        BY <1>1
      <4>2. (n - 1) * Round = n * Round - Round
        BY <1>1
      <4> QED BY <1>2, <4>1, <4>2
    <3>7. PICK v \in Int : v = (Places - k) * Round /\ v <= w - Round
      BY <3>5, <3>6
    <3>8. Work(call'[c]) = v + 2 * (MaxRetries - 0) + 2
      BY <3>4, <3>7 DEF Work
    <3> QED BY <1>1, <1>2, <1>3, <2>1, <3>7, <3>8
  <2> QED BY <1>5, <2>3
<1>7. CASE BacksOff(c)
  <2>1. /\ call[c].step = "asked" /\ call'[c].step = "asleep"
        /\ call'[c].at = call[c].at /\ call'[c].attempt = call[c].attempt
    BY <1>1, <1>7 DEF BacksOff, CallStates
  <2>2. Work(call'[c]) = w + 2 * (MaxRetries - call[c].attempt) + 1
    BY <1>2, <2>1 DEF Work
  <2> QED BY <1>1, <1>2, <1>3, <2>1, <2>2
<1>8. CASE Wakes(c)
  <2>1. CASE ~(call' = [call EXCEPT ![c] = Idle])
    <3>1. /\ call[c].step = "asleep" /\ call'[c].step = "asked"
          /\ call'[c].at = call[c].at /\ call'[c].attempt = call[c].attempt + 1
      BY <1>1, <1>8, <2>1 DEF Wakes, End, NextAttempt, CallStates
    <3>2. Work(call'[c]) = w + 2 * (MaxRetries - (call[c].attempt + 1)) + 2
      BY <1>2, <3>1 DEF Work
    <3> QED BY <1>1, <1>2, <1>3, <3>1, <3>2
  <2> QED BY <1>5, <2>1
<1>9. CASE Succeeds(c) \/ GivesUp(c)
  BY <1>5, <1>9 DEF Succeeds, GivesUp, End
<1>10. ASSUME NEW d \in Callers, d # c, Begin(d) \/ Answer(d) \/ Wakes(d) \/ NewRun(d)
       PROVE  FALSE
  <2>1. \A primary, j : Proceed(d, primary, j) => call'[c] = call[c]
    BY <1>1, <1>10 DEF Proceed, End
  <2> QED BY <1>1, <1>10, <2>1 DEF Begin, Answer, Succeeds, Rotates, GivesUp, BacksOff,
                                   Exhausts, Wakes, NewRun, End
<1>11. ~Begin(c) /\ ~NewRun(c)
  BY DEF Begin, NewRun
<1> QED
  BY <1>6, <1>7, <1>8, <1>9, <1>10, <1>11 DEF Next, Answer, Expires, DayPasses, vars

\* acompletion cannot go on for ever, however models fail and whatever other calls do to
\* the quotas and breakers it shares: it starts with at most a request and a sleep for each
\* attempt at each place of its rotation, and nothing gives any of them back.  What
\* CallsEnd adds is that providers answer and sleeps end.
THEOREM CallsRunOut ==
  Spec => /\ [](\A c \in Callers : /\ Work(call[c]) \in 0..(Places * Round)
                                   /\ Work(call[c]) = 0 <=> call[c].step = "idle")
          /\ [][\A c \in Callers :
                  call[c].step = "idle" \/ call'[c] = call[c]
                    \/ Work(call'[c]) < Work(call[c])]_vars
<1>1. TypeOK => \A c \in Callers : /\ Work(call[c]) \in 0..(Places * Round)
                                   /\ Work(call[c]) = 0 <=> call[c].step = "idle"
  BY WorkBounded DEF TypeOK
<1>2. TypeOK /\ [Next]_vars =>
        [\A c \in Callers : call[c].step = "idle" \/ call'[c] = call[c]
                              \/ Work(call'[c]) < Work(call[c])]_vars
  BY WorkStep
<1> QED BY <1>1, <1>2, TypeCorrect, PTL DEF Spec

-----------------------------------------------------------------------------
\* A request goes out for c.
Requests(c) == call'[c].step = "asked" /\ call'[c] # call[c]

\* Every request a run with RunMetrics makes, retries included, is paid for out of its own
\* budget while there is some left, and only a new run refills it: a metered run makes at
\* most max_llm_calls_per_incident requests.
THEOREM MeteredRequestsPaid ==
  Spec => [][\A c \in Metered :
               /\ Requests(c) => spent[c] < Budget /\ spent'[c] = spent[c] + 1
               /\ spent'[c] < spent[c] => NewRun(c)]_vars
<1>1. ASSUME TypeOK, Next, NEW c \in Metered, Requests(c)
      PROVE  spent[c] < Budget /\ spent'[c] = spent[c] + 1
  <2>0. /\ c \in Callers /\ call \in [Callers -> CallStates] /\ spent \in [Callers -> 0..Budget]
        /\ Budget \in Nat
    BY <1>1, RouterAssumption DEF TypeOK
  <2>1. ~OverBudget(c) /\ Pay(c) => spent[c] < Budget /\ spent'[c] = spent[c] + 1
    BY <2>0 DEF OverBudget, Pay
  <2>2. ASSUME NEW primary \in Models, NEW j \in Nat, Proceed(c, primary, j)
        PROVE  ~OverBudget(c) /\ Pay(c)
    <3>1. ~(call' = [call EXCEPT ![c] = Idle])
      BY <1>1, <2>0 DEF Requests, Idle
    <3> QED BY <1>1, <2>0, <2>2, <3>1, Proceeding
  <2>3. CASE Begin(c)
    <3>1. PICK primary \in Primaries : Proceed(c, primary, 1)
      BY <2>3 DEF Begin
    <3> QED BY <2>1, <2>2, <3>1, PrimariesTyped
  <2>4. CASE Rotates(c) \/ Exhausts(c)
    <3>1. Proceed(c, call[c].primary, call[c].at + 1)
      BY <2>4 DEF Rotates, Exhausts
    <3>2. call[c].primary \in Models /\ call[c].at + 1 \in Nat
      BY <1>1, <2>0, CallTyped
    <3> QED BY <2>1, <2>2, <3>1, <3>2
  <2>5. CASE Wakes(c)
    BY <1>1, <2>0, <2>1, <2>5 DEF Wakes, End, Requests, Idle
  <2>6. CASE Succeeds(c) \/ GivesUp(c) \/ BacksOff(c) \/ NewRun(c)
    BY <1>1, <2>0, <2>6 DEF Succeeds, GivesUp, BacksOff, NewRun, End, Requests, Idle, CallStates
  <2>7. ASSUME NEW d \in Callers, d # c, Begin(d) \/ Answer(d) \/ Wakes(d) \/ NewRun(d)
        PROVE  FALSE
    <3>1. \A primary, j : Proceed(d, primary, j) => call'[c] = call[c]
      BY <2>0, <2>7 DEF Proceed, End
    <3> QED BY <1>1, <2>0, <2>7, <3>1 DEF Begin, Answer, Succeeds, Rotates, GivesUp, BacksOff,
                                          Exhausts, Wakes, NewRun, End, Requests
  <2> QED BY <1>1, <2>0, <2>3, <2>4, <2>5, <2>6, <2>7
          DEF Next, Answer, Expires, DayPasses, Requests
<1>2. ASSUME TypeOK, Next, NEW c \in Metered, spent'[c] < spent[c]
      PROVE  NewRun(c)
  <2>0. c \in Callers /\ spent \in [Callers -> 0..Budget] /\ Budget \in Nat
    BY <1>2, RouterAssumption DEF TypeOK
  <2>1. ASSUME NEW d \in Callers, Pay(d) \/ UNCHANGED spent
        PROVE  FALSE
    BY <1>2, <2>0, <2>1 DEF Pay
  <2>2. ASSUME NEW d \in Callers, NEW primary, NEW j, Proceed(d, primary, j)
        PROVE  FALSE
    BY <2>1, <2>2 DEF Proceed, End
  <2>3. ASSUME NEW d \in Callers, Begin(d) \/ Answer(d) \/ Wakes(d)
        PROVE  FALSE
    BY <2>1, <2>2, <2>3 DEF Begin, Answer, Succeeds, Rotates, GivesUp, BacksOff, Exhausts,
                            Wakes, End
  <2>4. PICK d \in Callers : NewRun(d)
    BY <1>2, <2>0, <2>1, <2>3 DEF Next, Expires, DayPasses
  <2>5. d = c
    BY <1>2, <2>0, <2>4 DEF NewRun
  <2> QED BY <2>4, <2>5
<1>3. TypeOK /\ [Next]_vars =>
        [\A c \in Metered :
           /\ Requests(c) => spent[c] < Budget /\ spent'[c] = spent[c] + 1
           /\ spent'[c] < spent[c] => NewRun(c)]_vars
  BY <1>1, <1>2
<1> QED BY <1>3, TypeCorrect, PTL DEF Spec
=============================================================================
