------------------------ MODULE TerminateBackendProofs ------------------------
(***************************************************************************)
(* Proofs about TerminateBackend, for any number of calls, processes and   *)
(* sessions per process id.                                                *)
(***************************************************************************)
EXTENDS TerminateBackend, FiniteSetTheorems, TLAPS

-----------------------------------------------------------------------------
\* A call that has not begun has the shape of one and has selected nothing.
LEMMA IdleType == Idle \in CallStates /\ DOMAIN Idle.marked = {} /\ Idle.todo = {}
<1>1. <<>> \in [{} -> 1..MaxBorn]
  OBVIOUS
<1>2. <<>> \in UNION {[S -> 1..MaxBorn] : S \in SUBSET Pids}
  BY <1>1
<1> QED BY <1>2 DEF Idle, CallStates

\* What a statement of a call leaves of pg_stat_activity has its type.
LEMMA ShownType ==
  ASSUME TypeOK, NEW c \in Calls
  PROVE  Holding(c, backend) \in [Pids -> Backends] /\ Released(c, backend) \in [Pids -> Backends]
<1>1. PidOf[c] \in Pids
  BY BackendAssumption
<1>2. \A state \in {"idle", "idleTx"} :
        [backend EXCEPT ![PidOf[c]].state = state] \in [Pids -> Backends]
  BY <1>1 DEF TypeOK, Backends
<1> QED BY <1>2 DEF Holding, Released, TypeOK

\* One call changes and keeps its shape.
LEMMA OneCall ==
  ASSUME TypeOK, NEW c \in Calls, NEW new \in CallStates, call' = [call EXCEPT ![c] = new],
         new.todo \subseteq DOMAIN new.marked,
         new.step # "terminating" => DOMAIN new.marked = {},
         backend' \in [Pids -> Backends]
  PROVE  TypeOK'
<1>1. \A d \in Calls : call'[d] = IF d = c THEN new ELSE call[d]
  BY DEF TypeOK
<1>2. call' \in [Calls -> CallStates]
  BY DEF TypeOK
<1> QED BY <1>1, <1>2 DEF TypeOK, Marked

\* A call that is over keeps nothing but its answer.
LEMMA Over ==
  ASSUME TypeOK, NEW c \in Calls, Raises(c) \/ \E v \in BOOLEAN : Returns(c, v)
  PROVE  TypeOK'
<1>1. ASSUME NEW v \in BOOLEAN, Returns(c, v)
      PROVE  TypeOK'
  <2>1. [Idle EXCEPT !.step = "returned", !.verified = v] \in CallStates
    BY IdleType DEF Idle, CallStates
  <2>2. /\ [Idle EXCEPT !.step = "returned", !.verified = v].todo = {}
        /\ DOMAIN [Idle EXCEPT !.step = "returned", !.verified = v].marked = {}
    BY IdleType DEF Idle
  <2> QED BY <1>1, <2>1, <2>2, ShownType, OneCall DEF Returns
<1>2. CASE Raises(c)
  <2>1. [Idle EXCEPT !.step = "raised"] \in CallStates
    BY IdleType DEF Idle, CallStates
  <2>2. /\ [Idle EXCEPT !.step = "raised"].todo = {}
        /\ DOMAIN [Idle EXCEPT !.step = "raised"].marked = {}
    BY IdleType DEF Idle
  <2> QED BY <1>2, <2>1, <2>2, ShownType, OneCall DEF Raises
<1> QED BY <1>1, <1>2

\* A call marks the sessions it selected with the identities it saw.
LEMMA MarkType ==
  ASSUME TypeOK, NEW c \in Calls, NEW auto \in BOOLEAN, NEW S \in SUBSET Pids, Mark(c, auto, S)
  PROVE  TypeOK' /\ call'[c].step = "terminating"
<1> DEFINE m == [p \in S |-> backend[p].born]
           new == [Idle EXCEPT !.step = "terminating", !.auto = auto, !.todo = S, !.marked = m]
<1>1. m \in [S -> 1..MaxBorn] /\ DOMAIN m = S
  BY DEF TypeOK, Backends
<1>2. call' = [call EXCEPT ![c] = new] /\ backend' = Holding(c, backend)
  BY DEF Mark
<1>3. /\ new.step = "terminating" /\ new.todo = S /\ new.marked = m
      /\ new \in CallStates
  <2> HIDE DEF m
  <2>1. m \in UNION {[T -> 1..MaxBorn] : T \in SUBSET Pids}
    BY <1>1
  <2> QED BY <2>1 DEF Idle, CallStates
<1>4. call'[c] = new
  BY <1>2 DEF TypeOK
<1> HIDE DEF new, m
<1> QED BY <1>1, <1>2, <1>3, <1>4, ShownType, OneCall

\* A signal leaves the selection and takes its target off the list.
LEMMA SignalType ==
  ASSUME TypeOK, NEW c \in Calls, NEW p \in Pids, NEW a \in BOOLEAN, call[c].step = "terminating",
         \/ call' = [call EXCEPT ![c].todo = @ \ {p}]
         \/ call' = [call EXCEPT ![c].todo = @ \ {p}, ![c].aborted = TRUE],
         backend' \in [Pids -> Backends]
  PROVE  TypeOK'
<1> DEFINE one == [call[c] EXCEPT !.todo = @ \ {p}]
           two == [call[c] EXCEPT !.todo = @ \ {p}, !.aborted = TRUE]
<1>1. call[c] \in CallStates /\ call[c].todo \subseteq DOMAIN call[c].marked
  BY DEF TypeOK, Marked
<1>2. /\ one \in CallStates /\ one.todo \subseteq DOMAIN one.marked /\ one.step = "terminating"
      /\ two \in CallStates /\ two.todo \subseteq DOMAIN two.marked /\ two.step = "terminating"
  BY <1>1 DEF CallStates
<1>3. call' = [call EXCEPT ![c] = one] \/ call' = [call EXCEPT ![c] = two]
  BY DEF TypeOK
<1> HIDE DEF one, two
<1> QED BY <1>2, <1>3, OneCall

\* Sessions and calls keep their types whoever moves.
LEMMA TypeStep == TypeOK /\ [Next]_vars => TypeOK'
<1> SUFFICES ASSUME TypeOK, [Next]_vars
             PROVE  TypeOK'
  OBVIOUS
<1>1. CASE UNCHANGED vars
  BY <1>1 DEF vars, TypeOK, Marked
<1>2. ASSUME NEW p \in Pids, Works(p) \/ Leaves(p) \/ Connects(p)
      PROVE  TypeOK'
  <2>1. UNCHANGED call
    BY <1>2 DEF Works, Leaves, Connects
  <2>2. backend' \in [Pids -> Backends]
    <3>1. CASE Works(p) \/ Leaves(p)
      BY <3>1 DEF Works, Leaves, TypeOK, Backends
    <3>2. CASE Connects(p)
      <4>1. backend[p].born \in 1..MaxBorn /\ backend[p].born + 1 \in 1..MaxBorn
        BY <3>2, BackendAssumption DEF Connects, TypeOK, Backends
      <4>2. \A role \in Roles :
              [born |-> backend[p].born + 1, role |-> role, state |-> "active", hit |-> FALSE]
                \in Backends
        BY <4>1 DEF Backends
      <4> QED BY <3>2, <4>2 DEF Connects, TypeOK
    <3> QED BY <1>2, <3>1, <3>2
  <2> QED BY <2>1, <2>2 DEF TypeOK, Marked
<1>3. ASSUME NEW c \in Calls, NEW p \in Pids, SelectPid(c, p)
      PROVE  TypeOK'
  <2>1. FALSE \in BOOLEAN /\ TRUE \in BOOLEAN /\ {p} \in SUBSET Pids
    OBVIOUS
  <2> QED BY <1>3, <2>1, Over, MarkType DEF SelectPid
<1>4. ASSUME NEW c \in Calls, SelectIdle(c)
      PROVE  TypeOK'
  <2>1. Candidates(c) \subseteq Pids /\ TRUE \in BOOLEAN
    BY DEF Candidates
  <2> QED BY <1>4, <2>1, Over, MarkType DEF SelectIdle
<1>5. ASSUME NEW c \in Calls, SelectFails(c) \/ Recheck(c) \/ RecheckFails(c)
      PROVE  TypeOK'
  <2>1. (\A p \in Marked(c) : ~StillThere(c, p)) \in BOOLEAN /\ FALSE \in BOOLEAN /\ TRUE \in BOOLEAN
    OBVIOUS
  <2> QED BY <1>5, <2>1, Over DEF SelectFails, Recheck, RecheckFails
<1>6. ASSUME NEW c \in Calls, NEW p \in Pids, Signals(c, p)
      PROVE  TypeOK'
  <2>1. backend' \in [Pids -> Backends]
    BY <1>6 DEF Signals, TypeOK, Backends
  <2> QED BY <1>6, <2>1, SignalType DEF Signals
<1>7. ASSUME NEW c \in Calls, NEW p \in Pids, SignalFails(c, p)
      PROVE  TypeOK'
  <2>1. backend \in [Pids -> Backends]
    BY DEF TypeOK
  <2> QED BY <1>7, <2>1, Over, SignalType DEF SignalFails
<1> QED
  BY <1>1, <1>2, <1>3, <1>4, <1>5, <1>6, <1>7 DEF Next, ServerStep, CallStep

\* The server and the calls start within their types.
LEMMA InitType == Init => TypeOK
<1> SUFFICES ASSUME Init
             PROVE  TypeOK
  OBVIOUS
<1>1. backend \in [Pids -> Backends]
  BY BackendAssumption DEF Init, Backends
<1>2. call = [c \in Calls |-> Idle]
  BY DEF Init
<1> QED BY <1>1, <1>2, IdleType DEF TypeOK, Marked

\* pg_stat_activity and the calls keep their shape, and a call signals what it selected.
THEOREM TypeCorrect == Spec => []TypeOK
BY InitType, TypeStep, PTL DEF Spec

-----------------------------------------------------------------------------
\* A call reports success on what its second look found, or on the failure of the second
\* look of a batch.
LEMMA ReportStep ==
  ASSUME TypeOK, Next, NEW c \in Calls, ReportsVerified(c), ~call[c].auto \/ Usable(c)
  PROVE  Cleared(c)
<1>1. call[c].step = "terminating" /\ call'[c].step = "returned" /\ call'[c].verified
  BY DEF ReportsVerified
<1>2. ~ServerStep
  BY <1>1 DEF ServerStep, Works, Leaves, Connects
<1>3. PICK d \in Calls : CallStep(d)
  BY <1>2 DEF Next
<1>4. ASSUME NEW new, call' = [call EXCEPT ![d] = new]
      PROVE  c = d /\ call'[c] = new
  BY <1>1, <1>4 DEF TypeOK
<1>5. ASSUME NEW p \in Pids, NEW x, \/ call' = [call EXCEPT ![d].todo = x]
                                    \/ call' = [call EXCEPT ![d].todo = x, ![d].aborted = TRUE]
      PROVE  FALSE
  BY <1>1, <1>5 DEF TypeOK, CallStates
<1>6. ASSUME NEW v, Returns(d, v)
      PROVE  c = d /\ (call'[c].verified <=> v)
  BY <1>4, <1>6 DEF Returns, Idle
<1>7. ~Raises(d)
  BY <1>1, <1>4 DEF Raises, Idle
<1>8. ASSUME NEW auto \in BOOLEAN, NEW S \in SUBSET Pids, Mark(d, auto, S)
      PROVE  FALSE
  <2>1. c = d
    BY <1>4, <1>8 DEF Mark
  <2> QED BY <1>1, <1>8, <2>1, MarkType
<1>9. CASE Recheck(d)
  <2>1. c = d /\ \A p \in Marked(c) : ~StillThere(c, p)
    BY <1>1, <1>6, <1>9 DEF Recheck
  <2> QED BY <2>1 DEF Cleared, StillThere
<1>10. CASE RecheckFails(d)
  <2>1. c = d /\ call[d].auto /\ ~Usable(d)
    BY <1>6, <1>7, <1>10 DEF RecheckFails
  <2> QED BY <2>1
<1>11. CASE SelectIdle(d) \/ SelectFails(d) \/ \E p \in Pids : SelectPid(d, p)
  <2>1. call[d].step = "idle"
    BY <1>11 DEF SelectIdle, SelectFails, SelectPid
  <2>2. c # d
    BY <1>1, <2>1
  <2>3. \E auto \in BOOLEAN, S \in SUBSET Pids : Mark(d, auto, S)
    BY <1>6, <1>7, <1>11, <2>2 DEF SelectIdle, SelectFails, SelectPid, Candidates
  <2> QED BY <1>8, <2>3
<1>12. CASE \E p \in Pids : Signals(d, p) \/ SignalFails(d, p)
  BY <1>5, <1>7, <1>12 DEF Signals, SignalFails
<1> QED BY <1>3, <1>9, <1>10, <1>11, <1>12 DEF CallStep

\* terminate_backend: a success reported inside a sound transaction is true.
THEOREM VerifiedTrue == Spec => VerifiedIsTrue
<1>1. TypeOK /\ [Next]_vars =>
        [\A c \in Calls : ReportsVerified(c) /\ Usable(c) => Cleared(c)]_vars
  BY ReportStep
<1> QED BY <1>1, TypeCorrect, PTL DEF Spec, VerifiedIsTrue

\* The whole of RechecksBeforeSuccess's violation: a success that is not true is reported
\* by a call without a PID whose transaction has failed or whose connection is lost
\* (_terminate_idle_in_transaction), never by one with a PID.
THEOREM FalseOnlyInAbortedBatch ==
  Spec => [][\A c \in Calls :
               ReportsVerified(c) /\ ~Cleared(c) => call[c].auto /\ ~Usable(c)]_vars
<1>1. TypeOK /\ [Next]_vars =>
        [\A c \in Calls : ReportsVerified(c) /\ ~Cleared(c) => call[c].auto /\ ~Usable(c)]_vars
  <2> SUFFICES ASSUME TypeOK, Next, NEW c \in Calls, ReportsVerified(c), ~Cleared(c)
               PROVE  call[c].auto /\ ~Usable(c)
    OBVIOUS
  <2>1. call[c].auto \in BOOLEAN
    BY DEF TypeOK, CallStates
  <2> QED BY <2>1, ReportStep
<1> QED BY <1>1, TypeCorrect, PTL DEF Spec

-----------------------------------------------------------------------------
\* A selection a call may make: not its own connection, no more than the batch limit.
Permitted(c, S) == PidOf[c] \notin S /\ Cardinality(S) <= MaxKills

\* What a call has selected it has selected in its first statement, within the limits.
LEMMA SelectionStep ==
  ASSUME TypeOK, [Next]_vars, NEW c \in Calls
  PROVE  Marked(c)' = Marked(c) \/ Permitted(c, Marked(c)')
<1>0. MaxKills \in Nat \ {0} /\ call \in [Calls -> CallStates]
  BY BackendAssumption DEF TypeOK
<1>1. CASE UNCHANGED call
  BY <1>1 DEF Marked
<1>2. ASSUME NEW d \in Calls, NEW v, Returns(d, v)
      PROVE  Marked(c)' = Marked(c) \/ Marked(c)' = {}
  <2>1. DOMAIN [Idle EXCEPT !.step = "returned", !.verified = v].marked = {}
    BY IdleType DEF Idle
  <2> QED BY <1>0, <1>2, <2>1 DEF Returns, Marked
<1>3. ASSUME NEW d \in Calls, Raises(d)
      PROVE  Marked(c)' = Marked(c) \/ Marked(c)' = {}
  <2>1. DOMAIN [Idle EXCEPT !.step = "raised"].marked = {}
    BY IdleType DEF Idle
  <2> QED BY <1>0, <1>3, <2>1 DEF Raises, Marked
<1>4. ASSUME NEW d \in Calls, NEW auto \in BOOLEAN, NEW S \in SUBSET Pids, Mark(d, auto, S)
      PROVE  Marked(c)' = Marked(c) \/ (c = d /\ Marked(c)' = S)
  <2> DEFINE new == [Idle EXCEPT !.step = "terminating", !.auto = auto, !.todo = S,
                                 !.marked = [p \in S |-> backend[p].born]]
  <2>1. DOMAIN new.marked = S
    BY DEF Idle
  <2>2. call' = [call EXCEPT ![d] = new]
    BY <1>4 DEF Mark
  <2> HIDE DEF new
  <2> QED BY <1>0, <2>1, <2>2 DEF Marked
<1>5. Permitted(c, {})
  BY <1>0, FS_EmptySet DEF Permitted
<1>6. ASSUME NEW d \in Calls, NEW p \in Pids, SelectPid(d, p)
      PROVE  Marked(c)' = Marked(c) \/ Permitted(c, Marked(c)')
  <2>1. CASE ~Protected(d, p) /\ Mark(d, FALSE, {p})
    <3>1. Cardinality({p}) = 1
      BY FS_Singleton
    <3>2. PidOf[d] # p
      BY <2>1 DEF Protected
    <3>3. Permitted(d, {p})
      BY <1>0, <3>1, <3>2 DEF Permitted
    <3>4. {p} \in SUBSET Pids /\ FALSE \in BOOLEAN
      OBVIOUS
    <3> QED BY <1>4, <2>1, <3>3, <3>4
  <2> QED BY <1>2, <1>3, <1>5, <1>6, <2>1 DEF SelectPid
<1>7. ASSUME NEW d \in Calls, SelectIdle(d)
      PROVE  Marked(c)' = Marked(c) \/ Permitted(c, Marked(c)')
  <2>1. ASSUME NEW S \in SUBSET Candidates(d), Cardinality(S) <= MaxKills, Mark(d, TRUE, S)
        PROVE  Marked(c)' = Marked(c) \/ Permitted(c, Marked(c)')
    <3>1. S \in SUBSET Pids /\ Permitted(d, S)
      BY <2>1 DEF Candidates, Permitted
    <3> QED BY <1>4, <2>1, <3>1
  <2> QED BY <1>2, <1>5, <1>7, <2>1 DEF SelectIdle
<1>8. ASSUME NEW d \in Calls, SelectFails(d) \/ Recheck(d) \/ RecheckFails(d)
      PROVE  Marked(c)' = Marked(c) \/ Permitted(c, Marked(c)')
  BY <1>2, <1>3, <1>5, <1>8 DEF SelectFails, Recheck, RecheckFails
<1>9. ASSUME NEW d \in Calls, NEW x, \/ call' = [call EXCEPT ![d].todo = x]
                                     \/ call' = [call EXCEPT ![d].todo = x, ![d].aborted = TRUE]
      PROVE  Marked(c)' = Marked(c)
  BY <1>0, <1>9 DEF Marked, CallStates
<1>10. ASSUME NEW d \in Calls, NEW p \in Pids, Signals(d, p) \/ SignalFails(d, p)
       PROVE  Marked(c)' = Marked(c) \/ Permitted(c, Marked(c)')
  BY <1>3, <1>5, <1>9, <1>10 DEF Signals, SignalFails
<1>11. CASE ServerStep \/ UNCHANGED vars
  BY <1>1, <1>11 DEF ServerStep, Works, Leaves, Connects, vars
<1> QED BY <1>6, <1>7, <1>8, <1>10, <1>11 DEF Next, CallStep

\* A session is signalled because some call has it on its list, and leaves the list.
SignalledFromList ==
  \A p \in Pids : backend'[p].hit /\ ~backend[p].hit =>
    \E c \in Calls : p \in call[c].todo /\ p \notin call'[c].todo

\* _MAX_AUTO_TERMINATE and pg_backend_pid: whatever the sessions do in between, a call
\* signals at most the batch limit's number of PIDs, each of them once, never its own
\* connection's, and a session is signalled by nobody else.
THEOREM BatchBounded ==
  /\ Spec => [](\A c \in Calls : Permitted(c, Marked(c)) /\ call[c].todo \subseteq Marked(c))
  /\ Spec => [][SignalledFromList]_vars
<1>1. Init => \A c \in Calls : Permitted(c, Marked(c))
  <2>1. MaxKills \in Nat
    BY BackendAssumption
  <2>2. Init => \A c \in Calls : Marked(c) = {}
    BY IdleType DEF Init, Marked
  <2>3. Cardinality({}) = 0
    BY FS_EmptySet
  <2> QED BY <2>1, <2>2, <2>3 DEF Permitted
<1>2. ASSUME TypeOK, [Next]_vars, \A c \in Calls : Permitted(c, Marked(c))
      PROVE  (\A c \in Calls : Permitted(c, Marked(c)))'
  BY <1>2, SelectionStep DEF Permitted
<1>3. TypeOK => \A c \in Calls : call[c].todo \subseteq Marked(c)
  BY DEF TypeOK
<1>4. Spec => [](\A c \in Calls : Permitted(c, Marked(c)))
  BY <1>1, <1>2, TypeCorrect, PTL DEF Spec
<1>5. TypeOK /\ [Next]_vars => [SignalledFromList]_vars
  <2> SUFFICES ASSUME TypeOK, Next, NEW p \in Pids, backend'[p].hit, ~backend[p].hit
               PROVE  \E c \in Calls : p \in call[c].todo /\ p \notin call'[c].todo
    BY DEF SignalledFromList
  <2>0. backend \in [Pids -> Backends]
    BY DEF TypeOK
  <2>1. ASSUME NEW q \in Pids, Works(q) \/ Leaves(q) \/ Connects(q)
        PROVE  FALSE
    BY <2>0, <2>1 DEF Works, Leaves, Connects, Backends
  <2>2. ASSUME NEW c \in Calls, \/ UNCHANGED backend
                                \/ backend' = Holding(c, backend)
                                \/ backend' = Released(c, backend)
        PROVE  FALSE
    BY <2>0, <2>2 DEF Holding, Released, Backends
  <2>3. ASSUME NEW c \in Calls, NEW q \in Pids, Signals(c, q)
        PROVE  p \in call[c].todo /\ p \notin call'[c].todo
    <3>1. p = q
      BY <2>0, <2>3 DEF Signals
    <3>2. call'[c].todo = call[c].todo \ {q}
      BY <2>3 DEF Signals, TypeOK, CallStates
    <3> QED BY <2>3, <3>1, <3>2 DEF Signals
  <2>4. ASSUME NEW c \in Calls, NEW q \in Pids, SelectPid(c, q) \/ SignalFails(c, q)
        PROVE  FALSE
    BY <2>2, <2>4 DEF SelectPid, SignalFails, Returns, Raises, Mark
  <2>5. ASSUME NEW c \in Calls, SelectIdle(c) \/ SelectFails(c) \/ Recheck(c) \/ RecheckFails(c)
        PROVE  FALSE
    BY <2>2, <2>5 DEF SelectIdle, SelectFails, Recheck, RecheckFails, Returns, Raises, Mark
  <2> QED BY <2>1, <2>3, <2>4, <2>5 DEF Next, ServerStep, CallStep
<1>6. Spec => [][SignalledFromList]_vars
  BY <1>5, TypeCorrect, PTL DEF Spec
<1>7. Spec => [](\A c \in Calls : call[c].todo \subseteq Marked(c))
  BY <1>3, TypeCorrect, PTL
<1>8. (\A c \in Calls : Permitted(c, Marked(c))) /\ (\A c \in Calls : call[c].todo \subseteq Marked(c))
        => \A c \in Calls : Permitted(c, Marked(c)) /\ call[c].todo \subseteq Marked(c)
  OBVIOUS
<1> QED BY <1>4, <1>6, <1>7, <1>8, PTL
=============================================================================
