------------------------- MODULE IncidentRunnerProofs -------------------------
(***************************************************************************)
(* IncidentRunner's safety for any deliveries, approvals, fingerprints and *)
(* limits: the process may stop, die and restart any number of times, and  *)
(* any number of runs, operators and duplicate alerts interleave.          *)
(***************************************************************************)
EXTENDS IncidentRunner, SequenceTheorems, TLAPS

USE DEF Incidents, Runs

-----------------------------------------------------------------------------
\* The checkpoints, as IncidentWalk moves between them.

\* The checkpoint a first run starts from is a checkpoint.
LEMMA FreshTyped == Fresh \in Checkpoints
  BY MaxTriesAssumption DEF Fresh, Checkpoints, Places, Answers

\* Whatever node runs, with whatever answer, it leaves a checkpoint.
LEMMA WalkTyped ==
  ASSUME NEW s \in Checkpoints, NEW answer \in Answers, NEW t \in Onward(s, answer)
  PROVE  t \in Checkpoints
<1> USE DEF Checkpoints, Places, Answers, To
<1>1. CASE s.at = "work"
  BY <1>1 DEF Onward, Proposed
<1>2. CASE s.at = "approve"
  BY <1>2 DEF Onward, Approved, Decided
<1>3. CASE s.at = "execute"
  <2>1. Counted(s) \in 0..MaxTries
    BY MaxTriesAssumption DEF Counted, TriesLeft
  <2> QED BY <1>3, <2>1 DEF Onward, Executed
<1>4. CASE s.at = "verify"
  BY <1>4 DEF Onward, Verified
<1>5. CASE s.at = "complete"
  BY <1>5 DEF Onward
<1>6. CASE s.at = "end"
  BY <1>6 DEF Onward
<1> QED BY <1>1, <1>2, <1>3, <1>4, <1>5, <1>6

\* No node reaches execute with consent asked for and not given.
LEMMA WalkConsented ==
  ASSUME NEW s \in Checkpoints, NEW answer \in Answers, NEW t \in Onward(s, answer),
         s.at = "execute" /\ s.needs => s.granted = "yes"
  PROVE  /\ t.granted = "yes" => s.granted = "yes" \/ answer = "yes"
         /\ t.at = "execute" /\ t.needs => t.granted = "yes"
<1> USE DEF Checkpoints, Places, Answers, To
<1>1. CASE s.at = "work"
  BY <1>1 DEF Onward, Proposed
<1>2. CASE s.at = "approve"
  BY <1>2 DEF Onward, Approved, Decided, Awaiting
<1>3. CASE s.at = "execute"
  BY <1>3 DEF Onward, Executed
<1>4. CASE s.at = "verify"
  BY <1>4 DEF Onward, Verified
<1>5. CASE s.at = "complete"
  BY <1>5 DEF Onward
<1>6. CASE s.at = "end"
  BY <1>6 DEF Onward
<1> QED BY <1>1, <1>2, <1>3, <1>4, <1>5, <1>6

-----------------------------------------------------------------------------
\* A run at work belongs to an incident.
LEMMA IncidentTyped ==
  ASSUME TypeOK, OwnerInv, NEW r \in Runs, Live(r)
  PROVE  IncidentOf(r) \in Incidents
  BY DEF OwnerInv, IncidentOf

\* A task that does not exist has the shape of one.
LEMMA NoRunTyped == NoRun \in RunStates
  BY FreshTyped DEF NoRun, RunStates, Answers

\* A process that has just started, with nothing delivered, satisfies every part.
LEMMA InitInv == Init => RInv
<1> SUFFICES ASSUME Init PROVE RInv
  OBVIOUS
<1>1. TypeOK
  <2>1. run \in [Runs -> RunStates]
    BY NoRunTyped DEF Init
  <2>2. delivery \in [Deliveries -> {"idle", "admitted", "answered", "scheduled"}]
    BY DEF Init
  <2>3. approval \in [Approvals -> ApprovalStates]
    BY DEF Init, Idle, Answers, ApprovalStates
  <2>4. index \in [Prints -> Reservations]
    BY RunnerAssumption DEF Init, Reservations
  <2>5. /\ server \in {"up", "stopping", "draining", "closed", "down"}
        /\ open \in 0..Len(ExitStack) /\ pending \subseteq Runs
        /\ drained \in 0..DrainLimit /\ restarts \in 0..MaxRestarts
    BY RunnerAssumption DEF Init, ExitStack
  <2>6. /\ saved \in [Incidents -> SUBSET Checkpoints]
        /\ unsaved \in [Incidents -> Seq(Checkpoints)]
        /\ acted \in [Incidents -> Nat] /\ consented \subseteq Incidents /\ cut \subseteq Incidents
    BY DEF Init
  <2> QED BY <2>1, <2>2, <2>3, <2>4, <2>5, <2>6 DEF TypeOK
<1>2. \A r \in Runs : ~Live(r)
  BY DEF Init, Live, NoRun
<1>3. \A a \in Approvals : approval[a].step \in {"idle", "refused"}
  BY DEF Init, Idle
<1>4. \A i \in Incidents : ~Started(i)
  BY DEF Init, Started
<1>5. OwnerInv /\ IndexInv /\ AnswerInv /\ CourseInv
  BY <1>2, <1>3, <1>4 DEF Init, OwnerInv, IndexInv, AnswerInv, CourseInv
<1>7. ServerInv
  BY DEF Init, ServerInv, Closed, WrittenBy, Begun, NoRun, ExitStack
<1>6. ConsentInv /\ ActsOnConsent
  BY <1>2 DEF Init, ConsentInv, ActsOnConsent
<1> QED BY <1>1, <1>5, <1>6, <1>7 DEF RInv

-----------------------------------------------------------------------------
\* What an action that changes one run makes of it.
LEMMA RunUpdated ==
  ASSUME TypeOK, NEW r \in Runs, NEW new \in RunStates, run' = [run EXCEPT ![r] = new]
  PROVE  run' \in [Runs -> RunStates]
  BY DEF TypeOK

\* The fields of a run, each with its type.
LEMMA RunFields ==
  ASSUME TypeOK, NEW r \in Runs
  PROVE  /\ run[r] \in RunStates
         /\ run[r].at \in Checkpoints /\ run[r].answer \in Answers /\ run[r].age \in Nat
  BY DEF TypeOK, RunStates

\* The variables keep their types.  Each action is answered for what it changes.
LEMMA TypeStep ==
  ASSUME RInv, [Next]_vars
  PROVE  TypeOK'
<1>0. TypeOK /\ OwnerInv
  BY DEF RInv
<1> USE DEF handlerVars, graphVars, processVars
<1>1. ASSUME NEW d \in Deliveries, Admit(d) \/ Reject(d) \/ Duplicate(d)
      PROVE  TypeOK'
  BY <1>0, <1>1 DEF TypeOK, Admit, Reject, Duplicate
<1>2. ASSUME NEW d \in Deliveries, Schedule(d)
      PROVE  TypeOK'
  <2>1. index' \in [Prints -> Reservations]
    <3>1. [by |-> d, age |-> 0] \in Reservations
      BY RunnerAssumption DEF Reservations
    <3> QED BY <1>0, <1>2, <3>1 DEF TypeOK, Schedule, Reserve
  <2>2. unsaved' \in [Incidents -> Seq(Checkpoints)]
    BY <1>0, <1>2, FreshTyped DEF TypeOK, Schedule
  <2>3. run' \in [Runs -> RunStates]
    <3>1. [NoRun EXCEPT !.state = "live"] \in RunStates
      BY NoRunTyped DEF RunStates
    <3> QED BY <1>0, <1>2, <3>1, RunUpdated DEF Schedule
  <2> QED BY <1>0, <1>2, <2>1, <2>2, <2>3 DEF TypeOK, Schedule
<1>3. ASSUME NEW a \in Approvals, ReadState(a)
      PROVE  TypeOK'
  <2>1. PICK i \in Incidents, answer \in {"yes", "no"} :
          approval' = [approval EXCEPT ![a] =
            IF \E s \in saved[i] : Awaiting(s)
            THEN [step |-> "checked", on |-> i, answer |-> answer]
            ELSE [Idle EXCEPT !.step = "refused"]]
    BY <1>3 DEF ReadState
  <2>2. /\ [step |-> "checked", on |-> i, answer |-> answer] \in ApprovalStates
        /\ [Idle EXCEPT !.step = "refused"] \in ApprovalStates
    BY DEF Idle, ApprovalStates, Answers
  <2>3. approval \in [Approvals -> ApprovalStates]
    BY <1>0 DEF TypeOK
  <2>4. \E new \in ApprovalStates : approval' = [approval EXCEPT ![a] = new]
    BY <2>1, <2>2, Zenon
  <2>5. approval' \in [Approvals -> ApprovalStates]
    BY <2>3, <2>4
  <2> QED BY <1>0, <1>3, <2>5 DEF TypeOK, ReadState
<1>4. ASSUME NEW a \in Approvals, Resume(a)
      PROVE  TypeOK'
  <2>1. approval[a].on \in Incidents /\ approval[a].answer \in Answers
    BY <1>0, <1>4 DEF OwnerInv, Resume, Answers
  <2>2. PICK s \in saved[approval[a].on] :
          run' = [run EXCEPT ![a] = [NoRun EXCEPT !.state = "live", !.at = s,
                                                  !.answer = approval[a].answer]]
    BY <1>4 DEF Resume
  <2>3. s \in Checkpoints
    BY <1>0, <2>1 DEF TypeOK
  <2>4. [NoRun EXCEPT !.state = "live", !.at = s, !.answer = approval[a].answer] \in RunStates
    BY <2>1, <2>3 DEF NoRun, RunStates
  <2>5. run' \in [Runs -> RunStates]
    BY <1>0, <2>2, <2>4, RunUpdated
  <2>6. approval' \in [Approvals -> ApprovalStates]
    <3>1. approval[a] \in ApprovalStates
      BY <1>0 DEF TypeOK
    <3>2. [approval[a] EXCEPT !.step = "accepted"] \in ApprovalStates
      BY <3>1 DEF ApprovalStates
    <3> QED BY <1>0, <1>4, <3>2 DEF TypeOK, Resume
  <2> QED BY <1>0, <1>4, <2>5, <2>6 DEF TypeOK, Resume
<1>5. ASSUME NEW i \in Incidents, Persist(i)
      PROVE  TypeOK'
  <2>1. Head(unsaved[i]) \in Checkpoints /\ Tail(unsaved[i]) \in Seq(Checkpoints)
    BY <1>0, <1>5 DEF TypeOK, Persist
  <2> QED BY <1>0, <1>5, <2>1 DEF TypeOK, Persist
<1>6. ASSUME NEW r \in Runs, Act(r)
      PROVE  TypeOK'
  <2>1. IncidentOf(r) \in Incidents
    BY <1>0, <1>6, IncidentTyped DEF Act
  <2>2. run' \in [Runs -> RunStates]
    <3>1. [run[r] EXCEPT !.acting = TRUE] \in RunStates
      BY <1>0, RunFields DEF RunStates
    <3> QED BY <1>0, <1>6, <3>1, RunUpdated DEF Act
  <2>3. acted' \in [Incidents -> Nat] /\ consented' \subseteq Incidents
    BY <1>0, <1>6, <2>1 DEF TypeOK, Act
  <2> QED BY <1>0, <1>6, <2>2, <2>3 DEF TypeOK, Act
<1>7. ASSUME NEW r \in Runs, Step(r)
      PROVE  TypeOK'
  <2>1. PICK s \in Onward(run[r].at, run[r].answer) :
          /\ run' = [run EXCEPT ![r].at = s, ![r].answer = "unset", ![r].acting = FALSE]
          /\ unsaved' = [unsaved EXCEPT ![IncidentOf(r)] = Append(@, s)]
    BY <1>7 DEF Step
  <2>2. s \in Checkpoints
    BY <1>0, RunFields, WalkTyped
  <2>3. IncidentOf(r) \in Incidents
    BY <1>0, <1>7, IncidentTyped DEF Step
  <2>4. run' \in [Runs -> RunStates]
    <3>1. [run[r] EXCEPT !.at = s, !.answer = "unset", !.acting = FALSE] \in RunStates
      BY <1>0, <2>2, RunFields DEF RunStates, Answers
    <3>2. run' = [run EXCEPT ![r] = [run[r] EXCEPT !.at = s, !.answer = "unset", !.acting = FALSE]]
      BY <2>1, <1>0 DEF TypeOK
    <3> QED BY <1>0, <3>1, <3>2, RunUpdated
  <2>5. unsaved' \in [Incidents -> Seq(Checkpoints)]
    BY <1>0, <2>1, <2>2, <2>3 DEF TypeOK
  <2> QED BY <1>0, <1>7, <2>4, <2>5 DEF TypeOK, Step
<1>8. ASSUME NEW r \in Runs, Return(r) \/ CutShort(r)
      PROVE  TypeOK'
  <2>1. run' = [run EXCEPT ![r] = [NoRun EXCEPT !.state = "over"]] /\ Live(r)
    BY <1>8 DEF Return, CutShort
  <2>2. [NoRun EXCEPT !.state = "over"] \in RunStates
    BY NoRunTyped DEF RunStates
  <2>3. run' \in [Runs -> RunStates]
    BY <1>0, <2>1, <2>2, RunUpdated
  <2>4. cut' \subseteq Incidents
    BY <1>0, <1>8, <2>1, IncidentTyped DEF Return, CutShort, TypeOK
  <2> QED BY <1>0, <1>8, <2>3, <2>4 DEF TypeOK, Return, CutShort
<1>9. CASE Sigterm \/ Shutdown \/ Close
  <2>1. ExitStack \in Seq({"telemetry", "postgres", "valkey", "observability", "saver", "runner"})
        /\ Len(ExitStack) = 6
    BY DEF ExitStack
  <2>2. CASE Sigterm \/ Shutdown
    BY <1>0, <2>2, RunnerAssumption DEF TypeOK, Sigterm, Shutdown, Tasks
  <2>3. CASE Close
    <3>1. open' \in 0..Len(ExitStack) /\ server' \in {"draining", "closed"}
      BY <1>0, <2>1, <2>3 DEF TypeOK, Close, RInv, ServerInv
    <3> QED BY <1>0, <2>3, <3>1 DEF TypeOK, Close
  <2> QED BY <1>9, <2>2, <2>3
<1>10. CASE Crash
  <2>1. run' \in [Runs -> RunStates]
    <3>1. [NoRun EXCEPT !.state = "over"] \in RunStates
      BY NoRunTyped DEF RunStates
    <3> QED BY <1>0, <1>10, <3>1 DEF TypeOK, Crash
  <2>2. cut' \subseteq Incidents
    BY <1>0, <1>10, IncidentTyped DEF TypeOK, Crash
  <2>3. approval' \in [Approvals -> ApprovalStates]
    <3>1. [Idle EXCEPT !.step = "refused"] \in ApprovalStates
      BY DEF Idle, ApprovalStates, Answers
    <3> QED BY <1>0, <1>10, <3>1 DEF TypeOK, Crash
  <2>4. delivery' \in [Deliveries -> {"idle", "admitted", "answered", "scheduled"}]
    BY <1>0, <1>10 DEF TypeOK, Crash
  <2>5. unsaved' \in [Incidents -> Seq(Checkpoints)] /\ server' = "down"
        /\ open' \in 0..Len(ExitStack) /\ pending' \subseteq Runs
    BY <1>10 DEF Crash, ExitStack
  <2> QED BY <1>0, <1>10, <2>1, <2>2, <2>3, <2>4, <2>5 DEF TypeOK, Crash
<1>11. CASE Restart
  <2>1. index' \in [Prints -> Reservations]
    BY <1>11, RunnerAssumption DEF Restart, Reservations
  <2>2. restarts' \in 0..MaxRestarts
    BY <1>0, <1>11, RunnerAssumption DEF Restart, TypeOK, RInv, ServerInv
  <2>3. open' \in 0..Len(ExitStack) /\ pending' \subseteq Runs
    BY <1>11 DEF Restart, ExitStack
  <2> QED BY <1>0, <1>11, <2>1, <2>2, <2>3, RunnerAssumption DEF TypeOK, Restart
<1>12. CASE Tick
  <2>1. run' \in [Runs -> RunStates]
    <3>1. \A r \in Runs : [run[r] EXCEPT !.age = @ + 1] \in RunStates
      BY <1>0, RunFields DEF RunStates
    <3> QED BY <1>0, <1>12, <3>1 DEF TypeOK, Tick
  <2>2. index' \in [Prints -> Reservations]
    <3>1. ASSUME NEW p \in Prints
          PROVE  [index[p] EXCEPT !.age = Older(@, TTL + 1)] \in Reservations
      <4>1. index[p] \in Reservations /\ index[p].age \in 0..(TTL + 1)
        BY <1>0 DEF TypeOK, Reservations
      <4>2. Older(index[p].age, TTL + 1) \in 0..(TTL + 1)
        BY <4>1, RunnerAssumption DEF Older
      <4> QED BY <4>1, <4>2 DEF Reservations
    <3> QED BY <1>0, <1>12, <3>1 DEF TypeOK, Tick
  <2>3. drained' \in 0..DrainLimit
    BY <1>0, <1>12, RunnerAssumption DEF TypeOK, Tick, Older
  <2> QED BY <1>0, <1>12, <2>1, <2>2, <2>3 DEF TypeOK, Tick
<1>13. CASE UNCHANGED vars
  BY <1>0, <1>13 DEF TypeOK, vars
<1> QED
  BY <1>1, <1>2, <1>3, <1>4, <1>5, <1>6, <1>7, <1>8, <1>9, <1>10, <1>11, <1>12, <1>13
  DEF Next, HandlerStep, RunStep, ServerStep, Fails, TimesOut, Cancelled

-----------------------------------------------------------------------------
\* Which actions end, begin or keep which runs; and what they do to approvals.

\* A task comes into being only in schedule_incident and in approve_incident.
LEMMA RunsStart ==
  ASSUME TypeOK, [Next]_vars, NEW r \in Runs, Live(r)', ~Live(r)
  PROVE  \/ r \in Deliveries /\ Schedule(r)
         \/ r \in Approvals /\ Resume(r)
<1> USE DEF TypeOK, Live, handlerVars, graphVars, processVars
<1>1. ASSUME NEW d \in Deliveries, Schedule(d)
      PROVE  r = d
  BY <1>1 DEF Schedule
<1>2. ASSUME NEW a \in Approvals, Resume(a)
      PROVE  r = a
  BY <1>2 DEF Resume
<1>3. ASSUME NEW x \in Runs, Act(x) \/ Step(x) \/ Return(x) \/ CutShort(x)
      PROVE  FALSE
  BY <1>3 DEF Act, Step, Return, CutShort, NoRun
<1>4. ASSUME NEW d \in Deliveries, Admit(d) \/ Reject(d) \/ Duplicate(d)
      PROVE  FALSE
  BY <1>4 DEF Admit, Reject, Duplicate
<1>5. CASE (\E a \in Approvals : ReadState(a)) \/ (\E i \in Incidents : Persist(i))
  BY <1>5 DEF ReadState, Persist
<1>6. CASE Sigterm \/ Shutdown \/ Close \/ Restart \/ UNCHANGED vars
  BY <1>6 DEF Sigterm, Shutdown, Close, Restart, vars
<1>7. CASE Crash
  BY <1>7 DEF Crash, NoRun
<1>8. CASE Tick
  BY <1>8 DEF Tick
<1> QED
  BY <1>1, <1>2, <1>3, <1>4, <1>5, <1>6, <1>7, <1>8
  DEF Next, HandlerStep, RunStep, ServerStep, Fails, TimesOut, Cancelled

\* A task that has begun has begun for good, and begins in no other way.
LEMMA RunsBegin ==
  ASSUME TypeOK, [Next]_vars, NEW r \in Runs
  PROVE  /\ Begun(r) => Begun(r)'
         /\ Begun(r)' => Begun(r) \/ (r \in Deliveries /\ Schedule(r))
                                   \/ (r \in Approvals /\ Resume(r))
<1> DEFINE Same == Begun(r)' <=> Begun(r)
<1>0. run \in [Runs -> RunStates]
  BY DEF TypeOK
<1> USE DEF Begun, handlerVars, graphVars, processVars
<1>1. ASSUME NEW d \in Deliveries, Schedule(d)
      PROVE  IF d = r THEN Begun(r)' ELSE Same
  BY <1>0, <1>1 DEF Schedule, NoRun
<1>2. ASSUME NEW a \in Approvals, Resume(a)
      PROVE  IF a = r THEN Begun(r)' ELSE Same
  BY <1>0, <1>2 DEF Resume, NoRun
<1>3. ASSUME NEW x \in Runs, Act(x) \/ Step(x) \/ Return(x) \/ CutShort(x)
      PROVE  Same
  <2>1. CASE Act(x)
    BY <1>0, <2>1 DEF Act, RunStates
  <2>2. CASE Step(x)
    BY <1>0, <2>2 DEF Step, RunStates
  <2>3. CASE Return(x) \/ CutShort(x)
    BY <1>0, <2>3 DEF Return, CutShort, NoRun, Live
  <2> QED BY <1>3, <2>1, <2>2, <2>3
<1>4. ASSUME NEW d \in Deliveries, Admit(d) \/ Reject(d) \/ Duplicate(d)
      PROVE  Same
  BY <1>4 DEF Admit, Reject, Duplicate
<1>5. CASE (\E a \in Approvals : ReadState(a)) \/ (\E i \in Incidents : Persist(i))
  BY <1>5 DEF ReadState, Persist
<1>6. CASE Sigterm \/ Shutdown \/ Close \/ Restart \/ UNCHANGED vars
  BY <1>6 DEF Sigterm, Shutdown, Close, Restart, vars
<1>7. CASE Crash
  BY <1>7 DEF Crash, NoRun, Live
<1>8. CASE Tick
  BY <1>0, <1>8 DEF Tick, RunStates
<1> HIDE DEF Begun, handlerVars, graphVars, processVars
<1> QED
  BY <1>1, <1>2, <1>3, <1>4, <1>5, <1>6, <1>7, <1>8
  DEF Next, HandlerStep, RunStep, ServerStep, Fails, TimesOut, Cancelled

\* What becomes of an approval in one step.
LEMMA ApprovalMoves ==
  ASSUME TypeOK, [Next]_vars, NEW a \in Approvals
  PROVE  \/ approval'[a] = approval[a]
         \/ approval[a].step # "accepted" /\ approval'[a].step = "refused"
         \/ /\ approval[a].step = "idle" /\ approval'[a].step = "checked"
            /\ approval'[a].on \in Incidents /\ approval'[a].answer \in {"yes", "no"}
         \/ /\ Resume(a) /\ approval[a].step = "checked"
            /\ approval'[a] = [approval[a] EXCEPT !.step = "accepted"]
<1> USE DEF handlerVars, graphVars, processVars
<1>0. approval \in [Approvals -> ApprovalStates]
  BY DEF TypeOK
<1>1. CASE UNCHANGED approval
  BY <1>1
<1>2. ASSUME NEW b \in Approvals, ReadState(b)
      PROVE  \/ approval'[a] = approval[a]
             \/ approval[a].step # "accepted" /\ approval'[a].step = "refused"
             \/ /\ approval[a].step = "idle" /\ approval'[a].step = "checked"
                /\ approval'[a].on \in Incidents /\ approval'[a].answer \in {"yes", "no"}
  <2>1. PICK i \in Incidents, answer \in {"yes", "no"} :
          approval' = [approval EXCEPT ![b] =
            IF \E s \in saved[i] : Awaiting(s)
            THEN [step |-> "checked", on |-> i, answer |-> answer]
            ELSE [Idle EXCEPT !.step = "refused"]]
    BY <1>2 DEF ReadState
  <2>2. CASE a # b
    BY <1>0, <2>1, <2>2
  <2>3. CASE a = b /\ \E s \in saved[i] : Awaiting(s)
    BY <1>0, <1>2, <2>1, <2>3 DEF ReadState
  <2>4. CASE a = b /\ ~\E s \in saved[i] : Awaiting(s)
    BY <1>0, <1>2, <2>1, <2>4 DEF ReadState, Idle
  <2> QED BY <2>2, <2>3, <2>4
<1>3. ASSUME NEW b \in Approvals, Resume(b)
      PROVE  /\ a # b => approval'[a] = approval[a]
             /\ a = b => /\ approval[a].step = "checked"
                         /\ approval'[a] = [approval[a] EXCEPT !.step = "accepted"]
  BY <1>0, <1>3 DEF Resume
<1>4. CASE Crash
  BY <1>0, <1>4 DEF Crash, Idle
<1>5. ASSUME NEW d \in Deliveries, Admit(d) \/ Reject(d) \/ Duplicate(d) \/ Schedule(d)
      PROVE  UNCHANGED approval
  BY <1>5 DEF Admit, Reject, Duplicate, Schedule
<1>6. ASSUME NEW x \in Runs, Act(x) \/ Step(x) \/ Return(x) \/ CutShort(x)
      PROVE  UNCHANGED approval
  BY <1>6 DEF Act, Step, Return, CutShort
<1>7. CASE (\E i \in Incidents : Persist(i)) \/ Tick
  BY <1>7, <1>1 DEF Persist, Tick
<1>8. CASE Sigterm \/ Shutdown \/ Close \/ Restart \/ UNCHANGED vars
  BY <1>8, <1>1 DEF Sigterm, Shutdown, Close, Restart, vars
<1> QED
  BY <1>1, <1>2, <1>3, <1>4, <1>5, <1>6, <1>7, <1>8
  DEF Next, HandlerStep, RunStep, ServerStep, Fails, TimesOut, Cancelled

\* What becomes of a delivery in one step.
LEMMA DeliveryMoves ==
  ASSUME TypeOK, [Next]_vars, NEW d \in Deliveries
  PROVE  /\ delivery[d] = "scheduled" => delivery'[d] = "scheduled"
         /\ delivery[d] # "scheduled" /\ delivery'[d] = "scheduled" => Schedule(d)
<1> USE DEF handlerVars, graphVars, processVars
<1>0. delivery \in [Deliveries -> {"idle", "admitted", "answered", "scheduled"}]
  BY DEF TypeOK
<1>1. CASE UNCHANGED delivery
  BY <1>1
<1>2. ASSUME NEW e \in Deliveries, Admit(e) \/ Reject(e) \/ Duplicate(e)
      PROVE  delivery[d] = "scheduled" <=> delivery'[d] = "scheduled"
  BY <1>0, <1>2 DEF Admit, Reject, Duplicate
<1>3. ASSUME NEW e \in Deliveries, Schedule(e)
      PROVE  /\ d # e => delivery'[d] = delivery[d]
             /\ delivery'[e] = "scheduled"
  BY <1>0, <1>3 DEF Schedule
<1>4. CASE Crash
  BY <1>0, <1>4 DEF Crash
<1>5. ASSUME NEW a \in Approvals, ReadState(a) \/ Resume(a)
      PROVE  UNCHANGED delivery
  BY <1>5 DEF ReadState, Resume
<1>6. ASSUME NEW x \in Runs, Act(x) \/ Step(x) \/ Return(x) \/ CutShort(x)
      PROVE  UNCHANGED delivery
  BY <1>6 DEF Act, Step, Return, CutShort
<1>7. CASE (\E i \in Incidents : Persist(i)) \/ Tick
  BY <1>7, <1>1 DEF Persist, Tick
<1>8. CASE Sigterm \/ Shutdown \/ Close \/ Restart \/ UNCHANGED vars
  BY <1>8, <1>1 DEF Sigterm, Shutdown, Close, Restart, vars
<1> QED
  BY <1>1, <1>2, <1>3, <1>4, <1>5, <1>6, <1>7, <1>8
  DEF Next, HandlerStep, RunStep, ServerStep, Fails, TimesOut, Cancelled

\* A run that goes on keeps its checkpoint and its answer, or steps along the walk; it
\* ages by Tick alone.
LEMMA RunsGoOn ==
  ASSUME TypeOK, OwnerInv, [Next]_vars, NEW r \in Runs, Live(r), Live(r)'
  PROVE  /\ \/ run'[r].at = run[r].at /\ run'[r].answer = run[r].answer
            \/ /\ Step(r) /\ run'[r].answer = "unset"
               /\ run'[r].at \in Onward(run[r].at, run[r].answer)
         /\ run'[r].age = run[r].age \/ Tick
<1> USE DEF Live
<1> DEFINE Same == run'[r].at = run[r].at /\ run'[r].answer = run[r].answer
           Kept == Same /\ run'[r].age = run[r].age
           Goal == /\ \/ Same
                      \/ /\ Step(r) /\ run'[r].answer = "unset"
                         /\ run'[r].at \in Onward(run[r].at, run[r].answer)
                   /\ run'[r].age = run[r].age \/ Tick
<1>0. run \in [Runs -> RunStates] /\ run[r] \in RunStates
  BY DEF TypeOK
<1>1. ASSUME NEW d \in Deliveries, Schedule(d)
      PROVE  Kept
  <2>1. r # d
    BY <1>1 DEF Schedule, OwnerInv
  <2> QED BY <1>0, <1>1, <2>1 DEF Schedule
<1>2. ASSUME NEW a \in Approvals, Resume(a)
      PROVE  Kept
  <2>1. r # a
    BY <1>2 DEF Resume, OwnerInv
  <2> QED BY <1>0, <1>2, <2>1 DEF Resume
<1>3. ASSUME NEW x \in Runs, Act(x)
      PROVE  Kept
  <2>1. run' = [run EXCEPT ![x].acting = TRUE]
    BY <1>3 DEF Act
  <2> QED BY <1>0, <2>1 DEF RunStates
<1>4. ASSUME NEW x \in Runs, Return(x) \/ CutShort(x)
      PROVE  Kept
  <2>1. run' = [run EXCEPT ![x] = [NoRun EXCEPT !.state = "over"]]
    BY <1>4 DEF Return, CutShort
  <2>2. x # r
    BY <1>0, <2>1 DEF NoRun
  <2> QED BY <1>0, <2>1, <2>2
<1>5. ASSUME NEW x \in Runs, Step(x)
      PROVE  Goal
  <2>1. PICK s \in Onward(run[x].at, run[x].answer) :
          run' = [run EXCEPT ![x].at = s, ![x].answer = "unset", ![x].acting = FALSE]
    BY <1>5 DEF Step
  <2>2. CASE x = r
    <3>1. run'[r].at = s /\ run'[r].answer = "unset" /\ run'[r].age = run[r].age
      BY <1>0, <2>1, <2>2 DEF RunStates
    <3> QED BY <1>5, <2>2, <2>1, <3>1
  <2>3. CASE x # r
    BY <1>0, <2>1, <2>3
  <2> QED BY <2>2, <2>3
<1>6. CASE UNCHANGED run
  BY <1>6
<1>7. CASE Crash
  BY <1>7 DEF Crash, NoRun
<1>8. CASE Tick
  <2>1. run'[r] = [run[r] EXCEPT !.age = @ + 1]
    BY <1>8 DEF Tick
  <2> QED BY <1>0, <1>8, <2>1 DEF RunStates
<1>9. CASE UNCHANGED graphVars
  BY <1>9 DEF graphVars
<1>10. ASSUME NEW d \in Deliveries, Admit(d) \/ Reject(d) \/ Duplicate(d)
       PROVE  UNCHANGED graphVars
  BY <1>10 DEF Admit, Reject, Duplicate
<1>11. CASE (\E a \in Approvals : ReadState(a)) \/ (\E i \in Incidents : Persist(i))
  BY <1>6, <1>11 DEF ReadState, Persist, graphVars
<1>12. CASE Sigterm \/ Shutdown \/ Close \/ Restart \/ UNCHANGED vars
  BY <1>6, <1>12 DEF Sigterm, Shutdown, Close, Restart, vars, graphVars
<1> QED
  BY <1>1, <1>2, <1>3, <1>4, <1>5, <1>7, <1>8, <1>9, <1>10, <1>11, <1>12
  DEF Next, HandlerStep, RunStep, ServerStep, Fails, TimesOut, Cancelled

\* A run that goes on stays with its incident.
LEMMA RunsStay ==
  ASSUME TypeOK, OwnerInv, [Next]_vars, NEW r \in Runs, Live(r)
  PROVE  IncidentOf(r)' = IncidentOf(r)
<1>1. CASE r \in Deliveries
  BY <1>1 DEF IncidentOf
<1>2. CASE r \in Approvals
  <2>1. approval'[r] = approval[r]
    BY <1>2, ApprovalMoves DEF OwnerInv, Resume
  <2> QED BY <1>2, <2>1 DEF IncidentOf
<1> QED BY <1>1, <1>2

-----------------------------------------------------------------------------
\* The parts of the invariant, one after the other.

\* A task keeps the request that created it: OwnerInv is preserved.
LEMMA OwnerStep ==
  ASSUME TypeOK, OwnerInv, [Next]_vars
  PROVE  OwnerInv'
<1>1. ASSUME NEW d \in Deliveries, Live(d)'
      PROVE  delivery'[d] = "scheduled"
  <2>1. CASE Live(d)
    BY <2>1, DeliveryMoves DEF OwnerInv
  <2>2. CASE ~Live(d)
    <3>1. Schedule(d)
      BY <1>1, <2>2, RunsStart, RunnerAssumption
    <3> QED BY <3>1 DEF Schedule, TypeOK
  <2> QED BY <2>1, <2>2
<1>2. ASSUME NEW a \in Approvals
      PROVE  /\ approval'[a].step \in {"checked", "accepted"} =>
                  approval'[a].on \in Incidents /\ approval'[a].answer \in {"yes", "no"}
             /\ approval[a].step = "accepted" => approval'[a].step = "accepted"
             /\ Resume(a) => approval'[a].step = "accepted"
  <2>0. approval[a] \in ApprovalStates
    BY DEF TypeOK
  <2>1. Resume(a) => approval'[a].step = "accepted"
    BY <2>0 DEF TypeOK, Resume, ApprovalStates
  <2>2. Resume(a) => approval[a].step = "checked"
    BY DEF Resume
  <2> QED BY <2>0, <2>1, <2>2, ApprovalMoves DEF OwnerInv, ApprovalStates
<1>3. ASSUME NEW a \in Approvals, Live(a)'
      PROVE  approval'[a].step = "accepted"
  <2>1. CASE Live(a)
    BY <1>2, <2>1 DEF OwnerInv
  <2>2. CASE ~Live(a)
    BY <1>2, <1>3, <2>2, RunsStart, RunnerAssumption
  <2> QED BY <2>1, <2>2
<1> QED BY <1>1, <1>2, <1>3 DEF OwnerInv

\* An answer of a run is cleared by its first step and given by its approval alone.
LEMMA AnswerStep ==
  ASSUME TypeOK, OwnerInv, AnswerInv, [Next]_vars
  PROVE  AnswerInv'
<1> SUFFICES ASSUME NEW r \in Runs, Live(r)', run'[r].answer # "unset"
             PROVE  r \in Approvals /\ run'[r].answer = approval'[r].answer
  BY DEF AnswerInv
<1>1. CASE Live(r)
  <2>1. run'[r].answer = run[r].answer
    BY <1>1, RunsGoOn
  <2>2. r \in Approvals /\ run[r].answer = approval[r].answer
    BY <1>1, <2>1 DEF AnswerInv
  <2>3. approval'[r] = approval[r]
    BY <1>1, <2>2, ApprovalMoves DEF OwnerInv, Resume
  <2> QED BY <2>1, <2>2, <2>3
<1>2. CASE ~Live(r)
  <2>1. CASE r \in Deliveries /\ Schedule(r)
    BY <2>1 DEF Schedule, TypeOK, NoRun
  <2>2. CASE r \in Approvals /\ Resume(r)
    <3>1. run'[r].answer = approval[r].answer
      BY <2>2 DEF Resume, TypeOK, NoRun
    <3>2. approval'[r].answer = approval[r].answer
      BY <2>2 DEF Resume, TypeOK, ApprovalStates
    <3> QED BY <2>2, <3>1, <3>2
  <2> QED BY <1>2, <2>1, <2>2, RunsStart
<1> QED BY <1>1, <1>2

\* What Handling and the tasks at work are, is said of the variables alone.
LEMMA Handlers ==
  ASSUME TypeOK, UNCHANGED handlerVars
  PROVE  Handling' <=> Handling
  BY DEF Handling, handlerVars

\* Nothing but the five steps of the process changes what it is doing.
LEMMA ServerMoves ==
  ASSUME [Next]_vars
  PROVE  ServerStep \/ UNCHANGED <<server, open, pending, restarts>>
<1> USE DEF handlerVars, graphVars, processVars
<1>1. ASSUME NEW d \in Deliveries, Admit(d) \/ Reject(d) \/ Duplicate(d) \/ Schedule(d)
      PROVE  UNCHANGED <<server, open, pending, restarts>>
  BY <1>1 DEF Admit, Reject, Duplicate, Schedule
<1>2. ASSUME NEW a \in Approvals, ReadState(a) \/ Resume(a)
      PROVE  UNCHANGED <<server, open, pending, restarts>>
  BY <1>2 DEF ReadState, Resume
<1>3. ASSUME NEW x \in Runs, Act(x) \/ Step(x) \/ Return(x) \/ CutShort(x)
      PROVE  UNCHANGED <<server, open, pending, restarts>>
  BY <1>3 DEF Act, Step, Return, CutShort
<1>4. CASE (\E i \in Incidents : Persist(i)) \/ Tick \/ UNCHANGED vars
  BY <1>4 DEF Persist, Tick, vars
<1> QED
  BY <1>1, <1>2, <1>3, <1>4
  DEF Next, HandlerStep, RunStep, Fails, TimesOut, Cancelled

\* A handler begins only while the server is up.
LEMMA HandlersBegin ==
  ASSUME TypeOK, [Next]_vars, Handling', ~Handling
  PROVE  server = "up" /\ server' = "up"
<1> USE DEF graphVars, processVars
<1>1. ASSUME NEW d \in Deliveries, Admit(d)
      PROVE  server = "up" /\ server' = "up"
  BY <1>1 DEF Admit
<1>2. ASSUME NEW a \in Approvals, ReadState(a)
      PROVE  server = "up" /\ server' = "up"
  BY <1>2 DEF ReadState
<1>3. ASSUME NEW d \in Deliveries, Reject(d) \/ Duplicate(d) \/ Schedule(d)
      PROVE  FALSE
  BY <1>3 DEF Reject, Duplicate, Schedule, Handling
<1>4. ASSUME NEW a \in Approvals, Resume(a)
      PROVE  FALSE
  BY <1>4 DEF Resume, Handling
<1>5. ASSUME UNCHANGED handlerVars
      PROVE  FALSE
  BY <1>5, Handlers
<1>6. ASSUME NEW x \in Runs, Act(x) \/ Step(x) \/ Return(x) \/ CutShort(x)
      PROVE  UNCHANGED handlerVars
  BY <1>6 DEF Act, Step, Return, CutShort
<1>7. CASE (\E i \in Incidents : Persist(i)) \/ Tick
  BY <1>5, <1>7 DEF Persist, Tick
<1>8. CASE Sigterm \/ Shutdown \/ Close \/ Restart \/ UNCHANGED vars
  BY <1>5, <1>8 DEF Sigterm, Shutdown, Close, Restart, vars
<1>9. CASE Crash
  BY <1>9 DEF Crash, Handling, Idle
<1> QED
  BY <1>1, <1>2, <1>3, <1>4, <1>5, <1>6, <1>7, <1>8, <1>9
  DEF Next, HandlerStep, RunStep, ServerStep, Fails, TimesOut, Cancelled

\* A checkpoint is written by a run, old or just scheduled.
LEMMA WritesNeedRuns ==
  ASSUME TypeOK, [Next]_vars, NEW i \in Incidents, unsaved[i] = <<>>, unsaved'[i] # <<>>
  PROVE  RunsOf(i) # {} \/ (i \in Deliveries /\ Schedule(i))
<1> USE DEF handlerVars, graphVars, processVars
<1>1. ASSUME NEW d \in Deliveries, Schedule(d)
      PROVE  i = d
  BY <1>1 DEF Schedule, TypeOK
<1>2. ASSUME NEW x \in Runs, Step(x)
      PROVE  RunsOf(i) # {}
  <2>1. Live(x) /\ IncidentOf(x) = i
    BY <1>2 DEF Step, TypeOK
  <2> QED BY <2>1 DEF RunsOf
<1>3. ASSUME NEW j \in Incidents, Persist(j)
      PROVE  FALSE
  BY <1>3 DEF Persist, TypeOK
<1>4. ASSUME NEW d \in Deliveries, Admit(d) \/ Reject(d) \/ Duplicate(d)
      PROVE  FALSE
  BY <1>4 DEF Admit, Reject, Duplicate
<1>5. ASSUME NEW a \in Approvals, ReadState(a) \/ Resume(a)
      PROVE  FALSE
  BY <1>5 DEF ReadState, Resume
<1>6. ASSUME NEW x \in Runs, Act(x) \/ Return(x) \/ CutShort(x)
      PROVE  FALSE
  BY <1>6 DEF Act, Return, CutShort
<1>7. CASE Sigterm \/ Shutdown \/ Close \/ Restart \/ Tick \/ UNCHANGED vars
  BY <1>7 DEF Sigterm, Shutdown, Close, Restart, Tick, vars
<1>8. CASE Crash
  BY <1>8 DEF Crash
<1> QED
  BY <1>1, <1>2, <1>3, <1>4, <1>5, <1>6, <1>7, <1>8
  DEF Next, HandlerStep, RunStep, ServerStep, Fails, TimesOut, Cancelled

\* A task that has begun keeps its incident, also when it is over.
LEMMA BegunStay ==
  ASSUME TypeOK, ServerInv, [Next]_vars, NEW r \in Runs, Begun(r)
  PROVE  IncidentOf(r)' = IncidentOf(r) /\ Begun(r)'
<1>1. CASE r \in Deliveries
  BY <1>1, RunsBegin DEF IncidentOf
<1>2. CASE r \in Approvals
  <2>1. approval'[r] = approval[r]
    BY <1>2, ApprovalMoves DEF ServerInv, Resume
  <2> QED BY <1>2, <2>1, RunsBegin DEF IncidentOf
<1> QED BY <1>1, <1>2

\* Who wrote the checkpoints underway: while no delivery is scheduled, one of the tasks
\* that were there, if those at work are among them.
LEMMA WritersStay ==
  ASSUME TypeOK, OwnerInv, ServerInv, [Next]_vars, NEW tasks \in SUBSET Runs,
         WrittenBy(tasks), \A r \in Runs : Live(r) => r \in tasks,
         NEW i \in Incidents, unsaved'[i] # <<>>
  PROVE  \/ \E r \in tasks : Begun(r)' /\ IncidentOf(r)' = i
         \/ Schedule(i)
<1>1. CASE unsaved[i] # <<>>
  <2>1. PICK r \in tasks : Begun(r) /\ IncidentOf(r) = i
    BY <1>1 DEF WrittenBy
  <2> QED BY <2>1, BegunStay
<1>2. CASE unsaved[i] = <<>> /\ RunsOf(i) # {}
  <2>1. PICK r \in Runs : Live(r) /\ IncidentOf(r) = i
    BY <1>2 DEF RunsOf
  <2>2. Begun(r) /\ r \in tasks
    BY <2>1 DEF Live, Begun
  <2> QED BY <2>1, <2>2, BegunStay
<1> QED BY <1>1, <1>2, WritesNeedRuns

\* What may be alive in each state of the process: ServerInv is preserved by requests, by
\* tasks, and by the steps of the server.
LEMMA ServerInvStep ==
  ASSUME TypeOK, OwnerInv, ServerInv, [Next]_vars
  PROVE  ServerInv'
<1> DEFINE Quiet == (\A r \in Runs : ~Live(r)) /\ (\A i \in Incidents : unsaved[i] = <<>>)
<1>0. Len(ExitStack) = 6 /\ ExitStack[6] = "runner" /\ open \in 0..6
  BY DEF ExitStack, TypeOK
<1>1. ASSUME Handling' , server' \in {"draining", "closed", "down"}
      PROVE  FALSE
  <2>1. Handling
    BY <1>1, HandlersBegin
  <2>2. server \in {"up", "stopping"}
    BY <2>1 DEF ServerInv, TypeOK
  <2>3. Shutdown \/ Crash
    BY <1>1, <2>2, ServerMoves DEF ServerStep, Sigterm, Close, Restart
  <2>4. ~Crash
    BY <1>1 DEF Crash, Handling, Idle
  <2> QED BY <2>1, <2>3, <2>4 DEF Shutdown
<1>2. ASSUME ~Handling
      PROVE  /\ \A r \in Runs : Live(r)' => Live(r)
             /\ \A d \in Deliveries : ~Schedule(d)
  BY <1>2, RunsStart DEF Handling, Schedule, Resume
<1>3. ASSUME Closed'
      PROVE  Quiet'
  <2>1. CASE Closed
    <3>1. Quiet /\ ~Handling
      BY <1>0, <2>1 DEF ServerInv, Closed, TypeOK
    <3>2. \A r \in Runs : ~Live(r)'
      BY <1>2, <3>1
    <3>3. \A i \in Incidents : unsaved'[i] = <<>>
      BY <1>2, <3>1, WritesNeedRuns DEF RunsOf
    <3> QED BY <3>2, <3>3
  <2>2. CASE ~Closed
    <3>1. Close \/ Crash
      BY <1>3, <2>2, ServerMoves DEF ServerStep, Sigterm, Shutdown, Restart, Closed
    <3>2. CASE Crash
      BY <3>2 DEF Crash, Live, NoRun
    <3>3. CASE Close
      <4>1. server = "draining" /\ open = 6 /\ AllDone
        BY <1>0, <2>2, <3>3 DEF Close, Closed, Draining
      <4>2. \A r \in Runs : ~Live(r)
        BY <4>1 DEF ServerInv, AllDone, Unwound
      <4>3. \A i \in Incidents : unsaved[i] = <<>>
        BY <4>1 DEF ServerInv, WrittenBy, AllDone, Unwound
      <4> QED BY <3>3, <4>2, <4>3 DEF Close, graphVars, Live
    <3> QED BY <3>1, <3>2, <3>3
  <2> QED BY <2>1, <2>2
<1>4. /\ server' # "up" => restarts' < MaxRestarts
      /\ server' \in {"up", "stopping"} => open' = Len(ExitStack)
  BY ServerMoves DEF ServerInv, ServerStep, Sigterm, Shutdown, Close, Crash, Restart,
     processVars
<1>5. ASSUME server' = "draining"
      PROVE  /\ open' > 0 /\ (\A r \in Runs : Live(r)' => r \in pending')
             /\ WrittenBy(pending)'
  <2>1. CASE Shutdown
    <3>1. /\ open' = 6 /\ pending' = Tasks
          /\ UNCHANGED <<run, unsaved, approval>>
      BY <1>0, <2>1 DEF Shutdown, ServerInv, handlerVars, graphVars
    <3>2. \A r \in Runs : Live(r)' => r \in pending'
      BY <3>1 DEF Live, Tasks, Begun, Unwound
    <3>3. ASSUME NEW i \in Incidents, unsaved'[i] # <<>>
          PROVE  \E r \in pending' : Begun(r)' /\ IncidentOf(r)' = i
      <4>1. PICK r \in Runs : Begun(r) /\ IncidentOf(r) = i
        BY <3>1, <3>3 DEF ServerInv, WrittenBy
      <4>2. r \in Tasks
        BY <3>1, <3>3, <4>1 DEF Tasks, Unwound
      <4> QED BY <3>1, <4>1, <4>2 DEF Begun, IncidentOf
    <3> QED BY <3>1, <3>2, <3>3 DEF WrittenBy
  <2>2. CASE ~Shutdown
    <3>1. /\ server = "draining" /\ pending' = pending /\ open' > 0
      BY <1>0, <1>5, <2>2, ServerMoves
      DEF ServerStep, Sigterm, Close, Crash, Restart, ServerInv
    <3>2. /\ ~Handling /\ WrittenBy(pending) /\ pending \in SUBSET Runs
          /\ \A r \in Runs : Live(r) => r \in pending
      BY <3>1 DEF ServerInv, TypeOK
    <3>3. ASSUME NEW i \in Incidents, unsaved'[i] # <<>>
          PROVE  \E r \in pending : Begun(r)' /\ IncidentOf(r)' = i
      BY <1>2, <3>2, <3>3, WritersStay
    <3> QED BY <1>2, <3>1, <3>2, <3>3 DEF WrittenBy
  <2> QED BY <2>1, <2>2
<1>6. ASSUME NEW a \in Approvals, Begun(a)'
      PROVE  approval'[a].step = "accepted"
  <2>1. CASE Begun(a)
    BY <2>1, ApprovalMoves DEF ServerInv, Resume
  <2>2. CASE ~Begun(a)
    <3>1. Resume(a)
      BY <1>6, <2>2, RunsBegin, RunnerAssumption
    <3> QED BY <3>1 DEF Resume, TypeOK, ApprovalStates
  <2> QED BY <2>1, <2>2
<1>7. WrittenBy(Runs)'
  <2> SUFFICES ASSUME NEW i \in Incidents, unsaved'[i] # <<>>
               PROVE  \E r \in Runs : Begun(r)' /\ IncidentOf(r)' = i
    BY DEF WrittenBy
  <2>1. CASE Schedule(i)
    BY <2>1 DEF Schedule, TypeOK, Begun, NoRun, IncidentOf
  <2> QED BY <2>1, WritersStay DEF ServerInv
<1> QED BY <1>1, <1>3, <1>4, <1>5, <1>6, <1>7 DEF ServerInv

\* Only a delivery, a restart and time touch the fingerprint index.
LEMMA IndexMoves ==
  ASSUME [Next]_vars
  PROVE  (\E d \in Deliveries : Schedule(d)) \/ Restart \/ Tick \/ UNCHANGED index
<1> USE DEF processVars
<1>1. ASSUME NEW d \in Deliveries, Admit(d) \/ Reject(d) \/ Duplicate(d)
      PROVE  UNCHANGED index
  BY <1>1 DEF Admit, Reject, Duplicate
<1>2. ASSUME NEW a \in Approvals, ReadState(a) \/ Resume(a)
      PROVE  UNCHANGED index
  BY <1>2 DEF ReadState, Resume
<1>3. ASSUME NEW x \in Runs, Act(x) \/ Step(x) \/ Return(x) \/ CutShort(x)
      PROVE  UNCHANGED index
  BY <1>3 DEF Act, Step, Return, CutShort
<1>4. CASE (\E i \in Incidents : Persist(i)) \/ Sigterm \/ Shutdown \/ Close \/ Crash \/ UNCHANGED vars
  BY <1>4 DEF Persist, Sigterm, Shutdown, Close, Crash, vars
<1> QED
  BY <1>1, <1>2, <1>3, <1>4
  DEF Next, HandlerStep, RunStep, ServerStep, Fails, TimesOut, Cancelled

\* A reservation is fresher than the run it is for, and outlives it: a second delivery
\* finds it, and time cannot forget it first.
LEMMA IndexStep ==
  ASSUME TypeOK, OwnerInv, ServerInv, IndexInv, [Next]_vars
  PROVE  IndexInv'
<1> SUFFICES ASSUME NEW d \in Deliveries, Live(d)', PrintOf[d] # Unprinted
             PROVE  /\ index'[PrintOf[d]].by = d
                    /\ index'[PrintOf[d]].age <= run'[d].age
                    /\ run'[d].age <= FirstLimit
  BY DEF IndexInv
<1> DEFINE p == PrintOf[d]
<1>0. /\ p \in Prints /\ d # Free /\ FirstLimit \in Nat /\ TTL \in Nat
      /\ d \in Runs /\ Limit(d) = FirstLimit
  BY RunnerAssumption DEF Limit
<1>1. CASE ~Live(d)
  <2>1. Schedule(d)
    BY <1>1, RunsStart, RunnerAssumption
  <2>2. index'[p] = [by |-> d, age |-> 0]
    BY <1>0, <2>1 DEF Schedule, Reserve, TypeOK
  <2>3. run'[d].age = 0
    BY <2>1 DEF Schedule, NoRun, TypeOK
  <2> QED BY <1>0, <2>2, <2>3
<1>2. CASE Live(d)
  <2>1. /\ index[p].by = d /\ index[p].age <= run[d].age /\ run[d].age <= FirstLimit
    BY <1>2 DEF IndexInv
  <2>2. index[p] \in Reservations /\ index[p].age \in Nat /\ run[d].age \in Nat
    BY <1>0, RunFields DEF TypeOK, Reservations
  <2>3. Reserved(p)
    BY <1>0, <2>1, <2>2, WallClockAssumption DEF Reserved
  <2>4. ~Restart
    BY <1>2 DEF ServerInv, Closed, Restart
  <2>5. ASSUME NEW e \in Deliveries, Schedule(e)
        PROVE  index'[p] = index[p]
    <3>1. PrintOf[e] # p
      BY <2>3, <2>5 DEF Schedule
    <3> QED BY <1>0, <2>5, <3>1 DEF Schedule, Reserve, TypeOK
  <2>6. CASE Tick
    <3>1. index'[p] = [index[p] EXCEPT !.age = Older(@, TTL + 1)]
      BY <1>0, <2>1, <2>6 DEF Tick
    <3>2. index'[p].by = d /\ index'[p].age \in Nat /\ index'[p].age <= index[p].age + 1
      <4>1. index'[p].by = d /\ index'[p].age = Older(index[p].age, TTL + 1)
        BY <2>1, <2>2, <3>1 DEF Reservations
      <4>2. /\ Older(index[p].age, TTL + 1) \in Nat
            /\ Older(index[p].age, TTL + 1) <= index[p].age + 1
        BY <2>2 DEF Older
      <4> QED BY <4>1, <4>2
    <3>3. run'[d] = [run[d] EXCEPT !.age = @ + 1] /\ run[d].age < FirstLimit
      BY <1>0, <1>2, <2>6 DEF Tick
    <3>4. run'[d].age = run[d].age + 1
      BY <1>0, <3>3, RunFields DEF RunStates
    <3> QED BY <1>0, <2>1, <2>2, <3>2, <3>3, <3>4
  <2>7. CASE ~Tick
    <3>1. index'[p] = index[p]
      BY <2>4, <2>5, <2>7, IndexMoves
    <3>2. run'[d].age = run[d].age
      BY <1>0, <1>2, <2>7, RunsGoOn
    <3> QED BY <2>1, <3>1, <3>2
  <2> QED BY <2>6, <2>7
<1> QED BY <1>1, <1>2

-----------------------------------------------------------------------------
\* Consent.

\* A checkpoint that is saved or underway was so before, or a run has just got there.
LEMMA CheckpointsFrom ==
  ASSUME TypeOK, OwnerInv, [Next]_vars, NEW i \in Incidents
  PROVE  /\ \A s \in saved'[i] : s \in saved[i] \/ \E k \in DOMAIN unsaved[i] : s = unsaved[i][k]
         /\ \A k \in DOMAIN unsaved'[i] :
              \/ \E j \in DOMAIN unsaved[i] : unsaved'[i][k] = unsaved[i][j]
              \/ \E r \in Runs : Live(r)' /\ IncidentOf(r)' = i /\ unsaved'[i][k] = run'[r].at
<1> USE DEF handlerVars, graphVars, processVars
<1> DEFINE Goal ==
      /\ \A s \in saved'[i] : s \in saved[i] \/ \E k \in DOMAIN unsaved[i] : s = unsaved[i][k]
      /\ \A k \in DOMAIN unsaved'[i] :
           \/ \E j \in DOMAIN unsaved[i] : unsaved'[i][k] = unsaved[i][j]
           \/ \E r \in Runs : Live(r)' /\ IncidentOf(r)' = i /\ unsaved'[i][k] = run'[r].at
<1>0. /\ unsaved \in [Incidents -> Seq(Checkpoints)] /\ saved \in [Incidents -> SUBSET Checkpoints]
      /\ run \in [Runs -> RunStates] /\ unsaved[i] \in Seq(Checkpoints)
  BY DEF TypeOK
<1>1. ASSUME UNCHANGED <<saved, unsaved>>
      PROVE  Goal
  BY <1>1
<1>2. ASSUME NEW d \in Deliveries, Schedule(d)
      PROVE  Goal
  <2>1. saved' = saved /\ unsaved' = [unsaved EXCEPT ![d] = <<Fresh>>]
    BY <1>2 DEF Schedule
  <2>2. CASE i = d
    <3>1. run'[d].state = "live" /\ run'[d].at = Fresh
      BY <1>0, <1>2 DEF Schedule, NoRun
    <3>2. Live(d)' /\ IncidentOf(d)' = d
      BY <3>1 DEF Live, IncidentOf
    <3>3. \A k \in DOMAIN unsaved'[i] : unsaved'[i][k] = Fresh
      BY <1>0, <2>1, <2>2
    <3> QED BY <2>1, <2>2, <3>1, <3>2, <3>3
  <2>3. CASE i # d
    BY <1>0, <2>1, <2>3
  <2> QED BY <2>2, <2>3
<1>3. ASSUME NEW j \in Incidents, Persist(j)
      PROVE  Goal
  <2>1. CASE i = j
    <3>1. saved'[i] = {Head(unsaved[i])} /\ unsaved'[i] = Tail(unsaved[i]) /\ unsaved[i] # <<>>
      BY <1>0, <1>3, <2>1 DEF Persist
    <3>2. 1 \in DOMAIN unsaved[i] /\ Head(unsaved[i]) = unsaved[i][1]
      BY <1>0, <3>1
    <3>3. \A k \in DOMAIN Tail(unsaved[i]) :
            k + 1 \in DOMAIN unsaved[i] /\ Tail(unsaved[i])[k] = unsaved[i][k + 1]
      BY <1>0, <3>1
    <3> QED BY <3>1, <3>2, <3>3
  <2>2. CASE i # j
    <3>1. saved'[i] = saved[i] /\ unsaved'[i] = unsaved[i]
      BY <1>0, <1>3, <2>2 DEF Persist
    <3> QED BY <3>1
  <2> QED BY <2>1, <2>2
<1>4. ASSUME NEW x \in Runs, Step(x)
      PROVE  Goal
  <2>1. PICK s \in Onward(run[x].at, run[x].answer) :
          /\ run' = [run EXCEPT ![x].at = s, ![x].answer = "unset", ![x].acting = FALSE]
          /\ unsaved' = [unsaved EXCEPT ![IncidentOf(x)] = Append(@, s)]
    BY <1>4 DEF Step
  <2>2. saved' = saved /\ Live(x)
    BY <1>4 DEF Step
  <2>3. s \in Checkpoints
    BY RunFields, WalkTyped
  <2>4. CASE i = IncidentOf(x)
    <3>1. run'[x].state = "live" /\ run'[x].at = s
      BY <1>0, <2>1, <2>2 DEF Live, RunStates
    <3>2. Live(x)' /\ IncidentOf(x)' = i
      BY <1>4, <2>4, <3>1 DEF Live, IncidentOf, Step
    <3>3. unsaved'[i] = Append(unsaved[i], s)
      BY <1>0, <2>1, <2>4
    <3>4. \A k \in DOMAIN Append(unsaved[i], s) :
            \/ k \in DOMAIN unsaved[i] /\ Append(unsaved[i], s)[k] = unsaved[i][k]
            \/ Append(unsaved[i], s)[k] = s
      BY <1>0, <2>3
    <3> QED BY <2>2, <3>1, <3>2, <3>3, <3>4
  <2>5. CASE i # IncidentOf(x)
    <3>1. saved'[i] = saved[i] /\ unsaved'[i] = unsaved[i]
      BY <1>0, <2>1, <2>2, <2>5
    <3> QED BY <3>1
  <2> QED BY <2>4, <2>5
<1>5. CASE Crash
  BY <1>0, <1>5 DEF Crash
<1>6. ASSUME NEW d \in Deliveries, Admit(d) \/ Reject(d) \/ Duplicate(d)
      PROVE  UNCHANGED <<saved, unsaved>>
  BY <1>6 DEF Admit, Reject, Duplicate
<1>7. ASSUME NEW a \in Approvals, ReadState(a) \/ Resume(a)
      PROVE  UNCHANGED <<saved, unsaved>>
  BY <1>7 DEF ReadState, Resume
<1>8. ASSUME NEW x \in Runs, Act(x) \/ Return(x) \/ CutShort(x)
      PROVE  UNCHANGED <<saved, unsaved>>
  BY <1>8 DEF Act, Return, CutShort
<1>9. CASE Sigterm \/ Shutdown \/ Close \/ Restart \/ Tick \/ UNCHANGED vars
  BY <1>1, <1>9 DEF Sigterm, Shutdown, Close, Restart, Tick, vars
<1> QED
  BY <1>1, <1>2, <1>3, <1>4, <1>5, <1>6, <1>7, <1>8, <1>9
  DEF Next, HandlerStep, RunStep, ServerStep, Fails, TimesOut, Cancelled

\* Consent is not taken back.
LEMMA ConsentStays ==
  ASSUME TypeOK, [Next]_vars, NEW i \in Incidents
  PROVE  /\ SaidYes(i) => SaidYes(i)'
         /\ \A s \in Checkpoints : Consented(i, s) => Consented(i, s)'
<1>1. ASSUME SaidYes(i)
      PROVE  SaidYes(i)'
  <2>1. PICK a \in Approvals :
          approval[a].step = "accepted" /\ approval[a].on = i /\ approval[a].answer = "yes"
    BY <1>1 DEF SaidYes, Accepted
  <2>2. approval'[a] = approval[a]
    BY <2>1, ApprovalMoves
  <2> QED BY <2>1, <2>2 DEF SaidYes, Accepted
<1> QED BY <1>1 DEF Consented

\* No run gets past its gate without a "yes", and the checkpoints it leaves behind carry
\* no more consent than was given.
LEMMA ConsentStep ==
  ASSUME TypeOK, OwnerInv, AnswerInv, ConsentInv, [Next]_vars
  PROVE  ConsentInv'
<1>1. ASSUME NEW r \in Runs, Live(r)', NEW t, t = run'[r].at, NEW i, i = IncidentOf(r)'
      PROVE  i \in Incidents /\ Consented(i, t)'
  <2>0. run[r].at \in Checkpoints /\ run[r].answer \in Answers
    BY RunFields
  <2>1. CASE Live(r)
    <3>1. i = IncidentOf(r) /\ i \in Incidents
      BY <1>1, <2>1, RunsStay, IncidentTyped
    <3>2. PICK s \in Checkpoints : s = run[r].at
      BY <2>0
    <3>3. Consented(i, s)
      BY <2>1, <3>1, <3>2 DEF ConsentInv
    <3>4. CASE t = s
      BY <3>1, <3>3, <3>4, ConsentStays
    <3>5. CASE t \in Onward(s, run[r].answer)
      <4>1. /\ t.granted = "yes" => s.granted = "yes" \/ run[r].answer = "yes"
            /\ t.at = "execute" /\ t.needs => t.granted = "yes"
            /\ t \in Checkpoints
        BY <2>0, <3>3, <3>5, WalkConsented, WalkTyped DEF Consented
      <4>2. CASE s.granted = "yes"
        BY <3>1, <3>3, <4>1, <4>2, ConsentStays DEF Consented
      <4>3. CASE run[r].answer = "yes"
        <5>1. r \in Approvals /\ approval[r].answer = "yes" /\ approval[r].step = "accepted"
          BY <2>1, <4>3 DEF AnswerInv, OwnerInv
        <5>2. approval[r].on = i
          BY <3>1, <5>1, RunnerAssumption DEF IncidentOf
        <5>3. SaidYes(i)
          BY <5>1, <5>2 DEF SaidYes, Accepted
        <5> QED BY <3>1, <4>1, <5>3, ConsentStays DEF Consented
      <4>4. CASE t.granted # "yes"
        BY <3>1, <4>1, <4>4 DEF Consented
      <4> QED BY <4>1, <4>2, <4>3, <4>4
    <3> QED BY <1>1, <2>1, <3>1, <3>2, <3>4, <3>5, RunsGoOn
  <2>2. CASE ~Live(r)
    <3>1. CASE r \in Deliveries /\ Schedule(r)
      <4>1. t = Fresh
        BY <1>1, <3>1 DEF Schedule, NoRun, TypeOK
      <4>2. t.granted = "unset" /\ t.at = "work" /\ i \in Incidents
        BY <1>1, <3>1, <4>1 DEF Fresh, IncidentOf
      <4> QED BY <4>2 DEF Consented
    <3>2. CASE r \in Approvals /\ Resume(r)
      <4>1. PICK s \in saved[approval[r].on] :
              run' = [run EXCEPT ![r] = [NoRun EXCEPT !.state = "live", !.at = s,
                                                      !.answer = approval[r].answer]]
        BY <3>2 DEF Resume
      <4>2. t = s
        BY <1>1, <4>1 DEF TypeOK, NoRun
      <4>3. approval[r].on \in Incidents
        BY <3>2 DEF OwnerInv, Resume
      <4>4. i = approval[r].on
        BY <1>1, <3>2, RunnerAssumption DEF IncidentOf, Resume, TypeOK, ApprovalStates
      <4>5. Consented(i, s) /\ s \in Checkpoints
        BY <4>1, <4>3, <4>4 DEF ConsentInv, TypeOK
      <4> QED BY <4>2, <4>3, <4>4, <4>5, ConsentStays
    <3> QED BY <1>1, <2>2, <3>1, <3>2, RunsStart
  <2> QED BY <2>1, <2>2
<1>2. ASSUME NEW i \in Incidents, NEW s \in saved'[i]
      PROVE  Consented(i, s)'
  <2>1. s \in Checkpoints /\ Consented(i, s)
    BY <1>2, CheckpointsFrom DEF ConsentInv, TypeOK
  <2> QED BY <2>1, ConsentStays
<1>3. ASSUME NEW i \in Incidents, NEW k \in DOMAIN unsaved'[i], NEW s, s = unsaved'[i][k]
      PROVE  Consented(i, s)'
  <2>1. CASE \E j \in DOMAIN unsaved[i] : s = unsaved[i][j]
    <3>1. s \in Checkpoints /\ Consented(i, s)
      BY <2>1 DEF ConsentInv, TypeOK
    <3> QED BY <3>1, ConsentStays
  <2>2. CASE \E r \in Runs : Live(r)' /\ IncidentOf(r)' = i /\ s = run'[r].at
    BY <1>1, <2>2
  <2> QED BY <1>3, <2>1, <2>2, CheckpointsFrom
<1> QED BY <1>1, <1>2, <1>3 DEF ConsentInv

\* The managed system is touched by runs alone.
LEMMA ActsMoves ==
  ASSUME [Next]_vars
  PROVE  (\E r \in Runs : Act(r)) \/ UNCHANGED consented
<1> USE DEF graphVars, processVars
<1>1. ASSUME NEW d \in Deliveries, Admit(d) \/ Reject(d) \/ Duplicate(d) \/ Schedule(d)
      PROVE  UNCHANGED consented
  BY <1>1 DEF Admit, Reject, Duplicate, Schedule
<1>2. ASSUME NEW a \in Approvals, ReadState(a) \/ Resume(a)
      PROVE  UNCHANGED consented
  BY <1>2 DEF ReadState, Resume
<1>3. ASSUME NEW x \in Runs, Step(x) \/ Return(x) \/ CutShort(x)
      PROVE  UNCHANGED consented
  BY <1>3 DEF Step, Return, CutShort
<1>4. CASE (\E i \in Incidents : Persist(i)) \/ Tick \/ UNCHANGED vars
  BY <1>4 DEF Persist, Tick, vars
<1>5. CASE Sigterm \/ Shutdown \/ Close \/ Crash \/ Restart
  BY <1>5 DEF Sigterm, Shutdown, Close, Crash, Restart
<1> QED
  BY <1>1, <1>2, <1>3, <1>4, <1>5
  DEF Next, HandlerStep, RunStep, ServerStep, Fails, TimesOut, Cancelled

\* An action that needs consent is only taken by a run that stands on a consented checkpoint.
LEMMA ActsStep ==
  ASSUME TypeOK, OwnerInv, ConsentInv, ActsOnConsent, [Next]_vars
  PROVE  ActsOnConsent'
<1>1. ASSUME NEW i \in consented'
      PROVE  i \in Incidents /\ SaidYes(i)
  <2>1. CASE i \in consented
    BY <2>1 DEF ActsOnConsent, SaidYes, TypeOK
  <2>2. CASE i \notin consented
    <3>1. PICK r \in Runs : Act(r)
      BY <2>2, ActsMoves
    <3>2. i = IncidentOf(r) /\ run[r].at.needs /\ run[r].at.at = "execute" /\ Live(r)
      BY <2>2, <3>1 DEF Act
    <3>3. Consented(i, run[r].at)
      BY <3>2 DEF ConsentInv
    <3> QED BY <3>2, <3>3, IncidentTyped DEF Consented
  <2> QED BY <2>1, <2>2
<1>2. \A i \in consented' : SaidYes(i)'
  BY <1>1, ConsentStays
<1> QED BY <1>2 DEF ActsOnConsent, SaidYes

-----------------------------------------------------------------------------
\* The course of an incident.

\* The last element of a queue, appended to or served from.
LEMMA AppendLast ==
  ASSUME NEW S, NEW q \in Seq(S), NEW s \in S
  PROVE  Append(q, s) # <<>> /\ Append(q, s)[Len(Append(q, s))] = s
<1>1. Len(Append(q, s)) = Len(q) + 1 /\ Len(q) \in Nat /\ Append(q, s)[Len(q) + 1] = s
  OBVIOUS
<1>2. Len(<<>>) = 0
  OBVIOUS
<1> QED BY <1>1, <1>2

\* Taking the first element of a queue off does not change its last.
LEMMA TailLast ==
  ASSUME NEW S, NEW q \in Seq(S), q # <<>>
  PROVE  /\ Tail(q) = <<>> => Head(q) = q[Len(q)]
         /\ Tail(q) # <<>> => Tail(q)[Len(Tail(q))] = q[Len(q)]
<1>1. /\ Tail(q) \in Seq(S) /\ Len(Tail(q)) = Len(q) - 1 /\ Len(q) \in Nat
      /\ \A k \in 1..Len(Tail(q)) : Tail(q)[k] = q[k + 1]
  BY HeadTailProperties
<1>2. Tail(q) = <<>> => Len(q) = 1
  BY <1>1, EmptySeq
<1>3. Tail(q) # <<>> => Len(Tail(q)) \in 1..Len(Tail(q))
  BY <1>1, EmptySeq
<1> QED BY <1>1, <1>2, <1>3

\* What leaves its checkpoints alone and its runs where they are keeps its course.
LEMMA Undisturbed ==
  ASSUME TypeOK, OwnerInv, [Next]_vars, NEW i \in Incidents, Course(i),
         saved'[i] = saved[i], unsaved'[i] = unsaved[i],
         \A r \in RunsOf(i) : Live(r)' /\ run'[r].at = run[r].at
  PROVE  Course(i)'
<1>1. \A r \in RunsOf(i) : r \in RunsOf(i)'
  BY RunsStay DEF RunsOf
<1>2. Newest(i)' = Newest(i)
  BY DEF Newest
<1> QED BY <1>1, <1>2 DEF Course

\* As long as none of its runs is cut short, an incident is worked on, at its end, or paused.
LEMMA CourseStep ==
  ASSUME TypeOK, OwnerInv, CourseInv, [Next]_vars
  PROVE  CourseInv'
<1> SUFFICES ASSUME NEW i \in Incidents, Started(i)', i \notin cut'
             PROVE  Course(i)'
  BY DEF CourseInv
<1> USE DEF handlerVars, graphVars, processVars
<1>0. /\ unsaved \in [Incidents -> Seq(Checkpoints)] /\ unsaved[i] \in Seq(Checkpoints)
      /\ saved \in [Incidents -> SUBSET Checkpoints] /\ run \in [Runs -> RunStates]
  BY DEF TypeOK
<1>1. CASE ~Started(i)
  <2>1. Schedule(i)
    BY <1>1, DeliveryMoves DEF Started
  <2>2. unsaved'[i] = <<Fresh>> /\ Live(i)' /\ run'[i].at = Fresh
    BY <1>0, <2>1 DEF Schedule, NoRun, Live
  <2>3. i \in RunsOf(i)'
    BY <2>2 DEF RunsOf, IncidentOf
  <2>4. Fresh \in Newest(i)'
    BY <2>2 DEF Newest
  <2> QED BY <2>2, <2>3, <2>4 DEF Course
<1>2. CASE Started(i) /\ i \notin cut
  <2>0. Course(i)
    BY <1>2 DEF CourseInv
  <2>1. CASE UNCHANGED <<run, saved, unsaved>>
    BY <2>0, <2>1, Undisturbed DEF RunsOf, Live
  <2>2. ASSUME NEW d \in Deliveries, Schedule(d)
        PROVE  Course(i)'
    <3>1. d # i
      BY <1>2, <2>2 DEF Schedule, Started
    <3>2. saved'[i] = saved[i] /\ unsaved'[i] = unsaved[i]
      BY <1>0, <2>2, <3>1 DEF Schedule
    <3>3. \A r \in RunsOf(i) : r # d
      BY <2>2 DEF Schedule, RunsOf, OwnerInv
    <3>4. \A r \in RunsOf(i) : run'[r] = run[r]
      BY <1>0, <2>2, <3>3 DEF Schedule, RunsOf
    <3> QED BY <2>0, <3>2, <3>4, Undisturbed DEF RunsOf, Live
  <2>3. ASSUME NEW a \in Approvals, Resume(a)
        PROVE  Course(i)'
    <3>1. saved'[i] = saved[i] /\ unsaved'[i] = unsaved[i]
      BY <2>3 DEF Resume
    <3>2. \A r \in RunsOf(i) : r # a
      BY <2>3 DEF Resume, RunsOf, OwnerInv
    <3>3. \A r \in RunsOf(i) : run'[r] = run[r]
      BY <1>0, <2>3, <3>2 DEF Resume, RunsOf
    <3> QED BY <2>0, <3>1, <3>3, Undisturbed DEF RunsOf, Live
  <2>4. ASSUME NEW j \in Incidents, Persist(j)
        PROVE  Course(i)'
    <3>1. RunsOf(i)' = RunsOf(i) /\ UNCHANGED run
      BY <2>4 DEF Persist, RunsOf, Live, IncidentOf
    <3>2. CASE i # j
      BY <1>0, <2>0, <2>4, <3>1, <3>2, Undisturbed DEF Persist, RunsOf, Live
    <3>3. CASE i = j
      <4>1. /\ unsaved[i] # <<>> /\ unsaved'[i] = Tail(unsaved[i])
            /\ saved'[i] = {Head(unsaved[i])}
        BY <1>0, <2>4, <3>3 DEF Persist
      <4>2. Newest(i)' = Newest(i)
        <5>1. unsaved[i] # <<>> /\ unsaved[i] \in Seq(Checkpoints)
          BY <1>0, <4>1
        <5>2. CASE Tail(unsaved[i]) = <<>>
          <6>1. Newest(i)' = {Head(unsaved[i])}
            BY <4>1, <5>2 DEF Newest
          <6>2. Newest(i) = {unsaved[i][Len(unsaved[i])]}
            BY <5>1 DEF Newest
          <6> QED BY <5>1, <5>2, <6>1, <6>2, TailLast
        <5>3. CASE Tail(unsaved[i]) # <<>>
          <6>1. Newest(i)' = {Tail(unsaved[i])[Len(Tail(unsaved[i]))]}
            BY <4>1, <5>3 DEF Newest
          <6>2. Newest(i) = {unsaved[i][Len(unsaved[i])]}
            BY <5>1 DEF Newest
          <6> QED BY <5>1, <5>3, <6>1, <6>2, TailLast
        <5> QED BY <5>2, <5>3
      <4>3. RunsOf(i) # {}
        BY <2>0, <4>1 DEF Course
      <4>4. \E s \in Newest(i)' : (\E r \in RunsOf(i)' : run'[r].at = s) \/ s.at = "end" \/ Awaiting(s)
        <5>1. \E s \in Newest(i) : (\E r \in RunsOf(i) : run[r].at = s) \/ s.at = "end" \/ Awaiting(s)
          BY <2>0 DEF Course
        <5> QED BY <3>1, <4>2, <5>1, Zenon
      <4> QED BY <3>1, <4>3, <4>4, Zenon DEF Course
    <3> QED BY <3>2, <3>3
  <2>5. ASSUME NEW x \in Runs, Act(x)
        PROVE  Course(i)'
    <3>1. saved' = saved /\ unsaved' = unsaved /\ run' = [run EXCEPT ![x].acting = TRUE]
      BY <2>5 DEF Act
    <3>2. \A r \in Runs : run'[r].state = run[r].state /\ run'[r].at = run[r].at
      BY <1>0, <3>1 DEF RunStates
    <3> QED BY <2>0, <3>1, <3>2, Undisturbed DEF RunsOf, Live
  <2>6. ASSUME NEW x \in Runs, Step(x)
        PROVE  Course(i)'
    <3>1. PICK s \in Onward(run[x].at, run[x].answer) :
            /\ run' = [run EXCEPT ![x].at = s, ![x].answer = "unset", ![x].acting = FALSE]
            /\ unsaved' = [unsaved EXCEPT ![IncidentOf(x)] = Append(@, s)]
      BY <2>6 DEF Step
    <3>2. saved' = saved /\ Live(x) /\ s \in Checkpoints
      BY <2>6, RunFields, WalkTyped DEF Step
    <3>3. run'[x].state = "live" /\ run'[x].at = s
      BY <1>0, <3>1, <3>2 DEF RunStates, Live
    <3>4. \A r \in Runs : r # x => run'[r] = run[r]
      BY <1>0, <3>1
    <3>5. CASE IncidentOf(x) # i
      <4>1. unsaved'[i] = unsaved[i]
        BY <1>0, <3>1, <3>5
      <4>2. \A r \in RunsOf(i) : r # x
        BY <3>5 DEF RunsOf
      <4>3. \A r \in RunsOf(i) : Live(r)' /\ run'[r].at = run[r].at
        BY <3>4, <4>2 DEF RunsOf, Live
      <4> QED BY <2>0, <3>2, <4>1, <4>3, Undisturbed
    <3>6. CASE IncidentOf(x) = i
      <4>1. unsaved'[i] = Append(unsaved[i], s)
        BY <1>0, <3>1, <3>6
      <4>2. Newest(i)' = {s}
        <5>1. /\ Append(unsaved[i], s) # <<>>
              /\ Append(unsaved[i], s)[Len(Append(unsaved[i], s))] = s
          BY <1>0, <3>2, AppendLast
        <5> QED BY <4>1, <5>1 DEF Newest
      <4>3. x \in RunsOf(i)'
        <5>1. IncidentOf(x)' = i
          BY <3>2, <3>6, RunsStay
        <5>2. Live(x)'
          BY <3>3 DEF Live
        <5> QED BY <5>1, <5>2 DEF RunsOf
      <4>4. \E r \in RunsOf(i)' : run'[r].at = s
        BY <3>3, <4>3
      <4> QED BY <4>2, <4>3, <4>4, Zenon DEF Course
    <3> QED BY <3>5, <3>6
  <2>7. ASSUME NEW x \in Runs, Return(x)
        PROVE  Course(i)'
    <3>1. saved' = saved /\ unsaved' = unsaved /\ run' = [run EXCEPT ![x] = [NoRun EXCEPT !.state = "over"]]
      BY <2>7 DEF Return
    <3>2. \A r \in Runs : r # x => run'[r] = run[r]
      BY <1>0, <3>1
    <3>3. CASE IncidentOf(x) # i
      BY <2>0, <3>1, <3>2, <3>3, Undisturbed DEF RunsOf, Live
    <3>4. CASE IncidentOf(x) = i
      <4>1. unsaved[i] = <<>> /\ Newest(i) = saved[i] /\ Newest(i)' = saved[i]
        BY <2>7, <3>1, <3>4 DEF Return, Newest
      <4>2. run[x].at.at = "end" \/ Awaiting(run[x].at)
        BY <2>7 DEF Return, Pauses
      <4>3. \A r \in RunsOf(i) : r # x => r \in RunsOf(i)' /\ run'[r].at = run[r].at
        BY <3>2, RunsStay DEF RunsOf, Live
      <4>4. PICK s \in saved[i] :
              (\E r \in RunsOf(i) : run[r].at = s) \/ s.at = "end" \/ Awaiting(s)
        BY <2>0, <4>1 DEF Course
      <4>5. (\E r \in RunsOf(i)' : run'[r].at = s) \/ s.at = "end" \/ Awaiting(s)
        BY <4>2, <4>3, <4>4
      <4> QED BY <3>1, <4>1, <4>5 DEF Course
    <3> QED BY <3>3, <3>4
  <2>8. ASSUME NEW x \in Runs, CutShort(x)
        PROVE  Course(i)'
    <3>1. /\ saved' = saved /\ unsaved' = unsaved /\ run' = [run EXCEPT ![x] = [NoRun EXCEPT !.state = "over"]]
          /\ IncidentOf(x) # i
      BY <2>8 DEF CutShort
    <3>2. \A r \in RunsOf(i) : run'[r] = run[r]
      BY <1>0, <3>1 DEF RunsOf
    <3> QED BY <2>0, <3>1, <3>2, Undisturbed DEF RunsOf, Live
  <2>9. CASE Crash
    <3>1. RunsOf(i) = {}
      BY <2>9 DEF Crash, RunsOf
    <3>2. unsaved[i] = <<>>
      BY <2>0, <3>1 DEF Course
    <3> QED BY <2>0, <2>9, <3>1, <3>2, Undisturbed DEF Crash
  <2>10. CASE Tick
    <3>1. saved' = saved /\ unsaved' = unsaved
      BY <2>10 DEF Tick
    <3>2. ASSUME NEW r \in RunsOf(i)
          PROVE  run'[r].state = run[r].state /\ run'[r].at = run[r].at
      <4>1. run'[r] = [run[r] EXCEPT !.age = @ + 1] /\ run[r] \in RunStates
        BY <1>0, <2>10 DEF Tick, RunsOf
      <4> QED BY <4>1 DEF RunStates
    <3> QED BY <2>0, <3>1, <3>2, Undisturbed DEF RunsOf, Live
  <2>11. ASSUME NEW d \in Deliveries, Admit(d) \/ Reject(d) \/ Duplicate(d)
         PROVE  UNCHANGED <<run, saved, unsaved>>
    BY <2>11 DEF Admit, Reject, Duplicate
  <2>12. CASE (\E a \in Approvals : ReadState(a)) \/ Sigterm \/ Shutdown \/ Close \/ Restart \/ UNCHANGED vars
    BY <2>1, <2>12 DEF ReadState, Sigterm, Shutdown, Close, Restart, vars
  <2> QED
    BY <2>1, <2>2, <2>3, <2>4, <2>5, <2>6, <2>7, <2>8, <2>9, <2>10, <2>11, <2>12
    DEF Next, HandlerStep, RunStep, ServerStep, Fails, TimesOut, Cancelled
<1>3. cut \subseteq cut'
  <2>1. ASSUME NEW x \in Runs, Act(x) \/ Step(x) \/ Return(x) \/ CutShort(x)
        PROVE  cut \subseteq cut'
    BY <2>1 DEF Act, Step, Return, CutShort
  <2>2. ASSUME NEW d \in Deliveries, Admit(d) \/ Reject(d) \/ Duplicate(d) \/ Schedule(d)
        PROVE  UNCHANGED cut
    BY <2>2 DEF Admit, Reject, Duplicate, Schedule
  <2>3. ASSUME NEW a \in Approvals, ReadState(a) \/ Resume(a)
        PROVE  UNCHANGED cut
    BY <2>3 DEF ReadState, Resume
  <2>4. CASE (\E j \in Incidents : Persist(j)) \/ Tick \/ UNCHANGED vars
    BY <2>4 DEF Persist, Tick, vars
  <2>5. CASE Sigterm \/ Shutdown \/ Close \/ Crash \/ Restart
    BY <2>5 DEF Sigterm, Shutdown, Close, Crash, Restart
  <2> QED
    BY <2>1, <2>2, <2>3, <2>4, <2>5
    DEF Next, HandlerStep, RunStep, ServerStep, Fails, TimesOut, Cancelled
<1> QED BY <1>1, <1>2, <1>3

-----------------------------------------------------------------------------
\* The invariant holds in every reachable state, for any constants.
THEOREM Invariance == Spec => []RInv
<1>1. ASSUME RInv, [Next]_vars
      PROVE  RInv'
  <2>1. TypeOK /\ OwnerInv /\ ServerInv /\ IndexInv /\ AnswerInv /\ ConsentInv /\ ActsOnConsent /\ CourseInv
    BY <1>1 DEF RInv
  <2> QED
    BY <1>1, <2>1, TypeStep, OwnerStep, ServerInvStep, IndexStep, AnswerStep, ConsentStep,
       ActsStep, CourseStep DEF RInv
<1> QED BY InitInv, <1>1, PTL DEF Spec

\* Type correctness: the variables hold what the runner and the API keep.
THEOREM TypeCorrect == Spec => []TypeOK
<1>1. RInv => TypeOK
  BY DEF RInv
<1> QED BY Invariance, <1>1, PTL

\* Layer 2 deduplication, trigger_incident with _FingerprintIndex: one fingerprint is
\* under one first run, as long as a run may not outlive its reservation.
THEOREM OneInvestigation == Spec => []OneInvestigationPerAlert
<1>1. RInv => OneInvestigationPerAlert
  BY DEF RInv, IndexInv, OneInvestigationPerAlert
<1> QED BY Invariance, <1>1, PTL

\* approve_incident and _resume_graph: no interleaving of deliveries, approvals, crashes
\* and late checkpoints lets an incident act without the consent its call needs.
THEOREM ConsentRespected == Spec => []ActsOnConsent
<1>1. RInv => ActsOnConsent
  BY DEF RInv
<1> QED BY Invariance, <1>1, PTL

\* Of the runs of an incident, pauses and duplicate approvals included, only one that is
\* cut short can leave it without a run, an end and an approval it would take.
THEOREM StrandedExplained == Spec => []StrandedOnlyByACut
<1>1. ASSUME RInv
      PROVE  StrandedOnlyByACut
  <2> SUFFICES ASSUME NEW i \in Incidents, Started(i), RunsOf(i) = {}, i \notin cut
               PROVE  Ended(i) \/ Waiting(i)
    BY DEF StrandedOnlyByACut
  <2>1. Course(i)
    BY <1>1 DEF RInv, CourseInv
  <2>2. Newest(i) = saved[i]
    BY <2>1 DEF Course, Newest
  <2> QED BY <2>1, <2>2 DEF Course, Ended, Waiting
<1> QED BY Invariance, <1>1, PTL

\* lifespan's exit stack and LangGraphRunner.shutdown, which looks once at the tasks: for
\* any deliveries, approvals and limits, what a handler, a run or a checkpoint underway
\* needs is open.  It rests on three facts of ServerInv: shutdown is above everything else
\* on the stack, it waits for all the tasks there are, and no handler is left to make one.
THEOREM DrainBeforeClose == Spec => []ResourcesOutliveTheirUsers
<1>1. ASSUME RInv, AtWork, NEW resource \in InUse
      PROVE  IsOpen(resource)
  <2>1. ~Closed
    BY <1>1 DEF RInv, ServerInv, TypeOK, Closed, AtWork
  <2>2. Len(ExitStack) = 6 /\ open = 6
    BY <1>1, <2>1 DEF RInv, TypeOK, Closed, ExitStack
  <2>3. /\ ExitStack[2] = "postgres" /\ ExitStack[3] = "valkey"
        /\ ExitStack[4] = "observability" /\ ExitStack[5] = "saver"
    BY DEF ExitStack
  <2> QED BY <1>1, <2>2, <2>3 DEF InUse, IsOpen
<1>2. RInv => ResourcesOutliveTheirUsers
  BY <1>1 DEF ResourcesOutliveTheirUsers
<1> QED BY Invariance, <1>2, PTL

-----------------------------------------------------------------------------
\* What a crash leaves behind.

\* Nobody works on the incident, nothing of it is on its way to PostgreSQL, what is saved
\* asks nobody, and no handler has read that it did.
Stranded(i) ==
  /\ Started(i) /\ RunsOf(i) = {} /\ unsaved[i] = <<>> /\ ~Waiting(i)
  /\ \A a \in Approvals : approval[a].step = "checked" => approval[a].on # i

\* A stranded incident gets no checkpoint: there is no run to write one.
LEMMA NothingWritten ==
  ASSUME TypeOK, OwnerInv, [Next]_vars, NEW i \in Incidents, Stranded(i)
  PROVE  saved'[i] = saved[i] /\ unsaved'[i] = <<>>
<1> USE DEF handlerVars, graphVars, processVars
<1>0. /\ delivery[i] = "scheduled" /\ unsaved[i] = <<>>
      /\ \A r \in Runs : Live(r) => IncidentOf(r) # i
  BY DEF Stranded, Started, RunsOf
<1>1. ASSUME NEW d \in Deliveries, Admit(d) \/ Reject(d) \/ Duplicate(d) \/ Schedule(d)
      PROVE  saved'[i] = saved[i] /\ unsaved'[i] = <<>>
  <2>1. CASE Schedule(d)
    BY <1>0, <2>1 DEF Schedule, TypeOK
  <2> QED BY <1>0, <1>1, <2>1 DEF Admit, Reject, Duplicate
<1>2. ASSUME NEW a \in Approvals, ReadState(a) \/ Resume(a)
      PROVE  saved'[i] = saved[i] /\ unsaved'[i] = <<>>
  BY <1>0, <1>2 DEF ReadState, Resume
<1>3. ASSUME NEW j \in Incidents, Persist(j)
      PROVE  saved'[i] = saved[i] /\ unsaved'[i] = <<>>
  BY <1>0, <1>3 DEF Persist, TypeOK
<1>4. ASSUME NEW r \in Runs, Act(r) \/ Step(r) \/ Return(r) \/ CutShort(r)
      PROVE  saved'[i] = saved[i] /\ unsaved'[i] = <<>>
  <2>1. CASE Step(r)
    <3>1. IncidentOf(r) # i
      BY <1>0, <2>1 DEF Step
    <3> QED BY <1>0, <2>1, <3>1 DEF Step, TypeOK
  <2> QED BY <1>0, <1>4, <2>1 DEF Act, Return, CutShort
<1>5. CASE ServerStep \/ Tick \/ UNCHANGED vars
  BY <1>0, <1>5 DEF ServerStep, Sigterm, Shutdown, Close, Crash, Restart, Tick, vars
<1> QED
  BY <1>1, <1>2, <1>3, <1>4, <1>5
  DEF Next, HandlerStep, RunStep, Fails, TimesOut, Cancelled

\* An approval that is being handled read a checkpoint that asks for one.
LEMMA ReadsAWaitingOne ==
  ASSUME TypeOK, [Next]_vars, NEW a \in Approvals,
         approval[a].step # "checked", approval'[a].step = "checked"
  PROVE  Waiting(approval'[a].on)
<1> USE DEF handlerVars, graphVars, processVars
<1>0. approval \in [Approvals -> ApprovalStates]
  BY DEF TypeOK
<1>1. CASE UNCHANGED approval
  BY <1>1
<1>2. ASSUME NEW b \in Approvals, ReadState(b)
      PROVE  Waiting(approval'[a].on)
  <2>1. a = b
    BY <1>0, <1>2 DEF ReadState
  <2>2. PICK i \in Incidents, answer \in {"yes", "no"} :
          approval'[a] = IF \E s \in saved[i] : Awaiting(s)
                         THEN [step |-> "checked", on |-> i, answer |-> answer]
                         ELSE [Idle EXCEPT !.step = "refused"]
    BY <1>0, <1>2, <2>1 DEF ReadState
  <2>3. [Idle EXCEPT !.step = "refused"].step = "refused"
    BY DEF Idle
  <2> QED BY <2>2, <2>3 DEF Waiting
<1>3. ASSUME NEW b \in Approvals, Resume(b)
      PROVE  FALSE
  BY <1>0, <1>3 DEF Resume, ApprovalStates
<1>4. CASE Crash
  <2>1. [Idle EXCEPT !.step = "refused"].step = "refused"
    BY DEF Idle
  <2> QED BY <1>0, <1>4, <2>1 DEF Crash
<1>5. ASSUME NEW d \in Deliveries, Admit(d) \/ Reject(d) \/ Duplicate(d) \/ Schedule(d)
      PROVE  UNCHANGED approval
  BY <1>5 DEF Admit, Reject, Duplicate, Schedule
<1>6. ASSUME NEW x \in Runs, Act(x) \/ Step(x) \/ Return(x) \/ CutShort(x)
      PROVE  UNCHANGED approval
  BY <1>6 DEF Act, Step, Return, CutShort
<1>7. CASE (\E i \in Incidents : Persist(i)) \/ Sigterm \/ Shutdown \/ Close \/ Restart \/ Tick
           \/ UNCHANGED vars
  BY <1>7 DEF Persist, Sigterm, Shutdown, Close, Restart, Tick, vars
<1> QED
  BY <1>1, <1>2, <1>3, <1>4, <1>5, <1>6, <1>7
  DEF Next, HandlerStep, RunStep, ServerStep, Fails, TimesOut, Cancelled

\* A stranded incident stays so: no delivery, approval or restart takes it up.
LEMMA StrandedStep ==
  ASSUME RInv, [Next]_vars, NEW i \in Incidents, Stranded(i)
  PROVE  Stranded(i)' /\ saved'[i] = saved[i]
<1>0. TypeOK /\ OwnerInv
  BY DEF RInv
<1>1. saved'[i] = saved[i] /\ unsaved'[i] = <<>>
  BY <1>0, NothingWritten
<1>2. Started(i)'
  BY <1>0, DeliveryMoves DEF Stranded, Started
<1>3. ~Waiting(i) /\ ~Waiting(i)'
  BY <1>1 DEF Stranded, Waiting
<1>4. ASSUME NEW r \in Runs, Live(r)', IncidentOf(r)' = i
      PROVE  FALSE
  <2>1. CASE Live(r)
    BY <1>0, <1>4, <2>1, RunsStay DEF Stranded, RunsOf
  <2>2. CASE ~Live(r) /\ r \in Deliveries /\ Schedule(r)
    BY <1>4, <2>2 DEF IncidentOf, Schedule, Stranded, Started
  <2>3. CASE ~Live(r) /\ r \in Approvals /\ Resume(r)
    <3>1. approval[r].step = "checked" /\ approval'[r].on = approval[r].on
      BY <1>0, <2>3 DEF Resume, TypeOK, ApprovalStates
    <3>2. IncidentOf(r)' = approval'[r].on
      BY <2>3, RunnerAssumption DEF IncidentOf
    <3> QED BY <1>4, <2>3, <3>1, <3>2 DEF Stranded
  <2> QED BY <1>0, <1>4, <2>1, <2>2, <2>3, RunsStart
<1>5. ASSUME NEW a \in Approvals, approval'[a].step = "checked", approval'[a].on = i
      PROVE  FALSE
  <2>1. CASE approval[a].step # "checked"
    BY <1>0, <1>3, <1>5, <2>1, ReadsAWaitingOne
  <2>2. CASE approval[a].step = "checked"
    <3>1. approval'[a] = approval[a]
      BY <1>0, <1>5, <2>2, ApprovalMoves DEF Resume, TypeOK, ApprovalStates
    <3> QED BY <1>5, <2>2, <3>1 DEF Stranded
  <2> QED BY <2>1, <2>2
<1>6. RunsOf(i)' = {}
  BY <1>4 DEF RunsOf
<1> QED BY <1>1, <1>2, <1>3, <1>5, <1>6 DEF Stranded

\* lifespan starts from nothing and resumes nothing.  For every incident, whatever the
\* constants: once the process is down in the middle of its investigation, it is in the
\* middle of its investigation, with no run, for ever.  This is the opposite of
\* CrashResumes, the sentence of agents/README.md.
THEOREM CrashNeverResumes ==
  ASSUME NEW i \in Incidents
  PROVE  Spec => [](server = "down" /\ MidInvestigation(i) =>
                      [](MidInvestigation(i) /\ RunsOf(i) = {}))
<1> DEFINE Left == Stranded(i) /\ ~Ended(i)
<1>1. RInv /\ server = "down" /\ MidInvestigation(i) => Left
  BY DEF RInv, ServerInv, Closed, MidInvestigation, Stranded, RunsOf, Handling
<1>2. RInv /\ Left /\ [Next]_vars => Left'
  BY StrandedStep DEF Ended
<1>3. Left => MidInvestigation(i) /\ RunsOf(i) = {}
  BY DEF MidInvestigation, Stranded
<1> HIDE DEF Left
<1> QED BY <1>1, <1>2, <1>3, Invariance, PTL DEF Spec

=============================================================================
