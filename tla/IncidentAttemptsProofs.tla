------------------------ MODULE IncidentAttemptsProofs ------------------------
(***************************************************************************)
(* The attempt cap of IncidentRunner across resumed runs, crashes and      *)
(* checkpoints that were lost, for any constants.  Until an incident waits *)
(* for an answer its first run alone acts; from then on that run rests,    *)
(* and each run an approval resumed starts from a checkpoint that counts   *)
(* everything done before the pause.                                       *)
(***************************************************************************)
EXTENDS IncidentRunnerProofs, FiniteSetTheorems

USE DEF Incidents, Runs

-----------------------------------------------------------------------------
\* The walk: attempts are never uncounted.
LEMMA WalkCounts ==
  ASSUME NEW s \in Checkpoints, NEW answer \in Answers, NEW t \in Onward(s, answer)
  PROVE  s.tries <= t.tries
<1> USE MaxTriesAssumption DEF Checkpoints, Places, Answers, To
<1>0. s.tries \in Nat /\ s.tries <= s.tries
  OBVIOUS
<1>1. CASE s.at = "work"
  <2>1. t.tries = s.tries
    BY <1>1 DEF Onward, Proposed
  <2> QED BY <1>0, <2>1
<1>2. CASE s.at = "approve"
  <2>1. t.tries = s.tries
    BY <1>2 DEF Onward, Approved, Decided
  <2> QED BY <1>0, <2>1
<1>3. CASE s.at = "execute"
  <2>1. s.tries <= Counted(s)
    BY <1>0 DEF Counted
  <2>2. t.tries = s.tries \/ t.tries = Counted(s)
    BY <1>3 DEF Onward, Executed
  <2> QED BY <1>0, <2>1, <2>2
<1>4. CASE s.at = "verify"
  <2>1. t.tries = s.tries
    BY <1>4 DEF Onward, Verified
  <2> QED BY <1>0, <2>1
<1>5. CASE s.at = "complete"
  BY <1>0, <1>5 DEF Onward
<1>6. CASE s.at = "end"
  BY <1>6 DEF Onward
<1> QED BY <1>1, <1>2, <1>3, <1>4, <1>5, <1>6

\* Consent is open at approve alone: propose asks for it on the way there, and approve is
\* left with an answer.
LEMMA WalkAwaits ==
  ASSUME NEW s \in Checkpoints, NEW answer \in Answers, NEW t \in Onward(s, answer), AwaitsThere(s)
  PROVE  AwaitsThere(t)
<1> USE DEF Checkpoints, Places, Answers, To, Awaiting, AwaitsThere
<1>0. s.needs \in BOOLEAN /\ (s.at # "approve" => s.needs = FALSE \/ s.granted # "unset")
  OBVIOUS
<1>1. CASE s.at = "work"
  <2>1. \/ t = To(s, "complete")
        \/ t = To([s EXCEPT !.needs = TRUE], "approve")
        \/ t = To([s EXCEPT !.needs = FALSE], "execute")
    BY <1>1 DEF Onward, Proposed
  <2>2. CASE t = To(s, "complete")
    BY <1>0, <1>1, <2>2
  <2>3. CASE t = To([s EXCEPT !.needs = TRUE], "approve")
    BY <2>3
  <2>4. CASE t = To([s EXCEPT !.needs = FALSE], "execute")
    BY <2>4
  <2> QED BY <2>1, <2>2, <2>3, <2>4
<1>2. CASE s.at = "approve"
  <2>1. CASE ~Awaiting(s)
    BY <1>0, <1>2, <2>1 DEF Onward, Approved
  <2>2. CASE Awaiting(s) /\ ~s.stamped
    BY <1>2, <2>2 DEF Onward, Approved
  <2>3. CASE Awaiting(s) /\ s.stamped
    BY <1>2, <2>3 DEF Onward, Approved, Decided
  <2> QED BY <2>1, <2>2, <2>3
<1>3. CASE s.at = "execute"
  <2>1. t.needs = s.needs /\ t.granted = s.granted
    BY <1>3 DEF Onward, Executed
  <2> QED BY <1>0, <1>3, <2>1
<1>4. CASE s.at = "verify"
  BY <1>0, <1>4 DEF Onward, Verified
<1>5. CASE s.at = "complete"
  BY <1>0, <1>5 DEF Onward
<1>6. CASE s.at = "end"
  BY <1>6 DEF Onward
<1> QED BY <1>1, <1>2, <1>3, <1>4, <1>5, <1>6

\* Without an answer a pause is not left.
LEMMA PauseHolds ==
  ASSUME NEW s \in Checkpoints, Awaiting(s), s.at = "approve", NEW t \in Onward(s, "unset")
  PROVE  Awaiting(t) /\ t.at = "approve" /\ t.tries = s.tries
<1>1. t = [s EXCEPT !.stamped = TRUE]
  BY DEF Onward, Approved
<1> QED BY <1>1 DEF Awaiting, Checkpoints

\* Where a run that goes on stands: where it stood, having acted or not, or one node on.
LEMMA RunsCount ==
  ASSUME TypeOK, OwnerInv, [Next]_vars, NEW r \in Runs, Live(r), Live(r)'
  PROVE  \/ run'[r].at = run[r].at /\ run'[r].acting = run[r].acting
         \/ Act(r) /\ run'[r].at = run[r].at /\ run'[r].acting = TRUE
         \/ /\ Step(r) /\ run'[r].acting = FALSE
            /\ run'[r].at \in Onward(run[r].at, run[r].answer)
            /\ run[r].acting => run'[r].at.tries = Counted(run[r].at)
<1> USE DEF Live
<1> DEFINE Same == run'[r].at = run[r].at /\ run'[r].acting = run[r].acting
           Goal == \/ Same
                   \/ Act(r) /\ run'[r].at = run[r].at /\ run'[r].acting = TRUE
                   \/ /\ Step(r) /\ run'[r].acting = FALSE
                      /\ run'[r].at \in Onward(run[r].at, run[r].answer)
                      /\ run[r].acting => run'[r].at.tries = Counted(run[r].at)
<1>0. run \in [Runs -> RunStates] /\ run[r] \in RunStates
  BY DEF TypeOK
<1>1. ASSUME NEW d \in Deliveries, Schedule(d)
      PROVE  Same
  <2>1. r # d
    BY <1>1 DEF Schedule, OwnerInv
  <2> QED BY <1>0, <1>1, <2>1 DEF Schedule
<1>2. ASSUME NEW a \in Approvals, Resume(a)
      PROVE  Same
  <2>1. r # a
    BY <1>2 DEF Resume, OwnerInv
  <2> QED BY <1>0, <1>2, <2>1 DEF Resume
<1>3. ASSUME NEW x \in Runs, Act(x)
      PROVE  Goal
  <2>1. run' = [run EXCEPT ![x].acting = TRUE]
    BY <1>3 DEF Act
  <2>2. CASE x = r
    <3>1. run'[r].at = run[r].at /\ run'[r].acting = TRUE
      BY <1>0, <2>1, <2>2 DEF RunStates
    <3> QED BY <1>3, <2>2, <3>1
  <2>3. CASE x # r
    BY <1>0, <2>1, <2>3
  <2> QED BY <2>2, <2>3
<1>4. ASSUME NEW x \in Runs, Return(x) \/ CutShort(x)
      PROVE  Same
  <2>1. run' = [run EXCEPT ![x] = [NoRun EXCEPT !.state = "over"]]
    BY <1>4 DEF Return, CutShort
  <2>2. x # r
    BY <1>0, <2>1 DEF NoRun
  <2> QED BY <1>0, <2>1, <2>2
<1>5. ASSUME NEW x \in Runs, Step(x)
      PROVE  Goal
  <2>1. PICK s \in Onward(run[x].at, run[x].answer) :
          /\ run[x].acting => s.tries = Counted(run[x].at)
          /\ run' = [run EXCEPT ![x].at = s, ![x].answer = "unset", ![x].acting = FALSE]
    BY <1>5 DEF Step
  <2>2. CASE x = r
    <3>1. run'[r].at = s /\ run'[r].acting = FALSE
      BY <1>0, <2>1, <2>2 DEF RunStates
    <3> QED BY <1>5, <2>2, <2>1, <3>1
  <2>3. CASE x # r
    BY <1>0, <2>1, <2>3
  <2> QED BY <2>2, <2>3
<1>6. CASE UNCHANGED run
  BY <1>6
<1>7. CASE Crash
  BY <1>7 DEF Crash, NoRun
<1>8. CASE Tick
  <2>1. run'[r] = [run[r] EXCEPT !.age = @ + 1]
    BY <1>8 DEF Tick
  <2> QED BY <1>0, <2>1 DEF RunStates
<1>9. ASSUME NEW d \in Deliveries, Admit(d) \/ Reject(d) \/ Duplicate(d)
      PROVE  UNCHANGED run
  BY <1>9 DEF Admit, Reject, Duplicate, graphVars
<1>10. CASE (\E a \in Approvals : ReadState(a)) \/ (\E i \in Incidents : Persist(i))
  BY <1>6, <1>10 DEF ReadState, Persist, graphVars
<1>11. CASE Sigterm \/ Shutdown \/ Close \/ Restart \/ UNCHANGED vars
  BY <1>6, <1>11 DEF Sigterm, Shutdown, Close, Restart, vars, graphVars
<1> QED
  BY <1>1, <1>2, <1>3, <1>4, <1>5, <1>6, <1>7, <1>8, <1>9, <1>10, <1>11
  DEF Next, HandlerStep, RunStep, ServerStep, Fails, TimesOut, Cancelled

\* So the attempts it has reached do not get fewer, and an action adds one.
LEMMA ReachedGrows ==
  ASSUME TypeOK, OwnerInv, PlaceInv, [Next]_vars, NEW r \in Runs, Live(r), Live(r)'
  PROVE  /\ Reached(r) \in Nat /\ Reached(r)' \in Nat
         /\ run[r].at.tries <= run'[r].at.tries /\ Reached(r) <= Reached(r)'
         /\ Act(r) => /\ Reached(r) = run[r].at.tries /\ Reached(r)' = Reached(r) + 1
                      /\ Reached(r) < MaxTries
<1>0. /\ run[r].at \in Checkpoints /\ run[r].answer \in Answers /\ run[r] \in RunStates
      /\ run \in [Runs -> RunStates] /\ run[r].acting \in BOOLEAN
  BY RunFields DEF TypeOK, RunStates
<1>1. run[r].at.tries \in 0..MaxTries /\ MaxTries \in Nat /\ Reached(r) \in Nat
  BY <1>0, MaxTriesAssumption DEF Checkpoints, Reached
<1>2. CASE Act(r)
  <2>1. run'[r].at = run[r].at /\ run'[r].acting = TRUE /\ run[r].acting = FALSE
        /\ run[r].at.tries < MaxTries
    BY <1>0, <1>2 DEF Act, RunStates, TriesLeft
  <2>2. Reached(r) = run[r].at.tries /\ Reached(r)' = run[r].at.tries + 1
    BY <1>1, <2>1 DEF Reached
  <2> QED BY <1>1, <2>1, <2>2
<1>3. CASE ~Act(r) /\ run'[r].at = run[r].at /\ run'[r].acting = run[r].acting
  BY <1>1, <1>3 DEF Reached
<1>4. ASSUME ~Act(r), NEW s \in Onward(run[r].at, run[r].answer), run'[r].at = s,
             run'[r].acting = FALSE, run[r].acting => s.tries = Counted(run[r].at)
      PROVE  /\ Reached(r)' \in Nat /\ run[r].at.tries <= run'[r].at.tries
             /\ Reached(r) <= Reached(r)'
  <2>1. s \in Checkpoints /\ run[r].at.tries <= s.tries /\ s.tries \in 0..MaxTries
    BY <1>0, WalkCounts, WalkTyped DEF Checkpoints
  <2>2. Reached(r)' = s.tries
    BY <1>1, <1>4, <2>1 DEF Reached
  <2>3. CASE run[r].acting = FALSE
    BY <1>1, <1>4, <2>1, <2>2, <2>3 DEF Reached
  <2>4. CASE run[r].acting = TRUE
    <3>1. TriesLeft(run[r].at)
      BY <2>4 DEF PlaceInv
    <3> QED BY <1>1, <1>4, <2>1, <2>2, <2>4, <3>1 DEF Reached, Counted
  <2> QED BY <1>0, <1>4, <2>3, <2>4
<1> QED
  <2>1. CASE Act(r)
    BY <1>1, <1>2, <2>1
  <2>2. CASE ~Act(r) /\ run'[r].at = run[r].at /\ run'[r].acting = run[r].acting
    BY <1>1, <1>3, <2>2
  <2>3. CASE /\ ~Act(r) /\ run'[r].acting = FALSE
             /\ run'[r].at \in Onward(run[r].at, run[r].answer)
             /\ run[r].acting => run'[r].at.tries = Counted(run[r].at)
    BY <1>1, <1>4, <2>3
  <2> QED BY <2>1, <2>2, <2>3, RunsCount

-----------------------------------------------------------------------------
\* Consent stays open at approve alone, and an attempt underway was there to be made.
LEMMA PlaceStep ==
  ASSUME TypeOK, OwnerInv, PlaceInv, [Next]_vars
  PROVE  PlaceInv'
<1>1. ASSUME NEW r \in Runs, Live(r)'
      PROVE  AwaitsThere(run[r].at)' /\ (run[r].acting => TriesLeft(run[r].at))'
  <2>0. /\ run[r].at \in Checkpoints /\ run[r].answer \in Answers
        /\ run \in [Runs -> RunStates]
    BY RunFields DEF TypeOK
  <2>1. CASE Live(r)
    <3>0. AwaitsThere(run[r].at) /\ (run[r].acting => TriesLeft(run[r].at))
      BY <2>1 DEF PlaceInv
    <3>1. CASE run'[r].at = run[r].at /\ run'[r].acting = run[r].acting
      BY <3>0, <3>1 DEF AwaitsThere, Awaiting, TriesLeft
    <3>2. CASE Act(r) /\ run'[r].at = run[r].at
      BY <3>0, <3>2 DEF Act, AwaitsThere, Awaiting, TriesLeft
    <3>3. CASE run'[r].acting = FALSE /\ run'[r].at \in Onward(run[r].at, run[r].answer)
      <4>1. \A s \in Onward(run[r].at, run[r].answer) : AwaitsThere(s)
        BY <2>0, <3>0, WalkAwaits
      <4> QED BY <3>3, <4>1 DEF AwaitsThere, Awaiting
    <3> QED BY <1>1, <2>1, <3>1, <3>2, <3>3, RunsCount
  <2>2. CASE ~Live(r) /\ r \in Deliveries /\ Schedule(r)
    <3>1. run'[r].at = Fresh /\ run'[r].acting = FALSE
      BY <2>0, <2>2 DEF Schedule, NoRun
    <3> QED BY <3>1 DEF Fresh, AwaitsThere, Awaiting
  <2>3. CASE ~Live(r) /\ r \in Approvals /\ Resume(r)
    <3>1. PICK s \in saved[approval[r].on] :
            run' = [run EXCEPT ![r] = [NoRun EXCEPT !.state = "live", !.at = s,
                                                    !.answer = approval[r].answer]]
      BY <2>3 DEF Resume
    <3>2. run'[r].at = s /\ run'[r].acting = FALSE
      BY <2>0, <3>1 DEF NoRun
    <3>3. AwaitsThere(s)
      BY <2>3, <3>1 DEF PlaceInv, Resume, OwnerInv
    <3> QED BY <3>2, <3>3 DEF AwaitsThere, Awaiting
  <2> QED BY <1>1, <2>1, <2>2, <2>3, RunsStart
<1>2. ASSUME NEW i \in Incidents, NEW s \in saved'[i]
      PROVE  AwaitsThere(s)
  BY <1>2, CheckpointsFrom DEF PlaceInv
<1>3. ASSUME NEW i \in Incidents, NEW k \in DOMAIN unsaved'[i]
      PROVE  AwaitsThere(unsaved[i][k])'
  <2>1. CASE \E j \in DOMAIN unsaved[i] : unsaved'[i][k] = unsaved[i][j]
    BY <2>1 DEF PlaceInv, AwaitsThere, Awaiting
  <2>2. CASE \E r \in Runs : Live(r)' /\ IncidentOf(r)' = i /\ unsaved'[i][k] = run'[r].at
    BY <1>1, <2>2 DEF AwaitsThere, Awaiting
  <2> QED BY <2>1, <2>2, CheckpointsFrom
<1>4. \A i \in Incidents : \A s \in saved'[i] : AwaitsThere(s)'
  BY <1>2 DEF AwaitsThere, Awaiting
<1> QED BY <1>1, <1>3, <1>4 DEF PlaceInv

-----------------------------------------------------------------------------
\* What one step does to one incident.

\* What neither begins, resumes, moves nor saves a run of the incident.
LeftAlone(i) ==
  /\ acted'[i] = acted[i] /\ saved'[i] = saved[i] /\ unsaved'[i] \in {unsaved[i], <<>>}
  /\ \A r \in RunsOf(i)' :
       r \in RunsOf(i) /\ run'[r].at = run[r].at /\ run'[r].acting = run[r].acting
  /\ Accepted(i)' = Accepted(i)
  /\ Asked(i)' => Asked(i)

\* What an incident did, and its checkpoints, are changed by its own runs and the saver.
LEMMA WritesMoves ==
  ASSUME TypeOK, OwnerInv, [Next]_vars, NEW i \in Incidents,
         ~Schedule(i), ~Persist(i), ~\E r \in Runs : (Act(r) \/ Step(r)) /\ IncidentOf(r) = i
  PROVE  acted'[i] = acted[i] /\ saved'[i] = saved[i] /\ unsaved'[i] \in {unsaved[i], <<>>}
<1> USE DEF handlerVars, graphVars, processVars
<1>0. /\ acted \in [Incidents -> Nat] /\ saved \in [Incidents -> SUBSET Checkpoints]
      /\ unsaved \in [Incidents -> Seq(Checkpoints)]
  BY DEF TypeOK
<1>1. CASE UNCHANGED <<acted, saved, unsaved>>
  BY <1>1
<1>2. ASSUME NEW d \in Deliveries, Schedule(d)
      PROVE  acted'[i] = acted[i] /\ saved'[i] = saved[i] /\ unsaved'[i] = unsaved[i]
  <2>1. d # i
    BY <1>2
  <2> QED BY <1>0, <1>2, <2>1 DEF Schedule
<1>3. ASSUME NEW j \in Incidents, Persist(j)
      PROVE  acted'[i] = acted[i] /\ saved'[i] = saved[i] /\ unsaved'[i] = unsaved[i]
  <2>1. j # i
    BY <1>3
  <2> QED BY <1>0, <1>3, <2>1 DEF Persist
<1>4. ASSUME NEW x \in Runs, Act(x)
      PROVE  acted'[i] = acted[i] /\ saved'[i] = saved[i] /\ unsaved'[i] = unsaved[i]
  <2>1. IncidentOf(x) # i
    BY <1>4
  <2> QED BY <1>0, <1>4, <2>1 DEF Act
<1>5. ASSUME NEW x \in Runs, Step(x)
      PROVE  acted'[i] = acted[i] /\ saved'[i] = saved[i] /\ unsaved'[i] = unsaved[i]
  <2>1. IncidentOf(x) # i
    BY <1>5
  <2>2. PICK s : unsaved' = [unsaved EXCEPT ![IncidentOf(x)] = Append(@, s)]
    BY <1>5 DEF Step
  <2> QED BY <1>0, <1>5, <2>1, <2>2 DEF Step
<1>6. ASSUME NEW x \in Runs, Return(x) \/ CutShort(x)
      PROVE  UNCHANGED <<acted, saved, unsaved>>
  BY <1>6 DEF Return, CutShort
<1>7. CASE Crash
  BY <1>0, <1>7 DEF Crash
<1>8. ASSUME NEW d \in Deliveries, Admit(d) \/ Reject(d) \/ Duplicate(d)
      PROVE  UNCHANGED <<acted, saved, unsaved>>
  BY <1>8 DEF Admit, Reject, Duplicate
<1>9. ASSUME NEW a \in Approvals, ReadState(a) \/ Resume(a)
      PROVE  UNCHANGED <<acted, saved, unsaved>>
  BY <1>9 DEF ReadState, Resume
<1>10. CASE Sigterm \/ Shutdown \/ Close \/ Restart \/ Tick \/ UNCHANGED vars
  BY <1>1, <1>10 DEF Sigterm, Shutdown, Close, Restart, Tick, vars
<1> QED
  BY <1>1, <1>2, <1>3, <1>4, <1>5, <1>6, <1>7, <1>8, <1>9, <1>10
  DEF Next, HandlerStep, RunStep, ServerStep, Fails, TimesOut, Cancelled

\* approve_incident goes past its check only for an incident that waits for an answer.
LEMMA CheckedWaits ==
  ASSUME TypeOK, [Next]_vars, NEW a \in Approvals,
         approval[a].step = "idle", approval'[a].step = "checked"
  PROVE  Waiting(approval'[a].on)
<1> USE DEF handlerVars, graphVars, processVars
<1>0. approval \in [Approvals -> ApprovalStates]
  BY DEF TypeOK
<1>1. ASSUME NEW b \in Approvals, ReadState(b)
      PROVE  Waiting(approval'[a].on)
  <2>1. PICK i \in Incidents, answer \in {"yes", "no"} :
          approval' = [approval EXCEPT ![b] =
            IF \E s \in saved[i] : Awaiting(s)
            THEN [step |-> "checked", on |-> i, answer |-> answer]
            ELSE [Idle EXCEPT !.step = "refused"]]
    BY <1>1 DEF ReadState
  <2>2. a = b
    BY <1>0, <2>1
  <2>3. CASE \E s \in saved[i] : Awaiting(s)
    BY <1>0, <2>1, <2>2, <2>3 DEF Waiting
  <2>4. CASE ~\E s \in saved[i] : Awaiting(s)
    BY <1>0, <2>1, <2>2, <2>4 DEF Idle
  <2> QED BY <2>3, <2>4
<1>2. ASSUME NEW b \in Approvals, Resume(b)
      PROVE  FALSE
  BY <1>0, <1>2 DEF Resume
<1>3. CASE Crash
  BY <1>3 DEF Crash, Idle
<1>4. ASSUME UNCHANGED approval
      PROVE  FALSE
  BY <1>4
<1>5. ASSUME NEW d \in Deliveries, Admit(d) \/ Reject(d) \/ Duplicate(d) \/ Schedule(d)
      PROVE  FALSE
  BY <1>5 DEF Admit, Reject, Duplicate, Schedule
<1>6. ASSUME NEW x \in Runs, Act(x) \/ Step(x) \/ Return(x) \/ CutShort(x)
      PROVE  FALSE
  BY <1>6 DEF Act, Step, Return, CutShort
<1>7. CASE (\E i \in Incidents : Persist(i)) \/ Tick
  BY <1>7, <1>4 DEF Persist, Tick
<1>8. CASE Sigterm \/ Shutdown \/ Close \/ Restart \/ UNCHANGED vars
  BY <1>8, <1>4 DEF Sigterm, Shutdown, Close, Restart, vars
<1> QED
  BY <1>1, <1>2, <1>3, <1>5, <1>6, <1>7, <1>8
  DEF Next, HandlerStep, RunStep, ServerStep, Fails, TimesOut, Cancelled

\* A step that is not one of the incident's own leaves it alone.
LEMMA IncidentMoves ==
  ASSUME TypeOK, OwnerInv, [Next]_vars, NEW i \in Incidents,
         ~Schedule(i), ~Persist(i), ~\E r \in Runs : (Act(r) \/ Step(r)) /\ IncidentOf(r) = i,
         ~\E a \in Approvals : Resume(a) /\ approval[a].on = i
  PROVE  LeftAlone(i)
<1>1. acted'[i] = acted[i] /\ saved'[i] = saved[i] /\ unsaved'[i] \in {unsaved[i], <<>>}
  BY WritesMoves
<1>2. ASSUME NEW r \in RunsOf(i)'
      PROVE  r \in RunsOf(i) /\ run'[r].at = run[r].at /\ run'[r].acting = run[r].acting
  <2>0. r \in Runs /\ Live(r)' /\ IncidentOf(r)' = i
    BY <1>2 DEF RunsOf
  <2>1. CASE Live(r)
    <3>1. IncidentOf(r) = i
      BY <2>0, <2>1, RunsStay
    <3> QED BY <2>0, <2>1, <3>1, RunsCount DEF RunsOf
  <2>2. CASE ~Live(r) /\ r \in Deliveries /\ Schedule(r)
    BY <2>0, <2>2 DEF IncidentOf
  <2>3. CASE ~Live(r) /\ r \in Approvals /\ Resume(r)
    <3>1. approval'[r].on = approval[r].on
      <4>1. approval' = [approval EXCEPT ![r].step = "accepted"]
        BY <2>3 DEF Resume
      <4>2. approval \in [Approvals -> ApprovalStates]
        BY DEF TypeOK
      <4> QED BY <2>3, <4>1, <4>2 DEF ApprovalStates
    <3>2. r \notin Deliveries
      BY <2>3, RunnerAssumption
    <3> QED BY <2>0, <2>3, <3>1, <3>2 DEF IncidentOf
  <2> QED BY <2>0, <2>1, <2>2, <2>3, RunsStart
<1>3. ASSUME NEW a \in Approvals
      PROVE  a \in Accepted(i)' <=> a \in Accepted(i)
  <2>1. CASE Resume(a) /\ approval'[a] = [approval[a] EXCEPT !.step = "accepted"]
             /\ approval[a].step = "checked"
    BY <2>1 DEF Accepted, TypeOK, ApprovalStates
  <2> QED BY <2>1, ApprovalMoves DEF Accepted
<1>4. Accepted(i)' = Accepted(i)
  BY <1>3 DEF Accepted
<1>5. ASSUME Asked(i)'
      PROVE  Asked(i)
  <2>1. CASE Waiting(i)'
    BY <1>1, <2>1 DEF Waiting, Asked, Awaiting
  <2>2. ASSUME NEW a \in Approvals, approval'[a].step \in {"checked", "accepted"}, approval'[a].on = i
        PROVE  Asked(i)
    <3>1. CASE approval'[a] = approval[a]
      BY <2>2, <3>1 DEF Asked
    <3>2. CASE approval[a].step = "idle" /\ approval'[a].step = "checked"
      BY <2>2, <3>2, CheckedWaits DEF Asked
    <3>3. CASE Resume(a) /\ approval[a].step = "checked"
               /\ approval'[a] = [approval[a] EXCEPT !.step = "accepted"]
      BY <2>2, <3>3 DEF TypeOK, ApprovalStates
    <3> QED BY <2>2, <3>1, <3>2, <3>3, ApprovalMoves
  <2> QED BY <1>5, <2>1, <2>2 DEF Asked
<1> QED BY <1>1, <1>2, <1>4, <1>5 DEF LeftAlone

-----------------------------------------------------------------------------
\* Counting the attempts of resumed runs.

\* No more than one for each approval and each attempt past the t-th.
LEMMA Pairs ==
  ASSUME NEW A \in SUBSET Approvals, NEW t \in 0..MaxTries,
         NEW U \in SUBSET (A \X ((t + 1)..MaxTries))
  PROVE  /\ IsFiniteSet(A) /\ IsFiniteSet(U)
         /\ Cardinality(A) \in Nat /\ Cardinality(U) \in Nat
         /\ Cardinality(U) <= Cardinality(A) * (MaxTries - t)
<1>1. IsFiniteSet(A) /\ Cardinality(A) \in Nat
  BY FS_Subset, FS_CardinalityType, RunnerAssumption
<1>2. t \in Int /\ t + 1 \in Int /\ MaxTries \in Int
  BY MaxTriesAssumption
<1>3. IsFiniteSet((t + 1)..MaxTries) /\ Cardinality((t + 1)..MaxTries) = MaxTries - t
  <2>1. t + 1 > MaxTries => MaxTries - t = 0
    BY <1>2
  <2> QED BY <1>2, <2>1, FS_Interval
<1>4. /\ IsFiniteSet(A \X ((t + 1)..MaxTries))
      /\ Cardinality(A \X ((t + 1)..MaxTries)) = Cardinality(A) * (MaxTries - t)
  BY <1>1, <1>3, FS_Product
<1> QED BY <1>1, <1>4, FS_Subset, FS_CardinalityType

\* An accepted approval stays accepted, and its run does not begin a second time.
LEMMA AcceptedStays ==
  ASSUME TypeOK, OwnerInv, [Next]_vars, NEW i \in Incidents, NEW a \in Accepted(i)
  PROVE  a \in Accepted(i)' /\ (Live(a)' => Live(a))
<1>1. a \in Approvals /\ approval[a].step = "accepted" /\ approval[a].on = i
  BY DEF Accepted
<1>2. approval'[a] = approval[a]
  BY <1>1, ApprovalMoves
<1>3. ~Resume(a) /\ a \notin Deliveries
  BY <1>1, RunnerAssumption DEF Resume
<1>4. ASSUME Live(a)', ~Live(a)
      PROVE  FALSE
  <2>1. a \in Runs
    BY <1>1
  <2> QED BY <1>3, <1>4, <2>1, RunsStart
<1>5. a \in Accepted(i)'
  BY <1>1, <1>2 DEF Accepted
<1> QED BY <1>4, <1>5

\* The attempts they may have made do not get fewer; an action of one of them is one more.
LEMMA UsedGrows ==
  ASSUME TypeOK, OwnerInv, PlaceInv, [Next]_vars, NEW i \in Incidents, NEW t \in 0..MaxTries
  PROVE  /\ Cardinality(Used(i, t)) \in Nat /\ Cardinality(Used(i, t)') \in Nat
         /\ Cardinality(Used(i, t)) <= Cardinality(Used(i, t)')
         /\ \A r \in RunsOf(i) :
              Act(r) /\ r \in Approvals /\ t <= run[r].at.tries =>
                Cardinality(Used(i, t)) + 1 <= Cardinality(Used(i, t)')
<1>1. ASSUME NEW x \in Used(i, t)
      PROVE  x \in Used(i, t)'
  <2>1. x \in Accepted(i) \X ((t + 1)..MaxTries) /\ (Live(x[1]) => x[2] <= Reached(x[1]))
    BY <1>1 DEF Used
  <2>2. PICK a \in Accepted(i), n \in (t + 1)..MaxTries : x = <<a, n>>
    BY <2>1
  <2>3. a \in Runs /\ (Live(a) => n <= Reached(a)) /\ n \in Int
    <3>1. a \in Runs
      BY DEF Accepted
    <3>3. x[1] = a /\ x[2] = n
      BY <2>2
    <3>2. n \in Int
      BY MaxTriesAssumption
    <3> QED BY <2>1, <3>1, <3>2, <3>3
  <2>4. a \in Accepted(i)' /\ (Live(a)' => Live(a))
    BY AcceptedStays
  <2>5. Live(a)' => n <= Reached(a)'
    BY <2>3, <2>4, ReachedGrows
  <2> QED BY <2>2, <2>4, <2>5 DEF Used
<1>2. /\ IsFiniteSet(Used(i, t)) /\ Cardinality(Used(i, t)) \in Nat
      /\ IsFiniteSet(Used(i, t)') /\ Cardinality(Used(i, t)') \in Nat
  <2>1. Used(i, t) \in SUBSET (Accepted(i) \X ((t + 1)..MaxTries)) /\ Accepted(i) \in SUBSET Approvals
    BY DEF Used, Accepted
  <2>2. Used(i, t)' \in SUBSET (Accepted(i)' \X ((t + 1)..MaxTries)) /\ Accepted(i)' \in SUBSET Approvals
    BY DEF Used, Accepted
  <2>3. IsFiniteSet(Used(i, t)) /\ Cardinality(Used(i, t)) \in Nat
    BY <2>1, Pairs
  <2>4. IsFiniteSet(Used(i, t)') /\ Cardinality(Used(i, t)') \in Nat
    BY <2>2, Pairs
  <2> QED BY <2>3, <2>4
<1>3. Cardinality(Used(i, t)) <= Cardinality(Used(i, t)')
  BY <1>1, <1>2, FS_Subset
<1>4. ASSUME NEW r \in RunsOf(i), Act(r), r \in Approvals, t <= run[r].at.tries
      PROVE  Cardinality(Used(i, t)) + 1 <= Cardinality(Used(i, t)')
  <2> DEFINE new == <<r, Reached(r) + 1>>
  <2>1. r \in Runs /\ Live(r) /\ Live(r)' /\ IncidentOf(r) = i
    BY <1>4 DEF RunsOf, Act, TypeOK, RunStates, Live
  <2>2. /\ Reached(r) = run[r].at.tries /\ Reached(r)' = Reached(r) + 1
        /\ Reached(r) < MaxTries /\ Reached(r) \in Nat
    BY <1>4, <2>1, ReachedGrows
  <2>3. r \in Accepted(i)
    BY <1>4, <2>1, RunnerAssumption DEF Accepted, OwnerInv, IncidentOf
  <2>4. r \in Accepted(i)'
    BY <2>3, AcceptedStays
  <2>5. Reached(r) + 1 \in (t + 1)..MaxTries
    BY <1>4, <2>2, MaxTriesAssumption
  <2>6. new \in Used(i, t)'
    BY <2>2, <2>4, <2>5 DEF Used
  <2>7. new \notin Used(i, t)
    BY <2>1, <2>2 DEF Used
  <2>8. Cardinality(Used(i, t) \cup {new}) = Cardinality(Used(i, t)) + 1
    BY <1>2, <2>7, FS_AddElement
  <2>9. Used(i, t) \cup {new} \in SUBSET Used(i, t)'
    BY <1>1, <2>6
  <2> HIDE DEF new
  <2> QED BY <1>2, <2>8, <2>9, FS_Subset
<1> QED BY <1>2, <1>3, <1>4

-----------------------------------------------------------------------------
\* The parts of the invariant, one after the other.

\* An action of an incident is counted once.
LEMMA ActCounts ==
  ASSUME TypeOK, OwnerInv, NEW i \in Incidents, NEW r \in Runs, Act(r), IncidentOf(r) = i
  PROVE  acted'[i] = acted[i] + 1 /\ saved' = saved /\ unsaved' = unsaved /\ approval' = approval
  BY DEF Act, TypeOK, handlerVars

\* The checkpoint a node leaves is the one its run goes on from.
LEMMA StepWrites ==
  ASSUME TypeOK, OwnerInv, NEW i \in Incidents, NEW r \in Runs, Step(r), IncidentOf(r) = i
  PROVE  /\ acted' = acted /\ saved' = saved /\ approval' = approval
         /\ Live(r)' /\ unsaved'[i] = Append(unsaved[i], run'[r].at)
         /\ unsaved[i] \in Seq(Checkpoints) /\ run'[r].at \in Checkpoints
         /\ run'[r].at \in Onward(run[r].at, run[r].answer) /\ run'[r].acting = FALSE
         /\ run[r].acting => run'[r].at.tries = Counted(run[r].at)
<1>1. PICK s \in Onward(run[r].at, run[r].answer) :
        /\ run[r].acting => s.tries = Counted(run[r].at)
        /\ run' = [run EXCEPT ![r].at = s, ![r].answer = "unset", ![r].acting = FALSE]
        /\ unsaved' = [unsaved EXCEPT ![i] = Append(@, s)]
  BY DEF Step
<1>2. s \in Checkpoints
  BY RunFields, WalkTyped
<1>3. run'[r].at = s /\ run'[r].acting = FALSE /\ run'[r].state = "live"
  BY <1>1 DEF TypeOK, RunStates, Step, Live
<1>4. unsaved'[i] = Append(unsaved[i], s) /\ unsaved[i] \in Seq(Checkpoints)
  BY <1>1 DEF TypeOK
<1> QED BY <1>1, <1>2, <1>3, <1>4 DEF Step, Live, handlerVars

\* Nothing but an action of one of its runs adds to what an incident did.
LEMMA ActedMoves ==
  ASSUME TypeOK, OwnerInv, [Next]_vars, NEW i \in Incidents,
         ~\E r \in Runs : Act(r) /\ IncidentOf(r) = i
  PROVE  acted'[i] = acted[i]
<1> USE DEF handlerVars, graphVars, processVars
<1>1. CASE Schedule(i)
  BY <1>1 DEF Schedule
<1>2. CASE Persist(i)
  BY <1>2 DEF Persist
<1>3. CASE \E r \in Runs : Step(r)
  BY <1>3 DEF Step
<1> QED BY <1>1, <1>2, <1>3, WritesMoves

\* The first run does not leave a pause: no answer is meant for it.
LEMMA PausedStays ==
  ASSUME TypeOK, OwnerInv, AnswerInv, PlaceInv, [Next]_vars,
         NEW i \in Incidents, Started(i), Paused(i)
  PROVE  Paused(i)'
<1> SUFFICES ASSUME Live(i)'
             PROVE  Awaiting(run'[i].at) /\ ~run'[i].acting
  BY DEF Paused, Awaiting
<1>0. i \in Runs /\ i \notin Approvals
  BY RunnerAssumption
<1>1. Live(i)
  <2>1. ~Schedule(i)
    BY DEF Schedule, Started
  <2> QED BY <1>0, <2>1, RunsStart
<1>2. Awaiting(run[i].at) /\ ~run[i].acting /\ run[i].at.at = "approve"
  BY <1>0, <1>1 DEF Paused, PlaceInv, AwaitsThere
<1>3. run[i].answer = "unset" /\ run[i].at \in Checkpoints
  BY <1>0, <1>1, RunFields DEF AnswerInv
<1>4. ~Act(i)
  BY <1>2 DEF Act
<1>5. CASE run'[i].at = run[i].at /\ run'[i].acting = run[i].acting
  BY <1>2, <1>5
<1>6. CASE run'[i].acting = FALSE /\ run'[i].at \in Onward(run[i].at, "unset")
  BY <1>2, <1>3, <1>6, PauseHolds
<1> QED BY <1>0, <1>1, <1>3, <1>4, <1>5, <1>6, RunsCount

\* Once asked about, an incident keeps to the t attempts before the pause and what the
\* resumed runs add.
LEMMA RestingStep ==
  ASSUME TypeOK, OwnerInv, AnswerInv, PlaceInv, [Next]_vars,
         NEW i \in Incidents, Started(i), NEW t \in 0..MaxTries, Resting(i, t)
  PROVE  Resting(i, t)'
<1>0. /\ acted[i] <= t + Cardinality(Used(i, t)) /\ Paused(i)
      /\ \A r \in RunsOf(i) : t <= run[r].at.tries
      /\ \A s \in saved[i] : t <= s.tries
      /\ \A k \in DOMAIN unsaved[i] : t <= unsaved[i][k].tries
  BY DEF Resting
<1>1. acted'[i] <= t + Cardinality(Used(i, t)')
  <2>0. /\ Cardinality(Used(i, t)) \in Nat /\ Cardinality(Used(i, t)') \in Nat
        /\ acted[i] \in Nat /\ t \in Nat
    <3>1. acted \in [Incidents -> Nat]
      BY DEF TypeOK
    <3>2. Cardinality(Used(i, t)) \in Nat /\ Cardinality(Used(i, t)') \in Nat
      BY UsedGrows
    <3> QED BY <3>1, <3>2
  <2>1. CASE ~\E r \in Runs : Act(r) /\ IncidentOf(r) = i
    <3>1. acted'[i] = acted[i]
      BY <2>1, ActedMoves
    <3>2. Cardinality(Used(i, t)) <= Cardinality(Used(i, t)')
      BY UsedGrows
    <3> QED BY <1>0, <2>0, <3>1, <3>2
  <2>2. ASSUME NEW r \in Runs, Act(r), IncidentOf(r) = i
        PROVE  acted'[i] <= t + Cardinality(Used(i, t)')
    <3>1. r \in RunsOf(i) /\ run[r].at.at = "execute" /\ Live(r)
      BY <2>2 DEF Act, RunsOf
    <3>2. r # i
      BY <1>0, <3>1 DEF Paused, PlaceInv, AwaitsThere
    <3>3. r \in Approvals
      BY <2>2, <3>2 DEF IncidentOf
    <3>4. Cardinality(Used(i, t)) + 1 <= Cardinality(Used(i, t)')
      BY <1>0, <2>2, <3>1, <3>3, UsedGrows
    <3>5. acted'[i] = acted[i] + 1
      BY <2>2, ActCounts
    <3> QED BY <1>0, <2>0, <3>4, <3>5
  <2> QED BY <2>1, <2>2
<1>2. Paused(i)'
  BY <1>0, PausedStays
<1>3. ASSUME NEW r \in Runs, Live(r)', IncidentOf(r)' = i
      PROVE  t <= run'[r].at.tries
  <2>1. CASE Live(r)
    <3>1. r \in RunsOf(i)
      BY <1>3, <2>1, RunsStay DEF RunsOf
    <3>2. run[r].at.tries <= run'[r].at.tries
      BY <1>3, <2>1, ReachedGrows
    <3>3. run[r].at.tries \in Nat /\ run'[r].at.tries \in Nat /\ t \in Nat
      <4>1. run'[r].at \in Checkpoints
        BY TypeStep, RunFields, <2>1, <1>3, RunsCount, WalkTyped
      <4> QED BY <4>1, RunFields, MaxTriesAssumption DEF Checkpoints
    <3> QED BY <1>0, <3>1, <3>2, <3>3
  <2>2. CASE ~Live(r) /\ r \in Deliveries /\ Schedule(r)
    BY <1>3, <2>2 DEF IncidentOf, Schedule, Started
  <2>3. CASE ~Live(r) /\ r \in Approvals /\ Resume(r)
    <3>1. PICK s \in saved[approval[r].on] :
            run' = [run EXCEPT ![r] = [NoRun EXCEPT !.state = "live", !.at = s,
                                                    !.answer = approval[r].answer]]
      BY <2>3 DEF Resume
    <3>2. run'[r].at = s
      BY <3>1 DEF TypeOK, NoRun
    <3>3. approval[r].on = i
      BY <1>3, <2>3, RunnerAssumption DEF IncidentOf, Resume, TypeOK, ApprovalStates
    <3> QED BY <1>0, <3>1, <3>2, <3>3
  <2> QED BY <1>3, <2>1, <2>2, <2>3, RunsStart
<1>4. \A s \in saved'[i] : t <= s.tries
  BY <1>0, CheckpointsFrom
<1>5. \A k \in DOMAIN unsaved'[i] : t <= unsaved'[i][k].tries
  <2> TAKE k \in DOMAIN unsaved'[i]
  <2>1. CASE \E j \in DOMAIN unsaved[i] : unsaved'[i][k] = unsaved[i][j]
    BY <1>0, <2>1
  <2>2. CASE \E r \in Runs : Live(r)' /\ IncidentOf(r)' = i /\ unsaved'[i][k] = run'[r].at
    BY <1>3, <2>2
  <2> QED BY <2>1, <2>2, CheckpointsFrom
<1>6. \A r \in RunsOf(i)' : t <= run'[r].at.tries
  BY <1>3 DEF RunsOf
<1> QED BY <1>1, <1>2, <1>4, <1>5, <1>6 DEF Resting

\* Before anybody is asked, the first run is the only one.
LEMMA FirstAlone ==
  ASSUME OwnerInv, NEW i \in Incidents, ~Asked(i)
  PROVE  RunsOf(i) \subseteq {i} /\ Accepted(i) = {}
<1>1. Accepted(i) = {}
  BY DEF Accepted, Asked
<1>2. ASSUME NEW r \in RunsOf(i)
      PROVE  r = i
  BY RunnerAssumption DEF RunsOf, Asked, OwnerInv, IncidentOf
<1> QED BY <1>1, <1>2

\* The first run acts: its pauses are still to come.
LEMMA BeforeAct ==
  ASSUME TypeOK, OwnerInv, PlaceInv, [Next]_vars,
         NEW i \in Incidents, ~Asked(i), BeforeAsked(i),
         NEW r \in Runs, Act(r), IncidentOf(r) = i
  PROVE  ~Asked(i)' /\ BeforeAsked(i)'
<1>1. r \in RunsOf(i) /\ Live(r) /\ run[r].at.at = "execute"
  BY DEF Act, RunsOf
<1>2. r = i
  BY <1>1, FirstAlone
<1>3. /\ acted'[i] = acted[i] + 1 /\ saved' = saved /\ unsaved' = unsaved
      /\ approval' = approval /\ acted[i] \in Nat
  BY ActCounts DEF TypeOK
<1>4. ~Asked(i)'
  BY <1>3 DEF Asked, Waiting, Awaiting
<1>5. Live(i)'
  BY <1>1, <1>2 DEF Act, TypeOK, RunStates, Live
<1>6. /\ Reached(i)' = Reached(i) + 1 /\ Reached(i) < MaxTries /\ Reached(i) \in Nat
      /\ acted[i] <= Reached(i)
  BY <1>1, <1>2, <1>5, ReachedGrows DEF BeforeAsked
<1>7. acted'[i] <= MaxTries /\ acted'[i] <= Reached(i)'
  BY <1>3, <1>6, MaxTriesAssumption
<1>8. ~Paused(i)
  BY <1>1, <1>2 DEF Paused, PlaceInv, AwaitsThere
<1>9. \A k \in DOMAIN unsaved'[i] : ~Awaiting(unsaved'[i][k])
  BY <1>3, <1>8 DEF BeforeAsked
<1> QED BY <1>4, <1>7, <1>9 DEF BeforeAsked, Awaiting

\* The first run leaves a node: a pause it writes counts all it did.
LEMMA BeforeStep ==
  ASSUME TypeOK, OwnerInv, AnswerInv, PlaceInv, [Next]_vars,
         NEW i \in Incidents, Started(i), ~Asked(i), BeforeAsked(i),
         NEW r \in Runs, Step(r), IncidentOf(r) = i
  PROVE  ~Asked(i)' /\ BeforeAsked(i)'
<1>1. r \in RunsOf(i) /\ Live(r)
  BY DEF Step, RunsOf
<1>2. r = i
  BY <1>1, FirstAlone
<1> DEFINE s == run'[i].at
<1>3. /\ acted' = acted /\ saved' = saved /\ approval' = approval
      /\ Live(i)' /\ unsaved'[i] = Append(unsaved[i], s)
      /\ unsaved[i] \in Seq(Checkpoints) /\ s \in Checkpoints
      /\ s \in Onward(run[i].at, run[i].answer) /\ run'[i].acting = FALSE
  BY <1>2, StepWrites
<1>4. ~Asked(i)'
  BY <1>3 DEF Asked, Waiting, Awaiting
<1>5. acted[i] <= s.tries /\ acted[i] <= Reached(i)' /\ acted[i] <= MaxTries
  <2>1. Reached(i) <= Reached(i)' /\ Reached(i) \in Nat /\ Reached(i)' \in Nat
    BY <1>1, <1>2, <1>3, ReachedGrows
  <2>2. acted[i] <= Reached(i) /\ acted[i] \in Nat /\ acted[i] <= MaxTries
    BY <1>1, <1>2 DEF BeforeAsked, TypeOK
  <2>3. s.tries \in Nat
    BY <1>3, MaxTriesAssumption DEF Checkpoints
  <2>4. Reached(i)' = s.tries
    BY <1>3, <2>3 DEF Reached
  <2> HIDE DEF s
  <2> QED BY <2>1, <2>2, <2>3, <2>4
<1> HIDE DEF s
<1>6. \A k \in DOMAIN Append(unsaved[i], s) :
        \/ k \in DOMAIN unsaved[i] /\ Append(unsaved[i], s)[k] = unsaved[i][k]
        \/ k \notin DOMAIN unsaved[i] /\ Append(unsaved[i], s)[k] = s
  BY <1>3
<1>7. ASSUME NEW k \in DOMAIN unsaved'[i], Awaiting(unsaved'[i][k])
      PROVE  /\ Paused(i)'
             /\ \A j \in DOMAIN unsaved'[i] : j >= k => acted[i] <= unsaved'[i][j].tries
  <2>1. CASE k \in DOMAIN unsaved[i]
    <3>1. Awaiting(unsaved[i][k])
      BY <1>3, <1>6, <1>7, <2>1
    <3>2. Paused(i) /\ \A j \in DOMAIN unsaved[i] : j >= k => acted[i] <= unsaved[i][j].tries
      BY <2>1, <3>1 DEF BeforeAsked
    <3>3. Paused(i)'
      BY <3>2, PausedStays
    <3> QED BY <1>3, <1>5, <1>6, <3>2, <3>3
  <2>2. CASE k \notin DOMAIN unsaved[i]
    <3>1. unsaved'[i][k] = s /\ Awaiting(s)
      BY <1>3, <1>6, <1>7, <2>2
    <3>2. Paused(i)'
      BY <1>3, <3>1 DEF Paused, Awaiting, s
    <3>3. \A j \in DOMAIN unsaved'[i] : j >= k => j \notin DOMAIN unsaved[i]
      <4>1. /\ DOMAIN unsaved'[i] = 1..(Len(unsaved[i]) + 1) /\ Len(unsaved[i]) \in Nat
            /\ DOMAIN unsaved[i] = 1..Len(unsaved[i])
        BY <1>3
      <4> QED BY <1>7, <2>2, <4>1
    <3> QED BY <1>3, <1>5, <1>6, <3>2, <3>3
  <2> QED BY <2>1, <2>2
<1>8. acted'[i] = acted[i]
  BY <1>3
<1> QED BY <1>4, <1>5, <1>7, <1>8 DEF BeforeAsked, Awaiting

\* A checkpoint is saved: if the incident waits with it, all it did so far is counted by
\* every checkpoint there is from now on.
LEMMA BeforePersist ==
  ASSUME TypeOK, OwnerInv, AnswerInv, PlaceInv, [Next]_vars,
         NEW i \in Incidents, ~Asked(i), BeforeAsked(i), Persist(i)
  PROVE  OnceAsked(i)' \/ (~Asked(i)' /\ BeforeAsked(i)')
<1> USE DEF handlerVars, graphVars, processVars
<1>1. /\ unsaved[i] # <<>> /\ unsaved[i] \in Seq(Checkpoints)
      /\ saved'[i] = {unsaved[i][1]} /\ unsaved'[i] = Tail(unsaved[i])
      /\ run' = run /\ approval' = approval /\ acted' = acted
  BY DEF Persist, TypeOK
<1>2. /\ 1 \in DOMAIN unsaved[i] /\ \A k \in DOMAIN unsaved[i] : k >= 1
      /\ \A k \in DOMAIN unsaved'[i] :
           k + 1 \in DOMAIN unsaved[i] /\ unsaved'[i][k] = unsaved[i][k + 1] /\ k \in Nat
  BY <1>1
<1>3. acted[i] \in Nat /\ acted[i] <= MaxTries /\ (Live(i) => acted[i] <= Reached(i))
  BY DEF BeforeAsked, TypeOK
<1>4. CASE Awaiting(unsaved[i][1])
  <2>1. Paused(i) /\ \A j \in DOMAIN unsaved[i] : acted[i] <= unsaved[i][j].tries
    BY <1>2, <1>4 DEF BeforeAsked
  <2>2. acted[i] \in 0..MaxTries
    BY <1>3, MaxTriesAssumption
  <2>3. PICK t \in 0..MaxTries : t = acted[i]
    BY <2>2
  <2>4. acted'[i] <= t + Cardinality(Used(i, t)')
    <3>1. Cardinality(Used(i, t)') \in Nat /\ t \in Nat
      BY UsedGrows
    <3> QED BY <1>1, <2>3, <3>1
  <2>5. Paused(i)'
    BY <1>1, <2>1 DEF Paused, Live, Awaiting
  <2>6. ASSUME NEW r \in RunsOf(i)'
        PROVE  t <= run'[r].at.tries
    <3>1. r \in RunsOf(i)
      BY <1>1 DEF RunsOf, Live, IncidentOf
    <3>2. r = i /\ Live(i)
      BY <3>1, FirstAlone DEF RunsOf
    <3>3. ~run[i].acting
      BY <2>1, <3>2 DEF Paused
    <3>4. run[i].at.tries \in Nat
      BY RunFields, MaxTriesAssumption DEF Checkpoints
    <3>5. Reached(i) = run[i].at.tries
      BY <3>3, <3>4 DEF Reached
    <3> QED BY <1>1, <1>3, <2>3, <3>2, <3>5
  <2>7. /\ \A s \in saved'[i] : t <= s.tries
        /\ \A k \in DOMAIN unsaved'[i] : t <= unsaved'[i][k].tries
    BY <1>1, <1>2, <2>1, <2>3
  <2>8. Resting(i, t)'
    BY <2>4, <2>5, <2>6, <2>7 DEF Resting
  <2> QED BY <2>8 DEF OnceAsked
<1>5. CASE ~Awaiting(unsaved[i][1])
  <2>1. ~Asked(i)'
    BY <1>1, <1>5 DEF Asked, Waiting, Awaiting
  <2>2. ASSUME NEW k \in DOMAIN unsaved'[i], Awaiting(unsaved'[i][k])
        PROVE  Paused(i) /\ \A j \in DOMAIN unsaved'[i] : j >= k => acted[i] <= unsaved'[i][j].tries
    <3>1. k + 1 \in DOMAIN unsaved[i] /\ Awaiting(unsaved[i][k + 1])
      BY <1>2, <2>2
    <3>2. Paused(i) /\ \A j \in DOMAIN unsaved[i] : j >= k + 1 => acted[i] <= unsaved[i][j].tries
      BY <3>1 DEF BeforeAsked
    <3> QED BY <1>2, <3>2
  <2>3. BeforeAsked(i)'
    BY <1>1, <1>3, <2>2 DEF BeforeAsked, Paused, Live, Reached, Awaiting
  <2> QED BY <2>1, <2>3
<1> QED BY <1>4, <1>5

\* What leaves an incident alone that nobody was asked about leaves it at that.
LEMMA BeforeLeft ==
  ASSUME TypeOK, OwnerInv, PlaceInv, [Next]_vars,
         NEW i \in Incidents, ~Asked(i), BeforeAsked(i), LeftAlone(i)
  PROVE  ~Asked(i)' /\ BeforeAsked(i)'
<1>1. ~Asked(i)' /\ acted'[i] = acted[i] /\ unsaved'[i] \in {unsaved[i], <<>>}
  BY DEF LeftAlone
<1>2. ASSUME Live(i)'
      PROVE  Live(i) /\ run'[i].at = run[i].at /\ run'[i].acting = run[i].acting
  <2>1. i \in RunsOf(i)'
    BY <1>2 DEF RunsOf, IncidentOf
  <2> QED BY <2>1 DEF LeftAlone, RunsOf
<1>3. acted'[i] <= MaxTries /\ (Live(i)' => acted'[i] <= Reached(i)')
  BY <1>1, <1>2 DEF BeforeAsked, Reached
<1>4. Paused(i) => Paused(i)'
  BY <1>2 DEF Paused, Awaiting
<1>5. CASE unsaved'[i] = unsaved[i]
  BY <1>1, <1>3, <1>4, <1>5 DEF BeforeAsked, Awaiting
<1>6. CASE unsaved'[i] = <<>>
  BY <1>1, <1>3, <1>6 DEF BeforeAsked
<1> QED BY <1>1, <1>5, <1>6

\* An incident nobody opened has done nothing, and opening it does nothing yet.
LEMMA UntouchedStep ==
  ASSUME TypeOK, OwnerInv, PlaceInv, [Next]_vars, NEW i \in Incidents, ~Started(i), Untouched(i)
  PROVE  /\ ~Started(i)' => Untouched(i)'
         /\ ~Asked(i)' /\ BeforeAsked(i)'
<1>0. acted[i] = 0 /\ ~Asked(i) /\ unsaved[i] = <<>> /\ MaxTries \in Nat
  BY MaxTriesAssumption DEF Untouched
<1>1. RunsOf(i) = {}
  BY <1>0, FirstAlone DEF RunsOf, OwnerInv, Started
<1>2. CASE Schedule(i)
  <2>1. /\ Started(i)' /\ acted' = acted /\ saved' = saved /\ approval' = approval
        /\ unsaved'[i] = <<Fresh>> /\ run'[i].at = Fresh /\ run'[i].acting = FALSE
    BY <1>2 DEF Schedule, Started, NoRun, TypeOK
  <2>2. ~Asked(i)'
    BY <1>0, <2>1 DEF Asked, Waiting, Awaiting
  <2>3. Reached(i)' = 0 /\ ~Awaiting(Fresh)
    BY <2>1 DEF Reached, Fresh, Awaiting
  <2>4. \A k \in DOMAIN unsaved'[i] : unsaved'[i][k] = Fresh
    BY <2>1
  <2>5. BeforeAsked(i)'
    BY <1>0, <2>1, <2>3, <2>4 DEF BeforeAsked, Awaiting
  <2> QED BY <2>1, <2>2, <2>5
<1>3. CASE ~Schedule(i)
  <2>1. ~Persist(i)
    BY <1>0 DEF Persist
  <2>2. ~\E r \in Runs : (Act(r) \/ Step(r)) /\ IncidentOf(r) = i
    BY <1>1 DEF Act, Step, RunsOf
  <2>3. ~\E a \in Approvals : Resume(a) /\ approval[a].on = i
    BY <1>0 DEF Resume, Asked
  <2>4. LeftAlone(i)
    BY <1>3, <2>1, <2>2, <2>3, IncidentMoves
  <2>5. Untouched(i)'
    BY <1>0, <2>4 DEF Untouched, LeftAlone
  <2>6. RunsOf(i)' = {}
    BY <1>1, <2>4 DEF LeftAlone
  <2>7. ~Live(i)'
    BY <2>6 DEF RunsOf, IncidentOf
  <2> QED BY <1>0, <2>5, <2>7 DEF Untouched, BeforeAsked
<1> QED BY <1>2, <1>3

\* The strengthening is inductive.
LEMMA CapStep ==
  ASSUME TypeOK, OwnerInv, AnswerInv, CapInv, [Next]_vars
  PROVE  CapInv'
<1>0. PlaceInv
  BY DEF CapInv
<1>1. PlaceInv'
  BY <1>0, PlaceStep
<1>2. ASSUME NEW i \in Incidents
      PROVE  (~Started(i)' => Untouched(i)') /\ (OnceAsked(i)' \/ (~Asked(i)' /\ BeforeAsked(i)'))
  <2>1. CASE ~Started(i)
    BY <1>0, <2>1, UntouchedStep DEF CapInv
  <2>2. CASE Started(i) /\ OnceAsked(i)
    <3>1. PICK t \in 0..MaxTries : Resting(i, t)
      BY <2>2 DEF OnceAsked
    <3>2. Resting(i, t)' /\ Started(i)'
      BY <1>0, <2>2, <3>1, RestingStep, DeliveryMoves DEF Started
    <3> QED BY <3>2 DEF OnceAsked
  <2>3. CASE Started(i) /\ ~Asked(i) /\ BeforeAsked(i)
    <3>1. Started(i)' /\ ~Schedule(i)
      BY <2>3, DeliveryMoves DEF Started, Schedule
    <3>2. ~\E a \in Approvals : Resume(a) /\ approval[a].on = i
      BY <2>3 DEF Resume, Asked
    <3>3. CASE Persist(i)
      BY <1>0, <2>3, <3>1, <3>3, BeforePersist
    <3>4. CASE \E r \in Runs : Act(r) /\ IncidentOf(r) = i
      BY <1>0, <2>3, <3>1, <3>4, BeforeAct
    <3>5. CASE \E r \in Runs : Step(r) /\ IncidentOf(r) = i
      BY <1>0, <2>3, <3>1, <3>5, BeforeStep
    <3>6. CASE ~Persist(i) /\ ~\E r \in Runs : (Act(r) \/ Step(r)) /\ IncidentOf(r) = i
      <4>1. LeftAlone(i)
        BY <3>1, <3>2, <3>6, IncidentMoves
      <4> QED BY <1>0, <2>3, <3>1, <4>1, BeforeLeft
    <3> QED BY <3>3, <3>4, <3>5, <3>6
  <2> QED BY <2>1, <2>2, <2>3 DEF CapInv
<1> QED BY <1>1, <1>2 DEF CapInv

\* At the start nothing was delivered, asked or done.
LEMMA CapInit == Init => CapInv
<1> SUFFICES ASSUME Init PROVE CapInv
  OBVIOUS
<1>1. \A r \in Runs : ~Live(r)
  BY DEF Init, Live, NoRun
<1>2. \A i \in Incidents : ~Asked(i)
  <2>1. \A a \in Approvals : approval[a].step \in {"idle", "refused"}
    BY DEF Init, Idle
  <2>2. \A i \in Incidents : saved[i] = {}
    BY DEF Init
  <2> QED BY <2>1, <2>2 DEF Asked, Waiting
<1>3. \A i \in Incidents : saved[i] = {} /\ unsaved[i] = <<>> /\ acted[i] = 0
  BY DEF Init
<1>4. PlaceInv
  BY <1>1, <1>3 DEF PlaceInv
<1>5. \A i \in Incidents : BeforeAsked(i) /\ Untouched(i)
  BY <1>1, <1>2, <1>3, MaxTriesAssumption DEF BeforeAsked, Untouched
<1> QED BY <1>2, <1>4, <1>5 DEF CapInv

-----------------------------------------------------------------------------
\* The strengthening holds in every reachable state, for any constants.
THEOREM AttemptsInvariance == Spec => [](RInv /\ CapInv)
<1>1. Init => CapInv
  BY CapInit
<1>2. RInv /\ CapInv /\ [Next]_vars => CapInv'
  BY CapStep DEF RInv
<1> QED BY <1>1, <1>2, Invariance, PTL DEF Spec

\* t attempts before the pause and one for each pair past them are within the cap.
LEMMA WithinCap ==
  ASSUME NEW n \in Nat, NEW t \in 0..MaxTries, NEW used \in Nat, used <= n * (MaxTries - t)
  PROVE  t + used <= MaxTries * (IF n = 0 THEN 1 ELSE n)
<1> DEFINE left == MaxTries - t
<1>1. t \in Nat /\ left \in Nat /\ MaxTries = t + left /\ MaxTries \in Nat
  BY MaxTriesAssumption
<1>2. CASE n = 0
  BY <1>1, <1>2
<1>3. CASE n # 0
  <2>1. PICK m \in Nat : n = m + 1
    <3>1. n - 1 \in Nat /\ n = (n - 1) + 1
      BY <1>3
    <3> QED BY <3>1
  <2> HIDE DEF left
  <2>2. MaxTries * n = n * left + t + m * t
    BY <1>1, <2>1
  <2>3. m * t \in Nat /\ n * left \in Nat
    BY <1>1, <2>1
  <2>4. used <= n * left
    BY DEF left
  <2> QED BY <1>1, <1>3, <2>2, <2>3, <2>4
<1> QED BY <1>2, <1>3

\* max_action_attempts in execute_node, across approve_incident and _resume_graph: runs
\* resumed from a late checkpoint, crashes and lost checkpoints included, an incident acts
\* at most that often for each approval that was accepted, and as often without any.
THEOREM AttemptsCapped == Spec => []AttemptCapPerDecision
<1>1. ASSUME RInv, CapInv, NEW i \in Incidents
      PROVE  acted[i] <= MaxTries * (IF Accepted(i) = {} THEN 1 ELSE Cardinality(Accepted(i)))
  <2>0. acted[i] \in Nat /\ MaxTries \in Nat
    BY <1>1, MaxTriesAssumption DEF RInv, TypeOK
  <2>1. CASE OnceAsked(i)
    <3>1. PICK t \in 0..MaxTries : acted[i] <= t + Cardinality(Used(i, t))
      BY <2>1 DEF OnceAsked, Resting
    <3>2. Used(i, t) \in SUBSET (Accepted(i) \X ((t + 1)..MaxTries)) /\ Accepted(i) \in SUBSET Approvals
      BY DEF Used, Accepted
    <3>3. /\ Cardinality(Accepted(i)) \in Nat /\ Cardinality(Used(i, t)) \in Nat
          /\ Cardinality(Used(i, t)) <= Cardinality(Accepted(i)) * (MaxTries - t)
          /\ IsFiniteSet(Accepted(i))
      BY <3>2, Pairs
    <3>4. Cardinality(Accepted(i)) = 0 <=> Accepted(i) = {}
      BY <3>3, FS_EmptySet
    <3> DEFINE n == Cardinality(Accepted(i))
               used == Cardinality(Used(i, t))
    <3>5. t + used <= MaxTries * (IF n = 0 THEN 1 ELSE n)
      <4> HIDE DEF n, used
      <4> QED BY <3>3, WithinCap DEF n, used
    <3>6. MaxTries * (IF n = 0 THEN 1 ELSE n) \in Nat /\ t \in Nat
      BY <2>0, <3>3
    <3>7. acted[i] <= MaxTries * (IF n = 0 THEN 1 ELSE n)
      <4> HIDE DEF n
      <4> QED BY <2>0, <3>1, <3>3, <3>5, <3>6
    <3> QED BY <3>4, <3>7
  <2>2. CASE ~Asked(i) /\ BeforeAsked(i)
    <3>1. Accepted(i) = {} /\ acted[i] <= MaxTries
      BY <1>1, <2>2, FirstAlone DEF RInv, BeforeAsked
    <3> QED BY <2>0, <3>1
  <2> QED BY <1>1, <2>1, <2>2 DEF CapInv
<1>2. RInv /\ CapInv => AttemptCapPerDecision
  BY <1>1 DEF AttemptCapPerDecision
<1> QED BY AttemptsInvariance, <1>2, PTL
=============================================================================
