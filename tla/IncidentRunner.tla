---------------------------- MODULE IncidentRunner ----------------------------
(***************************************************************************)
(* LangGraphRunner and the API in front of it.  POST /alerts schedules a   *)
(* run as an asyncio task, POST /incidents/{id}/approve resumes a paused   *)
(* one in a task of its own; both tasks live in one process that drains    *)
(* them when it stops and loses them when it dies; what they work with is  *)
(* closed by the exit stack of lifespan, last opened first.  The graph     *)
(* writes a checkpoint after every node, persisted while the next one runs.*)
(*                                                                         *)
(* A handler runs without interruption between two awaits.  The awaits     *)
(* that matter are the body of an alert, the checkpoint an approval reads  *)
(* and everything inside the graph; the asyncio locks of the fingerprint   *)
(* index and of the task set are never held across an await, so taking     *)
(* them does not give up control.                                          *)
(***************************************************************************)
EXTENDS IncidentWalk, Sequences, FiniteSets

CONSTANTS
  Deliveries,    \* webhook deliveries; an incident is named after the one that opened it
  Approvals,     \* calls of the approval endpoint
  Workloads,     \* which of these come at all: a set of sets of the two
  Prints,        \* alert fingerprints
  PrintOf,       \* Deliveries -> Prints or Unprinted
  Unprinted,     \* the empty fingerprint
  Free,          \* no reservation
  TTL,           \* _FINGERPRINT_TTL_SECONDS
  FirstLimit,    \* max_wall_clock_seconds less the safety margin
  ResumeLimit,   \* max_wall_clock_seconds
  DrainLimit,    \* _RUNNER_SHUTDOWN_TIMEOUT
  MaxUnsaved,    \* bound: checkpoints of an incident on their way to PostgreSQL
  MaxRestarts    \* bound: stops and crashes of the process

Incidents == Deliveries
Runs == Deliveries \cup Approvals

ASSUME RunnerAssumption ==
  /\ Deliveries \cap Approvals = {}
  /\ PrintOf \in [Deliveries -> Prints \cup {Unprinted}] /\ Unprinted \notin Prints
  /\ Free \notin Deliveries /\ IsFiniteSet(Approvals)
  /\ {TTL, DrainLimit, MaxUnsaved, FirstLimit, ResumeLimit} \subseteq Nat \ {0}
  /\ MaxRestarts \in Nat

\* What config.py does not check: a run is over before its fingerprint is forgotten.
ASSUME WallClockAssumption == FirstLimit <= TTL

VARIABLES
  server,    \* "up", "stopping" (SIGTERM), "draining" (lifespan exits), "closed", "down"
  open,      \* how many of the exit stack's callbacks are still to be called
  pending,   \* the tasks LangGraphRunner.shutdown waits for
  index,     \* _FingerprintIndex._entries: [by, age], or Free
  delivery,  \* Deliveries -> what became of it
  approval,  \* Approvals -> [step, on, answer]
  run,       \* Runs -> [state, age, at, answer, acting]: the asyncio tasks
  saved,     \* Incidents -> set with the newest persisted checkpoint, or {}
  unsaved,   \* Incidents -> checkpoints written and not persisted yet
  drained,   \* age of the drain
  restarts,
  acted,     \* history: how often an incident's action reached the managed system
  consented, \* history: incidents that acted on a proposal in need of consent
  cut        \* history: incidents one of whose runs was cut short

handlerVars == <<delivery, approval>>
graphVars == <<run, saved, unsaved, acted, consented, cut>>
processVars == <<server, open, pending, index, drained, restarts>>
vars == <<handlerVars, graphVars, processVars>>

NoRun == [state |-> "none", age |-> 0, at |-> Fresh, answer |-> "unset", acting |-> FALSE]
Idle == [step |-> "idle", on |-> Free, answer |-> "unset"]

\* Mutant: the runner is made, and its shutdown pushed, before the checkpointer is entered.
RunnerBeforeSaver ==
  <<"telemetry", "postgres", "valkey", "observability", "runner", "saver">>
\* The callbacks lifespan pushes on its exit stack, in that order; they are called in
\* reverse.  "runner" is LangGraphRunner.shutdown, the others close a client or a pool.
ExitStack ==
  <<"telemetry", "postgres", "valkey", "observability", "saver", "runner">>
IsOpen(resource) == \E k \in 1..open : ExitStack[k] = resource

\* What the nodes of a run, their tools and the handlers call; telemetry outlives them all.
InUse == {"postgres", "valkey", "observability", "saver"}

Init ==
  /\ server = "up" /\ open = Len(ExitStack) /\ pending = {} /\ drained = 0 /\ restarts = 0
  /\ index = [p \in Prints |-> [by |-> Free, age |-> 0]]
  /\ \E clients \in Workloads :
       /\ delivery = [d \in Deliveries |-> IF d \in clients THEN "idle" ELSE "answered"]
       /\ approval = [a \in Approvals |-> [Idle EXCEPT !.step =
                         IF a \in clients THEN "idle" ELSE "refused"]]
  /\ run = [r \in Runs |-> NoRun]
  /\ saved = [i \in Incidents |-> {}] /\ unsaved = [i \in Incidents |-> <<>>]
  /\ acted = [i \in Incidents |-> 0] /\ consented = {} /\ cut = {}

IncidentOf(r) == IF r \in Deliveries THEN r ELSE approval[r].on
Live(r) == run[r].state = "live"
RunsOf(i) == {r \in Runs : Live(r) /\ IncidentOf(r) = i}
Limit(r) == IF r \in Deliveries THEN FirstLimit ELSE ResumeLimit
Handling ==
  \/ \E d \in Deliveries : delivery[d] = "admitted"
  \/ \E a \in Approvals : approval[a].step = "checked"

-----------------------------------------------------------------------------
\* trigger_incident up to its await: refused (rate limit, paused agent), or waiting for
\* the request body.
Admit(d) ==
  /\ server = "up" /\ delivery[d] = "idle"
  /\ \E outcome \in {"admitted", "answered"} : delivery' = [delivery EXCEPT ![d] = outcome]
  /\ UNCHANGED <<approval, graphVars, processVars>>

\* A bad signature or payload.
Reject(d) ==
  /\ delivery[d] = "admitted"
  /\ delivery' = [delivery EXCEPT ![d] = "answered"]
  /\ UNCHANGED <<approval, graphVars, processVars>>

\* _FingerprintIndex.lookup finds a reservation that has not expired.
Reserved(p) == p # Unprinted /\ index[p].by # Free /\ index[p].age <= TTL

\* trigger_incident finds the fingerprint and answers with the incident it names.
Duplicate(d) ==
  /\ delivery[d] = "admitted" /\ Reserved(PrintOf[d])
  /\ delivery' = [delivery EXCEPT ![d] = "answered"]
  /\ UNCHANGED <<approval, graphVars, processVars>>

\* Mutants: the fingerprint is not reserved after scheduling; the empty one is, too.
NotReserved(d) == index
EmptyReserved(d) ==
  [p \in Prints \cup {PrintOf[d]} |->
     IF p = PrintOf[d] THEN [by |-> d, age |-> 0] ELSE index[p]]
\* _FingerprintIndex.reserve
Reserve(d) ==
  IF PrintOf[d] = Unprinted THEN index
  ELSE [index EXCEPT ![PrintOf[d]] = [by |-> d, age |-> 0]]

\* trigger_incident schedules: schedule_incident's task, then the reservation.  No await
\* between the lookup and the reservation gives up control.
Schedule(d) ==
  /\ delivery[d] = "admitted" /\ ~Reserved(PrintOf[d])
  /\ delivery' = [delivery EXCEPT ![d] = "scheduled"]
  /\ run' = [run EXCEPT ![d] = [NoRun EXCEPT !.state = "live"]]
  /\ unsaved' = [unsaved EXCEPT ![d] = <<Fresh>>]
  /\ index' = Reserve(d)
  /\ UNCHANGED <<approval, saved, acted, consented, cut, server, open, pending, drained,
                 restarts>>

-----------------------------------------------------------------------------
\* approve_incident up to its await: the newest persisted checkpoint is read.  No
\* checkpoint, no consent asked for, or a decision on record refuse the approval.
ReadState(a) ==
  /\ server = "up" /\ approval[a].step = "idle"
  /\ \E i \in Incidents, answer \in {"yes", "no"} :
       /\ delivery[i] = "scheduled"
       /\ approval' = [approval EXCEPT ![a] =
            IF \E s \in saved[i] : Awaiting(s)
            THEN [step |-> "checked", on |-> i, answer |-> answer]
            ELSE [Idle EXCEPT !.step = "refused"]]
  /\ UNCHANGED <<delivery, graphVars, processVars>>

\* approve_incident goes on with what it read: 200 is answered, and a task of its own
\* resumes the graph from the checkpoint that is the newest by then.
Resume(a) ==
  /\ approval[a].step = "checked"
  /\ approval' = [approval EXCEPT ![a].step = "accepted"]
  /\ \E s \in saved[approval[a].on] :
       run' = [run EXCEPT ![a] = [NoRun EXCEPT !.state = "live", !.at = s,
                                               !.answer = approval[a].answer]]
  /\ UNCHANGED <<delivery, saved, unsaved, acted, consented, cut, processVars>>

-----------------------------------------------------------------------------
\* Outside the repository: LangGraph with its PostgreSQL saver.

\* The oldest unsaved checkpoint reaches PostgreSQL.
Persist(i) ==
  /\ unsaved[i] # <<>>
  /\ saved' = [saved EXCEPT ![i] = {Head(unsaved[i])}]
  /\ unsaved' = [unsaved EXCEPT ![i] = Tail(@)]
  /\ UNCHANGED <<handlerVars, run, acted, consented, cut, processVars>>

\* execute_node has the action carried out; its checkpoint is still to be written.
Act(r) ==
  LET i == IncidentOf(r) IN
  /\ Live(r) /\ run[r].at.at = "execute" /\ ~run[r].acting
  /\ TriesLeft(run[r].at)
  /\ run' = [run EXCEPT ![r].acting = TRUE]
  /\ acted' = [acted EXCEPT ![i] = @ + 1]
  /\ consented' = IF run[r].at.needs THEN consented \cup {i} ELSE consented
  /\ UNCHANGED <<handlerVars, saved, unsaved, cut, processVars>>

\* LangGraphRunner.shutdown is what the exit stack is at.
Draining == server = "draining" /\ ExitStack[open] = "runner"

\* The time shutdown waits is up, and the task is one of those it waits for.
GivenUp(r) == Draining /\ drained = DrainLimit /\ r \in pending

\* The wall clock of the run, or of the drain, is up: its cancellation comes next.
Due(r) == run[r].age = Limit(r) \/ GivenUp(r)

\* A node ends and its checkpoint is written.  The answer a run was resumed with is there
\* for its first node only.
Step(r) ==
  LET i == IncidentOf(r) IN
  /\ Live(r) /\ ~Due(r) /\ Len(unsaved[i]) < MaxUnsaved
  /\ \E s \in Onward(run[r].at, run[r].answer) :
       /\ run[r].acting => s.tries = Counted(run[r].at)
       /\ run' = [run EXCEPT ![r].at = s, ![r].answer = "unset", ![r].acting = FALSE]
       /\ unsaved' = [unsaved EXCEPT ![i] = Append(@, s)]
  /\ UNCHANGED <<handlerVars, saved, acted, consented, cut, processVars>>

\* The run is at END or in interrupt(): the stream ends once its checkpoints are written.
Return(r) ==
  /\ Live(r) /\ unsaved[IncidentOf(r)] = <<>>
  /\ run[r].at.at = "end" \/ Pauses(run[r].at, run[r].answer)
  /\ run' = [run EXCEPT ![r] = [NoRun EXCEPT !.state = "over"]]
  /\ UNCHANGED <<handlerVars, saved, unsaved, acted, consented, cut, processVars>>

-----------------------------------------------------------------------------
\* Mutant: the graph catches what should have ended it and goes on.
Swallowed(r) ==
  /\ Live(r)
  /\ run' = [run EXCEPT ![r].age = 0]
  /\ UNCHANGED <<handlerVars, saved, unsaved, acted, consented, cut, processVars>>
\* A run ends where it stands; the checkpoints it wrote are still persisted.
CutShort(r) ==
  /\ Live(r)
  /\ run' = [run EXCEPT ![r] = [NoRun EXCEPT !.state = "over"]]
  /\ cut' = cut \cup {IncidentOf(r)}
  /\ UNCHANGED <<handlerVars, saved, unsaved, acted, consented, processVars>>

\* A node raises: _execute_graph logs and raises again, _resume_graph logs.
Fails(r) == ~Due(r) /\ CutShort(r)

\* asyncio.wait_for cancels the graph; nothing else happens to the incident.
TimesOut(r) == Live(r) /\ run[r].age = Limit(r) /\ CutShort(r)

\* shutdown gives up waiting and cancels what is left.
Cancelled(r) == GivenUp(r) /\ CutShort(r)

\* _background_tasks: a task is in it until it has unwound, its checkpoints included.
Unwound(r) == ~Live(r) /\ unsaved[IncidentOf(r)] = <<>>
Begun(r) == run[r].state # "none"
Tasks == {r \in Runs : Begun(r) /\ ~Unwound(r)}

\* asyncio.wait, then gather of the cancelled: shutdown returns when the tasks it found
\* have unwound.  Of a task made since it knows nothing.
AllDone == \A r \in pending : Unwound(r)

\* SIGTERM: uvicorn takes no more requests.
Sigterm ==
  /\ server = "up" /\ restarts < MaxRestarts
  /\ server' = "stopping"
  /\ UNCHANGED <<handlerVars, graphVars, open, pending, index, drained, restarts>>

\* The handlers have returned, so lifespan goes on after its yield; the exit stack is at
\* shutdown, which looks once at the tasks there are.
Shutdown ==
  /\ server = "stopping" /\ ~Handling
  /\ server' = "draining" /\ drained' = 0 /\ pending' = Tasks
  /\ UNCHANGED <<handlerVars, graphVars, open, index, restarts>>

\* A callback of the exit stack has returned; the next one below it is called.
Close ==
  /\ server = "draining" /\ (Draining => AllDone)
  /\ open' = open - 1
  /\ server' = IF open = 1 THEN "closed" ELSE server
  /\ UNCHANGED <<handlerVars, graphVars, pending, index, drained, restarts>>

\* The process dies with its handlers, tasks and unsaved checkpoints.
Crash ==
  /\ server \in {"up", "stopping", "draining"} /\ restarts < MaxRestarts
  /\ server' = "down" /\ open' = 0 /\ pending' = {}
  /\ delivery' = [d \in Deliveries |-> IF delivery[d] = "admitted" THEN "answered" ELSE delivery[d]]
  /\ approval' = [a \in Approvals |->
       IF approval[a].step = "checked" THEN [Idle EXCEPT !.step = "refused"] ELSE approval[a]]
  /\ cut' = cut \cup {IncidentOf(r) : r \in {x \in Runs : Live(x)}}
  /\ run' = [r \in Runs |-> IF Live(r) THEN [NoRun EXCEPT !.state = "over"] ELSE run[r]]
  /\ unsaved' = [i \in Incidents |-> <<>>]
  /\ UNCHANGED <<saved, acted, consented, index, drained, restarts>>

\* lifespan starts from nothing: an empty index, no tasks, and nothing is resumed.
Restart ==
  /\ server \in {"closed", "down"}
  /\ server' = "up" /\ restarts' = restarts + 1 /\ drained' = 0
  /\ open' = Len(ExitStack) /\ pending' = {}
  /\ index' = [p \in Prints |-> [by |-> Free, age |-> 0]]
  /\ UNCHANGED <<handlerVars, graphVars>>

\* Time passes.  A timer that is due fires before the clock moves on.
Older(age, cap) == IF age < cap THEN age + 1 ELSE age
Tick ==
  /\ \A r \in Runs : Live(r) => run[r].age < Limit(r)
  /\ Draining => drained < DrainLimit \/ AllDone
  /\ run' = [r \in Runs |-> IF Live(r) THEN [run[r] EXCEPT !.age = @ + 1] ELSE run[r]]
  /\ index' = [p \in Prints |->
       IF index[p].by = Free THEN index[p] ELSE [index[p] EXCEPT !.age = Older(@, TTL + 1)]]
  /\ drained' = IF Draining THEN Older(drained, DrainLimit) ELSE drained
  /\ UNCHANGED <<handlerVars, saved, unsaved, acted, consented, cut, server, open, pending, restarts>>

HandlerStep ==
  \/ \E d \in Deliveries : Admit(d) \/ Reject(d) \/ Duplicate(d) \/ Schedule(d)
  \/ \E a \in Approvals : ReadState(a) \/ Resume(a)

RunStep ==
  \/ \E i \in Incidents : Persist(i)
  \/ \E r \in Runs :
       Act(r) \/ Step(r) \/ Return(r) \/ Fails(r) \/ TimesOut(r) \/ Cancelled(r)

ServerStep == Sigterm \/ Shutdown \/ Close \/ Crash \/ Restart

Next == HandlerStep \/ RunStep \/ ServerStep \/ Tick

Spec == Init /\ [][Next]_vars

\* Time passes, PostgreSQL answers, the deployment restarts the pod, and a
\* cancellation that is due is delivered.  A node owes nobody an end:
\* Step is not fair.
Fairness ==
  /\ WF_vars(Tick) /\ WF_vars(Restart)
  /\ \A i \in Incidents : WF_vars(Persist(i))
  /\ \A r \in Runs : WF_vars(TimesOut(r)) /\ WF_vars(Cancelled(r))

FairSpec == Spec /\ Fairness

-----------------------------------------------------------------------------
Reservations == [by : Deliveries \cup {Free}, age : 0..(TTL + 1)]
ApprovalStates ==
  [step : {"idle", "refused", "checked", "accepted"}, on : Deliveries \cup {Free},
   answer : Answers]
RunStates ==
  [state : {"none", "live", "over"}, age : Nat, at : Checkpoints, answer : Answers,
   acting : BOOLEAN]

\* The variables hold what the runner and the API keep.
TypeOK ==
  /\ server \in {"up", "stopping", "draining", "closed", "down"}
  /\ open \in 0..Len(ExitStack) /\ pending \subseteq Runs
  /\ index \in [Prints -> Reservations]
  /\ delivery \in [Deliveries -> {"idle", "admitted", "answered", "scheduled"}]
  /\ approval \in [Approvals -> ApprovalStates]
  /\ run \in [Runs -> RunStates]
  /\ saved \in [Incidents -> SUBSET Checkpoints]
  /\ unsaved \in [Incidents -> Seq(Checkpoints)]
  /\ drained \in 0..DrainLimit /\ restarts \in 0..MaxRestarts
  /\ acted \in [Incidents -> Nat] /\ consented \subseteq Incidents /\ cut \subseteq Incidents

Accepted(i) == {a \in Approvals : approval[a].step = "accepted" /\ approval[a].on = i}

\* Layer 2 deduplication: however deliveries, pauses and time interleave, no two first
\* runs of one fingerprint are at work at the same time.
OneInvestigationPerAlert ==
  \A d, e \in Deliveries :
    Live(d) /\ Live(e) /\ PrintOf[d] # Unprinted /\ PrintOf[d] = PrintOf[e] => d = e

\* Whatever races, crashes and stale checkpoints a run starts from, an action that needs
\* consent reaches the managed system only on an accepted "yes" for that incident.
ActsOnConsent ==
  \A i \in consented : \E a \in Accepted(i) : approval[a].answer = "yes"

\* The attempt cap holds across restarts and resumed runs: an incident acts more often
\* than max_action_attempts only if more than one approval was accepted for it.
AttemptCapPerDecision ==
  \A i \in Incidents :
    acted[i] <= MaxTries * (IF Accepted(i) = {} THEN 1 ELSE Cardinality(Accepted(i)))

Started(i) == delivery[i] = "scheduled"
Ended(i) == \E s \in saved[i] : s.at = "end"
Waiting(i) == \E s \in saved[i] : Awaiting(s)

\* An incident nobody works on and nobody can answer is one whose run was cut short; no
\* sequence of resumes, pauses and duplicate approvals strands it.
StrandedOnlyByACut ==
  \A i \in Incidents :
    Started(i) /\ RunsOf(i) = {} /\ ~Ended(i) /\ ~Waiting(i) => i \in cut

AtWork ==
  Handling \/ (\E r \in Runs : Live(r)) \/ (\E i \in Incidents : unsaved[i] # <<>>)

\* lifespan closes the checkpointer, the pools and the clients only when no handler, run
\* or checkpoint underway can need them any more: the order of its callbacks puts the
\* drain first, and no task is made after the drain looked at the tasks there are.
ResourcesOutliveTheirUsers == AtWork => \A resource \in InUse : IsOpen(resource)

\* The wall clock bounds every run, whether or not its nodes ever return.
EveryRunEnds == \A r \in Runs : Live(r) ~> ~Live(r)

-----------------------------------------------------------------------------
\* The inductive strengthening of the invariants above, one part per concern.

\* A task of a delivery or an approval belongs to one that was scheduled or accepted, the
\* latter for an incident there is.
OwnerInv ==
  /\ \A d \in Deliveries : Live(d) => delivery[d] = "scheduled"
  /\ \A a \in Approvals :
       /\ approval[a].step \in {"checked", "accepted"} =>
            approval[a].on \in Incidents /\ approval[a].answer \in {"yes", "no"}
       /\ Live(a) => approval[a].step = "accepted"

\* Nothing is closed before the drain is over.
Closed == server \in {"closed", "down"} \/ open < Len(ExitStack)
\* A checkpoint underway is that of a task of a given set.
WrittenBy(tasks) ==
  \A i \in Incidents : unsaved[i] # <<>> => \E r \in tasks : Begun(r) /\ IncidentOf(r) = i
\* The drain waits for every task there is; no handler outlives its beginning, no task and
\* no checkpoint its end.
ServerInv ==
  /\ server # "up" => restarts < MaxRestarts
  /\ server \in {"up", "stopping"} => open = Len(ExitStack)
  /\ server \in {"draining", "closed", "down"} => ~Handling
  /\ server = "draining" => open > 0 /\ (\A r \in Runs : Live(r) => r \in pending)
                                     /\ WrittenBy(pending)
  /\ Closed => (\A r \in Runs : ~Live(r)) /\ (\A i \in Incidents : unsaved[i] = <<>>)
  /\ \A a \in Approvals : Begun(a) => approval[a].step = "accepted"
  /\ WrittenBy(Runs)

\* The reservation of a first run at work is its own and no older than the run.
IndexInv ==
  \A d \in Deliveries :
    Live(d) /\ PrintOf[d] # Unprinted =>
      /\ index[PrintOf[d]].by = d
      /\ index[PrintOf[d]].age <= run[d].age
      /\ run[d].age <= FirstLimit

\* An answer a run carries is the one its approval gave.
AnswerInv ==
  \A r \in Runs :
    Live(r) /\ run[r].answer # "unset" => r \in Approvals /\ run[r].answer = approval[r].answer

SaidYes(i) == \E a \in Accepted(i) : approval[a].answer = "yes"

\* A checkpoint of i: consent on record was given, and execute is not reached without it.
Consented(i, s) ==
  /\ s.granted = "yes" => SaidYes(i)
  /\ s.at = "execute" /\ s.needs => s.granted = "yes"

\* Every checkpoint is of that kind: those of the runs, those underway, and the saved ones.
ConsentInv ==
  /\ \A r \in Runs : Live(r) => Consented(IncidentOf(r), run[r].at)
  /\ \A i \in Incidents :
       /\ \A s \in saved[i] : Consented(i, s)
       /\ \A k \in DOMAIN unsaved[i] : Consented(i, unsaved[i][k])

\* The checkpoint written last.
Newest(i) == IF unsaved[i] = <<>> THEN saved[i] ELSE {unsaved[i][Len(unsaved[i])]}

\* The checkpoint written last is where a run stands, or the end, or a pause; and runs
\* that are over left nothing unsaved.
Course(i) ==
  /\ \E s \in Newest(i) :
       (\E r \in RunsOf(i) : run[r].at = s) \/ s.at = "end" \/ Awaiting(s)
  /\ RunsOf(i) = {} => unsaved[i] = <<>>

\* No run of the incident was cut: the others keep it on its course.
CourseInv == \A i \in Incidents : Started(i) /\ i \notin cut => Course(i)

\* Consent is open at approve and nowhere else; an attempt underway was there to be made.
AwaitsThere(s) == Awaiting(s) => s.at = "approve"
PlaceInv ==
  /\ \A r \in Runs :
       Live(r) => AwaitsThere(run[r].at) /\ (run[r].acting => TriesLeft(run[r].at))
  /\ \A i \in Incidents :
       /\ \A s \in saved[i] : AwaitsThere(s)
       /\ \A k \in DOMAIN unsaved[i] : AwaitsThere(unsaved[i][k])

\* An approval of i could be accepted, or one was.
Asked(i) ==
  \/ Waiting(i)
  \/ \E a \in Approvals : approval[a].step \in {"checked", "accepted"} /\ approval[a].on = i

\* The attempts a run has made, those before it was resumed included.
Reached(r) == run[r].at.tries + (IF run[r].acting THEN 1 ELSE 0)
Paused(i) == Live(i) => Awaiting(run[i].at) /\ ~run[i].acting

\* Until then the first run alone acts, and a pause it wrote counts all its actions.
BeforeAsked(i) ==
  /\ acted[i] <= MaxTries /\ (Live(i) => acted[i] <= Reached(i))
  /\ \A k \in DOMAIN unsaved[i] :
       Awaiting(unsaved[i][k]) =>
         Paused(i) /\ \A j \in DOMAIN unsaved[i] : j >= k => acted[i] <= unsaved[i][j].tries

\* The attempts past the t-th that the resumed runs of i may have made.
Used(i, t) ==
  {x \in Accepted(i) \X ((t + 1)..MaxTries) : Live(x[1]) => x[2] <= Reached(x[1])}

\* From then on the first run rests, and the others start from checkpoints that count the
\* t attempts before the pause.
Resting(i, t) ==
  /\ acted[i] <= t + Cardinality(Used(i, t)) /\ Paused(i)
  /\ \A r \in RunsOf(i) : t <= run[r].at.tries
  /\ \A s \in saved[i] : t <= s.tries
  /\ \A k \in DOMAIN unsaved[i] : t <= unsaved[i][k].tries
OnceAsked(i) == \E t \in 0..MaxTries : Resting(i, t)

Untouched(i) == acted[i] = 0 /\ ~Asked(i) /\ unsaved[i] = <<>>

\* The strengthening of AttemptCapPerDecision: what holds once an incident was asked about
\* goes on holding when the approval is refused after all.
CapInv ==
  /\ PlaceInv
  /\ \A i \in Incidents :
       /\ ~Started(i) => Untouched(i)
       /\ OnceAsked(i) \/ (~Asked(i) /\ BeforeAsked(i))

RInv ==
  /\ TypeOK /\ OwnerInv /\ ServerInv /\ IndexInv
  /\ AnswerInv /\ ConsentInv /\ ActsOnConsent /\ CourseInv

-----------------------------------------------------------------------------
\* agents/README.md: a pod that crashed mid-investigation resumes after a restart.
MidInvestigation(i) == Started(i) /\ ~Ended(i) /\ ~Waiting(i)
CrashResumes ==
  \A i \in Incidents : (server = "down" /\ MidInvestigation(i)) ~> (RunsOf(i) # {} \/ Ended(i))
=============================================================================
