--------------------------- MODULE TerminateBackend ---------------------------
(***************************************************************************)
(* terminate_backend of tools/postgres.py, with a PID and without one, as  *)
(* calls of several incidents run it against the same server.  A call      *)
(* holds one connection of the agent's pool and runs in one transaction:   *)
(* select, terminate one after the other, sleep, look again, report.       *)
(* Between its statements the sessions of the server go on: they work,     *)
(* leave, and a later session may get the PID of an earlier one.           *)
(*                                                                         *)
(* pg_stat_activity may answer the second look from what the transaction   *)
(* saw at the first (PostgreSQL keeps it until the transaction ends), or,  *)
(* on a pool that commits every statement, from the present: both are      *)
(* allowed here.                                                           *)
(***************************************************************************)
EXTENDS Integers, FiniteSets

CONSTANTS
  Pids,      \* process ids of the server
  Calls,     \* calls of the tool
  PidOf,     \* Calls -> Pids: the backend of the connection a call holds
  Roles,     \* roles of the other sessions, out of "app", "super" and "none"
  MaxKills,  \* _MAX_AUTO_TERMINATE
  MaxBorn    \* bound: sessions that get one PID

ASSUME BackendAssumption ==
  /\ IsFiniteSet(Pids) /\ PidOf \in [Calls -> Pids]
  /\ \A c, d \in Calls : PidOf[c] = PidOf[d] => c = d
  /\ Roles \subseteq {"app", "super", "none"} /\ Roles # {}
  /\ MaxKills \in Nat \ {0} /\ MaxBorn \in Nat \ {0}

VARIABLES
  backend,  \* Pids -> [born, role, state, hit]: pg_stat_activity; born is backend_start
  call      \* Calls -> [step, auto, marked, todo, aborted, verified]

vars == <<backend, call>>

-----------------------------------------------------------------------------
AgentPids == {PidOf[c] : c \in Calls}
Alive(p) == backend[p].state # "gone"

\* marked: the identities selected, PID -> backend_start; todo: those not tried yet.  Which
\* signals PostgreSQL confirmed (terminated_pids) is reported and decides nothing.
Idle == [step |-> "idle", auto |-> FALSE, marked |-> <<>>, todo |-> {}, aborted |-> FALSE,
         verified |-> FALSE]

Init ==
  /\ \E role \in [Pids -> Roles], state \in [Pids -> {"active", "idleTx"}] :
       backend = [p \in Pids |->
         IF p \in AgentPids THEN [born |-> 1, role |-> "agent", state |-> "idle", hit |-> FALSE]
         ELSE [born |-> 1, role |-> role[p], state |-> state[p], hit |-> FALSE]]
  /\ call = [c \in Calls |-> Idle]

-----------------------------------------------------------------------------
\* The server.

\* A session goes on with its work.
Works(p) ==
  /\ p \notin AgentPids /\ Alive(p)
  /\ \E state \in {"active", "idle", "idleTx"} \ {backend[p].state} :
       backend' = [backend EXCEPT ![p].state = state]
  /\ UNCHANGED call

\* A session ends, by itself or because it was signalled.
Leaves(p) ==
  /\ Alive(p) /\ p \in AgentPids => backend[p].hit
  /\ backend' = [backend EXCEPT ![p].state = "gone", ![p].hit = FALSE]
  /\ UNCHANGED call

\* A new session gets a PID that was used before.
Connects(p) ==
  /\ p \notin AgentPids /\ ~Alive(p) /\ backend[p].born < MaxBorn
  /\ \E role \in Roles :
       backend' = [backend EXCEPT ![p] =
         [born |-> @.born + 1, role |-> role, state |-> "active", hit |-> FALSE]]
  /\ UNCHANGED call

-----------------------------------------------------------------------------
\* The connection of a call is open and its transaction has not failed.
Usable(c) == Alive(PidOf[c]) /\ ~call[c].aborted

\* What the server shows of a call's own backend between two statements, and after them.
Holding(c, b) == IF Alive(PidOf[c]) THEN [b EXCEPT ![PidOf[c]].state = "idleTx"] ELSE b
Released(c, b) == IF Alive(PidOf[c]) THEN [b EXCEPT ![PidOf[c]].state = "idle"] ELSE b

Returns(c, verified) ==
  /\ call' = [call EXCEPT ![c] = [Idle EXCEPT !.step = "returned", !.verified = verified]]
  /\ backend' = Released(c, backend)
Raises(c) ==
  /\ call' = [call EXCEPT ![c] = [Idle EXCEPT !.step = "raised"]]
  /\ backend' = Released(c, backend)

Mark(c, auto, S) ==
  /\ call' = [call EXCEPT ![c] = [Idle EXCEPT !.step = "terminating", !.auto = auto, !.todo = S,
                                              !.marked = [p \in S |-> backend[p].born]]]
  /\ backend' = Holding(c, backend)

\* _terminate_backend with a PID: nobody there, a session it must not touch, or its target.
Protected(c, p) == p = PidOf[c] \/ backend[p].role \in {"super", "none"}
SelectPid(c, p) ==
  /\ call[c].step = "idle"
  /\ \/ ~Alive(p) /\ Returns(c, TRUE)
     \/ Alive(p) /\ Protected(c, p) /\ Raises(c)
     \/ Alive(p) /\ ~Protected(c, p) /\ Mark(c, FALSE, {p})

\* _terminate_idle_in_transaction: the candidates, at most _MAX_AUTO_TERMINATE of them.
\* Nothing sets application_name, so the agent's other connections are among them.
Candidates(c) ==
  {p \in Pids : backend[p].state = "idleTx" /\ p # PidOf[c] /\ backend[p].role # "none"}
SelectIdle(c) ==
  /\ call[c].step = "idle"
  /\ \/ Candidates(c) = {} /\ Returns(c, TRUE)
     \/ \E S \in SUBSET Candidates(c) \ {{}} :
          /\ Cardinality(S) <= MaxKills
          /\ Cardinality(S) < MaxKills => S = Candidates(c)
          /\ Mark(c, TRUE, S)

\* The first statement fails: the connection was lost before it.
SelectFails(c) == call[c].step = "idle" /\ ~Usable(c) /\ Raises(c)

\* pg_terminate_backend(pid) answers: whoever has the PID by now gets the signal.
Signals(c, p) ==
  /\ call[c].step = "terminating" /\ p \in call[c].todo /\ Usable(c)
  /\ call' = [call EXCEPT ![c].todo = @ \ {p}]
  /\ backend' = IF Alive(p) THEN [backend EXCEPT ![p].hit = TRUE] ELSE backend

\* It raises: PostgreSQL refuses, which fails the transaction, or it had failed before.
\* With a PID the tool raises; without one it logs and goes on.
SignalFails(c, p) ==
  /\ call[c].step = "terminating" /\ p \in call[c].todo
  /\ Usable(c) => Alive(p) /\ backend[p].role # "agent"
  /\ \/ ~call[c].auto /\ Raises(c)
     \/ /\ call[c].auto
        /\ call' = [call EXCEPT ![c].todo = @ \ {p}, ![c].aborted = TRUE]
        /\ UNCHANGED backend

\* Mutant: a session that is no longer idle in a transaction is taken for gone.
StillIdle(c, p) == backend[p].state = "idleTx"
\* The second look, at the present: with a PID the identity counts, without one the state.
StillThere(c, p) ==
  IF call[c].auto THEN backend[p].state = "idleTx"
  ELSE Alive(p) /\ backend[p].born = call[c].marked[p]

Asleep(c) == call[c].step = "terminating" /\ call[c].todo = {}
Marked(c) == DOMAIN call[c].marked

Recheck(c) ==
  /\ Asleep(c) /\ Usable(c)
  /\ \/ Returns(c, \A p \in Marked(c) : ~StillThere(c, p))
     \/ Returns(c, FALSE)   \* from what the transaction saw first: all still there

\* The query fails: with a PID the tool raises; without one nothing is found still there.
RecheckFails(c) ==
  /\ Asleep(c) /\ ~Usable(c)
  /\ IF call[c].auto THEN Returns(c, TRUE) ELSE Raises(c)

CallStep(c) ==
  \/ SelectIdle(c) \/ SelectFails(c) \/ Recheck(c) \/ RecheckFails(c)
  \/ \E p \in Pids : SelectPid(c, p) \/ Signals(c, p) \/ SignalFails(c, p)

ServerStep == \E p \in Pids : Works(p) \/ Leaves(p) \/ Connects(p)

Next == ServerStep \/ \E c \in Calls : CallStep(c)

Spec == Init /\ [][Next]_vars

-----------------------------------------------------------------------------
Backends == [born : 1..MaxBorn, role : Roles \cup {"agent"},
             state : {"gone", "active", "idle", "idleTx"}, hit : BOOLEAN]
CallStates == [step : {"idle", "terminating", "returned", "raised"}, auto : BOOLEAN,
               marked : UNION {[S -> 1..MaxBorn] : S \in SUBSET Pids},
               todo : SUBSET Pids, aborted : BOOLEAN, verified : BOOLEAN]

\* The variables hold what the server and the calls keep; a call in its first statement
\* or done holds nothing, and it signals only what it selected.
TypeOK ==
  /\ backend \in [Pids -> Backends] /\ call \in [Calls -> CallStates]
  /\ \A c \in Calls :
       /\ call[c].todo \subseteq Marked(c)
       /\ call[c].step # "terminating" => Marked(c) = {}

\* c reports success on what it selected.
ReportsVerified(c) ==
  call[c].step = "terminating" /\ call'[c].step = "returned" /\ call'[c].verified

Cleared(c) ==
  \A p \in Marked(c) :
    /\ call[c].auto => backend[p].state # "idleTx"
    /\ ~call[c].auto => ~Alive(p) \/ backend[p].born # call[c].marked[p]

\* A call whose transaction holds reports success only when what it selected is gone: the
\* session itself with a PID, whoever reused that PID; idle transactions without one.
VerifiedIsTrue == [][\A c \in Calls : ReportsVerified(c) /\ Usable(c) => Cleared(c)]_vars

\* tools/postgres.py: terminate_backend rechecks before it reports verification success,
\* and one session it cannot kill does not abort the batch.
RechecksBeforeSuccess == [][\A c \in Calls : ReportsVerified(c) => Cleared(c)]_vars
=============================================================================
