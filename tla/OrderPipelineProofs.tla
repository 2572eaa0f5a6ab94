-------------------------- MODULE OrderPipelineProofs --------------------------
(***************************************************************************)
(* Proofs about OrderPipeline: the inductive invariant PInv, the safety    *)
(* properties that follow from it, and that the pipeline implements        *)
(* OrderBook, for any number of attempts, entries, skus and pods and any   *)
(* budget of faults, restarts and delays.                                  *)
(***************************************************************************)
EXTENDS OrderPipeline, SequenceTheorems, TLAPS

Graves == [entry : Events \cup {NoOne}, next : {"none", "add", "ack"}]

-----------------------------------------------------------------------------
\* Lemmas about the commands and helpers the actions are built from.

\* XADD adds its entry at the end of the stream.
LEMMA Appended ==
  ASSUME StoreTypeOK, NEW e \in Events, XAdd(e)
  PROVE  /\ stream' \in Seq(Events) /\ Len(stream') = Len(stream) + 1
         /\ DOMAIN stream = 1..Len(stream) /\ DOMAIN stream' = 1..(Len(stream) + 1)
         /\ \A i \in 1..Len(stream) : stream'[i] = stream[i]
         /\ stream'[Len(stream) + 1] = e
         /\ \A x : Published(x)' <=> Published(x) \/ x = e
<1>1. /\ stream' \in Seq(Events) /\ Len(stream') = Len(stream) + 1
      /\ DOMAIN stream = 1..Len(stream) /\ DOMAIN stream' = 1..(Len(stream) + 1)
      /\ \A i \in 1..Len(stream) : stream'[i] = stream[i]
      /\ stream'[Len(stream) + 1] = e /\ Len(stream) \in Nat
  BY DEF StoreTypeOK, XAdd
<1>2. \A x : Published(x)' <=> Published(x) \/ x = e
  BY <1>1 DEF Published
<1> QED BY <1>1, <1>2

\* The items of a channel after its first was taken.
LEMMA TailItems ==
  ASSUME NEW S, NEW s \in Seq(S), s # <<>>, NEW i \in DOMAIN Tail(s)
  PROVE  i + 1 \in DOMAIN s /\ Tail(s)[i] = s[i + 1]
<1>1. Len(s) \in Nat \ {0} /\ DOMAIN s = 1..Len(s)
  OBVIOUS
<1>2. Len(Tail(s)) = Len(s) - 1 /\ DOMAIN Tail(s) = 1..(Len(s) - 1)
  BY <1>1
<1> QED BY <1>1, <1>2

\* What a loop hands on, or holds for the dead-letter stream, has its type.
LEMMA HoldType ==
  ASSUME WorkerTypeOK, NEW w \in Workers, NEW l \in Loops, NEW h \in Graves, Hold(w, l, h)
  PROVE  burying' \in [Workers -> [Loops -> Graves]]
BY DEF WorkerTypeOK, Hold, Graves

\* A loop that takes an entry to bury changes what that loop holds and nothing else.
LEMMA HoldOne ==
  ASSUME WorkerTypeOK, NEW w \in Workers, NEW l \in Loops, NEW h, Hold(w, l, h)
  PROVE  \A v \in Workers, k \in Loops :
           burying'[v][k] = IF v = w /\ k = l THEN h ELSE burying[v][k]
BY DEF WorkerTypeOK, Hold

\* Handing a message to the processor, or to the dead-letter path, keeps the types.
LEMMA DeliverType ==
  ASSUME WorkerTypeOK, NEW w \in Workers, NEW l \in Loops, NEW e \in Events, NEW count,
         Deliver(w, l, e, count)
  PROVE  /\ inbox' \in [Workers -> Seq(Attempts)]
         /\ burying' \in [Workers -> [Loops -> Graves]]
         /\ tries' \in [Events -> Nat]
<1>1. CASE Unreadable(e) \/ Exhausted(count)
  <2>1. [entry |-> e, next |-> "add"] \in Graves
    BY DEF Graves
  <2>2. Hold(w, l, [entry |-> e, next |-> "add"]) /\ UNCHANGED <<inbox, tries>>
    BY <1>1 DEF Deliver
  <2> QED BY <2>1, <2>2, HoldType DEF WorkerTypeOK
<1>2. CASE ~(Unreadable(e) \/ Exhausted(count))
  <2>1. e \in Attempts
    BY <1>2 DEF Unreadable, Events
  <2>2. /\ inbox' = [inbox EXCEPT ![w] = Append(@, e)]
        /\ tries' = [tries EXCEPT ![e] = @ + 1] /\ UNCHANGED burying
    BY <1>2 DEF Deliver
  <2>3. Append(inbox[w], e) \in Seq(Attempts)
    BY <2>1 DEF WorkerTypeOK
  <2> QED BY <2>2, <2>3 DEF WorkerTypeOK, Graves
<1> QED BY <1>1, <1>2

\* Putting an entry under a consumer's name keeps the types.
LEMMA AssignType ==
  ASSUME StoreTypeOK, NEW w \in Workers, NEW e \in Events, NEW count \in Nat, Assign(e, w, count)
  PROVE  /\ pending' \subseteq Events /\ owner' \in [Events -> Workers \cup {NoOne}]
         /\ deliveries' \in [Events -> Nat]
BY DEF StoreTypeOK, Assign

\* Giving up row locks keeps the type of the locks.
LEMMA UnlockType ==
  ASSUME StoreTypeOK, NEW w \in Workers, Unlock(w)
  PROVE  lock' \in [Skus -> Workers \cup {NoOne}]
BY DEF StoreTypeOK, Unlock

\* Spending a fault of the budget, or none, leaves a natural number.
LEMMA FaultType ==
  ASSUME StoreTypeOK, Fault \/ NoFault
  PROVE  faults' \in Nat
BY DEF StoreTypeOK, Fault, NoFault

\* The attempt in process, while there is one.
LEMMA InProcess ==
  ASSUME TypeOK, InHandInv, NEW w \in Workers, stage[w] # "idle"
  PROVE  /\ current[w] \in Attempts /\ Published(current[w])
         /\ SkuOf[current[w]] \in Skus /\ Quantity[current[w]] \in Nat \ {0}
BY StoreAssumption DEF TypeOK, WorkerTypeOK, InHandInv

-----------------------------------------------------------------------------
\* Workers never write to the stream, the gateway to nothing else of the store's.
LEMMA CheckoutFrame ==
  ASSUME PInv, CheckoutStep
  PROVE  /\ UNCHANGED <<groupVars, dlq, tableVars, restarts, delays>>
         /\ \/ UNCHANGED stream
            \/ \E e \in Events : ~Published(e) /\ XAdd(e)
<1>1. ASSUME NEW a \in Attempts, Claim(a) \/ PreCheck(a) \/ Release(a) \/ GatewayDies(a)
      PROVE  UNCHANGED <<stream, groupVars, dlq, tableVars, restarts, delays>>
  BY <1>1 DEF Claim, PreCheck, Release, GatewayDies
<1>2. ASSUME NEW a \in Attempts, Publish(a)
      PROVE  /\ UNCHANGED <<groupVars, dlq, tableVars, restarts, delays>>
             /\ UNCHANGED stream \/ (XAdd(a) /\ ~Published(a))
  BY <1>2 DEF Publish, PInv, ClaimInv
<1>3. CASE ForeignPublish
  BY <1>3 DEF ForeignPublish, Events
<1> QED BY <1>1, <1>2, <1>3 DEF CheckoutStep, Events

\* No step of a pod adds to the stream, and only a read moves the group's cursor.
LEMMA WorkerFrame ==
  ASSUME WorkerStep
  PROVE  UNCHANGED stream /\ (UNCHANGED cursor \/ \E w \in Workers : Read(w))
<1> USE DEF groupVars
<1>1. ASSUME NEW w \in Workers, Read(w)
      PROVE  UNCHANGED stream
  BY <1>1 DEF Read
<1>2. ASSUME NEW w \in Workers, Reclaim(w) \/ ListLate(w) \/ ClaimLate(w)
      PROVE  UNCHANGED <<stream, cursor>>
  BY <1>2 DEF Reclaim, ListLate, ClaimLate
<1>3. ASSUME NEW w \in Workers, NEW l \in Loops, DeadLetterAdd(w, l) \/ DeadLetterAck(w, l)
      PROVE  UNCHANGED <<stream, cursor>>
  BY <1>3 DEF DeadLetterAdd, DeadLetterAck, XAck
<1>4. ASSUME NEW w \in Workers, Take(w) \/ Deduct(w) \/ Insert(w)
      PROVE  UNCHANGED <<stream, cursor>>
  BY <1>4 DEF Take, Deduct, Insert, storeVars
<1>5. ASSUME NEW w \in Workers, Commit(w) \/ GiveUp(w) \/ Ack(w)
      PROVE  UNCHANGED <<stream, cursor>>
  BY <1>5 DEF Commit, GiveUp, GivenUp, Ack, XAck
<1>6. ASSUME NEW w \in Workers, Start(w) \/ Drain(w) \/ Die(w)
      PROVE  UNCHANGED <<stream, cursor>>
  BY <1>6 DEF Start, Drain, Die, storeVars
<1> QED
  BY <1>1, <1>2, <1>3, <1>4, <1>5, <1>6 DEF WorkerStep, LoopStep, ProcessorStep, PodStep

-----------------------------------------------------------------------------
\* The initial state.
LEMMA InitInv == Init => PInv
<1> SUFFICES ASSUME Init
             PROVE  PInv
  OBVIOUS
<1> USE StoreAssumption, CheckoutAssumption, WorkerAssumption, BudgetAssumption
    DEF Init, StoreInit, CheckoutInit, WorkerInit
<1>1. StoreTypeOK
  BY DEF StoreTypeOK, Events
<1>2. CheckoutTypeOK
  BY DEF CheckoutTypeOK
<1>3. WorkerTypeOK
  BY DEF WorkerTypeOK, Nothing, Unlisted, Events
<1>4. stream = <<>> /\ ~\E e : Published(e)
  BY DEF Published
<1>5. ClaimInv
  BY <1>4 DEF ClaimInv, Holds
<1>6. StreamInv
  BY <1>4 DEF StreamInv
<1>7. InHandInv
  BY DEF InHandInv, Nothing
<1>8. BookingInv
  BY DEF BookingInv, Nothing
<1>9. TriesInv
  BY DEF TriesInv, TriesCapped
<1>10. NothingLost
  BY DEF NothingLost
<1> QED BY <1>1, <1>2, <1>3, <1>5, <1>6, <1>7, <1>8, <1>9, <1>10 DEF PInv, TypeOK

-----------------------------------------------------------------------------
\* Every variable keeps its type.
LEMMA CheckoutTypeStep ==
  ASSUME PInv, CheckoutStep /\ UNCHANGED workerVars
  PROVE  TypeOK'
<1> USE DEF PInv, TypeOK
<1>1. StoreTypeOK'
  <2>1. stream' \in Seq(Events) /\ cursor' \in 0..Len(stream')
    <3>1. CASE UNCHANGED stream
      BY <3>1, CheckoutFrame DEF StoreTypeOK, groupVars
    <3>2. ASSUME NEW e \in Events, XAdd(e)
          PROVE  stream' \in Seq(Events) /\ cursor' \in 0..Len(stream')
      <4>1. stream \in Seq(Events) /\ cursor \in 0..Len(stream) /\ cursor' = cursor
        BY CheckoutFrame DEF StoreTypeOK, groupVars
      <4>2. Len(stream) \in Nat
        BY <4>1
      <4>3. stream' \in Seq(Events) /\ Len(stream') = Len(stream) + 1
        BY <3>2, <4>1, Appended
      <4> HIDE DEF PInv, TypeOK
      <4> QED BY <4>1, <4>2, <4>3
    <3> QED BY <3>1, <3>2, CheckoutFrame
  <2>2. faults' \in Nat
    BY FaultType
    DEF CheckoutStep, Claim, PreCheck, Release, Publish, GatewayDies, ForeignPublish, StoreTypeOK
  <2> QED BY <2>1, <2>2, CheckoutFrame DEF StoreTypeOK, groupVars, tableVars
<1>2. CheckoutTypeOK'
  <2>1. ASSUME NEW a \in Attempts, Claim(a) \/ PreCheck(a) \/ Release(a) \/ Publish(a) \/ GatewayDies(a)
        PROVE  CheckoutTypeOK'
    <3>1. claims' \in {claims, claims \cup {KeyOf[a]}, claims \ {KeyOf[a]}}
      BY <2>1 DEF Claim, PreCheck, Release, Publish, GatewayDies
    <3>2. \E next \in {"claimed", "checked", "releasing", "accepted", "rejected", "failed"} :
            Advance(a, next)
      BY <2>1 DEF Claim, PreCheck, Release, Publish, GatewayDies, AfterFailedPublish
    <3>3. progress' \in [Attempts -> {"new", "claimed", "checked", "releasing", "accepted",
                                      "rejected", "failed"}]
      BY <3>2 DEF Advance, CheckoutTypeOK
    <3> QED BY <3>1, <3>3 DEF CheckoutTypeOK
  <2>2. CASE ForeignPublish
    BY <2>2 DEF ForeignPublish, checkoutVars, CheckoutTypeOK
  <2> QED BY <2>1, <2>2 DEF CheckoutStep
<1>3. WorkerTypeOK'
  BY DEF workerVars, loopVars, processorVars, WorkerTypeOK
<1> QED BY <1>1, <1>2, <1>3

\* The read and reclaim loops and the dead-letter path keep the types.
LEMMA LoopTypeStep ==
  ASSUME PInv, NEW w \in Workers, LoopStep(w), UNCHANGED checkoutVars
  PROVE  TypeOK'
<1> USE DEF PInv, TypeOK, groupVars, tableVars, processorVars, loopVars
<1>0. CheckoutTypeOK'
  BY DEF checkoutVars, CheckoutTypeOK
<1>a. "read" \in Loops /\ "reclaim" \in Loops
  BY DEF Loops
<1>1. CASE Read(w)
  <2>1. /\ stream[cursor + 1] \in Events /\ cursor' \in 0..Len(stream) /\ UNCHANGED stream
    BY <1>1 DEF Read, StoreTypeOK
  <2>2. StoreTypeOK'
    BY <1>1, <2>1, AssignType, FaultType DEF Read, StoreTypeOK, AnswerLost
  <2>3. /\ inbox' \in [Workers -> Seq(Attempts)] /\ burying' \in [Workers -> [Loops -> Graves]]
        /\ tries' \in [Events -> Nat]
    BY <1>1, <1>a, <2>1, DeliverType DEF Read, AnswerLost, WorkerTypeOK, Graves
  <2> QED BY <1>0, <1>1, <2>2, <2>3 DEF Read, WorkerTypeOK, Graves
<1>2. ASSUME NEW e \in Events, NEW count \in Nat, Claimed(w, e, count),
             UNCHANGED <<pod, processorVars, stream, cursor, dlq, tableVars, restarts>>,
             listed' \in {listed, [listed EXCEPT ![w] = Unlisted]}
      PROVE  TypeOK'
  <2>1. delays' \in Nat
    BY <1>2 DEF Claimed, TurnsIdle, StoreTypeOK
  <2>2. /\ pending' \subseteq Events /\ owner' \in [Events -> Workers \cup {NoOne}]
        /\ deliveries' \in [Events -> Nat]
    <3>1. Assign(e, w, deliveries[e] + 1) /\ deliveries[e] + 1 \in Nat
      BY <1>2 DEF Claimed, StoreTypeOK
    <3> QED BY <3>1, AssignType
  <2>3. StoreTypeOK'
    BY <1>2, <2>1, <2>2, FaultType DEF Claimed, StoreTypeOK, AnswerLost
  <2>4. /\ inbox' \in [Workers -> Seq(Attempts)] /\ burying' \in [Workers -> [Loops -> Graves]]
        /\ tries' \in [Events -> Nat]
    BY <1>2, <1>a, DeliverType DEF Claimed, AnswerLost, WorkerTypeOK, Graves
  <2>5. late' \in [Events -> Nat]
    BY <1>2 DEF Claimed, WorkerTypeOK
  <2>6. listed' \in [Workers -> [entry : Events \cup {NoOne}, count : Nat]]
    <3>1. CASE listed' = listed
      BY <3>1 DEF WorkerTypeOK
    <3>2. CASE listed' = [listed EXCEPT ![w] = Unlisted]
      BY <3>2 DEF WorkerTypeOK, Unlisted
    <3> QED BY <1>2, <3>1, <3>2
  <2> QED BY <1>0, <1>2, <2>3, <2>4, <2>5, <2>6 DEF WorkerTypeOK, Graves
<1>3. CASE Reclaim(w)
  <2>1. PICK e \in pending : Claimed(w, e, deliveries[e])
    BY <1>3 DEF Reclaim
  <2>2. e \in Events /\ deliveries[e] \in Nat
    BY DEF StoreTypeOK
  <2> QED BY <1>2, <1>3, <2>1, <2>2 DEF Reclaim
<1>4. CASE ListLate(w)
  <2>1. PICK e \in pending : listed' = [listed EXCEPT ![w] = [entry |-> e, count |-> deliveries[e]]]
    BY <1>4 DEF ListLate
  <2>2. listed' \in [Workers -> [entry : Events \cup {NoOne}, count : Nat]]
    BY <2>1 DEF WorkerTypeOK, StoreTypeOK
  <2>3. delays' \in Nat /\ UNCHANGED <<pod, inbox, burying, tries, late, processorVars, stream,
                                       groupVars, dlq, tableVars, faults, restarts>>
    BY <1>4 DEF ListLate, StoreTypeOK
  <2> QED BY <1>0, <2>2, <2>3 DEF StoreTypeOK, WorkerTypeOK
<1>5. CASE ClaimLate(w)
  <2> DEFINE e == listed[w].entry
  <2>1. listed' = [listed EXCEPT ![w] = Unlisted]
    BY <1>5 DEF ClaimLate
  <2>2. CASE e \in pending /\ Claimed(w, e, listed[w].count)
    <3>1. e \in Events /\ listed[w].count \in Nat
      BY <2>2 DEF StoreTypeOK, WorkerTypeOK
    <3>2. UNCHANGED <<pod, processorVars, stream, cursor, dlq, tableVars, restarts>>
      BY <1>5 DEF ClaimLate
    <3> HIDE DEF e
    <3> QED BY <1>2, <2>1, <2>2, <3>1, <3>2
  <2>3. CASE UNCHANGED <<inbox, burying, tries, late, groupVars, faults, delays>>
    <3>1. listed' \in [Workers -> [entry : Events \cup {NoOne}, count : Nat]]
      BY <2>1 DEF WorkerTypeOK, Unlisted
    <3>2. UNCHANGED <<pod, processorVars, stream, cursor, dlq, tableVars, restarts>>
      BY <1>5 DEF ClaimLate
    <3> QED BY <1>0, <2>3, <3>1, <3>2 DEF StoreTypeOK, WorkerTypeOK
  <2> QED BY <1>5, <2>2, <2>3 DEF ClaimLate
<1>6. ASSUME NEW l \in Loops, DeadLetterAdd(w, l) \/ DeadLetterAck(w, l)
      PROVE  TypeOK'
  <2> DEFINE e == burying[w][l].entry
  <2>1. \E h \in Graves : Hold(w, l, h)
    <3>1. Nothing \in Graves /\ [entry |-> e, next |-> "ack"] \in Graves
      BY DEF Nothing, Graves, WorkerTypeOK
    <3> QED BY <1>6, <3>1 DEF DeadLetterAdd, DeadLetterAck
  <2>2. burying' \in [Workers -> [Loops -> Graves]]
    BY <2>1, HoldType
  <2>3. dlq' \in [Events -> Nat]
    BY <1>6 DEF DeadLetterAdd, DeadLetterAck, StoreTypeOK
  <2>4. /\ pending' \subseteq pending /\ faults' \in Nat
        /\ UNCHANGED <<stream, cursor, owner, deliveries, tableVars, restarts, delays>>
    BY <1>6, FaultType DEF DeadLetterAdd, DeadLetterAck, XAck
  <2>5. UNCHANGED <<pod, inbox, listed, tries, late, processorVars>>
    BY <1>6 DEF DeadLetterAdd, DeadLetterAck
  <2> QED BY <1>0, <2>2, <2>3, <2>4, <2>5 DEF StoreTypeOK, WorkerTypeOK, Graves
<1> QED BY <1>1, <1>3, <1>4, <1>5, <1>6 DEF LoopStep

\* The processor's transaction keeps the types.
LEMMA ProcessorTypeStep ==
  ASSUME PInv, NEW w \in Workers, ProcessorStep(w), UNCHANGED checkoutVars
  PROVE  TypeOK'
<1> USE DEF PInv, TypeOK, groupVars, tableVars, loopVars
<1> DEFINE Stages == {"idle", "deduct", "insert", "commit", "ack_committed", "ack_permanent"}
<1>1. CheckoutTypeOK'
  BY DEF checkoutVars, CheckoutTypeOK
<1>2. CASE Take(w)
  <2>1. Tail(inbox[w]) \in Seq(Attempts) /\ Head(inbox[w]) \in Attempts
    BY <1>2 DEF Take, WorkerTypeOK
  <2>2. /\ inbox' \in [Workers -> Seq(Attempts)] /\ current' \in [Workers -> Attempts \cup {NoOne}]
        /\ stage' \in [Workers -> Stages]
    <3>1. inbox' = [inbox EXCEPT ![w] = Tail(inbox[w])]
      BY <1>2 DEF Take
    <3>2. \/ UNCHANGED <<current, stage>>
          \/ /\ current' = [current EXCEPT ![w] = Head(inbox[w])]
             /\ stage' = [stage EXCEPT ![w] = "deduct"]
      BY <1>2 DEF Take, Reach
    <3>3. WorkerTypeOK
      OBVIOUS
    <3> HIDE DEF PInv, TypeOK
    <3>4. inbox' \in [Workers -> Seq(Attempts)]
      <4>1. inbox \in [Workers -> Seq(Attempts)]
        BY <3>3 DEF WorkerTypeOK
      <4>2. \A v \in Workers : inbox'[v] \in Seq(Attempts)
        BY <2>1, <3>1, <4>1
      <4> QED BY <3>1, <4>1, <4>2
    <3>5. current' \in [Workers -> Attempts \cup {NoOne}] /\ stage' \in [Workers -> Stages]
      <4>1. current \in [Workers -> Attempts \cup {NoOne}] /\ stage \in [Workers -> Stages]
        BY <3>3 DEF WorkerTypeOK
      <4>2. current' \in [Workers -> Attempts \cup {NoOne}]
        BY <2>1, <3>2, <4>1
      <4>3. stage' \in [Workers -> Stages]
        BY <3>2, <4>1
      <4> QED BY <4>2, <4>3
    <3> QED BY <3>4, <3>5
  <2>3. faults' \in Nat
    BY <1>2, FaultType DEF Take
  <2>4. UNCHANGED <<pod, burying, listed, tries, late, dropped, stream, groupVars, dlq, tableVars,
                    restarts, delays>>
    BY <1>2 DEF Take
  <2> QED BY <1>1, <2>2, <2>3, <2>4 DEF StoreTypeOK, WorkerTypeOK
<1>3. CASE Deduct(w) \/ Insert(w) \/ Commit(w) \/ GiveUp(w) \/ Ack(w)
  <2>1. /\ UNCHANGED <<pod, loopVars, stream, cursor, owner, deliveries, dlq, restarts, delays>>
        /\ pending' \subseteq pending /\ faults' \in Nat
    <3>1. pending' \subseteq pending
      BY <1>3 DEF Deduct, Insert, Commit, GiveUp, Ack, storeVars, GivenUp, XAck
    <3>2. faults' \in Nat
      BY <1>3, FaultType DEF Deduct, Insert, Commit, GiveUp, Ack, storeVars, NoFault
    <3>3. UNCHANGED <<pod, loopVars, stream, cursor, owner, deliveries, dlq, restarts, delays>>
      BY <1>3 DEF Deduct, Insert, Commit, GiveUp, Ack, storeVars, GivenUp, XAck
    <3> QED BY <3>1, <3>2, <3>3
  <2>2. stage' \in [Workers -> Stages] /\ current' \in [Workers -> Attempts \cup {NoOne}]
    BY <1>3 DEF Deduct, Insert, Commit, GiveUp, Ack, Reach, Done, WorkerTypeOK
  <2>3. current[w] \in Attempts /\ SkuOf[current[w]] \in Skus /\ Quantity[current[w]] \in Nat
    BY <1>3, InProcess DEF Deduct, Insert, Commit, GiveUp, Ack
  <2>4. dropped' \subseteq Attempts
    BY <1>3, <2>3 DEF Deduct, Insert, Commit, GiveUp, Ack, WorkerTypeOK
  <2>5. lock' \in [Skus -> Workers \cup {NoOne}]
    BY <1>3, UnlockType DEF Deduct, Insert, Commit, GiveUp, Ack, storeVars, StoreTypeOK
  <2>6. stock' \in [Skus -> Int] /\ orders' \subseteq Attempts
    BY <1>3, <2>3 DEF Deduct, Insert, Commit, Apply, GiveUp, Ack, storeVars, StoreTypeOK
  <2> QED BY <1>1, <2>1, <2>2, <2>4, <2>5, <2>6 DEF StoreTypeOK, WorkerTypeOK
<1> QED BY <1>2, <1>3 DEF ProcessorStep

\* Starting, draining and losing a pod keep the types.
LEMMA PodTypeStep ==
  ASSUME PInv, NEW w \in Workers, PodStep(w), UNCHANGED checkoutVars
  PROVE  TypeOK'
<1> USE DEF PInv, TypeOK, groupVars, tableVars, loopVars, processorVars
<1>1. CheckoutTypeOK'
  BY DEF checkoutVars, CheckoutTypeOK
<1>2. CASE Start(w) \/ Drain(w)
  <2>1. pod' \in [Workers -> {"absent", "live", "draining", "dead"}]
    BY <1>2 DEF Start, Drain, WorkerTypeOK
  <2>2. restarts' \in Nat
    BY <1>2 DEF Start, Drain, storeVars, StoreTypeOK
  <2>3. UNCHANGED <<loopVars, processorVars, stream, groupVars, dlq, tableVars, faults, delays>>
    BY <1>2 DEF Start, Drain, storeVars
  <2> QED BY <1>1, <2>1, <2>2, <2>3 DEF StoreTypeOK, WorkerTypeOK
<1>3. CASE Die(w)
  <2>1. pod' \in [Workers -> {"absent", "live", "draining", "dead"}] /\ restarts' \in Nat
    BY <1>3 DEF Die, StoreTypeOK, WorkerTypeOK
  <2>2. inbox' \in [Workers -> Seq(Attempts)]
    BY <1>3 DEF Die, WorkerTypeOK
  <2>3. burying' \in [Workers -> [Loops -> Graves]]
    BY <1>3 DEF Die, WorkerTypeOK, Graves, Nothing
  <2>4. listed' \in [Workers -> [entry : Events \cup {NoOne}, count : Nat]]
    BY <1>3 DEF Die, WorkerTypeOK, Unlisted
  <2>5. /\ current' \in [Workers -> Attempts \cup {NoOne}]
        /\ stage' \in [Workers -> {"idle", "deduct", "insert", "commit", "ack_committed",
                                   "ack_permanent"}]
    BY <1>3 DEF Die, Done, Reach, WorkerTypeOK
  <2>6. lock' \in [Skus -> Workers \cup {NoOne}]
    BY <1>3, UnlockType DEF Die
  <2>7. UNCHANGED <<tries, late, dropped, stream, groupVars, dlq, stock, orders, faults, delays>>
    BY <1>3 DEF Die
  <2> QED BY <1>1, <2>1, <2>2, <2>3, <2>4, <2>5, <2>6, <2>7 DEF StoreTypeOK, WorkerTypeOK, Graves
<1> QED BY <1>2, <1>3 DEF PodStep

\* Every step of gateway and pods keeps the types.
LEMMA TypeStep ==
  ASSUME PInv, [Next]_vars
  PROVE  TypeOK'
<1>1. CASE UNCHANGED vars
  BY <1>1
  DEF PInv, TypeOK, vars, storeVars, groupVars, tableVars, checkoutVars, workerVars, loopVars,
      processorVars, StoreTypeOK, CheckoutTypeOK, WorkerTypeOK
<1> QED
  BY <1>1, CheckoutTypeStep, LoopTypeStep, ProcessorTypeStep, PodTypeStep
  DEF Next, WorkerStep, Quiet

-----------------------------------------------------------------------------
\* What was published stays so, and what was handed out.
LEMMA StreamGrows ==
  ASSUME PInv, [Next]_vars
  PROVE  /\ \A x : Published(x) => Published(x)'
         /\ \A x : HandedOut(x) => HandedOut(x)'
         /\ \A i \in 1..cursor : stream'[i] = stream[i]
         /\ cursor' \in {cursor, cursor + 1}
<1> USE DEF PInv, TypeOK, vars, storeVars, groupVars
<1>1. CASE UNCHANGED stream
  <2>1. cursor' \in {cursor, cursor + 1}
    <3>1. CASE WorkerStep
      BY <3>1, WorkerFrame DEF Read
    <3>2. CASE CheckoutStep
      BY <3>2, CheckoutFrame
    <3> QED BY <3>1, <3>2 DEF Next, Quiet
  <2>2. cursor \in Nat
    BY DEF StoreTypeOK
  <2> QED BY <1>1, <2>1, <2>2 DEF Published, HandedOut
<1>2. ASSUME NEW e \in Events, XAdd(e), UNCHANGED cursor
      PROVE  /\ \A x : Published(x) => Published(x)'
             /\ \A x : HandedOut(x) => HandedOut(x)'
             /\ \A i \in 1..cursor : stream'[i] = stream[i]
  <2>1. cursor \in 0..Len(stream) /\ Len(stream) \in Nat
    BY DEF StoreTypeOK
  <2> QED BY <1>2, <2>1, Appended DEF HandedOut
<1>3. UNCHANGED stream \/ \E e \in Events : XAdd(e) /\ UNCHANGED cursor
  BY CheckoutFrame, WorkerFrame DEF Next, Quiet
<1> QED BY <1>1, <1>2, <1>3

\* What was handed out was published.
LEMMA HandedOutPublished ==
  ASSUME TypeOK, NEW e, HandedOut(e)
  PROVE  Published(e)
BY DEF TypeOK, StoreTypeOK, HandedOut, Published

\* SETNX gives a key to one attempt, and only an attempt that published nothing gives it back.
LEMMA ClaimStep ==
  ASSUME PInv, [Next]_vars
  PROVE  ClaimInv'
<1> USE DEF PInv, TypeOK
<1>1. CASE UNCHANGED <<stream, claims, progress>>
  BY <1>1 DEF ClaimInv, Holds, Published
<1>2. CASE ForeignPublish
  <2>1. PICK m \in Malformed : XAdd(m)
    BY <1>2 DEF ForeignPublish
  <2>2. \A a \in Attempts : Published(a)' <=> Published(a)
    BY <2>1, Appended, StoreAssumption DEF Events
  <2> QED BY <1>2, <2>2 DEF ForeignPublish, checkoutVars, ClaimInv, Holds
<1>3. ASSUME NEW a \in Attempts, Publish(a)
      PROVE  ClaimInv'
  <2>1. progress[a] = "checked" /\ UNCHANGED claims
    BY <1>3 DEF Publish
  <2>2. \E next \in {"accepted", "failed"} : progress' = [progress EXCEPT ![a] = next]
    BY <1>3 DEF Publish, Advance, AfterFailedPublish
  <2>3. /\ progress'[a] \in {"accepted", "failed"}
        /\ \A b \in Attempts \ {a} : progress'[b] = progress[b]
    BY <2>2 DEF CheckoutTypeOK
  <2>4. \A b \in Attempts \ {a} : Published(b)' <=> Published(b)
    BY <1>3, Appended DEF Publish, Published, Events
  <2>5. Holds(a) /\ \A b \in Attempts : Holds(b)' => Holds(b)
    BY <2>1, <2>3, <2>4 DEF Holds
  <2>6. \A b \in Attempts : Published(b)' => progress'[b] \in {"accepted", "failed"}
    BY <2>3, <2>4 DEF ClaimInv
  <2> QED BY <2>1, <2>5, <2>6 DEF ClaimInv
<1>4. ASSUME NEW a \in Attempts, Claim(a)
      PROVE  ClaimInv'
  <2>1. /\ progress[a] = "new" /\ ~Published(a)
        /\ \A b \in Attempts : Published(b)' <=> Published(b)
    BY <1>4 DEF Claim, ClaimInv, Published
  <2>2. /\ \A b \in Attempts \ {a} : progress'[b] = progress[b]
        /\ progress'[a] \in {"claimed", "rejected", "failed"}
    BY <1>4 DEF Claim, Advance, CheckoutTypeOK
  <2>3. /\ \A b \in Attempts \ {a} : Holds(b)' <=> Holds(b)
        /\ Holds(a)' <=> progress'[a] = "claimed"
    BY <2>1, <2>2 DEF Holds
  <2>4. claims \subseteq claims'
    BY <1>4 DEF Claim
  <2>5. progress'[a] = "claimed" /\ Keyed(a) => KeyOf[a] \notin claims /\ KeyOf[a] \in claims'
    BY <1>4 DEF Claim, Advance, CheckoutTypeOK
  <2>6. \A b \in Attempts : Published(b)' => progress'[b] \in {"accepted", "failed"}
    BY <2>1, <2>2 DEF ClaimInv
  <2>7. ASSUME NEW b \in Attempts, Keyed(b), Holds(b)'
        PROVE  /\ KeyOf[b] \in claims'
               /\ \A c \in Attempts : KeyOf[c] = KeyOf[b] /\ Holds(c)' => b = c
    BY <2>3, <2>4, <2>5, <2>7 DEF ClaimInv, Keyed
  <2> QED BY <2>6, <2>7 DEF ClaimInv, Keyed
<1>5. ASSUME NEW a \in Attempts, Release(a)
      PROVE  ClaimInv'
  <2>1. /\ progress[a] = "releasing" /\ ~Published(a) /\ Holds(a)
        /\ \A b \in Attempts : Published(b)' <=> Published(b)
    BY <1>5 DEF Release, ClaimInv, Published, Holds
  <2>2. /\ \A b \in Attempts \ {a} : progress'[b] = progress[b]
        /\ progress'[a] = "rejected"
    BY <1>5 DEF Release, Advance, CheckoutTypeOK
  <2>3. /\ \A b \in Attempts \ {a} : Holds(b)' <=> Holds(b)
        /\ ~Holds(a)'
    BY <2>1, <2>2 DEF Holds
  <2>4. claims \ {KeyOf[a]} \subseteq claims'
    BY <1>5 DEF Release
  <2>5. \A b \in Attempts : Published(b)' => progress'[b] \in {"accepted", "failed"}
    BY <2>1, <2>2 DEF ClaimInv
  <2>6. ASSUME NEW b \in Attempts, Keyed(b), Holds(b)'
        PROVE  /\ KeyOf[b] \in claims'
               /\ \A c \in Attempts : KeyOf[c] = KeyOf[b] /\ Holds(c)' => b = c
    BY <2>1, <2>3, <2>4, <2>6 DEF ClaimInv, Keyed
  <2> QED BY <2>5, <2>6 DEF ClaimInv, Keyed
<1>6. ASSUME NEW a \in Attempts, PreCheck(a) \/ GatewayDies(a)
      PROVE  ClaimInv'
  <2>1. /\ progress[a] \in {"claimed", "checked", "releasing"} /\ ~Published(a) /\ Holds(a)
        /\ \A b \in Attempts : Published(b)' <=> Published(b)
    BY <1>6 DEF PreCheck, GatewayDies, ClaimInv, Published, Holds
  <2>2. /\ \A b \in Attempts \ {a} : progress'[b] = progress[b]
        /\ progress'[a] \in {"checked", "releasing", "failed"} /\ UNCHANGED claims
    BY <1>6 DEF PreCheck, GatewayDies, Advance, CheckoutTypeOK
  <2>3. \A b \in Attempts : Holds(b)' => Holds(b)
    BY <2>1, <2>2 DEF Holds
  <2>4. \A b \in Attempts : Published(b)' => progress'[b] \in {"accepted", "failed"}
    BY <2>1, <2>2 DEF ClaimInv
  <2> QED BY <2>2, <2>3, <2>4 DEF ClaimInv
<1>7. CASE CheckoutStep
  BY <1>2, <1>3, <1>4, <1>5, <1>6, <1>7 DEF CheckoutStep
<1> QED
  BY <1>1, <1>7, WorkerFrame DEF Next, Quiet, vars, storeVars, checkoutVars

\* Read moves along the stream; every other delivery is of an entry read before.
LEMMA StreamStep ==
  ASSUME PInv, [Next]_vars
  PROVE  StreamInv'
<1> USE DEF PInv, TypeOK
<1>1. \A i, j \in DOMAIN stream' : stream'[i] = stream'[j] => i = j
  <2>1. CASE UNCHANGED stream
    BY <2>1 DEF StreamInv
  <2>2. ASSUME NEW e \in Events, ~Published(e), XAdd(e)
        PROVE  \A i, j \in DOMAIN stream' : stream'[i] = stream'[j] => i = j
    <3>1. \A i \in 1..Len(stream) : stream[i] # e
      BY <2>2, Appended DEF Published
    <3>2. Len(stream) \in Nat
      BY DEF StoreTypeOK
    <3> QED BY <2>2, <3>1, <3>2, Appended DEF StreamInv
  <2> QED BY <2>1, <2>2, CheckoutFrame, WorkerFrame DEF Next, Quiet, vars, storeVars
<1>2. ASSUME NEW e \in Events, e \in pending' \/ deliveries'[e] > 0
      PROVE  HandedOut(e)'
  <2>1. CASE e \in pending \/ deliveries[e] > 0
    BY <2>1, StreamGrows DEF StreamInv
  <2>2. CASE ~(e \in pending \/ deliveries[e] > 0)
    <3>1. PICK w \in Workers : Read(w) /\ e = stream[cursor + 1]
      <4>1. ~UNCHANGED groupVars
        BY <1>2, <2>2 DEF groupVars
      <4>2. WorkerStep
        BY <4>1, CheckoutFrame DEF Next, Quiet, vars, storeVars
      <4>3. ASSUME NEW w \in Workers, NEW x \in pending, NEW count, Claimed(w, x, count)
            PROVE  FALSE
        BY <1>2, <2>2, <4>3 DEF Claimed, Assign, StoreTypeOK
      <4>4. PICK w \in Workers : LoopStep(w) \/ ProcessorStep(w) \/ PodStep(w)
        BY <4>2 DEF WorkerStep
      <4>5. ~ProcessorStep(w) /\ ~PodStep(w)
        BY <1>2, <2>2
        DEF ProcessorStep, PodStep, Take, Deduct, Insert, Commit, GiveUp, GivenUp, Ack, XAck, Start,
            Drain, Die, groupVars, storeVars
      <4>6. ~Reclaim(w) /\ ~ListLate(w) /\ ~ClaimLate(w)
            /\ \A l \in Loops : ~DeadLetterAdd(w, l) /\ ~DeadLetterAck(w, l)
        BY <1>2, <2>2, <4>3
        DEF Reclaim, ListLate, ClaimLate, DeadLetterAdd, DeadLetterAck, XAck, groupVars
      <4>7. Read(w)
        BY <4>4, <4>5, <4>6 DEF LoopStep
      <4>8. e = stream[cursor + 1]
        BY <1>2, <2>2, <4>7 DEF Read, Assign, StoreTypeOK
      <4> QED BY <4>7, <4>8
    <3>2. cursor' = cursor + 1 /\ UNCHANGED stream /\ cursor \in Nat
      BY <3>1 DEF Read, StoreTypeOK
    <3> QED BY <3>1, <3>2 DEF HandedOut
  <2> QED BY <2>1, <2>2
<1> QED BY <1>1, <1>2 DEF StreamInv

-----------------------------------------------------------------------------
\* A message handed on was published; one that is not is to be added to the dead letters.
LEMMA DeliverInHand ==
  ASSUME TypeOK, InHandInv, NEW w \in Workers, NEW l \in Loops, NEW e \in Events, NEW count,
         Published(e), Deliver(w, l, e, count), UNCHANGED <<stream, current, stage>>
  PROVE  InHandInv'
<1> USE DEF TypeOK
<1>0. \A x : Published(x)' <=> Published(x)
  BY DEF Published
<1>1. CASE Unreadable(e) \/ Exhausted(count)
  <2>1. Hold(w, l, [entry |-> e, next |-> "add"]) /\ UNCHANGED inbox
    BY <1>1 DEF Deliver
  <2>2. \A v \in Workers, k \in Loops :
          burying'[v][k] = burying[v][k] \/ burying'[v][k] = [entry |-> e, next |-> "add"]
    BY <2>1 DEF Hold, WorkerTypeOK
  <2> QED BY <1>0, <2>1, <2>2 DEF InHandInv
<1>2. CASE ~(Unreadable(e) \/ Exhausted(count))
  <2>1. inbox' = [inbox EXCEPT ![w] = Append(@, e)] /\ UNCHANGED burying
    BY <1>2 DEF Deliver
  <2>2. ASSUME NEW v \in Workers, NEW i \in DOMAIN inbox'[v]
        PROVE  Published(inbox'[v][i])
    <3>1. CASE v = w
      <4>1. inbox[w] \in Seq(Attempts) /\ inbox'[w] = Append(inbox[w], e)
        BY <2>1 DEF WorkerTypeOK
      <4>2. inbox'[w][i] = e \/ (i \in DOMAIN inbox[w] /\ inbox'[w][i] = inbox[w][i])
        BY <2>2, <3>1, <4>1
      <4> QED BY <3>1, <4>2 DEF InHandInv
    <3>2. CASE v # w
      <4>1. inbox'[v] = inbox[v]
        BY <2>1, <3>2 DEF WorkerTypeOK
      <4> QED BY <2>2, <4>1 DEF InHandInv
    <3> QED BY <3>1, <3>2
  <2> QED BY <1>0, <2>1, <2>2 DEF InHandInv
<1> QED BY <1>1, <1>2

\* Whatever a pod has in hand was published, at every step of it or of another pod.
LEMMA InHandStep ==
  ASSUME PInv, [Next]_vars
  PROVE  InHandInv'
<1> USE DEF PInv, TypeOK
<1>1. CASE UNCHANGED <<inbox, burying, current, stage>>
  <2>1. \A x : Published(x) => Published(x)'
    BY StreamGrows
  <2> QED BY <1>1, <2>1 DEF InHandInv
<1>a. "read" \in Loops /\ "reclaim" \in Loops
  BY DEF Loops
<1>2. ASSUME NEW w \in Workers, Read(w)
      PROVE  InHandInv'
  <2>1. stream[cursor + 1] \in Events /\ Published(stream[cursor + 1])
    BY <1>2 DEF Read, StoreTypeOK, Published
  <2>2. CASE Deliver(w, "read", stream[cursor + 1], 1)
    BY <1>2, <1>a, <2>1, <2>2, DeliverInHand DEF Read, processorVars
  <2>3. CASE AnswerLost
    BY <1>1, <1>2, <2>3 DEF Read, AnswerLost, processorVars
  <2> QED BY <1>2, <2>2, <2>3 DEF Read
<1>3. ASSUME NEW w \in Workers, NEW e \in pending, NEW count, Claimed(w, e, count),
             UNCHANGED <<stream, processorVars>>
      PROVE  InHandInv'
  <2>1. e \in Events /\ Published(e)
    BY HandedOutPublished DEF StreamInv, StoreTypeOK
  <2>2. CASE Deliver(w, "reclaim", e, count + 1)
    BY <1>3, <1>a, <2>1, <2>2, DeliverInHand DEF processorVars
  <2>3. CASE AnswerLost
    BY <1>1, <1>3, <2>3 DEF AnswerLost, processorVars
  <2> QED BY <1>3, <2>2, <2>3 DEF Claimed
<1>4. ASSUME NEW w \in Workers, Reclaim(w) \/ ListLate(w) \/ ClaimLate(w)
      PROVE  InHandInv'
  <2>1. UNCHANGED <<stream, processorVars>>
    BY <1>4 DEF Reclaim, ListLate, ClaimLate
  <2>2. \/ \E e \in pending, count \in Int : Claimed(w, e, count)
        \/ UNCHANGED <<inbox, burying>>
    <3>1. CASE Reclaim(w)
      BY <3>1 DEF Reclaim, StoreTypeOK
    <3>2. CASE ListLate(w)
      BY <3>2 DEF ListLate
    <3>3. CASE ClaimLate(w)
      <4>1. listed[w].count \in Int
        BY DEF WorkerTypeOK
      <4> QED BY <3>3, <4>1 DEF ClaimLate
    <3> QED BY <1>4, <3>1, <3>2, <3>3
  <2> QED BY <1>1, <1>3, <2>1, <2>2 DEF processorVars
<1>5. ASSUME NEW w \in Workers, NEW l \in Loops, DeadLetterAdd(w, l) \/ DeadLetterAck(w, l)
      PROVE  InHandInv'
  <2>1. UNCHANGED <<stream, inbox, current, stage>>
    BY <1>5 DEF DeadLetterAdd, DeadLetterAck, processorVars
  <2>2. /\ burying[w][l].next # "none"
        /\ \/ Hold(w, l, Nothing)
           \/ Hold(w, l, [entry |-> burying[w][l].entry, next |-> "ack"])
    BY <1>5 DEF DeadLetterAdd, DeadLetterAck
  <2>3. \A v \in Workers, k \in Loops :
          burying'[v][k].next # "none" =>
            burying[v][k].next # "none" /\ burying'[v][k].entry = burying[v][k].entry
    BY <2>2, HoldOne DEF Nothing
  <2> QED BY <2>1, <2>3 DEF InHandInv, Published
<1>6. ASSUME NEW w \in Workers, Take(w)
      PROVE  InHandInv'
  <2>1. /\ inbox[w] \in Seq(Attempts) /\ inbox[w] # <<>> /\ stage[w] = "idle"
        /\ inbox' = [inbox EXCEPT ![w] = Tail(inbox[w])] /\ UNCHANGED <<stream, burying>>
    BY <1>6 DEF Take, WorkerTypeOK
  <2>2. Head(inbox[w]) = inbox[w][1] /\ 1 \in DOMAIN inbox[w] /\ Head(inbox[w]) \in Attempts
    BY <2>1
  <2>3. Published(Head(inbox[w])) /\ Head(inbox[w]) # NoOne
    BY <2>2, StoreAssumption DEF InHandInv, Events
  <2>4. ASSUME NEW v \in Workers, NEW i \in DOMAIN inbox'[v]
        PROVE  Published(inbox'[v][i])
    <3>1. CASE v = w
      <4>1. inbox'[w] = Tail(inbox[w])
        BY <2>1 DEF WorkerTypeOK
      <4>2. i + 1 \in DOMAIN inbox[w] /\ inbox'[w][i] = inbox[w][i + 1]
        BY <2>1, <2>4, <3>1, <4>1, TailItems, Zenon
      <4>3. Published(inbox[w][i + 1])
        BY <4>2 DEF InHandInv
      <4> QED BY <3>1, <4>2, <4>3
    <3>2. CASE v # w
      <4>1. inbox'[v] = inbox[v]
        BY <2>1, <3>2 DEF WorkerTypeOK
      <4> QED BY <2>4, <4>1 DEF InHandInv
    <3> QED BY <3>1, <3>2
  <2>5. \/ UNCHANGED <<current, stage>>
        \/ /\ current' = [current EXCEPT ![w] = Head(inbox[w])]
           /\ stage' = [stage EXCEPT ![w] = "deduct"]
    BY <1>6 DEF Take, Reach
  <2>6. \A v \in Workers :
          /\ stage'[v] = "idle" <=> current'[v] = NoOne
          /\ current'[v] # NoOne => Published(current'[v])
    BY <2>3, <2>5 DEF InHandInv, WorkerTypeOK
  <2> QED BY <2>1, <2>4, <2>6 DEF InHandInv, Published
<1>7. ASSUME NEW w \in Workers, Deduct(w) \/ Insert(w) \/ Commit(w) \/ GiveUp(w) \/ Ack(w)
      PROVE  InHandInv'
  <2>1. UNCHANGED <<stream, inbox, burying>> /\ stage[w] # "idle"
    BY <1>7 DEF Deduct, Insert, Commit, GiveUp, Ack, loopVars, storeVars
  <2>2. \/ Done(w)
        \/ UNCHANGED current /\ \E x \in {"insert", "commit", "ack_committed", "ack_permanent"} :
                                  stage' = [stage EXCEPT ![w] = x]
    BY <1>7 DEF Deduct, Insert, Commit, GiveUp, Ack, Reach
  <2>3. \A v \in Workers :
          /\ stage'[v] = "idle" <=> current'[v] = NoOne
          /\ current'[v] # NoOne => Published(current'[v])
    BY <2>1, <2>2 DEF InHandInv, Done, Reach, WorkerTypeOK
  <2> QED BY <2>1, <2>3 DEF InHandInv, Published
<1>8. ASSUME NEW w \in Workers, Die(w)
      PROVE  InHandInv'
  <2>1. /\ inbox' = [inbox EXCEPT ![w] = <<>>] /\ Done(w) /\ UNCHANGED stream
        /\ burying' = [burying EXCEPT ![w] = [l \in Loops |-> Nothing]]
    BY <1>8 DEF Die
  <2>2. \A v \in Workers, l \in Loops :
          burying'[v][l] = burying[v][l] \/ burying'[v][l].next = "none"
    BY <2>1 DEF WorkerTypeOK, Nothing
  <2>3. \A v \in Workers : inbox'[v] = inbox[v] \/ inbox'[v] = <<>>
    BY <2>1 DEF WorkerTypeOK
  <2>4. \A v \in Workers :
          /\ stage'[v] = "idle" <=> current'[v] = NoOne
          /\ current'[v] # NoOne => Published(current'[v])
    BY <2>1 DEF InHandInv, Done, Reach, WorkerTypeOK, Published
  <2> QED BY <2>1, <2>2, <2>3, <2>4 DEF InHandInv, Published
<1>9. ASSUME NEW w \in Workers, Start(w) \/ Drain(w)
      PROVE  InHandInv'
  BY <1>1, <1>9 DEF Start, Drain, loopVars, processorVars
<1> QED
  BY <1>1, <1>2, <1>4, <1>5, <1>6, <1>7, <1>8, <1>9
  DEF Next, WorkerStep, LoopStep, ProcessorStep, PodStep, Quiet, vars, workerVars, loopVars,
      processorVars

-----------------------------------------------------------------------------
\* A loop leaves transactions alone and waits for a copy before it acknowledges one.
LEMMA LoopBooking ==
  ASSUME PInv, NEW w \in Workers, LoopStep(w)
  PROVE  BookingInv'
<1> USE DEF PInv, TypeOK
<1>1. UNCHANGED <<stage, current, lock, stock, orders>>
  BY DEF LoopStep, Read, Reclaim, ListLate, ClaimLate, DeadLetterAdd, DeadLetterAck, processorVars,
         tableVars
<1>2. ASSUME \A v \in Workers, k \in Loops :
               \/ burying'[v][k] = burying[v][k]
               \/ burying'[v][k].next # "ack"
               \/ dlq'[burying'[v][k].entry] > 0,
             \A e \in Events : dlq'[e] \in Nat /\ dlq'[e] >= dlq[e]
      PROVE  BookingInv'
  <2>1. ASSUME NEW v \in Workers, NEW k \in Loops, burying'[v][k].next = "ack"
        PROVE  dlq'[burying'[v][k].entry] > 0
    <3>1. CASE burying'[v][k] = burying[v][k]
      <4>1. burying[v][k].entry \in Events /\ dlq[burying[v][k].entry] > 0
        BY <2>1, <3>1 DEF BookingInv, InHandInv
      <4>2. dlq[burying[v][k].entry] \in Nat /\ dlq'[burying[v][k].entry] > 0
        BY <1>2, <4>1 DEF StoreTypeOK
      <4> QED BY <3>1, <4>2
    <3> QED BY <1>2, <2>1, <3>1
  <2> QED BY <1>1, <2>1 DEF BookingInv
<1>3. ASSUME NEW e, NEW count, NEW l \in Loops, Deliver(w, l, e, count) \/ UNCHANGED burying,
             UNCHANGED dlq
      PROVE  BookingInv'
  <2>1. UNCHANGED burying \/ Hold(w, l, [entry |-> e, next |-> "add"])
    BY <1>3 DEF Deliver
  <2>2. \A v \in Workers, k \in Loops :
          burying'[v][k] = burying[v][k] \/ burying'[v][k].next # "ack"
    BY <2>1, HoldOne
  <2>3. \A x \in Events : dlq'[x] \in Nat /\ dlq'[x] >= dlq[x]
    BY <1>3 DEF StoreTypeOK
  <2> QED BY <1>2, <2>2, <2>3
<1>a. "read" \in Loops /\ "reclaim" \in Loops
  BY DEF Loops
<1>4. CASE Read(w)
  BY <1>3, <1>4, <1>a DEF Read, AnswerLost
<1>5. CASE Reclaim(w) \/ ListLate(w) \/ ClaimLate(w)
  <2>1. UNCHANGED dlq
    BY <1>5 DEF Reclaim, ListLate, ClaimLate
  <2>2. UNCHANGED burying \/ \E e, count : Deliver(w, "reclaim", e, count)
    BY <1>5 DEF Reclaim, ListLate, ClaimLate, Claimed, AnswerLost
  <2> QED BY <1>3, <1>a, <2>1, <2>2
<1>6. ASSUME NEW l \in Loops, DeadLetterAdd(w, l) \/ DeadLetterAck(w, l)
      PROVE  BookingInv'
  <2> DEFINE e == burying[w][l].entry
  <2>1. e \in Events /\ dlq[e] \in Nat
    BY <1>6 DEF DeadLetterAdd, DeadLetterAck, InHandInv, StoreTypeOK
  <2>2. UNCHANGED dlq \/ dlq' = [dlq EXCEPT ![e] = @ + 1]
    BY <1>6 DEF DeadLetterAdd, DeadLetterAck
  <2>3. \A x \in Events : dlq'[x] \in Nat /\ dlq'[x] >= dlq[x]
    BY <2>2 DEF StoreTypeOK
  <2>4. \/ Hold(w, l, Nothing)
        \/ Hold(w, l, [entry |-> e, next |-> "ack"]) /\ dlq'[e] > 0
    <3>1. \/ Hold(w, l, Nothing)
          \/ /\ Hold(w, l, [entry |-> e, next |-> "ack"])
             /\ dlq' = [dlq EXCEPT ![e] = @ + 1]
      BY <1>6 DEF DeadLetterAdd, DeadLetterAck
    <3>2. dlq' = [dlq EXCEPT ![e] = @ + 1] => dlq'[e] > 0
      BY <2>1 DEF StoreTypeOK
    <3> QED BY <3>1, <3>2
  <2>5. \A v \in Workers, k \in Loops :
          \/ burying'[v][k] = burying[v][k]
          \/ burying'[v][k].next # "ack"
          \/ dlq'[burying'[v][k].entry] > 0
    BY <2>4, HoldOne DEF Nothing
  <2> QED BY <1>2, <2>3, <2>5
<1> QED BY <1>4, <1>5, <1>6 DEF LoopStep

\* The row lock keeps two transactions on one sku apart from deduction to commit.
LEMMA ProcessorBooking ==
  ASSUME PInv, NEW w \in Workers, ProcessorStep(w)
  PROVE  BookingInv'
<1> USE DEF PInv, TypeOK
<1>0. UNCHANGED <<burying, dlq>>
  BY DEF ProcessorStep, Take, Deduct, Insert, Commit, GiveUp, Ack, loopVars, storeVars
<1> DEFINE Safe(v) ==
      /\ stage[v] \in {"insert", "commit"} =>
           /\ lock[SkuOf[current[v]]] = v
           /\ stock[SkuOf[current[v]]] >= Quantity[current[v]]
      /\ stage[v] = "commit" => current[v] \notin orders
      /\ stage[v] = "ack_committed" => current[v] \in orders
<1>1. \A v \in Workers : Safe(v)
  BY DEF BookingInv
<1>2. (\A v \in Workers : Safe(v)') => BookingInv'
  BY <1>0 DEF BookingInv
<1>3. w # NoOne /\ \A v \in Workers : v # NoOne
  BY StoreAssumption
<1>4. CASE Take(w)
  <2>1. UNCHANGED <<lock, stock, orders>>
    BY <1>4 DEF Take, tableVars
  <2>2. \A v \in Workers : stage'[v] = "deduct" \/ (stage'[v] = stage[v] /\ current'[v] = current[v])
    BY <1>4 DEF Take, Reach, WorkerTypeOK
  <2> QED BY <1>1, <1>2, <2>1, <2>2
<1>5. CASE Deduct(w)
  <2> DEFINE sku == SkuOf[current[w]]
  <2>1. sku \in Skus /\ lock[sku] = NoOne /\ UNCHANGED <<current, stock, orders>>
    BY <1>5, InProcess DEF Deduct
  <2>2. \A v \in Workers \ {w} : stage'[v] = stage[v]
    BY <1>5 DEF Deduct, Reach, WorkerTypeOK
  <2>3. CASE stock[sku] >= Quantity[current[w]]
    <3>1. stage'[w] = "insert" /\ lock' = [lock EXCEPT ![sku] = w]
      BY <1>5, <2>3 DEF Deduct, Reach, WorkerTypeOK
    <3>2. Safe(w)'
      BY <2>1, <2>3, <3>1 DEF StoreTypeOK
    <3>3. ASSUME NEW v \in Workers \ {w}
          PROVE  Safe(v)'
      <4>1. CASE stage[v] \in {"insert", "commit"}
        <5>1. SkuOf[current[v]] \in Skus /\ SkuOf[current[v]] # sku
          BY <1>1, <1>3, <2>1, <4>1, InProcess
        <5>2. lock'[SkuOf[current[v]]] = lock[SkuOf[current[v]]]
          BY <3>1, <5>1 DEF StoreTypeOK
        <5> QED BY <1>1, <2>1, <2>2, <5>2
      <4>2. CASE stage[v] \notin {"insert", "commit"}
        BY <1>1, <2>1, <2>2, <4>2
      <4> QED BY <4>1, <4>2
    <3> QED BY <1>2, <3>2, <3>3
  <2>4. CASE ~(stock[sku] >= Quantity[current[w]])
    <3>1. stage'[w] = "ack_permanent" /\ UNCHANGED lock
      BY <1>5, <2>4 DEF Deduct, Reach, WorkerTypeOK
    <3> QED BY <1>1, <1>2, <2>1, <2>2, <3>1
  <2> QED BY <2>3, <2>4
<1>6. CASE Insert(w)
  <2>1. UNCHANGED <<current, lock, stock, orders>> /\ current[w] \notin orders /\ stage[w] = "insert"
    BY <1>6 DEF Insert, InsertAllowed, storeVars, tableVars
  <2>2. stage'[w] = "commit" /\ \A v \in Workers \ {w} : stage'[v] = stage[v]
    BY <1>6 DEF Insert, Reach, WorkerTypeOK
  <2> QED BY <1>1, <1>2, <2>1, <2>2
<1>7. CASE Commit(w)
  <2> DEFINE e == current[w]
  <2>1. /\ e \in Attempts /\ SkuOf[e] \in Skus /\ lock[SkuOf[e]] = w
        /\ orders' = orders \cup {e} /\ stock' = [stock EXCEPT ![SkuOf[e]] = @ - Quantity[e]]
        /\ lock' = [s \in Skus |-> IF lock[s] = w THEN NoOne ELSE lock[s]]
    BY <1>1, <1>7, InProcess DEF Commit, Apply, Unlock
  <2>2. /\ \A v \in Workers \ {w} : stage'[v] = stage[v] /\ current'[v] = current[v]
        /\ stage'[w] = "idle" \/ (stage'[w] = "ack_committed" /\ current'[w] = e)
    BY <1>7 DEF Commit, Reach, Done, WorkerTypeOK
  <2>3. Safe(w)'
    BY <2>1, <2>2
  <2>4. ASSUME NEW v \in Workers \ {w}
        PROVE  Safe(v)'
    <3>1. CASE stage[v] \in {"insert", "commit"}
      <4>1. SkuOf[current[v]] \in Skus /\ lock[SkuOf[current[v]]] = v
        BY <1>1, <3>1, InProcess
      <4>2. SkuOf[current[v]] # SkuOf[e] /\ current[v] # e
        BY <2>1, <4>1
      <4>3. /\ lock'[SkuOf[current[v]]] = v
            /\ stock'[SkuOf[current[v]]] = stock[SkuOf[current[v]]]
        BY <2>1, <4>1, <4>2 DEF StoreTypeOK
      <4> QED BY <1>1, <2>1, <2>2, <3>1, <4>2, <4>3
    <3>2. CASE stage[v] \notin {"insert", "commit"}
      BY <1>1, <2>1, <2>2, <3>2
    <3> QED BY <3>1, <3>2
  <2> QED BY <1>2, <2>3, <2>4
<1>8. CASE GiveUp(w) \/ Ack(w)
  <2>1. UNCHANGED <<stock, orders>> /\ (Unlock(w) \/ UNCHANGED lock)
    BY <1>8 DEF GiveUp, Ack, tableVars
  <2>2. /\ stage'[w] = "idle"
        /\ \A v \in Workers \ {w} : stage'[v] = stage[v] /\ current'[v] = current[v]
    BY <1>8 DEF GiveUp, Ack, Reach, Done, WorkerTypeOK
  <2>3. ASSUME NEW v \in Workers \ {w}
        PROVE  Safe(v)'
    <3>1. CASE stage[v] \in {"insert", "commit"}
      <4>1. SkuOf[current[v]] \in Skus /\ lock[SkuOf[current[v]]] = v
        BY <1>1, <3>1, InProcess
      <4>2. lock'[SkuOf[current[v]]] = v
        BY <2>1, <4>1 DEF Unlock
      <4> QED BY <1>1, <2>1, <2>2, <4>2
    <3>2. CASE stage[v] \notin {"insert", "commit"}
      BY <1>1, <2>1, <2>2, <3>2
    <3> QED BY <3>1, <3>2
  <2> QED BY <1>2, <2>2, <2>3
<1> QED BY <1>4, <1>5, <1>6, <1>7, <1>8 DEF ProcessorStep

\* The row lock from the deduction to the commit: BookingInv is preserved.
LEMMA BookingStep ==
  ASSUME PInv, [Next]_vars
  PROVE  BookingInv'
<1> USE DEF PInv, TypeOK
<1>1. CASE UNCHANGED <<stage, current, burying, lock, stock, orders, dlq>>
  BY <1>1 DEF BookingInv
<1>2. ASSUME NEW w \in Workers, Die(w)
      PROVE  BookingInv'
  <2>1. UNCHANGED <<stock, orders, dlq>> /\ Unlock(w)
    BY <1>2 DEF Die
  <2>2. /\ stage'[w] = "idle"
        /\ \A v \in Workers \ {w} : stage'[v] = stage[v] /\ current'[v] = current[v]
    BY <1>2 DEF Die, Reach, Done, WorkerTypeOK
  <2>3. \A v \in Workers, k \in Loops :
          burying'[v][k] = burying[v][k] \/ burying'[v][k].next = "none"
    BY <1>2 DEF Die, WorkerTypeOK, Nothing
  <2>4. ASSUME NEW v \in Workers \ {w}, stage[v] \in {"insert", "commit"}
        PROVE  lock'[SkuOf[current[v]]] = v
    <3>1. SkuOf[current[v]] \in Skus /\ lock[SkuOf[current[v]]] = v
      BY <2>4, InProcess DEF BookingInv
    <3> QED BY <2>1, <3>1 DEF Unlock
  <2> QED BY <2>1, <2>2, <2>3, <2>4 DEF BookingInv
<1>3. ASSUME NEW w \in Workers, Start(w) \/ Drain(w)
      PROVE  BookingInv'
  BY <1>1, <1>3 DEF Start, Drain, loopVars, processorVars, tableVars, storeVars
<1>4. CASE CheckoutStep /\ UNCHANGED workerVars
  BY <1>1, <1>4, CheckoutFrame DEF workerVars, loopVars, processorVars, tableVars
<1> QED
  BY <1>1, <1>2, <1>3, <1>4, LoopBooking, ProcessorBooking
  DEF Next, WorkerStep, PodStep, Quiet, vars, workerVars, loopVars, processorVars, storeVars,
      tableVars

-----------------------------------------------------------------------------
\* A delivery under a count that is up to date is one of the MaxDeliveryAttempts; one
\* under an outdated count is counted in late.
LEMMA DeliverCounted ==
  ASSUME TypeOK, TriesInv, NEW w \in Workers, NEW l \in Loops, NEW e \in Events,
         NEW count \in Nat, NEW assigned \in Nat,
         deliveries' = [deliveries EXCEPT ![e] = assigned], assigned > tries[e],
         Deliver(w, l, e, count) \/ UNCHANGED tries,
         \/ UNCHANGED late /\ assigned <= count
         \/ late' = [late EXCEPT ![e] = @ + 1]
  PROVE  TriesInv'
<1> USE DEF TypeOK, StoreTypeOK, WorkerTypeOK
<1>1. /\ tries[e] \in Nat /\ late[e] \in Nat /\ tries[e] <= MaxDeliveryAttempts + late[e]
      /\ MaxDeliveryAttempts \in Nat
  BY WorkerAssumption DEF TriesInv, TriesCapped
<1>2. ASSUME NEW x \in Events \ {e}
      PROVE  tries'[x] = tries[x] /\ late'[x] = late[x] /\ deliveries'[x] = deliveries[x]
  BY DEF Deliver
<1>3. deliveries'[e] = assigned
  OBVIOUS
<1>4. late'[e] \in {late[e], late[e] + 1}
  <2>1. CASE UNCHANGED late
    BY <2>1
  <2>2. CASE late' = [late EXCEPT ![e] = @ + 1]
    BY <2>2
  <2> QED BY <2>1, <2>2
<1>5. CASE UNCHANGED tries
  <2>1. tries'[e] = tries[e]
    BY <1>5
  <2>2. tries'[e] <= assigned /\ tries'[e] <= MaxDeliveryAttempts + late'[e]
    BY <1>1, <1>4, <2>1
  <2> QED BY <1>2, <1>3, <2>2 DEF TriesInv, TriesCapped
<1>6. CASE ~UNCHANGED tries
  <2>1. tries' = [tries EXCEPT ![e] = @ + 1] /\ ~Exhausted(count)
    BY <1>6 DEF Deliver
  <2>2. tries'[e] = tries[e] + 1 /\ count <= MaxDeliveryAttempts
    BY <1>1, <2>1 DEF Exhausted
  <2>3. tries'[e] <= assigned
    BY <1>1, <2>2
  <2>4. tries'[e] <= MaxDeliveryAttempts + late'[e]
    <3>1. CASE UNCHANGED late /\ assigned <= count
      BY <1>1, <2>2, <2>3, <3>1
    <3>2. CASE late' = [late EXCEPT ![e] = @ + 1]
      BY <1>1, <2>2, <3>2
    <3> QED BY <3>1, <3>2
  <2> QED BY <1>2, <1>3, <2>3, <2>4 DEF TriesInv, TriesCapped
<1> QED BY <1>5, <1>6

\* Each try is paid for by a delivery, and a delivery past the cap by a late claim.
LEMMA TriesStep ==
  ASSUME PInv, [Next]_vars
  PROVE  TriesInv'
<1> USE DEF PInv, TypeOK
<1>1. CASE UNCHANGED <<tries, late, deliveries>>
  BY <1>1 DEF TriesInv, TriesCapped
<1>a. "read" \in Loops /\ "reclaim" \in Loops
  BY DEF Loops
<1>2. ASSUME NEW w \in Workers, Read(w)
      PROVE  TriesInv'
  <2> DEFINE e == stream[cursor + 1]
  <2>1. e \in Events /\ cursor \in Nat /\ cursor < Len(stream) /\ DOMAIN stream = 1..Len(stream)
    BY <1>2 DEF Read, StoreTypeOK
  <2>2. ~HandedOut(e)
    <3>1. ASSUME NEW i \in 1..cursor, stream[i] = e
          PROVE  FALSE
      <4>1. i \in DOMAIN stream /\ cursor + 1 \in DOMAIN stream /\ i # cursor + 1
        BY <2>1
      <4> QED BY <3>1, <4>1 DEF StreamInv
    <3> QED BY <3>1 DEF HandedOut
  <2>3. deliveries[e] = 0
    BY <2>1, <2>2 DEF StreamInv, StoreTypeOK
  <2>4. 1 > tries[e]
    BY <2>1, <2>3 DEF TriesInv, WorkerTypeOK
  <2>5. /\ deliveries' = [deliveries EXCEPT ![e] = 1] /\ UNCHANGED late
        /\ Deliver(w, "read", e, 1) \/ UNCHANGED tries
    BY <1>2 DEF Read, Assign, AnswerLost
  <2>6. 1 \in Nat /\ 1 <= 1
    OBVIOUS
  <2> HIDE DEF e
  <2> QED BY <1>a, <2>1, <2>4, <2>5, <2>6, DeliverCounted
<1>3. ASSUME NEW w \in Workers, NEW e \in pending, NEW count \in Nat, Claimed(w, e, count)
      PROVE  TriesInv'
  <2>1. e \in Events /\ deliveries[e] + 1 \in Nat /\ deliveries[e] + 1 > tries[e]
    BY DEF StoreTypeOK, WorkerTypeOK, TriesInv
  <2>2. /\ deliveries' = [deliveries EXCEPT ![e] = deliveries[e] + 1]
        /\ Deliver(w, "reclaim", e, count + 1) \/ UNCHANGED tries
    BY <1>3 DEF Claimed, Assign, AnswerLost
  <2>3. \/ UNCHANGED late /\ deliveries[e] + 1 <= count + 1
        \/ late' = [late EXCEPT ![e] = @ + 1]
    BY <1>3, <2>1 DEF Claimed
  <2>4. count + 1 \in Nat
    OBVIOUS
  <2> QED BY <1>a, <2>1, <2>2, <2>3, <2>4, DeliverCounted
<1>4. ASSUME NEW w \in Workers, Reclaim(w) \/ ListLate(w) \/ ClaimLate(w)
      PROVE  TriesInv'
  <2>1. CASE Reclaim(w)
    BY <1>3, <2>1 DEF Reclaim, StoreTypeOK
  <2>2. CASE ListLate(w)
    BY <1>1, <2>2 DEF ListLate, groupVars
  <2>3. CASE ClaimLate(w)
    <3>1. listed[w].count \in Nat
      BY DEF WorkerTypeOK
    <3>2. \/ \E e \in pending : Claimed(w, e, listed[w].count)
          \/ UNCHANGED <<tries, late, deliveries>>
      BY <2>3 DEF ClaimLate, groupVars
    <3> QED BY <1>1, <1>3, <3>1, <3>2
  <2> QED BY <1>4, <2>1, <2>2, <2>3
<1>5. ASSUME NEW w \in Workers,
             \/ ProcessorStep(w) \/ PodStep(w)
             \/ \E l \in Loops : DeadLetterAdd(w, l) \/ DeadLetterAck(w, l)
      PROVE  TriesInv'
  BY <1>1, <1>5
  DEF ProcessorStep, PodStep, Take, Deduct, Insert, Commit, GiveUp, GivenUp, Ack, XAck, Start,
      Drain, Die, DeadLetterAdd, DeadLetterAck, groupVars, storeVars, loopVars
<1>6. CASE CheckoutStep /\ UNCHANGED workerVars
  BY <1>1, <1>6, CheckoutFrame DEF workerVars, loopVars, groupVars
<1> QED
  BY <1>1, <1>2, <1>4, <1>5, <1>6
  DEF Next, WorkerStep, LoopStep, Quiet, vars, storeVars, groupVars, workerVars, loopVars

-----------------------------------------------------------------------------
\* What became of an entry is not forgotten, and no entry leaves the pending list before.
LEMMA OutcomeKept ==
  ASSUME PInv, [Next]_vars
  PROVE  /\ orders \subseteq orders' /\ dropped \subseteq dropped'
         /\ \A e \in Events : dlq[e] > 0 => dlq'[e] > 0
         /\ \A e \in pending \ pending' : e \in orders' \cup dropped' \/ dlq'[e] > 0
<1> USE DEF PInv, TypeOK
<1>1. CASE UNCHANGED <<orders, dropped, dlq, pending>>
  BY <1>1
<1>2. CASE CheckoutStep /\ UNCHANGED workerVars
  BY <1>1, <1>2, CheckoutFrame DEF workerVars, processorVars, tableVars, groupVars
<1>3. ASSUME NEW w \in Workers, Read(w) \/ Reclaim(w) \/ ListLate(w) \/ ClaimLate(w)
      PROVE  UNCHANGED <<orders, dropped, dlq>> /\ pending \subseteq pending'
  BY <1>3 DEF Read, Reclaim, ListLate, ClaimLate, Claimed, Assign, processorVars, tableVars, groupVars
<1>4. ASSUME NEW w \in Workers, NEW l \in Loops, DeadLetterAdd(w, l) \/ DeadLetterAck(w, l)
      PROVE  /\ UNCHANGED <<orders, dropped>>
             /\ \A e \in Events : dlq[e] > 0 => dlq'[e] > 0
             /\ \A e \in pending \ pending' : dlq'[e] > 0
  <2>1. UNCHANGED <<orders, dropped>>
    BY <1>4 DEF DeadLetterAdd, DeadLetterAck, processorVars, tableVars
  <2>2. CASE DeadLetterAdd(w, l)
    <3>1. UNCHANGED dlq \/ \E e : dlq' = [dlq EXCEPT ![e] = @ + 1]
      BY <2>2 DEF DeadLetterAdd
    <3>2. UNCHANGED pending
      BY <2>2 DEF DeadLetterAdd, groupVars
    <3>3. ASSUME NEW e, dlq' = [dlq EXCEPT ![e] = @ + 1], NEW x \in Events, dlq[x] > 0
          PROVE  dlq'[x] > 0
      BY <3>3 DEF StoreTypeOK
    <3> QED BY <2>1, <3>1, <3>2, <3>3
  <2>3. CASE DeadLetterAck(w, l)
    <3>1. UNCHANGED dlq /\ burying[w][l].next = "ack"
      BY <2>3 DEF DeadLetterAck
    <3>2. pending \ pending' \subseteq {burying[w][l].entry}
      BY <2>3 DEF DeadLetterAck, XAck, groupVars
    <3>3. dlq[burying[w][l].entry] > 0
      BY <3>1 DEF BookingInv
    <3> QED BY <2>1, <3>1, <3>2, <3>3
  <2> QED BY <1>4, <2>2, <2>3
<1>5. ASSUME NEW w \in Workers, ProcessorStep(w)
      PROVE  /\ orders \subseteq orders' /\ dropped \subseteq dropped' /\ UNCHANGED dlq
             /\ \A e \in pending \ pending' : e \in orders' \cup dropped'
  <2>1. CASE Take(w) \/ Deduct(w) \/ Insert(w) \/ Commit(w) \/ GiveUp(w)
    BY <2>1
    DEF Take, Deduct, Insert, Commit, Apply, GiveUp, GivenUp, groupVars, tableVars, storeVars
  <2>2. CASE Ack(w)
    <3>1. UNCHANGED <<orders, dlq>> /\ dropped \subseteq dropped'
          /\ pending \ pending' \subseteq {current[w]}
      BY <2>2 DEF Ack, XAck, groupVars, tableVars
    <3>2. CASE stage[w] = "ack_committed"
      BY <3>1, <3>2 DEF BookingInv
    <3>3. CASE stage[w] = "ack_permanent"
      BY <2>2, <3>1, <3>3 DEF Ack, groupVars
    <3> QED BY <2>2, <3>1, <3>2, <3>3 DEF Ack
  <2> QED BY <1>5, <2>1, <2>2 DEF ProcessorStep
<1>6. ASSUME NEW w \in Workers, PodStep(w)
      PROVE  UNCHANGED <<orders, dropped, dlq, pending>>
  BY <1>6 DEF PodStep, Start, Drain, Die, storeVars, groupVars, tableVars, processorVars
<1> QED
  BY <1>1, <1>2, <1>3, <1>4, <1>5, <1>6
  DEF Next, WorkerStep, LoopStep, Quiet, vars, storeVars, groupVars, tableVars, workerVars,
      processorVars

\* Nothing that was read is neither pending nor accounted for.
LEMMA LostStep ==
  ASSUME PInv, [Next]_vars
  PROVE  NothingLost'
<1> USE DEF PInv, TypeOK
<1>1. ASSUME NEW i \in 1..cursor
      PROVE  stream'[i] \in pending' \cup orders' \cup dropped' \/ dlq'[stream'[i]] > 0
  <2>1. stream'[i] = stream[i] /\ stream[i] \in Events
    BY StreamGrows DEF StoreTypeOK
  <2>2. stream[i] \in pending \cup orders \cup dropped \/ dlq[stream[i]] > 0
    BY DEF NothingLost
  <2> QED BY <2>1, <2>2, OutcomeKept
<1>2. CASE cursor' = cursor
  BY <1>1, <1>2 DEF NothingLost
<1>3. CASE cursor' = cursor + 1
  <2>1. cursor \in Nat
    BY DEF StoreTypeOK
  <2>2. UNCHANGED cursor \/ \E w \in Workers : Read(w)
    BY CheckoutFrame, WorkerFrame DEF Next, Quiet, vars, storeVars, groupVars
  <2>3. PICK w \in Workers : Read(w)
    BY <1>3, <2>1, <2>2
  <2>4. stream'[cursor + 1] \in pending'
    BY <2>3 DEF Read, Assign
  <2>5. \A i \in 1..cursor' : i \in 1..cursor \/ i = cursor + 1
    BY <1>3, <2>1
  <2> QED BY <1>1, <2>4, <2>5 DEF NothingLost
<1> QED BY <1>2, <1>3, StreamGrows

-----------------------------------------------------------------------------
\* The pipeline keeps PInv, whatever fails, stalls or dies.
THEOREM Invariance == Spec => []PInv
<1>1. Init => PInv
  BY InitInv
<1>2. PInv /\ [Next]_vars => PInv'
  BY TypeStep, ClaimStep, StreamStep, InHandStep, BookingStep, TriesStep, LostStep DEF PInv
<1> QED BY <1>1, <1>2, PTL DEF Spec

\* What the gateway, the workers and their stores keep has its declared type.
THEOREM TypeCorrect == Spec => []TypeOK
<1>1. PInv => TypeOK
  BY DEF PInv
<1> QED BY <1>1, Invariance, PTL

\* IdempotencyService: one key puts at most one entry on the stream.
THEOREM OneEntry == Spec => []OneEntryPerKey
<1>1. PInv => OneEntryPerKey
  BY DEF PInv, ClaimInv, Holds, OneEntryPerKey
<1> QED BY <1>1, Invariance, PTL

\* At-least-once: an acknowledged entry was booked, rejected or copied.
THEOREM NoEntryLost == Spec => []NothingLost
<1>1. PInv => NothingLost
  BY DEF PInv
<1> QED BY <1>1, Invariance, PTL

\* MaxDeliveryAttempts bounds the tries, but for claims under an outdated count.
THEOREM TriesBounded == Spec => []TriesCapped
<1>1. PInv => TriesCapped
  BY DEF PInv, TriesInv
<1> QED BY <1>1, Invariance, PTL

-----------------------------------------------------------------------------
\* A step publishes one entry, commits one order, or neither.
LEMMA BookStep ==
  ASSUME PInv, [Next]_vars
  PROVE  [Book!Next]_Book!vars
<1> USE DEF PInv, TypeOK, Book!vars
<1>1. CASE UNCHANGED <<stream, orders, stock>>
  BY <1>1 DEF Published
<1>2. CASE CheckoutStep
  <2>1. UNCHANGED <<orders, stock>>
    BY <1>2, CheckoutFrame DEF tableVars
  <2>2. CASE UNCHANGED stream
    BY <1>1, <2>1, <2>2
  <2>3. ASSUME NEW e \in Events, ~Published(e), XAdd(e)
        PROVE  Book!Next
    <3>1. {x \in Events : Published(x)}' = {x \in Events : Published(x)} \cup {e}
      BY <2>3, Appended
    <3>2. Book!Offer(e)
      BY <2>1, <2>3, <3>1 DEF Book!Offer
    <3> QED BY <3>2 DEF Book!Next, Events
  <2> QED BY <1>2, <2>2, <2>3, CheckoutFrame
<1>3. ASSUME NEW w \in Workers, Commit(w)
      PROVE  Book!Next
  <2> DEFINE e == current[w]
  <2>1. /\ e \in Attempts /\ Published(e) /\ e \notin orders /\ stock[SkuOf[e]] >= Quantity[e]
        /\ orders' = orders \cup {e} /\ stock' = [stock EXCEPT ![SkuOf[e]] = @ - Quantity[e]]
        /\ UNCHANGED stream
    BY <1>3, InProcess DEF Commit, Apply, BookingInv
  <2>2. {x \in Events : Published(x)}' = {x \in Events : Published(x)}
    BY <2>1 DEF Published
  <2>3. Book!Book(e)
    BY <2>1, <2>2 DEF Book!Book, Events
  <2> QED BY <2>1, <2>3 DEF Book!Next
<1>4. ASSUME NEW w \in Workers, LoopStep(w) \/ ProcessorStep(w) \/ PodStep(w), ~Commit(w)
      PROVE  UNCHANGED <<stream, orders, stock>>
  BY <1>4
  DEF LoopStep, ProcessorStep, PodStep, Read, Reclaim, ListLate, ClaimLate, DeadLetterAdd,
      DeadLetterAck, Take, Deduct, Insert, GiveUp, Ack, Start, Drain, Die, storeVars, tableVars
<1> QED
  BY <1>1, <1>2, <1>3, <1>4 DEF Next, WorkerStep, Quiet, vars, storeVars, tableVars

\* Exactly-once effects: the pipeline implements the order book.
THEOREM Refinement == Spec => ImplementsOrderBook
<1>1. Init => Book!Init
  BY DEF Init, StoreInit, Published, Book!Init
<1>2. PInv /\ [Next]_vars => [Book!Next]_Book!vars
  BY BookStep
<1> QED BY <1>1, <1>2, Invariance, PTL DEF Spec, ImplementsOrderBook, Book!Spec

-----------------------------------------------------------------------------
\* What is on the shelf, of each sku.
OnShelf == \A s \in Skus : stock[s] \in 0..InitialStock[s]

\* A step of the order book takes off the shelf no more than is there.
LEMMA ShelfStep ==
  ASSUME PInv, [Next]_vars
  PROVE  \A s \in Skus : /\ stock[s] \in Nat => stock'[s] \in Nat
                         /\ stock'[s] <= stock[s]
<1>0. stock \in [Skus -> Int]
  BY DEF PInv, TypeOK, StoreTypeOK
<1>1. CASE UNCHANGED stock
  BY <1>0, <1>1
<1>2. ASSUME NEW a \in Attempts, Book!Book(a)
      PROVE  \A s \in Skus : /\ stock[s] \in Nat => stock'[s] \in Nat
                             /\ stock'[s] <= stock[s]
  <2>1. SkuOf[a] \in Skus /\ Quantity[a] \in Nat
    BY StoreAssumption
  <2>2. /\ stock[SkuOf[a]] >= Quantity[a]
        /\ stock' = [stock EXCEPT ![SkuOf[a]] = @ - Quantity[a]]
    BY <1>2 DEF Book!Book
  <2>3. /\ stock'[SkuOf[a]] = stock[SkuOf[a]] - Quantity[a]
        /\ \A s \in Skus \ {SkuOf[a]} : stock'[s] = stock[s]
    BY <1>0, <2>1, <2>2
  <2>4. stock[SkuOf[a]] \in Int /\ \A s \in Skus : stock[s] \in Int
    BY <1>0, <2>1
  <2> QED BY <2>1, <2>2, <2>3, <2>4
<1> QED BY <1>1, <1>2, BookStep DEF Book!Next, Book!Offer, Book!vars

\* However many pods book at once and however often an entry is delivered, the shop never
\* sells what it does not have, and no crash or retry puts anything back.
THEOREM NeverOversold ==
  Spec => []OnShelf /\ [][\A s \in Skus : stock'[s] <= stock[s]]_vars
<1>1. Init => OnShelf
  BY StoreAssumption DEF Init, StoreInit, OnShelf
<1>2. PInv /\ OnShelf /\ [Next]_vars => OnShelf'
  <2> SUFFICES ASSUME PInv, OnShelf, [Next]_vars, NEW s \in Skus
               PROVE  stock'[s] \in 0..InitialStock[s]
    BY DEF OnShelf
  <2>1. InitialStock[s] \in Nat /\ stock[s] \in Nat /\ stock[s] <= InitialStock[s]
    BY StoreAssumption DEF OnShelf
  <2>2. stock'[s] \in Nat /\ stock'[s] <= stock[s]
    BY <2>1, ShelfStep
  <2> QED BY <2>1, <2>2
<1>3. PInv /\ [Next]_vars => [\A s \in Skus : stock'[s] <= stock[s]]_vars
  BY ShelfStep
<1> QED BY <1>1, <1>2, <1>3, Invariance, PTL DEF Spec

-----------------------------------------------------------------------------
\* Only a first reading adds to the pending list.
LEMMA PendingGrows ==
  ASSUME PInv, [Next]_vars, NEW e \in pending' \ pending
  PROVE  e = stream[cursor + 1] /\ cursor + 1 \in DOMAIN stream
<1>1. CASE UNCHANGED pending
  BY <1>1
<1>2. CASE CheckoutStep
  BY <1>1, <1>2, CheckoutFrame DEF groupVars
<1>3. ASSUME NEW w \in Workers, Read(w)
      PROVE  e = stream[cursor + 1] /\ cursor + 1 \in DOMAIN stream
  <2>1. pending' = pending \cup {stream[cursor + 1]} /\ cursor < Len(stream)
    BY <1>3 DEF Read, Assign
  <2>2. cursor \in Nat /\ DOMAIN stream = 1..Len(stream) /\ Len(stream) \in Nat
    BY DEF PInv, TypeOK, StoreTypeOK
  <2> QED BY <2>1, <2>2
<1>4. ASSUME NEW w \in Workers, LoopStep(w) \/ ProcessorStep(w) \/ PodStep(w), ~Read(w)
      PROVE  pending' \subseteq pending
  BY <1>4
  DEF LoopStep, ProcessorStep, PodStep, Reclaim, ListLate, ClaimLate, Claimed, Assign, XAck,
      DeadLetterAdd, DeadLetterAck, Take, Deduct, Insert, Commit, GiveUp, GivenUp, Ack, Start,
      Drain, Die, storeVars, groupVars
<1> QED
  BY <1>1, <1>2, <1>3, <1>4 DEF Next, WorkerStep, Quiet, vars, storeVars, groupVars

\* An entry that was settled stays settled: no overdue claim, reclaim or restarted pod
\* brings an acknowledged entry back.
THEOREM SettledForGood == Spec => [][\A e \in Events : Settled(e) => Settled(e)']_vars
<1>1. ASSUME PInv, [Next]_vars, NEW e \in Events, Settled(e)
      PROVE  Settled(e)'
  <2>1. PICK i \in 1..cursor : stream[i] = e
    BY <1>1 DEF Settled, HandedOut
  <2>2. cursor \in Nat /\ cursor <= Len(stream) /\ DOMAIN stream = 1..Len(stream)
        /\ Len(stream) \in Nat
    BY <1>1 DEF PInv, TypeOK, StoreTypeOK
  <2>3. HandedOut(e)'
    BY <1>1, StreamGrows DEF Settled
  <2>4. e \notin pending'
    <3>1. SUFFICES ASSUME e \in pending' \ pending PROVE FALSE
      BY <1>1 DEF Settled
    <3>2. e = stream[cursor + 1] /\ cursor + 1 \in DOMAIN stream
      BY <1>1, <3>1, PendingGrows
    <3>3. i \in DOMAIN stream /\ i # cursor + 1
      BY <2>1, <2>2
    <3> QED BY <1>1, <2>1, <3>2, <3>3 DEF PInv, StreamInv
  <2> QED BY <2>3, <2>4 DEF Settled
<1>2. PInv /\ [Next]_vars => [\A e \in Events : Settled(e) => Settled(e)']_vars
  BY <1>1
<1> QED BY <1>2, Invariance, PTL DEF Spec

-----------------------------------------------------------------------------
\* A pod committed e and has yet to acknowledge it.
AckDue(e) == \E w \in Workers : stage[w] = "ack_committed" /\ current[w] = e

\* e is booked and pending, and whoever booked it will not acknowledge it: the pod died,
\* was cancelled, or never saw the answer to its COMMIT or its XACK.
Orphaned(e) == e \in orders /\ e \in pending /\ ~AckDue(e)

\* An acknowledgement of a commit is due only after a commit.
LEMMA AckDueStep ==
  ASSUME PInv, [Next]_vars, NEW e \in orders, ~AckDue(e)
  PROVE  ~AckDue(e)'
<1> USE DEF PInv, TypeOK
<1>1. CASE UNCHANGED <<stage, current>>
  BY <1>1 DEF AckDue
<1>2. ASSUME NEW w \in Workers, Commit(w)
      PROVE  ~AckDue(e)'
  <2>1. current[w] # e
    BY <1>2 DEF Commit, BookingInv
  <2>2. /\ \A v \in Workers \ {w} : stage'[v] = stage[v] /\ current'[v] = current[v]
        /\ stage'[w] = "idle" \/ current'[w] = current[w]
    BY <1>2 DEF Commit, Reach, Done, WorkerTypeOK
  <2> QED BY <2>1, <2>2 DEF AckDue
<1>3. ASSUME NEW w \in Workers, ProcessorStep(w) \/ Die(w), ~Commit(w)
      PROVE  ~AckDue(e)'
  <2>1. /\ \A v \in Workers \ {w} : stage'[v] = stage[v] /\ current'[v] = current[v]
        /\ stage'[w] # "ack_committed" \/ (stage'[w] = stage[w] /\ current'[w] = current[w])
    BY <1>3 DEF ProcessorStep, Take, Deduct, Insert, GiveUp, Ack, Die, Reach, Done, WorkerTypeOK
  <2> QED BY <2>1 DEF AckDue
<1> QED
  BY <1>1, <1>2, <1>3
  DEF Next, WorkerStep, LoopStep, PodStep, Read, Reclaim, ListLate, ClaimLate, DeadLetterAdd,
      DeadLetterAck, Start, Drain, Quiet, vars, workerVars, processorVars

\* Who takes an entry off the pending list, and on which account.
LEMMA PendingShrinks ==
  ASSUME PInv, [Next]_vars, NEW e \in pending \ pending'
  PROVE  AckDue(e) \/ e \in dropped' \/ dlq'[e] > 0
<1> USE DEF PInv, TypeOK
<1>1. CASE UNCHANGED pending
  BY <1>1
<1>2. CASE CheckoutStep
  BY <1>1, <1>2, CheckoutFrame DEF groupVars
<1>3. ASSUME NEW w \in Workers, Ack(w)
      PROVE  AckDue(e) \/ e \in dropped'
  <2>1. e = current[w]
    BY <1>3 DEF Ack, XAck, groupVars
  <2>2. CASE stage[w] = "ack_committed"
    BY <2>1, <2>2 DEF AckDue
  <2>3. CASE stage[w] = "ack_permanent"
    BY <1>3, <2>1, <2>3 DEF Ack, groupVars
  <2> QED BY <1>3, <2>2, <2>3 DEF Ack
<1>4. ASSUME NEW w \in Workers, NEW l \in Loops, DeadLetterAck(w, l)
      PROVE  dlq'[e] > 0
  <2>1. e = burying[w][l].entry /\ burying[w][l].next = "ack" /\ UNCHANGED dlq
    BY <1>4 DEF DeadLetterAck, XAck, groupVars
  <2> QED BY <2>1 DEF BookingInv
<1>5. ASSUME NEW w \in Workers, LoopStep(w) \/ ProcessorStep(w) \/ PodStep(w), ~Ack(w),
             ~\E l \in Loops : DeadLetterAck(w, l)
      PROVE  pending \subseteq pending'
  BY <1>5
  DEF LoopStep, ProcessorStep, PodStep, Read, Reclaim, ListLate, ClaimLate, Claimed, Assign,
      DeadLetterAdd, Take, Deduct, Insert, Commit, GiveUp, GivenUp, Start, Drain, Die,
      storeVars, groupVars
<1> QED
  BY <1>1, <1>2, <1>3, <1>4, <1>5 DEF Next, WorkerStep, Quiet, vars, storeVars, groupVars

\* The unique event_id keeps a redelivered order from being booked twice, and its violation
\* is classified as transient: once the acknowledgement of a booked order is lost, the order
\* is never acknowledged as booked.  It stays pending until it is copied to the dead-letter
\* stream or, the shelf being empty by then, rejected for lack of stock.
THEOREM LostAckNeverRepaired ==
  Spec => [][\A e \in Events :
               Orphaned(e) => Orphaned(e)' \/ e \in dropped' \/ dlq'[e] > 0]_vars
<1>1. ASSUME PInv, [Next]_vars, NEW e \in Events, Orphaned(e)
      PROVE  Orphaned(e)' \/ e \in dropped' \/ dlq'[e] > 0
  <2>1. e \in orders' /\ ~AckDue(e)'
    BY <1>1, OutcomeKept, AckDueStep DEF Orphaned
  <2>2. CASE e \in pending'
    BY <2>1, <2>2 DEF Orphaned
  <2>3. CASE e \notin pending'
    BY <1>1, <2>3, PendingShrinks DEF Orphaned
  <2> QED BY <2>2, <2>3
<1>2. PInv /\ [Next]_vars =>
        [\A e \in Events : Orphaned(e) => Orphaned(e)' \/ e \in dropped' \/ dlq'[e] > 0]_vars
  BY <1>1
<1> QED BY <1>2, Invariance, PTL DEF Spec

-----------------------------------------------------------------------------
\* A row is locked by a transaction that is under way on it, in a pod that runs.
RowsHeldByTheLiving ==
  \A s \in Skus, w \in Workers :
    lock[s] = w => /\ pod[w] \in {"live", "draining"}
                   /\ stage[w] \in {"insert", "commit"} /\ SkuOf[current[w]] = s
LockInv ==
  /\ RowsHeldByTheLiving
  /\ \A w \in Workers : stage[w] # "idle" => pod[w] \in {"live", "draining"}

\* Every way out of a transaction gives its row back.
LEMMA LockStep ==
  ASSUME PInv, LockInv, [Next]_vars
  PROVE  LockInv'
<1> USE DEF PInv, TypeOK
<1>0. \A w \in Workers : w # NoOne
  BY StoreAssumption
<1>1. CASE UNCHANGED <<lock, pod, stage, current>>
  BY <1>1 DEF LockInv, RowsHeldByTheLiving
<1>2. CASE CheckoutStep /\ UNCHANGED workerVars
  BY <1>1, <1>2, CheckoutFrame DEF tableVars, workerVars, processorVars
<1>3. ASSUME NEW w \in Workers, LoopStep(w)
      PROVE  UNCHANGED <<lock, pod, stage, current>>
  BY <1>3 DEF LoopStep, Read, Reclaim, ListLate, ClaimLate, DeadLetterAdd, DeadLetterAck,
              processorVars, tableVars
<1>4. ASSUME NEW w \in Workers, Take(w)
      PROVE  LockInv'
  <2>1. /\ UNCHANGED <<lock, pod>> /\ stage[w] = "idle" /\ pod[w] \in {"live", "draining"}
        /\ \A v \in Workers \ {w} : stage'[v] = stage[v] /\ current'[v] = current[v]
    BY <1>4 DEF Take, Reach, WorkerTypeOK, tableVars
  <2>2. \A s \in Skus : lock[s] # w
    BY <2>1 DEF LockInv, RowsHeldByTheLiving
  <2> QED BY <2>1, <2>2 DEF LockInv, RowsHeldByTheLiving
<1>5. ASSUME NEW w \in Workers, Deduct(w)
      PROVE  LockInv'
  <2> DEFINE sku == SkuOf[current[w]]
  <2>1. /\ UNCHANGED <<pod, current>> /\ pod[w] = "live" /\ stage[w] = "deduct"
        /\ \A v \in Workers \ {w} : stage'[v] = stage[v]
    BY <1>5 DEF Deduct, Reach, WorkerTypeOK
  <2>2. \A s \in Skus : lock[s] # w
    BY <2>1 DEF LockInv, RowsHeldByTheLiving
  <2>3. \/ UNCHANGED lock
        \/ stage'[w] = "insert" /\ \A s \in Skus : lock'[s] = IF s = sku THEN w ELSE lock[s]
    BY <1>5 DEF Deduct, Reach, WorkerTypeOK, StoreTypeOK
  <2> QED BY <2>1, <2>2, <2>3 DEF LockInv, RowsHeldByTheLiving
<1>6. ASSUME NEW w \in Workers, Insert(w)
      PROVE  LockInv'
  <2>1. /\ UNCHANGED <<pod, current, lock>> /\ pod[w] = "live" /\ stage'[w] = "commit"
        /\ \A v \in Workers \ {w} : stage'[v] = stage[v]
    BY <1>6 DEF Insert, Reach, WorkerTypeOK, storeVars, tableVars
  <2>2. stage[w] = "insert"
    BY <1>6 DEF Insert
  <2> QED BY <2>1, <2>2 DEF LockInv, RowsHeldByTheLiving
<1>7. ASSUME NEW w \in Workers, Commit(w) \/ GiveUp(w) \/ Die(w)
      PROVE  LockInv'
  <2>1. /\ \A v \in Workers \ {w} : /\ stage'[v] = stage[v] /\ current'[v] = current[v]
                                    /\ pod'[v] = pod[v]
        /\ stage'[w] = "idle" \/ pod'[w] \in {"live", "draining"}
    BY <1>7 DEF Commit, GiveUp, Die, Done, Reach, WorkerTypeOK
  <2>2. lock' = [s \in Skus |-> IF lock[s] = w THEN NoOne ELSE lock[s]]
    BY <1>7 DEF Commit, GiveUp, Die, Unlock
  <2>3. \A s \in Skus : lock'[s] # w /\ \A v \in Workers : lock'[s] = v => lock[s] = v
    BY <1>0, <2>2
  <2> QED BY <2>1, <2>3 DEF LockInv, RowsHeldByTheLiving
<1>8. ASSUME NEW w \in Workers, Ack(w)
      PROVE  LockInv'
  <2>1. /\ UNCHANGED <<pod, lock>> /\ stage'[w] = "idle" /\ stage[w] \notin {"insert", "commit"}
        /\ \A v \in Workers \ {w} : stage'[v] = stage[v] /\ current'[v] = current[v]
    BY <1>8 DEF Ack, Done, Reach, WorkerTypeOK, tableVars
  <2> QED BY <2>1 DEF LockInv, RowsHeldByTheLiving
<1>9. ASSUME NEW w \in Workers, Start(w) \/ Drain(w)
      PROVE  LockInv'
  <2>1. /\ UNCHANGED <<lock, stage, current>> /\ pod'[w] \in {"live", "draining"}
        /\ \A v \in Workers \ {w} : pod'[v] = pod[v]
    BY <1>9 DEF Start, Drain, WorkerTypeOK, storeVars, tableVars, processorVars
  <2> QED BY <2>1 DEF LockInv, RowsHeldByTheLiving
<1> QED
  BY <1>1, <1>2, <1>3, <1>4, <1>5, <1>6, <1>7, <1>8, <1>9
  DEF Next, WorkerStep, ProcessorStep, PodStep, Quiet, vars, storeVars, tableVars, workerVars,
      processorVars

\* The deferred rollback: whichever command failed and however its pod went down, no
\* inventory row stays locked by a transaction that is over, and a transaction that waits
\* for a row holds none, so transactions never wait for each other in a circle.
THEOREM NoLockLeaks == Spec => []RowsHeldByTheLiving
<1>1. Init => LockInv
  BY StoreAssumption DEF Init, StoreInit, WorkerInit, LockInv, RowsHeldByTheLiving
<1>2. PInv /\ LockInv /\ [Next]_vars => LockInv'
  BY LockStep
<1>3. LockInv => RowsHeldByTheLiving
  BY DEF LockInv
<1> QED BY <1>1, <1>2, <1>3, Invariance, PTL DEF Spec
=============================================================================
