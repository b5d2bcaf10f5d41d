-------------------------- MODULE CoordinatorProofs --------------------------
(***************************************************************************)
(* Proofs about Coordinator, for any workers, requests and bounds: who     *)
(* owns a job, and what the clients can rely on, from announcements that   *)
(* speak for every worker and one answer per job to the service of         *)
(* JobService as a whole.                                                  *)
(***************************************************************************)
EXTENDS Coordinator, QueueLemmas, FiniteSetTheorems

-----------------------------------------------------------------------------
(* Types are preserved by whatever leaves the variables of a group alone.  *)
LEMMA TypeUnchanged ==
    /\ TypeReports /\ UNCHANGED reportVars => TypeReports'
    /\ TypeClients /\ UNCHANGED clientVars => TypeClients'
    /\ TypeWorkers /\ UNCHANGED workerVars => TypeWorkers'
    /\ TypeJobs /\ UNCHANGED jobVars => TypeJobs'
  BY DEF TypeReports, TypeClients, TypeWorkers, TypeJobs,
         reportVars, clientVars, workerVars, jobVars

(* The type invariant is preserved by every step of the coordinator.       *)
LEMMA TypeStepCoordinator ==
    ASSUME TypeOK,
           \/ \E r \in Requests : Submit(r)
           \/ Shutdown
           \/ QueueLoop
    PROVE  TypeOK'
  <1> USE DEF Phases
  <1>1. ASSUME NEW r \in Requests, Submit(r)
        PROVE  TypeOK'
    <2>1. TypeClients'
      <3>1. Append(submitted, r) \in Seq(Requests)
        BY AppendRange DEF TypeOK, TypeClients
      <3>2. Append(answers[r], "refused") \in Seq(Terminal \cup {"lost", "refused"})
        BY AppendRange DEF TypeOK, TypeClients
      <3> QED
        BY <1>1, <3>1, <3>2 DEF Submit, TypeOK, TypeClients
    <2>2. TypeJobs'
      <3>1. Append(queue, r) \in Seq(Requests)
        BY AppendRange DEF TypeOK, TypeJobs
      <3> QED
        BY <1>1, <3>1 DEF Submit, TypeOK, TypeJobs
    <2> QED
      BY <1>1, <2>1, <2>2, TypeUnchanged DEF Submit, TypeOK
  <1>2. CASE Shutdown
    <2>1. \A w \in Workers : holds'[w] \in Seq(Requests)
      BY <1>2, SubSeqRange DEF Shutdown, TypeOK, TypeWorkers
    <2>2. TypeWorkers'
      BY <1>2, <2>1 DEF Shutdown, TypeOK, TypeWorkers
    <2> QED
      BY <1>2, <2>2, TypeUnchanged DEF Shutdown, TypeOK
  <1>3. CASE Dispatch
    <2>1. Head(queue) \in Requests /\ Tail(queue) \in Seq(Requests)
      BY <1>3, TailRange DEF Dispatch, TypeOK, TypeJobs
    <2>2. PICK w \in Chosen(Head(queue)) :
             /\ running' = [running EXCEPT ![w] = @ \cup {Head(queue)}]
             /\ dispatched' = [dispatched EXCEPT ![w] = @ + 1]
             /\ requestWorker' = [requestWorker EXCEPT ![Head(queue)] = w]
             /\ sticky' = IF StickySessions /\ KeyOf[Head(queue)] # NoKey
                          THEN [sticky EXCEPT ![KeyOf[Head(queue)]] = w] ELSE sticky
             /\ holds' = [holds EXCEPT ![w] = Append(@, Head(queue))]
      BY <1>3 DEF Dispatch
    <2>3. w \in Workers
      BY <2>2 DEF Chosen, LiveMatching
    <2>4. TypeJobs'
      <3>1. queue' \in Seq(Requests) /\ deferred' \in Seq(Requests)
        BY <1>3, <2>1 DEF Dispatch, TypeOK, TypeJobs
      <3>2. sticky' \in [Keys -> Workers \cup {NoWorker}]
        BY <2>1, <2>2, <2>3, RequestsAssumption DEF TypeOK, TypeJobs
      <3>3. /\ running' \in [Workers -> SUBSET Requests]
            /\ dispatched' \in [Workers -> Nat]
            /\ requestWorker' \in [Requests -> Workers \cup {NoWorker}]
        BY <2>1, <2>2, <2>3 DEF TypeOK, TypeJobs
      <3> QED
        BY <3>1, <3>2, <3>3 DEF TypeJobs
    <2>5. TypeWorkers'
      <3>1. Append(holds[w], Head(queue)) \in Seq(Requests)
        BY <2>1, <2>3, AppendRange DEF TypeOK, TypeWorkers
      <3> QED
        BY <1>3, <2>2, <2>3, <3>1 DEF Dispatch, TypeOK, TypeWorkers
    <2> QED
      BY <1>3, <2>4, <2>5, TypeUnchanged DEF Dispatch, TypeOK
  <1>4. CASE Defer \/ KeepQueued
    <2>1. Head(queue) \in Requests /\ Tail(queue) \in Seq(Requests)
      BY <1>4, TailRange DEF Defer, KeepQueued, TypeOK, TypeJobs
    <2>2. Append(deferred, Head(queue)) \in Seq(Requests)
      BY <2>1, AppendRange DEF TypeOK, TypeJobs
    <2>3. TypeJobs'
      BY <1>4, <2>1, <2>2 DEF Defer, KeepQueued, TypeOK, TypeJobs
    <2> QED
      BY <1>4, <2>3, TypeUnchanged DEF Defer, KeepQueued, TypeOK
  <1>5. CASE EndOfQueue
    <2>1. TypeJobs'
      BY <1>5 DEF EndOfQueue, TypeOK, TypeJobs
    <2> QED
      BY <1>5, <2>1, TypeUnchanged DEF EndOfQueue, TypeOK
  <1>6. CASE RefuseQueued
    <2>1. Head(queue) \in Requests /\ Tail(queue) \in Seq(Requests)
      BY <1>6, TailRange DEF RefuseQueued, TypeOK, TypeJobs
    <2>2. TypeJobs'
      BY <1>6, <2>1 DEF RefuseQueued, TypeOK, TypeJobs
    <2>3. TypeClients'
      BY <1>6, <2>1 DEF RefuseQueued, TypeOK, TypeClients
    <2> QED
      BY <1>6, <2>2, <2>3, TypeUnchanged DEF RefuseQueued, TypeOK
  <1> QED
    BY <1>1, <1>2, <1>3, <1>4, <1>5, <1>6 DEF QueueLoop

(* ... and by every event it handles and every silence it finds.           *)
LEMMA TypeStepSupervision ==
    ASSUME TypeOK,
           NEW w \in Workers,
           HandleEvent(w) \/ DeclareUnresponsive(w)
    PROVE  TypeOK'
  <1> USE DEF Phases
  <1>1. CASE HandleEvent(w)
    <2>1. Hear(w)
      BY <1>1 DEF HandleEvent, HandleReport, HandleProgress, HandleAnswer
    <2>2. Head(events[w]) \in Event /\ Tail(events[w]) \in Seq(Event)
      BY <2>1, TailRange DEF Hear, TypeOK, TypeWorkers
    <2>3. TypeWorkers'
      BY <2>1, <2>2 DEF Hear, TypeOK, TypeWorkers
    <2>4. announced' \in Announcements \cup {"none"}
      BY <1>1 DEF HandleEvent, HandleReport, HandleProgress, HandleAnswer,
                  PublishClusterStatus, TypeOK, TypeReports
    <2>5. CASE HandleReport(w)
      <3>1. Head(events[w]).status \in WorkerStatus /\ Head(events[w]).preset \in Presets \cup {NoPreset}
        BY <2>2, <2>5 DEF HandleReport, Event, ReportEvent, JobEvent, Terminal
      <3>2. TypeReports'
        BY <2>1, <2>4, <2>5, <3>1, WorkersAssumption DEF HandleReport, Hear, TypeOK, TypeReports
      <3>3. TypeJobs' /\ TypeClients' /\ serving' \in BOOLEAN /\ phase' \in Phases
        BY <2>1, <2>5 DEF HandleReport, PhaseAfterEvent, Hear, TypeOK, TypeJobs, TypeClients
      <3> QED
        BY <2>3, <3>2, <3>3 DEF TypeOK
    <2>6. CASE HandleProgress(w)
      <3>1. TypeReports'
        BY <2>1, <2>4, <2>6 DEF HandleProgress, Hear, TypeOK, TypeReports
      <3>2. TypeJobs' /\ TypeClients' /\ serving' \in BOOLEAN /\ phase' \in Phases
        BY <2>1, <2>6 DEF HandleProgress, PhaseAfterEvent, Hear, TypeOK, TypeJobs, TypeClients
      <3> QED
        BY <2>3, <3>1, <3>2 DEF TypeOK
    <2>7. CASE HandleAnswer(w)
      <3>1. Head(events[w]).kind \in Terminal /\ Head(events[w]).request \in Requests
        BY <2>2, <2>7 DEF HandleAnswer, Event, ReportEvent, JobEvent, Terminal
      <3>2. TypeReports'
        BY <2>1, <2>4, <2>7 DEF HandleAnswer, Hear, TypeOK, TypeReports
      <3>3. Append(answers[Head(events[w]).request], Head(events[w]).kind)
               \in Seq(Terminal \cup {"lost", "refused"})
        BY <3>1, AppendRange DEF TypeOK, TypeClients
      <3>4. TypeClients'
        BY <2>1, <2>7, <3>1, <3>3 DEF HandleAnswer, Hear, TypeOK, TypeClients
      <3>5. TypeJobs'
        BY <2>1, <2>7, <3>1 DEF HandleAnswer, FreeSlot, Hear, TypeOK, TypeJobs
      <3>6. serving' \in BOOLEAN /\ phase' \in Phases
        BY <2>1, <2>7 DEF HandleAnswer, PhaseAfterAnswer, Hear, TypeOK
      <3> QED
        BY <2>3, <3>2, <3>4, <3>5, <3>6 DEF TypeOK
    <2> QED
      BY <1>1, <2>5, <2>6, <2>7 DEF HandleEvent
  <1>2. CASE DeclareUnresponsive(w)
    <2>1. TypeJobs'
      BY <1>2 DEF DeclareUnresponsive, SessionsWithout, TypeOK, TypeJobs
    <2>2. TypeReports'
      BY <1>2 DEF DeclareUnresponsive, TypeOK, TypeReports
    <2>3. TypeClients'
      <3>1. \A r \in Requests : Append(answers[r], "lost") \in Seq(Terminal \cup {"lost", "refused"})
        BY AppendRange DEF TypeOK, TypeClients
      <3> QED
        BY <1>2, <3>1 DEF DeclareUnresponsive, TypeOK, TypeClients
    <2>4. TypeWorkers'
      BY <1>2, BoundsAssumption DEF DeclareUnresponsive, TypeOK, TypeWorkers
    <2> QED
      BY <1>2, <2>1, <2>2, <2>3, <2>4 DEF DeclareUnresponsive, TypeOK
  <1> QED
    BY <1>1, <1>2

(* ... and by every step of a worker.                                      *)
LEMMA TypeStepWorker ==
    ASSUME TypeOK,
           NEW w \in Workers,
           \/ WorkerStarts(w) \/ WorkerReports(w) \/ WorkerComputes(w)
           \/ WorkerCrashes(w)
    PROVE  TypeOK'
  <1> DEFINE Same == UNCHANGED coordinatorVars
  <1>1. ASSUME Same, TypeWorkers'
        PROVE  TypeOK'
    BY <1>1, TypeUnchanged DEF coordinatorVars, TypeOK
  <1>2. \A e \in Event : Append(events[w], e) \in Seq(Event)
    BY AppendRange DEF TypeOK, TypeWorkers
  <1>3. CASE WorkerStarts(w)
    <2> DEFINE e == [kind |-> "report", preset |-> ConfigPreset[w],
                     status |-> IF w \in Preloads THEN "ready" ELSE "listening"]
    <2>1. e \in Event
      BY WorkersAssumption DEF Event, ReportEvent, WorkerStatus
    <2>2. events' \in [Workers -> Seq(Event)]
      BY <1>2, <1>3, <2>1 DEF WorkerStarts, TypeOK, TypeWorkers
    <2>3. warm' \in [Workers -> BOOLEAN]
      <3>1. /\ [warm EXCEPT ![w] = TRUE] \in [Workers -> BOOLEAN]
            /\ [warm EXCEPT ![w] = FALSE] \in [Workers -> BOOLEAN]
        BY DEF TypeOK, TypeWorkers
      <3>2. warm' = [warm EXCEPT ![w] = w \in Preloads]
        BY <1>3 DEF WorkerStarts
      <3>3. CASE w \in Preloads
        BY <3>1, <3>2, <3>3
      <3>4. CASE w \notin Preloads
        BY <3>1, <3>2, <3>4
      <3> QED
        BY <3>3, <3>4
    <2>4. /\ up' \in [Workers -> BOOLEAN]
          /\ loaded' \in [Workers -> Presets \cup {NoPreset}]
          /\ starts' \in [Workers -> Nat]
      <3>1. ConfigPreset[w] \in Presets
        BY WorkersAssumption
      <3>2. up' = [up EXCEPT ![w] = TRUE]
        BY <1>3 DEF WorkerStarts
      <3>3. loaded' = [loaded EXCEPT ![w] = ConfigPreset[w]]
        BY <1>3 DEF WorkerStarts
      <3>4. starts' = [starts EXCEPT ![w] = @ + 1]
        BY <1>3 DEF WorkerStarts
      <3> QED
        BY <3>1, <3>2, <3>3, <3>4 DEF TypeOK, TypeWorkers
    <2>5. TypeWorkers'
      BY <1>3, <2>2, <2>3, <2>4 DEF WorkerStarts, TypeOK, TypeWorkers
    <2> QED
      BY <1>1, <1>3, <2>5 DEF WorkerStarts
  <1>4. CASE WorkerReports(w)
    <2>1. [kind |-> "report", status |-> StatusOf(w), preset |-> loaded[w]] \in Event
      BY DEF Event, ReportEvent, WorkerStatus, StatusOf, TypeOK, TypeWorkers
    <2>2. TypeWorkers'
      BY <1>2, <1>4, <2>1 DEF WorkerReports, TypeOK, TypeWorkers
    <2> QED
      BY <1>1, <1>4, <2>2 DEF WorkerReports
  <1>5. CASE WorkerBeginsJob(w)
    <2>1. Head(holds[w]) \in Requests
      BY <1>5, TailRange DEF WorkerBeginsJob, TypeOK, TypeWorkers
    <2>2. [kind |-> "progress", request |-> Head(holds[w])] \in Event
      BY <2>1 DEF Event, JobEvent
    <2>3. events' \in [Workers -> Seq(Event)]
      BY <1>2, <1>5, <2>2 DEF WorkerBeginsJob, TypeOK, TypeWorkers
    <2>4. TypeWorkers'
      BY <1>5, <2>3 DEF WorkerBeginsJob, TypeOK, TypeWorkers, Computing
    <2> QED
      BY <1>1, <1>5, <2>4 DEF WorkerBeginsJob
  <1>8. CASE WorkerSwitchesPreset(w)
    <2>1. Head(holds[w]) \in Requests
      BY <1>8, TailRange DEF WorkerSwitchesPreset, TypeOK, TypeWorkers
    <2>2. PresetOf[Head(holds[w])] \in Presets
      BY <2>1, RequestsAssumption
    <2>3. loaded' \in [Workers -> Presets \cup {NoPreset}]
      BY <1>8, <2>2 DEF WorkerSwitchesPreset, TypeOK, TypeWorkers
    <2>4. TypeWorkers'
      BY <1>8, <2>3 DEF WorkerSwitchesPreset, TypeOK, TypeWorkers
    <2> QED
      BY <1>1, <1>8, <2>4 DEF WorkerSwitchesPreset
  <1>9. CASE WorkerRests(w)
    <2>1. TypeWorkers'
      BY <1>9 DEF WorkerRests, TypeOK, TypeWorkers, Computing
    <2> QED
      BY <1>1, <1>9, <2>1 DEF WorkerRests
  <1>6. ASSUME NEW outcome \in Terminal, WorkerEndsJob(w, outcome)
        PROVE  TypeOK'
    <2>1. holds[w] # <<>>
      BY <1>6 DEF WorkerEndsJob
    <2>2. Head(holds[w]) \in Requests /\ Tail(holds[w]) \in Seq(Requests)
      BY <2>1, TailRange DEF TypeOK, TypeWorkers
    <2>3. [kind |-> outcome, request |-> Head(holds[w])] \in Event
      BY <2>2 DEF Event, JobEvent
    <2>4. TypeWorkers'
      BY <1>2, <1>6, <2>2, <2>3 DEF WorkerEndsJob, TypeOK, TypeWorkers, Computing
    <2> QED
      BY <1>1, <1>6, <2>4 DEF WorkerEndsJob
  <1>7. CASE WorkerCrashes(w)
    <2>1. PICK i \in 1 .. Len(holds[w]) + 1, j \in 0 .. Len(events[w]) :
             /\ holds' = [holds EXCEPT ![w] = SubSeq(@, i, Len(@))]
             /\ events' = [events EXCEPT ![w] = SubSeq(@, 1, j)]
      BY <1>7 DEF WorkerCrashes
    <2>2. /\ SubSeq(holds[w], i, Len(holds[w])) \in Seq(Requests)
          /\ SubSeq(events[w], 1, j) \in Seq(Event)
      BY SubSeqRange, LenProperties DEF TypeOK, TypeWorkers
    <2>3. TypeWorkers'
      BY <1>7, <2>1, <2>2 DEF WorkerCrashes, TypeOK, TypeWorkers, Computing
    <2> QED
      BY <1>1, <1>7, <2>3 DEF WorkerCrashes
  <1> QED
    BY <1>3, <1>4, <1>5, <1>6, <1>7, <1>8, <1>9 DEF WorkerComputes

(* Type correctness of the whole system.                                   *)
THEOREM TypeCorrect == Spec => []TypeOK
  <1>1. Init => TypeOK
    <2> SUFFICES ASSUME Init PROVE TypeOK
      OBVIOUS
    <2>1. <<>> \in Seq(Requests) /\ <<>> \in Seq(Event)
      OBVIOUS
    <2>2. TypeJobs
      BY <2>1 DEF Init, TypeJobs
    <2>3. TypeReports
      BY WorkersAssumption DEF Init, TypeReports
    <2>4. TypeClients
      BY <2>1 DEF Init, TypeClients
    <2>5. TypeWorkers
      BY <2>1, WorkersAssumption DEF Init, TypeWorkers, Computing
    <2> QED
      BY <2>2, <2>3, <2>4, <2>5 DEF Init, TypeOK, Phases
  <1>2. TypeOK /\ [Next]_vars => TypeOK'
    <2>1. TypeOK /\ UNCHANGED vars => TypeOK'
      BY TypeUnchanged DEF TypeOK, vars, coordinatorVars
    <2>2. TypeOK /\ Next => TypeOK'
      BY TypeStepCoordinator, TypeStepSupervision, TypeStepWorker DEF Next
    <2> QED
      BY <2>1, <2>2
  <1> QED
    BY <1>1, <1>2, PTL DEF Spec

-----------------------------------------------------------------------------
(* A worker given up holds nothing: a job is booked only on a live worker, *)
(* for a sticky session never outlives the worker it points to.            *)
LEMMA UnresponsiveStep ==
    ASSUME TypeOK, UnresponsiveHoldsNothing, [Next]_vars
    PROVE  UnresponsiveHoldsNothing'
  <1> USE DEF UnresponsiveHoldsNothing
  <1>1. CASE /\ unresponsive' = unresponsive
             /\ running' = running
             /\ sticky' = sticky
    BY <1>1
  <1>2. CASE Dispatch
    <2>1. Head(queue) \in Requests
      BY <1>2, TailRange DEF Dispatch, TypeOK, TypeJobs
    <2>2. PICK w \in Chosen(Head(queue)) :
             /\ running' = [running EXCEPT ![w] = @ \cup {Head(queue)}]
             /\ sticky' = IF StickySessions /\ KeyOf[Head(queue)] # NoKey
                          THEN [sticky EXCEPT ![KeyOf[Head(queue)]] = w] ELSE sticky
      BY <1>2 DEF Dispatch
    <2>3. w \in Workers /\ ~unresponsive[w]
      <3>1. CASE BoundWorker(Head(queue)) = NoWorker
        BY <2>2, <3>1 DEF Chosen, LiveMatching
      <3>2. CASE BoundWorker(Head(queue)) # NoWorker
        <4>1. w \in Workers /\ w = BoundWorker(Head(queue))
          BY <2>2, <3>2 DEF Chosen
        <4>2. KeyOf[Head(queue)] \in Keys /\ sticky[KeyOf[Head(queue)]] = w
          BY <2>1, <3>2, <4>1, RequestsAssumption DEF BoundWorker
        <4> QED
          BY <4>1, <4>2
      <3> QED
        BY <3>1, <3>2
    <2>4. unresponsive' = unresponsive
      BY <1>2 DEF Dispatch, reportVars
    <2>5. \A v \in Workers : unresponsive[v] => running'[v] = running[v]
      BY <2>2, <2>3 DEF TypeOK, TypeJobs
    <2>6. \A v \in Workers, k \in Keys : unresponsive[v] => sticky'[k] # v
      BY <2>1, <2>2, <2>3, RequestsAssumption DEF TypeOK, TypeJobs
    <2> QED
      BY <2>4, <2>5, <2>6
  <1>3. ASSUME NEW w \in Workers, HandleEvent(w)
        PROVE  UnresponsiveHoldsNothing'
    <2>1. unresponsive' = [unresponsive EXCEPT ![w] = FALSE] /\ sticky' = sticky
      BY <1>3 DEF HandleEvent, HandleReport, HandleProgress, HandleAnswer, FreeSlot, Hear
    <2>2. \A v \in Workers : running'[v] \subseteq running[v]
      BY <1>3 DEF HandleEvent, HandleReport, HandleProgress, HandleAnswer, FreeSlot, TypeOK, TypeJobs
    <2> QED
      BY <2>1, <2>2 DEF TypeOK, TypeReports
  <1>4. ASSUME NEW w \in Workers, DeclareUnresponsive(w)
        PROVE  UnresponsiveHoldsNothing'
    <2>1. /\ unresponsive' = [unresponsive EXCEPT ![w] = TRUE]
          /\ running' = [running EXCEPT ![w] = {}]
          /\ sticky' = [k \in Keys |-> IF sticky[k] = w THEN NoWorker ELSE sticky[k]]
      BY <1>4 DEF DeclareUnresponsive, SessionsWithout
    <2> QED
      BY <2>1, WorkersAssumption DEF TypeOK, TypeJobs, TypeReports
  <1>5. ASSUME [Next]_vars,
               ~Dispatch,
               \A w \in Workers : ~HandleEvent(w) /\ ~DeclareUnresponsive(w)
        PROVE  /\ unresponsive' = unresponsive
               /\ running' = running
               /\ sticky' = sticky
    <2>1. \/ \E r \in Requests : Submit(r)
          \/ Shutdown \/ Defer \/ EndOfQueue \/ RefuseQueued \/ KeepQueued
          \/ UNCHANGED coordinatorVars
      BY <1>5 DEF Next, QueueLoop, vars, WorkerStarts, WorkerReports, WorkerComputes,
                  WorkerBeginsJob, WorkerSwitchesPreset, WorkerEndsJob, WorkerRests,
                  WorkerCrashes
    <2> QED
      BY <2>1 DEF Submit, Shutdown, Defer, EndOfQueue, RefuseQueued, KeepQueued,
                  coordinatorVars, jobVars, reportVars
  <1> QED
    BY <1>1, <1>2, <1>3, <1>4, <1>5

(* A worker given up never has a booked job or a sticky session.           *)
THEOREM UnresponsiveHoldNothing == Spec => []UnresponsiveHoldsNothing
  <1>1. Init => UnresponsiveHoldsNothing
    BY DEF Init, UnresponsiveHoldsNothing
  <1>2. TypeOK /\ UnresponsiveHoldsNothing /\ [Next]_vars => UnresponsiveHoldsNothing'
    BY UnresponsiveStep
  <1> QED
    BY <1>1, <1>2, TypeCorrect, PTL DEF Spec

-----------------------------------------------------------------------------
(* Booked jobs stay within the capacity: dispatch checks a slot first, and *)
(* nothing else books.                                                     *)
LEMMA CapacityStep ==
    ASSUME TypeOK, CapacityInv, [Next]_vars
    PROVE  CapacityInv'
  <1>1. CASE running' = running /\ capacity' = capacity
    BY <1>1 DEF CapacityInv
  <1>2. CASE Dispatch
    <2>1. PICK w \in Chosen(Head(queue)) :
             running' = [running EXCEPT ![w] = @ \cup {Head(queue)}]
      BY <1>2 DEF Dispatch
    <2>2. w \in Workers /\ Free(w)
      BY <2>1 DEF Chosen, LiveMatching
    <2>3. /\ IsFiniteSet(running[w] \cup {Head(queue)})
          /\ Cardinality(running[w] \cup {Head(queue)}) <= Cardinality(running[w]) + 1
      <3>1. IsFiniteSet(running[w]) /\ Cardinality(running[w]) \in Nat
        BY <2>2, FS_CardinalityType DEF CapacityInv
      <3>2. /\ IsFiniteSet(running[w] \cup {Head(queue)})
            /\ Cardinality(running[w] \cup {Head(queue)}) =
                  IF Head(queue) \in running[w] THEN Cardinality(running[w])
                                               ELSE Cardinality(running[w]) + 1
        BY <3>1, FS_AddElement, Zenon
      <3> QED
        BY <3>1, <3>2
    <2>4. Cardinality(running[w]) + 1 <= capacity[w]
      BY <2>2, FS_CardinalityType DEF Free, Slots, CapacityInv, TypeOK, TypeReports
    <2>5. Cardinality(running[w] \cup {Head(queue)}) <= capacity[w]
      BY <2>2, <2>3, <2>4, FS_CardinalityType DEF CapacityInv, TypeOK, TypeReports
    <2>6. capacity' = capacity
      BY <1>2 DEF Dispatch, reportVars
    <2>7. \A v \in Workers : running'[v] = IF v = w THEN running[w] \cup {Head(queue)}
                                           ELSE running[v]
      BY <2>1, <2>2 DEF TypeOK, TypeJobs
    <2>8. ASSUME NEW v \in Workers
          PROVE  /\ IsFiniteSet(running'[v])
                 /\ Cardinality(running'[v]) <= capacity[v]
                 /\ capacity[v] <= RealCapacity[v]
      BY <2>3, <2>5, <2>7, <2>8 DEF CapacityInv
    <2> QED
      BY <2>6, <2>8 DEF CapacityInv
  <1>3. ASSUME NEW w \in Workers, HandleEvent(w)
        PROVE  CapacityInv'
    <2>1. ASSUME NEW v \in Workers
          PROVE  running'[v] \subseteq running[v]
      BY <1>3 DEF HandleEvent, HandleReport, HandleProgress, HandleAnswer, FreeSlot, TypeOK, TypeJobs
    <2>2. ASSUME NEW v \in Workers
          PROVE  /\ IsFiniteSet(running'[v])
                 /\ Cardinality(running'[v]) <= Cardinality(running[v])
      BY <2>1, FS_Subset DEF CapacityInv
    <2>3. ASSUME NEW v \in Workers
          PROVE  /\ capacity[v] <= capacity'[v]
                 /\ capacity'[v] <= RealCapacity[v]
                 /\ capacity'[v] \in Nat
      <3>1. capacity' = capacity \/ capacity' = [capacity EXCEPT ![w] = RealCapacity[w]]
        BY <1>3 DEF HandleEvent, HandleReport, HandleProgress, HandleAnswer, FreeSlot
      <3> QED
        BY <3>1, WorkersAssumption DEF CapacityInv, TypeOK, TypeReports
    <2>4. ASSUME NEW v \in Workers
          PROVE  Cardinality(running'[v]) <= capacity'[v]
      BY <2>2, <2>3, FS_CardinalityType DEF CapacityInv, TypeOK, TypeReports
    <2> QED
      BY <2>2, <2>3, <2>4 DEF CapacityInv
  <1>4. ASSUME NEW w \in Workers, DeclareUnresponsive(w)
        PROVE  CapacityInv'
    <2>1. running' = [running EXCEPT ![w] = {}] /\ capacity' = capacity
      BY <1>4 DEF DeclareUnresponsive
    <2>2. \A v \in Workers : running'[v] = IF v = w THEN {} ELSE running[v]
      BY <2>1 DEF TypeOK, TypeJobs
    <2>3. Cardinality({}) = 0 /\ IsFiniteSet({})
      BY FS_EmptySet
    <2> QED
      BY <2>1, <2>2, <2>3 DEF CapacityInv, TypeOK, TypeReports
  <1>5. ASSUME ~Dispatch, \A w \in Workers : ~HandleEvent(w) /\ ~DeclareUnresponsive(w)
        PROVE  running' = running /\ capacity' = capacity
    <2>1. \/ \E r \in Requests : Submit(r)
          \/ Shutdown \/ Defer \/ EndOfQueue \/ RefuseQueued \/ KeepQueued
          \/ UNCHANGED coordinatorVars
      BY <1>5 DEF Next, QueueLoop, vars, WorkerStarts, WorkerReports, WorkerComputes,
                  WorkerBeginsJob, WorkerSwitchesPreset, WorkerEndsJob, WorkerRests,
                  WorkerCrashes
    <2> QED
      BY <2>1 DEF Submit, Shutdown, Defer, EndOfQueue, RefuseQueued, KeepQueued,
                  coordinatorVars, jobVars, reportVars
  <1> QED
    BY <1>1, <1>2, <1>3, <1>4, <1>5

(* No worker is ever booked beyond its capacity.                           *)
THEOREM WithinCapacity == Spec => []CapacityRespected
  <1>1. Init => CapacityInv
    <2>1. Cardinality({}) = 0 /\ IsFiniteSet({})
      BY FS_EmptySet
    <2> QED
      BY <2>1, WorkersAssumption DEF Init, CapacityInv
  <1>2. TypeOK /\ CapacityInv /\ [Next]_vars => CapacityInv'
    BY CapacityStep
  <1>3. CapacityInv => CapacityRespected
    BY DEF CapacityInv, CapacityRespected
  <1> QED
    BY <1>1, <1>2, <1>3, TypeCorrect, PTL DEF Spec

-----------------------------------------------------------------------------
(* The job at the head of the queue is waiting there only: it is neither   *)
(* further back, nor set aside, nor booked, nor answered.                  *)
LEMMA HeadOfQueue ==
    ASSUME TypeOK, JobsInv, queue # <<>>
    PROVE  /\ Head(queue) \in Requests
           /\ Head(queue) \in Range(submitted)
           /\ Tail(queue) \in Seq(Requests)
           /\ IsInjective(Tail(queue))
           /\ Range(queue) = Range(Tail(queue)) \cup {Head(queue)}
           /\ Head(queue) \notin Range(Tail(queue))
           /\ Head(queue) \notin Range(deferred)
           /\ Head(queue) \notin RunningJobs
           /\ answers[Head(queue)] = <<>>
  <1>1. /\ Head(queue) \in Requests
        /\ Tail(queue) \in Seq(Requests)
        /\ Head(queue) \in Range(queue)
        /\ Range(queue) = Range(Tail(queue)) \cup {Head(queue)}
    BY TailRange DEF TypeOK, TypeJobs
  <1>2. IsInjective(Tail(queue)) /\ Head(queue) \notin Range(Tail(queue))
    BY TailDistinct DEF TypeOK, TypeJobs, JobsInv, JobsTraced
  <1>3. Head(queue) \in Waiting
    BY <1>1 DEF Waiting
  <1>4. Head(queue) \notin Range(deferred) /\ Head(queue) \in Range(submitted)
    BY <1>1, <1>3 DEF JobsInv, JobsTraced
  <1>5. Head(queue) \notin RunningJobs /\ answers[Head(queue)] = <<>>
    BY <1>3, <1>4 DEF JobsInv, OneOwner, NoJobForgotten
  <1> QED
    BY <1>1, <1>2, <1>4, <1>5

(* Steps that touch no booking, no queue and no answer keep the invariant, *)
(* as long as what workers still have or report was traced before.         *)
LEMMA JobsUntouched ==
    ASSUME TypeOK, JobsInv,
           UNCHANGED <<queue, deferred, requestWorker, running, clientVars>>,
           phase' = "serving" => phase = "serving",
           \A w \in Workers :
              /\ Range(holds'[w]) \subseteq Range(holds[w])
              /\ \A e \in Range(events'[w]) :
                    \/ e \in Range(events[w])
                    \/ e.kind = "report"
                    \/ e.request \in Range(holds[w])
    PROVE  JobsInv'
  <1>1. OneOwner' /\ NoJobForgotten'
    BY DEF JobsInv, OneOwner, NoJobForgotten, RunningJobs, Waiting, clientVars
  <1>2. \A w, r : Traced(w, r)' <=> Traced(w, r)
    BY DEF Traced, clientVars
  <1>3. \A w \in Workers :
          /\ \A r \in Range(holds'[w]) : Traced(w, r)
          /\ \A e \in Range(events'[w]) : e.kind # "report" => Traced(w, e.request)
    BY DEF JobsInv, JobsTraced
  <1>4. JobsTraced'
    BY <1>2, <1>3 DEF JobsInv, JobsTraced, RunningJobs, Waiting, clientVars
  <1> QED
    BY <1>1, <1>4 DEF JobsInv

(* Workers change nothing about what is booked, waiting and answered.      *)
LEMMA JobsStepWorker ==
    ASSUME TypeOK, JobsInv, NEW w \in Workers,
           \/ WorkerStarts(w) \/ WorkerReports(w) \/ WorkerComputes(w)
           \/ WorkerCrashes(w)
    PROVE  JobsInv'
  <1>1. UNCHANGED <<phase, queue, deferred, requestWorker, running, clientVars>>
    BY DEF WorkerStarts, WorkerReports, WorkerComputes, WorkerBeginsJob,
           WorkerSwitchesPreset, WorkerEndsJob, WorkerRests, WorkerCrashes,
           coordinatorVars, jobVars
  <1>2. \A e \in Event : Range(Append(events[w], e)) = Range(events[w]) \cup {e}
    BY AppendRange DEF TypeOK, TypeWorkers
  <1>3. CASE WorkerStarts(w)
    <2> DEFINE e == [kind |-> "report", preset |-> ConfigPreset[w],
                     status |-> IF w \in Preloads THEN "ready" ELSE "listening"]
    <2>1. e \in Event /\ e.kind = "report"
      BY WorkersAssumption DEF Event, ReportEvent, WorkerStatus
    <2>2. /\ holds' = holds
          /\ events' = events \/ events' = [events EXCEPT ![w] = Append(@, e)]
      BY <1>3 DEF WorkerStarts
    <2>3. \A v \in Workers : events'[v] = events[v] \/ (v = w /\ events'[v] = Append(events[w], e))
      BY <2>2 DEF TypeOK, TypeWorkers
    <2> HIDE DEF e
    <2> QED
      BY <1>1, <1>2, <2>1, <2>2, <2>3, JobsUntouched
  <1>4. CASE WorkerReports(w)
    <2> DEFINE e == [kind |-> "report", status |-> StatusOf(w), preset |-> loaded[w]]
    <2>1. e \in Event /\ e.kind = "report"
      BY DEF Event, ReportEvent, WorkerStatus, StatusOf, TypeOK, TypeWorkers
    <2>2. holds' = holds /\ events' = [events EXCEPT ![w] = Append(@, e)]
      BY <1>4 DEF WorkerReports
    <2>3. \A v \in Workers : events'[v] = events[v] \/ (v = w /\ events'[v] = Append(events[w], e))
      BY <2>2 DEF TypeOK, TypeWorkers
    <2> HIDE DEF e
    <2> QED
      BY <1>1, <1>2, <2>1, <2>2, <2>3, JobsUntouched
  <1>5. CASE WorkerBeginsJob(w)
    <2> DEFINE e == [kind |-> "progress", request |-> Head(holds[w])]
    <2>1. Head(holds[w]) \in Requests /\ Head(holds[w]) \in Range(holds[w])
      BY <1>5, TailRange DEF WorkerBeginsJob, TypeOK, TypeWorkers
    <2>2. e \in Event /\ e.request \in Range(holds[w])
      BY <2>1 DEF Event, JobEvent
    <2>3. holds' = holds /\ events' = [events EXCEPT ![w] = Append(@, e)]
      BY <1>5 DEF WorkerBeginsJob
    <2>4. \A v \in Workers : events'[v] = events[v] \/ (v = w /\ events'[v] = Append(events[w], e))
      BY <2>3 DEF TypeOK, TypeWorkers
    <2> HIDE DEF e
    <2> QED
      BY <1>1, <1>2, <2>2, <2>3, <2>4, JobsUntouched
  <1>6. ASSUME NEW outcome \in Terminal, WorkerEndsJob(w, outcome)
        PROVE  JobsInv'
    <2> DEFINE e == [kind |-> outcome, request |-> Head(holds[w])]
    <2>1. /\ Head(holds[w]) \in Requests /\ Head(holds[w]) \in Range(holds[w])
          /\ Range(Tail(holds[w])) \subseteq Range(holds[w])
      BY <1>6, TailRange DEF WorkerEndsJob, TypeOK, TypeWorkers
    <2>2. e \in Event /\ e.request \in Range(holds[w])
      BY <2>1 DEF Event, JobEvent
    <2>3. /\ holds' = [holds EXCEPT ![w] = Tail(@)]
          /\ events' = [events EXCEPT ![w] = Append(@, e)]
      BY <1>6 DEF WorkerEndsJob
    <2>4. \A v \in Workers :
             /\ events'[v] = events[v] \/ (v = w /\ events'[v] = Append(events[w], e))
             /\ holds'[v] = holds[v] \/ (v = w /\ holds'[v] = Tail(holds[w]))
      BY <2>3 DEF TypeOK, TypeWorkers
    <2> HIDE DEF e
    <2> QED
      BY <1>1, <1>2, <2>1, <2>2, <2>4, JobsUntouched
  <1>7. CASE WorkerCrashes(w)
    <2>1. PICK i \in 1 .. Len(holds[w]) + 1, j \in 0 .. Len(events[w]) :
             /\ holds' = [holds EXCEPT ![w] = SubSeq(@, i, Len(@))]
             /\ events' = [events EXCEPT ![w] = SubSeq(@, 1, j)]
      BY <1>7 DEF WorkerCrashes
    <2>2. /\ Range(SubSeq(holds[w], i, Len(holds[w]))) \subseteq Range(holds[w])
          /\ Range(SubSeq(events[w], 1, j)) \subseteq Range(events[w])
      <3>1. holds[w] \in Seq(Requests) /\ events[w] \in Seq(Event)
        BY DEF TypeOK, TypeWorkers
      <3>2. Len(holds[w]) \in 0 .. Len(holds[w]) /\ 1 \in 1 .. Len(events[w]) + 1
        BY <3>1, LenProperties
      <3> QED
        BY <3>1, <3>2, SubSeqRange
    <2>3. \A v \in Workers :
             /\ Range(holds'[v]) \subseteq Range(holds[v])
             /\ Range(events'[v]) \subseteq Range(events[v])
      BY <2>1, <2>2 DEF TypeOK, TypeWorkers
    <2> QED
      BY <1>1, <2>3, JobsUntouched
  <1>8. CASE WorkerSwitchesPreset(w) \/ WorkerRests(w)
    <2>1. holds' = holds /\ events' = events
      BY <1>8 DEF WorkerSwitchesPreset, WorkerRests
    <2> QED
      BY <1>1, <2>1, JobsUntouched
  <1> QED
    BY <1>3, <1>4, <1>5, <1>6, <1>7, <1>8 DEF WorkerComputes

(* Submitting, shutting down and each step of the loops over the queue.    *)
LEMMA JobsStepQueue ==
    ASSUME TypeOK, JobsInv,
           \/ \E r \in Requests : Submit(r)
           \/ Shutdown
           \/ QueueLoop
    PROVE  JobsInv'
  <1>1. ASSUME NEW r \in Requests, Submit(r)
        PROVE  JobsInv'
    <2>1. /\ phase = "serving" /\ deferred = <<>>
          /\ r \notin Range(submitted)
          /\ Range(submitted') = Range(submitted) \cup {r}
      BY <1>1, AppendRange
         DEF Submit, Idle, JobsInv, JobsTraced, TypeOK, TypeClients
    <2>2. r \notin Waiting \cup RunningJobs /\ answers[r] = <<>>
      BY <2>1 DEF JobsInv, JobsTraced
    <2>3. /\ requestWorker' = requestWorker /\ running' = running /\ deferred' = deferred
          /\ holds' = holds /\ events' = events
      BY <1>1 DEF Submit, workerVars
    <2>4. CASE /\ answers' = [answers EXCEPT ![r] = Append(@, "refused")]
               /\ UNCHANGED <<queue, phase>>
      <3>1. \A s \in Requests : answers'[s] # <<>> <=> (s = r \/ answers[s] # <<>>)
        BY <2>4, AppendProperties DEF TypeOK, TypeClients
      <3>2. Waiting' = Waiting /\ RunningJobs' = RunningJobs
        BY <2>3, <2>4 DEF Waiting, RunningJobs
      <3>3. OneOwner'
        BY <2>3, <3>2 DEF OneOwner, JobsInv
      <3>4. NoJobForgotten'
        BY <2>1, <2>2, <3>1, <3>2, RangeOfSeq DEF NoJobForgotten, JobsInv, TypeOK, TypeClients
      <3>5. JobsTraced'
        <4>1. \A w \in Workers, s \in Requests : Traced(w, s) => Traced(w, s)'
          BY <2>3, <3>1 DEF Traced
        <4>2. \A w \in Workers :
                 /\ \A s \in Range(holds[w]) : s \in Requests
                 /\ \A e \in Range(events[w]) : e.kind # "report" => e.request \in Requests
          BY RangeOfSeq DEF TypeOK, TypeWorkers, Event, ReportEvent, JobEvent
        <4> QED
          BY <2>1, <2>3, <2>4, <3>1, <3>2, <4>1, <4>2 DEF JobsTraced, JobsInv
      <3> QED
        BY <3>3, <3>4, <3>5 DEF JobsInv
    <2>5. CASE /\ queue' = Append(queue, r)
               /\ phase' = "dispatch"
               /\ UNCHANGED answers
      <3>1. Range(queue') = Range(queue) \cup {r} /\ IsInjective(queue')
        BY <2>2, <2>5, AppendRange, AppendDistinct
           DEF JobsInv, JobsTraced, Waiting, TypeOK, TypeJobs
      <3>2. Waiting' = Waiting \cup {r} /\ RunningJobs' = RunningJobs
        BY <2>3, <3>1 DEF Waiting, RunningJobs
      <3>3. OneOwner'
        BY <2>2, <2>3, <3>2 DEF OneOwner, JobsInv
      <3>4. NoJobForgotten'
        BY <2>1, <2>2, <2>5, <3>2 DEF NoJobForgotten, JobsInv
      <3>5. JobsTraced'
        <4>1. \A w, s : Traced(w, s)' <=> Traced(w, s)
          BY <2>3, <2>5 DEF Traced
        <4>2. \A w \in Workers :
                 /\ \A s \in Range(holds'[w]) : Traced(w, s)
                 /\ \A e \in Range(events'[w]) : e.kind # "report" => Traced(w, e.request)
          BY <2>3 DEF JobsTraced, JobsInv
        <4>3. \A s \in Requests :
                 (answers'[s] # <<>> \/ s \in Waiting' \cup RunningJobs') => s \in Range(submitted')
          BY <2>1, <2>5, <3>2 DEF JobsTraced, JobsInv
        <4>4. r \notin Range(deferred)
          BY <2>2 DEF Waiting
        <4> QED
          BY <2>1, <2>3, <2>5, <3>1, <4>1, <4>2, <4>3, <4>4 DEF JobsTraced, JobsInv
      <3> QED
        BY <3>3, <3>4, <3>5 DEF JobsInv
    <2> QED
      BY <1>1, <2>4, <2>5 DEF Submit
  <1>2. CASE Shutdown
    <2>1. UNCHANGED <<phase, queue, deferred, requestWorker, running, clientVars>>
          /\ events' = events
      BY <1>2 DEF Shutdown, jobVars
    <2>2. ASSUME NEW w \in Workers
          PROVE  Range(holds'[w]) \subseteq Range(holds[w])
      <3>1. PICK n \in 0 .. Len(holds[w]) : holds'[w] = SubSeq(holds[w], 1, n)
        BY <1>2 DEF Shutdown
      <3>2. holds[w] \in Seq(Requests) /\ 1 \in 1 .. Len(holds[w]) + 1
        BY LenProperties DEF TypeOK, TypeWorkers
      <3> QED
        BY <3>1, <3>2, SubSeqRange
    <2> QED
      BY <2>1, <2>2, JobsUntouched
  <1>3. CASE Dispatch
    <2>a. PICK q : q = Head(queue)
      OBVIOUS
    <2>1. PICK w \in Chosen(q) :
             /\ running' = [running EXCEPT ![w] = @ \cup {q}]
             /\ requestWorker' = [requestWorker EXCEPT ![q] = w]
             /\ holds' = [holds EXCEPT ![w] = Append(@, q)]
      BY <1>3, <2>a DEF Dispatch
    <2>2. w \in Workers
      BY <2>1 DEF Chosen, LiveMatching
    <2>3. /\ queue # <<>> /\ phase # "serving"
          /\ queue' = Tail(queue) /\ deferred' = deferred /\ phase' = phase
          /\ submitted' = submitted /\ answers' = answers /\ events' = events
      BY <1>3 DEF Dispatch, Dispatching, clientVars
    <2>4. /\ q \in Requests
          /\ q \in Range(submitted)
          /\ IsInjective(Tail(queue))
          /\ Range(queue) = Range(Tail(queue)) \cup {q}
          /\ q \notin Range(Tail(queue)) \cup Range(deferred) \cup RunningJobs
          /\ answers[q] = <<>>
      BY <2>a, <2>3, HeadOfQueue
    <2>5. \A v \in Workers :
             /\ running'[v] = IF v = w THEN running[v] \cup {q} ELSE running[v]
             /\ holds'[v] = IF v = w THEN Append(holds[v], q) ELSE holds[v]
      BY <2>1 DEF TypeOK, TypeJobs, TypeWorkers
    <2>6. RunningJobs' = RunningJobs \cup {q} /\ Waiting' = Waiting \ {q}
      <3>1. \A s : (\E v \in Workers : s \in running'[v]) <=>
                   (s = q \/ \E v \in Workers : s \in running[v])
        BY <2>2, <2>5
      <3>2. RunningJobs' = RunningJobs \cup {q}
        BY <3>1 DEF RunningJobs
      <3> QED
        BY <2>3, <2>4, <3>2 DEF Waiting
    <2>7. OneOwner'
      <3>1. \A v \in Workers, s \in Requests :
               s \in running'[v] <=> requestWorker'[s] = v
        BY <2>1, <2>2, <2>4, <2>5 DEF OneOwner, JobsInv, RunningJobs, TypeOK, TypeJobs
      <3> QED
        BY <2>4, <2>6, <3>1 DEF OneOwner, JobsInv
    <2>8. NoJobForgotten'
      BY <2>3, <2>4, <2>6 DEF NoJobForgotten, JobsInv
    <2>9. JobsTraced'
      <3>1. \A v \in Workers, s \in Requests : Traced(v, s) => Traced(v, s)'
        BY <2>3, <2>5 DEF Traced
      <3>2. Traced(w, q)'
        BY <2>2, <2>5 DEF Traced
      <3>3. \A v \in Workers : \A s \in Range(holds'[v]) : Traced(v, s)'
        <4>1. Range(Append(holds[w], q)) = Range(holds[w]) \cup {q}
          BY <2>2, <2>4, AppendRange DEF TypeOK, TypeWorkers
        <4>2. \A v \in Workers : \A s \in Range(holds[v]) : s \in Requests /\ Traced(v, s)
          BY RangeOfSeq DEF TypeOK, TypeWorkers, JobsInv, JobsTraced
        <4> QED
          BY <2>2, <2>5, <3>1, <3>2, <4>1, <4>2
      <3>4. \A v \in Workers : \A e \in Range(events'[v]) :
               e.kind # "report" => Traced(v, e.request)'
        <4>1. \A v \in Workers : \A e \in Range(events[v]) :
                 e.kind # "report" => e.request \in Requests /\ Traced(v, e.request)
          BY RangeOfSeq DEF TypeOK, TypeWorkers, Event, ReportEvent, JobEvent, JobsInv, JobsTraced
        <4> QED
          BY <2>3, <3>1, <4>1
      <3> QED
        BY <2>3, <2>4, <2>6, <3>3, <3>4 DEF JobsTraced, JobsInv
    <2> QED
      BY <2>7, <2>8, <2>9 DEF JobsInv
  <1>4. CASE Defer \/ KeepQueued
    <2>a. PICK q : q = Head(queue)
      OBVIOUS
    <2>1. /\ queue # <<>> /\ phase # "serving"
          /\ queue' = Tail(queue) /\ deferred' = Append(deferred, q) /\ phase' = phase
          /\ UNCHANGED <<submitted, answers, events, holds, running, requestWorker>>
      BY <1>4, <2>a DEF Defer, KeepQueued, Dispatching, clientVars, workerVars
    <2>2. /\ q \in Requests
          /\ IsInjective(Tail(queue))
          /\ Range(queue) = Range(Tail(queue)) \cup {q}
          /\ q \notin Range(Tail(queue)) \cup Range(deferred)
      BY <2>a, <2>1, HeadOfQueue
    <2>3. Range(deferred') = Range(deferred) \cup {q} /\ IsInjective(deferred')
      BY <2>1, <2>2, AppendRange, AppendDistinct
         DEF JobsInv, JobsTraced, TypeOK, TypeJobs
    <2>4. Waiting' = Waiting /\ RunningJobs' = RunningJobs
      BY <2>1, <2>2, <2>3 DEF Waiting, RunningJobs
    <2>5. OneOwner' /\ NoJobForgotten'
      BY <2>1, <2>4 DEF OneOwner, NoJobForgotten, JobsInv
    <2>6. \A v, s : Traced(v, s)' <=> Traced(v, s)
      BY <2>1 DEF Traced
    <2>7. JobsTraced'
      BY <2>1, <2>2, <2>3, <2>4, <2>6 DEF JobsTraced, JobsInv
    <2> QED
      BY <2>5, <2>7 DEF JobsInv
  <1>5. CASE EndOfQueue
    <2>1. /\ queue = <<>> /\ queue' = deferred /\ deferred' = <<>>
          /\ UNCHANGED <<submitted, answers, events, holds, running, requestWorker>>
      BY <1>5 DEF EndOfQueue, clientVars, workerVars
    <2>2. Range(queue) = {} /\ Range(deferred') = {} /\ IsInjective(deferred')
      BY <2>1 DEF Range, IsInjective
    <2>3. Waiting' = Waiting /\ RunningJobs' = RunningJobs
      BY <2>1, <2>2 DEF Waiting, RunningJobs
    <2>4. OneOwner' /\ NoJobForgotten'
      BY <2>1, <2>3 DEF OneOwner, NoJobForgotten, JobsInv
    <2>5. \A v, s : Traced(v, s)' <=> Traced(v, s)
      BY <2>1 DEF Traced
    <2>6. JobsTraced'
      BY <2>1, <2>2, <2>3, <2>5 DEF JobsTraced, JobsInv
    <2> QED
      BY <2>4, <2>6 DEF JobsInv
  <1>6. CASE RefuseQueued
    <2>a. PICK q : q = Head(queue)
      OBVIOUS
    <2>1. /\ queue # <<>> /\ phase # "serving"
          /\ queue' = Tail(queue) /\ deferred' = deferred /\ phase' = phase
          /\ answers' = [answers EXCEPT ![q] = Append(@, "refused")]
          /\ UNCHANGED <<submitted, events, holds, running, requestWorker>>
      BY <1>6, <2>a DEF RefuseQueued, workerVars
    <2>2. /\ q \in Requests
          /\ q \in Range(submitted)
          /\ IsInjective(Tail(queue))
          /\ Range(queue) = Range(Tail(queue)) \cup {q}
          /\ q \notin Range(Tail(queue)) \cup Range(deferred) \cup RunningJobs
      BY <2>a, <2>1, HeadOfQueue
    <2>3. \A s \in Requests : answers'[s] # <<>> <=> (s = q \/ answers[s] # <<>>)
      BY <2>1, <2>2, AppendProperties DEF TypeOK, TypeClients
    <2>4. Waiting' = Waiting \ {q} /\ RunningJobs' = RunningJobs
      BY <2>1, <2>2 DEF Waiting, RunningJobs
    <2>5. OneOwner'
      BY <2>1, <2>4 DEF OneOwner, JobsInv
    <2>6. NoJobForgotten'
      BY <2>1, <2>2, <2>3, <2>4, RangeOfSeq DEF NoJobForgotten, JobsInv, TypeOK, TypeClients
    <2>7. \A v \in Workers, s \in Requests : Traced(v, s) => Traced(v, s)'
      BY <2>1, <2>3 DEF Traced
    <2>8. \A v \in Workers :
             /\ \A s \in Range(holds[v]) : s \in Requests
             /\ \A e \in Range(events[v]) : e.kind # "report" => e.request \in Requests
      BY RangeOfSeq DEF TypeOK, TypeWorkers, Event, ReportEvent, JobEvent
    <2>9. JobsTraced'
      BY <2>1, <2>2, <2>3, <2>4, <2>7, <2>8 DEF JobsTraced, JobsInv
    <2> QED
      BY <2>5, <2>6, <2>9 DEF JobsInv
  <1> QED
    BY <1>1, <1>2, <1>3, <1>4, <1>5, <1>6 DEF QueueLoop

(* An event of a worker and a worker's silence: both free slots.           *)
LEMMA JobsStepSupervision ==
    ASSUME TypeOK, JobsInv, NEW w \in Workers,
           HandleEvent(w) \/ DeclareUnresponsive(w)
    PROVE  JobsInv'
  <1>1. phase = "serving" /\ deferred = <<>> /\ deferred' = deferred /\ queue' = queue
    BY DEF HandleEvent, HandleReport, HandleProgress, HandleAnswer, Hear,
           DeclareUnresponsive, Idle, JobsInv, JobsTraced
  <1>2. holds' = holds /\ submitted' = submitted /\ Waiting' = Waiting
    BY <1>1 DEF HandleEvent, HandleReport, HandleProgress, HandleAnswer, Hear,
           DeclareUnresponsive, Waiting
  <1>3. \A v \in Workers : \A s \in Range(holds[v]) : s \in Requests /\ Traced(v, s)
    BY RangeOfSeq DEF TypeOK, TypeWorkers, JobsInv, JobsTraced
  <1>4. \A v \in Workers : \A e \in Range(events[v]) :
           e.kind # "report" => e.request \in Requests /\ Traced(v, e.request)
    BY RangeOfSeq
       DEF TypeOK, TypeWorkers, Event, ReportEvent, JobEvent, JobsInv, JobsTraced
  <1>5. ASSUME Hear(w)
        PROVE  /\ Head(events[w]) \in Event
               /\ Head(events[w]) \in Range(events[w])
               /\ \A v \in Workers : Range(events'[v]) \subseteq Range(events[v])
    <2>1. events[w] \in Seq(Event) /\ events[w] # <<>>
      BY <1>5 DEF Hear, TypeOK, TypeWorkers
    <2>2. \A v \in Workers : events'[v] = IF v = w THEN Tail(events[w]) ELSE events[v]
      BY <1>5 DEF Hear, TypeOK, TypeWorkers
    <2>3. /\ Head(events[w]) \in Event
          /\ Head(events[w]) \in Range(events[w])
          /\ Range(Tail(events[w])) \subseteq Range(events[w])
      BY <2>1, TailRange
    <2> QED
      BY <2>2, <2>3
  <1>6. CASE HandleReport(w) \/ HandleProgress(w)
    <2>1. /\ Hear(w)
          /\ UNCHANGED <<queue, deferred, requestWorker, running, clientVars>>
      BY <1>1, <1>2, <1>6 DEF HandleReport, HandleProgress, clientVars
    <2> QED
      BY <1>1, <1>2, <1>5, <2>1, JobsUntouched
  <1>7. CASE HandleAnswer(w)
    <2>1. PICK r : r = Head(events[w]).request
      OBVIOUS
    <2>2. /\ Hear(w)
          /\ Head(events[w]).kind \in Terminal
          /\ running' = [running EXCEPT ![w] = @ \ {r}]
          /\ requestWorker' = [requestWorker EXCEPT ![r] = NoWorker]
          /\ answers' = [answers EXCEPT ![r] = Append(@, Head(events[w]).kind)]
          /\ phase' # "serving"
      BY <1>7, <2>1 DEF HandleAnswer, PhaseAfterAnswer, FreeSlot
    <2>3. r \in Requests /\ Traced(w, r)
      BY <1>4, <1>5, <2>1, <2>2 DEF Terminal
    <2>4. r \in Range(submitted) /\ r \notin Waiting
      <3>1. r \in RunningJobs \/ answers[r] # <<>>
        BY <2>3 DEF Traced, RunningJobs
      <3>2. r \in Range(submitted)
        BY <2>3, <3>1 DEF JobsInv, JobsTraced
      <3> QED
        BY <3>1, <3>2 DEF JobsInv, OneOwner, NoJobForgotten
    <2>5. \A v \in Workers : v # w => r \notin running[v]
      <3>1. CASE r \in running[w]
        BY <2>3, <3>1 DEF JobsInv, OneOwner
      <3>2. CASE answers[r] # <<>>
        BY <2>4, <3>2 DEF JobsInv, NoJobForgotten, RunningJobs
      <3> QED
        BY <2>3, <3>1, <3>2 DEF Traced
    <2>6. \A v \in Workers : running'[v] = running[v] \ {r}
      BY <2>2, <2>5 DEF TypeOK, TypeJobs
    <2>7. RunningJobs' = RunningJobs \ {r}
      BY <2>6 DEF RunningJobs
    <2>8. \A s \in Requests : answers'[s] # <<>> <=> (s = r \/ answers[s] # <<>>)
      <3>1. answers[r] \in Seq(Terminal \cup {"lost", "refused"})
        BY <2>3 DEF TypeOK, TypeClients
      <3>2. Append(answers[r], Head(events[w]).kind) # <<>>
        BY <2>2, <3>1, AppendProperties
      <3> QED
        BY <2>2, <2>3, <3>2 DEF TypeOK, TypeClients
    <2>9. \A s \in Requests : requestWorker'[s] = IF s = r THEN NoWorker ELSE requestWorker[s]
      BY <2>2 DEF TypeOK, TypeJobs
    <2>10. OneOwner'
      BY <1>2, <2>6, <2>7, <2>9, WorkersAssumption DEF OneOwner, JobsInv
    <2>11. NoJobForgotten'
      BY <1>2, <2>4, <2>7, <2>8, RangeOfSeq
         DEF NoJobForgotten, JobsInv, TypeOK, TypeClients
    <2>12. \A v \in Workers, s \in Requests : Traced(v, s) => Traced(v, s)'
      BY <2>6, <2>8 DEF Traced
    <2>13. JobsTraced'
      BY <1>1, <1>2, <1>3, <1>4, <1>5, <2>2, <2>4, <2>7, <2>8, <2>12
         DEF JobsTraced, JobsInv
    <2> QED
      BY <2>10, <2>11, <2>13 DEF JobsInv
  <1>8. CASE DeclareUnresponsive(w)
    <2>1. /\ running' = [running EXCEPT ![w] = {}]
          /\ requestWorker' = [r \in Requests |->
                IF r \in running[w] THEN NoWorker ELSE requestWorker[r]]
          /\ answers' = [r \in Requests |->
                IF r \in running[w] THEN Append(answers[r], "lost") ELSE answers[r]]
          /\ phase' # "serving"
          /\ events' = events
      BY <1>8 DEF DeclareUnresponsive
    <2>2. \A v \in Workers : running'[v] = IF v = w THEN {} ELSE running[v]
      BY <2>1 DEF TypeOK, TypeJobs
    <2>3. \A s \in Requests : s \in RunningJobs' <=> s \in RunningJobs /\ s \notin running[w]
      BY <2>2 DEF RunningJobs, JobsInv, OneOwner
    <2>4. \A s \in Requests : answers'[s] # <<>> <=> (s \in running[w] \/ answers[s] # <<>>)
      <3>1. \A s \in Requests : Append(answers[s], "lost") # <<>>
        BY AppendProperties DEF TypeOK, TypeClients
      <3> QED
        BY <2>1, <3>1
    <2>5. RunningJobs' \subseteq RunningJobs
      BY <2>2 DEF RunningJobs
    <2>6. OneOwner'
      <3>1. \A v \in Workers, s \in Requests : s \in running[v] <=> requestWorker[s] = v
        BY DEF OneOwner, JobsInv
      <3>2. \A s \in Requests :
               requestWorker'[s] = IF s \in running[w] THEN NoWorker ELSE requestWorker[s]
        BY <2>1
      <3>3. \A v \in Workers, s \in Requests :
               s \in running'[v] <=> requestWorker'[s] = v
        BY <2>2, <3>1, <3>2, WorkersAssumption
      <3>4. RunningJobs \cap Waiting = {}
        BY DEF OneOwner, JobsInv
      <3> QED
        BY <1>2, <2>5, <3>3, <3>4 DEF OneOwner
    <2>7. \A s \in running[w] : s \in Requests /\ s \in RunningJobs /\ s \notin Waiting
      BY DEF TypeOK, TypeJobs, RunningJobs, OneOwner, JobsInv
    <2>8. NoJobForgotten'
      BY <1>2, <2>3, <2>4, <2>7, RangeOfSeq
         DEF NoJobForgotten, JobsInv, TypeOK, TypeClients
    <2>9. \A v \in Workers, s \in Requests : Traced(v, s) => Traced(v, s)'
      BY <2>2, <2>4 DEF Traced
    <2>10. JobsTraced'
      BY <1>1, <1>2, <1>3, <1>4, <2>1, <2>4, <2>5, <2>7, <2>9
         DEF JobsTraced, JobsInv
    <2> QED
      BY <2>6, <2>8, <2>10 DEF JobsInv
  <1> QED
    BY <1>6, <1>7, <1>8 DEF HandleEvent

(* Every step of the coordinator and of its workers keeps the bookings and *)
(* the traces of jobs.                                                     *)
LEMMA JobsInvInductive ==
    ASSUME TypeOK, JobsInv, [Next]_vars
    PROVE  JobsInv'
  <1>1. CASE Next
    BY <1>1, JobsStepQueue, JobsStepSupervision, JobsStepWorker DEF Next
  <1>2. CASE UNCHANGED vars
    <2>1. /\ UNCHANGED <<queue, deferred, requestWorker, running, clientVars>>
          /\ UNCHANGED <<phase, holds, events>>
      BY <1>2 DEF vars, coordinatorVars, jobVars, workerVars
    <2> QED
      BY <2>1, JobsUntouched
  <1> QED
    BY <1>1, <1>2

(* No job is anywhere to begin with.                                       *)
LEMMA JobsInvInit == Init => JobsInv
  <1> SUFFICES ASSUME Init PROVE JobsInv
    OBVIOUS
  <1>1. /\ Range(queue) = {} /\ Range(deferred) = {} /\ Range(submitted) = {}
        /\ IsInjective(queue) /\ IsInjective(deferred)
    BY DEF Init, Range, IsInjective
  <1>2. RunningJobs = {} /\ Waiting = {}
    BY <1>1 DEF Init, RunningJobs, Waiting
  <1>3. \A w \in Workers : Range(holds[w]) = {} /\ Range(events[w]) = {}
    BY DEF Init, Range
  <1> QED
    BY <1>1, <1>2, <1>3, WorkersAssumption
       DEF Init, JobsInv, OneOwner, NoJobForgotten, JobsTraced

(* A job is booked on one worker at most and never while it still waits:   *)
(* no late answer, revival or silence of a worker books it twice, or frees *)
(* a slot it does not occupy (_request_worker and _WorkerState.running).   *)
THEOREM OwnedOnce == Spec => []OneOwner
  <1>1. TypeOK /\ JobsInv /\ [Next]_vars => JobsInv'
    BY JobsInvInductive
  <1>2. JobsInv => OneOwner
    BY DEF JobsInv
  <1> QED
    BY <1>1, <1>2, JobsInvInit, TypeCorrect, PTL DEF Spec

(* No submitted job is forgotten: it waits, is booked or was answered, and *)
(* once answered it is dispatched no more (_enqueue_or_fail, the loops     *)
(* over the queue, _handle_worker_event, _declare_unresponsive).           *)
THEOREM NeverForgotten == Spec => []NoJobForgotten
  <1>1. TypeOK /\ JobsInv /\ [Next]_vars => JobsInv'
    BY JobsInvInductive
  <1>2. JobsInv => NoJobForgotten
    BY DEF JobsInv
  <1> QED
    BY <1>1, <1>2, JobsInvInit, TypeCorrect, PTL DEF Spec

-----------------------------------------------------------------------------
(* What the clients can rely on.                                           *)

(* The inductive invariants behind OwnedOnce, NeverForgotten and           *)
(* WithinCapacity, for the proofs below.                                   *)
LEMMA JobsInvHolds == Spec => []JobsInv
  <1>1. TypeOK /\ JobsInv /\ [Next]_vars => JobsInv'
    BY JobsInvInductive
  <1> QED
    BY <1>1, JobsInvInit, TypeCorrect, PTL DEF Spec

(* ... and the one behind WithinCapacity.                                  *)
LEMMA CapacityInvHolds == Spec => []CapacityInv
  <1>1. Init => CapacityInv
    <2>1. Cardinality({}) = 0 /\ IsFiniteSet({})
      BY FS_EmptySet
    <2> QED
      BY <2>1, WorkersAssumption DEF Init, CapacityInv
  <1>2. TypeOK /\ CapacityInv /\ [Next]_vars => CapacityInv'
    BY CapacityStep
  <1> QED
    BY <1>1, <1>2, TypeCorrect, PTL DEF Spec

(* The kinds of steps: whatever is not a step of the coordinator leaves    *)
(* everything the coordinator knows as it was.                             *)
LEMMA StepKinds ==
    ASSUME [Next]_vars
    PROVE  \/ \E r \in Requests : Submit(r)
           \/ Shutdown
           \/ QueueLoop
           \/ \E w \in Workers : HandleEvent(w)
           \/ \E w \in Workers : DeclareUnresponsive(w)
           \/ UNCHANGED coordinatorVars
  BY DEF Next, vars, WorkerStarts, WorkerReports, WorkerComputes,
         WorkerBeginsJob, WorkerSwitchesPreset, WorkerEndsJob, WorkerRests,
         WorkerCrashes

(* A worker is chosen for a job only if it is live, accepts the job and    *)
(* has a slot; a bound session gets the worker it is bound to.             *)
LEMMA ChosenFits ==
    ASSUME TypeOK, UnresponsiveHoldsNothing, NEW r \in Requests, NEW w \in Chosen(r)
    PROVE  /\ w \in LiveMatching(r)
           /\ Free(w)
           /\ BoundWorker(r) # NoWorker => w = BoundWorker(r)
  <1>1. CASE BoundWorker(r) = NoWorker
    BY <1>1 DEF Chosen, LiveMatching
  <1>2. CASE BoundWorker(r) # NoWorker
    <2>1. w \in Workers /\ w = BoundWorker(r) /\ Accepts(w, r) /\ Free(w)
      BY <1>2 DEF Chosen
    <2>2. KeyOf[r] \in Keys /\ sticky[KeyOf[r]] = w
      BY <1>2, <2>1, RequestsAssumption DEF BoundWorker
    <2> QED
      BY <2>1, <2>2 DEF UnresponsiveHoldsNothing, LiveMatching
  <1> QED
    BY <1>1, <1>2

-----------------------------------------------------------------------------
(* Announcements.  A worker that reported was heard, and the coordinator   *)
(* announces nothing before all of them reported.                          *)
AnnouncedInv ==
    /\ AnnouncedForAll
    /\ \A w \in Workers : reported[w] # "none" => heard[w]

(* An event is heard before its report counts; silence withdraws what was  *)
(* announced.                                                              *)
LEMMA AnnouncedStep ==
    ASSUME TypeOK, AnnouncedInv, [Next]_vars
    PROVE  AnnouncedInv'
  <1>1. CASE UNCHANGED reportVars
    BY <1>1 DEF AnnouncedInv, AnnouncedForAll, reportVars
  <1>2. ASSUME NEW w \in Workers, HandleEvent(w)
        PROVE  AnnouncedInv'
    <2>1. /\ heard' = [heard EXCEPT ![w] = TRUE]
          /\ unresponsive' = [unresponsive EXCEPT ![w] = FALSE]
          /\ PublishClusterStatus
          /\ reported' = reported \/ \E s : reported' = [reported EXCEPT ![w] = s]
      BY <1>2 DEF HandleEvent, HandleReport, HandleProgress, HandleAnswer, Hear
    <2>2. \A v \in Workers :
             /\ heard'[v] = IF v = w THEN TRUE ELSE heard[v]
             /\ unresponsive'[v] = IF v = w THEN FALSE ELSE unresponsive[v]
             /\ v # w => reported'[v] = reported[v]
      BY <2>1 DEF TypeOK, TypeReports
    <2>3. \A v \in Workers : reported'[v] # "none" => heard'[v]
      BY <2>2 DEF AnnouncedInv
    <2>4. ClusterStatus' \in Announcements =>
             \A v \in Workers : ~unresponsive'[v] /\ reported'[v] # "none"
      BY DEF ClusterStatus, Announcements
    <2>5. AnnouncedForAll'
      <3>1. CASE announced' = announced
        BY <2>2, <3>1 DEF AnnouncedInv, AnnouncedForAll
      <3>2. CASE ClusterStatus' \in Announcements
        BY <2>3, <2>4, <3>2 DEF AnnouncedForAll
      <3> QED
        BY <2>1, <3>1, <3>2 DEF PublishClusterStatus
    <2> QED
      BY <2>3, <2>5 DEF AnnouncedInv
  <1>3. ASSUME NEW w \in Workers, DeclareUnresponsive(w)
        PROVE  AnnouncedInv'
    BY <1>3 DEF DeclareUnresponsive, AnnouncedInv, AnnouncedForAll
  <1>4. UNCHANGED reportVars
        \/ \E w \in Workers : HandleEvent(w) \/ DeclareUnresponsive(w)
    BY StepKinds DEF Submit, Shutdown, QueueLoop, Dispatch, Defer, EndOfQueue,
                     RefuseQueued, KeepQueued, coordinatorVars
  <1> QED
    BY <1>1, <1>2, <1>3, <1>4

(* What was last announced to clients speaks for every worker: each was    *)
(* heard and none is given up (_publish_cluster_status).                   *)
THEOREM AnnouncementsHold == Spec => []AnnouncedForAll
  <1>1. Init => AnnouncedInv
    BY DEF Init, AnnouncedInv, AnnouncedForAll
  <1>2. TypeOK /\ AnnouncedInv /\ [Next]_vars => AnnouncedInv'
    BY AnnouncedStep
  <1>3. AnnouncedInv => AnnouncedForAll
    BY DEF AnnouncedInv
  <1> QED
    BY <1>1, <1>2, <1>3, TypeCorrect, PTL DEF Spec

-----------------------------------------------------------------------------
(* Sticky sessions.                                                        *)

(* A step rebinds a session only to the worker it is bound to, or unbinds  *)
(* it because that worker is given up.                                     *)
LEMMA SessionsStep ==
    ASSUME TypeOK, UnresponsiveHoldsNothing, [Next]_vars,
           NEW k \in Keys, sticky[k] # NoWorker, ~unresponsive'[sticky[k]]
    PROVE  sticky'[k] = sticky[k]
  <1>1. CASE Dispatch
    <2>1. queue # <<>> /\ Head(queue) \in Requests
      BY <1>1, TailRange DEF Dispatch, TypeOK, TypeJobs
    <2>2. PICK w \in Chosen(Head(queue)) :
             sticky' = IF StickySessions /\ KeyOf[Head(queue)] # NoKey
                       THEN [sticky EXCEPT ![KeyOf[Head(queue)]] = w] ELSE sticky
      BY <1>1 DEF Dispatch
    <2>3. CASE StickySessions /\ KeyOf[Head(queue)] = k /\ k # NoKey
      <3>1. BoundWorker(Head(queue)) = sticky[k]
        BY <2>3 DEF BoundWorker
      <3>2. w = sticky[k]
        BY <2>1, <3>1, ChosenFits
      <3> QED
        BY <2>2, <2>3, <3>2 DEF TypeOK, TypeJobs
    <2>4. CASE ~(StickySessions /\ KeyOf[Head(queue)] = k /\ k # NoKey)
      BY <2>2, <2>4, RequestsAssumption DEF TypeOK, TypeJobs
    <2> QED
      BY <2>3, <2>4
  <1>2. ASSUME NEW w \in Workers, DeclareUnresponsive(w)
        PROVE  sticky'[k] = sticky[k]
    <2>1. /\ unresponsive' = [unresponsive EXCEPT ![w] = TRUE]
          /\ sticky' = [l \in Keys |-> IF sticky[l] = w THEN NoWorker ELSE sticky[l]]
      BY <1>2 DEF DeclareUnresponsive, SessionsWithout
    <2>2. sticky[k] # w
      BY <2>1 DEF TypeOK, TypeReports
    <2> QED
      BY <2>1, <2>2
  <1>3. CASE UNCHANGED sticky
    BY <1>3
  <1>4. \/ UNCHANGED sticky
        \/ Dispatch
        \/ \E w \in Workers : DeclareUnresponsive(w)
    BY StepKinds DEF Submit, Shutdown, QueueLoop, Defer, EndOfQueue, RefuseQueued,
                     KeepQueued, HandleEvent, HandleReport, HandleProgress,
                     HandleAnswer, Hear, coordinatorVars, jobVars
  <1> QED
    BY <1>1, <1>2, <1>3, <1>4

(* A sticky session moves only when its worker is given up: neither a full *)
(* worker, nor another job of the same key in the queue, nor the same      *)
(* worker coming back moves it (_choose_worker, docs/tutorial.md:121).     *)
THEOREM SessionsStay == Spec => StickySessionsStay
  <1>1. TypeOK /\ UnresponsiveHoldsNothing /\ [Next]_vars =>
           [\A k \in Keys :
               sticky[k] # NoWorker /\ ~unresponsive'[sticky[k]] => sticky'[k] = sticky[k]]_vars
    BY SessionsStep
  <1> QED
    BY <1>1, TypeCorrect, UnresponsiveHoldNothing, PTL DEF Spec, StickySessionsStay

-----------------------------------------------------------------------------
(* What a step of a worker does to the jobs it has and to its events: it   *)
(* says something that answers nothing, it answers its first job, it loses *)
(* some of both, or neither changes.                                       *)
LEMMA WorkerTraffic ==
    ASSUME TypeOK, NEW w \in Workers,
           \/ WorkerStarts(w) \/ WorkerReports(w) \/ WorkerComputes(w)
           \/ WorkerCrashes(w)
    PROVE  /\ UNCHANGED coordinatorVars
           /\ \/ UNCHANGED <<holds, events>>
              \/ \E e \in Event :
                    /\ e.kind \notin Terminal
                    /\ e.kind = "report" => e.preset \in {ConfigPreset[w], loaded[w]}
                    /\ holds' = holds
                    /\ events' = [events EXCEPT ![w] = Append(@, e)]
              \/ \E e \in Event :
                    /\ holds[w] # <<>>
                    /\ e.kind \in Terminal
                    /\ e.request = Head(holds[w])
                    /\ holds' = [holds EXCEPT ![w] = Tail(@)]
                    /\ events' = [events EXCEPT ![w] = Append(@, e)]
              \/ \E i \in 1 .. Len(holds[w]) + 1, j \in 0 .. Len(events[w]) :
                    /\ holds' = [holds EXCEPT ![w] = SubSeq(@, i, Len(@))]
                    /\ events' = [events EXCEPT ![w] = SubSeq(@, 1, j)]
  <1>1. UNCHANGED coordinatorVars
    BY DEF WorkerStarts, WorkerReports, WorkerComputes, WorkerBeginsJob,
           WorkerSwitchesPreset, WorkerEndsJob, WorkerRests, WorkerCrashes
  <1>2. CASE WorkerStarts(w)
    <2> DEFINE e == [kind |-> "report", preset |-> ConfigPreset[w],
                     status |-> IF w \in Preloads THEN "ready" ELSE "listening"]
    <2>1. /\ e \in Event
          /\ e.kind \notin Terminal
          /\ e.preset = ConfigPreset[w]
      BY WorkersAssumption DEF Event, ReportEvent, WorkerStatus, Terminal
    <2>2. /\ holds' = holds
          /\ events' = events \/ events' = [events EXCEPT ![w] = Append(@, e)]
      BY <1>2 DEF WorkerStarts
    <2> HIDE DEF e
    <2> QED
      BY <1>1, <2>1, <2>2
  <1>3. CASE WorkerReports(w)
    <2> DEFINE e == [kind |-> "report", status |-> StatusOf(w), preset |-> loaded[w]]
    <2>1. /\ e \in Event
          /\ e.kind \notin Terminal
          /\ e.preset = loaded[w]
      BY DEF Event, ReportEvent, WorkerStatus, StatusOf, Terminal, TypeOK, TypeWorkers
    <2>2. holds' = holds /\ events' = [events EXCEPT ![w] = Append(@, e)]
      BY <1>3 DEF WorkerReports
    <2> HIDE DEF e
    <2> QED
      BY <1>1, <2>1, <2>2
  <1>4. CASE WorkerBeginsJob(w)
    <2> DEFINE e == [kind |-> "progress", request |-> Head(holds[w])]
    <2>1. Head(holds[w]) \in Requests
      BY <1>4, TailRange DEF WorkerBeginsJob, TypeOK, TypeWorkers
    <2>2. e \in Event /\ e.kind \notin Terminal /\ e.kind # "report"
      BY <2>1 DEF Event, JobEvent, Terminal
    <2>3. holds' = holds /\ events' = [events EXCEPT ![w] = Append(@, e)]
      BY <1>4 DEF WorkerBeginsJob
    <2> HIDE DEF e
    <2> QED
      BY <1>1, <2>2, <2>3
  <1>5. ASSUME NEW outcome \in Terminal, WorkerEndsJob(w, outcome)
        PROVE  \E e \in Event :
                  /\ holds[w] # <<>>
                  /\ e.kind \in Terminal
                  /\ e.request = Head(holds[w])
                  /\ holds' = [holds EXCEPT ![w] = Tail(@)]
                  /\ events' = [events EXCEPT ![w] = Append(@, e)]
    <2> DEFINE e == [kind |-> outcome, request |-> Head(holds[w])]
    <2>1. Head(holds[w]) \in Requests
      BY <1>5, TailRange DEF WorkerEndsJob, TypeOK, TypeWorkers
    <2>2. e \in Event /\ e.kind \in Terminal /\ e.request = Head(holds[w])
      BY <2>1 DEF Event, JobEvent
    <2>3. /\ holds[w] # <<>>
          /\ holds' = [holds EXCEPT ![w] = Tail(@)]
          /\ events' = [events EXCEPT ![w] = Append(@, e)]
      BY <1>5 DEF WorkerEndsJob
    <2> HIDE DEF e
    <2> QED
      BY <2>2, <2>3
  <1>6. CASE WorkerCrashes(w)
    BY <1>1, <1>6 DEF WorkerCrashes
  <1>7. CASE WorkerSwitchesPreset(w) \/ WorkerRests(w)
    BY <1>1, <1>7 DEF WorkerSwitchesPreset, WorkerRests
  <1> QED
    BY <1>1, <1>2, <1>3, <1>4, <1>5, <1>6, <1>7 DEF WorkerComputes

-----------------------------------------------------------------------------
(* Queued jobs can be served.  Which presets a worker accepts never        *)
(* changes: one that lists none is sent jobs of its own preset only, so it *)
(* never loads, and never reports, another.                                *)
PresetsServed(w) ==
    IF AcceptedPresets[w] = {} THEN {ConfigPreset[w]} ELSE AcceptedPresets[w]

FixedPresets ==
    \A w \in Workers :
        /\ \A r \in Range(holds[w]) : PresetOf[r] \in PresetsServed(w)
        /\ AcceptedPresets[w] = {} =>
              /\ preset[w] = ConfigPreset[w]
              /\ loaded[w] \in {ConfigPreset[w], NoPreset}
              /\ \A e \in Range(events[w]) :
                    e.kind = "report" => e.preset \in {ConfigPreset[w], NoPreset}

ServableInv ==
    /\ FixedPresets
    /\ \A r \in Range(deferred) : LiveMatching(r) # {}
    /\ phase # "failing" => \A r \in Range(queue) : LiveMatching(r) # {}

(* What a worker accepts is what it was configured to serve.               *)
LEMMA AcceptedIsServed ==
    FixedPresets => \A w \in Workers : \A r : Accepts(w, r) <=> PresetOf[r] \in PresetsServed(w)
  BY DEF FixedPresets, Accepts, PresetsServed

(* New jobs of a worker are of a preset it serves, new reports of the      *)
(* preset it has: then the presets stay what they are.                     *)
LEMMA FixedKept ==
    ASSUME FixedPresets,
           \A w \in Workers :
              /\ \A r \in Range(holds'[w]) :
                    r \in Range(holds[w]) \/ PresetOf[r] \in PresetsServed(w)
              /\ AcceptedPresets[w] = {} =>
                    /\ preset'[w] = preset[w]
                    /\ loaded'[w] \in {loaded[w], ConfigPreset[w], NoPreset}
                    /\ \A e \in Range(events'[w]) :
                          \/ e \in Range(events[w])
                          \/ e.kind = "report" => e.preset \in {ConfigPreset[w], loaded[w]}
    PROVE  FixedPresets'
  <1>1. \A w \in Workers : PresetsServed(w)' = PresetsServed(w)
    BY DEF PresetsServed
  <1> QED
    BY <1>1 DEF FixedPresets

(* No step sends a worker a job of a preset it does not serve, nor has it  *)
(* load or report one.                                                     *)
LEMMA FixedStep ==
    ASSUME TypeOK, FixedPresets, [Next]_vars
    PROVE  FixedPresets'
  <1>1. CASE UNCHANGED <<holds, preset, loaded, events>>
    BY <1>1, FixedKept
  <1>2. CASE Shutdown
    <2>1. \A w \in Workers : Range(holds'[w]) \subseteq Range(holds[w])
      <3>1. PICK kept \in [Workers -> 0 .. Cardinality(Requests)] :
               /\ \A w \in Workers : kept[w] <= Len(holds[w])
               /\ holds' = [w \in Workers |-> SubSeq(holds[w], 1, kept[w])]
        BY <1>2 DEF Shutdown
      <3>2. ASSUME NEW w \in Workers
            PROVE  Range(SubSeq(holds[w], 1, kept[w])) \subseteq Range(holds[w])
        <4>1. holds[w] \in Seq(Requests) /\ Len(holds[w]) \in Nat
          BY LenProperties DEF TypeOK, TypeWorkers
        <4>2. kept[w] \in 0 .. Len(holds[w]) /\ 1 \in 1 .. Len(holds[w]) + 1
          BY <3>1, <4>1
        <4> QED
          BY <4>1, <4>2, SubSeqRange
      <3> QED
        BY <3>1, <3>2
    <2>2. UNCHANGED <<preset, loaded, events>>
      BY <1>2 DEF Shutdown, reportVars
    <2> QED
      BY <2>1, <2>2, FixedKept
  <1>3. CASE Dispatch
    <2>1. queue # <<>> /\ Head(queue) \in Requests
      BY <1>3, TailRange DEF Dispatch, TypeOK, TypeJobs
    <2>2. PICK w \in Chosen(Head(queue)) :
             holds' = [holds EXCEPT ![w] = Append(@, Head(queue))]
      BY <1>3 DEF Dispatch
    <2>3. w \in Workers /\ PresetOf[Head(queue)] \in PresetsServed(w)
      BY <2>2, AcceptedIsServed DEF Chosen, LiveMatching
    <2>4. \A v \in Workers :
             holds'[v] = holds[v] \/ (v = w /\ holds'[v] = Append(holds[w], Head(queue)))
      BY <2>2, <2>3 DEF TypeOK, TypeWorkers
    <2>5. Range(Append(holds[w], Head(queue))) = Range(holds[w]) \cup {Head(queue)}
      BY <2>1, <2>3, AppendRange DEF TypeOK, TypeWorkers
    <2>6. \A v \in Workers : \A r \in Range(holds'[v]) :
             r \in Range(holds[v]) \/ PresetOf[r] \in PresetsServed(v)
      <3> SUFFICES ASSUME NEW v \in Workers, NEW r \in Range(holds'[v])
                   PROVE  r \in Range(holds[v]) \/ PresetOf[r] \in PresetsServed(v)
        OBVIOUS
      <3>1. CASE holds'[v] = holds[v]
        BY <3>1
      <3>2. CASE v = w /\ holds'[v] = Append(holds[w], Head(queue))
        BY <2>3, <2>5, <3>2, Zenon
      <3> QED
        BY <2>4, <3>1, <3>2
    <2>7. UNCHANGED <<preset, loaded, events>>
      BY <1>3 DEF Dispatch, reportVars
    <2> QED
      BY <2>6, <2>7, FixedKept
  <1>4. ASSUME NEW w \in Workers, HandleEvent(w)
        PROVE  FixedPresets'
    <2>1. /\ events[w] # <<>>
          /\ events' = [events EXCEPT ![w] = Tail(@)]
          /\ UNCHANGED <<holds, loaded>>
      BY <1>4 DEF HandleEvent, HandleReport, HandleProgress, HandleAnswer, Hear
    <2>2. /\ Head(events[w]) \in Range(events[w])
          /\ Range(Tail(events[w])) \subseteq Range(events[w])
      BY <2>1, TailRange DEF TypeOK, TypeWorkers
    <2>3. \A v \in Workers : Range(events'[v]) \subseteq Range(events[v])
      BY <2>1, <2>2 DEF TypeOK, TypeWorkers
    <2>4. \/ preset' = preset
          \/ /\ Head(events[w]).kind = "report"
             /\ Head(events[w]).preset # NoPreset
             /\ preset' = [preset EXCEPT ![w] = Head(events[w]).preset]
      BY <1>4 DEF HandleEvent, HandleReport, HandleProgress, HandleAnswer
    <2>5. \A v \in Workers : AcceptedPresets[v] = {} => preset'[v] = preset[v]
      BY <2>2, <2>4 DEF FixedPresets, TypeOK, TypeReports
    <2> QED
      BY <2>1, <2>3, <2>5, FixedKept
  <1>5. ASSUME NEW w \in Workers,
               \/ WorkerStarts(w) \/ WorkerReports(w) \/ WorkerComputes(w)
               \/ WorkerCrashes(w)
        PROVE  FixedPresets'
    <2>1. preset' = preset
      BY <1>5, WorkerTraffic DEF coordinatorVars, reportVars
    <2>2. \A v \in Workers : Range(holds'[v]) \subseteq Range(holds[v])
      <3>1. \/ holds' = holds
            \/ holds[w] # <<>> /\ holds' = [holds EXCEPT ![w] = Tail(@)]
            \/ \E i \in 1 .. Len(holds[w]) + 1 :
                  holds' = [holds EXCEPT ![w] = SubSeq(@, i, Len(@))]
        BY <1>5, WorkerTraffic
      <3>2. holds[w] # <<>> => Range(Tail(holds[w])) \subseteq Range(holds[w])
        BY TailRange DEF TypeOK, TypeWorkers
      <3>3. \A i \in 1 .. Len(holds[w]) + 1 :
               Range(SubSeq(holds[w], i, Len(holds[w]))) \subseteq Range(holds[w])
        <4>1. holds[w] \in Seq(Requests) /\ Len(holds[w]) \in 0 .. Len(holds[w])
          BY LenProperties DEF TypeOK, TypeWorkers
        <4> QED
          BY <4>1, SubSeqRange
      <3> QED
        BY <3>1, <3>2, <3>3 DEF TypeOK, TypeWorkers
    <2>3. \A v \in Workers : \A e \in Range(events'[v]) :
             \/ e \in Range(events[v])
             \/ e.kind = "report" => e.preset \in {ConfigPreset[v], loaded[v]}
      <3>1. \/ events' = events
            \/ \E e \in Event :
                  /\ e.kind = "report" => e.preset \in {ConfigPreset[w], loaded[w]}
                  /\ events' = [events EXCEPT ![w] = Append(@, e)]
            \/ \E j \in 0 .. Len(events[w]) :
                  events' = [events EXCEPT ![w] = SubSeq(@, 1, j)]
        BY <1>5, WorkerTraffic DEF Terminal
      <3>2. \A e \in Event : Range(Append(events[w], e)) = Range(events[w]) \cup {e}
        BY AppendRange DEF TypeOK, TypeWorkers
      <3>3. \A j \in 0 .. Len(events[w]) :
               Range(SubSeq(events[w], 1, j)) \subseteq Range(events[w])
        <4>1. events[w] \in Seq(Event) /\ 1 \in 1 .. Len(events[w]) + 1
          BY LenProperties DEF TypeOK, TypeWorkers
        <4> QED
          BY <4>1, SubSeqRange
      <3>4. \A v \in Workers :
               \/ events'[v] = events[v]
               \/ /\ v = w
                  /\ \/ \E e \in Event :
                           /\ e.kind = "report" => e.preset \in {ConfigPreset[w], loaded[w]}
                           /\ events'[w] = Append(events[w], e)
                     \/ \E j \in 0 .. Len(events[w]) : events'[w] = SubSeq(events[w], 1, j)
        BY <3>1 DEF TypeOK, TypeWorkers
      <3> QED
        BY <3>2, <3>3, <3>4
    <2>4. \A v \in Workers :
             AcceptedPresets[v] = {} => loaded'[v] \in {loaded[v], ConfigPreset[v], NoPreset}
      <3>1. CASE loaded' = loaded
        BY <3>1
      <3>2. CASE loaded' = [loaded EXCEPT ![w] = ConfigPreset[w]]
        BY <3>2 DEF TypeOK, TypeWorkers
      <3>3. CASE WorkerSwitchesPreset(w)
        <4>1. Head(holds[w]) \in Range(holds[w])
          BY <3>3, TailRange DEF WorkerSwitchesPreset, TypeOK, TypeWorkers
        <4>2. AcceptedPresets[w] = {} => PresetOf[Head(holds[w])] = ConfigPreset[w]
          BY <4>1 DEF FixedPresets, PresetsServed
        <4>3. \A v \in Workers :
                 loaded'[v] = IF v # w THEN loaded[v]
                              ELSE IF loaded[w] = NoPreset THEN PresetOf[Head(holds[w])]
                              ELSE NoPreset
          BY <3>3 DEF WorkerSwitchesPreset, TypeOK, TypeWorkers
        <4> QED
          BY <4>2, <4>3
      <3> QED
        BY <1>5, <3>1, <3>2, <3>3
           DEF WorkerStarts, WorkerReports, WorkerComputes, WorkerBeginsJob,
               WorkerEndsJob, WorkerRests, WorkerCrashes
    <2> QED
      BY <2>1, <2>2, <2>3, <2>4, FixedKept
  <1>6. \/ UNCHANGED <<holds, preset, loaded, events>>
        \/ Shutdown \/ Dispatch
        \/ \E w \in Workers :
              \/ HandleEvent(w)
              \/ WorkerStarts(w) \/ WorkerReports(w) \/ WorkerComputes(w)
              \/ WorkerCrashes(w)
    <2>1. CASE UNCHANGED vars
      BY <2>1 DEF vars, coordinatorVars, reportVars, workerVars
    <2>2. CASE Next
      BY <2>2 DEF Next, QueueLoop, Submit, Defer, EndOfQueue, RefuseQueued, KeepQueued,
                  DeclareUnresponsive, reportVars, workerVars
    <2> QED
      BY <2>1, <2>2
  <1> QED
    BY <1>1, <1>2, <1>3, <1>4, <1>5, <1>6

(* The queue loses its unservable jobs before the serve loop goes on.      *)
LEMMA ServableStep ==
    ASSUME TypeOK, JobsInv, ServableInv, [Next]_vars
    PROVE  ServableInv'
  <1>1. FixedPresets /\ FixedPresets'
    BY FixedStep DEF ServableInv
  <1>2. ASSUME \A w \in Workers : unresponsive'[w] => unresponsive[w]
        PROVE  \A r : LiveMatching(r) # {} => LiveMatching(r)' # {}
    <2>1. \A w \in Workers : \A r : Accepts(w, r) <=> PresetOf[r] \in PresetsServed(w)
      BY <1>1, AcceptedIsServed
    <2>2. \A w \in Workers : \A r : Accepts(w, r)' <=> PresetOf[r] \in PresetsServed(w)
      BY <1>1 DEF FixedPresets, Accepts, PresetsServed
    <2> QED
      BY <1>2, <2>1, <2>2 DEF LiveMatching
  <1>3. ASSUME \A w \in Workers : unresponsive'[w] => unresponsive[w],
               Range(deferred') \subseteq Range(deferred),
               Range(queue') \subseteq Range(queue),
               phase' # "failing" => phase # "failing"
        PROVE  ServableInv'
    BY <1>1, <1>2, <1>3 DEF ServableInv
  <1>4. ASSUME NEW r \in Requests, Submit(r)
        PROVE  ServableInv'
    <2>1. UNCHANGED <<unresponsive, deferred>> /\ phase # "failing"
      BY <1>4 DEF Submit, Idle, reportVars
    <2>2. CASE LiveMatching(r) = {}
      <3>1. UNCHANGED <<queue, phase>>
        BY <1>4, <2>2 DEF Submit
      <3> QED
        BY <1>3, <2>1, <3>1
    <2>3. CASE LiveMatching(r) # {}
      <3>1. Range(queue') = Range(queue) \cup {r}
        <4>1. queue' = Append(queue, r) /\ queue \in Seq(Requests)
          BY <1>4, <2>3 DEF Submit, TypeOK, TypeJobs
        <4> QED
          BY <4>1, AppendRange
      <3> QED
        BY <1>1, <1>2, <2>1, <2>3, <3>1 DEF ServableInv
    <2> QED
      BY <2>2, <2>3
  <1>5. CASE Dispatch \/ RefuseQueued
    <2>1. queue # <<>> /\ queue' = Tail(queue) /\ UNCHANGED <<unresponsive, deferred, phase>>
      BY <1>5 DEF Dispatch, RefuseQueued, reportVars
    <2>2. Range(queue') \subseteq Range(queue)
      BY <2>1, TailRange DEF TypeOK, TypeJobs
    <2> QED
      BY <1>3, <2>1, <2>2
  <1>6. CASE Defer \/ KeepQueued
    <2>1. /\ queue # <<>> /\ queue' = Tail(queue)
          /\ deferred' = Append(deferred, Head(queue))
          /\ UNCHANGED <<unresponsive, phase>>
      BY <1>6 DEF Defer, KeepQueued, reportVars
    <2>2. /\ Head(queue) \in Range(queue)
          /\ Range(queue') \subseteq Range(queue)
          /\ Range(deferred') = Range(deferred) \cup {Head(queue)}
      BY <2>1, TailRange, AppendRange DEF TypeOK, TypeJobs
    <2>3. LiveMatching(Head(queue)) # {}
      BY <1>6, <2>2 DEF Defer, KeepQueued, Dispatching, ServableInv
    <2> QED
      BY <1>1, <1>2, <2>1, <2>2, <2>3 DEF ServableInv
  <1>7. CASE EndOfQueue
    <2>1. queue' = deferred /\ deferred' = <<>> /\ UNCHANGED unresponsive
      BY <1>7 DEF EndOfQueue, reportVars
    <2>2. Range(deferred') = {}
      BY <2>1 DEF Range
    <2> QED
      BY <1>1, <1>2, <2>1, <2>2 DEF ServableInv
  <1>8. ASSUME NEW w \in Workers, HandleEvent(w)
        PROVE  ServableInv'
    <2>1. /\ unresponsive' = [unresponsive EXCEPT ![w] = FALSE]
          /\ phase # "failing"
          /\ UNCHANGED <<queue, deferred>>
      BY <1>8 DEF HandleEvent, HandleReport, HandleProgress, HandleAnswer, Hear, Idle
    <2>2. \A v \in Workers : unresponsive'[v] => unresponsive[v]
      BY <2>1 DEF TypeOK, TypeReports
    <2> QED
      BY <1>3, <2>1, <2>2
  <1>9. ASSUME NEW w \in Workers, DeclareUnresponsive(w)
        PROVE  ServableInv'
    <2>1. deferred' = <<>> /\ phase' = "failing"
      BY <1>9 DEF DeclareUnresponsive, Idle, JobsInv, JobsTraced
    <2>2. Range(deferred') = {}
      BY <2>1 DEF Range
    <2> QED
      BY <1>1, <2>1, <2>2 DEF ServableInv
  <1>10. CASE UNCHANGED coordinatorVars \/ Shutdown
    BY <1>3, <1>10 DEF coordinatorVars, jobVars, reportVars, Shutdown
  <1> QED
    BY <1>4, <1>5, <1>6, <1>7, <1>8, <1>9, <1>10, StepKinds DEF QueueLoop

(* Between two rounds of the serve loop every queued job has a live worker *)
(* that accepts it: those nobody was left for were failed                  *)
(* (_fail_queued_jobs_without_live_worker).                                *)
THEOREM QueueIsServable == Spec => []QueuedAreServable
  <1>1. Init => ServableInv
    BY DEF Init, ServableInv, FixedPresets, Range
  <1>2. TypeOK /\ JobsInv /\ ServableInv /\ [Next]_vars => ServableInv'
    BY ServableStep
  <1>3. ServableInv => QueuedAreServable
    BY DEF ServableInv, QueuedAreServable
  <1> QED
    BY <1>1, <1>2, <1>3, TypeCorrect, JobsInvHolds, PTL DEF Spec

-----------------------------------------------------------------------------
(* One answer per job.  A job reaches one worker at most, once; as long as *)
(* that worker has it, or its answer is on the way, the client has seen    *)
(* nothing final but, perhaps, "stopped responding".                       *)
IsAnswer(e) == e.kind \in Terminal

Answering(w, r) == \E e \in Range(events[w]) : IsAnswer(e) /\ e.request = r

Owes(w, r) == r \in Range(holds[w]) \/ Answering(w, r)

AnswersOnce(s) ==
    \A i, j \in DOMAIN s :
        IsAnswer(s[i]) /\ IsAnswer(s[j]) /\ s[i].request = s[j].request => i = j

OneCopy ==
    /\ \A w \in Workers :
          /\ IsInjective(holds[w])
          /\ AnswersOnce(events[w])
          /\ \A r \in Range(holds[w]) : ~Answering(w, r)
    /\ \A v, w \in Workers, r \in Requests : Owes(v, r) /\ Owes(w, r) => v = w

AnswersInv ==
    /\ OneCopy
    /\ \A w \in Workers, r \in Requests : Owes(w, r) => answers[r] \in {<<>>, <<"lost">>}
    /\ SecondAnswerOnlyAfterLoss

(* Prefixes, suffixes and tails repeat nothing their sequence does not,    *)
(* and what a sequence is extended with is new.                            *)
LEMMA SubSeqOnce ==
    ASSUME NEW S, NEW s \in Seq(S), NEW i \in 1 .. Len(s) + 1, NEW j \in 0 .. Len(s)
    PROVE  /\ IsInjective(s) => IsInjective(SubSeq(s, i, j))
           /\ AnswersOnce(s) => AnswersOnce(SubSeq(s, i, j))
  <1>1. /\ SubSeq(s, i, j) \in Seq(S)
        /\ Len(SubSeq(s, i, j)) = IF i <= j THEN j - i + 1 ELSE 0
        /\ \A k \in 1 .. j - i + 1 : SubSeq(s, i, j)[k] = s[i + k - 1]
    BY SubSeqProperties
  <1>2. Len(s) \in Nat /\ DOMAIN s = 1 .. Len(s)
    BY LenProperties
  <1>3. DOMAIN SubSeq(s, i, j) = 1 .. Len(SubSeq(s, i, j))
    BY <1>1, LenProperties
  <1>4. \A k \in DOMAIN SubSeq(s, i, j) :
           /\ SubSeq(s, i, j)[k] = s[i + k - 1]
           /\ i + k - 1 \in DOMAIN s
           /\ k \in Int
    BY <1>1, <1>2, <1>3
  <1>5. \A k, l \in DOMAIN SubSeq(s, i, j) : i + k - 1 = i + l - 1 => k = l
    BY <1>4
  <1> DEFINE t == SubSeq(s, i, j)
  <1>6. /\ \A k \in DOMAIN t : t[k] = s[i + k - 1] /\ i + k - 1 \in DOMAIN s
        /\ \A k, l \in DOMAIN t : i + k - 1 = i + l - 1 => k = l
    BY <1>4, <1>5
  <1> HIDE DEF t
  <1>7. IsInjective(s) => IsInjective(t)
    BY <1>6, Zenon DEF IsInjective
  <1>8. AnswersOnce(s) => AnswersOnce(t)
    BY <1>6, Zenon DEF AnswersOnce
  <1> QED
    BY <1>7, <1>8 DEF t

(* The first answer of a sequence is not repeated in the rest.             *)
LEMMA TailOnce ==
    ASSUME NEW S, NEW s \in Seq(S), s # <<>>, AnswersOnce(s)
    PROVE  /\ AnswersOnce(Tail(s))
           /\ \A e \in Range(Tail(s)) :
                 IsAnswer(Head(s)) /\ IsAnswer(e) => e.request # Head(s).request
  <1>1. /\ Tail(s) \in Seq(S)
        /\ Len(s) \in Nat \ {0}
        /\ Len(Tail(s)) = Len(s) - 1
        /\ \A i \in 1 .. Len(Tail(s)) : Tail(s)[i] = s[i + 1]
        /\ Head(s) = s[1]
        /\ DOMAIN s = 1 .. Len(s)
    BY HeadTailProperties, LenProperties, EmptySeq
  <1>2. DOMAIN Tail(s) = 1 .. Len(s) - 1
    BY <1>1, LenProperties
  <1>3. \A k \in DOMAIN Tail(s) :
           Tail(s)[k] = s[k + 1] /\ k + 1 \in DOMAIN s /\ k + 1 # 1 /\ k \in Int
    BY <1>1, <1>2
  <1>4. 1 \in DOMAIN s
    BY <1>1
  <1>5. AnswersOnce(Tail(s))
    BY <1>3 DEF AnswersOnce
  <1>6. ASSUME NEW e \in Range(Tail(s)), IsAnswer(Head(s)), IsAnswer(e),
               e.request = Head(s).request
        PROVE  FALSE
    <2>1. PICK k \in DOMAIN Tail(s) : e = Tail(s)[k]
      BY DEF Range
    <2> QED
      BY <1>1, <1>3, <1>4, <1>6, <2>1 DEF AnswersOnce
  <1> QED
    BY <1>5, <1>6

(* An answer to a job nobody answered before can be appended.              *)
LEMMA AppendOnce ==
    ASSUME NEW S, NEW s \in Seq(S), NEW e \in S, AnswersOnce(s),
           \A d \in Range(s) : IsAnswer(e) /\ IsAnswer(d) => d.request # e.request
    PROVE  AnswersOnce(Append(s, e))
  <1>1. /\ Len(Append(s, e)) = Len(s) + 1
        /\ \A i \in 1 .. Len(s) : Append(s, e)[i] = s[i]
        /\ Append(s, e)[Len(s) + 1] = e
        /\ DOMAIN Append(s, e) = 1 .. Len(s) + 1
        /\ DOMAIN s = 1 .. Len(s)
        /\ Len(s) \in Nat
    BY AppendProperties, LenProperties
  <1>2. \A i \in DOMAIN Append(s, e) :
           \/ i \in DOMAIN s /\ Append(s, e)[i] = s[i] /\ s[i] \in Range(s)
           \/ i = Len(s) + 1 /\ Append(s, e)[i] = e
    BY <1>1 DEF Range
  <1> QED
    BY <1>2 DEF AnswersOnce

(* Steps that leave the answers alone keep the invariant if no job comes   *)
(* to be owed anew.                                                        *)
LEMMA AnswersKept ==
    ASSUME AnswersInv, answers' = answers,
           \A w \in Workers :
              /\ IsInjective(holds'[w])
              /\ AnswersOnce(events'[w])
              /\ \A r \in Range(holds'[w]) : ~Answering(w, r)'
              /\ \A r \in Requests : Owes(w, r)' => Owes(w, r)
    PROVE  AnswersInv'
  BY DEF AnswersInv, OneCopy, SecondAnswerOnlyAfterLoss

(* What is owed is booked on that worker or was answered.                  *)
LEMMA OwedIsTraced ==
    ASSUME TypeOK, JobsInv, NEW w \in Workers, NEW r, Owes(w, r)
    PROVE  Traced(w, r)
  BY DEF JobsInv, JobsTraced, Owes, Answering, IsAnswer, Terminal

(* A worker turns a job into its answer, or loses either.                  *)
LEMMA AnswersStepWorker ==
    ASSUME TypeOK, AnswersInv, NEW w \in Workers,
           \/ WorkerStarts(w) \/ WorkerReports(w) \/ WorkerComputes(w)
           \/ WorkerCrashes(w)
    PROVE  AnswersInv'
  <1>1. answers' = answers
    BY WorkerTraffic DEF coordinatorVars, clientVars
  <1>2. /\ holds[w] \in Seq(Requests) /\ events[w] \in Seq(Event)
        /\ IsInjective(holds[w]) /\ AnswersOnce(events[w])
        /\ \A r \in Range(holds[w]) : ~Answering(w, r)
    BY DEF TypeOK, TypeWorkers, AnswersInv, OneCopy
  <1>3. ASSUME NEW h, NEW q,
               holds' = [holds EXCEPT ![w] = h],
               events' = [events EXCEPT ![w] = q],
               IsInjective(h), AnswersOnce(q),
               \A r \in Range(h), e \in Range(q) : IsAnswer(e) => e.request # r,
               Range(h) \subseteq Range(holds[w]),
               \A e \in Range(q) :
                  IsAnswer(e) => e \in Range(events[w]) \/ e.request \in Range(holds[w])
        PROVE  AnswersInv'
    <2>1. \A v \in Workers :
             /\ holds'[v] = IF v = w THEN h ELSE holds[v]
             /\ events'[v] = IF v = w THEN q ELSE events[v]
      BY <1>3 DEF TypeOK, TypeWorkers
    <2>2. holds'[w] = h /\ events'[w] = q
      BY <2>1
    <2>3. /\ \A r \in Range(h) : ~Answering(w, r)'
          /\ \A r : Owes(w, r)' => Owes(w, r)
      BY <1>3, <2>2 DEF Answering, Owes
    <2>4. ASSUME NEW v \in Workers, v # w
          PROVE  /\ holds'[v] = holds[v]
                 /\ events'[v] = events[v]
                 /\ \A r : (Answering(v, r)' <=> Answering(v, r)) /\ (Owes(v, r)' <=> Owes(v, r))
      BY <2>1, <2>4 DEF Answering, Owes
    <2>5. ASSUME NEW v \in Workers
          PROVE  /\ IsInjective(holds'[v])
                 /\ AnswersOnce(events'[v])
                 /\ \A r \in Range(holds'[v]) : ~Answering(v, r)'
                 /\ \A r \in Requests : Owes(v, r)' => Owes(v, r)
      <3>1. CASE v = w
        BY <1>3, <2>2, <2>3, <3>1
      <3>2. CASE v # w
        BY <2>4, <3>2 DEF AnswersInv, OneCopy
      <3> QED
        BY <3>1, <3>2
    <2> QED
      BY <1>1, <2>5, AnswersKept
  <1>4. holds = [holds EXCEPT ![w] = holds[w]] /\ events = [events EXCEPT ![w] = events[w]]
    BY DEF TypeOK, TypeWorkers
  <1>5. CASE UNCHANGED <<holds, events>>
    BY <1>2, <1>3, <1>4, <1>5 DEF Answering
  <1>6. ASSUME NEW e \in Event, ~IsAnswer(e), holds' = holds,
               events' = [events EXCEPT ![w] = Append(@, e)]
        PROVE  AnswersInv'
    <2>1. Range(Append(events[w], e)) = Range(events[w]) \cup {e}
      BY <1>2, AppendRange
    <2>2. AnswersOnce(Append(events[w], e))
      BY <1>2, <1>6, AppendOnce
    <2>3. \A d \in Range(Append(events[w], e)) : IsAnswer(d) => d \in Range(events[w])
      BY <1>6, <2>1
    <2> QED
      BY <1>2, <1>3, <1>4, <1>6, <2>2, <2>3 DEF Answering
  <1>7. ASSUME NEW e \in Event, holds[w] # <<>>, IsAnswer(e), e.request = Head(holds[w]),
               holds' = [holds EXCEPT ![w] = Tail(@)],
               events' = [events EXCEPT ![w] = Append(@, e)]
        PROVE  AnswersInv'
    <2>1. /\ Head(holds[w]) \in Range(holds[w])
          /\ Range(Tail(holds[w])) \subseteq Range(holds[w])
          /\ IsInjective(Tail(holds[w]))
          /\ Head(holds[w]) \notin Range(Tail(holds[w]))
      BY <1>2, <1>7, TailRange, TailDistinct
    <2>2. Range(Append(events[w], e)) = Range(events[w]) \cup {e}
      BY <1>2, AppendRange
    <2>3. \A d \in Range(events[w]) : IsAnswer(d) => d.request \notin Range(holds[w])
      BY <1>2 DEF Answering
    <2>4. AnswersOnce(Append(events[w], e))
      BY <1>2, <1>7, <2>1, <2>3, AppendOnce
    <2>5. \A r \in Range(Tail(holds[w])), d \in Range(Append(events[w], e)) :
             IsAnswer(d) => d.request # r
      BY <1>7, <2>1, <2>2, <2>3
    <2>6. \A d \in Range(Append(events[w], e)) :
             IsAnswer(d) => d \in Range(events[w]) \/ d.request \in Range(holds[w])
      BY <1>7, <2>1, <2>2
    <2> QED
      BY <1>3, <1>7, <2>1, <2>4, <2>5, <2>6
  <1>8. ASSUME NEW i \in 1 .. Len(holds[w]) + 1, NEW j \in 0 .. Len(events[w]),
               holds' = [holds EXCEPT ![w] = SubSeq(@, i, Len(@))],
               events' = [events EXCEPT ![w] = SubSeq(@, 1, j)]
        PROVE  AnswersInv'
    <2>1. Len(holds[w]) \in 0 .. Len(holds[w]) /\ 1 \in 1 .. Len(events[w]) + 1
      BY <1>2, LenProperties
    <2>2. /\ Range(SubSeq(holds[w], i, Len(holds[w]))) \subseteq Range(holds[w])
          /\ IsInjective(SubSeq(holds[w], i, Len(holds[w])))
      BY <1>2, <2>1, SubSeqRange, SubSeqOnce
    <2>3. /\ Range(SubSeq(events[w], 1, j)) \subseteq Range(events[w])
          /\ AnswersOnce(SubSeq(events[w], 1, j))
      BY <1>2, <2>1, SubSeqRange, SubSeqOnce
    <2>4. \A r \in Range(holds[w]), e \in Range(events[w]) : IsAnswer(e) => e.request # r
      BY <1>2 DEF Answering
    <2> QED
      BY <1>3, <1>8, <2>2, <2>3, <2>4
  <1>9. \/ UNCHANGED <<holds, events>>
        \/ \E e \in Event :
              /\ ~IsAnswer(e)
              /\ holds' = holds
              /\ events' = [events EXCEPT ![w] = Append(@, e)]
        \/ \E e \in Event :
              /\ holds[w] # <<>>
              /\ IsAnswer(e)
              /\ e.request = Head(holds[w])
              /\ holds' = [holds EXCEPT ![w] = Tail(@)]
              /\ events' = [events EXCEPT ![w] = Append(@, e)]
        \/ \E i \in 1 .. Len(holds[w]) + 1, j \in 0 .. Len(events[w]) :
              /\ holds' = [holds EXCEPT ![w] = SubSeq(@, i, Len(@))]
              /\ events' = [events EXCEPT ![w] = SubSeq(@, 1, j)]
    BY WorkerTraffic DEF IsAnswer
  <1> QED
    BY <1>5, <1>6, <1>7, <1>8, <1>9

(* Dispatching makes a worker owe a job nobody owed; refusing answers one  *)
(* nobody owes.                                                            *)
LEMMA AnswersStepQueue ==
    ASSUME TypeOK, JobsInv, AnswersInv,
           \/ \E r \in Requests : Submit(r)
           \/ Shutdown
           \/ QueueLoop
    PROVE  AnswersInv'
  <1>1. CASE UNCHANGED <<answers, holds, events>>
    BY <1>1 DEF AnswersInv, OneCopy, SecondAnswerOnlyAfterLoss, Owes, Answering
  <1>2. ASSUME NEW r \in Requests, answers[r] = <<>>, \A w \in Workers : ~Owes(w, r),
               answers' = [answers EXCEPT ![r] = Append(@, "refused")],
               UNCHANGED <<holds, events>>
        PROVE  AnswersInv'
    <2>1. OneCopy' /\ \A w \in Workers, s \in Requests : Owes(w, s)' <=> Owes(w, s)
      BY <1>2 DEF AnswersInv, OneCopy, Owes, Answering
    <2>2. \A s \in Requests : s # r => answers'[s] = answers[s]
      BY <1>2 DEF TypeOK, TypeClients
    <2>3. Len(answers'[r]) = 1
      BY <1>2 DEF TypeOK, TypeClients
    <2>4. SecondAnswerOnlyAfterLoss'
      BY <2>2, <2>3 DEF AnswersInv, SecondAnswerOnlyAfterLoss
    <2> QED
      BY <1>2, <2>1, <2>2, <2>4 DEF AnswersInv
  <1>3. ASSUME NEW r \in Requests, Submit(r)
        PROVE  AnswersInv'
    <2>1. answers[r] = <<>> /\ r \notin RunningJobs
      BY <1>3 DEF Submit, JobsInv, JobsTraced
    <2>2. \A w \in Workers : ~Owes(w, r)
      BY <2>1, OwedIsTraced DEF Traced, RunningJobs
    <2>3. UNCHANGED <<holds, events>>
      BY <1>3 DEF Submit, workerVars
    <2>4. answers' = answers \/ answers' = [answers EXCEPT ![r] = Append(@, "refused")]
      BY <1>3 DEF Submit
    <2> QED
      BY <1>1, <1>2, <2>1, <2>2, <2>3, <2>4
  <1>4. CASE RefuseQueued
    <2>1. /\ queue # <<>>
          /\ answers' = [answers EXCEPT ![Head(queue)] = Append(@, "refused")]
          /\ UNCHANGED <<holds, events>>
      BY <1>4 DEF RefuseQueued, workerVars
    <2>2. /\ Head(queue) \in Requests
          /\ Head(queue) \notin RunningJobs
          /\ answers[Head(queue)] = <<>>
      BY <2>1, HeadOfQueue
    <2>3. \A w \in Workers : ~Owes(w, Head(queue))
      BY <2>2, OwedIsTraced DEF Traced, RunningJobs
    <2> QED
      BY <1>2, <2>1, <2>2, <2>3
  <1>5. CASE Dispatch
    <2>1. PICK r : r = Head(queue)
      OBVIOUS
    <2>2. PICK w \in Chosen(r) : holds' = [holds EXCEPT ![w] = Append(@, r)]
      BY <1>5, <2>1 DEF Dispatch
    <2>3. w \in Workers
      BY <2>2 DEF Chosen, LiveMatching
    <2>4. answers' = answers /\ events' = events
      BY <1>5 DEF Dispatch, clientVars
    <2>5. r \in Requests /\ r \notin RunningJobs /\ answers[r] = <<>>
      BY <1>5, <2>1, HeadOfQueue DEF Dispatch
    <2>6. \A v \in Workers : ~Owes(v, r)
      BY <2>5, OwedIsTraced DEF Traced, RunningJobs
    <2>7. \A v \in Workers : holds'[v] = IF v = w THEN Append(holds[w], r) ELSE holds[v]
      BY <2>2, <2>3 DEF TypeOK, TypeWorkers
    <2>8. /\ Range(Append(holds[w], r)) = Range(holds[w]) \cup {r}
          /\ IsInjective(Append(holds[w], r))
      <3>1. holds[w] \in Seq(Requests) /\ IsInjective(holds[w]) /\ r \notin Range(holds[w])
        BY <2>3, <2>6 DEF TypeOK, TypeWorkers, AnswersInv, OneCopy, Owes
      <3> QED
        BY <2>5, <3>1, AppendRange, AppendDistinct
    <2>9. \A v \in Workers : \A s :
             /\ Answering(v, s)' <=> Answering(v, s)
             /\ s \in Range(holds'[v]) <=> s \in Range(holds[v]) \/ (v = w /\ s = r)
             /\ Owes(v, s)' <=> Owes(v, s) \/ (v = w /\ s = r)
      <3>1. \A v \in Workers : \A s :
               s \in Range(holds'[v]) <=> s \in Range(holds[v]) \/ (v = w /\ s = r)
        BY <2>7, <2>8
      <3> QED
        BY <2>4, <3>1 DEF Owes, Answering
    <2>10. \A v \in Workers : IsInjective(holds'[v])
      BY <2>7, <2>8 DEF AnswersInv, OneCopy
    <2>11. OneCopy'
      BY <2>3, <2>4, <2>6, <2>9, <2>10 DEF AnswersInv, OneCopy, Owes
    <2> QED
      BY <2>4, <2>5, <2>9, <2>11 DEF AnswersInv, SecondAnswerOnlyAfterLoss
  <1>6. CASE Shutdown
    <2>1. PICK kept \in [Workers -> 0 .. Cardinality(Requests)] :
             /\ \A w \in Workers : kept[w] <= Len(holds[w])
             /\ holds' = [w \in Workers |-> SubSeq(holds[w], 1, kept[w])]
      BY <1>6 DEF Shutdown
    <2>2. answers' = answers /\ events' = events
      BY <1>6 DEF Shutdown, clientVars
    <2>3. \A w \in Workers :
             /\ Range(holds'[w]) \subseteq Range(holds[w])
             /\ IsInjective(holds'[w])
      <3> SUFFICES ASSUME NEW w \in Workers
                   PROVE  /\ Range(SubSeq(holds[w], 1, kept[w])) \subseteq Range(holds[w])
                          /\ IsInjective(SubSeq(holds[w], 1, kept[w]))
        BY <2>1
      <3>1. holds[w] \in Seq(Requests) /\ Len(holds[w]) \in Nat /\ IsInjective(holds[w])
        BY LenProperties DEF TypeOK, TypeWorkers, AnswersInv, OneCopy
      <3>2. kept[w] \in 0 .. Len(holds[w]) /\ 1 \in 1 .. Len(holds[w]) + 1
        BY <2>1, <3>1
      <3> QED
        BY <3>1, <3>2, SubSeqRange, SubSeqOnce
    <2>4. \A w \in Workers :
             /\ AnswersOnce(events'[w])
             /\ \A r \in Range(holds'[w]) : ~Answering(w, r)'
             /\ \A r \in Requests : Owes(w, r)' => Owes(w, r)
      BY <2>2, <2>3 DEF AnswersInv, OneCopy, Owes, Answering
    <2> QED
      BY <2>2, <2>3, <2>4, AnswersKept
  <1>7. CASE Defer \/ EndOfQueue \/ KeepQueued
    BY <1>1, <1>7 DEF Defer, EndOfQueue, KeepQueued, clientVars, workerVars
  <1> QED
    BY <1>3, <1>4, <1>5, <1>6, <1>7 DEF QueueLoop

(* An answer that arrives is owed no more; a silent worker still owes what *)
(* the coordinator answers in its place.                                   *)
LEMMA AnswersStepSupervision ==
    ASSUME TypeOK, JobsInv, AnswersInv, NEW w \in Workers,
           HandleEvent(w) \/ DeclareUnresponsive(w)
    PROVE  AnswersInv'
  <1>1. CASE HandleEvent(w)
    <2>1. /\ events[w] # <<>>
          /\ events' = [events EXCEPT ![w] = Tail(@)]
          /\ holds' = holds
      BY <1>1 DEF HandleEvent, HandleReport, HandleProgress, HandleAnswer, Hear
    <2>2. /\ Head(events[w]) \in Event
          /\ Head(events[w]) \in Range(events[w])
          /\ Range(Tail(events[w])) \subseteq Range(events[w])
          /\ AnswersOnce(Tail(events[w]))
          /\ \A e \in Range(Tail(events[w])) :
                IsAnswer(Head(events[w])) /\ IsAnswer(e) =>
                   e.request # Head(events[w]).request
      <3>1. events[w] \in Seq(Event) /\ AnswersOnce(events[w])
        BY DEF TypeOK, TypeWorkers, AnswersInv, OneCopy
      <3> QED
        BY <2>1, <3>1, TailRange, TailOnce
    <2>3. \A v \in Workers : events'[v] = IF v = w THEN Tail(events[w]) ELSE events[v]
      BY <2>1 DEF TypeOK, TypeWorkers
    <2>4. \A v \in Workers :
             /\ IsInjective(holds'[v])
             /\ AnswersOnce(events'[v])
             /\ Range(events'[v]) \subseteq Range(events[v])
      BY <2>1, <2>2, <2>3 DEF AnswersInv, OneCopy
    <2>5. \A v \in Workers : \A r :
             (Answering(v, r)' => Answering(v, r)) /\ (Owes(v, r)' => Owes(v, r))
      BY <2>1, <2>4 DEF Owes, Answering
    <2>6. \A v \in Workers : \A r \in Range(holds'[v]) : ~Answering(v, r)'
      BY <2>1, <2>5 DEF AnswersInv, OneCopy
    <2>7. CASE answers' = answers
      BY <2>4, <2>5, <2>6, <2>7, AnswersKept
    <2>8. CASE HandleAnswer(w)
      <3>1. PICK r, t : r = Head(events[w]).request /\ t = Head(events[w]).kind
        OBVIOUS
      <3>2. t \in Terminal /\ answers' = [answers EXCEPT ![r] = Append(@, t)]
        BY <2>8, <3>1 DEF HandleAnswer
      <3>3. r \in Requests
        BY <2>2, <3>1, <3>2 DEF Event, ReportEvent, JobEvent, Terminal
      <3>4. Answering(w, r)
        BY <2>2, <3>1, <3>2 DEF Answering, IsAnswer
      <3>5. \A v \in Workers : ~Owes(v, r)'
        <4>1. \A v \in Workers : v # w => ~Owes(v, r)
          BY <3>3, <3>4 DEF AnswersInv, OneCopy, Owes
        <4>2. r \notin Range(holds'[w])
          BY <2>1, <3>4 DEF AnswersInv, OneCopy
        <4>3. ~Answering(w, r)'
          <5>1. events'[w] = Tail(events[w])
            BY <2>3
          <5>2. IsAnswer(Head(events[w]))
            BY <3>1, <3>2 DEF IsAnswer
          <5> QED
            BY <2>2, <3>1, <5>1, <5>2 DEF Answering
        <4>4. ~Owes(w, r)'
          BY <4>2, <4>3 DEF Owes
        <4> QED
          BY <2>5, <4>1, <4>4
      <3>6. answers[r] \in {<<>>, <<"lost">>}
        BY <3>3, <3>4 DEF AnswersInv, Owes
      <3>7. \A s \in Requests : answers'[s] = IF s = r THEN Append(answers[r], t) ELSE answers[s]
        BY <3>2, <3>3 DEF TypeOK, TypeClients
      <3>8. Len(Append(answers[r], t)) > 1 =>
               Len(Append(answers[r], t)) = 2 /\ Append(answers[r], t)[1] = "lost"
        <4>1. CASE answers[r] = <<>>
          BY <4>1
        <4>2. CASE answers[r] = <<"lost">>
          BY <4>2
        <4> QED
          BY <3>6, <4>1, <4>2
      <3>9. SecondAnswerOnlyAfterLoss'
        <4> SUFFICES ASSUME NEW s \in Requests
                     PROVE  Len(answers'[s]) > 1 => Len(answers'[s]) = 2 /\ answers'[s][1] = "lost"
          BY Zenon DEF SecondAnswerOnlyAfterLoss
        <4>1. CASE s = r
          <5>1. answers'[s] = Append(answers[r], t)
            BY <3>7, <4>1
          <5> QED
            BY <3>8, <5>1, Zenon
        <4>2. CASE s # r
          <5>1. answers'[s] = answers[s]
            BY <3>7, <4>2
          <5> QED
            BY <5>1, Zenon DEF AnswersInv, SecondAnswerOnlyAfterLoss
        <4> QED
          BY <4>1, <4>2
      <3>10. \A v \in Workers, s \in Requests : Owes(v, s)' => answers'[s] \in {<<>>, <<"lost">>}
        BY <2>5, <3>5, <3>7 DEF AnswersInv
      <3>11. OneCopy'
        BY <2>4, <2>5, <2>6 DEF AnswersInv, OneCopy
      <3> QED
        BY <3>9, <3>10, <3>11 DEF AnswersInv
    <2> QED
      BY <1>1, <2>7, <2>8 DEF HandleEvent, HandleReport, HandleProgress
  <1>2. CASE DeclareUnresponsive(w)
    <2>1. /\ UNCHANGED <<holds, events>>
          /\ answers' = [r \in Requests |->
                IF r \in running[w] THEN Append(answers[r], "lost") ELSE answers[r]]
      BY <1>2 DEF DeclareUnresponsive
    <2>2. \A r \in running[w] : r \in Requests /\ answers[r] = <<>>
      BY DEF TypeOK, TypeJobs, JobsInv, JobsTraced, NoJobForgotten, RunningJobs
    <2>3. Append(<<>>, "lost") = <<"lost">> /\ Len(<<"lost">>) = 1
      OBVIOUS
    <2>4. \A r \in Requests : answers'[r] = IF r \in running[w] THEN <<"lost">> ELSE answers[r]
      BY <2>1, <2>2, <2>3
    <2>5. OneCopy' /\ \A v \in Workers, s \in Requests : Owes(v, s)' <=> Owes(v, s)
      BY <2>1 DEF AnswersInv, OneCopy, Owes, Answering
    <2>6. SecondAnswerOnlyAfterLoss'
      <3> SUFFICES ASSUME NEW s \in Requests
                   PROVE  Len(answers'[s]) > 1 => Len(answers'[s]) = 2 /\ answers'[s][1] = "lost"
        BY Zenon DEF SecondAnswerOnlyAfterLoss
      <3>1. CASE s \in running[w]
        <4>1. answers'[s] = <<"lost">> /\ ~(Len(<<"lost">>) > 1)
          BY <2>4, <3>1
        <4> QED
          BY <4>1, Zenon
      <3>2. CASE s \notin running[w]
        <4>1. answers'[s] = answers[s]
          BY <2>4, <3>2
        <4> QED
          BY <4>1, Zenon DEF AnswersInv, SecondAnswerOnlyAfterLoss
      <3> QED
        BY <3>1, <3>2
    <2>7. \A v \in Workers, s \in Requests : Owes(v, s)' => answers'[s] \in {<<>>, <<"lost">>}
      BY <2>4, <2>5 DEF AnswersInv
    <2> QED
      BY <2>5, <2>6, <2>7 DEF AnswersInv
  <1> QED
    BY <1>1, <1>2

(* A client sees a second terminal event for a job only when the first was *)
(* "stopped responding": a refused job never runs, and no crash, restart,  *)
(* silence or revival makes a worker answer one job twice                  *)
(* (_dispatch_ready, _forward_worker_event, _declare_unresponsive).        *)
THEOREM AnsweredOnceButForLoss == Spec => []SecondAnswerOnlyAfterLoss
  <1>1. Init => AnswersInv
    <2> SUFFICES ASSUME Init PROVE AnswersInv
      OBVIOUS
    <2>1. \A w \in Workers :
             /\ Range(holds[w]) = {} /\ Range(events[w]) = {}
             /\ IsInjective(holds[w]) /\ AnswersOnce(events[w])
      BY DEF Init, Range, IsInjective, AnswersOnce
    <2>2. \A r \in Requests : answers[r] = <<>> /\ ~(Len(answers[r]) > 1)
      BY DEF Init
    <2>3. \A w \in Workers : \A r : ~Owes(w, r)
      BY <2>1 DEF Owes, Answering
    <2>4. OneCopy
      BY <2>1, <2>3 DEF OneCopy
    <2> QED
      BY <2>2, <2>3, <2>4, Zenon DEF AnswersInv, SecondAnswerOnlyAfterLoss
  <1>2. TypeOK /\ JobsInv /\ AnswersInv /\ [Next]_vars => AnswersInv'
    <2> SUFFICES ASSUME TypeOK, JobsInv, AnswersInv, [Next]_vars PROVE AnswersInv'
      OBVIOUS
    <2>1. CASE UNCHANGED vars
      BY <2>1 DEF vars, coordinatorVars, clientVars, workerVars, AnswersInv, OneCopy,
                  SecondAnswerOnlyAfterLoss, Owes, Answering
    <2>2. CASE Next
      BY <2>2, AnswersStepQueue, AnswersStepSupervision, AnswersStepWorker DEF Next
    <2> QED
      BY <2>1, <2>2
  <1>3. AnswersInv => SecondAnswerOnlyAfterLoss
    BY DEF AnswersInv
  <1> QED
    BY <1>1, <1>2, <1>3, TypeCorrect, JobsInvHolds, PTL DEF Spec

-----------------------------------------------------------------------------
(* Coordinator implements JobService.  What the refinement needs to know:  *)
(* jobs are failed off the queue only while some worker is given up.       *)
FailingInv == phase = "failing" => \E w \in Workers : unresponsive[w]

Settled == {r \in Requests : answers[r] # <<>>}
Down == {w \in Workers : unresponsive[w]}

(* Giving up a worker starts that loop, and nobody revives during it.      *)
LEMMA FailingStep ==
    ASSUME TypeOK, FailingInv, [Next]_vars
    PROVE  FailingInv'
  <1>1. ASSUME NEW w \in Workers, DeclareUnresponsive(w)
        PROVE  FailingInv'
    <2>1. unresponsive' = [unresponsive EXCEPT ![w] = TRUE]
      BY <1>1 DEF DeclareUnresponsive
    <2>2. unresponsive'[w]
      BY <2>1 DEF TypeOK, TypeReports
    <2> QED
      BY <2>2 DEF FailingInv
  <1>2. CASE phase' # "failing"
    BY <1>2 DEF FailingInv
  <1>3. CASE UNCHANGED <<phase, unresponsive>>
    BY <1>3 DEF FailingInv
  <1>4. \/ \E w \in Workers : DeclareUnresponsive(w)
        \/ phase' # "failing"
        \/ UNCHANGED <<phase, unresponsive>>
    BY StepKinds DEF Submit, Shutdown, QueueLoop, Dispatch, Defer, EndOfQueue,
          RefuseQueued, KeepQueued, HandleEvent, HandleReport, HandleProgress,
          HandleAnswer, PhaseAfterEvent, PhaseAfterAnswer, coordinatorVars, reportVars
  <1> QED
    BY <1>1, <1>2, <1>3, <1>4

(* The same for all behaviours.                                            *)
LEMMA FailingInvHolds == Spec => []FailingInv
  <1>1. Init => FailingInv
    BY DEF Init, FailingInv
  <1>2. TypeOK /\ FailingInv /\ [Next]_vars => FailingInv'
    BY FailingStep
  <1> QED
    BY <1>1, <1>2, TypeCorrect, PTL DEF Spec

(* What the service knows of a job, the coordinator received.              *)
LEMMA KnownIsSubmitted ==
    JobsInv => \A r \in Requests : r \in Service!Known => r \in Range(submitted)
  BY DEF Service!Known, JobsInv, JobsTraced, RunningJobs

(* A submitted job is accepted, or refused at once.                        *)
LEMMA SubmitRefines ==
    ASSUME TypeOK, JobsInv, NEW r \in Requests, Submit(r)
    PROVE  Service!Accept(r) \/ Service!Refuse(r)
  <1>a. r \notin Range(submitted)
    BY DEF Submit
  <1>b. r \notin Service!Known
    BY <1>a, KnownIsSubmitted
  <1>c. r \notin Waiting
    BY <1>a DEF JobsInv, JobsTraced
  <1>d. running' = running /\ deferred' = deferred /\ unresponsive' = unresponsive
    BY DEF Submit, reportVars
  <1>1. /\ r \notin Service!Known
        /\ r \notin Waiting
        /\ running' = running /\ Down' = Down /\ deferred' = deferred
    BY <1>b, <1>c, <1>d DEF Down
  <1>2. CASE LiveMatching(r) = {}
    <2>1. answers' = [answers EXCEPT ![r] = Append(@, "refused")] /\ queue' = queue
      BY <1>2 DEF Submit
    <2>2. Append(answers[r], "refused") # <<>>
      BY AppendProperties DEF TypeOK, TypeClients
    <2>3. Settled' = Settled \cup {r}
      BY <2>1, <2>2 DEF Settled, TypeOK, TypeClients
    <2>4. Waiting' = Waiting \ {r}
      BY <1>1, <2>1 DEF Waiting
    <2> QED
      BY <1>1, <2>3, <2>4 DEF Service!Refuse, Settled, Down
  <1>3. CASE LiveMatching(r) # {}
    <2>1. queue' = Append(queue, r) /\ answers' = answers
      BY <1>3 DEF Submit
    <2>2. Range(queue') = Range(queue) \cup {r}
      <3>1. queue \in Seq(Requests)
        BY DEF TypeOK, TypeJobs
      <3> QED
        BY <2>1, <3>1, AppendRange
    <2>3. Waiting' = Waiting \cup {r}
      BY <1>1, <2>2 DEF Waiting
    <2>4. Settled' = Settled
      BY <2>1 DEF Settled
    <2> QED
      BY <1>1, <2>3, <2>4 DEF Service!Accept, Settled, Down
  <1> QED
    BY <1>2, <1>3

(* JobService counts as FiniteSets does.                                   *)
LEMMA SameCardinality == \A S : Service!Cardinality(S) = Cardinality(S)
  BY DEF Service!Cardinality, Cardinality

(* A dispatched job is assigned to a worker that is up and has a slot.     *)
LEMMA DispatchRefines ==
    ASSUME TypeOK, JobsInv, CapacityInv, UnresponsiveHoldsNothing, Dispatch
    PROVE  \E r \in Requests, w \in Workers : Service!Assign(r, w)
  <1>1. PICK r : r = Head(queue)
    OBVIOUS
  <1>2. PICK w \in Chosen(r) : running' = [running EXCEPT ![w] = @ \cup {r}]
    BY <1>1 DEF Dispatch
  <1>3. /\ r \in Requests
        /\ Range(queue) = Range(Tail(queue)) \cup {r}
        /\ r \notin Range(Tail(queue)) \cup Range(deferred)
    BY <1>1, HeadOfQueue DEF Dispatch
  <1>4. w \in Workers /\ ~unresponsive[w] /\ Free(w)
    BY <1>2, <1>3, ChosenFits DEF LiveMatching
  <1>5. Cardinality(running[w]) < RealCapacity[w]
    <2>1. /\ Cardinality(running[w]) \in Nat
          /\ capacity[w] \in Nat /\ RealCapacity[w] \in Nat
          /\ capacity[w] <= RealCapacity[w]
      BY <1>4, FS_CardinalityType, WorkersAssumption DEF CapacityInv, TypeOK, TypeReports
    <2>2. capacity[w] - Cardinality(running[w]) > 0
      BY <1>4 DEF Free, Slots
    <2> QED
      BY <2>1, <2>2
  <1>6. r \in Waiting /\ Waiting' = Waiting \ {r}
    BY <1>1, <1>3 DEF Waiting, Dispatch
  <1>7. Settled' = Settled /\ Down' = Down
    BY DEF Dispatch, Settled, Down, clientVars, reportVars
  <1>11. /\ {q \in Requests : answers[q] # <<>>}' = {q \in Requests : answers[q] # <<>>}
         /\ {v \in Workers : unresponsive[v]}' = {v \in Workers : unresponsive[v]}
    BY <1>7 DEF Settled, Down
  <1>8. Service!Cardinality(running[w]) < RealCapacity[w]
    BY <1>5, SameCardinality, Zenon
  <1>9. Service!Assign(r, w)
    <2>1. w \notin {v \in Workers : unresponsive[v]}
      BY <1>4
    <2> QED
      BY <1>2, <1>6, <1>11, <1>8, <2>1 DEF Service!Assign
  <1> QED
    BY <1>3, <1>4, <1>9

(* A queued job failed while a worker is given up is refused.              *)
LEMMA RefuseRefines ==
    ASSUME TypeOK, JobsInv, FailingInv, RefuseQueued
    PROVE  \E r \in Requests : Service!Refuse(r)
  <1>1. PICK r : r = Head(queue)
    OBVIOUS
  <1>2. /\ r \in Requests
        /\ Range(queue) = Range(Tail(queue)) \cup {r}
        /\ r \notin Range(Tail(queue)) \cup Range(deferred)
    BY <1>1, HeadOfQueue DEF RefuseQueued
  <1>3. r \in Waiting /\ Waiting' = Waiting \ {r}
    BY <1>1, <1>2 DEF Waiting, RefuseQueued
  <1>4. Down # {}
    BY DEF FailingInv, RefuseQueued, Down
  <1>5. Append(answers[r], "refused") # <<>>
    <2> DEFINE A == Terminal \cup {"lost", "refused"}
    <2>1. answers[r] \in Seq(A) /\ "refused" \in A
      BY <1>2 DEF TypeOK, TypeClients
    <2> HIDE DEF A
    <2> QED
      BY <2>1, AppendProperties
  <1>6. Settled' = Settled \cup {r}
    BY <1>1, <1>2, <1>5 DEF RefuseQueued, Settled, TypeOK, TypeClients
  <1>7. running' = running /\ Down' = Down
    BY DEF RefuseQueued, Down, reportVars
  <1> QED
    BY <1>2, <1>3, <1>4, <1>6, <1>7 DEF Service!Refuse, Settled, Down

(* The rest of the loops moves jobs within the queue.                      *)
LEMMA LoopStutters ==
    ASSUME TypeOK, JobsInv, Defer \/ KeepQueued \/ EndOfQueue
    PROVE  UNCHANGED Service!vars
  <1>1. UNCHANGED <<running, answers, unresponsive>>
    BY DEF Defer, KeepQueued, EndOfQueue, clientVars, reportVars
  <1>2. Waiting' = Waiting
    <2>1. CASE Defer \/ KeepQueued
      <3>1. queue # <<>> /\ queue' = Tail(queue) /\ deferred' = Append(deferred, Head(queue))
        BY <2>1 DEF Defer, KeepQueued
      <3>2. Range(queue) = Range(Tail(queue)) \cup {Head(queue)} /\ Head(queue) \in Requests
        BY <3>1, HeadOfQueue
      <3>3. Range(Append(deferred, Head(queue))) = Range(deferred) \cup {Head(queue)}
        BY <3>2, AppendRange DEF TypeOK, TypeJobs
      <3> QED
        BY <3>1, <3>2, <3>3 DEF Waiting
    <2>2. CASE EndOfQueue
      <3>1. Range(<<>>) = {}
        BY DEF Range
      <3> QED
        BY <2>2, <3>1 DEF EndOfQueue, Waiting
    <2> QED
      BY <2>1, <2>2
  <1> QED
    BY <1>1, <1>2 DEF Service!vars

(* An event of a worker given up lets it rejoin, whatever it says; an      *)
(* answer of another worker settles the job if the worker is still held    *)
(* responsible for it, and shows nothing if it is not.                     *)
LEMMA EventRefines ==
    ASSUME TypeOK, JobsInv, UnresponsiveHoldsNothing, NEW w \in Workers, HandleEvent(w)
    PROVE  \/ Service!Rejoin(w)
           \/ \E r \in Requests : Service!Settle(r, w)
           \/ UNCHANGED Service!vars
  <1>1. /\ events[w] # <<>>
        /\ unresponsive' = [unresponsive EXCEPT ![w] = FALSE]
        /\ UNCHANGED <<queue, deferred>>
    BY DEF HandleEvent, HandleReport, HandleProgress, HandleAnswer, Hear
  <1>2. Waiting' = Waiting
    BY <1>1 DEF Waiting
  <1>3. /\ Down' = Down \ {w}
        /\ unresponsive[w] <=> w \in Down
    BY <1>1 DEF Down, TypeOK, TypeReports
  <1>4. CASE UNCHANGED <<running, Settled>>
    <2>1. CASE w \in Down
      BY <1>2, <1>3, <1>4, <2>1 DEF Service!Rejoin, Settled, Down
    <2>2. CASE w \notin Down
      BY <1>2, <1>3, <1>4, <2>2 DEF Service!vars, Settled, Down
    <2> QED
      BY <2>1, <2>2
  <1>5. CASE HandleReport(w) \/ HandleProgress(w)
    <2>1. UNCHANGED <<running, Settled>>
      BY <1>5 DEF HandleReport, HandleProgress, Settled
    <2> QED
      BY <1>4, <2>1
  <1>6. CASE HandleAnswer(w)
    <2>1. PICK r, t : r = Head(events[w]).request /\ t = Head(events[w]).kind
      OBVIOUS
    <2>2. /\ t \in Terminal
          /\ running' = [running EXCEPT ![w] = @ \ {r}]
          /\ answers' = [answers EXCEPT ![r] = Append(@, t)]
      BY <1>6, <2>1 DEF HandleAnswer, FreeSlot
    <2>3. Head(events[w]) \in Event /\ Head(events[w]) \in Range(events[w])
      BY <1>1, TailRange DEF TypeOK, TypeWorkers
    <2>4. r \in Requests
      BY <2>1, <2>2, <2>3 DEF Event, ReportEvent, JobEvent, Terminal
    <2>5. Traced(w, r)
      BY <2>1, <2>2, <2>3 DEF JobsInv, JobsTraced, Terminal
    <2>6. Append(answers[r], t) # <<>>
      BY <2>2, <2>4, AppendProperties DEF TypeOK, TypeClients
    <2>7. Settled' = Settled \cup {r}
      BY <2>2, <2>4, <2>6 DEF Settled, TypeOK, TypeClients
    <2>8. CASE r \in running[w]
      <3>1. w \notin Down /\ Down' = Down
        BY <1>3, <2>8 DEF UnresponsiveHoldsNothing
      <3> QED
        BY <1>2, <2>2, <2>4, <2>7, <2>8, <3>1 DEF Service!Settle, Settled, Down
    <2>9. CASE r \notin running[w]
      <3>1. r \in Settled
        BY <2>4, <2>5, <2>9 DEF Traced, Settled
      <3>2. running' = running
        BY <2>2, <2>9 DEF TypeOK, TypeJobs
      <3> QED
        BY <1>4, <2>7, <3>1, <3>2
    <2> QED
      BY <2>8, <2>9
  <1> QED
    BY <1>5, <1>6 DEF HandleEvent

(* A worker given up is lost, and its jobs are settled.                    *)
LEMMA SilenceRefines ==
    ASSUME TypeOK, NEW w \in Workers, DeclareUnresponsive(w)
    PROVE  Service!Lose(w)
  <1>1. /\ ~unresponsive[w]
        /\ unresponsive' = [unresponsive EXCEPT ![w] = TRUE]
        /\ running' = [running EXCEPT ![w] = {}]
        /\ answers' = [r \in Requests |->
              IF r \in running[w] THEN Append(answers[r], "lost") ELSE answers[r]]
        /\ UNCHANGED <<queue, deferred>>
    BY DEF DeclareUnresponsive
  <1>2. w \notin Down /\ Down' = Down \cup {w}
    BY <1>1 DEF Down, TypeOK, TypeReports
  <1>3. Settled' = Settled \cup running[w]
    <2>1. \A r \in Requests : Append(answers[r], "lost") # <<>>
      BY AppendProperties DEF TypeOK, TypeClients
    <2>2. running[w] \subseteq Requests
      BY DEF TypeOK, TypeJobs
    <2> QED
      BY <1>1, <2>1, <2>2 DEF Settled
  <1>4. Waiting' = Waiting
    BY <1>1 DEF Waiting
  <1> QED
    BY <1>1, <1>2, <1>3, <1>4 DEF Service!Lose, Settled, Down

(* The coordinator implements the job service: seen through the refinement *)
(* mapping every step of coordinator, worker or client is one step of the  *)
(* service or none.                                                        *)
THEOREM CoordinatorServes == Spec => ImplementsJobService
  <1>1. Init => Service!Init
    <2> SUFFICES ASSUME Init PROVE Service!Init
      OBVIOUS
    <2>1. Range(queue) = {} /\ Range(deferred) = {}
      BY DEF Init, Range
    <2> QED
      BY <2>1 DEF Init, Service!Init, Waiting
  <1>2. /\ TypeOK /\ JobsInv /\ CapacityInv /\ UnresponsiveHoldsNothing /\ FailingInv
        /\ [Next]_vars
        => [Service!Next]_Service!vars
    <2> SUFFICES ASSUME TypeOK, JobsInv, CapacityInv, UnresponsiveHoldsNothing, FailingInv,
                        [Next]_vars
                 PROVE  Service!Next \/ UNCHANGED Service!vars
      OBVIOUS
    <2>1. ASSUME NEW r \in Requests, Submit(r)
          PROVE  Service!Next
      BY <2>1, SubmitRefines DEF Service!Next
    <2>2. CASE Dispatch
      BY <2>2, DispatchRefines DEF Service!Next
    <2>3. CASE RefuseQueued
      BY <2>3, RefuseRefines DEF Service!Next
    <2>4. CASE Defer \/ KeepQueued \/ EndOfQueue
      BY <2>4, LoopStutters
    <2>5. ASSUME NEW w \in Workers, HandleEvent(w)
          PROVE  Service!Next \/ UNCHANGED Service!vars
      BY <2>5, EventRefines DEF Service!Next
    <2>6. ASSUME NEW w \in Workers, DeclareUnresponsive(w)
          PROVE  Service!Next
      BY <2>6, SilenceRefines DEF Service!Next
    <2>7. CASE Shutdown \/ UNCHANGED coordinatorVars
      <3>1. UNCHANGED <<queue, deferred, running, answers, unresponsive>>
        BY <2>7 DEF Shutdown, coordinatorVars, jobVars, reportVars, clientVars
      <3> QED
        BY <3>1 DEF Service!vars, Waiting
    <2> QED
      BY <2>1, <2>2, <2>3, <2>4, <2>5, <2>6, <2>7, StepKinds DEF QueueLoop
  <1> QED
    BY <1>1, <1>2, TypeCorrect, JobsInvHolds, CapacityInvHolds, UnresponsiveHoldNothing,
       FailingInvHolds, PTL DEF Spec, ImplementsJobService, Service!Spec

-----------------------------------------------------------------------------
(* Who is chosen.  A finite set has a minimal element for every strict     *)
(* order: one with the fewest elements below it.                           *)
LEMMA FiniteMinimum ==
    ASSUME NEW S, IsFiniteSet(S), S # {}, NEW R,
           \A x \in S : <<x, x>> \notin R,
           \A x, y, z \in S : <<x, y>> \in R /\ <<y, z>> \in R => <<x, z>> \in R
    PROVE  \E x \in S : \A y \in S : <<y, x>> \notin R
  <1> DEFINE Below(x) == {y \in S : <<y, x>> \in R}
             T == {Cardinality(Below(x)) : x \in S}
             Less == OpToRel(<, Nat)
  <1>1. \A x \in S : IsFiniteSet(Below(x)) /\ Cardinality(Below(x)) \in Nat
    BY FS_Subset, FS_CardinalityType
  <1>2. T \subseteq Nat /\ T # {}
    <2> HIDE DEF Below
    <2> QED
      BY <1>1
  <1>3. \A m, n \in Nat : m < n => <<m, n>> \in Less
    BY DEF OpToRel
  <1>4. PICK n \in T : \A m \in T : <<m, n>> \notin Less
    <2>1. IsWellFoundedOn(Less, Nat)
      BY NatLessThanWellFounded
    <2> HIDE DEF T, Less
    <2> QED
      BY <1>2, <2>1, WFMin
  <1>5. PICK x \in S : n = Cardinality(Below(x))
    OBVIOUS
  <1>6. ASSUME NEW y \in S, <<y, x>> \in R
        PROVE  FALSE
    <2>1. Below(y) \subseteq Below(x) /\ y \in Below(x) /\ y \notin Below(y)
      BY <1>6
    <2>2. Below(y) # Below(x)
      BY <2>1
    <2>3. Cardinality(Below(y)) < Cardinality(Below(x))
      <3>1. /\ IsFiniteSet(Below(x)) /\ Below(y) \in SUBSET Below(x)
            /\ Cardinality(Below(x)) \in Nat /\ Cardinality(Below(y)) \in Nat
        BY <1>1, <1>6, <2>1
      <3>2. /\ Cardinality(Below(y)) <= Cardinality(Below(x))
            /\ Cardinality(Below(y)) = Cardinality(Below(x)) => Below(y) = Below(x)
        <4> HIDE DEF Below
        <4> QED
          BY <3>1, FS_Subset
      <3> HIDE DEF Below
      <3> QED
        BY <2>2, <3>1, <3>2
    <2>4. Cardinality(Below(y)) \in T
      BY <1>6
    <2> QED
      BY <1>1, <1>3, <1>4, <1>5, <1>6, <2>3, <2>4
  <1> QED
    BY <1>6

(* The order of the key tuple of min() is strict and total.                *)
LEMMA PreferenceIsOrder ==
    ASSUME TypeOK, CapacityInv, NEW r \in Requests,
           NEW u \in Workers, NEW v \in Workers, NEW w \in Workers
    PROVE  /\ ~PreferredOver(w, w, r)
           /\ PreferredOver(u, v, r) /\ PreferredOver(v, w, r) => PreferredOver(u, w, r)
           /\ v # w => PreferredOver(v, w, r) \/ PreferredOver(w, v, r)
  <1>1. \A x \in Workers : Slots(x) \in Int /\ dispatched[x] \in Int /\ x \in Int
    <2> SUFFICES ASSUME NEW x \in Workers
                 PROVE  Slots(x) \in Int /\ dispatched[x] \in Int /\ x \in Int
      OBVIOUS
    <2>1. Cardinality(running[x]) \in Nat
      BY FS_CardinalityType DEF CapacityInv
    <2>2. capacity[x] \in Int /\ dispatched[x] \in Int
      BY DEF TypeOK, TypeReports, TypeJobs
    <2>3. x \in Int
      BY WorkersAssumption
    <2> QED
      BY <2>1, <2>2, <2>3 DEF Slots
  <1>2. \A x, y \in Workers :
           PreferredOver(x, y, r) <=>
              \/ preset[x] = PresetOf[r] /\ preset[y] # PresetOf[r]
              \/ /\ preset[x] = PresetOf[r] <=> preset[y] = PresetOf[r]
                 /\ \/ Slots(x) > Slots(y)
                    \/ Slots(x) = Slots(y) /\ dispatched[x] < dispatched[y]
                    \/ Slots(x) = Slots(y) /\ dispatched[x] = dispatched[y] /\ x < y
    BY DEF PreferredOver
  <1>3. ~PreferredOver(w, w, r)
    BY <1>1, <1>2
  <1>4. PreferredOver(u, v, r) /\ PreferredOver(v, w, r) => PreferredOver(u, w, r)
    BY <1>1, <1>2
  <1>5. v # w => PreferredOver(v, w, r) \/ PreferredOver(w, v, r)
    BY <1>1, <1>2
  <1> QED
    BY <1>3, <1>4, <1>5

(* _choose_worker picks one worker: min() has no ties to break by chance.  *)
LEMMA OneIsChosen ==
    ASSUME TypeOK, CapacityInv, NEW r \in Requests, NEW v \in Chosen(r), NEW w \in Chosen(r)
    PROVE  v = w
  <1>1. CASE BoundWorker(r) = NoWorker
    BY <1>1, PreferenceIsOrder DEF Chosen, LiveMatching
  <1>2. CASE BoundWorker(r) # NoWorker
    BY <1>2 DEF Chosen
  <1> QED
    BY <1>1, <1>2

(* A job is stuck if each live worker that accepts it is full, or is not   *)
(* the one its session is bound to.                                        *)
Stuck(r) ==
    \A w \in LiveMatching(r) :
        Free(w) => BoundWorker(r) # NoWorker /\ BoundWorker(r) # w

(* _choose_worker finds a worker whenever there is one: only what is stuck *)
(* is left in the queue.                                                   *)
LEMMA NobodyChosen ==
    ASSUME TypeOK, CapacityInv, UnresponsiveHoldsNothing, NEW r \in Requests
    PROVE  Chosen(r) = {} <=> Stuck(r)
  <1>1. ASSUME NEW w \in Chosen(r)
        PROVE  ~Stuck(r)
    BY <1>1, ChosenFits DEF Stuck
  <1>2. ASSUME NEW w \in LiveMatching(r), Free(w),
               BoundWorker(r) = NoWorker \/ BoundWorker(r) = w
        PROVE  Chosen(r) # {}
    <2>1. w \in Workers /\ Accepts(w, r) /\ w # NoWorker
      BY WorkersAssumption DEF LiveMatching
    <2>2. CASE BoundWorker(r) = w
      BY <1>2, <2>1, <2>2 DEF Chosen
    <2>3. CASE BoundWorker(r) = NoWorker
      <3> DEFINE ready == {v \in LiveMatching(r) : Free(v)}
                 R == {p \in ready \X ready : PreferredOver(p[1], p[2], r)}
      <3>1. ready \subseteq Workers /\ w \in ready
        BY <1>2 DEF LiveMatching
      <3>2. IsFiniteSet(ready) /\ ready # {}
        BY <3>1, FS_Subset, WorkersAssumption
      <3>3. \A x, y \in ready : <<x, y>> \in R <=> PreferredOver(x, y, r)
        OBVIOUS
      <3>4. /\ \A x \in ready : <<x, x>> \notin R
            /\ \A x, y, z \in ready : <<x, y>> \in R /\ <<y, z>> \in R => <<x, z>> \in R
        <4> HIDE DEF R, ready
        <4> QED
          BY <3>1, <3>3, PreferenceIsOrder
      <3>5. PICK x \in ready : \A y \in ready : <<y, x>> \notin R
        <4> HIDE DEF R, ready
        <4> QED
          BY <3>2, <3>4, FiniteMinimum
      <3>6. \A y \in ready \ {x} : ~PreferredOver(y, x, r)
        BY <3>3, <3>5
      <3>7. x \in Chosen(r)
        BY <1>2, <2>3, <3>5, <3>6 DEF Chosen
      <3> QED
        BY <3>7
    <2> QED
      BY <1>2, <2>2, <2>3
  <1> QED
    BY <1>1, <1>2 DEF Stuck

-----------------------------------------------------------------------------
(* Order.  The queue holds the jobs in the order they were received, what  *)
(* a loop set aside came before what it has still to look at, and in a     *)
(* dispatch loop everything set aside is stuck.                            *)
Earlier(r, s) ==
    \E i, j \in DOMAIN submitted : i < j /\ submitted[i] = r /\ submitted[j] = s

InOrder(q) == \A i, j \in DOMAIN q : i < j => Earlier(q[i], q[j])

OrderInv ==
    /\ IsInjective(submitted)
    /\ InOrder(queue)
    /\ InOrder(deferred)
    /\ \A r \in Range(deferred), s \in Range(queue) : Earlier(r, s)

StuckInv == Dispatching => \A r \in Range(deferred) : Stuck(r)

(* The head of an ordered queue came before its tail, ...                  *)
LEMMA TailInOrder ==
    ASSUME NEW S, NEW s \in Seq(S), s # <<>>, InOrder(s)
    PROVE  /\ InOrder(Tail(s))
           /\ \A r \in Range(Tail(s)) : Earlier(Head(s), r)
  <1>1. /\ Tail(s) \in Seq(S)
        /\ Len(s) \in Nat \ {0}
        /\ Len(Tail(s)) = Len(s) - 1
        /\ \A i \in 1 .. Len(Tail(s)) : Tail(s)[i] = s[i + 1]
        /\ Head(s) = s[1]
        /\ DOMAIN s = 1 .. Len(s)
    BY HeadTailProperties, LenProperties, EmptySeq
  <1>2. DOMAIN Tail(s) = 1 .. Len(s) - 1
    BY <1>1, LenProperties
  <1>3. \A k \in DOMAIN Tail(s) :
           Tail(s)[k] = s[k + 1] /\ k + 1 \in DOMAIN s /\ 1 < k + 1 /\ k \in Int
    BY <1>1, <1>2
  <1>4. 1 \in DOMAIN s
    BY <1>1
  <1>5. \A k, l \in DOMAIN Tail(s) : k < l => k + 1 < l + 1
    BY <1>3
  <1>6. InOrder(Tail(s))
    BY <1>3, <1>5, Zenon DEF InOrder
  <1>7. \A k \in DOMAIN Tail(s) : Earlier(Head(s), Tail(s)[k])
    BY <1>1, <1>3, <1>4, Zenon DEF InOrder
  <1> QED
    BY <1>6, <1>7 DEF Range

(* ... and what came last can be appended.                                 *)
LEMMA AppendInOrder ==
    ASSUME NEW S, NEW s \in Seq(S), NEW x \in S, InOrder(s),
           \A r \in Range(s) : Earlier(r, x)
    PROVE  InOrder(Append(s, x))
  <1>1. /\ Len(Append(s, x)) = Len(s) + 1
        /\ \A i \in 1 .. Len(s) : Append(s, x)[i] = s[i]
        /\ Append(s, x)[Len(s) + 1] = x
        /\ DOMAIN Append(s, x) = 1 .. Len(s) + 1
        /\ DOMAIN s = 1 .. Len(s)
        /\ Len(s) \in Nat
    BY AppendProperties, LenProperties
  <1>2. ASSUME NEW i \in DOMAIN Append(s, x), NEW j \in DOMAIN Append(s, x), i < j
        PROVE  Earlier(Append(s, x)[i], Append(s, x)[j])
    <2>1. i \in DOMAIN s /\ Append(s, x)[i] = s[i]
      BY <1>1, <1>2
    <2>2. CASE j \in DOMAIN s
      <3>1. Append(s, x)[j] = s[j]
        BY <1>1, <2>2
      <3> QED
        BY <1>2, <2>1, <2>2, <3>1, Zenon DEF InOrder
    <2>3. CASE j = Len(s) + 1
      <3>1. Append(s, x)[j] = x /\ s[i] \in Range(s)
        BY <1>1, <2>1, <2>3 DEF Range
      <3> QED
        BY <2>1, <3>1, Zenon
    <2> QED
      BY <1>1, <2>2, <2>3
  <1> QED
    BY <1>2 DEF InOrder

(* Both loops keep the order: they move jobs from the front to the back.   *)
LEMMA OrderStep ==
    ASSUME TypeOK, JobsInv, OrderInv, [Next]_vars
    PROVE  OrderInv'
  <1>1. CASE UNCHANGED <<submitted, queue, deferred>>
    BY <1>1 DEF OrderInv, InOrder, Earlier
  <1>2. ASSUME submitted' = submitted
        PROVE  /\ \A r, s : Earlier(r, s)' <=> Earlier(r, s)
               /\ \A q : InOrder(q)' <=> InOrder(q)
    BY <1>2 DEF InOrder, Earlier
  <1>3. ASSUME NEW r \in Requests, Submit(r)
        PROVE  OrderInv'
    <2>1. /\ submitted \in Seq(Requests) /\ queue \in Seq(Requests)
          /\ submitted' = Append(submitted, r)
          /\ r \notin Range(submitted)
          /\ deferred = <<>> /\ deferred' = <<>>
          /\ queue' = queue \/ queue' = Append(queue, r)
      BY <1>3 DEF Submit, Idle, JobsInv, JobsTraced, TypeOK, TypeJobs, TypeClients
    <2>2. /\ DOMAIN submitted' = 1 .. Len(submitted) + 1
          /\ DOMAIN submitted = 1 .. Len(submitted)
          /\ Len(submitted) \in Nat
          /\ \A i \in 1 .. Len(submitted) : submitted'[i] = submitted[i]
          /\ submitted'[Len(submitted) + 1] = r
      BY <2>1, AppendProperties, LenProperties
    <2>3. IsInjective(submitted')
      BY <2>1, AppendDistinct DEF OrderInv
    <2> DEFINE Later(s, t) ==
                 \E i, j \in DOMAIN submitted' : i < j /\ submitted'[i] = s /\ submitted'[j] = t
    <2>4. \A s, t : Earlier(s, t) => Later(s, t)
      BY <2>2 DEF Earlier
    <2>5. \A s \in Range(submitted) : Later(s, r)
      <3>1. \A i \in DOMAIN submitted :
               /\ i \in DOMAIN submitted' /\ Len(submitted) + 1 \in DOMAIN submitted'
               /\ i < Len(submitted) + 1
               /\ submitted'[i] = submitted[i]
        BY <2>2
      <3> QED
        BY <2>2, <3>1, Zenon DEF Range
    <2>6. Range(queue) \subseteq Range(submitted)
      BY RangeOfSeq DEF JobsInv, JobsTraced, Waiting, TypeOK, TypeJobs
    <2>7. InOrder(queue)'
      <3>1. \A i, j \in DOMAIN queue : i < j => Later(queue[i], queue[j])
        <4> HIDE DEF Later
        <4> QED
          BY <2>4, Zenon DEF OrderInv, InOrder
      <3>2. ASSUME NEW i \in DOMAIN queue', NEW j \in DOMAIN queue', i < j
            PROVE  Later(queue'[i], queue'[j])
        <4>1. CASE queue' = queue
          <5> HIDE DEF Later
          <5> QED
            BY <3>1, <3>2, <4>1, Zenon
        <4>2. CASE queue' = Append(queue, r)
          <5>1. /\ DOMAIN Append(queue, r) = 1 .. Len(queue) + 1
                /\ DOMAIN queue = 1 .. Len(queue)
                /\ Len(queue) \in Nat
                /\ \A k \in 1 .. Len(queue) : Append(queue, r)[k] = queue[k]
                /\ Append(queue, r)[Len(queue) + 1] = r
            BY <2>1, AppendProperties, LenProperties
          <5>2. i \in DOMAIN queue /\ queue'[i] = queue[i]
            BY <3>2, <4>2, <5>1
          <5>3. CASE j \in DOMAIN queue
            <6>1. queue'[j] = queue[j]
              BY <4>2, <5>1, <5>3
            <6> HIDE DEF Later
            <6> QED
              BY <3>1, <3>2, <5>2, <5>3, <6>1, Zenon
          <5>4. CASE j = Len(queue) + 1
            <6>1. queue'[j] = r /\ queue[i] \in Range(submitted)
              BY <2>6, <4>2, <5>1, <5>2, <5>4 DEF Range
            <6> HIDE DEF Later
            <6> QED
              BY <2>5, <5>2, <6>1, Zenon
          <5> QED
            BY <3>2, <4>2, <5>1, <5>3, <5>4
        <4> QED
          BY <2>1, <4>1, <4>2
      <3> QED
        BY <3>2 DEF InOrder, Earlier
    <2>8. Range(deferred') = {} /\ InOrder(deferred)'
      BY <2>1 DEF Range, InOrder
    <2> QED
      BY <2>3, <2>7, <2>8 DEF OrderInv
  <1>4. CASE Dispatch \/ RefuseQueued
    <2>1. queue # <<>> /\ queue' = Tail(queue) /\ UNCHANGED <<submitted, deferred>>
      BY <1>4 DEF Dispatch, RefuseQueued, clientVars
    <2>2. Range(Tail(queue)) \subseteq Range(queue) /\ InOrder(Tail(queue))
      BY <2>1, TailRange, TailInOrder DEF TypeOK, TypeJobs, OrderInv
    <2>3. InOrder(queue)' /\ InOrder(deferred)'
      BY <1>2, <2>1, <2>2 DEF OrderInv
    <2> QED
      BY <1>2, <2>1, <2>2, <2>3 DEF OrderInv
  <1>5. CASE Defer \/ KeepQueued
    <2>1. /\ queue # <<>> /\ queue' = Tail(queue)
          /\ deferred' = Append(deferred, Head(queue))
          /\ submitted' = submitted
      BY <1>5 DEF Defer, KeepQueued, clientVars
    <2>2. /\ queue \in Seq(Requests) /\ deferred \in Seq(Requests)
          /\ Head(queue) \in Requests
          /\ Head(queue) \in Range(queue)
          /\ Range(Tail(queue)) \subseteq Range(queue)
      BY <2>1, TailRange DEF TypeOK, TypeJobs
    <2>3. /\ InOrder(Tail(queue))
          /\ \A s \in Range(Tail(queue)) : Earlier(Head(queue), s)
      BY <2>1, <2>2, TailInOrder DEF OrderInv
    <2>4. /\ InOrder(Append(deferred, Head(queue)))
          /\ Range(Append(deferred, Head(queue))) = Range(deferred) \cup {Head(queue)}
      BY <2>2, AppendInOrder, AppendRange DEF OrderInv
    <2>5. InOrder(queue)' /\ InOrder(deferred)'
      BY <1>2, <2>1, <2>3, <2>4
    <2> QED
      BY <1>2, <2>1, <2>2, <2>3, <2>4, <2>5 DEF OrderInv
  <1>6. CASE EndOfQueue
    <2>1. queue' = deferred /\ deferred' = <<>> /\ submitted' = submitted
      BY <1>6 DEF EndOfQueue, clientVars
    <2>2. Range(deferred') = {} /\ InOrder(deferred)'
      BY <2>1 DEF Range, InOrder
    <2> QED
      BY <1>2, <2>1, <2>2 DEF OrderInv
  <1>7. \/ UNCHANGED <<submitted, queue, deferred>>
        \/ \E r \in Requests : Submit(r)
        \/ Dispatch \/ RefuseQueued \/ Defer \/ KeepQueued \/ EndOfQueue
    BY StepKinds DEF Shutdown, QueueLoop, HandleEvent, HandleReport, HandleProgress,
          HandleAnswer, Hear, DeclareUnresponsive, coordinatorVars, jobVars, clientVars
  <1> QED
    BY <1>1, <1>3, <1>4, <1>5, <1>6, <1>7

(* In a dispatch loop slots only fill up and bindings stay: who is stuck   *)
(* remains stuck.                                                          *)
LEMMA StuckThroughDispatch ==
    ASSUME TypeOK, CapacityInv, CapacityInv', UnresponsiveHoldsNothing, Dispatch,
           NEW r \in Requests, Stuck(r)
    PROVE  Stuck(r)'
  <1>1. PICK w \in Chosen(Head(queue)) :
           running' = [running EXCEPT ![w] = @ \cup {Head(queue)}]
    BY DEF Dispatch
  <1>2. UNCHANGED <<preset, capacity, unresponsive>>
    BY DEF Dispatch, reportVars
  <1>3. LiveMatching(r)' = LiveMatching(r)
    BY <1>2 DEF LiveMatching, Accepts
  <1>4. ASSUME NEW v \in Workers, Free(v)'
        PROVE  Free(v)
    <2>1. running[v] \subseteq running'[v]
      BY <1>1 DEF TypeOK, TypeJobs
    <2>2. IsFiniteSet(running[v]) /\ IsFiniteSet(running'[v])
      BY DEF CapacityInv
    <2>3. /\ Cardinality(running[v]) \in Nat
          /\ Cardinality(running'[v]) \in Nat
          /\ Cardinality(running[v]) <= Cardinality(running'[v])
      BY <2>1, <2>2, FS_Subset, FS_CardinalityType
    <2>4. capacity'[v] = capacity[v] /\ capacity[v] \in Nat
      BY <1>2 DEF TypeOK, TypeReports
    <2> QED
      BY <1>4, <2>3, <2>4 DEF Free, Slots
  <1>5. BoundWorker(r) # NoWorker => BoundWorker(r)' = BoundWorker(r)
    <2> SUFFICES ASSUME BoundWorker(r) # NoWorker
                 PROVE  BoundWorker(r)' = BoundWorker(r)
      OBVIOUS
    <2>1. /\ KeyOf[r] \in Keys /\ sticky[KeyOf[r]] # NoWorker
          /\ BoundWorker(r) = sticky[KeyOf[r]] /\ BoundWorker(r)' = sticky'[KeyOf[r]]
      BY RequestsAssumption DEF BoundWorker
    <2>2. sticky[KeyOf[r]] \in Workers
      BY <2>1 DEF TypeOK, TypeJobs
    <2>3. ~unresponsive'[sticky[KeyOf[r]]]
      BY <1>2, <2>1, <2>2 DEF UnresponsiveHoldsNothing
    <2>4. [Next]_vars
      BY DEF Next, QueueLoop
    <2> QED
      BY <2>1, <2>3, <2>4, SessionsStep
  <1> QED
    BY <1>3, <1>4, <1>5 DEF Stuck, LiveMatching

(* A dispatch loop sets aside only what is stuck.                          *)
LEMMA StuckStep ==
    ASSUME TypeOK, JobsInv, CapacityInv, CapacityInv', UnresponsiveHoldsNothing,
           StuckInv, [Next]_vars
    PROVE  StuckInv'
  <1>1. \A r \in Range(deferred) : r \in Requests
    BY RangeOfSeq DEF TypeOK, TypeJobs
  <1>2. CASE Dispatch
    <2>1. Dispatching /\ deferred' = deferred
      BY <1>2 DEF Dispatch
    <2>2. \A r \in Range(deferred) : Stuck(r)'
      BY <1>1, <1>2, <2>1, StuckThroughDispatch DEF StuckInv
    <2> QED
      BY <2>1, <2>2 DEF StuckInv
  <1>3. CASE Defer
    <2>1. /\ Dispatching
          /\ queue # <<>> /\ Chosen(Head(queue)) = {}
          /\ deferred' = Append(deferred, Head(queue))
          /\ UNCHANGED <<running, sticky, preset, capacity, unresponsive>>
      BY <1>3 DEF Defer, reportVars
    <2>2. Head(queue) \in Requests
      BY <2>1, TailRange DEF TypeOK, TypeJobs
    <2>3. Range(deferred') = Range(deferred) \cup {Head(queue)}
      BY <2>1, <2>2, AppendRange DEF TypeOK, TypeJobs
    <2>4. Stuck(Head(queue))
      BY <2>1, <2>2, NobodyChosen
    <2>5. \A r : Stuck(r)' <=> Stuck(r)
      BY <2>1 DEF Stuck, LiveMatching, Accepts, Free, Slots, BoundWorker
    <2> QED
      BY <2>1, <2>3, <2>4, <2>5 DEF StuckInv
  <1>4. CASE deferred' = <<>>
    <2>1. Range(deferred') = {}
      BY <1>4 DEF Range
    <2> QED
      BY <2>1 DEF StuckInv
  <1>5. CASE ~Dispatching'
    BY <1>5 DEF StuckInv
  <1>6. CASE UNCHANGED coordinatorVars
    BY <1>6 DEF coordinatorVars, jobVars, reportVars, StuckInv, Dispatching, Stuck,
                LiveMatching, Accepts, Free, Slots, BoundWorker
  <1>7. ASSUME Idle, deferred' = deferred
        PROVE  deferred' = <<>>
    BY <1>7 DEF Idle, JobsInv, JobsTraced
  <1>8. \/ Dispatch \/ Defer
        \/ deferred' = <<>>
        \/ ~Dispatching'
        \/ UNCHANGED coordinatorVars
    <2>1. CASE RefuseQueued \/ KeepQueued
      BY <2>1 DEF RefuseQueued, KeepQueued, Dispatching
    <2>2. CASE EndOfQueue
      BY <2>2 DEF EndOfQueue
    <2>3. ASSUME NEW r \in Requests, Submit(r)
          PROVE  deferred' = <<>>
      BY <1>7, <2>3 DEF Submit
    <2>4. CASE Shutdown
      BY <1>7, <2>4 DEF Shutdown, jobVars
    <2>5. ASSUME NEW w \in Workers, HandleEvent(w) \/ DeclareUnresponsive(w)
          PROVE  deferred' = <<>>
      BY <1>7, <2>5 DEF HandleEvent, HandleReport, HandleProgress, HandleAnswer, Hear,
                        DeclareUnresponsive
    <2> QED
      BY <2>1, <2>2, <2>3, <2>4, <2>5, StepKinds DEF QueueLoop
  <1> QED
    BY <1>2, <1>3, <1>4, <1>5, <1>6, <1>8

(* Only dispatching books a job.                                           *)
LEMMA BookedByDispatch ==
    ASSUME TypeOK, [Next]_vars, NEW s \in RunningJobs', s \notin RunningJobs
    PROVE  Dispatch /\ s = Head(queue)
  <1>1. CASE Dispatch
    <2>1. PICK w \in Chosen(Head(queue)) :
             running' = [running EXCEPT ![w] = @ \cup {Head(queue)}]
      BY <1>1 DEF Dispatch
    <2>2. \A v \in Workers : running'[v] \subseteq running[v] \cup {Head(queue)}
      BY <2>1 DEF TypeOK, TypeJobs
    <2> QED
      BY <1>1, <2>2 DEF RunningJobs
  <1>2. ASSUME NEW w \in Workers, HandleEvent(w) \/ DeclareUnresponsive(w)
        PROVE  RunningJobs' \subseteq RunningJobs
    <2>1. \/ running' = running
          \/ \E r : running' = [running EXCEPT ![w] = @ \ {r}]
          \/ running' = [running EXCEPT ![w] = {}]
      BY <1>2 DEF HandleEvent, HandleReport, HandleProgress, HandleAnswer, FreeSlot,
                  DeclareUnresponsive
    <2>2. \A v \in Workers : running'[v] \subseteq running[v]
      BY <2>1 DEF TypeOK, TypeJobs
    <2> QED
      BY <2>2 DEF RunningJobs
  <1>3. ASSUME running' = running
        PROVE  FALSE
    BY <1>3 DEF RunningJobs
  <1> QED
    BY <1>1, <1>2, <1>3, StepKinds
       DEF Submit, Shutdown, QueueLoop, Defer, EndOfQueue, RefuseQueued, KeepQueued,
           coordinatorVars, jobVars

(* Jobs of one preset and one sticky key start in the order they came: a   *)
(* job set aside by a dispatch loop is stuck until its end, so no later    *)
(* one that wants the same overtakes it (_dispatch_ready).                 *)
THEOREM NothingOvertakes == Spec => NoOvertaking
  <1>1. Init => OrderInv /\ StuckInv
    BY DEF Init, OrderInv, StuckInv, InOrder, Range, IsInjective, Dispatching
  <1>2. TypeOK /\ JobsInv /\ OrderInv /\ [Next]_vars => OrderInv'
    BY OrderStep
  <1>3. /\ TypeOK /\ JobsInv /\ CapacityInv /\ CapacityInv' /\ UnresponsiveHoldsNothing
        /\ StuckInv /\ [Next]_vars
        => StuckInv'
    BY StuckStep
  <1>4. /\ TypeOK /\ JobsInv /\ CapacityInv /\ UnresponsiveHoldsNothing
        /\ OrderInv /\ StuckInv /\ [Next]_vars
        => [\A i, j \in DOMAIN submitted :
              LET r == submitted[i]
                  s == submitted[j]
              IN  /\ i < j
                  /\ PresetOf[r] = PresetOf[s]
                  /\ KeyOf[r] = KeyOf[s]
                  /\ r \in Waiting
                  /\ s \in Waiting
                  /\ s \in RunningJobs'
                  => r \in RunningJobs']_vars
    <2> SUFFICES ASSUME TypeOK, JobsInv, CapacityInv, UnresponsiveHoldsNothing,
                        OrderInv, StuckInv, [Next]_vars,
                        NEW i \in DOMAIN submitted, NEW j \in DOMAIN submitted,
                        NEW r, NEW s, r = submitted[i], s = submitted[j], i < j,
                        PresetOf[r] = PresetOf[s], KeyOf[r] = KeyOf[s],
                        r \in Waiting, s \in Waiting, s \in RunningJobs'
                 PROVE  FALSE
      OBVIOUS
    <2>1. Dispatch /\ s = Head(queue)
      BY BookedByDispatch DEF JobsInv, OneOwner
    <2>2. queue # <<>> /\ Dispatching /\ Chosen(s) # {}
      BY <2>1 DEF Dispatch
    <2>3. /\ s \in Requests
          /\ Range(queue) = Range(Tail(queue)) \cup {s}
          /\ \A t \in Range(Tail(queue)) : Earlier(s, t)
      BY <2>1, <2>2, HeadOfQueue, TailInOrder DEF OrderInv, TypeOK, TypeJobs
    <2>4. i \in Int /\ j \in Int /\ DOMAIN submitted \subseteq Int
      BY LenProperties DEF TypeOK, TypeClients
    <2>5. r # s /\ ~Earlier(s, r)
      BY <2>4 DEF OrderInv, IsInjective, Earlier
    <2>6. r \in Range(deferred)
      BY <2>3, <2>5 DEF Waiting
    <2>7. Stuck(r)
      BY <2>2, <2>6 DEF StuckInv
    <2>8. Stuck(s)
      BY <2>7 DEF Stuck, LiveMatching, Accepts, BoundWorker
    <2> QED
      BY <2>2, <2>3, <2>8, NobodyChosen
  <1> QED
    BY <1>1, <1>2, <1>3, <1>4, TypeCorrect, JobsInvHolds, CapacityInvHolds,
       UnresponsiveHoldNothing, PTL DEF Spec, NoOvertaking

-----------------------------------------------------------------------------
(* Idle workers are filled.  Outside a dispatch loop a job that waits and  *)
(* belongs to no session finds every live worker that accepts it full: a   *)
(* report may raise the capacity without a dispatch, so it is the          *)
(* configured capacity that is known to be in use.                         *)
Keyless(r) == ~StickySessions \/ KeyOf[r] = NoKey

FullAsConfigured(w) == Cardinality(running[w]) >= ConfigCapacity[w]

AllFull(r) == \A w \in LiveMatching(r) : FullAsConfigured(w)

FilledInv ==
    /\ \A w \in Workers : ConfigCapacity[w] <= capacity[w]
    /\ ~Dispatching => \A r \in Waiting : Keyless(r) => AllFull(r)

(* No session, no binding.                                                 *)
LEMMA KeylessIsUnbound ==
    ASSUME NEW r, Keyless(r)
    PROVE  BoundWorker(r) = NoWorker
  BY DEF Keyless, BoundWorker

(* No slot means at least the configured number of jobs.                   *)
LEMMA StuckIsFull ==
    ASSUME TypeOK, CapacityInv, FilledInv, NEW r, Keyless(r), Stuck(r)
    PROVE  AllFull(r)
  <1> SUFFICES ASSUME NEW w \in LiveMatching(r)
               PROVE  FullAsConfigured(w)
    BY DEF AllFull
  <1>1. w \in Workers /\ ~Free(w)
    BY KeylessIsUnbound DEF Stuck, LiveMatching
  <1>2. /\ Cardinality(running[w]) \in Nat
        /\ capacity[w] \in Nat /\ ConfigCapacity[w] \in Nat
        /\ ConfigCapacity[w] <= capacity[w]
    BY <1>1, FS_CardinalityType, WorkersAssumption
       DEF CapacityInv, FilledInv, TypeOK, TypeReports
  <1>3. ~(capacity[w] - Cardinality(running[w]) > 0)
    BY <1>1 DEF Free, Slots
  <1>4. Cardinality(running[w]) >= ConfigCapacity[w]
    BY <1>2, <1>3
  <1> QED
    BY <1>4 DEF FullAsConfigured

(* A dispatch loop ends with every keyless job it leaves stuck; silence    *)
(* takes a worker out of the running, and nothing else frees a slot        *)
(* without another dispatch loop.                                          *)
LEMMA FilledStep ==
    ASSUME TypeOK, JobsInv, CapacityInv, ServableInv, StuckInv, FilledInv, [Next]_vars
    PROVE  FilledInv'
  <1>1. \A w \in Workers : ConfigCapacity[w] <= capacity'[w]
    <2>1. \/ capacity' = capacity
          \/ \E w \in Workers : capacity' = [capacity EXCEPT ![w] = RealCapacity[w]]
      BY StepKinds DEF Submit, Shutdown, QueueLoop, Dispatch, Defer, EndOfQueue,
            RefuseQueued, KeepQueued, HandleEvent, HandleReport, HandleProgress,
            HandleAnswer, DeclareUnresponsive, coordinatorVars, reportVars
    <2>2. \A w \in Workers : capacity'[w] \in {capacity[w], RealCapacity[w]}
      BY <2>1 DEF TypeOK, TypeReports
    <2> QED
      BY <2>2, WorkersAssumption DEF FilledInv
  <1>2. CASE Dispatching'
    BY <1>1, <1>2 DEF FilledInv
  <1>3. ASSUME ~Dispatching,
               Waiting' \subseteq Waiting,
               \A w \in Workers :
                  ~unresponsive'[w] =>
                     /\ ~unresponsive[w]
                     /\ preset'[w] = preset[w] \/ AcceptedPresets[w] # {}
                     /\ running'[w] = running[w]
        PROVE  FilledInv'
    <2>1. ASSUME NEW r, NEW w \in LiveMatching(r)'
          PROVE  w \in LiveMatching(r) /\ (FullAsConfigured(w) => FullAsConfigured(w)')
      <3>1. /\ w \in Workers /\ ~unresponsive'[w] /\ ~unresponsive[w]
            /\ running'[w] = running[w]
            /\ Accepts(w, r)'
        BY <1>3, <2>1 DEF LiveMatching
      <3>2. Accepts(w, r)
        BY <1>3, <3>1 DEF Accepts
      <3> QED
        BY <3>1, <3>2 DEF LiveMatching, FullAsConfigured
    <2>2. \A r : AllFull(r) => AllFull(r)'
      BY <2>1 DEF AllFull
    <2>3. \A r : Keyless(r)' <=> Keyless(r)
      BY DEF Keyless
    <2> QED
      BY <1>1, <1>3, <2>2, <2>3 DEF FilledInv
  <1>4. CASE EndOfQueue
    <2>1. /\ queue = <<>> /\ queue' = deferred /\ deferred' = <<>>
          /\ UNCHANGED <<running, sticky, preset, capacity, unresponsive>>
      BY <1>4 DEF EndOfQueue, reportVars
    <2>2. Range(<<>>) = {}
      BY DEF Range
    <2>3. Waiting = Range(deferred) /\ Waiting' = Range(deferred)
      BY <2>1, <2>2 DEF Waiting
    <2>4. CASE ~Dispatching
      BY <1>3, <2>1, <2>3, <2>4
    <2>5. CASE Dispatching
      <3>1. \A r \in Range(deferred) : Keyless(r) => AllFull(r)
        BY <2>5, StuckIsFull DEF StuckInv
      <3>2. \A r : (AllFull(r)' <=> AllFull(r)) /\ (Keyless(r)' <=> Keyless(r))
        BY <2>1 DEF AllFull, LiveMatching, Accepts, FullAsConfigured, Keyless
      <3> QED
        BY <1>1, <2>3, <3>1, <3>2 DEF FilledInv
    <2> QED
      BY <2>4, <2>5
  <1>5. CASE RefuseQueued \/ KeepQueued
    <2>1. /\ ~Dispatching /\ queue # <<>> /\ queue' = Tail(queue)
          /\ deferred' = deferred \/ deferred' = Append(deferred, Head(queue))
          /\ UNCHANGED <<running, preset, capacity, unresponsive>>
      BY <1>5 DEF RefuseQueued, KeepQueued, Dispatching, reportVars
    <2>2. /\ Head(queue) \in Range(queue)
          /\ Range(queue') \subseteq Range(queue)
          /\ Range(Append(deferred, Head(queue))) = Range(deferred) \cup {Head(queue)}
      BY <2>1, TailRange, AppendRange DEF TypeOK, TypeJobs
    <2>3. Waiting' \subseteq Waiting
      BY <2>1, <2>2 DEF Waiting
    <2> QED
      BY <1>3, <2>1, <2>3
  <1>6. ASSUME NEW r \in Requests, Submit(r), ~Dispatching'
        PROVE  FilledInv'
    <2>1. /\ ~Dispatching
          /\ UNCHANGED <<queue, deferred, running, preset, capacity, unresponsive>>
      BY <1>6 DEF Submit, Idle, Dispatching, reportVars
    <2>2. Waiting' = Waiting
      BY <2>1 DEF Waiting
    <2> QED
      BY <1>3, <2>1, <2>2
  <1>7. ASSUME NEW w \in Workers, HandleEvent(w), ~Dispatching'
        PROVE  FilledInv'
    <2>1. /\ ~Dispatching /\ ~unresponsive[w]
          /\ events[w] # <<>>
          /\ unresponsive' = [unresponsive EXCEPT ![w] = FALSE]
          /\ UNCHANGED <<queue, deferred, running>>
          /\ \/ preset' = preset
             \/ /\ Head(events[w]).kind = "report"
                /\ Head(events[w]).preset # NoPreset
                /\ preset' = [preset EXCEPT ![w] = Head(events[w]).preset]
      BY <1>7 DEF HandleEvent, HandleReport, HandleProgress, HandleAnswer, Hear, Idle,
                  PhaseAfterEvent, PhaseAfterAnswer, Dispatching
    <2>2. Head(events[w]) \in Range(events[w])
      BY <2>1, TailRange DEF TypeOK, TypeWorkers
    <2>3. \A v \in Workers : preset'[v] = preset[v] \/ AcceptedPresets[v] # {}
      <3>1. AcceptedPresets[w] = {} /\ Head(events[w]).kind = "report"
            /\ Head(events[w]).preset # NoPreset
            => preset[w] = Head(events[w]).preset
        BY <2>2 DEF ServableInv, FixedPresets
      <3>2. preset \in [Workers -> Presets \cup {NoPreset}]
        BY DEF TypeOK, TypeReports
      <3> QED
        BY <2>1, <3>1, <3>2
    <2>4. unresponsive' = unresponsive
      BY <2>1 DEF TypeOK, TypeReports
    <2>5. Waiting' = Waiting
      BY <2>1 DEF Waiting
    <2> QED
      BY <1>3, <2>1, <2>3, <2>4, <2>5
  <1>8. ASSUME NEW w \in Workers, DeclareUnresponsive(w)
        PROVE  FilledInv'
    <2>1. /\ ~Dispatching
          /\ unresponsive' = [unresponsive EXCEPT ![w] = TRUE]
          /\ running' = [running EXCEPT ![w] = {}]
          /\ UNCHANGED <<queue, deferred, preset>>
      BY <1>8 DEF DeclareUnresponsive, Idle, Dispatching
    <2>2. \A v \in Workers :
             ~unresponsive'[v] => ~unresponsive[v] /\ running'[v] = running[v]
      BY <2>1 DEF TypeOK, TypeReports, TypeJobs
    <2>3. Waiting' = Waiting
      BY <2>1 DEF Waiting
    <2> QED
      BY <1>3, <2>1, <2>2, <2>3
  <1>9. CASE Dispatch \/ Defer
    <2>1. Dispatching'
      BY <1>9 DEF Dispatch, Defer, Dispatching
    <2> QED
      BY <1>2, <2>1
  <1>10. ASSUME Shutdown \/ UNCHANGED coordinatorVars, ~Dispatching'
         PROVE  FilledInv'
    <2>1. /\ ~Dispatching
          /\ UNCHANGED <<queue, deferred, running, preset, unresponsive>>
      BY <1>10 DEF Shutdown, coordinatorVars, jobVars, reportVars, Dispatching
    <2>2. Waiting' = Waiting
      BY <2>1 DEF Waiting
    <2> QED
      BY <1>3, <2>1, <2>2
  <1> QED
    BY <1>2, <1>4, <1>5, <1>6, <1>7, <1>8, <1>9, <1>10, StepKinds DEF QueueLoop

(* Between two rounds of the serve loop a job of no session waits only     *)
(* while every live worker that accepts it has as many jobs as it was      *)
(* configured for, whatever sessions other jobs belong to.                 *)
LEMMA KeylessJobsFillWorkers == Spec => []FilledInv
  <1>1. Init => FilledInv /\ StuckInv /\ ServableInv
    <2> SUFFICES ASSUME Init PROVE FilledInv /\ StuckInv /\ ServableInv
      OBVIOUS
    <2>1. Range(queue) = {} /\ Range(deferred) = {}
      BY DEF Init, Range
    <2>2. \A w \in Workers : Range(holds[w]) = {} /\ Range(events[w]) = {}
      BY DEF Init, Range
    <2>3. FixedPresets
      BY <2>2 DEF Init, FixedPresets
    <2>4. \A w \in Workers : ConfigCapacity[w] <= capacity[w]
      BY WorkersAssumption DEF Init
    <2> QED
      BY <2>1, <2>3, <2>4 DEF Init, FilledInv, StuckInv, ServableInv, Waiting
  <1>2. TypeOK /\ JobsInv /\ ServableInv /\ [Next]_vars => ServableInv'
    BY ServableStep
  <1>3. /\ TypeOK /\ JobsInv /\ CapacityInv /\ CapacityInv' /\ UnresponsiveHoldsNothing
        /\ StuckInv /\ [Next]_vars
        => StuckInv'
    BY StuckStep
  <1>4. /\ TypeOK /\ JobsInv /\ CapacityInv /\ ServableInv /\ StuckInv /\ FilledInv
        /\ [Next]_vars
        => FilledInv'
    BY FilledStep
  <1> QED
    BY <1>1, <1>2, <1>3, <1>4, TypeCorrect, JobsInvHolds, CapacityInvHolds,
       UnresponsiveHoldNothing, PTL DEF Spec

(* The same for what a job of no session sees of the workers' slots.       *)
THEOREM KeylessJobsWaitForSlots ==
    Spec => [](phase = "serving" =>
                  \A r \in Range(queue) : Keyless(r) =>
                     \A w \in LiveMatching(r) : Cardinality(running[w]) >= ConfigCapacity[w])
  <1>1. FilledInv =>
           (phase = "serving" =>
               \A r \in Range(queue) : Keyless(r) =>
                  \A w \in LiveMatching(r) : Cardinality(running[w]) >= ConfigCapacity[w])
    BY DEF FilledInv, Dispatching, Waiting, AllFull, FullAsConfigured
  <1> QED
    BY <1>1, KeylessJobsFillWorkers, PTL

(* "A ZeroMQ coordinator fills idle workers" (README.md:75) where no job   *)
(* belongs to a session and the coordinator is configured with the slots   *)
(* its workers have (one each, unless told otherwise).  A worker given up  *)
(* unbinds its sessions, and with them the claim fails (run sticky_stall); *)
(* slots a worker reports beyond the configured ones are filled by the     *)
(* next job, answer or revival only.                                       *)
THEOREM IdleWorkersAreFilled ==
    ASSUME ConfigCapacity = RealCapacity,
           ~StickySessions \/ \A r \in Requests : KeyOf[r] = NoKey
    PROVE  Spec => []FillsIdleWorkers
  <1>1. ASSUME TypeOK, CapacityInv, FilledInv
        PROVE  FillsIdleWorkers
    <2> SUFFICES ASSUME phase = "serving", NEW r \in Range(queue),
                        NEW w \in LiveMatching(r), Free(w)
                 PROVE  FALSE
      BY DEF FillsIdleWorkers
    <2>1. r \in Requests /\ w \in Workers
      <3>1. queue \in Seq(Requests)
        BY <1>1 DEF TypeOK, TypeJobs
      <3>2. Range(queue) \subseteq Requests
        BY <3>1, RangeOfSeq
      <3> QED
        BY <3>2 DEF LiveMatching
    <2>2. Keyless(r)
      BY <2>1 DEF Keyless
    <2>3. Cardinality(running[w]) >= ConfigCapacity[w]
      BY <1>1, <2>2 DEF FilledInv, Dispatching, Waiting, AllFull, FullAsConfigured
    <2>4. /\ capacity[w] \in Nat /\ ConfigCapacity[w] \in Nat
          /\ capacity[w] <= ConfigCapacity[w]
          /\ IsFiniteSet(running[w])
      BY <1>1, <2>1, WorkersAssumption DEF CapacityInv, TypeOK, TypeReports
    <2>6. Cardinality(running[w]) \in Nat
      BY <2>4, FS_CardinalityType
    <2>5. capacity[w] - Cardinality(running[w]) > 0
      BY DEF Free, Slots
    <2> QED
      BY <2>3, <2>4, <2>5, <2>6
  <1>2. TypeOK /\ CapacityInv /\ FilledInv => FillsIdleWorkers
    BY <1>1
  <1> QED
    BY <1>2, KeylessJobsFillWorkers, TypeCorrect, CapacityInvHolds, PTL
=============================================================================
