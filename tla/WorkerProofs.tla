----------------------------- MODULE WorkerProofs -----------------------------
(***************************************************************************)
(* Proofs about Worker, for any requests, presets, steps and limits.       *)
(***************************************************************************)
EXTENDS Worker, QueueLemmas

-----------------------------------------------------------------------------
(* Moving the front of a queue to the end of another changes nothing of    *)
(* the two in a row. *)
LEMMA MoveFront ==
    ASSUME NEW S, NEW s \in Seq(S), NEW t \in Seq(S), NEW n \in 0 .. Len(t)
    PROVE  /\ s \o SubSeq(t, 1, n) \in Seq(S)
           /\ SubSeq(t, n + 1, Len(t)) \in Seq(S)
           /\ Len(SubSeq(t, n + 1, Len(t))) <= Len(t)
           /\ (s \o SubSeq(t, 1, n)) \o SubSeq(t, n + 1, Len(t)) = s \o t
  <1>0. Len(t) \in Nat /\ \A i \in 1 .. Len(t) : t[i] \in S
    BY ElementOfSeq, LenProperties
  <1> DEFINE first == SubSeq(t, 1, n)
             rest == SubSeq(t, n + 1, Len(t))
  <1>1. first \in Seq(S)
    BY <1>0, SubSeqProperties
  <1>2. /\ rest \in Seq(S)
        /\ Len(rest) = IF n + 1 <= Len(t) THEN Len(t) - (n + 1) + 1 ELSE 0
    <2>1. n + 1 \in Int /\ Len(t) \in Int /\ \A i \in n + 1 .. Len(t) : t[i] \in S
      BY <1>0
    <2> QED
      BY <2>1, SubSeqProperties
  <1>3. first \o rest = t
    <2>1. /\ 1 \in 1 .. Len(t) + 1
          /\ n \in 1 - 1 .. Len(t)
          /\ Len(t) \in n .. Len(t)
      BY <1>0
    <2>2. first \o rest = SubSeq(t, 1, Len(t))
      BY <2>1, ConcatAdjacentSubSeq
    <2> QED
      BY <2>2, SubSeqFull
  <1> HIDE DEF first, rest
  <1>4. (s \o first) \o rest = s \o t
    <2>1. \A a, b \in Seq(S) : (s \o a) \o b = s \o (a \o b)
      BY SMTT(30), ConcatAssociative
    <2>2. (s \o first) \o rest = s \o (first \o rest)
      BY Zenon, <1>1, <1>2, <2>1
    <2> QED
      BY Zenon, <1>3, <2>2
  <1>5. s \o first \in Seq(S) /\ Len(rest) <= Len(t)
    BY <1>0, <1>1, <1>2, ConcatProperties
  <1> QED
    BY <1>2, <1>4, <1>5 DEF first, rest

USE WorkerAssumption DEF WorkerAssumption

-----------------------------------------------------------------------------
(* Health and weights.                                                     *)

(* What _model_ready stands for, _busy while a job is worked on, and the   *)
(* weights of a job that rolls out.  A job that fails has the GPU released *)
(* before the flag falls.                                                  *)
EngineInv ==
    control # "closed" =>
        /\ modelReady /\ compute # "failing" => resident = loaded
        /\ compute \in Working => busy
        /\ compute \in {"prepared", "running", "completed"} =>
              loaded = PresetOf[job] /\ resident = loaded

(* RunsOnItsModel and HealthIsTrue follow: who fails a job is busy. *)
LEMMA EngineInvImplies == EngineInv => RunsOnItsModel /\ HealthIsTrue
  BY DEF EngineInv, RunsOnItsModel, HealthIsTrue, HealthMessage, Working

(* The control thread leaves the engine alone but at the start and the end. *)
LEMMA ControlKeepsEngine ==
    ASSUME EngineInv, ControlStep
    PROVE  EngineInv'
  <1>1. CASE Start
    BY <1>1 DEF Start, EngineInv, Working
  <1>2. CASE FailToPreload \/ Close
    BY <1>2 DEF FailToPreload, Close, EngineInv
  <1>3. CASE LoopAround \/ PollTimesOut \/ ReceiveHealth \/ PutJob \/ ReceiveShutdown \/ Signal
    BY <1>3 DEF LoopAround, PollTimesOut, ReceiveHealth, PutJob, ReceiveShutdown, Signal,
                engineVars, jobVars, EngineInv
  <1>4. ASSUME NEW r \in Requests, ReceiveForecast(r)
        PROVE  EngineInv'
    BY <1>4 DEF ReceiveForecast, engineVars, jobVars, EngineInv
  <1> QED
    BY <1>1, <1>2, <1>3, <1>4 DEF ControlStep

(* Neither does a step of the compute thread break it. *)
LEMMA ComputeKeepsEngine ==
    ASSUME EngineInv, ComputeStep
    PROVE  EngineInv'
  <1>0. control' = control
    BY DEF ComputeStep, controlVars, TakeJob, BeginJob, ReleaseEngine, BuildEngine, EnsureLoaded,
           StartRollout, ReportStep, CompleteJob, MarkReady, RaiseError, FailJob,
           RaiseInsufficientVram, DeclareFatal, FinishJob, DrainQueue
  <1>1. CASE TakeJob \/ BeginJob
    BY <1>0, <1>1 DEF TakeJob, BeginJob, engineVars, EngineInv, Working
  <1>2. CASE ReleaseEngine \/ BuildEngine
    BY <1>0, <1>2 DEF ReleaseEngine, BuildEngine, EngineInv, Working
  <1>3. CASE EnsureLoaded
    BY <1>0, <1>3 DEF EnsureLoaded, EngineInv, Working
  <1>4. CASE StartRollout \/ ReportStep \/ CompleteJob
    BY <1>0, <1>4 DEF StartRollout, ReportStep, CompleteJob, engineVars, EngineInv, Working
  <1>5. CASE MarkReady
    BY <1>0, <1>5 DEF MarkReady, EngineInv, Working
  <1>6. CASE RaiseError \/ FailJob
    BY <1>0, <1>6 DEF RaiseError, FailJob, EngineInv, Working
  <1>7. CASE RaiseInsufficientVram \/ DeclareFatal
    BY <1>0, <1>7 DEF RaiseInsufficientVram, DeclareFatal, engineVars, EngineInv, Working
  <1>8. CASE FinishJob \/ DrainQueue
    BY <1>0, <1>8 DEF FinishJob, DrainQueue, engineVars, EngineInv, Working
  <1> QED
    BY <1>1, <1>2, <1>3, <1>4, <1>5, <1>6, <1>7, <1>8 DEF ComputeStep

(* EngineInv is invariant. *)
LEMMA EngineInvariant == Spec => []EngineInv
  <1>1. Init => EngineInv
    BY DEF Init, EngineInv, Working
  <1>2. EngineInv /\ [Next]_vars => EngineInv'
    <2>1. CASE UNCHANGED vars
      BY <2>1 DEF vars, controlVars, jobVars, engineVars, EngineInv
    <2> QED
      BY <2>1, ControlKeepsEngine, ComputeKeepsEngine DEF Next
  <1> QED
    BY <1>1, <1>2, PTL DEF Spec

(* Each job rolls out on the weights of its own preset. *)
THEOREM OwnWeights == Spec => []RunsOnItsModel
  BY EngineInvariant, EngineInvImplies, PTL

(* Health never says ready without the weights, nor anything but busy      *)
(* while a job is worked on. *)
THEOREM TrueHealth == Spec => []HealthIsTrue
  BY EngineInvariant, EngineInvImplies, PTL

-----------------------------------------------------------------------------
(* Types.                                                                  *)

Event == JobEvent \cup StatusEvent

(* Where the compute thread has a job in its hands. *)
Owning == Working \cup {"taken", "completed", "finishing"}

(* Inductive: where a thread holds a job there is one. *)
TypeInv ==
    /\ TypeOK
    /\ control = "accepting" => accepting # NoJob
    /\ compute \in Owning => job # NoJob

(* A flush moves events from the deque to the pipe and changes nothing of  *)
(* what was emitted in all. *)
LEMMA FlushMoves ==
    ASSUME NEW events \in Seq(Event), sent \in Seq(Event), Len(events) <= MaxQueued, FlushOf(events)
    PROVE  /\ pending' \in Seq(Event) /\ sent' \in Seq(Event)
           /\ Len(pending') <= MaxQueued
           /\ sent' \o pending' = sent \o events
  <1>1. \A n \in IF PipeMayBlock THEN 0 .. Len(events) ELSE {Len(events)} : n \in 0 .. Len(events)
    BY LenProperties
  <1>2. PICK n \in 0 .. Len(events) :
            /\ sent' = sent \o SubSeq(events, 1, n)
            /\ pending' = SubSeq(events, n + 1, Len(events))
    BY <1>1, Zenon DEF FlushOf
  <1>3. /\ sent \o SubSeq(events, 1, n) \in Seq(Event)
        /\ SubSeq(events, n + 1, Len(events)) \in Seq(Event)
        /\ Len(SubSeq(events, n + 1, Len(events))) <= Len(events)
        /\ (sent \o SubSeq(events, 1, n)) \o SubSeq(events, n + 1, Len(events)) = sent \o events
    <2>1. \A s, t \in Seq(Event) : \A k \in 0 .. Len(t) :
             /\ s \o SubSeq(t, 1, k) \in Seq(Event)
             /\ SubSeq(t, k + 1, Len(t)) \in Seq(Event)
             /\ Len(SubSeq(t, k + 1, Len(t))) <= Len(t)
             /\ (s \o SubSeq(t, 1, k)) \o SubSeq(t, k + 1, Len(t)) = s \o t
      BY MoveFront
    <2> QED
      BY Zenon, <2>1
  <1>4. /\ sent' \in Seq(Event) /\ pending' \in Seq(Event)
        /\ Len(pending') <= Len(events)
        /\ sent' \o pending' = sent \o events
    BY Zenon, <1>2, <1>3
  <1>5. Len(events) \in Nat /\ Len(pending') \in Nat
    BY <1>4, LenProperties
  <1> QED
    BY <1>4, <1>5

(* An event is appended to what was emitted, or dropped. *)
LEMMA EmitAppends ==
    ASSUME TypeOK, NEW e \in Event, Emit(e)
    PROVE  /\ pending' \in Seq(Event) /\ sent' \in Seq(Event)
           /\ Len(pending') <= MaxQueued
           /\ Emitted' = Emitted \/ Emitted' = Append(Emitted, e)
  <1>0. pending \in Seq(Event) /\ sent \in Seq(Event) /\ Len(pending) <= MaxQueued
    BY DEF TypeOK, Event
  <1>1. CASE Len(pending) < MaxQueued
    <2>1. Append(pending, e) \in Seq(Event) /\ Len(Append(pending, e)) <= MaxQueued
      BY <1>0, <1>1, AppendProperties
    <2>2. FlushOf(Append(pending, e))
      BY <1>1 DEF Emit
    <2>3. sent' \o pending' = sent \o Append(pending, e)
      BY <1>0, <2>1, <2>2, FlushMoves
    <2>4. sent \o Append(pending, e) = Append(sent \o pending, e)
      BY <1>0
    <2> QED
      BY <1>0, <2>1, <2>2, <2>3, <2>4, FlushMoves DEF Emitted
  <1>2. CASE ~(Len(pending) < MaxQueued)
    BY <1>0, <1>2 DEF Emit, eventVars, Emitted
  <1> QED
    BY <1>1, <1>2

(* A flush between two events emits none. *)
LEMMA FlushEmitsNone ==
    ASSUME TypeOK, FlushOf(pending)
    PROVE  /\ pending' \in Seq(Event) /\ sent' \in Seq(Event)
           /\ Len(pending') <= MaxQueued
           /\ Emitted' = Emitted
  <1>1. pending \in Seq(Event) /\ sent \in Seq(Event) /\ Len(pending) <= MaxQueued
    BY DEF TypeOK, Event
  <1> QED
    BY <1>1, FlushMoves DEF Emitted

(* What EmitOf sends about a job is an event. *)
LEMMA JobEvents ==
    ASSUME NEW r \in Requests
    PROVE  \A k \in Terminal \cup {"accepted", "preparing", "running", "step"} :
              [kind |-> k, request |-> r] \in Event
  BY DEF Event, JobEvent

(* The control thread keeps the types. *)
LEMMA TypeOfControl ==
    ASSUME TypeInv, ControlStep
    PROVE  TypeInv'
  <1> USE DEF TypeInv, Owning
  <1>0. Requests \ Invalid \subseteq Requests /\ TypeOK
    OBVIOUS
  <1>1. CASE Start
    <2> DEFINE e == [kind |-> "ready", status |-> HealthMessage', preset |-> loaded]
    <2>1. busy' \in BOOLEAN /\ modelReady' \in BOOLEAN
      BY <1>1 DEF Start, TypeOK
    <2>2. e \in JobEvent \cup StatusEvent
      BY <1>1, <2>1 DEF HealthMessage, StatusEvent, TypeOK
    <2>3. sent' \in Seq(JobEvent \cup StatusEvent)
      <3>1. sent' = Append(sent, e) \/ sent' = sent
        BY <1>1 DEF Start
      <3>2. sent \in Seq(JobEvent \cup StatusEvent)
        BY DEF TypeOK
      <3> HIDE DEF e, TypeInv
      <3> QED
        BY <2>2, <3>1, <3>2, AppendProperties
    <2> QED
      BY <1>1, <2>1, <2>3 DEF Start, TypeOK, Control, Compute, Working
  <1>2. CASE FailToPreload \/ PollTimesOut
    BY <1>2 DEF FailToPreload, PollTimesOut, TypeOK, Control, jobVars, engineVars, eventVars
  <1>3. CASE LoopAround
    <2>1. CASE running /\ ~fatal
      BY <1>3, <2>1, FlushEmitsNone DEF LoopAround, TypeOK, Control, Event, jobVars, engineVars
    <2>2. CASE ~(running /\ ~fatal)
      <3>1. Append(jobs, Stop) \in Seq((Requests \ Invalid) \cup {Stop})
        BY AppendProperties DEF TypeOK
      <3> QED
        BY <1>3, <2>2, <3>1
        DEF LoopAround, Leave, TypeOK, Control, jobVars, engineVars, eventVars
    <2> QED
      BY <2>1, <2>2
  <1>4. CASE ReceiveHealth
    <2> DEFINE e == [kind |-> "health", status |-> HealthMessage, preset |-> loaded]
    <2>1. e \in Event
      BY DEF Event, StatusEvent, HealthMessage, TypeOK
    <2>2. Emit(e)
      BY <1>4 DEF ReceiveHealth
    <2> HIDE DEF e
    <2>3. pending' \in Seq(Event) /\ sent' \in Seq(Event) /\ Len(pending') <= MaxQueued
      BY <2>1, <2>2, EmitAppends
    <2> QED
      BY <1>4, <2>3 DEF ReceiveHealth, TypeOK, Control, Event, jobVars, engineVars
  <1>5. ASSUME NEW r \in Requests, ReceiveForecast(r)
        PROVE  TypeInv'
    <2>1. \E k \in {"failed", "accepted"} : EmitOf(k, r)
      BY <1>5 DEF ReceiveForecast
    <2>2. PICK k \in {"failed", "accepted"} : Emit([kind |-> k, request |-> r])
      BY <2>1 DEF EmitOf
    <2>3. pending' \in Seq(Event) /\ sent' \in Seq(Event) /\ Len(pending') <= MaxQueued
      BY <2>2, JobEvents, EmitAppends DEF Terminal
    <2> QED
      BY <1>5, <2>3 DEF ReceiveForecast, TypeOK, Control, Event, jobVars, engineVars
  <1>6. CASE PutJob
    <2>1. accepting \in Requests \ Invalid
      BY <1>6 DEF PutJob, TypeOK
    <2> QED
      BY <1>6, <2>1, AppendProperties
      DEF PutJob, TypeOK, Control, jobVars, engineVars, eventVars
  <1>7. CASE ReceiveShutdown
    <2>1. jobs \o <<Stop, Stop>> \in Seq((Requests \ Invalid) \cup {Stop})
      BY DEF TypeOK
    <2> QED
      BY <1>7, <2>1 DEF ReceiveShutdown, TypeOK, Control, jobVars, engineVars, eventVars
  <1>8. CASE Signal
    BY <1>8, AppendProperties
    DEF Signal, Leave, TypeOK, Control, jobVars, engineVars, eventVars
  <1>9. CASE Close
    BY <1>9, FlushEmitsNone DEF Close, TypeOK, Control, Event, jobVars
  <1> QED
    BY <1>1, <1>2, <1>3, <1>4, <1>5, <1>6, <1>7, <1>8, <1>9 DEF ControlStep

(* So does the compute thread. *)
LEMMA TypeOfCompute ==
    ASSUME TypeInv, ComputeStep
    PROVE  TypeInv'
  <1> USE DEF TypeInv, Owning
  <1>0. TypeOK
    OBVIOUS
  <1>1. \A k \in Terminal \cup {"preparing", "running", "step"} : \A r \in Requests :
           EmitOf(k, r) => /\ pending' \in Seq(JobEvent \cup StatusEvent)
                           /\ sent' \in Seq(JobEvent \cup StatusEvent)
                           /\ Len(pending') <= MaxQueued
    <2> SUFFICES ASSUME NEW k \in Terminal \cup {"preparing", "running", "step"},
                        NEW r \in Requests, EmitOf(k, r)
                 PROVE  /\ pending' \in Seq(Event) /\ sent' \in Seq(Event)
                        /\ Len(pending') <= MaxQueued
      BY DEF Event
    <2>1. [kind |-> k, request |-> r] \in Event
      BY JobEvents
    <2> QED
      BY <1>0, <2>1, EmitAppends DEF EmitOf
  <1>2. compute \in Owning => job \in Requests \ Invalid
    BY DEF TypeOK
  <1>3. jobs # <<>> => /\ Head(jobs) \in (Requests \ Invalid) \cup {Stop}
                       /\ Tail(jobs) \in Seq((Requests \ Invalid) \cup {Stop})
    BY TailRange DEF TypeOK
  <1>4. CASE TakeJob
    BY <1>3, <1>4 DEF TakeJob, TypeOK, Compute, Working, controlVars, engineVars, eventVars
  <1>5. CASE BeginJob
    BY <1>1, <1>2, <1>5 DEF BeginJob, TypeOK, Compute, Working, controlVars, engineVars
  <1>6. CASE ReleaseEngine \/ BuildEngine \/ EnsureLoaded
    <2>1. compute = "building" \/ compute = "preparing" => PresetOf[job] \in Presets
      BY <1>2 DEF Working
    <2> QED
      BY <1>2, <1>6, <2>1
      DEF ReleaseEngine, BuildEngine, EnsureLoaded, TypeOK, Compute, Working,
          controlVars, eventVars
  <1>7. CASE StartRollout
    <2>1. job \in Requests /\ EmitOf("running", job)
      BY <1>2, <1>7 DEF StartRollout, Working
    <2>2. step' \in 0 .. Steps
      BY <1>7 DEF StartRollout
    <2> QED
      BY <1>1, <1>7, <2>1, <2>2
      DEF StartRollout, TypeOK, Compute, Working, controlVars, engineVars
  <1>8. CASE ReportStep
    <2>1. job \in Requests /\ EmitOf("step", job)
      BY <1>2, <1>8 DEF ReportStep, Working
    <2>2. step' \in 0 .. Steps
      BY <1>8 DEF ReportStep, TypeOK
    <2> QED
      BY <1>1, <1>8, <2>1, <2>2
      DEF ReportStep, TypeOK, Compute, Working, controlVars, engineVars
  <1>9. CASE CompleteJob
    BY <1>1, <1>2, <1>9 DEF CompleteJob, TypeOK, Compute, Working, Terminal,
                            controlVars, engineVars
  <1>10. CASE MarkReady \/ RaiseError \/ DeclareFatal
    BY <1>2, <1>10 DEF MarkReady, RaiseError, DeclareFatal, TypeOK, Compute, Working,
                       controlVars, engineVars, eventVars
  <1>11. CASE FailJob
    BY <1>1, <1>2, <1>11 DEF FailJob, TypeOK, Compute, Working, Terminal, controlVars
  <1>12. CASE RaiseInsufficientVram
    BY <1>1, <1>2, <1>12 DEF RaiseInsufficientVram, TypeOK, Compute, Working, Terminal,
                             controlVars, engineVars
  <1>13. CASE FinishJob
    BY <1>13 DEF FinishJob, TypeOK, Compute, Working, controlVars, engineVars, eventVars
  <1>14. CASE DrainQueue
    <2>1. CASE jobs = <<>> \/ Head(jobs) = Stop
      <3>1. jobs' \in Seq((Requests \ Invalid) \cup {Stop}) /\ compute' \in {"exited", "draining"}
        BY <1>3, <1>14, <2>1 DEF DrainQueue, TypeOK
      <3> QED
        BY <1>14, <2>1, <3>1 DEF DrainQueue, TypeOK, Compute, Working, controlVars, engineVars,
                                 eventVars
    <2>2. CASE jobs # <<>> /\ Head(jobs) # Stop
      BY <1>1, <1>3, <1>14, <2>2 DEF DrainQueue, TypeOK, Compute, Working, Terminal,
                                     controlVars, engineVars
    <2> QED
      BY <2>1, <2>2
  <1> QED
    BY <1>4, <1>5, <1>6, <1>7, <1>8, <1>9, <1>10, <1>11, <1>12, <1>13, <1>14 DEF ComputeStep

(* TypeInv is invariant. *)
LEMMA TypeInvariant == Spec => []TypeInv
  <1>1. Init => TypeInv
    <2>1. /\ <<>> \in Seq(JobEvent \cup StatusEvent)
          /\ <<>> \in Seq((Requests \ Invalid) \cup {Stop})
          /\ Len(<<>>) <= MaxQueued
      OBVIOUS
    <2>2. 0 \in 0 .. Steps /\ 0 \in 0 .. MaxProbes
      OBVIOUS
    <2> QED
      BY Zenon, <2>1, <2>2 DEF Init, TypeInv, TypeOK, Owning, Working, Control, Compute
  <1>2. TypeInv /\ [Next]_vars => TypeInv'
    <2>1. CASE UNCHANGED vars
      BY <2>1 DEF vars, controlVars, jobVars, engineVars, eventVars, TypeInv, TypeOK
    <2> QED
      BY <2>1, TypeOfControl, TypeOfCompute DEF Next
  <1> QED
    BY <1>1, <1>2, PTL DEF Spec

(* Every variable stays within its type. *)
THEOREM TypeCorrect == Spec => []TypeOK
  <1>1. TypeInv => TypeOK
    BY DEF TypeInv
  <1> QED
    BY <1>1, TypeInvariant, PTL


-----------------------------------------------------------------------------
(* The queue.                                                              *)

Item == (Requests \ Invalid) \cup {Stop}

OnceEach(s) == \A i, j \in 1 .. Len(s) : i # j /\ s[i] = s[j] => s[i] = Stop

(* Each job has one place at most, and was received: being accepted, in    *)
(* the queue, or in the hands of the compute thread. *)
QueueInv ==
    /\ OnceEach(jobs)
    /\ Range(jobs) \subseteq received \cup {Stop}
    /\ control = "accepting" => accepting \in received /\ accepting \notin Range(jobs)
    /\ compute \in Owning => job \in received /\ job \notin Range(jobs)
    /\ compute \in Owning /\ control = "accepting" => job # accepting

(* A queue stays without duplicates when it gains a new job or a STOP. *)
LEMMA PutOnce ==
    ASSUME NEW s \in Seq(Item), NEW x \in Item, OnceEach(s), x \notin Range(s) \/ x = Stop
    PROVE  OnceEach(Append(s, x))
  <1>1. /\ Len(Append(s, x)) = Len(s) + 1
        /\ \A i \in 1 .. Len(s) : Append(s, x)[i] = s[i]
        /\ Append(s, x)[Len(s) + 1] = x
        /\ Len(s) \in Nat
    BY AppendProperties, LenProperties
  <1>2. \A i \in 1 .. Len(s) : s[i] \in Range(s)
    BY DEF Range
  <1> QED
    BY <1>1, <1>2 DEF OnceEach

(* What is taken from such a queue is not in it any more. *)
LEMMA TakeOnce ==
    ASSUME NEW s \in Seq(Item), s # <<>>, OnceEach(s)
    PROVE  OnceEach(Tail(s)) /\ (Head(s) = Stop \/ Head(s) \notin Range(Tail(s)))
  <1>1. /\ Tail(s) \in Seq(Item)
        /\ Len(s) \in Nat \ {0}
        /\ Len(Tail(s)) = Len(s) - 1
        /\ \A i \in 1 .. Len(Tail(s)) : Tail(s)[i] = s[i + 1]
        /\ Head(s) = s[1]
    BY HeadTailProperties, EmptySeq, LenProperties
  <1>2. \A y \in Range(Tail(s)) : \E i \in 1 .. Len(Tail(s)) : y = Tail(s)[i]
    BY <1>1, LenProperties DEF Range
  <1>3. OnceEach(Tail(s))
    BY <1>1 DEF OnceEach
  <1>4. ASSUME Head(s) \in Range(Tail(s))
        PROVE  Head(s) = Stop
    <2>1. PICK i \in 1 .. Len(Tail(s)) : Head(s) = Tail(s)[i]
      BY <1>2, <1>4
    <2>2. 1 \in 1 .. Len(s) /\ i + 1 \in 1 .. Len(s) /\ 1 # i + 1 /\ s[1] = s[i + 1]
      BY <1>1, <2>1
    <2> QED
      BY <1>1, <2>2 DEF OnceEach
  <1> QED
    BY <1>3, <1>4

(* One STOP more, as close() asks for, or two. *)
LEMMA PutStop ==
    ASSUME NEW s \in Seq(Item), OnceEach(s)
    PROVE  /\ Append(s, Stop) \in Seq(Item) /\ OnceEach(Append(s, Stop))
           /\ Range(Append(s, Stop)) = Range(s) \cup {Stop}
  <1>1. Stop \in Item
    BY DEF Item
  <1> QED
    BY <1>1, PutOnce, AppendRange

(* Every step keeps each job in its one place. *)
LEMMA QueueInvariantStep ==
    ASSUME TypeInv, QueueInv, Next
    PROVE  QueueInv'
  <1> USE DEF Owning, Working
  <1>0. /\ TypeOK /\ jobs \in Seq(Item) /\ Stop \notin Requests
        /\ control = "accepting" => accepting \in Requests \ Invalid
        /\ compute \in Owning => job \in Requests \ Invalid
    BY DEF TypeInv, TypeOK, Item
  <1>1. Append(jobs, Stop) \in Seq(Item) /\ OnceEach(Append(jobs, Stop))
        /\ Range(Append(jobs, Stop)) = Range(jobs) \cup {Stop}
    BY <1>0, PutStop DEF QueueInv
  <1>2. /\ Append(Append(jobs, Stop), Stop) \in Seq(Item)
        /\ OnceEach(Append(Append(jobs, Stop), Stop))
        /\ Range(Append(Append(jobs, Stop), Stop)) = Range(jobs) \cup {Stop}
    BY <1>1, PutStop
  <1>3. jobs \o <<Stop, Stop>> = Append(Append(jobs, Stop), Stop)
    BY <1>0
  <1>4. jobs # <<>> =>
           /\ Head(jobs) \in Item /\ Head(jobs) \in Range(jobs) /\ OnceEach(Tail(jobs))
           /\ Range(Tail(jobs)) \subseteq Range(jobs)
           /\ Head(jobs) = Stop \/ Head(jobs) \notin Range(Tail(jobs))
    BY <1>0, TailRange, TakeOnce DEF QueueInv
  <1>5. ASSUME OnceEach(jobs'), Range(jobs') \subseteq Range(jobs) \cup {Stop},
               received' = received,
               control' = "accepting" => control = "accepting" /\ accepting' = accepting,
               compute' \in Owning => compute \in Owning /\ job' = job
        PROVE  QueueInv'
    BY <1>0, <1>5 DEF QueueInv
  <1>6. OnceEach(jobs) /\ Range(jobs) \subseteq Range(jobs) \cup {Stop}
    BY DEF QueueInv
  <1>7. CASE Start \/ FailToPreload \/ PollTimesOut \/ ReceiveHealth \/ Close
    BY <1>5, <1>6, <1>7 DEF Start, FailToPreload, PollTimesOut, ReceiveHealth, Close, jobVars
  <1>8. CASE LoopAround \/ ReceiveShutdown \/ Signal
    BY <1>1, <1>2, <1>3, <1>5, <1>6, <1>8
    DEF LoopAround, ReceiveShutdown, Signal, Leave, jobVars
  <1>9. ASSUME NEW r \in Requests, ReceiveForecast(r)
        PROVE  QueueInv'
    BY <1>0, <1>9 DEF ReceiveForecast, jobVars, QueueInv
  <1>10. CASE PutJob
    <2>1. accepting \in Item /\ accepting \notin Range(jobs)
      BY <1>0, <1>10 DEF PutJob, QueueInv, Item
    <2>2. OnceEach(jobs') /\ Range(jobs') = Range(jobs) \cup {accepting}
      BY <1>0, <1>10, <2>1, PutOnce, AppendRange DEF PutJob, QueueInv
    <2> QED
      BY <1>0, <1>10, <2>2 DEF PutJob, jobVars, QueueInv
  <1>11. CASE TakeJob
    BY <1>0, <1>4, <1>11 DEF TakeJob, controlVars, QueueInv
  <1>12. CASE BeginJob \/ ReleaseEngine \/ BuildEngine \/ EnsureLoaded \/ StartRollout
              \/ ReportStep \/ CompleteJob \/ MarkReady
    BY <1>5, <1>6, <1>12 DEF BeginJob, ReleaseEngine, BuildEngine, EnsureLoaded, StartRollout,
                             ReportStep, CompleteJob, MarkReady, controlVars
  <1>13. CASE RaiseError \/ FailJob \/ RaiseInsufficientVram \/ DeclareFatal \/ FinishJob
    BY <1>5, <1>6, <1>13 DEF RaiseError, FailJob, RaiseInsufficientVram, DeclareFatal, FinishJob,
                             controlVars
  <1>14. CASE DrainQueue
    BY <1>4, <1>5, <1>6, <1>14 DEF DrainQueue, controlVars
  <1> QED
    BY <1>7, <1>8, <1>9, <1>10, <1>11, <1>12, <1>13, <1>14 DEF Next, ControlStep, ComputeStep

-----------------------------------------------------------------------------
(* The order of the events.                                                *)

(* No event of s about r goes beyond stage n. *)
Below(s, r, n) ==
    \A i \in 1 .. Len(s) :
        s[i].kind \in DOMAIN Stage /\ s[i].request = r => Stage[s[i].kind] <= n

(* EventsInOrder, of any sequence of events. *)
InOrder(s) ==
    \A i, j \in 1 .. Len(s) :
        /\ i < j
        /\ s[i].kind \in DOMAIN Stage /\ s[j].kind \in DOMAIN Stage
        /\ s[i].request = s[j].request
        => \/ Stage[s[i].kind] < Stage[s[j].kind]
           \/ s[i].kind = "step" /\ s[j].kind = "step"

(* How far the events have come, of whatever job may still emit one. *)
OrderInv ==
    /\ control = "starting" => compute = "none" /\ pending = <<>>
    /\ InOrder(Emitted)
    /\ \A r \in Requests \ received : Below(Emitted, r, 0)
    /\ control = "accepting" => Below(Emitted, accepting, 1)
    /\ \A r \in Range(jobs) \ {Stop} : Below(Emitted, r, 1)
    /\ compute = "taken" => Below(Emitted, job, 1)
    /\ compute \in {"preparing", "building", "prepared"} => Below(Emitted, job, 2)
    /\ compute \in {"running", "failing"} => Below(Emitted, job, 4)

(* The stages of a job's events. *)
LEMMA Stages ==
    /\ DOMAIN Stage = {"accepted", "preparing", "running", "step", "completed", "failed"}
    /\ Stage["accepted"] = 1 /\ Stage["preparing"] = 2 /\ Stage["running"] = 3
    /\ Stage["step"] = 4 /\ Stage["completed"] = 5 /\ Stage["failed"] = 5
  BY DEF Stage

(* One event more keeps the order when its job has not come so far yet. *)
LEMMA AppendInOrder ==
    ASSUME NEW s \in Seq(Event), NEW e \in Event, InOrder(s),
           e.kind \in DOMAIN Stage =>
              \E n \in 0 .. 5 : /\ Below(s, e.request, n)
                                /\ n < Stage[e.kind] \/ (n = 4 /\ e.kind = "step")
    PROVE  InOrder(Append(s, e))
  <1>1. /\ Len(Append(s, e)) = Len(s) + 1
        /\ \A i \in 1 .. Len(s) : Append(s, e)[i] = s[i]
        /\ Append(s, e)[Len(s) + 1] = e
        /\ Len(s) \in Nat
    BY AppendProperties, LenProperties
  <1>2. ASSUME NEW i \in 1 .. Len(s), e.kind \in DOMAIN Stage, s[i].kind \in DOMAIN Stage,
               s[i].request = e.request
        PROVE  Stage[s[i].kind] < Stage[e.kind] \/ (s[i].kind = "step" /\ e.kind = "step")
    BY <1>2, Stages DEF Below
  <1> QED
    BY <1>1, <1>2 DEF InOrder

(* It takes its own job to its stage, and no other anywhere. *)
LEMMA AppendBelow ==
    ASSUME NEW s \in Seq(Event), NEW e \in Event, NEW q, NEW n, Below(s, q, n),
           e.kind \in DOMAIN Stage /\ e.request = q => Stage[e.kind] <= n
    PROVE  Below(Append(s, e), q, n)
  <1>1. /\ Len(Append(s, e)) = Len(s) + 1
        /\ \A i \in 1 .. Len(s) : Append(s, e)[i] = s[i]
        /\ Append(s, e)[Len(s) + 1] = e
        /\ Len(s) \in Nat
    BY AppendProperties, LenProperties
  <1> QED
    BY <1>1 DEF Below

(* A job that has not passed stage m has not passed a later one. *)
LEMMA BelowMore ==
    ASSUME NEW s, NEW q, NEW m \in Int, NEW n \in Int, m <= n, Below(s, q, m)
    PROVE  Below(s, q, n)
  BY Stages DEF Below

(* An event of a later stage, or a further step, keeps the order, and      *)
(* takes only its own job further. *)
LEMMA EmitForJob ==
    ASSUME TypeOK, InOrder(Emitted), NEW r \in Requests, NEW k \in DOMAIN Stage, EmitOf(k, r),
           NEW n \in 0 .. 5, Below(Emitted, r, n),
           n < Stage[k] \/ (n = 4 /\ k = "step")
    PROVE  /\ InOrder(Emitted')
           /\ \A q, m : q # r /\ Below(Emitted, q, m) => Below(Emitted', q, m)
           /\ Below(Emitted', r, Stage[k])
  <1> DEFINE e == [kind |-> k, request |-> r]
  <1>1. e \in Event /\ e.kind = k /\ e.request = r
    BY JobEvents, Stages DEF Terminal
  <1>2. Emitted \in Seq(Event)
    BY DEF TypeOK, Event, Emitted
  <1>3. Emitted' = Emitted \/ Emitted' = Append(Emitted, e)
    BY <1>1, EmitAppends DEF EmitOf
  <1> HIDE DEF e
  <1>4. Stage[k] \in Int /\ n <= Stage[k] /\ n \in Int
    BY Stages
  <1>5. Below(Emitted, r, Stage[k])
    BY <1>4, BelowMore
  <1>6. InOrder(Append(Emitted, e))
    BY <1>1, <1>2, AppendInOrder
  <1>7. \A q, m : q # r /\ Below(Emitted, q, m) => Below(Append(Emitted, e), q, m)
    BY <1>1, <1>2, AppendBelow
  <1>8. Below(Append(Emitted, e), r, Stage[k])
    BY <1>1, <1>2, <1>4, <1>5, AppendBelow
  <1>9. CASE Emitted' = Emitted
    BY Zenon, <1>5, <1>9
  <1>10. CASE Emitted' = Append(Emitted, e)
    BY Zenon, <1>6, <1>7, <1>8, <1>10
  <1> QED
    BY <1>3, <1>9, <1>10

(* What is told of the worker itself changes nothing of the jobs. *)
LEMMA StatusInOrder ==
    ASSUME NEW s \in Seq(Event), NEW e \in StatusEvent, InOrder(s)
    PROVE  /\ InOrder(Append(s, e))
           /\ \A q, m : Below(s, q, m) => Below(Append(s, e), q, m)
  <1>1. e \in Event /\ e.kind \notin DOMAIN Stage
    BY Stages DEF Event, StatusEvent
  <1> QED
    BY <1>1, AppendInOrder, AppendBelow

(* What the worker tells of itself is one too. *)
LEMMA StatusEvents ==
    ASSUME TypeOK, NEW k \in {"ready", "health"}, NEW b \in BOOLEAN, NEW c \in BOOLEAN
    PROVE  [kind |-> k,
            status |-> IF b THEN "busy" ELSE IF c THEN "ready" ELSE "listening",
            preset |-> loaded] \in StatusEvent
  BY DEF StatusEvent, TypeOK

(* Where a job is that may still emit an event. *)
Early == {"preparing", "building", "prepared"}
Late == {"running", "failing"}

(* A step after which nobody has more to emit than before. *)
LEMMA OrderKept ==
    ASSUME OrderInv,
           InOrder(Emitted'), \A q, m : Below(Emitted, q, m) => Below(Emitted', q, m),
           received' = received, Range(jobs') \subseteq Range(jobs) \cup {Stop},
           control' # "starting",
           control' = "accepting" => control = "accepting" /\ accepting' = accepting,
           compute' = "taken" => compute = "taken" /\ job' = job,
           compute' \in Early => compute \in Early /\ job' = job,
           compute' \in Late => compute \in Early \cup Late /\ job' = job
    PROVE  OrderInv'
  <1>1. compute \in Early => Below(Emitted, job, 4)
    BY BelowMore DEF OrderInv, Early
  <1> QED
    BY <1>1 DEF OrderInv, Early, Late

(* The control thread tells of a job only when it receives it. *)
LEMMA OrderOfControl ==
    ASSUME TypeInv, QueueInv, OrderInv, ControlStep
    PROVE  OrderInv'
  <1>0. /\ TypeOK /\ Stop \notin Requests
        /\ Emitted \in Seq(Event) /\ sent \in Seq(Event) /\ pending \in Seq(Event)
        /\ jobs \in Seq(Item)
    BY DEF TypeInv, TypeOK, Event, Emitted, Item
  <1>1. /\ InOrder(Emitted)
        /\ \A q, m : Below(Emitted, q, m) => Below(Emitted, q, m)
        /\ Range(jobs) \subseteq Range(jobs) \cup {Stop}
    BY DEF OrderInv
  <1>2. CASE Start
    <2> DEFINE e == [kind |-> "ready", status |-> HealthMessage', preset |-> loaded]
    <2>1. busy' \in BOOLEAN /\ modelReady' \in BOOLEAN
      BY <1>0, <1>2 DEF Start, TypeOK
    <2>2. e \in StatusEvent
      BY <1>0, <2>1, StatusEvents DEF HealthMessage
    <2>3. sent' = Append(sent, e) \/ sent' = sent
      BY <1>2 DEF Start
    <2> HIDE DEF e
    <2>4. pending = <<>> /\ pending' = <<>>
      BY <1>2 DEF Start, OrderInv
    <2>5. \A t \in Seq(Event) : t \o <<>> = t
      OBVIOUS
    <2>6. Append(sent, e) \in Seq(Event)
      BY <1>0, <2>2, AppendProperties DEF Event
    <2>7. Emitted' = Append(Emitted, e) \/ Emitted' = Emitted
      BY Zenon, <1>0, <2>3, <2>4, <2>5, <2>6 DEF Emitted
    <2>8. InOrder(Emitted') /\ \A q, m : Below(Emitted, q, m) => Below(Emitted', q, m)
      <3>1. /\ InOrder(Append(Emitted, e))
            /\ \A q, m : Below(Emitted, q, m) => Below(Append(Emitted, e), q, m)
        BY <1>0, <1>1, <2>2, StatusInOrder
      <3>2. CASE Emitted' = Append(Emitted, e)
        BY Zenon, <3>1, <3>2
      <3>3. CASE Emitted' = Emitted
        BY Zenon, <1>1, <3>3
      <3> QED
        BY Zenon, <2>7, <3>2, <3>3
    <2> QED
      BY <1>1, <1>2, <2>8, OrderKept DEF Start, Early, Late
  <1>3. CASE FailToPreload
    <2>1. Emitted' = Emitted /\ compute' = "none"
      BY <1>3 DEF FailToPreload, Emitted, eventVars, jobVars, OrderInv
    <2> QED
      BY <1>1, <1>3, <2>1, OrderKept DEF FailToPreload, Early, Late
  <1>4. CASE PollTimesOut
    <2>1. Emitted' = Emitted
      BY <1>4 DEF PollTimesOut, Emitted, eventVars
    <2> QED
      BY <1>1, <1>4, <2>1, OrderKept DEF PollTimesOut, jobVars, Early, Late
  <1>5. CASE LoopAround
    <2>1. Emitted' = Emitted
      BY <1>0, <1>5, FlushEmitsNone DEF LoopAround, Emitted, eventVars
    <2>2. Range(jobs') \subseteq Range(jobs) \cup {Stop}
      BY <1>0, <1>5, PutStop DEF LoopAround, Leave, QueueInv
    <2>3. control' # "starting" /\ control' # "accepting"
      BY <1>5 DEF LoopAround, Leave
    <2> QED
      BY <1>1, <1>5, <2>1, <2>2, <2>3, OrderKept DEF LoopAround, jobVars, Early, Late
  <1>6. CASE ReceiveHealth
    <2> DEFINE e == [kind |-> "health", status |-> HealthMessage, preset |-> loaded]
    <2>1. e \in StatusEvent
      BY <1>0, StatusEvents DEF HealthMessage, TypeOK
    <2>2. Emit(e)
      BY <1>6 DEF ReceiveHealth
    <2> HIDE DEF e
    <2>3. Emitted' = Append(Emitted, e) \/ Emitted' = Emitted
      BY <1>0, <2>1, <2>2, EmitAppends DEF Event
    <2>4. InOrder(Emitted') /\ \A q, m : Below(Emitted, q, m) => Below(Emitted', q, m)
      <3>1. /\ InOrder(Append(Emitted, e))
            /\ \A q, m : Below(Emitted, q, m) => Below(Append(Emitted, e), q, m)
        BY <1>0, <1>1, <2>1, StatusInOrder
      <3>2. CASE Emitted' = Append(Emitted, e)
        BY Zenon, <3>1, <3>2
      <3>3. CASE Emitted' = Emitted
        BY Zenon, <1>1, <3>3
      <3> QED
        BY Zenon, <2>3, <3>2, <3>3
    <2> QED
      BY <1>1, <1>6, <2>4, OrderKept DEF ReceiveHealth, jobVars, Early, Late
  <1>7. ASSUME NEW r \in Requests, ReceiveForecast(r)
        PROVE  OrderInv'
    <2>1. PICK k \in {"failed", "accepted"} :
             EmitOf(k, r) /\ (k = "accepted" \/ control' = "looping")
      BY <1>7 DEF ReceiveForecast
    <2>2. r \notin received /\ Below(Emitted, r, 0)
      BY <1>7 DEF ReceiveForecast, OrderInv
    <2>3. k \in DOMAIN Stage /\ 0 < Stage[k] /\ (k = "accepted" => Stage[k] = 1)
      BY Stages
    <2>4. /\ InOrder(Emitted')
          /\ \A q, m : q # r /\ Below(Emitted, q, m) => Below(Emitted', q, m)
          /\ Below(Emitted', r, Stage[k])
      BY <1>0, <1>1, <2>1, <2>2, <2>3, EmitForJob
    <2>5. /\ \A q \in Range(jobs) \ {Stop} : q # r
          /\ compute \in Owning => job # r
      BY <2>2 DEF QueueInv
    <2>6. /\ control' \in {"looping", "accepting"}
          /\ control' = "accepting" => accepting' = r
          /\ received' = received \cup {r}
          /\ jobs' = jobs /\ compute' = compute /\ job' = job
      BY <1>7 DEF ReceiveForecast, jobVars
    <2> QED
      BY <2>1, <2>3, <2>4, <2>5, <2>6 DEF OrderInv, Owning, Working
  <1>8. CASE PutJob
    <2>1. Emitted' = Emitted
      BY <1>8 DEF PutJob, Emitted, eventVars
    <2>2. accepting \in Item
      BY <1>0, <1>8 DEF PutJob, TypeInv, TypeOK, Item
    <2>3. Range(jobs') = Range(jobs) \cup {accepting}
      BY <1>0, <1>8, <2>2, AppendRange DEF PutJob
    <2>4. /\ control' = "looping" /\ received' = received
          /\ compute' = compute /\ job' = job /\ Below(Emitted, accepting, 1)
      BY <1>8 DEF PutJob, jobVars, OrderInv
    <2> QED
      BY <2>1, <2>3, <2>4 DEF OrderInv
  <1>9. CASE ReceiveShutdown \/ Signal
    <2>1. Emitted' = Emitted
      BY <1>9 DEF ReceiveShutdown, Signal, Emitted, eventVars
    <2>2. /\ Append(jobs, Stop) \in Seq(Item) /\ OnceEach(Append(jobs, Stop))
          /\ Range(Append(jobs, Stop)) = Range(jobs) \cup {Stop}
      BY <1>0, PutStop DEF QueueInv
    <2>3. Range(Append(Append(jobs, Stop), Stop)) = Range(jobs) \cup {Stop}
      BY <2>2, PutStop
    <2>4. jobs \o <<Stop, Stop>> = Append(Append(jobs, Stop), Stop)
      BY <1>0
    <2>5. Range(jobs') \subseteq Range(jobs) \cup {Stop} /\ control' = "joining"
      BY <1>9, <2>2, <2>3, <2>4 DEF ReceiveShutdown, Signal, Leave
    <2> QED
      BY <1>1, <1>9, <2>1, <2>5, OrderKept DEF ReceiveShutdown, Signal, jobVars, Early, Late
  <1>10. CASE Close
    <2>1. Emitted' = Emitted
      BY <1>0, <1>10, FlushEmitsNone DEF Close
    <2> QED
      BY <1>1, <1>10, <2>1, OrderKept DEF Close, jobVars, Early, Late
  <1> QED
    BY <1>2, <1>3, <1>4, <1>5, <1>6, <1>7, <1>8, <1>9, <1>10 DEF ControlStep

(* The compute thread tells of the job at hand, each time of a later stage *)
(* than before, and of those it drains. *)
LEMMA OrderOfCompute ==
    ASSUME TypeInv, QueueInv, OrderInv, ComputeStep
    PROVE  OrderInv'
  <1>0. /\ TypeOK /\ Stop \notin Requests
        /\ jobs \in Seq(Item)
        /\ control' = control /\ accepting' = accepting /\ received' = received
        /\ control # "starting"
    BY DEF TypeInv, TypeOK, Item, OrderInv, ComputeStep, controlVars, TakeJob, BeginJob,
           ReleaseEngine, BuildEngine, EnsureLoaded, StartRollout, ReportStep, CompleteJob,
           MarkReady, RaiseError, FailJob, RaiseInsufficientVram, DeclareFatal, FinishJob,
           DrainQueue
  <1>1. /\ InOrder(Emitted)
        /\ \A q, m : Below(Emitted, q, m) => Below(Emitted, q, m)
        /\ Range(jobs) \subseteq Range(jobs) \cup {Stop}
    BY DEF OrderInv
  <1>2. compute \in Owning => job \in Requests
    BY DEF TypeInv, TypeOK
  <1>3. jobs # <<>> =>
           /\ Head(jobs) \in Item /\ Head(jobs) \in Range(jobs)
           /\ Range(Tail(jobs)) \subseteq Range(jobs)
           /\ Head(jobs) = Stop \/ Head(jobs) \notin Range(Tail(jobs))
    BY <1>0, TailRange, TakeOnce DEF QueueInv
  \* The job at hand emits an event.
  <1>4. ASSUME NEW k \in DOMAIN Stage, NEW n \in 0 .. 5, EmitOf(k, job),
               Below(Emitted, job, n), n < Stage[k] \/ (n = 4 /\ k = "step"),
               compute \in Owning, jobs' = jobs, job' = job,
               compute' # "taken",
               compute' \in Early => Stage[k] <= 2,
               compute' \in Late => Stage[k] <= 4
        PROVE  OrderInv'
    <2>1. /\ InOrder(Emitted')
          /\ \A q, m : q # job /\ Below(Emitted, q, m) => Below(Emitted', q, m)
          /\ Below(Emitted', job, Stage[k])
      BY <1>0, <1>1, <1>2, <1>4, EmitForJob
    <2>2. /\ \A r \in Requests \ received : r # job
          /\ \A r \in Range(jobs) \ {Stop} : r # job
          /\ control = "accepting" => accepting # job
      BY <1>4 DEF QueueInv
    <2>3. /\ compute' \in Early => Below(Emitted', job, 2)
          /\ compute' \in Late => Below(Emitted', job, 4)
      <3>1. Stage[k] \in Int
        BY Stages
      <3> QED
        BY <1>4, <2>1, <3>1, BelowMore
    <2> QED
      BY <1>0, <1>4, <2>1, <2>2, <2>3 DEF OrderInv, Early, Late
  <1>5. CASE TakeJob
    <2>1. Emitted' = Emitted
      BY <1>5 DEF TakeJob, Emitted, eventVars
    <2>2. Range(jobs') \subseteq Range(jobs)
      BY <1>3, <1>5 DEF TakeJob
    <2>3. compute' = "taken" => Below(Emitted, job', 1)
      BY <1>3, <1>5 DEF TakeJob, OrderInv
    <2>4. compute' \in {"taken", "exited"}
      BY <1>5 DEF TakeJob
    <2> QED
      BY <1>0, <2>1, <2>2, <2>3, <2>4 DEF OrderInv
  <1>6. CASE BeginJob
    <2>1. /\ EmitOf("preparing", job) /\ compute = "taken" /\ compute' = "preparing"
          /\ jobs' = jobs /\ job' = job /\ Below(Emitted, job, 1)
      BY <1>6 DEF BeginJob, OrderInv
    <2> QED
      BY <1>4, <2>1, Stages DEF Owning, Late
  <1>7. CASE ReleaseEngine \/ BuildEngine \/ EnsureLoaded
    <2>1. Emitted' = Emitted
      BY <1>7 DEF ReleaseEngine, BuildEngine, EnsureLoaded, Emitted, eventVars
    <2> QED
      BY <1>0, <1>1, <1>7, <2>1, OrderKept
      DEF ReleaseEngine, BuildEngine, EnsureLoaded, Early, Late
  <1>8. CASE StartRollout
    <2>1. /\ EmitOf("running", job) /\ compute = "prepared" /\ compute' = "running"
          /\ jobs' = jobs /\ job' = job /\ Below(Emitted, job, 2)
      BY <1>8 DEF StartRollout, OrderInv
    <2> QED
      BY <1>4, <2>1, Stages DEF Owning, Working, Early
  <1>9. CASE ReportStep
    <2>1. /\ EmitOf("step", job) /\ compute = "running" /\ compute' = "running"
          /\ jobs' = jobs /\ job' = job /\ Below(Emitted, job, 4)
      BY <1>9 DEF ReportStep, OrderInv
    <2> QED
      BY <1>4, <2>1, Stages DEF Owning, Working, Early
  <1>10. CASE CompleteJob
    <2>1. /\ EmitOf("completed", job) /\ compute = "running" /\ compute' = "completed"
          /\ jobs' = jobs /\ job' = job /\ Below(Emitted, job, 4)
      BY <1>10 DEF CompleteJob, OrderInv
    <2> QED
      BY <1>4, <2>1, Stages DEF Owning, Working, Early, Late
  <1>11. CASE MarkReady \/ RaiseError \/ DeclareFatal \/ FinishJob
    <2>1. Emitted' = Emitted
      BY <1>11 DEF MarkReady, RaiseError, DeclareFatal, FinishJob, Emitted, eventVars
    <2> QED
      BY <1>0, <1>1, <1>11, <2>1, OrderKept
      DEF MarkReady, RaiseError, DeclareFatal, FinishJob, Early, Late
  <1>12. CASE FailJob
    <2>1. /\ EmitOf("failed", job) /\ compute = "failing" /\ compute' = "finishing"
          /\ jobs' = jobs /\ job' = job /\ Below(Emitted, job, 4)
      BY <1>12 DEF FailJob, OrderInv
    <2> QED
      BY <1>4, <2>1, Stages DEF Owning, Working, Early, Late
  <1>13. CASE RaiseInsufficientVram
    <2>1. /\ EmitOf("failed", job) /\ compute \in {"preparing", "prepared"} /\ compute' = "fatal"
          /\ jobs' = jobs /\ job' = job /\ Below(Emitted, job, 2)
      BY <1>13 DEF RaiseInsufficientVram, OrderInv
    <2> QED
      BY <1>4, <2>1, Stages DEF Owning, Working, Early, Late
  <1>14. CASE DrainQueue
    <2>1. CASE jobs = <<>> \/ Head(jobs) = Stop
      <3>1. /\ Emitted' = Emitted /\ compute' \in {"exited", "draining"}
            /\ Range(jobs') \subseteq Range(jobs) \cup {Stop}
        BY <1>3, <1>14, <2>1 DEF DrainQueue, Emitted, eventVars
      <3> QED
        BY <1>0, <1>1, <3>1, OrderKept DEF Early, Late
    <2>2. CASE jobs # <<>> /\ Head(jobs) # Stop
      <3> DEFINE r == Head(jobs)
      <3>1. /\ EmitOf("failed", r) /\ compute' = "draining" /\ jobs' = Tail(jobs)
        BY <1>14, <2>2 DEF DrainQueue
      <3>2. r \in Requests /\ r \in Range(jobs) \ {Stop} /\ r \notin Range(Tail(jobs))
        BY <1>3, <2>2 DEF Item
      <3>3. Below(Emitted, r, 1)
        BY <3>2 DEF OrderInv
      <3>4. "failed" \in DOMAIN Stage /\ 1 < Stage["failed"]
        BY Stages
      <3>5. /\ InOrder(Emitted')
            /\ \A q, m : q # r /\ Below(Emitted, q, m) => Below(Emitted', q, m)
        <4> HIDE DEF r
        <4> QED
          BY <1>0, <1>1, <3>1, <3>2, <3>3, <3>4, EmitForJob
      <3>6. /\ \A q \in Requests \ received : q # r
            /\ control = "accepting" => accepting # r
        BY <3>2 DEF QueueInv
      <3>7. \A q \in Range(jobs') \ {Stop} : q # r /\ q \in Range(jobs) \ {Stop}
        BY <1>3, <2>2, <3>1, <3>2
      <3> HIDE DEF r
      <3> QED
        BY <1>0, <3>1, <3>5, <3>6, <3>7 DEF OrderInv
    <2> QED
      BY <2>1, <2>2
  <1> QED
    BY <1>5, <1>6, <1>7, <1>8, <1>9, <1>10, <1>11, <1>12, <1>13, <1>14 DEF ComputeStep

(* Types, queue and order are invariant together. *)
LEMMA OrderInvariant == Spec => [](TypeInv /\ QueueInv /\ OrderInv)
  <1>1. Init => QueueInv /\ OrderInv
    <2>1. ASSUME Init
          PROVE  Emitted = <<>> /\ Range(jobs) = {}
      BY <2>1 DEF Init, Emitted, Range
    <2>2. OnceEach(<<>>) /\ InOrder(<<>>) /\ \A q, n : Below(<<>>, q, n)
      BY DEF OnceEach, InOrder, Below
    <2>3. ASSUME Init
          PROVE  QueueInv
      BY <2>1, <2>2, <2>3 DEF Init, QueueInv, Owning, Working
    <2>4. ASSUME Init
          PROVE  OrderInv
      <3>1. /\ compute = "none" /\ control = "starting" /\ pending = <<>>
            /\ Emitted = <<>> /\ Range(jobs) = {}
        BY <2>1, <2>4 DEF Init
      <3> QED
        BY <2>2, <3>1 DEF OrderInv
    <2> QED
      BY <2>3, <2>4
  <1>2. TypeInv /\ QueueInv /\ OrderInv /\ [Next]_vars => QueueInv' /\ OrderInv'
    <2>1. CASE UNCHANGED vars
      BY <2>1 DEF vars, controlVars, jobVars, eventVars, Emitted, QueueInv, OrderInv
    <2> QED
      BY <2>1, QueueInvariantStep, OrderOfControl, OrderOfCompute DEF Next
  <1> QED
    BY <1>1, <1>2, TypeInvariant, PTL DEF Spec

(* Two threads emit, through a deque that a pipe empties as it likes and   *)
(* that drops what does not fit, and still a client hears of each job in   *)
(* order. *)
THEOREM OrderOfEvents == Spec => []EventsInOrder
  <1>1. TypeInv /\ OrderInv => EventsInOrder
    <2>1. ASSUME TypeInv
          PROVE  DOMAIN Emitted = 1 .. Len(Emitted)
      BY <2>1 DEF TypeInv, TypeOK, Emitted
    <2> QED
      BY <2>1 DEF OrderInv, InOrder, EventsInOrder
  <1> QED
    BY <1>1, OrderInvariant, PTL
-----------------------------------------------------------------------------
(* Answers.                                                                *)

(* The ways there are to lose a job that was accepted: its answer finds    *)
(* the deque full (worker.py:283), memory runs out (:525), or a signal     *)
(* comes between its acknowledgement and its queueing (:620).              *)
HasRoom == Len(pending) < MaxQueued

HasMemory == compute # "fatal"

PutsWhatItAccepted == control = "accepting" => control' # "joining"

NothingLost == [](HasRoom /\ HasMemory) /\ [][PutsWhatItAccepted]_vars

StopsLast(s) == \A i, j \in 1 .. Len(s) : i < j /\ s[i] = Stop => s[j] = Stop

(* The compute thread ends at a STOP, behind which no job is put.          *)
StopInv ==
    /\ ~fatal /\ compute # "draining"
    /\ StopsLast(jobs)
    /\ Stop \in Range(jobs) \/ compute = "exited" => control \in {"joining", "closed"}
    /\ compute = "exited" => Range(jobs) \subseteq {Stop}

Told(s, kinds, r) == \E i \in 1 .. Len(s) : s[i].kind \in kinds /\ s[i].request = r

(* Who has a job that is to be answered                                    *)
InHand(r) ==
    \/ control = "accepting" /\ accepting = r
    \/ r \in Range(jobs)
    \/ compute \in {"taken"} \cup Early \cup Late /\ job = r

AnswerInv ==
    \A r \in Requests :
        Told(Emitted, {"accepted"}, r) => Told(Emitted, Terminal, r) \/ InHand(r)

(* A queue that ends in STOPs still does with one more, and one without a  *)
(* STOP with anything more.                                                *)
LEMMA PutLast ==
    ASSUME NEW s \in Seq(Item), NEW x \in Item, StopsLast(s),
           x = Stop \/ Stop \notin Range(s)
    PROVE  StopsLast(Append(s, x))
  <1>1. /\ Len(Append(s, x)) = Len(s) + 1
        /\ \A i \in 1 .. Len(s) : Append(s, x)[i] = s[i]
        /\ Append(s, x)[Len(s) + 1] = x
        /\ Len(s) \in Nat
    BY AppendProperties, LenProperties
  <1>2. \A i \in 1 .. Len(s) : s[i] \in Range(s)
    BY DEF Range
  <1> QED
    BY <1>1, <1>2 DEF StopsLast

(* So the STOPs of shutdown and close() come last, be they one or two.     *)
LEMMA PutStopLast ==
    ASSUME NEW s \in Seq(Item), StopsLast(s)
    PROVE  /\ Append(s, Stop) \in Seq(Item) /\ StopsLast(Append(s, Stop))
           /\ Range(Append(s, Stop)) = Range(s) \cup {Stop}
  <1>1. Stop \in Item
    BY DEF Item
  <1> QED
    BY <1>1, PutLast, AppendRange

(* Behind a STOP there are STOPs only.                                     *)
LEMMA TakeLast ==
    ASSUME NEW s \in Seq(Item), s # <<>>, StopsLast(s)
    PROVE  /\ StopsLast(Tail(s))
           /\ Head(s) = Stop => Range(Tail(s)) \subseteq {Stop}
           /\ Range(s) = Range(Tail(s)) \cup {Head(s)}
  <1>1. /\ Tail(s) \in Seq(Item)
        /\ Len(s) \in Nat \ {0}
        /\ Len(Tail(s)) = Len(s) - 1
        /\ \A i \in 1 .. Len(Tail(s)) : Tail(s)[i] = s[i + 1]
        /\ Head(s) = s[1]
    BY HeadTailProperties, EmptySeq, LenProperties
  <1>2. \A y \in Range(Tail(s)) : \E i \in 1 .. Len(Tail(s)) : y = Tail(s)[i]
    BY <1>1, LenProperties DEF Range
  <1>3. StopsLast(Tail(s))
    BY <1>1 DEF StopsLast
  <1>4. Head(s) = Stop => Range(Tail(s)) \subseteq {Stop}
    BY <1>1, <1>2 DEF StopsLast
  <1> QED
    BY <1>3, <1>4, TailRange

(* Whoever asks for the end puts a STOP last; only a STOP ends the thread. *)
LEMMA StopStep ==
    ASSUME TypeInv, QueueInv, OrderInv, StopInv, Next, HasMemory, HasMemory', PutsWhatItAccepted
    PROVE  StopInv'
  <1>0. /\ TypeOK /\ jobs \in Seq(Item) /\ Stop \in Item /\ Stop \notin Requests
        /\ control = "accepting" => accepting \in Item /\ accepting # Stop
    BY DEF TypeInv, TypeOK, Item
  <1>1. /\ Append(jobs, Stop) \in Seq(Item) /\ StopsLast(Append(jobs, Stop))
        /\ Range(Append(jobs, Stop)) = Range(jobs) \cup {Stop}
    BY <1>0, PutStopLast DEF StopInv
  <1>2. /\ StopsLast(Append(Append(jobs, Stop), Stop))
        /\ Range(Append(Append(jobs, Stop), Stop)) = Range(jobs) \cup {Stop}
    BY <1>1, PutStopLast
  <1>3. jobs \o <<Stop, Stop>> = Append(Append(jobs, Stop), Stop)
    BY <1>0
  <1>4. CASE Start \/ FailToPreload
    BY <1>4 DEF Start, FailToPreload, StopInv, OrderInv, jobVars
  <1>5. CASE PollTimesOut \/ ReceiveHealth \/ Close \/ \E r \in Requests : ReceiveForecast(r)
    BY <1>5 DEF PollTimesOut, ReceiveHealth, Close, ReceiveForecast, StopInv, jobVars
  <1>6. CASE LoopAround \/ ReceiveShutdown \/ Signal
    <2>1. /\ control \notin {"joining", "closed"} /\ compute' = compute /\ fatal' = fatal
          /\ \/ jobs' = jobs /\ control' = "polling"
             \/ control' = "joining" /\ jobs' = Append(jobs, Stop)
             \/ control' = "joining" /\ jobs' = Append(Append(jobs, Stop), Stop)
      BY <1>3, <1>6 DEF LoopAround, ReceiveShutdown, Signal, Leave, PutsWhatItAccepted, jobVars
    <2> QED
      BY <1>1, <1>2, <2>1 DEF StopInv
  <1>7. CASE PutJob
    <2>1. /\ control = "accepting" /\ control' = "looping" /\ jobs' = Append(jobs, accepting)
          /\ compute' = compute /\ fatal' = fatal
      BY <1>7 DEF PutJob, jobVars
    <2>2. Stop \notin Range(jobs) /\ compute # "exited"
      BY <2>1 DEF StopInv
    <2>3. StopsLast(jobs') /\ Range(jobs') = Range(jobs) \cup {accepting}
      BY <1>0, <2>1, <2>2, PutLast, AppendRange DEF StopInv
    <2> QED
      BY <1>0, <2>1, <2>2, <2>3 DEF StopInv
  <1>8. CASE TakeJob
    <2>1. /\ jobs # <<>> /\ jobs' = Tail(jobs) /\ control' = control /\ fatal' = fatal
          /\ compute' = IF Head(jobs) = Stop THEN "exited" ELSE "taken"
      BY <1>8 DEF TakeJob, controlVars
    <2>2. /\ StopsLast(Tail(jobs))
          /\ Head(jobs) = Stop => Range(Tail(jobs)) \subseteq {Stop}
          /\ Range(jobs) = Range(Tail(jobs)) \cup {Head(jobs)}
      BY <1>0, <2>1, TakeLast DEF StopInv
    <2> QED
      BY <2>1, <2>2 DEF StopInv
  <1>9. CASE BeginJob \/ ReleaseEngine \/ BuildEngine \/ EnsureLoaded \/ StartRollout
             \/ ReportStep \/ CompleteJob \/ MarkReady
    BY <1>9 DEF BeginJob, ReleaseEngine, BuildEngine, EnsureLoaded, StartRollout, ReportStep,
                CompleteJob, MarkReady, StopInv, controlVars
  <1>10. CASE RaiseError \/ FailJob \/ FinishJob
    BY <1>10 DEF RaiseError, FailJob, FinishJob, StopInv, controlVars
  <1>11. ~RaiseInsufficientVram /\ ~DeclareFatal /\ ~DrainQueue
    BY DEF RaiseInsufficientVram, DeclareFatal, DrainQueue, StopInv, HasMemory
  <1> QED
    BY <1>4, <1>5, <1>6, <1>7, <1>8, <1>9, <1>10, <1>11 DEF Next, ControlStep, ComputeStep

(* Where the deque has room an event is emitted.                           *)
LEMMA EmitTells ==
    ASSUME TypeOK, NEW e \in Event, Emit(e), HasRoom
    PROVE  Emitted' = Append(Emitted, e)
  <1>0. pending \in Seq(Event) /\ sent \in Seq(Event) /\ Len(pending) \in Nat
    BY LenProperties DEF TypeOK, Event
  <1>1. Append(pending, e) \in Seq(Event) /\ Len(Append(pending, e)) <= MaxQueued
    BY <1>0, AppendProperties DEF HasRoom
  <1>2. FlushOf(Append(pending, e))
    BY DEF Emit, HasRoom
  <1>3. sent' \o pending' = sent \o Append(pending, e)
    BY <1>0, <1>1, <1>2, FlushMoves
  <1>4. sent \o Append(pending, e) = Append(sent \o pending, e)
    BY <1>0
  <1> QED
    BY <1>3, <1>4 DEF Emitted

(* What was told is told still, and what is told now is.                   *)
LEMMA ToldAppend ==
    ASSUME NEW s \in Seq(Event), NEW e \in Event, NEW kinds, NEW r
    PROVE  Told(Append(s, e), kinds, r) <=>
              Told(s, kinds, r) \/ (e.kind \in kinds /\ e.request = r)
  <1>1. /\ Len(Append(s, e)) = Len(s) + 1
        /\ \A i \in 1 .. Len(s) : Append(s, e)[i] = s[i]
        /\ Append(s, e)[Len(s) + 1] = e
        /\ Len(s) \in Nat
    BY AppendProperties, LenProperties
  <1> QED
    BY <1>1 DEF Told

(* A job is let go of only with its answer.                                *)
LEMMA AnswerKept ==
    ASSUME Emitted \in Seq(Event), AnswerInv,
           NEW e \in Event, Emitted' = Append(Emitted, e),
           e.kind = "accepted" => InHand(e.request)',
           \A r \in Requests :
              InHand(r) => InHand(r)' \/ (e.kind \in Terminal /\ e.request = r)
    PROVE  AnswerInv'
  <1> SUFFICES ASSUME NEW r \in Requests, Told(Emitted', {"accepted"}, r),
                      ~Told(Emitted', Terminal, r)
               PROVE  InHand(r)'
    BY DEF AnswerInv
  <1>1. \A kinds : Told(Append(Emitted, e), kinds, r) <=>
                      Told(Emitted, kinds, r) \/ (e.kind \in kinds /\ e.request = r)
    BY ToldAppend
  <1>2. /\ Told(Emitted, {"accepted"}, r) \/ (e.kind = "accepted" /\ e.request = r)
        /\ ~Told(Emitted, Terminal, r) /\ ~(e.kind \in Terminal /\ e.request = r)
    BY <1>1
  <1> QED
    BY <1>2 DEF AnswerInv

(* ... or stays where it is, while nothing is said.                        *)
LEMMA AnswerSame ==
    ASSUME AnswerInv, Emitted' = Emitted,
           \A r \in Requests : InHand(r) => InHand(r)'
    PROVE  AnswerInv'
  BY DEF AnswerInv

(* The control thread takes jobs in and answers those it rejects.          *)
LEMMA AnswerOfControl ==
    ASSUME TypeInv, OrderInv, StopInv, AnswerInv, ControlStep, HasRoom, PutsWhatItAccepted
    PROVE  AnswerInv'
  <1>0. /\ TypeOK /\ jobs \in Seq(Item) /\ Stop \in Item
        /\ control = "accepting" => accepting \in Item
        /\ Emitted \in Seq(Event) /\ sent \in Seq(Event) /\ pending \in Seq(Event)
    BY DEF TypeInv, TypeOK, Item, Event, Emitted
  <1>1. (compute' = compute /\ job' = job) \/ Start
    BY DEF ControlStep, FailToPreload, LoopAround, PollTimesOut, ReceiveHealth,
           ReceiveForecast, PutJob, ReceiveShutdown, Signal, Close, jobVars
  <1>2. CASE Start
    <2> DEFINE e == [kind |-> "ready", status |-> HealthMessage', preset |-> loaded]
    <2>1. busy' \in BOOLEAN /\ modelReady' \in BOOLEAN
      BY <1>0, <1>2 DEF Start, TypeOK
    <2>2. e \in StatusEvent /\ e.kind = "ready"
      BY <1>0, <2>1, StatusEvents DEF HealthMessage
    <2>3. sent' = Append(sent, e) \/ sent' = sent
      BY <1>2 DEF Start
    <2> HIDE DEF e
    <2>4. pending = <<>> /\ pending' = <<>>
      BY <1>2 DEF Start, OrderInv
    <2>5. \A s \in Seq(Event) : s \o <<>> = s
      OBVIOUS
    <2>6. Append(sent, e) \in Seq(Event) /\ e \in Event
      BY <1>0, <2>2, AppendProperties DEF Event
    <2>7. Emitted' = Append(Emitted, e) \/ Emitted' = Emitted
      BY Zenon, <1>0, <2>3, <2>4, <2>5, <2>6 DEF Emitted
    <2>8. \A r \in Requests : InHand(r) => InHand(r)'
      BY <1>2 DEF Start, OrderInv, InHand, Early, Late
    <2> QED
      BY <1>0, <2>2, <2>6, <2>7, <2>8, AnswerKept, AnswerSame
  <1>3. CASE ReceiveHealth
    <2> DEFINE e == [kind |-> "health", status |-> HealthMessage, preset |-> loaded]
    <2>1. e \in StatusEvent /\ e.kind = "health"
      BY <1>0, StatusEvents DEF HealthMessage, TypeOK
    <2>2. Emit(e)
      BY <1>3 DEF ReceiveHealth
    <2> HIDE DEF e
    <2>3. e \in Event /\ Emitted' = Append(Emitted, e)
      BY <1>0, <2>1, <2>2, EmitTells DEF Event
    <2>4. \A r \in Requests : InHand(r) => InHand(r)'
      BY <1>1, <1>3 DEF ReceiveHealth, InHand, jobVars
    <2> QED
      BY <1>0, <2>1, <2>3, <2>4, AnswerKept
  <1>4. ASSUME NEW r \in Requests, ReceiveForecast(r)
        PROVE  AnswerInv'
    <2>1. PICK k \in {"failed", "accepted"} :
             /\ EmitOf(k, r)
             /\ k = "accepted" => control' = "accepting" /\ accepting' = r
      BY <1>4 DEF ReceiveForecast
    <2> DEFINE e == [kind |-> k, request |-> r]
    <2>2. e \in Event /\ e.kind = k /\ e.request = r
      BY JobEvents DEF Terminal
    <2>3. Emit(e)
      BY <2>1 DEF EmitOf
    <2> HIDE DEF e
    <2>4. Emitted' = Append(Emitted, e)
      BY <1>0, <2>2, <2>3, EmitTells
    <2>5. \A q \in Requests : InHand(q) => InHand(q)'
      BY <1>4 DEF ReceiveForecast, InHand, jobVars
    <2>6. e.kind = "accepted" => InHand(e.request)'
      BY <2>1, <2>2 DEF InHand
    <2> QED
      BY <1>0, <2>2, <2>4, <2>5, <2>6, AnswerKept
  <1>5. CASE PutJob
    <2>1. /\ control = "accepting" /\ jobs' = Append(jobs, accepting) /\ Emitted' = Emitted
          /\ compute' = compute /\ job' = job
      BY <1>5 DEF PutJob, Emitted, eventVars, jobVars
    <2>2. Range(jobs') = Range(jobs) \cup {accepting}
      BY <1>0, <2>1, AppendRange
    <2>3. \A r \in Requests : InHand(r) => InHand(r)'
      BY <2>1, <2>2 DEF InHand
    <2> QED
      BY <2>1, <2>3, AnswerSame
  <1>6. CASE FailToPreload \/ LoopAround \/ PollTimesOut \/ ReceiveShutdown \/ Signal \/ Close
    <2>1. Emitted' = Emitted
      BY <1>0, <1>6, FlushEmitsNone DEF FailToPreload, LoopAround, PollTimesOut,
                                        ReceiveShutdown, Signal, Close, Emitted, eventVars
    <2>2. control # "accepting" /\ compute' = compute /\ job' = job
      BY <1>6 DEF FailToPreload, LoopAround, PollTimesOut, ReceiveShutdown, Signal, Leave,
                  Close, PutsWhatItAccepted, jobVars
    <2>3. jobs' \in {jobs, Append(jobs, Stop), Append(Append(jobs, Stop), Stop)}
      <3>1. jobs \o <<Stop, Stop>> = Append(Append(jobs, Stop), Stop)
        BY <1>0
      <3> QED
        BY <1>6, <3>1 DEF FailToPreload, LoopAround, PollTimesOut, ReceiveShutdown, Signal,
                          Leave, Close
    <2>4. Range(jobs) \subseteq Range(jobs')
      <3>1. \A s \in Seq(Item) : /\ Append(s, Stop) \in Seq(Item)
                                  /\ Range(Append(s, Stop)) = Range(s) \cup {Stop}
        BY <1>0, AppendRange
      <3> QED
        BY <1>0, <2>3, <3>1
    <2>5. \A r \in Requests : InHand(r) => InHand(r)'
      BY <2>2, <2>4 DEF InHand
    <2> QED
      BY <2>1, <2>5, AnswerSame
  <1> QED
    BY <1>2, <1>3, <1>4, <1>5, <1>6 DEF ControlStep

(* The compute thread answers what it took: completed or failed.           *)
LEMMA AnswerOfCompute ==
    ASSUME TypeInv, StopInv, AnswerInv, ComputeStep, HasRoom, HasMemory, HasMemory'
    PROVE  AnswerInv'
  <1> USE DEF Early, Late
  <1>0. /\ TypeOK /\ jobs \in Seq(Item) /\ Stop \notin Requests
        /\ Emitted \in Seq(Event)
        /\ compute \in Owning => job \in Requests
    BY DEF TypeInv, TypeOK, Item, Event, Emitted
  <1>1. control' = control /\ accepting' = accepting
    BY DEF ComputeStep, TakeJob, BeginJob, ReleaseEngine, BuildEngine, EnsureLoaded,
           StartRollout, ReportStep, CompleteJob, MarkReady, RaiseError, FailJob,
           RaiseInsufficientVram, DeclareFatal, FinishJob, DrainQueue, controlVars
  (* An event about the job at hand *)
  <1>2. ASSUME NEW k \in {"preparing", "running", "step", "completed", "failed"},
               EmitOf(k, job), compute \in Owning, jobs' = jobs, job' = job,
               k \in Terminal \/ compute' \in Early \cup Late
        PROVE  AnswerInv'
    <2> DEFINE e == [kind |-> k, request |-> job]
    <2>1. e \in Event /\ e.kind = k /\ e.request = job
      BY <1>0, <1>2, JobEvents DEF Terminal
    <2>2. Emit(e)
      BY <1>2 DEF EmitOf
    <2> HIDE DEF e
    <2>3. Emitted' = Append(Emitted, e)
      BY <1>0, <2>1, <2>2, EmitTells
    <2>4. \A r \in Requests : InHand(r) => InHand(r)' \/ (e.kind \in Terminal /\ e.request = r)
      BY <1>1, <1>2, <2>1 DEF InHand
    <2> QED
      BY <1>0, <2>1, <2>3, <2>4, AnswerKept
  <1>3. CASE TakeJob
    <2>1. /\ jobs # <<>> /\ jobs' = Tail(jobs) /\ Emitted' = Emitted /\ compute = "waiting"
          /\ Head(jobs) # Stop => compute' = "taken" /\ job' = Head(jobs)
      BY <1>3 DEF TakeJob, Emitted, eventVars
    <2>2. Range(jobs) = Range(Tail(jobs)) \cup {Head(jobs)}
      BY <1>0, <2>1, TakeLast DEF StopInv
    <2>3. \A r \in Requests : InHand(r) => InHand(r)'
      BY <1>0, <1>1, <2>1, <2>2 DEF InHand
    <2> QED
      BY <2>1, <2>3, AnswerSame
  <1>4. CASE BeginJob \/ StartRollout \/ ReportStep \/ CompleteJob \/ FailJob
    <2>1. /\ jobs' = jobs /\ job' = job /\ compute \in Owning
          /\ \E k \in {"preparing", "running", "step", "completed", "failed"} :
                EmitOf(k, job) /\ (k \in Terminal \/ compute' \in Early \cup Late)
      BY <1>4 DEF BeginJob, StartRollout, ReportStep, CompleteJob, FailJob, Owning, Working,
                  Terminal
    <2> QED
      BY <1>2, <2>1
  <1>5. CASE ReleaseEngine \/ BuildEngine \/ EnsureLoaded \/ MarkReady \/ RaiseError \/ FinishJob
    <2>1. Emitted' = Emitted /\ jobs' = jobs
      BY <1>5 DEF ReleaseEngine, BuildEngine, EnsureLoaded, MarkReady, RaiseError, FinishJob,
                  Emitted, eventVars
    <2>2. compute \in {"taken"} \cup Early \cup Late =>
             compute' \in {"taken"} \cup Early \cup Late /\ job' = job
      BY <1>5 DEF ReleaseEngine, BuildEngine, EnsureLoaded, MarkReady, RaiseError, FinishJob
    <2>3. \A r \in Requests : InHand(r) => InHand(r)'
      BY <1>1, <2>1, <2>2 DEF InHand
    <2> QED
      BY <2>1, <2>3, AnswerSame
  <1>6. ~RaiseInsufficientVram /\ ~DeclareFatal /\ ~DrainQueue
    BY DEF RaiseInsufficientVram, DeclareFatal, DrainQueue, StopInv, HasMemory
  <1> QED
    BY <1>3, <1>4, <1>5, <1>6 DEF ComputeStep

(* worker.py:36 "exit after draining queued jobs": when the compute thread *)
(* has ended each job that was accepted has its answer, through failures,  *)
(* preset switches and a shutdown with jobs queued, unless something was   *)
(* lost in one of the three ways that NothingLost excludes.                *)
THEOREM AcceptedAreAnswered == Spec /\ NothingLost => []AcceptedIsAnswered
  <1>1. Init => StopInv /\ AnswerInv
    <2> SUFFICES ASSUME Init PROVE StopInv /\ AnswerInv
      OBVIOUS
    <2>1. Emitted = <<>> /\ jobs = <<>> /\ Range(jobs) = {}
      BY DEF Init, Emitted, Range
    <2>2. StopsLast(jobs) /\ \A kinds, r : ~Told(Emitted, kinds, r)
      BY <2>1 DEF StopsLast, Told
    <2> QED
      BY <2>1, <2>2 DEF Init, StopInv, AnswerInv
  <1>2. /\ TypeInv /\ QueueInv /\ OrderInv /\ StopInv /\ AnswerInv
        /\ HasRoom /\ HasMemory /\ HasMemory' /\ [PutsWhatItAccepted]_vars /\ [Next]_vars
        => StopInv' /\ AnswerInv'
    <2> SUFFICES ASSUME TypeInv, QueueInv, OrderInv, StopInv, AnswerInv,
                        HasRoom, HasMemory, HasMemory', [PutsWhatItAccepted]_vars, [Next]_vars
                 PROVE  StopInv' /\ AnswerInv'
      OBVIOUS
    <2>1. CASE UNCHANGED vars
      BY <2>1 DEF vars, controlVars, jobVars, eventVars, StopInv, AnswerInv, Emitted, InHand
    <2>2. CASE Next /\ PutsWhatItAccepted
      BY <2>2, StopStep, AnswerOfControl, AnswerOfCompute DEF Next
    <2> QED
      BY <2>1, <2>2
  <1>3. TypeInv /\ StopInv /\ AnswerInv => AcceptedIsAnswered
    <2> SUFFICES ASSUME TypeInv, StopInv, AnswerInv, compute = "exited",
                        NEW r \in Requests, Was({"accepted"}, r)
                 PROVE  Was(Terminal, r)
      BY DEF AcceptedIsAnswered
    <2>1. DOMAIN Emitted = 1 .. Len(Emitted)
      BY DEF TypeInv, TypeOK, Emitted
    <2>2. \A kinds : Was(kinds, r) <=> Told(Emitted, kinds, r)
      BY <2>1 DEF Was, EmittedOf, Told
    <2>3. ~InHand(r)
      BY DEF InHand, StopInv, Early, Late, TypeInv, TypeOK
    <2> QED
      BY <2>2, <2>3 DEF AnswerInv
  <1> QED
    BY <1>1, <1>2, <1>3, OrderInvariant, PTL DEF Spec, NothingLost
=============================================================================
