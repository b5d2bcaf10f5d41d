----------------------------- MODULE Coordinator -----------------------------
(***************************************************************************)
(* The front-end scheduler, flash_aurora/scheduler/coordinator.py: one     *)
(* single-threaded process that queues forecast jobs, hands them to        *)
(* workers with a free slot, forwards what the workers answer and gives up *)
(* on a worker that stays silent.                                          *)
(*                                                                         *)
(* The loops over the queue (_dispatch_ready and                           *)
(* _fail_queued_jobs_without_live_worker) are modelled one iteration per   *)
(* step: while phase is not "serving" the coordinator is inside such a     *)
(* loop and nothing else of it can happen, although workers, which are     *)
(* other processes, go on.                                                 *)
(*                                                                         *)
(* Time is abstracted: a worker that has been heard may be found silent at *)
(* any moment.  Workers appear as far as the coordinator can observe them; *)
(* module Worker has the two threads inside one.                           *)
(***************************************************************************)
EXTENDS Integers, Sequences, FiniteSets, Functions

CONSTANTS
    Workers,         \* worker ids; integers, for the last tie-break is their order
    Requests,        \* request ids; a client draws each of them once
    Presets,
    Keys,            \* sticky keys
    NoWorker, NoKey, NoPreset, \* None
    PresetOf,        \* ForecastRequest.preset
    KeyOf,           \* ForecastRequest.sticky_key
    ConfigPreset,    \* WorkerEndpoint.preset
    ConfigCapacity,  \* WorkerEndpoint.capacity
    AcceptedPresets, \* WorkerEndpoint.accepted_presets
    RealCapacity,    \* ForecastWorkerConfig.capacity, which reports carry
    StickySessions,  \* ForecastCoordinatorConfig.sticky_sessions
    Preloads,        \* workers started with preload
    CanCrash,        \* workers that may die
    MaxStarts,       \* bound: how often one worker may be started
    MaxPauses,       \* bound: how often a live worker may be taken for silent
    MaxEvents,       \* bound: events on their way when a worker still reports
    ClientShutsDown  \* whether a client may send shutdown

ASSUME WorkersAssumption ==
    /\ Workers \subseteq Int
    /\ Workers # {}
    /\ IsFiniteSet(Workers)
    /\ NoWorker \notin Workers
    /\ NoPreset \notin Presets
    /\ ConfigPreset \in [Workers -> Presets]
    /\ ConfigCapacity \in [Workers -> Nat \ {0}]
    /\ RealCapacity \in [Workers -> Nat \ {0}]
    /\ AcceptedPresets \in [Workers -> SUBSET Presets]
    /\ \A w \in Workers : ConfigCapacity[w] <= RealCapacity[w]
    /\ Preloads \subseteq Workers
    /\ CanCrash \subseteq Workers

ASSUME RequestsAssumption ==
    /\ NoKey \notin Keys
    /\ PresetOf \in [Requests -> Presets]
    /\ KeyOf \in [Requests -> Keys \cup {NoKey}]

ASSUME BoundsAssumption ==
    /\ MaxStarts \in Nat
    /\ MaxPauses \in Nat
    /\ MaxEvents \in Nat
    /\ StickySessions \in BOOLEAN
    /\ ClientShutsDown \in BOOLEAN

VARIABLES
    serving,       \* ~_closed: the serve loop has not been left
    phase,         \* which loop over the queue the coordinator is inside
    queue,         \* _queue: what the current loop has still to look at
    deferred,      \* the deque the current loop will assign to _queue
    requestWorker, \* _request_worker
    sticky,        \* _sticky_workers
    announced,     \* _announced_cluster_status
    running,       \* _WorkerState.running, .dispatched_count and so on
    dispatched,
    heard,         \* last_heard_s is not None
    unresponsive,
    reported,      \* reported_status
    preset,        \* endpoint.preset
    capacity,      \* endpoint.capacity
    submitted,     \* requests in the order the coordinator received them
    answers        \* terminal events a client was sent, per request

VARIABLES
    up,            \* the process of the worker runs
    compute,       \* its compute thread; _busy unless idle
    warm, loaded,  \* its _model_ready and _loaded_preset
    holds,         \* jobs sent to the worker and not finished, oldest first
    events,        \* events of the worker the coordinator has not read
    starts, pauses \* what MaxStarts and MaxPauses bound

jobVars == <<queue, deferred, requestWorker, running, dispatched, sticky>>
reportVars == <<heard, unresponsive, reported, preset, capacity, announced>>
clientVars == <<submitted, answers>>
coordinatorVars == <<serving, phase, jobVars, reportVars, clientVars>>
workerVars == <<up, compute, warm, loaded, holds, events, starts, pauses>>
vars == <<coordinatorVars, workerVars>>

Phases == {"serving", "dispatch", "dispatchTwice", "failing"}
WorkerStatus == {"busy", "ready", "listening"}
Announcements == {"ready", "listening"}
Terminal == {"completed", "failed"}
Computing == {"idle", "computing", "finishing"}
ReportEvent == [kind : {"report"}, status : WorkerStatus, preset : Presets \cup {NoPreset}]
JobEvent == [kind : Terminal \cup {"progress"}, request : Requests]
Event == ReportEvent \cup JobEvent

TypeJobs ==
    /\ queue \in Seq(Requests)
    /\ deferred \in Seq(Requests)
    /\ requestWorker \in [Requests -> Workers \cup {NoWorker}]
    /\ running \in [Workers -> SUBSET Requests]
    /\ dispatched \in [Workers -> Nat]
    /\ sticky \in [Keys -> Workers \cup {NoWorker}]

TypeReports ==
    /\ heard \in [Workers -> BOOLEAN]
    /\ unresponsive \in [Workers -> BOOLEAN]
    /\ reported \in [Workers -> WorkerStatus \cup {"none"}]
    /\ preset \in [Workers -> Presets]
    /\ capacity \in [Workers -> Nat \ {0}]
    /\ announced \in Announcements \cup {"none"}

TypeClients ==
    /\ submitted \in Seq(Requests)
    /\ answers \in [Requests -> Seq(Terminal \cup {"lost", "refused"})]

TypeWorkers ==
    /\ up \in [Workers -> BOOLEAN]
    /\ compute \in [Workers -> Computing]
    /\ warm \in [Workers -> BOOLEAN]
    /\ loaded \in [Workers -> Presets \cup {NoPreset}]
    /\ holds \in [Workers -> Seq(Requests)]
    /\ events \in [Workers -> Seq(Event)]
    /\ starts \in [Workers -> Nat]
    /\ pauses \in Nat

TypeOK ==
    /\ serving \in BOOLEAN
    /\ phase \in Phases
    /\ TypeJobs
    /\ TypeReports
    /\ TypeClients
    /\ TypeWorkers

Init ==
    /\ serving = TRUE
    /\ phase = "serving"
    /\ queue = <<>>
    /\ deferred = <<>>
    /\ requestWorker = [r \in Requests |-> NoWorker]
    /\ sticky = [k \in Keys |-> NoWorker]
    /\ announced = "none"
    /\ running = [w \in Workers |-> {}]
    /\ dispatched = [w \in Workers |-> 0]
    /\ heard = [w \in Workers |-> FALSE]
    /\ unresponsive = [w \in Workers |-> FALSE]
    /\ reported = [w \in Workers |-> "none"]
    /\ preset = ConfigPreset
    /\ capacity = ConfigCapacity
    /\ submitted = <<>>
    /\ answers = [r \in Requests |-> <<>>]
    /\ up = [w \in Workers |-> FALSE]
    /\ compute = [w \in Workers |-> "idle"]
    /\ warm = [w \in Workers |-> FALSE]
    /\ loaded = ConfigPreset
    /\ holds = [w \in Workers |-> <<>>]
    /\ events = [w \in Workers |-> <<>>]
    /\ starts = [w \in Workers |-> 0]
    /\ pauses = 0

-----------------------------------------------------------------------------
(* What the coordinator computes from its state.  Here and below, an       *)
(* operator whose comment starts with Mutant is the next one with a        *)
(* plausible mistake; no specification uses it.                            *)

Waiting == Range(queue) \cup Range(deferred)
RunningJobs == UNION {running[w] : w \in Workers}

Accepts(w, r) ==
    PresetOf[r] \in IF AcceptedPresets[w] = {} THEN {preset[w]} ELSE AcceptedPresets[w]

(* Mutant: does not ask whether the worker was given up *)
MatchingOnly(r) == {w \in Workers : Accepts(w, r)}

LiveMatching(r) == {w \in Workers : Accepts(w, r) /\ ~unresponsive[w]}

Slots(w) == capacity[w] - Cardinality(running[w])

(* Mutant: off by one *)
FreeOrFull(w) == Slots(w) >= 0

Free(w) == Slots(w) > 0

(* The order of the key tuple of min(): preset held, freest, least used, id *)
PreferredOver(v, w, r) ==
    LET Holds(x) == preset[x] = PresetOf[r] IN
    \/ Holds(v) /\ ~Holds(w)
    \/ /\ Holds(v) = Holds(w)
       /\ \/ Slots(v) > Slots(w)
          \/ /\ Slots(v) = Slots(w)
             /\ \/ dispatched[v] < dispatched[w]
                \/ dispatched[v] = dispatched[w] /\ v < w

(* Mutant: a session whose worker is full goes elsewhere *)
BoundWorkerIfFree(r) ==
    IF StickySessions /\ KeyOf[r] # NoKey /\ sticky[KeyOf[r]] # NoWorker
    THEN IF Free(sticky[KeyOf[r]]) THEN sticky[KeyOf[r]] ELSE NoWorker
    ELSE NoWorker

BoundWorker(r) ==
    IF StickySessions /\ KeyOf[r] # NoKey THEN sticky[KeyOf[r]] ELSE NoWorker

(* At most one worker: the one _choose_worker returns, none for its None.  *)
Chosen(r) ==
    LET ready == {w \in LiveMatching(r) : Free(w)} IN
    IF LiveMatching(r) = {} THEN {}
    ELSE IF BoundWorker(r) # NoWorker
         THEN {w \in Workers : w = BoundWorker(r) /\ Accepts(w, r) /\ Free(w)}
         ELSE {w \in ready : \A v \in ready \ {w} : ~PreferredOver(v, w, r)}

(* Mutant: overlooks workers that never spoke *)
StatusOfHeard ==
    IF \E w \in Workers : unresponsive[w] THEN "degraded"
    ELSE IF \E w \in Workers : reported[w] = "listening" THEN "listening"
    ELSE IF \E w \in Workers : reported[w] = "busy" THEN "busy"
    ELSE "ready"

ClusterStatus ==
    IF \E w \in Workers : unresponsive[w] THEN "degraded"
    ELSE IF \E w \in Workers : reported[w] = "none" THEN "starting"
    ELSE IF \E w \in Workers : reported[w] = "listening" THEN "listening"
    ELSE IF \E w \in Workers : reported[w] = "busy" THEN "busy"
    ELSE "ready"

(* Mutant: announces every change *)
PublishEveryStatus == announced' = ClusterStatus'

(* _publish_cluster_status, over the state the event at hand leaves        *)
PublishClusterStatus ==
    announced' = IF ClusterStatus' \in Announcements THEN ClusterStatus' ELSE announced

Idle == serving /\ phase = "serving"

-----------------------------------------------------------------------------
(* Commands of clients.                                                    *)

(* _enqueue_or_fail: a preset nobody live accepts fails at once            *)
Submit(r) ==
    /\ Idle
    /\ r \notin Range(submitted)
    /\ submitted' = Append(submitted, r)
    /\ IF LiveMatching(r) = {}
       THEN /\ answers' = [answers EXCEPT ![r] = Append(@, "refused")]
            /\ UNCHANGED <<queue, phase>>
       ELSE /\ queue' = Append(queue, r)
            /\ phase' = "dispatch"
            /\ UNCHANGED answers
    /\ UNCHANGED <<serving, deferred, requestWorker, running, dispatched, sticky,
                   reportVars, workerVars>>

(* shutdown, or a signal, then close(): what has not left the pipes when   *)
(* the flush gives up is dropped, and nobody answers the queued jobs       *)
Shutdown ==
    /\ ClientShutsDown
    /\ Idle
    /\ serving' = FALSE
    /\ \E kept \in [Workers -> 0 .. Cardinality(Requests)] :
          /\ \A w \in Workers : kept[w] <= Len(holds[w]) /\ (compute[w] = "computing" => kept[w] > 0)
          /\ holds' = [w \in Workers |-> SubSeq(holds[w], 1, kept[w])]
    /\ UNCHANGED <<phase, jobVars, reportVars, clientVars,
                   up, compute, warm, loaded, events, starts, pauses>>

-----------------------------------------------------------------------------
(* _dispatch_ready, one queued job at a time.                              *)

Dispatching == phase \in {"dispatch", "dispatchTwice"}

Dispatch ==
    /\ Dispatching
    /\ queue # <<>>
    /\ LET r == Head(queue) IN
       \E w \in Chosen(r) :
          /\ running' = [running EXCEPT ![w] = @ \cup {r}]
          /\ dispatched' = [dispatched EXCEPT ![w] = @ + 1]
          /\ requestWorker' = [requestWorker EXCEPT ![r] = w]
          /\ sticky' = IF StickySessions /\ KeyOf[r] # NoKey
                       THEN [sticky EXCEPT ![KeyOf[r]] = w] ELSE sticky
          /\ holds' = [holds EXCEPT ![w] = Append(@, r)]
    /\ queue' = Tail(queue)
    /\ UNCHANGED <<serving, phase, deferred, reportVars, clientVars,
                   up, compute, warm, loaded, events, starts, pauses>>

(* Mutant: appendleft instead of append *)
DeferInFront ==
    /\ Dispatching
    /\ queue # <<>>
    /\ Chosen(Head(queue)) = {}
    /\ deferred' = <<Head(queue)>> \o deferred
    /\ queue' = Tail(queue)
    /\ UNCHANGED <<serving, phase, requestWorker, running, dispatched, sticky,
                   reportVars, clientVars, workerVars>>

Defer ==
    /\ Dispatching
    /\ queue # <<>>
    /\ Chosen(Head(queue)) = {}
    /\ deferred' = Append(deferred, Head(queue))
    /\ queue' = Tail(queue)
    /\ UNCHANGED <<serving, phase, requestWorker, running, dispatched, sticky,
                   reportVars, clientVars, workerVars>>

(* Mutant: the deferred jobs never become the queue *)
EndOfQueueDropping ==
    /\ phase # "serving"
    /\ queue = <<>>
    /\ deferred' = <<>>
    /\ phase' = IF phase = "dispatchTwice" THEN "dispatch" ELSE "serving"
    /\ UNCHANGED <<serving, queue, requestWorker, running, dispatched, sticky,
                   reportVars, clientVars, workerVars>>

(* Either loop over the queue ends by replacing the queue                  *)
EndOfQueue ==
    /\ phase # "serving"
    /\ queue = <<>>
    /\ queue' = deferred
    /\ deferred' = <<>>
    /\ phase' = IF phase = "dispatchTwice" THEN "dispatch" ELSE "serving"
    /\ UNCHANGED <<serving, requestWorker, running, dispatched, sticky,
                   reportVars, clientVars, workerVars>>

-----------------------------------------------------------------------------
(* _handle_worker_event.                                                   *)

(* Mutant: only the clock is set, the worker stays given up *)
HearOnly(w) ==
    /\ Idle
    /\ events[w] # <<>>
    /\ events' = [events EXCEPT ![w] = Tail(@)]
    /\ heard' = [heard EXCEPT ![w] = TRUE]
    /\ UNCHANGED <<serving, queue, deferred, dispatched, sticky, submitted, unresponsive,
                   up, compute, warm, loaded, holds, starts, pauses>>

Hear(w) ==
    /\ Idle
    /\ events[w] # <<>>
    /\ events' = [events EXCEPT ![w] = Tail(@)]
    /\ heard' = [heard EXCEPT ![w] = TRUE]
    /\ unresponsive' = [unresponsive EXCEPT ![w] = FALSE]
    /\ UNCHANGED <<serving, queue, deferred, dispatched, sticky, submitted,
                   up, compute, warm, loaded, holds, starts, pauses>>

(* Mutant: a worker that comes back gets no job *)
PhaseAfterReturn(w) == "serving"

(* A worker that was given up and speaks again makes the queue move        *)
PhaseAfterEvent(w) == IF unresponsive[w] THEN "dispatch" ELSE "serving"

(* Mutant: a freed slot is not filled *)
PhaseAfterFreeing(w) == PhaseAfterEvent(w)

(* The slot is filled at once, and again after a revival                   *)
PhaseAfterAnswer(w) == IF unresponsive[w] THEN "dispatchTwice" ELSE "dispatch"

(* Mutant: the slot is freed, the booking forgotten about is not *)
FreeSlotOnly(w, r) ==
    /\ running' = [running EXCEPT ![w] = @ \ {r}]
    /\ UNCHANGED requestWorker

(* Mutant: the other way round *)
FreeBookingOnly(w, r) ==
    /\ requestWorker' = [requestWorker EXCEPT ![r] = NoWorker]
    /\ UNCHANGED running

FreeSlot(w, r) ==
    /\ running' = [running EXCEPT ![w] = @ \ {r}]
    /\ requestWorker' = [requestWorker EXCEPT ![r] = NoWorker]

(* health and ready: _remember_worker_report                               *)
HandleReport(w) ==
    /\ Hear(w)
    /\ LET e == Head(events[w]) IN
       /\ e.kind = "report"
       /\ reported' = [reported EXCEPT ![w] = e.status]
       /\ preset' = IF e.preset = NoPreset THEN preset ELSE [preset EXCEPT ![w] = e.preset]
       /\ capacity' = [capacity EXCEPT ![w] = RealCapacity[w]]
    /\ phase' = PhaseAfterEvent(w)
    /\ PublishClusterStatus
    /\ UNCHANGED <<requestWorker, running, answers>>

(* accepted, preparing, running, step: forwarded, nothing else             *)
HandleProgress(w) ==
    /\ Hear(w)
    /\ Head(events[w]).kind = "progress"
    /\ phase' = PhaseAfterEvent(w)
    /\ UNCHANGED <<reported, preset, capacity, requestWorker, running, answers>>
    /\ PublishClusterStatus

(* completed, failed: forwarded, the slot is freed and jobs dispatched     *)
HandleAnswer(w) ==
    /\ Hear(w)
    /\ LET e == Head(events[w]) IN
       /\ e.kind \in Terminal
       /\ FreeSlot(w, e.request)
       /\ answers' = [answers EXCEPT ![e.request] = Append(@, e.kind)]
    /\ phase' = PhaseAfterAnswer(w)
    /\ UNCHANGED <<reported, preset, capacity>>
    /\ PublishClusterStatus

HandleEvent(w) == HandleReport(w) \/ HandleProgress(w) \/ HandleAnswer(w)

-----------------------------------------------------------------------------
(* _supervise_workers.                                                     *)

(* Mutant: sessions stay bound to the worker given up *)
SessionsAnyway(w) == sticky

SessionsWithout(w) == [k \in Keys |-> IF sticky[k] = w THEN NoWorker ELSE sticky[k]]

(* _declare_unresponsive; a worker that runs can be silent too, when its   *)
(* process or the coordinator's was held up for longer than the limit      *)
DeclareUnresponsive(w) ==
    /\ Idle
    /\ heard[w] /\ ~unresponsive[w]
    /\ IF up[w] THEN pauses < MaxPauses /\ pauses' = pauses + 1 ELSE UNCHANGED pauses
    /\ unresponsive' = [unresponsive EXCEPT ![w] = TRUE]
    /\ requestWorker' = [r \in Requests |->
                            IF r \in running[w] THEN NoWorker ELSE requestWorker[r]]
    /\ answers' = [r \in Requests |->
                      IF r \in running[w] THEN Append(answers[r], "lost") ELSE answers[r]]
    /\ running' = [running EXCEPT ![w] = {}]
    /\ announced' = "none"
    /\ sticky' = SessionsWithout(w)
    /\ phase' = "failing"
    /\ UNCHANGED <<serving, queue, deferred, dispatched, heard, reported, preset,
                   capacity, submitted, up, compute, warm, loaded, holds, events, starts>>

(* _fail_queued_jobs_without_live_worker, one queued job at a time         *)
RefuseQueued ==
    /\ phase = "failing"
    /\ queue # <<>>
    /\ LiveMatching(Head(queue)) = {}
    /\ answers' = [answers EXCEPT ![Head(queue)] = Append(@, "refused")]
    /\ queue' = Tail(queue)
    /\ UNCHANGED <<serving, phase, deferred, requestWorker, running, dispatched,
                   sticky, reportVars, submitted, workerVars>>

(* Mutant: keeps a job without asking who could run it *)
KeepAnyway ==
    /\ phase = "failing"
    /\ queue # <<>>
    /\ deferred' = Append(deferred, Head(queue))
    /\ queue' = Tail(queue)
    /\ UNCHANGED <<serving, phase, requestWorker, running, dispatched, sticky,
                   reportVars, clientVars, workerVars>>

KeepQueued ==
    /\ phase = "failing"
    /\ queue # <<>>
    /\ LiveMatching(Head(queue)) # {}
    /\ deferred' = Append(deferred, Head(queue))
    /\ queue' = Tail(queue)
    /\ UNCHANGED <<serving, phase, requestWorker, running, dispatched, sticky,
                   reportVars, clientVars, workerVars>>

-----------------------------------------------------------------------------
(* Workers, as the coordinator can observe them.                           *)

StatusOf(w) ==
    IF compute[w] # "idle" THEN "busy" ELSE IF warm[w] THEN "ready" ELSE "listening"

(* The ready event is sent without waiting for a peer and may be lost      *)
WorkerStarts(w) ==
    /\ ~up[w] /\ starts[w] < MaxStarts
    /\ up' = [up EXCEPT ![w] = TRUE]
    /\ warm' = [warm EXCEPT ![w] = w \in Preloads]
    /\ loaded' = [loaded EXCEPT ![w] = ConfigPreset[w]]
    /\ \/ events' = [events EXCEPT ![w] = Append(@,
              [kind |-> "report", preset |-> ConfigPreset[w],
               status |-> IF w \in Preloads THEN "ready" ELSE "listening"])]
       \/ UNCHANGED events
    /\ starts' = [starts EXCEPT ![w] = @ + 1]
    /\ UNCHANGED <<coordinatorVars, compute, holds, pauses>>

(* A worker answers a health probe while it computes, too                  *)
WorkerReports(w) ==
    /\ up[w]
    /\ Len(events[w]) < MaxEvents
    /\ events' = [events EXCEPT ![w] = Append(@,
          [kind |-> "report", status |-> StatusOf(w), preset |-> loaded[w]])]
    /\ UNCHANGED <<coordinatorVars, up, compute, warm, loaded, holds, starts, pauses>>

WorkerBeginsJob(w) ==
    /\ up[w] /\ compute[w] = "idle" /\ holds[w] # <<>>
    /\ compute' = [compute EXCEPT ![w] = "computing"]
    /\ events' = [events EXCEPT ![w] =
                     Append(@, [kind |-> "progress", request |-> Head(holds[w])])]
    /\ UNCHANGED <<coordinatorVars, up, warm, loaded, holds, starts, pauses>>

(* _prepare_engine_for: the old engine goes before the new one is built    *)
WorkerSwitchesPreset(w) ==
    /\ up[w] /\ compute[w] = "computing" /\ holds[w] # <<>>
    /\ loaded[w] # PresetOf[Head(holds[w])]
    /\ loaded' = [loaded EXCEPT ![w] =
                     IF @ = NoPreset THEN PresetOf[Head(holds[w])] ELSE NoPreset]
    /\ warm' = [warm EXCEPT ![w] = FALSE]
    /\ UNCHANGED <<coordinatorVars, up, compute, holds, events, starts, pauses>>

WorkerEndsJob(w, outcome) ==
    /\ up[w] /\ compute[w] = "computing" /\ holds[w] # <<>>
    /\ outcome = "completed" => loaded[w] = PresetOf[Head(holds[w])]
    /\ warm' = [warm EXCEPT ![w] = outcome = "completed"]
    /\ compute' = [compute EXCEPT ![w] = "finishing"]
    /\ events' = [events EXCEPT ![w] =
                     Append(@, [kind |-> outcome, request |-> Head(holds[w])])]
    /\ holds' = [holds EXCEPT ![w] = Tail(@)]
    /\ UNCHANGED <<coordinatorVars, up, loaded, starts, pauses>>

(* Only after the answer is sent does health stop saying busy              *)
WorkerRests(w) ==
    /\ up[w] /\ compute[w] = "finishing"
    /\ compute' = [compute EXCEPT ![w] = "idle"]
    /\ UNCHANGED <<coordinatorVars, up, warm, loaded, holds, events, starts, pauses>>

WorkerComputes(w) ==
    \/ WorkerBeginsJob(w)
    \/ WorkerSwitchesPreset(w)
    \/ \E outcome \in Terminal : WorkerEndsJob(w, outcome)
    \/ WorkerRests(w)

(* The job it runs dies with it; jobs behind it and events ahead of the    *)
(* coordinator are lost as far as they had reached, or not left, the worker *)
WorkerCrashes(w) ==
    /\ w \in CanCrash
    /\ up[w]
    /\ up' = [up EXCEPT ![w] = FALSE]
    /\ compute' = [compute EXCEPT ![w] = "idle"]
    /\ warm' = [warm EXCEPT ![w] = FALSE]
    /\ \E i \in 1 .. Len(holds[w]) + 1, j \in 0 .. Len(events[w]) :
          /\ compute[w] = "computing" => i > 1
          /\ holds' = [holds EXCEPT ![w] = SubSeq(@, i, Len(@))]
          /\ events' = [events EXCEPT ![w] = SubSeq(@, 1, j)]
    /\ UNCHANGED <<coordinatorVars, loaded, starts, pauses>>

-----------------------------------------------------------------------------
QueueLoop == Dispatch \/ Defer \/ EndOfQueue \/ RefuseQueued \/ KeepQueued

Next ==
    \/ \E r \in Requests : Submit(r)
    \/ Shutdown
    \/ QueueLoop
    \/ \E w \in Workers :
          \/ HandleEvent(w)
          \/ DeclareUnresponsive(w)
          \/ WorkerStarts(w)
          \/ WorkerReports(w)
          \/ WorkerComputes(w)
          \/ WorkerCrashes(w)

Spec == Init /\ [][Next]_vars

(* The serve loop never stops on its own, reads one event of every worker  *)
(* per iteration and then looks at every worker's silence; a worker that   *)
(* runs answers the probes sent on a fixed cadence, and its jobs end.      *)
(* Jobs are finitely many, so in the end no loop over the queue keeps the  *)
(* coordinator from its workers and weak fairness is enough.  Nothing      *)
(* obliges a worker to be started.                                         *)
Fairness ==
    /\ WF_vars(QueueLoop)
    /\ \A w \in Workers :
          /\ WF_vars(HandleEvent(w))
          /\ WF_vars(~up[w] /\ DeclareUnresponsive(w))
          /\ WF_vars(WorkerReports(w))
          /\ WF_vars(WorkerComputes(w))

FairSpec == Spec /\ Fairness
-----------------------------------------------------------------------------
(* Properties.                                                             *)

(* Capacity is respected: the dispatch loop, interrupted revivals and      *)
(* late answers never book more jobs on a worker than its advertised       *)
(* slots (available_slots, _dispatch_ready).                               *)
CapacityRespected == \A w \in Workers : Cardinality(running[w]) <= capacity[w]

(* A job is booked on one worker at most, never while it also waits, and   *)
(* _request_worker is exactly the inverse of the running sets.             *)
OneOwner ==
    /\ \A w \in Workers, r \in Requests : r \in running[w] <=> requestWorker[r] = w
    /\ RunningJobs \cap Waiting = {}

(* No job is forgotten: what a client submitted is answered, waiting or    *)
(* booked, through dispatch, silence, revival and failing the queue; and   *)
(* what waits or is booked has not been answered yet.                      *)
NoJobForgotten ==
    \A r \in Range(submitted) : answers[r] = <<>> <=> r \in Waiting \cup RunningJobs

(* A worker given up holds nothing the coordinator would wait for: no      *)
(* booked job and no sticky session (_declare_unresponsive).               *)
UnresponsiveHoldsNothing ==
    \A w \in Workers : unresponsive[w] =>
        /\ running[w] = {}
        /\ \A k \in Keys : sticky[k] # w

(* Between two steps of the serve loop each queued job has a live worker   *)
(* that accepts it; the others were failed when the last one went silent.  *)
QueuedAreServable ==
    phase = "serving" => \A r \in Range(queue) : LiveMatching(r) # {}

(* README.md:75 "A ZeroMQ coordinator fills idle workers": between two     *)
(* steps of the serve loop no job waits while a live worker that accepts   *)
(* it has a free slot, but for a job whose sticky worker is live.          *)
FillsIdleWorkers ==
    phase = "serving" =>
        \A r \in Range(queue) : \A w \in LiveMatching(r) :
            Free(w) => BoundWorker(r) # NoWorker

(* The cluster status last announced to clients speaks for every worker:   *)
(* each of them was heard, none is given up (_cluster_status,              *)
(* _publish_cluster_status, the reset in _declare_unresponsive).           *)
AnnouncedForAll ==
    announced # "none" => \A w \in Workers : heard[w] /\ ~unresponsive[w]

(* A client sees a second terminal event for a job only when the first was *)
(* the coordinator's "stopped responding"; a job refused or answered by    *)
(* its worker is answered once.                                            *)
SecondAnswerOnlyAfterLoss ==
    \A r \in Requests :
        Len(answers[r]) > 1 => Len(answers[r]) = 2 /\ answers[r][1] = "lost"

(* Jobs of one preset and one sticky key start in the order they came:     *)
(* deferring and re-queueing never lets a later one overtake.              *)
NoOvertaking ==
    [][\A i, j \in DOMAIN submitted :
          LET r == submitted[i]
              s == submitted[j]
          IN  /\ i < j
              /\ PresetOf[r] = PresetOf[s]
              /\ KeyOf[r] = KeyOf[s]
              /\ r \in Waiting
              /\ s \in Waiting
              /\ s \in RunningJobs'
              => r \in RunningJobs']_vars

(* docs/tutorial.md:121 "keeps requests with the same key on the same      *)
(* worker": a sticky session moves only when its worker is given up.       *)
StickySessionsStay ==
    [][\A k \in Keys :
          sticky[k] # NoWorker /\ ~unresponsive'[sticky[k]] => sticky'[k] = sticky[k]]_vars

(* Another job has the same sticky key *)
SharesKey(r) ==
    /\ StickySessions /\ KeyOf[r] # NoKey
    /\ \E s \in Range(submitted) \ {r} : KeyOf[s] = KeyOf[r]

(* Whatever crashes or falls silent, the jobs submitted so far are all     *)
(* answered time and again, but for jobs that share a sticky key, provided *)
(* the coordinator is not shut down and each worker is heard once: none of *)
(* the finitely many waits for ever.  A job that shares its key may: while *)
(* the key is bound to a live worker that does not accept the job's preset *)
(* (coordinator.py:345-355), or after the bound worker went silent, which  *)
(* frees the key and dispatches nothing (coordinator.py:479-497).          *)
EveryJobAnswered ==
    []serving /\ <>[](\A w \in Workers : heard[w]) =>
        []<>(\A r \in Range(submitted) : answers[r] # <<>> \/ SharesKey(r))

(* No running worker is given up for good: unless the coordinator is shut  *)
(* down, all of them are in dispatch at once time and again                *)
(* (_handle_worker_event, _probe_worker).                                  *)
RunningWorkersRejoin ==
    []serving => []<>(\A w \in Workers : up[w] => ~unresponsive[w])

(* The coordinator implements the service it is to clients: no late        *)
(* answer, revival, sticky binding or interrupted loop over the queue      *)
(* shows as anything but a step of JobService.                             *)
Service == INSTANCE JobService WITH
    SlotsOf <- RealCapacity,
    waiting <- Waiting,
    active <- running,
    settled <- {r \in Requests : answers[r] # <<>>},
    down <- {w \in Workers : unresponsive[w]}

ImplementsJobService == Service!Spec

-----------------------------------------------------------------------------
(* What makes OneOwner and NoJobForgotten inductive: the queue holds no    *)
(* job twice, it is whole again between two loops, and a job a worker      *)
(* still has, or has an event on its way for, is booked on that worker or  *)
(* answered, so that no late event can touch another worker's booking.     *)
Traced(w, r) == r \in running[w] \/ answers[r] # <<>>

JobsTraced ==
    /\ IsInjective(queue) /\ IsInjective(deferred)
    /\ Range(queue) \cap Range(deferred) = {}
    /\ phase = "serving" => deferred = <<>>
    /\ \A r \in Requests :
          (answers[r] # <<>> \/ r \in Waiting \cup RunningJobs) => r \in Range(submitted)
    /\ \A w \in Workers :
          /\ \A r \in Range(holds[w]) : Traced(w, r)
          /\ \A e \in Range(events[w]) : e.kind # "report" => Traced(w, e.request)

JobsInv == OneOwner /\ NoJobForgotten /\ JobsTraced

(* What makes CapacityRespected inductive: a report only ever raises the   *)
(* capacity, from the configured to the real one.                          *)
CapacityInv ==
    \A w \in Workers :
        /\ IsFiniteSet(running[w])
        /\ Cardinality(running[w]) <= capacity[w]
        /\ capacity[w] <= RealCapacity[w]
=============================================================================
