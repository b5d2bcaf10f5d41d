-------------------------------- MODULE Worker --------------------------------
(***************************************************************************)
(* One forecast worker, flash_aurora/scheduler/worker.py, while            *)
(* serve_forever runs: the control thread polls for commands and answers   *)
(* health probes, the compute thread takes jobs from a queue, swaps the    *)
(* engine when a job wants another preset, and runs them one by one.       *)
(*                                                                         *)
(* The two share _running, _fatal_error, _busy, _model_ready,              *)
(* _loaded_preset and the event pipe; a step of this specification is a    *)
(* stretch of one thread that touches them at most once in a way the other *)
(* thread or a client can tell.  What the engine computes is left out but  *)
(* for which preset's weights are on the GPU.                              *)
(***************************************************************************)
EXTENDS Integers, Sequences, Functions

CONSTANTS
    Requests,
    Invalid,         \* requests _validate_request rejects
    Presets,
    NoPreset, NoJob, \* None
    Stop,            \* _COMPUTE_STOP
    PresetOf,        \* ForecastRequest.preset
    FirstPreset,     \* ForecastWorkerConfig.preset
    Preload,         \* ForecastWorkerConfig.preload
    Steps,           \* step events of a job
    MaxQueued,       \* _MAX_QUEUED_EVENTS
    PipeMayBlock,    \* whether the event pipe may refuse a message
    JobsFail,        \* whether the engine may raise
    RunsOutOfVram,   \* whether what it raises may be InsufficientVramError
    MaySignal,       \* whether SIGINT or SIGTERM may arrive
    JoinMayTimeOut,  \* whether a job may outlast the join in close()
    MaxProbes        \* bound: health commands received

ASSUME WorkerAssumption ==
    /\ Invalid \subseteq Requests
    /\ NoPreset \notin Presets
    /\ NoJob \notin Requests
    /\ Stop \notin Requests
    /\ PresetOf \in [Requests -> Presets]
    /\ FirstPreset \in Presets
    /\ Steps \in Nat \ {0}
    /\ MaxQueued \in Nat \ {0}
    /\ MaxProbes \in Nat
    /\ {Preload, PipeMayBlock, JobsFail, RunsOutOfVram, MaySignal, JoinMayTimeOut}
          \subseteq BOOLEAN

VARIABLES
    control,    \* where the control thread is
    compute,    \* where the compute thread is
    running,    \* _running
    fatal,      \* _fatal_error is not None
    jobs,       \* _job_queue
    accepting,  \* the job accepted and not yet put into the queue
    job,        \* the job the compute thread has taken
    step,       \* steps of it reported
    busy,       \* _busy
    modelReady, \* _model_ready
    loaded,     \* _loaded_preset
    resident,   \* the preset whose weights are on the GPU
    pending,    \* _pending_events
    sent,       \* what the pipe has taken
    received,   \* requests received
    probes      \* what MaxProbes bounds

controlVars == <<control, accepting, received, probes>>
jobVars == <<compute, job, step>>
engineVars == <<loaded, resident, modelReady>>
eventVars == <<pending, sent>>
vars == <<controlVars, jobVars, engineVars, eventVars, running, fatal, jobs, busy>>

Control == {"starting", "looping", "polling", "accepting", "joining", "closed"}
Working == {"preparing", "building", "prepared", "running", "failing", "fatal"}
Compute == Working \cup {"none", "waiting", "taken", "completed", "finishing",
                         "draining", "exited"}
Terminal == {"completed", "failed"}
JobEvent == [kind : Terminal \cup {"accepted", "preparing", "running", "step"},
             request : Requests]
StatusEvent == [kind : {"ready", "health"}, status : {"busy", "ready", "listening"},
                preset : Presets \cup {NoPreset}]

TypeOK ==
    /\ control \in Control
    /\ compute \in Compute
    /\ running \in BOOLEAN /\ fatal \in BOOLEAN
    /\ busy \in BOOLEAN /\ modelReady \in BOOLEAN
    /\ jobs \in Seq((Requests \ Invalid) \cup {Stop})
    /\ accepting \in (Requests \ Invalid) \cup {NoJob}
    /\ job \in (Requests \ Invalid) \cup {NoJob}
    /\ step \in 0 .. Steps
    /\ loaded \in Presets \cup {NoPreset}
    /\ resident \in Presets \cup {NoPreset}
    /\ pending \in Seq(JobEvent \cup StatusEvent)
    /\ sent \in Seq(JobEvent \cup StatusEvent)
    /\ Len(pending) <= MaxQueued
    /\ received \subseteq Requests
    /\ probes \in 0 .. MaxProbes

Init ==
    /\ control = "starting"
    /\ compute = "none"
    /\ running = TRUE
    /\ fatal = FALSE
    /\ jobs = <<>>
    /\ accepting = NoJob
    /\ job = NoJob
    /\ step = 0
    /\ busy = FALSE
    /\ modelReady = FALSE
    /\ loaded = FirstPreset
    /\ resident = NoPreset
    /\ pending = <<>>
    /\ sent = <<>>
    /\ received = {}
    /\ probes = 0

-----------------------------------------------------------------------------
(* The event pipe.  Here and below, an operator whose comment starts with  *)
(* Mutant is the next one with a plausible mistake; no specification uses  *)
(* it.                                                                     *)

(* Sends from the front until the pipe refuses one                         *)
FlushOf(events) ==
    \E n \in IF PipeMayBlock THEN 0 .. Len(events) ELSE {Len(events)} :
        /\ sent' = sent \o SubSeq(events, 1, n)
        /\ pending' = SubSeq(events, n + 1, Len(events))

(* Mutant: a new event is tried on the pipe before the ones that wait      *)
EmitAhead(e) ==
    \/ sent' = Append(sent, e) /\ UNCHANGED pending
    \/ /\ PipeMayBlock /\ Len(pending) < MaxQueued
       /\ pending' = Append(pending, e)
       /\ UNCHANGED sent

(* A full deque drops the event                                            *)
Emit(e) ==
    IF Len(pending) < MaxQueued THEN FlushOf(Append(pending, e)) ELSE UNCHANGED eventVars

EmitOf(kind, r) == Emit([kind |-> kind, request |-> r])

HealthMessage == IF busy THEN "busy" ELSE IF modelReady THEN "ready" ELSE "listening"

-----------------------------------------------------------------------------
(* The control thread.                                                     *)

(* With preload the weights come first.  The ready event bypasses the      *)
(* deque and is lost without a peer.                                       *)
Start ==
    /\ control = "starting"
    /\ control' = "looping"
    /\ compute' = "waiting"
    /\ resident' = IF Preload THEN loaded ELSE NoPreset
    /\ modelReady' = Preload
    /\ UNCHANGED <<accepting, received, probes, job, step, loaded, pending, running, fatal,
                   jobs, busy>>
    /\ \/ sent' = Append(sent, [kind |-> "ready", status |-> HealthMessage', preset |-> loaded])
       \/ PipeMayBlock /\ UNCHANGED sent

FailToPreload ==
    /\ control = "starting"
    /\ Preload /\ JobsFail
    /\ control' = "closed"
    /\ running' = FALSE
    /\ UNCHANGED <<accepting, received, probes, jobVars, engineVars, eventVars, fatal, jobs, busy>>

(* Mutant: close() joins the compute thread without asking it to stop      *)
LeaveSilently ==
    /\ control' = "joining"
    /\ UNCHANGED jobs

(* serve_forever is left: close() asks the compute thread to stop          *)
Leave ==
    /\ control' = "joining"
    /\ jobs' = Append(jobs, Stop)

(* The top of the loop; a fatal error that comes later is seen only when   *)
(* the poll is over                                                        *)
LoopAround ==
    /\ control = "looping"
    /\ IF running /\ ~fatal
       THEN control' = "polling" /\ FlushOf(pending) /\ UNCHANGED jobs
       ELSE Leave /\ UNCHANGED eventVars
    /\ UNCHANGED <<accepting, received, probes, jobVars, engineVars, running, fatal, busy>>

PollTimesOut ==
    /\ control = "polling"
    /\ control' = "looping"
    /\ UNCHANGED <<accepting, received, probes, jobVars, engineVars, eventVars,
                   running, fatal, jobs, busy>>

ReceiveHealth ==
    /\ control = "polling"
    /\ probes < MaxProbes
    /\ probes' = probes + 1
    /\ Emit([kind |-> "health", status |-> HealthMessage, preset |-> loaded])
    /\ control' = "looping"
    /\ UNCHANGED <<accepting, received, jobVars, engineVars, running, fatal, jobs, busy>>

ReceiveForecast(r) ==
    /\ control = "polling"
    /\ r \notin received
    /\ received' = received \cup {r}
    /\ IF r \in Invalid
       THEN /\ EmitOf("failed", r)
            /\ control' = "looping"
            /\ UNCHANGED accepting
       ELSE /\ EmitOf("accepted", r)
            /\ control' = "accepting"
            /\ accepting' = r
    /\ UNCHANGED <<probes, jobVars, engineVars, running, fatal, jobs, busy>>

PutJob ==
    /\ control = "accepting"
    /\ jobs' = Append(jobs, accepting)
    /\ accepting' = NoJob
    /\ control' = "looping"
    /\ UNCHANGED <<received, probes, jobVars, engineVars, eventVars, running, fatal, busy>>

(* Mutant: STOP overtakes the queued jobs *)
ReceiveShutdownAtOnce ==
    /\ control = "polling"
    /\ running' = FALSE
    /\ control' = "joining"
    /\ jobs' = <<Stop>> \o jobs
    /\ UNCHANGED <<accepting, received, probes, jobVars, engineVars, eventVars, fatal, busy>>

(* handle_command stops the compute thread, then close() does so again     *)
ReceiveShutdown ==
    /\ control = "polling"
    /\ running' = FALSE
    /\ control' = "joining"
    /\ jobs' = jobs \o <<Stop, Stop>>
    /\ UNCHANGED <<accepting, received, probes, jobVars, engineVars, eventVars, fatal, busy>>

(* The handler raises KeyboardInterrupt wherever the control thread is     *)
Signal ==
    /\ MaySignal
    /\ control \in {"looping", "polling", "accepting"}
    /\ running' = FALSE
    /\ Leave
    /\ UNCHANGED <<accepting, received, probes, jobVars, engineVars, eventVars, fatal, busy>>

(* close(), once the compute thread is gone or the join gave up on it: one *)
(* last flush, then the engine                                             *)
Close ==
    /\ control = "joining"
    /\ compute = "exited" \/ JoinMayTimeOut
    /\ running' = FALSE
    /\ FlushOf(pending)
    /\ resident' = NoPreset
    /\ control' = "closed"
    /\ UNCHANGED <<accepting, received, probes, jobVars, loaded, modelReady, fatal, jobs, busy>>

ControlStep ==
    \/ Start
    \/ FailToPreload
    \/ LoopAround
    \/ PollTimesOut
    \/ ReceiveHealth
    \/ \E r \in Requests : ReceiveForecast(r)
    \/ PutJob
    \/ ReceiveShutdown
    \/ Signal
    \/ Close

-----------------------------------------------------------------------------
(* The compute thread.  It is a daemon: it ends with the process.          *)

Computing == control # "closed"

(* Mutant: the loop runs while _running instead of until STOP              *)
TakeJobWhileRunning ==
    /\ Computing
    /\ compute = "waiting"
    /\ jobs # <<>>
    /\ jobs' = Tail(jobs)
    /\ IF Head(jobs) = Stop \/ ~running
       THEN compute' = "exited" /\ UNCHANGED job
       ELSE compute' = "taken" /\ job' = Head(jobs)
    /\ UNCHANGED <<controlVars, step, engineVars, eventVars, running, fatal, busy>>

(* STOP waits its turn behind the jobs queued before it                    *)
TakeJob ==
    /\ Computing
    /\ compute = "waiting"
    /\ jobs # <<>>
    /\ jobs' = Tail(jobs)
    /\ IF Head(jobs) = Stop
       THEN compute' = "exited" /\ UNCHANGED job
       ELSE compute' = "taken" /\ job' = Head(jobs)
    /\ UNCHANGED <<controlVars, step, engineVars, eventVars, running, fatal, busy>>

(* Mutant: the worker does not count as busy yet *)
BeginJobIdle ==
    /\ Computing
    /\ compute = "taken"
    /\ EmitOf("preparing", job)
    /\ compute' = "preparing"
    /\ UNCHANGED <<controlVars, job, step, engineVars, running, fatal, jobs, busy>>

BeginJob ==
    /\ Computing
    /\ compute = "taken"
    /\ busy' = TRUE
    /\ EmitOf("preparing", job)
    /\ compute' = "preparing"
    /\ UNCHANGED <<controlVars, job, step, engineVars, running, fatal, jobs>>

(* _prepare_engine_for another preset: the old engine goes first           *)
ReleaseEngine ==
    /\ Computing
    /\ compute = "preparing"
    /\ loaded # PresetOf[job]
    /\ modelReady' = FALSE
    /\ resident' = NoPreset
    /\ loaded' = NoPreset
    /\ compute' = "building"
    /\ UNCHANGED <<controlVars, job, step, eventVars, running, fatal, jobs, busy>>

BuildEngine ==
    /\ Computing
    /\ compute = "building"
    /\ loaded' = PresetOf[job]
    /\ modelReady' = FALSE
    /\ compute' = "preparing"
    /\ UNCHANGED <<controlVars, job, step, resident, eventVars, running, fatal, jobs, busy>>

(* ensure_loaded trusts _model_ready; then the initial condition is read   *)
EnsureLoaded ==
    /\ Computing
    /\ compute = "preparing"
    /\ loaded = PresetOf[job]
    /\ resident' = IF modelReady THEN resident ELSE loaded
    /\ modelReady' = TRUE
    /\ compute' = "prepared"
    /\ UNCHANGED <<controlVars, job, step, loaded, eventVars, running, fatal, jobs, busy>>

StartRollout ==
    /\ Computing
    /\ compute = "prepared"
    /\ EmitOf("running", job)
    /\ compute' = "running"
    /\ step' = 0
    /\ UNCHANGED <<controlVars, job, engineVars, running, fatal, jobs, busy>>

(* Mutant: off by one *)
ReportOneMoreStep ==
    /\ Computing
    /\ compute = "running"
    /\ step <= Steps
    /\ EmitOf("step", job)
    /\ step' = step + 1
    /\ UNCHANGED <<controlVars, compute, job, engineVars, running, fatal, jobs, busy>>

ReportStep ==
    /\ Computing
    /\ compute = "running"
    /\ step < Steps
    /\ EmitOf("step", job)
    /\ step' = step + 1
    /\ UNCHANGED <<controlVars, compute, job, engineVars, running, fatal, jobs, busy>>

CompleteJob ==
    /\ Computing
    /\ compute = "running"
    /\ step = Steps
    /\ EmitOf("completed", job)
    /\ compute' = "completed"
    /\ UNCHANGED <<controlVars, job, step, engineVars, running, fatal, jobs, busy>>

MarkReady ==
    /\ Computing
    /\ compute = "completed"
    /\ modelReady' = TRUE
    /\ compute' = "finishing"
    /\ UNCHANGED <<controlVars, job, step, loaded, resident, eventVars, running, fatal,
                   jobs, busy>>

(* Whatever the engine raises, release_gpu moves the weights to the CPU    *)
RaiseError ==
    /\ Computing
    /\ JobsFail
    /\ compute \in {"preparing", "building", "prepared", "running"}
    /\ resident' = NoPreset
    /\ compute' = "failing"
    /\ UNCHANGED <<controlVars, job, step, loaded, modelReady, eventVars, running, fatal,
                   jobs, busy>>

(* Mutant: the failure leaves _model_ready set *)
FailJobStillReady ==
    /\ Computing
    /\ compute = "failing"
    /\ EmitOf("failed", job)
    /\ compute' = "finishing"
    /\ UNCHANGED <<controlVars, job, step, engineVars, running, fatal, jobs, busy>>

FailJob ==
    /\ Computing
    /\ compute = "failing"
    /\ modelReady' = FALSE
    /\ EmitOf("failed", job)
    /\ compute' = "finishing"
    /\ UNCHANGED <<controlVars, job, step, loaded, resident, running, fatal, jobs, busy>>

(* InsufficientVramError, from loading or from the preflight: first the    *)
(* client hears of it, then the control thread                             *)
RaiseInsufficientVram ==
    /\ Computing
    /\ RunsOutOfVram
    /\ compute \in {"preparing", "prepared"}
    /\ EmitOf("failed", job)
    /\ compute' = "fatal"
    /\ UNCHANGED <<controlVars, job, step, engineVars, running, fatal, jobs, busy>>

DeclareFatal ==
    /\ Computing
    /\ compute = "fatal"
    /\ fatal' = TRUE
    /\ running' = FALSE
    /\ compute' = "finishing"
    /\ UNCHANGED <<controlVars, job, step, engineVars, eventVars, jobs, busy>>

FinishJob ==
    /\ Computing
    /\ compute = "finishing"
    /\ busy' = FALSE
    /\ job' = NoJob
    /\ compute' = IF fatal THEN "draining" ELSE "waiting"
    /\ UNCHANGED <<controlVars, step, engineVars, eventVars, running, fatal, jobs>>

(* _fail_queued_jobs, then the thread ends                                 *)
DrainQueue ==
    /\ Computing
    /\ compute = "draining"
    /\ IF jobs = <<>>
       THEN compute' = "exited" /\ UNCHANGED <<jobs, eventVars>>
       ELSE /\ jobs' = Tail(jobs)
            /\ IF Head(jobs) = Stop THEN UNCHANGED eventVars ELSE EmitOf("failed", Head(jobs))
            /\ UNCHANGED compute
    /\ UNCHANGED <<controlVars, job, step, engineVars, running, fatal, busy>>

ComputeStep ==
    \/ TakeJob \/ BeginJob \/ ReleaseEngine \/ BuildEngine \/ EnsureLoaded
    \/ StartRollout \/ ReportStep \/ CompleteJob \/ MarkReady
    \/ RaiseError \/ FailJob \/ RaiseInsufficientVram \/ DeclareFatal
    \/ FinishJob \/ DrainQueue

Next == ControlStep \/ ComputeStep

Spec == Init /\ [][Next]_vars

(* Both threads run, polls end, and so do the engine's calls               *)
FairSpec == Spec /\ WF_vars(ControlStep) /\ WF_vars(ComputeStep)

-----------------------------------------------------------------------------
(* Properties.                                                             *)

Emitted == sent \o pending
EmittedOf(kinds, r) ==
    {i \in DOMAIN Emitted : Emitted[i].kind \in kinds /\ Emitted[i].request = r}
Was(kinds, r) == EmittedOf(kinds, r) # {}

Stage == [accepted |-> 1, preparing |-> 2, running |-> 3, step |-> 4,
          completed |-> 5, failed |-> 5]

(* Two threads emit through one deque and a pipe that may block or drop,   *)
(* yet a client hears of a job in order: accepted, preparing, running, the *)
(* steps, one answer and nothing after it (_emit, handle_command,          *)
(* run_forecast).                                                          *)
EventsInOrder ==
    \A i, j \in DOMAIN Emitted :
        LET e == Emitted[i]
            f == Emitted[j]
        IN  /\ i < j
            /\ {e.kind, f.kind} \subseteq DOMAIN Stage
            /\ e.request = f.request
            => Stage[e.kind] < Stage[f.kind] \/ (e.kind = "step" /\ f.kind = "step")

(* A job rolls out on its own preset's weights, through preset switches,   *)
(* failures that moved weights to the CPU and engines that failed to       *)
(* build, until close() takes the engine away (_prepare_engine_for,        *)
(* ensure_loaded, _execute_forecast_job).                                  *)
RunsOnItsModel ==
    control # "closed" /\ compute \in {"prepared", "running"} =>
        loaded = PresetOf[job] /\ resident = loaded

(* worker.py:532: whenever health would say ready the weights of the       *)
(* reported preset are on the GPU, and whenever the worker is between      *)
(* telling of a job and answering it, health says busy.                    *)
HealthIsTrue ==
    control # "closed" =>
        /\ HealthMessage = "ready" => resident = loaded
        /\ compute \in Working => HealthMessage = "busy"

(* worker.py:36 and :543: when the compute thread has exited each accepted *)
(* job has been answered, by running it or by failing it.                  *)
AcceptedIsAnswered ==
    compute = "exited" =>
        \A r \in Requests : Was({"accepted"}, r) => Was(Terminal, r)

(* Shutdown, a signal or a fatal error end the process: the compute thread *)
(* drains its queue and close() does not wait for it in vain.              *)
StopCompletes == ~running ~> control = "closed"

(* Time and again all jobs received so far are answered, whatever fails    *)
(* and by a stopping worker too, unless close() gave up on the job that    *)
(* runs (handle_command, _compute_loop, close).                            *)
ReceivedIsAnswered ==
    []<>(\/ control = "closed" /\ compute # "exited"
         \/ \A r \in received : Was(Terminal, r))
=============================================================================
