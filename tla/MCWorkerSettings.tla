--------------------------- MODULE MCWorkerSettings ---------------------------
(* Three settings of Worker side by side, of which a behaviour has one:    *)
(* three jobs that may fail, one of them invalid, and a join that times    *)
(* out; two such jobs and a probe; or two jobs with signals, GPU memory    *)
(* running out, a pipe that blocks and a short queue of events.            *)
EXTENDS MCWorker

VARIABLE setting

TwoJobs == r1 :> A @@ r2 :> B

Unprobed == INSTANCE Worker WITH MaxProbes <- 0

Probed == INSTANCE Worker
    WITH Requests <- {r1, r2}, PresetOf <- TwoJobs, Invalid <- {}

Stopping == INSTANCE Worker
    WITH Requests <- {r1, r2}, PresetOf <- TwoJobs, Invalid <- {},
         MaxQueued <- 2, PipeMayBlock <- TRUE, JobsFail <- FALSE,
         RunsOutOfVram <- TRUE, MaySignal <- TRUE, JoinMayTimeOut <- FALSE, MaxProbes <- 0

(* Steps of the setting a behaviour has *)
Either(ofJobs, ofProbed, ofStopping) ==
    /\ \/ setting = "jobs" /\ ofJobs
       \/ setting = "probed" /\ ofProbed
       \/ setting = "stopping" /\ ofStopping
    /\ UNCHANGED setting

SettingsInit == Init /\ setting \in {"jobs", "probed", "stopping"}

SettingsSpec ==
    /\ SettingsInit
    /\ [][Either(Unprobed!Next, Probed!Next, Stopping!Next)]_<<vars, setting>>
    /\ WF_<<vars, setting>>(Either(Unprobed!ControlStep, Probed!ControlStep,
                                   Stopping!ControlStep))
    /\ WF_<<vars, setting>>(Either(Unprobed!ComputeStep, Probed!ComputeStep,
                                   Stopping!ComputeStep))

(* Of the settings without memory exhaustion; see fatal_accept for the     *)
(* other one.                                                              *)
JobsAreAnswered == setting # "stopping" => AcceptedIsAnswered
JobsReceivedAreAnswered == (setting # "stopping") => ReceivedIsAnswered
=============================================================================
