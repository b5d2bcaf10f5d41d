-------------------------------- MODULE Engine --------------------------------
(***************************************************************************)
(* One AuroraEngine of flash_aurora/engine/core/engine.py in its process,  *)
(* on one device: the GPU ticket, the model instances and where they are,  *)
(* the flags that stand for them, the CUDA graph an instance carries, and  *)
(* the rollouts, which are generators: nothing of one runs before it is    *)
(* asked for its first prediction, and one may be left suspended.          *)
(*                                                                         *)
(* A ticket is abstracted to the rollout length it was given for, and a    *)
(* forward pass to the LoRA layer it applies.                              *)
(***************************************************************************)
EXTENDS Integers

CONSTANTS
    Settings,    \* LoRA modes, scopes of CUDA graphs, and the GPU guard, on or off
    LoraSteps,   \* lora_steps: from here on no layer applies
    WarmupIters, \* config.forward_warmup_iters
    MoreIters,   \* what warmup is asked for
    Lengths,     \* lengths of rollouts
    Generators,  \* the rollouts a caller holds
    MaxLoads     \* bound: how many instances of the model are loaded

Modes == {"single", "from_second", "all"}
Scopes == {"off", "backbone", "full_gpu"}
Models == 1 .. MaxLoads

EngineAssumption ==
    /\ Settings \subseteq [mode : Modes, scope : Scopes, guard : BOOLEAN]
    /\ LoraSteps \in Nat
    /\ WarmupIters \in Nat \ {0}
    /\ MoreIters \subseteq Nat \ {0}
    /\ Lengths \subseteq Nat \ {0}
    /\ MaxLoads \in Nat

VARIABLES
    config,   \* of the settings
    lease,    \* _gpu_ticket: the steps it is for, 0 without one
    model,    \* _model, 0 without one
    loads,    \* instances loaded so far
    place,    \* where an instance is
    graph,    \* the rollout step the graph of an instance was captured at, or -1
    resident, \* _model_on_device
    warmed,   \* _forward_warmed
    closed,   \* _closed
    stream,   \* the generators
    ran       \* the last forward pass

gpuVars == <<lease, model, loads, place, resident>>
vars == <<config, gpuVars, graph, warmed, closed, stream, ran>>

Stream == [state : {"new", "running", "over"}, of : Models \cup {0},
           batch : {"none", "gpu", "cpu"}, length : Lengths, step : Nat]
Forward == [on : {"none", "gpu", "cpu"}, step : Nat, layer : Nat]

TypeOK ==
    /\ config \in Settings
    /\ lease \in Lengths \cup {0}
    /\ loads \in 0 .. MaxLoads
    /\ model \in 0 .. loads
    /\ place \in [Models -> {"gone", "gpu", "cpu"}]
    /\ graph \in [Models -> Nat \cup {-1}]
    /\ {resident, warmed, closed} \subseteq BOOLEAN
    /\ stream \in [Generators -> Stream]
    /\ ran \in Forward

Init ==
    /\ config \in Settings
    /\ lease = 0
    /\ model = 0
    /\ loads = 0
    /\ place = [m \in Models |-> "gone"]
    /\ graph = [m \in Models |-> -1]
    /\ resident = FALSE
    /\ warmed = FALSE
    /\ closed = FALSE
    /\ \E length \in Lengths :
          stream = [g \in Generators |->
                       [state |-> "over", of |-> 0, batch |-> "none",
                        length |-> length, step |-> 0]]
    /\ ran = [on |-> "none", step |-> 0, layer |-> 0]

-----------------------------------------------------------------------------
(* Forward passes.                                                         *)

(* LoRARollout.layer_for_step, counted from 1; 0 is no layer *)
LayerFor(step) ==
    CASE step >= LoraSteps -> 0
      [] step < LoraSteps /\ config.mode = "single" -> 1
      [] step < LoraSteps /\ config.mode = "from_second" -> IF step = 0 THEN 0 ELSE 1
      [] step < LoraSteps /\ config.mode = "all" -> step + 1

(* Mutant: a graph of the whole model is replayed at any step *)
CanReplayAnyStep(m, step) == graph'[m] # -1

(* can_replay: the graph of the backbone wants its input on the device, of *)
(* whatever step; that of the whole model wants its step                   *)
CanReplay(m, step) ==
    /\ graph'[m] # -1
    /\ config.scope = "backbone" => place[m] = "gpu"
    /\ config.scope = "full_gpu" => step = graph'[m]

(* Aurora.forward.  A replay of the whole model copies a batch that is on  *)
(* the host to the device, which raises.                                   *)
Runs(m, step) ==
    /\ config.scope = "full_gpu" /\ CanReplay(m, step) => place[m] = "gpu"
    /\ ran' = [on |-> place[m], step |-> step,
               layer |-> LayerFor(IF CanReplay(m, step) THEN graph'[m] ELSE step)]

-----------------------------------------------------------------------------
(* Parts of operations.                                                    *)

(* acquire_gpu: who holds a ticket keeps it; without the guard there is none *)
Acquired(steps) == IF lease = 0 /\ config.guard THEN steps ELSE lease

(* An instance is freed once neither the engine nor a generator has it *)
Settled(m, streams, at) ==
    [n \in Models |->
        IF n = m \/ \E g \in Generators : streams[g].state = "running" /\ streams[g].of = n
        THEN at[n] ELSE "gone"]

(* Mutant: the flag survives the model's move to the host *)
ReleaseKeepsFlag ==
    /\ lease' = 0
    /\ place' = [m \in Models |-> IF m = model THEN "cpu" ELSE place[m]]
    /\ UNCHANGED <<model, loads, resident>>

(* release_gpu *)
Release ==
    /\ lease' = 0
    /\ place' = [m \in Models |-> IF m = model THEN "cpu" ELSE place[m]]
    /\ resident' = FALSE
    /\ UNCHANGED <<model, loads>>

(* _load_model_to_device and _install_model *)
Install ==
    /\ loads' = loads + 1
    /\ model' = loads + 1
    /\ place' = Settled(loads + 1, stream, [place EXCEPT ![loads + 1] = "gpu"])
    /\ resident' = TRUE
    /\ warmed' = FALSE

(* GraphPool.warmup: the batch advances with every forward pass, and the   *)
(* graph is captured at the step it has come to.                           *)
Captured(m, iters) ==
    IF config.scope = "off" THEN graph ELSE [graph EXCEPT ![m] = iters]

-----------------------------------------------------------------------------
(* Operations of the caller                                                *)

Load(steps) ==
    /\ loads < MaxLoads
    /\ \/ Install /\ lease' = Acquired(steps)
       \/ Release /\ UNCHANGED warmed  \* the ticket or the weights fail
    /\ UNCHANGED <<config, graph, closed, stream, ran>>

(* prepare, with the model at hand.  A failure of the batch or the warmup  *)
(* releases the GPU, one to get a ticket does not.                         *)
PrepareResident(steps) ==
    /\ resident
    /\ \/ /\ lease' = Acquired(steps)
          /\ graph' = IF warmed THEN graph ELSE Captured(model, WarmupIters)
          /\ warmed' = TRUE
          /\ UNCHANGED <<model, loads, place, resident>>
       \/ Release /\ UNCHANGED <<graph, warmed>>
    /\ UNCHANGED <<config, closed, stream, ran>>

(* The stale instance goes first.  The new one is warmed up as it comes.   *)
PrepareAnew(steps) ==
    /\ ~resident
    /\ loads < MaxLoads
    /\ \/ /\ lease' = Acquired(steps)
          /\ loads' = loads + 1
          /\ model' = loads + 1
          /\ place' = Settled(model', stream, [place EXCEPT ![model'] = "gpu"])
          /\ graph' = Captured(model', WarmupIters)
          /\ resident' = TRUE
          /\ warmed' = TRUE
       \/ /\ lease' = 0  \* the batch or the weights fail
          /\ model' = 0
          /\ place' = Settled(0, stream, place)
          /\ UNCHANGED <<loads, graph, resident, warmed>>
       \/ /\ lease' = 0  \* the warmup fails, after the model was installed
          /\ loads' = loads + 1
          /\ model' = loads + 1
          /\ place' = Settled(model', stream, [place EXCEPT ![model'] = "cpu"])
          /\ warmed' = FALSE
          /\ UNCHANGED <<graph, resident>>
    /\ UNCHANGED <<config, closed, stream, ran>>

(* warmup with a number of its own captures again *)
WarmUp(iters) ==
    /\ model # 0
    /\ place[model] = "gpu" \/ config.scope = "off"
    /\ graph' = Captured(model, iters)
    /\ warmed' = TRUE
    /\ UNCHANGED <<config, gpuVars, closed, stream, ran>>

(* predict asks for no ticket *)
Predict ==
    /\ model # 0
    /\ warmed \/ place[model] = "gpu" \/ config.scope = "off"
    /\ graph' = IF warmed THEN graph ELSE Captured(model, WarmupIters)
    /\ warmed' = TRUE
    /\ Runs(model, 0)
    /\ UNCHANGED <<config, lease, model, loads, place, resident, closed, stream>>

ReleaseGpu ==
    /\ Release
    /\ UNCHANGED <<config, graph, warmed, closed, stream, ran>>

(* close moves nothing, it drops the model *)
Close ==
    /\ closed' = TRUE
    /\ lease' = 0
    /\ model' = 0
    /\ place' = Settled(0, stream, place)
    /\ resident' = FALSE
    /\ warmed' = FALSE
    /\ UNCHANGED <<config, loads, graph, stream, ran>>

-----------------------------------------------------------------------------
(* Rollouts                                                                *)

RolloutStream(g, steps) ==
    /\ stream[g].state = "over"
    /\ stream' = [stream EXCEPT ![g] =
                     [state |-> "new", of |-> 0, batch |-> "none", length |-> steps, step |-> 0]]
    /\ UNCHANGED <<config, gpuVars, graph, warmed, closed, ran>>

Over(g) == [stream EXCEPT ![g].state = "over", ![g].of = 0, ![g].batch = "none", ![g].step = 0]

(* The first prediction is asked for.  Only what follows the warmup is     *)
(* guarded: before, an exception leaves the ticket.                        *)
Begin(g) ==
    /\ stream[g].state = "new"
    /\ lease' = Acquired(stream[g].length)
    /\ model # 0
    /\ warmed \/ place[model] = "gpu" \/ config.scope = "off"
    /\ graph' = IF warmed THEN graph ELSE Captured(model, WarmupIters)
    /\ warmed' = TRUE
    /\ stream' = [stream EXCEPT ![g].state = "running", ![g].of = model,
                               ![g].batch = place[model]]
    /\ UNCHANGED <<config, model, loads, place, resident, closed, ran>>

BeginFails(g) ==
    /\ stream[g].state = "new"
    /\ stream' = Over(g)
    /\ \/ lease' \in {lease, Acquired(stream[g].length)} /\ UNCHANGED <<model, loads, place, resident>>
       \/ model = 0 /\ warmed /\ Release
    /\ UNCHANGED <<config, graph, warmed, closed, ran>>

(* One more prediction; a batch has to find the weights where it is *)
Advance(g) ==
    /\ stream[g].state = "running"
    /\ stream[g].step < stream[g].length
    /\ place[stream[g].of] = stream[g].batch
    /\ UNCHANGED graph
    /\ Runs(stream[g].of, stream[g].step)
    /\ stream' = [stream EXCEPT ![g].step = @ + 1]
    /\ UNCHANGED <<config, gpuVars, warmed, closed>>

AdvanceFails(g) ==
    /\ stream[g].state = "running"
    /\ stream[g].step < stream[g].length
    /\ stream' = Over(g)
    /\ lease' = 0
    /\ place' = Settled(model, stream', [m \in Models |-> IF m = model THEN "cpu" ELSE place[m]])
    /\ resident' = FALSE
    /\ UNCHANGED <<config, model, loads, graph, warmed, closed, ran>>

(* The last prediction was taken, or the caller stops taking them *)
EndStream(g) ==
    /\ stream[g].state # "over"
    /\ stream' = Over(g)
    /\ place' = Settled(model, stream', place)
    /\ UNCHANGED <<config, lease, model, loads, resident, graph, warmed, closed, ran>>

Rollout(g) ==
    \/ Begin(g) \/ BeginFails(g) \/ Advance(g) \/ AdvanceFails(g) \/ EndStream(g)

(* A closed engine is not used any more, but generators may be left of it *)
Next ==
    \/ /\ ~closed
       /\ \/ \E steps \in Lengths : Load(steps) \/ PrepareResident(steps) \/ PrepareAnew(steps)
          \/ \E iters \in MoreIters : WarmUp(iters)
          \/ Predict
          \/ ReleaseGpu
          \/ Close
          \/ \E g \in Generators, steps \in Lengths : RolloutStream(g, steps)
    \/ \E g \in Generators : Rollout(g)

Spec == Init /\ [][Next]_vars
-----------------------------------------------------------------------------
(* Properties.                                                             *)

(* test_engine_resident_model.py: what the flags and the ticket say is so, *)
(* whatever failed, was released or is loaded anew: _model_on_device is    *)
(* set just when the model is on the GPU, which then is leased unless the  *)
(* guard is off; and who is warm has the graph of the instance it has now, *)
(* not of one before.                                                      *)
FlagsAreTrue ==
    /\ resident <=> model # 0 /\ place[model] = "gpu"
    /\ resident /\ config.guard => lease # 0
    /\ model # 0 /\ warmed /\ config.scope # "off" => graph[model] # -1

(* cuda_graph.py:194 "Replay is valid across rollout steps when LoRA is    *)
(* step-invariant (lora_mode='single')": with or without a graph, a        *)
(* forward pass applies the LoRA layer of its rollout step, but for what   *)
(* the graph of the backbone makes of the steps from LoraSteps on, where   *)
(* LoRA ends in every mode.                                                *)
AppliesItsLayer ==
    ran.on # "none" /\ (config.scope = "backbone" => ran.step < LoraSteps) =>
        ran.layer = LayerFor(ran.step)
=============================================================================
