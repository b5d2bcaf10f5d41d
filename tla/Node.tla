--------------------------------- MODULE Node ---------------------------------
(***************************************************************************)
(* The parts of an inference node that share no state, side by side: a     *)
(* behaviour is one of part `part`, and the others stay as they began.     *)
(***************************************************************************)
EXTENDS StepExport

CONSTANTS
    Procs, IngestRequests, Keys, KeyOf, Files, FileOf, Contents, FirstInput,
    MaxChanges, None, Error,                                         \* IcCache
    Plans, RolloutSteps,                                             \* StagedRollout
    Settings, LoraSteps, WarmupIters, MoreIters, Lengths, Generators, MaxLoads, \* Engine
    Resolutions, Window, Layers, Stochastic,                         \* Backbone
    Children,                                                        \* Reclaim
    Clients, Requests, MaxProgress, MaxExtra, MaxParties             \* Client

VARIABLES
    part,
    input, changes, pt, meta, ptTmp, metaTmp, pc, request, asked, built, stamp, open, answer,
    hindered, spoilt,
    plan, at, work, ended, tensor,
    config, lease, model, loads, place, graph, resident, warmed, closed, stream, ran,
    stochastic, patches, layer, res, skips, context, saved,
    proc, leads, socket, ending, left, cleanup, stale, scan, orphans, victim, killed, listed,
    link, call, commands, inbox, outbox, extra, submitter, told, got, disturbed

cacheVars == <<input, changes, pt, meta, ptTmp, metaTmp, pc, request, asked, built, stamp,
               open, answer, hindered, spoilt>>
stagedVars == <<plan, at, work, ended, tensor>>
engineVars == <<config, lease, model, loads, place, graph, resident, warmed,
                closed, stream, ran>>
backboneVars == <<stochastic, patches, layer, res, skips, context, saved>>
reclaimVars == <<proc, leads, socket, ending, left, cleanup, stale, scan, orphans,
                 victim, killed, listed>>
clientVars == <<link, call, commands, inbox, outbox, extra, submitter, told, got, disturbed>>

-----------------------------------------------------------------------------
Cache == INSTANCE IcCache
Staged == INSTANCE StagedRollout
Engine == INSTANCE Engine
Swin == INSTANCE Backbone
Down == INSTANCE Reclaim
Peer == INSTANCE Client

ASSUME NodeAssumption ==
    /\ Cache!CacheAssumption
    /\ Staged!StagedAssumption
    /\ Engine!EngineAssumption
    /\ Swin!BackboneAssumption
    /\ Down!ReclaimAssumption
    /\ Peer!ClientAssumption

-----------------------------------------------------------------------------
NodeInit ==
    /\ part \in {"export", "cache", "staged", "engine", "backbone", "reclaim", "client"}
    /\ Init
    /\ Cache!Init
    /\ Staged!Init
    /\ Engine!Init
    /\ Swin!Init
    /\ Down!Init
    /\ Peer!Init
    /\ part # "cache" => pt = [f \in Files |-> None]
    /\ part # "staged" => plan = CHOOSE p \in Plans : TRUE
    /\ part # "engine" =>
           /\ config = CHOOSE c \in Settings : TRUE
           /\ \A g \in Generators : stream[g].length = CHOOSE n \in Lengths : TRUE
    /\ part # "backbone" =>
           /\ patches = CHOOSE p \in Resolutions : p[1] % Window[1] = 0
           /\ stochastic = CHOOSE b \in Stochastic : TRUE
    /\ part # "reclaim" => leads = [c \in Children |-> TRUE]

NodeNext ==
    /\ \/ /\ part = "export"
          /\ Next
          /\ UNCHANGED <<cacheVars, stagedVars, engineVars, backboneVars, reclaimVars, clientVars>>
       \/ /\ part = "cache"
          /\ Cache!Next
          /\ UNCHANGED <<vars, stagedVars, engineVars, backboneVars, reclaimVars, clientVars>>
       \/ /\ part = "staged"
          /\ Staged!Next
          /\ UNCHANGED <<vars, cacheVars, engineVars, backboneVars, reclaimVars, clientVars>>
       \/ /\ part = "engine"
          /\ Engine!Next
          /\ UNCHANGED <<vars, cacheVars, stagedVars, backboneVars, reclaimVars, clientVars>>
       \/ /\ part = "backbone"
          /\ Swin!Next
          /\ UNCHANGED <<vars, cacheVars, stagedVars, engineVars, reclaimVars, clientVars>>
       \/ /\ part = "reclaim"
          /\ Down!Next
          /\ UNCHANGED <<vars, cacheVars, stagedVars, engineVars, backboneVars, clientVars>>
       \/ /\ part = "client"
          /\ Peer!Next
          /\ UNCHANGED <<vars, cacheVars, stagedVars, engineVars, backboneVars, reclaimVars>>
    /\ UNCHANGED part

nodeVars == <<part, vars, cacheVars, stagedVars, engineVars, backboneVars, reclaimVars,
              clientVars>>
NodeSpec == NodeInit /\ [][NodeNext]_nodeVars

-----------------------------------------------------------------------------
(* Properties.  Each is that of a part, where the code is named that it is *)
(* about.                                                                  *)

(* Each part keeps its types, in the behaviours that are about it.         *)
NodeTypeOK ==
    /\ part = "export" => TypeOK
    /\ part = "cache" => Cache!TypeOK
    /\ part = "staged" => Staged!TypeOK
    /\ part = "engine" => Engine!TypeOK
    /\ part = "backbone" => Swin!TypeOK
    /\ part = "reclaim" => Down!TypeOK
    /\ part = "client" => Peer!TypeOK

(* A batch that a lookup returns from an entry that is not spoilt is of    *)
(* the key and of the inputs it was asked for.  (ic_cache.py)              *)
UnspoiltReplaysExactBatch == Cache!UnspoiltReplaysExactBatch

(* A rollout over several devices, with the decoder in one piece, exports  *)
(* no step that was read before a stage of it was through.  (pipeline.py)  *)
UnifiedExportsItsSteps == Staged!UnifiedExportsItsSteps

(* With the decoder split, a step is wrong only through its eastern half.  *)
(* (decoder_spatial.py)                                                    *)
OnlyTheEastHalfRaces == Staged!OnlyTheEastHalfRaces

(* With the decoder split, no step is wrong.  (decoder_spatial.py)         *)
ExportsItsSteps == Staged!ExportsItsSteps

(* What the flags and the ticket of an engine say is so, whatever failed,  *)
(* was released or is loaded anew.  (engine.py)                            *)
FlagsAreTrue == Engine!FlagsAreTrue

(* Each step of a rollout, replayed from a graph or not, applies the LoRA  *)
(* layer meant for it.  (cuda_graph.py)                                    *)
AppliesItsLayer == Engine!AppliesItsLayer

(* Each layer of the decoder gets an image of the size that the encoder    *)
(* layer of its level left.  (swin3d.py)                                   *)
LayersMeet == part = "backbone" => Swin!LayersMeet

(* The fused kernels and the reference take each token to the same window  *)
(* and back to its place.  (triton_swin3d_layout.py)                       *)
LayoutsAgree == part = "backbone" => Swin!LayoutsAgree

(* In a shifted block, places that may communicate are near each other on  *)
(* the globe.  (swin3d.py)                                                 *)
MaskFollowsTheGlobe == part = "backbone" => Swin!MaskFollowsTheGlobe

(* Who has brought processes down may rely on it, whatever others did      *)
(* meanwhile.  (processes.py)                                              *)
StoppedAreDown == Down!StoppedAreDown

(* What a scan lists as killed does not go on running.  (supervisor.py)    *)
KilledAreDown == Down!KilledAreDown

(* A client that does nothing else meanwhile is handed all that its peer   *)
(* has said of its request, in order.  (client.py)                         *)
ForecastIsComplete == Peer!ForecastIsComplete
===============================================================================
