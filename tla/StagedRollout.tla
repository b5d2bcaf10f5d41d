---------------------------- MODULE StagedRollout ----------------------------
(***************************************************************************)
(* A rollout whose model is spread over several GPUs: the stages of        *)
(* flash_aurora/engine/distributed/rollout_pipeline.py, the decoder split  *)
(* over two of them (decoder_spatial.py) and the copy of each prediction   *)
(* to the host for its export (egress/offload.py).                         *)
(*                                                                         *)
(* The host runs the program in order, but most of what it does is to      *)
(* append work to streams.  A stream does its work in order; two streams   *)
(* run side by side unless one was told to wait for the other.  A tensor   *)
(* is abstracted to whether it holds what the program means it to hold,    *)
(* and the release of its memory is left out: the allocator hands it out   *)
(* again in the order of the stream that owned it.                         *)
(***************************************************************************)
EXTENDS Integers, Sequences, SequencesExt

CONSTANTS
    Plans,        \* the ParallelPlans to try
    RolloutSteps

Stages == {"encoder", "backbone", "decoder"}

(* Only a plan that decodes where the backbone runs, and encodes           *)
(* elsewhere, splits its decoder (plan.py:233-237).                        *)
StagedAssumption ==
    /\ RolloutSteps \in Nat
    /\ \A p \in Plans : p.spatial =>
           p.decoder = p.backbone /\ p.encoder # p.backbone

Main(device) == <<device, "main">>
Side(device) == <<device, "side">>  \* torch.cuda.Stream of the split decoder
Egress(p) == <<p.encoder, "egress">>
Devices == UNION {{p[stage] : stage \in Stages} : p \in Plans}
Streams == Devices \X {"main", "side", "egress"}

Roles == {"batch", "latent", "arrived", "deep", "west", "east", "local",
          "halfWest", "halfEast", "eastHere", "history", "decoded", "result",
          "owned"}
(* A tensor of a step; every step makes new ones *)
Tensors == Roles \X (1 .. RolloutSteps)

VARIABLES
    plan,
    at,     \* the instruction the host is at
    work,   \* what each stream has still to do
    ended,  \* how much of its work each stream has done
    tensor  \* what each tensor holds

vars == <<plan, at, work, ended, tensor>>

-----------------------------------------------------------------------------
(* Instructions of the host                                                *)

Launch(stream, reads, written) ==
    << [do |-> "launch", on |-> stream, reads |-> reads, writes |-> written] >>
Wait(stream, other) == << [do |-> "wait", on |-> stream, for |-> other] >>
Join(stream) == << [do |-> "join", on |-> stream] >>
When(condition, instructions) == IF condition THEN instructions ELSE <<>>

(* Tensor.to another device runs between the streams that are current on   *)
(* both, which wait for each other; on the same device nothing is copied.  *)
Copy(from, to, t, copied) ==
    Wait(from, to) \o Launch(from, {t}, copied) \o Wait(to, from)

-----------------------------------------------------------------------------
(* The program of a step, stage by stage                                   *)

EncoderStage(p, s) ==
    Launch(Main(p.encoder), {<<"batch", s>>}, <<"latent", s>>)

BackboneStage(p, s) ==
    LET x == IF p.backbone = p.encoder THEN <<"latent", s>> ELSE <<"arrived", s>>
    IN  When(p.backbone # p.encoder,
             Copy(Main(p.encoder), Main(p.backbone), <<"latent", s>>, x))
        \o Launch(Main(p.backbone), {x}, <<"deep", s>>)

UnifiedDecoder(p, s) ==
    LET x == IF p.decoder = p.backbone THEN <<"deep", s>> ELSE <<"local", s>>
        batch == IF p.decoder = p.encoder THEN <<"batch", s>> ELSE <<"history", s>>
    IN  When(p.decoder # p.backbone,
             Copy(Main(p.backbone), Main(p.decoder), <<"deep", s>>, x))
        \o When(p.decoder # p.encoder,
                Copy(Main(p.encoder), Main(p.decoder), <<"batch", s>>, batch))
        \o Launch(Main(p.decoder), {x, batch}, <<"decoded", s>>)
        \o IF p.decoder = p.encoder
           THEN Launch(Main(p.encoder), {<<"decoded", s>>}, <<"result", s>>)
           ELSE Copy(Main(p.decoder), Main(p.encoder), <<"decoded", s>>, <<"result", s>>)

(* The first time a device sees the pressure levels they are copied to it, *)
(* and that copy holds the host until its stream has done it.              *)
ColdLevels(s, stream) == When(s = 1, Join(stream))

(* Mutant: only the last launched half is awaited *)
EastReady(p) == Join(Side(p.backbone))

HalvesReady(p) == Join(Side(p.encoder)) \o Join(Side(p.backbone))

(* The western half goes to the encoder's device.  The eastern half stays  *)
(* where the backbone ran: no copy, and nothing that makes the side stream *)
(* wait for the main one.                                                  *)
SplitDecoder(p, s) ==
    Launch(Main(p.backbone), {<<"deep", s>>}, <<"west", s>>)
    \o Launch(Main(p.backbone), {<<"deep", s>>}, <<"east", s>>)
    \o Copy(Main(p.backbone), Side(p.encoder), <<"west", s>>, <<"local", s>>)
    \o ColdLevels(s, Side(p.encoder))
    \o Launch(Side(p.encoder), {<<"local", s>>}, <<"halfWest", s>>)
    \o ColdLevels(s, Side(p.backbone))
    \o Launch(Side(p.backbone), {<<"east", s>>}, <<"halfEast", s>>)
    \o HalvesReady(p)
    \o Copy(Main(p.backbone), Main(p.encoder), <<"halfEast", s>>, <<"eastHere", s>>)
    \o Launch(Main(p.encoder), {<<"halfWest", s>>, <<"eastHere", s>>}, <<"decoded", s>>)
    \o Join(Main(p.encoder))
    \o Launch(Main(p.encoder), {<<"decoded", s>>, <<"batch", s>>}, <<"result", s>>)

DecoderStage(p, s) == IF p.spatial THEN SplitDecoder(p, s) ELSE UnifiedDecoder(p, s)

(* Mutant: the egress stream is not told to wait *)
EgressAtOnce(p, s) ==
    Launch(Egress(p), {<<"result", s>>}, <<"owned", s>>) \o Join(Egress(p))

(* EgressOffloader: the copy waits for the prediction, the host for it     *)
EgressCopy(p, s) ==
    Wait(Egress(p), Main(p.encoder))
    \o Launch(Egress(p), {<<"result", s>>}, <<"owned", s>>)
    \o Join(Egress(p))

Advance(p, s) ==
    When(s < RolloutSteps,
         Launch(Main(p.encoder), {<<"batch", s>>, <<"result", s>>}, <<"batch", s + 1>>))

Program(p) ==
    FlattenSeq([s \in 1 .. RolloutSteps |->
        EncoderStage(p, s) \o BackboneStage(p, s) \o DecoderStage(p, s)
        \o EgressCopy(p, s) \o Advance(p, s)])

-----------------------------------------------------------------------------
TypeOK ==
    /\ plan \in Plans
    /\ at \in 1 .. Len(Program(plan)) + 1
    /\ ended \in [Streams -> Nat]
    /\ DOMAIN work = Streams
    /\ tensor \in [Tensors -> {"none", "right", "wrong"}]

Init ==
    /\ plan \in Plans
    /\ at = 1
    /\ work = [stream \in Streams |-> <<>>]
    /\ ended = [stream \in Streams |-> 0]
    /\ tensor = [t \in Tensors |-> IF t = <<"batch", 1>> THEN "right" ELSE "none"]

(* An event that is waited for stands for the work appended so far *)
Enqueue(i) ==
    LET stream == i.on
        item == IF i.do = "launch"
                THEN [reads |-> i.reads, writes |-> {i.writes}, for |-> stream, until |-> 0]
                ELSE [reads |-> {}, writes |-> {}, for |-> i.for,
                      until |-> ended[i.for] + Len(work[i.for])]
    IN work' = [work EXCEPT ![stream] = Append(@, item)]

Host ==
    /\ at <= Len(Program(plan))
    /\ LET i == Program(plan)[at]
       IN IF i.do = "join"
          THEN work[i.on] = <<>> /\ UNCHANGED work
          ELSE Enqueue(i)
    /\ at' = at + 1
    /\ UNCHANGED <<plan, ended, tensor>>

(* Work that reads a tensor before it is there computes something else *)
Stream(stream) ==
    /\ work[stream] # <<>>
    /\ LET item == Head(work[stream])
       IN /\ ended[item.for] >= item.until
          /\ tensor' = [t \in Tensors |->
                IF t \notin item.writes THEN tensor[t]
                ELSE IF \A r \in item.reads : tensor[r] = "right" THEN "right"
                ELSE "wrong"]
    /\ work' = [work EXCEPT ![stream] = Tail(@)]
    /\ ended' = [ended EXCEPT ![stream] = @ + 1]
    /\ UNCHANGED <<plan, at>>

Next == Host \/ \E stream \in Streams : Stream(stream)

Spec == Init /\ [][Next]_vars

-----------------------------------------------------------------------------
(* Properties.                                                             *)

(* A rollout on one, two or three devices whose decoder is in one piece    *)
(* hands the export the prediction of each step, never one that was read   *)
(* before a stage of it was through, however the streams interleave.       *)
UnifiedExportsItsSteps ==
    ~plan.spatial =>
        \A s \in 1 .. RolloutSteps : tensor[<<"owned", s>>] # "wrong"

(* With the decoder split, the western half and the merge of the two are   *)
(* in order: a prediction can be wrong only through its eastern half, or   *)
(* because the step before was.                                            *)
OnlyTheEastHalfRaces ==
    plan.spatial =>
        \A s \in 1 .. RolloutSteps :
            tensor[<<"owned", s>>] = "wrong" =>
                "wrong" \in {tensor[<<"halfEast", s>>], tensor[<<"batch", s>>]}

(* tests/engine/test_decoder_spatial.py:72: split and unified decoding of  *)
(* the same tokens agree, so the steps that are exported are right with    *)
(* either.                                                                 *)
ExportsItsSteps == \A s \in 1 .. RolloutSteps : tensor[<<"owned", s>>] # "wrong"
=============================================================================
