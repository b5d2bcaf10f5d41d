----------------------------- MODULE EngineProofs -----------------------------
(***************************************************************************)
(* What an engine's flags say of its model, and the LoRA layers its        *)
(* forward passes apply, for all settings, lengths and generators.         *)
(*                                                                         *)
(* TypeOK is not inductive: that a forward pass finds its instance on a    *)
(* device needs HeldInv, that neither the engine nor a suspended generator *)
(* has an instance that was freed.                                         *)
(***************************************************************************)
EXTENDS Engine, TLAPS

(* Who may still run an instance finds it: a freed one belongs to nobody.  *)
HeldInv ==
    /\ model # 0 => place[model] # "gone"
    /\ \A g \in Generators :
          stream[g].state = "running" =>
              stream[g].of \in Models /\ place[stream[g].of] # "gone"

Places == {"gone", "gpu", "cpu"}

-----------------------------------------------------------------------------
(* Operators.                                                              *)

(* The steps of the engine, one disjunct each.                             *)
LEMMA Steps ==
    [Next]_vars =>
        \/ \E steps \in Lengths : Load(steps)
        \/ \E steps \in Lengths : PrepareResident(steps)
        \/ \E steps \in Lengths : PrepareAnew(steps)
        \/ \E iters \in MoreIters : WarmUp(iters)
        \/ Predict
        \/ ReleaseGpu
        \/ Close
        \/ \E g \in Generators, steps \in Lengths : RolloutStream(g, steps)
        \/ \E g \in Generators :
              Begin(g) \/ BeginFails(g) \/ Advance(g) \/ AdvanceFails(g) \/ EndStream(g)
        \/ UNCHANGED vars
  BY DEF Next, Rollout

(* A layer is a number, whatever the mode.                                 *)
LEMMA LayerIsNat ==
    ASSUME config.mode \in Modes, EngineAssumption, NEW step \in Nat
    PROVE  LayerFor(step) \in Nat
  BY DEF LayerFor, Modes, EngineAssumption

(* Freeing what nobody has leaves an instance where it is, or frees it.    *)
LEMMA SettledType ==
    ASSUME NEW m, NEW streams, NEW at \in [Models -> Places]
    PROVE  /\ Settled(m, streams, at) \in [Models -> Places]
           /\ m \in Models => Settled(m, streams, at)[m] = at[m]
           /\ \A g \in Generators :
                 streams[g].state = "running" /\ streams[g].of \in Models =>
                     Settled(m, streams, at)[streams[g].of] = at[streams[g].of]
  BY DEF Settled, Places

(* A warm-up captures a graph of its model, or graphs are off.             *)
LEMMA CapturedType ==
    ASSUME graph \in [Models -> Nat \cup {-1}], NEW m \in Models, NEW iters \in Nat
    PROVE  /\ Captured(m, iters) \in [Models -> Nat \cup {-1}]
           /\ config.scope # "off" => Captured(m, iters)[m] = iters
           /\ \A n \in Models : Captured(m, iters)[n] \in {graph[n], iters}
           /\ config.scope = "off" => Captured(m, iters) = graph
  BY DEF Captured

(* The streams after one ended: the others are as they were.               *)
LEMMA OverType ==
    ASSUME stream \in [Generators -> Stream], NEW g \in Generators
    PROVE  /\ Over(g) \in [Generators -> Stream]
           /\ Over(g)[g].state = "over"
           /\ \A h \in Generators : h # g => Over(g)[h] = stream[h]
  <1>1. stream[g] \in Stream
    OBVIOUS
  <1>2. Over(g) = [stream EXCEPT ![g] = [stream[g] EXCEPT !.state = "over", !.of = 0,
                                                         !.batch = "none", !.step = 0]]
    BY DEF Over
  <1>3. [stream[g] EXCEPT !.state = "over", !.of = 0, !.batch = "none", !.step = 0]
        \in Stream
    BY <1>1 DEF Stream
  <1>4. [stream[g] EXCEPT !.state = "over", !.of = 0, !.batch = "none", !.step = 0].state
        = "over"
    BY <1>1 DEF Stream
  <1> QED
    BY <1>2, <1>3, <1>4

(* A ticket is kept, or taken for the steps asked for if the guard is on.  *)
LEMMA AcquiredType ==
    ASSUME lease \in Lengths \cup {0}, NEW steps \in Lengths, EngineAssumption
    PROVE  Acquired(steps) \in Lengths \cup {0} /\ (config.guard => Acquired(steps) # 0)
  BY DEF Acquired, EngineAssumption

(* A forward pass of an instance on a device is one.                       *)
LEMMA RunsType ==
    ASSUME TypeOK, EngineAssumption, graph' \in [Models -> Nat \cup {-1}],
           NEW m \in Models, place[m] # "gone", NEW step \in Nat, Runs(m, step)
    PROVE  ran' \in Forward
  <1>1. config.mode \in Modes
    BY DEF TypeOK, EngineAssumption
  <1>2. (IF CanReplay(m, step) THEN graph'[m] ELSE step) \in Nat
    BY DEF CanReplay
  <1>3. LayerFor(IF CanReplay(m, step) THEN graph'[m] ELSE step) \in Nat
    BY <1>1, <1>2, LayerIsNat
  <1>4. place[m] \in {"gpu", "cpu"}
    BY DEF TypeOK
  <1> QED
    BY <1>3, <1>4 DEF Runs, Forward

(* Each instance is somewhere, the engine's own among them.                *)
LEMMA PlaceType ==
    EngineAssumption /\ TypeOK =>
        place \in [Models -> Places] /\ (model # 0 => model \in Models)
  <1>1. TypeOK => place \in [Models -> Places]
    BY DEF TypeOK, Places
  <1>2. EngineAssumption /\ TypeOK => (model # 0 => model \in Models)
    BY DEF EngineAssumption, TypeOK, Models
  <1> QED
    BY <1>1, <1>2

(* Releasing the GPU leaves the instances where they are or on the host.   *)
LEMMA ReleaseType ==
    ASSUME EngineAssumption, TypeOK, Release
    PROVE  /\ place' \in [Models -> Places]
           /\ \A m \in Models : place[m] # "gone" => place'[m] # "gone"
           /\ lease' = 0 /\ model' = model /\ loads' = loads /\ resident' = FALSE
           /\ model # 0 => place'[model] = "cpu"
  <1>1. place \in [Models -> Places] /\ (model # 0 => model \in Models)
    BY PlaceType
  <1>2. place' = [m \in Models |-> IF m = model THEN "cpu" ELSE place[m]]
    BY DEF Release
  <1>3. /\ place' \in [Models -> Places]
        /\ \A m \in Models : place[m] # "gone" => place'[m] # "gone"
        /\ model # 0 => place'[model] = "cpu"
    BY <1>1, <1>2 DEF Places
  <1> QED
    BY <1>3 DEF Release

-----------------------------------------------------------------------------
(* Types, and that nobody runs what was freed.                             *)

TypedInv == TypeOK /\ HeldInv

(* An engine begins with no instance and no rollout.                       *)
LEMMA TypedInit == EngineAssumption /\ Init => TypedInv
  <1> SUFFICES ASSUME EngineAssumption, Init PROVE TypedInv
    OBVIOUS
  <1>1. PICK length \in Lengths :
           stream = [g \in Generators |->
                       [state |-> "over", of |-> 0, batch |-> "none",
                        length |-> length, step |-> 0]]
    BY DEF Init
  <1>2. /\ stream \in [Generators -> Stream]
        /\ \A g \in Generators : stream[g].state = "over"
    BY <1>1 DEF Stream
  <1>3. place \in [Models -> {"gone", "gpu", "cpu"}] /\ graph \in [Models -> Nat \cup {-1}]
    BY DEF Init
  <1>4. ran \in Forward
    BY DEF Init, Forward
  <1>5. {resident, warmed, closed} \subseteq BOOLEAN
    BY DEF Init
  <1>6. /\ config \in Settings /\ lease \in Lengths \cup {0}
        /\ loads \in 0 .. MaxLoads /\ model \in 0 .. loads /\ model = 0
    BY DEF EngineAssumption, Init
  <1> QED
    BY <1>2, <1>3, <1>4, <1>5, <1>6 DEF TypedInv, TypeOK, HeldInv

(* No operation or rollout frees what it or another still has.             *)
LEMMA TypedStep ==
    ASSUME EngineAssumption, TypedInv, [Next]_vars
    PROVE  TypedInv'
  <1>0. TypeOK /\ HeldInv
    BY DEF TypedInv
  <1>p. place \in [Models -> Places] /\ (model # 0 => model \in Models)
    BY <1>0, PlaceType
  <1>t. /\ loads \in 0 .. MaxLoads /\ model \in 0 .. loads /\ MaxLoads \in Nat
        /\ stream \in [Generators -> Stream]
        /\ graph \in [Models -> Nat \cup {-1}]
        /\ lease \in Lengths \cup {0}
        /\ WarmupIters \in Nat
        /\ \A iters \in MoreIters : iters \in Nat
    BY <1>0 DEF TypeOK, EngineAssumption
  (* What an operation does to the instances, if the rollouts stay *)
  <1>a. ASSUME stream' = stream, config' = config, ran' = ran,
               lease' \in Lengths \cup {0},
               loads' \in 0 .. MaxLoads, model' \in 0 .. loads',
               place' \in [Models -> Places],
               graph' \in [Models -> Nat \cup {-1}],
               {resident', warmed', closed'} \subseteq BOOLEAN,
               model' # 0 => place'[model'] # "gone",
               \A g \in Generators :
                  stream[g].state = "running" => place'[stream[g].of] # "gone"
        PROVE  TypedInv'
    BY <1>a DEF TypedInv, TypeOK, HeldInv, Places
  (* Releasing the GPU is one of them *)
  <1>g. \A m, iters \in Nat : Captured(m, iters) \in [Models -> Nat \cup {-1}]
    BY <1>t DEF Captured
  <1>b. ASSUME Release, UNCHANGED <<config, closed, stream, ran>>,
               graph' = graph, warmed' = warmed
        PROVE  TypedInv'
    <2>1. /\ place' \in [Models -> Places]
          /\ \A m \in Models : place[m] # "gone" => place'[m] # "gone"
          /\ lease' = 0 /\ model' = model /\ loads' = loads /\ resident' = FALSE
          /\ model # 0 => place'[model] = "cpu"
      BY <1>0, <1>b, ReleaseType
    <2>2. {resident', warmed', closed'} \subseteq BOOLEAN
      BY <1>0, <1>b, <2>1 DEF TypeOK
    <2>3. \A g \in Generators :
             stream[g].state = "running" => place'[stream[g].of] # "gone"
      BY <1>0, <2>1 DEF HeldInv
    <2> QED
      BY <1>a, <1>b, <1>t, <2>1, <2>2, <2>3
  <1>w. ASSUME graph' = IF warmed THEN graph ELSE Captured(model, WarmupIters)
        PROVE  graph' \in [Models -> Nat \cup {-1}]
    BY <1>g, <1>t, <1>w
  (* What the end of a rollout does, if what is still had is kept *)
  <1>o. ASSUME NEW g \in Generators, stream' = Over(g),
               UNCHANGED <<config, model, loads, graph, warmed, closed, ran>>,
               lease' \in Lengths \cup {0},
               resident' \in {resident, FALSE},
               place' \in [Models -> Places],
               model # 0 => place'[model] # "gone",
               \A h \in Generators :
                  h # g /\ stream[h].state = "running" => place'[stream[h].of] # "gone"
        PROVE  TypedInv'
    <2>1. /\ stream' \in [Generators -> Stream]
          /\ stream'[g].state = "over"
          /\ \A h \in Generators : h # g => stream'[h] = stream[h]
      BY <1>o, <1>t, OverType
    <2>2. {resident', warmed', closed'} \subseteq BOOLEAN
      BY <1>0, <1>o DEF TypeOK
    <2>3. TypeOK'
      BY <1>0, <1>o, <2>1, <2>2 DEF TypeOK, Places
    <2>4. HeldInv'
      BY <1>0, <1>o, <2>1 DEF HeldInv
    <2> QED
      BY <2>3, <2>4 DEF TypedInv
  <1>e. ASSUME NEW g \in Generators, NEW at \in [Models -> Places],
               \A m \in Models : place[m] # "gone" => at[m] # "gone",
               stream' = Over(g), place' = Settled(model, stream', at)
        PROVE  /\ place' \in [Models -> Places]
               /\ model # 0 => place'[model] # "gone"
               /\ \A h \in Generators :
                     h # g /\ stream[h].state = "running" => place'[stream[h].of] # "gone"
    <2>1. \A h \in Generators : h # g => stream'[h] = stream[h]
      BY <1>e, <1>t, OverType
    <2>2. /\ place' \in [Models -> Places]
          /\ model \in Models => place'[model] = at[model]
          /\ \A h \in Generators :
                stream'[h].state = "running" /\ stream'[h].of \in Models =>
                    place'[stream'[h].of] = at[stream'[h].of]
      BY <1>e, SettledType
    <2> QED
      BY <1>0, <1>e, <1>p, <2>1, <2>2 DEF HeldInv
  <1>1. ASSUME NEW steps \in Lengths, Load(steps)
        PROVE  TypedInv'
    <2>1. CASE Install /\ lease' = Acquired(steps)
      <3>1. /\ loads' = loads + 1 /\ model' = loads + 1 /\ loads + 1 \in Models
            /\ loads' \in 0 .. MaxLoads /\ model' \in 0 .. loads'
            /\ resident' = TRUE /\ warmed' = FALSE
        BY <1>1, <1>t, <2>1 DEF Load, Install, Models
      <3> DEFINE at == [place EXCEPT ![loads + 1] = "gpu"]
      <3>2. at \in [Models -> Places] /\ at[loads + 1] = "gpu"
            /\ \A n \in Models : place[n] # "gone" => at[n] # "gone"
        BY <1>p, <3>1 DEF Places
      <3>3. place' = Settled(loads + 1, stream, at)
        BY <2>1 DEF Install
      <3> HIDE DEF at
      <3>4. /\ place' \in [Models -> Places] /\ place'[loads + 1] = "gpu"
            /\ \A g \in Generators :
                  stream[g].state = "running" => place'[stream[g].of] # "gone"
        BY <1>0, <3>1, <3>2, <3>3, SettledType DEF HeldInv
      <3>5. lease' \in Lengths \cup {0}
        BY <1>t, <2>1, AcquiredType
      <3>6. UNCHANGED <<config, graph, closed, stream, ran>>
        BY <1>1 DEF Load
      <3>7. {resident', warmed', closed'} \subseteq BOOLEAN
        BY <1>0, <3>1, <3>6 DEF TypeOK
      <3> QED
        BY <1>a, <1>t, <3>1, <3>4, <3>5, <3>6, <3>7
    <2>2. CASE Release /\ UNCHANGED warmed
      BY <1>1, <1>b, <2>2 DEF Load
    <2> QED
      BY <1>1, <2>1, <2>2 DEF Load
  <1>2. ASSUME NEW steps \in Lengths, PrepareResident(steps)
        PROVE  TypedInv'
    <2>1. CASE Release /\ UNCHANGED <<graph, warmed>>
      BY <1>2, <1>b, <2>1 DEF PrepareResident
    <2>2. CASE /\ lease' = Acquired(steps)
               /\ graph' = IF warmed THEN graph ELSE Captured(model, WarmupIters)
               /\ warmed' = TRUE
               /\ UNCHANGED <<model, loads, place, resident>>
      <3>1. lease' \in Lengths \cup {0}
        BY <1>t, <2>2, AcquiredType
      <3>2. graph' \in [Models -> Nat \cup {-1}]
        BY <1>t, <1>g, <2>2
      <3>3. UNCHANGED <<config, closed, stream, ran>>
        BY <1>2 DEF PrepareResident
      <3>4. {resident', warmed', closed'} \subseteq BOOLEAN
        BY <1>0, <2>2, <3>3 DEF TypeOK
      <3> QED
        BY <1>0, <1>a, <1>p, <1>t, <2>2, <3>1, <3>2, <3>3, <3>4 DEF HeldInv
    <2> QED
      BY <1>2, <2>1, <2>2 DEF PrepareResident
  <1>3. ASSUME NEW steps \in Lengths, PrepareAnew(steps)
        PROVE  TypedInv'
    <2>1. /\ loads + 1 \in Models /\ loads + 1 \in 0 .. MaxLoads
          /\ loads + 1 \in 0 .. loads + 1 /\ loads + 1 # 0
          /\ 0 \in 0 .. loads
      BY <1>3, <1>t DEF PrepareAnew, Models
    <2>2. Acquired(steps) \in Lengths \cup {0}
      BY <1>t, AcquiredType
    <2>3. Captured(loads + 1, WarmupIters) \in [Models -> Nat \cup {-1}]
      BY <1>g, <1>t
    <2>4. UNCHANGED <<config, closed, stream, ran>>
      BY <1>3 DEF PrepareAnew
    <2>5. ASSUME NEW there \in {"gpu", "cpu"},
                 model' = loads + 1,
                 place' = Settled(model', stream, [place EXCEPT ![model'] = there])
          PROVE  /\ place' \in [Models -> Places] /\ place'[model'] = there
                 /\ \A g \in Generators :
                       stream[g].state = "running" => place'[stream[g].of] # "gone"
      <3> DEFINE at == [place EXCEPT ![loads + 1] = there]
      <3>1. at \in [Models -> Places] /\ at[loads + 1] = there
            /\ \A n \in Models : place[n] # "gone" => at[n] # "gone"
        BY <1>p, <2>1 DEF Places
      <3>2. place' = Settled(loads + 1, stream, at)
        BY <2>5
      <3> HIDE DEF at
      <3>3. /\ place' \in [Models -> Places] /\ place'[loads + 1] = at[loads + 1]
            /\ \A g \in Generators :
                  stream[g].state = "running" /\ stream[g].of \in Models =>
                      place'[stream[g].of] = at[stream[g].of]
        BY <2>1, <3>1, <3>2, SettledType
      <3> QED
        BY <1>0, <2>5, <3>1, <3>3 DEF HeldInv
    <2>6. CASE /\ lease' = Acquired(steps)
               /\ loads' = loads + 1
               /\ model' = loads + 1
               /\ place' = Settled(model', stream, [place EXCEPT ![model'] = "gpu"])
               /\ graph' = Captured(model', WarmupIters)
               /\ resident' = TRUE
               /\ warmed' = TRUE
      <3>1. {resident', warmed', closed'} \subseteq BOOLEAN
        BY <1>0, <2>4, <2>6 DEF TypeOK
      <3> QED
        BY <1>a, <2>1, <2>2, <2>3, <2>4, <2>5, <2>6, <3>1
    <2>7. CASE /\ lease' = 0
               /\ model' = 0
               /\ place' = Settled(0, stream, place)
               /\ UNCHANGED <<loads, graph, resident, warmed>>
      <3>1. {resident', warmed', closed'} \subseteq BOOLEAN
        BY <1>0, <2>4, <2>7 DEF TypeOK
      <3>2. /\ place' \in [Models -> Places]
            /\ \A g \in Generators :
                  stream[g].state = "running" => place'[stream[g].of] # "gone"
        BY <1>0, <1>p, <2>7, SettledType DEF HeldInv
      <3> QED
        BY <1>a, <1>t, <2>1, <2>4, <2>7, <3>1, <3>2
    <2>8. CASE /\ lease' = 0
               /\ loads' = loads + 1
               /\ model' = loads + 1
               /\ place' = Settled(model', stream, [place EXCEPT ![model'] = "cpu"])
               /\ warmed' = FALSE
               /\ UNCHANGED <<graph, resident>>
      <3>1. {resident', warmed', closed'} \subseteq BOOLEAN
        BY <1>0, <2>4, <2>8 DEF TypeOK
      <3> QED
        BY <1>a, <1>t, <2>1, <2>4, <2>5, <2>8, <3>1
    <2> QED
      BY <1>3, <2>6, <2>7, <2>8 DEF PrepareAnew
  <1>4. ASSUME NEW iters \in MoreIters, WarmUp(iters)
        PROVE  TypedInv'
    <2>1. graph' \in [Models -> Nat \cup {-1}]
      BY <1>4, <1>g, <1>t DEF WarmUp
    <2>2. warmed' = TRUE /\ UNCHANGED <<config, gpuVars, closed, stream, ran>>
      BY <1>4 DEF WarmUp
    <2>3. {resident', warmed', closed'} \subseteq BOOLEAN
      BY <1>0, <2>2 DEF TypeOK, gpuVars
    <2> QED
      BY <1>0, <1>a, <1>p, <1>t, <2>1, <2>2, <2>3 DEF HeldInv, gpuVars
  <1>5. CASE Predict
    <2>1. /\ model # 0 /\ Runs(model, 0) /\ warmed' = TRUE
          /\ UNCHANGED <<config, lease, model, loads, place, resident, closed, stream>>
      BY <1>5 DEF Predict
    <2>2. graph' \in [Models -> Nat \cup {-1}]
      BY <1>5, <1>w DEF Predict
    <2>3. ran' \in Forward
      BY <1>0, <1>p, <2>1, <2>2, RunsType DEF HeldInv
    <2>4. {resident', warmed', closed'} \subseteq BOOLEAN
      BY <1>0, <2>1 DEF TypeOK
    <2> QED
      BY <1>0, <2>1, <2>2, <2>3, <2>4 DEF TypedInv, TypeOK, HeldInv
  <1>6. CASE ReleaseGpu
    BY <1>6, <1>b DEF ReleaseGpu
  <1>7. CASE Close
    <2>1. /\ closed' = TRUE /\ lease' = 0 /\ model' = 0
          /\ place' = Settled(0, stream, place)
          /\ resident' = FALSE /\ warmed' = FALSE
          /\ UNCHANGED <<config, loads, graph, stream, ran>>
      BY <1>7 DEF Close
    <2>2. /\ place' \in [Models -> Places]
          /\ \A g \in Generators :
                stream[g].state = "running" => place'[stream[g].of] # "gone"
      BY <1>0, <1>p, <2>1, SettledType DEF HeldInv
    <2>3. {resident', warmed', closed'} \subseteq BOOLEAN
      BY <2>1
    <2>4. 0 \in 0 .. loads
      BY <1>t
    <2> QED
      BY <1>a, <1>t, <2>1, <2>2, <2>3, <2>4
  <1>8. ASSUME NEW g \in Generators, NEW steps \in Lengths, RolloutStream(g, steps)
        PROVE  TypedInv'
    <2> DEFINE fresh == [state |-> "new", of |-> 0, batch |-> "none",
                         length |-> steps, step |-> 0]
    <2>1. fresh \in Stream /\ fresh.state = "new"
      BY DEF Stream
    <2>2. stream' = [stream EXCEPT ![g] = fresh]
          /\ UNCHANGED <<config, gpuVars, graph, warmed, closed, ran>>
      BY <1>8 DEF RolloutStream
    <2> HIDE DEF fresh
    <2>3. /\ stream' \in [Generators -> Stream]
          /\ \A h \in Generators : stream'[h].state = "running" => stream'[h] = stream[h]
      BY <1>t, <2>1, <2>2
    <2>4. TypeOK'
      BY <1>0, <2>2, <2>3 DEF TypeOK, gpuVars
    <2>5. HeldInv'
      BY <1>0, <2>2, <2>3 DEF HeldInv, gpuVars
    <2> QED
      BY <2>4, <2>5 DEF TypedInv
  <1>9. ASSUME NEW g \in Generators, Begin(g)
        PROVE  TypedInv'
    <2> DEFINE begun == [stream[g] EXCEPT !.state = "running", !.of = model,
                                           !.batch = place[model]]
    <2>1. model # 0 /\ model \in Models /\ place[model] \in {"gpu", "cpu"}
      BY <1>0, <1>9, <1>p DEF Begin, HeldInv, Places
    <2>2. stream[g] \in Stream
      BY <1>t
    <2>3. begun \in Stream /\ begun.of = model
      BY <2>1, <2>2 DEF Stream
    <2>4. /\ stream' = [stream EXCEPT ![g] = begun]
          /\ lease' = Acquired(stream[g].length)
          /\ warmed' = TRUE
          /\ UNCHANGED <<config, model, loads, place, resident, closed, ran>>
      BY <1>9 DEF Begin
    <2> HIDE DEF begun
    <2>5. /\ stream' \in [Generators -> Stream]
          /\ \A h \in Generators : stream'[h] = stream[h] \/ stream'[h].of = model
      BY <1>t, <2>3, <2>4
    <2>6. graph' \in [Models -> Nat \cup {-1}]
      BY <1>9, <1>w DEF Begin
    <2>7. stream[g].length \in Lengths
      BY <2>2 DEF Stream
    <2>8. lease' \in Lengths \cup {0}
      BY <1>t, <2>4, <2>7, AcquiredType
    <2>9. {resident', warmed', closed'} \subseteq BOOLEAN
      BY <1>0, <2>4 DEF TypeOK
    <2>10. TypeOK'
      BY <1>0, <2>4, <2>5, <2>6, <2>8, <2>9 DEF TypeOK
    <2>11. HeldInv'
      BY <1>0, <2>1, <2>4, <2>5 DEF HeldInv
    <2> QED
      BY <2>10, <2>11 DEF TypedInv
  <1>10. ASSUME NEW g \in Generators, BeginFails(g)
         PROVE  TypedInv'
    <2>1. stream' = Over(g) /\ UNCHANGED <<config, graph, warmed, closed, ran>>
      BY <1>10 DEF BeginFails
    <2>2. CASE /\ lease' \in {lease, Acquired(stream[g].length)}
               /\ UNCHANGED <<model, loads, place, resident>>
      <3>1. stream[g].length \in Lengths
        BY <1>t DEF Stream
      <3>2. lease' \in Lengths \cup {0}
        BY <1>t, <2>2, <3>1, AcquiredType
      <3> QED
        BY <1>0, <1>o, <1>p, <2>1, <2>2, <3>2 DEF HeldInv
    <2>3. CASE Release
      <3>1. /\ place' \in [Models -> Places]
            /\ \A m \in Models : place[m] # "gone" => place'[m] # "gone"
            /\ lease' = 0 /\ model' = model /\ loads' = loads /\ resident' = FALSE
            /\ model # 0 => place'[model] = "cpu"
        BY <1>0, <2>3, ReleaseType
      <3>2. \A h \in Generators :
               stream[h].state = "running" => place'[stream[h].of] # "gone"
        BY <1>0, <3>1 DEF HeldInv
      <3> QED
        BY <1>o, <2>1, <3>1, <3>2
    <2> QED
      BY <1>10, <2>2, <2>3 DEF BeginFails
  <1>11. ASSUME NEW g \in Generators, Advance(g)
         PROVE  TypedInv'
    <2> DEFINE next == [stream[g] EXCEPT !.step = @ + 1]
    <2>1. /\ stream[g].state = "running" /\ Runs(stream[g].of, stream[g].step)
          /\ stream' = [stream EXCEPT ![g] = next]
          /\ UNCHANGED <<config, gpuVars, graph, warmed, closed>>
      BY <1>11 DEF Advance
    <2>2. stream[g] \in Stream
      BY <1>t
    <2>3. next \in Stream /\ next.state = stream[g].state /\ next.of = stream[g].of
      BY <2>2 DEF Stream
    <2> HIDE DEF next
    <2>4. /\ stream' \in [Generators -> Stream]
          /\ \A h \in Generators :
                stream'[h].state = stream[h].state /\ stream'[h].of = stream[h].of
      BY <1>t, <2>1, <2>3
    <2>5. stream[g].step \in Nat
      BY <2>2 DEF Stream
    <2>6. ran' \in Forward
      BY <1>0, <1>t, <2>1, <2>5, RunsType DEF HeldInv
    <2>7. TypeOK'
      BY <1>0, <2>1, <2>4, <2>6 DEF TypeOK, gpuVars
    <2>8. HeldInv'
      BY <1>0, <2>1, <2>4 DEF HeldInv, gpuVars
    <2> QED
      BY <2>7, <2>8 DEF TypedInv
  <1>12. ASSUME NEW g \in Generators, AdvanceFails(g)
         PROVE  TypedInv'
    <2> DEFINE at == [m \in Models |-> IF m = model THEN "cpu" ELSE place[m]]
    <2>1. /\ stream' = Over(g) /\ lease' = 0 /\ resident' = FALSE
          /\ place' = Settled(model, stream', at)
          /\ UNCHANGED <<config, model, loads, graph, warmed, closed, ran>>
      BY <1>12 DEF AdvanceFails
    <2>2. at \in [Models -> Places] /\ \A m \in Models : place[m] # "gone" => at[m] # "gone"
      BY <1>p DEF Places
    <2> HIDE DEF at
    <2> QED
      BY <1>e, <1>o, <2>1, <2>2
  <1>13. ASSUME NEW g \in Generators, EndStream(g)
         PROVE  TypedInv'
    <2>1. /\ stream' = Over(g)
          /\ place' = Settled(model, stream', place)
          /\ UNCHANGED <<config, lease, model, loads, resident, graph, warmed, closed, ran>>
      BY <1>13 DEF EndStream
    <2> QED
      BY <1>e, <1>o, <1>p, <1>t, <2>1
  <1>14. CASE UNCHANGED vars
    BY <1>14 DEF vars, gpuVars, TypedInv, TypeOK, HeldInv
  <1> QED
    BY <1>1, <1>2, <1>3, <1>4, <1>5, <1>6, <1>7, <1>8, <1>9, <1>10, <1>11, <1>12,
       <1>13, <1>14, Steps

(* An engine leads its instances and rollouts through the states they      *)
(* have: no forward pass is of an instance that was freed.                 *)
THEOREM EngineTypeCorrect == EngineAssumption => (Spec => []TypeOK)
  <1> SUFFICES ASSUME EngineAssumption PROVE Spec => []TypeOK
    OBVIOUS
  <1>1. Init => TypedInv
    BY TypedInit
  <1>2. TypedInv /\ [Next]_vars => TypedInv'
    BY TypedStep
  <1>3. TypedInv => TypeOK
    BY DEF TypedInv
  <1> QED
    BY <1>1, <1>2, <1>3, PTL DEF Spec

(* No suspended rollout, and not the engine, has an instance that was      *)
(* freed, though a new one is loaded, or the engine closed, meanwhile.     *)
THEOREM NobodyRunsTheFreed == EngineAssumption => (Spec => []HeldInv)
  <1> SUFFICES ASSUME EngineAssumption PROVE Spec => []HeldInv
    OBVIOUS
  <1>1. Init => TypedInv
    BY TypedInit
  <1>2. TypedInv /\ [Next]_vars => TypedInv'
    BY TypedStep
  <1>3. TypedInv => HeldInv
    BY DEF TypedInv
  <1> QED
    BY <1>1, <1>2, <1>3, PTL DEF Spec

-----------------------------------------------------------------------------
(* The flags.                                                              *)

(* Whatever an operation does, the flags go with the model.                *)
LEMMA FlagsStep ==
    ASSUME EngineAssumption, TypedInv, FlagsAreTrue, [Next]_vars
    PROVE  FlagsAreTrue'
  <1>0. TypeOK /\ HeldInv
    BY DEF TypedInv
  <1>p. place \in [Models -> Places] /\ (model # 0 => model \in Models)
    BY <1>0, PlaceType
  <1>t. /\ loads \in 0 .. MaxLoads /\ model \in 0 .. loads /\ MaxLoads \in Nat
        /\ stream \in [Generators -> Stream]
        /\ graph \in [Models -> Nat \cup {-1}]
        /\ lease \in Lengths \cup {0}
        /\ WarmupIters \in Nat
        /\ \A iters \in MoreIters : iters \in Nat
    BY <1>0 DEF TypeOK, EngineAssumption
  <1>l. config.guard => \A steps \in Lengths : Acquired(steps) # 0
    BY <1>t, AcquiredType
  (* Warming up captures a graph of the model there is *)
  <1>c. ASSUME NEW m \in Models, NEW iters \in Nat, config.scope # "off"
        PROVE  Captured(m, iters)[m] # -1
    BY <1>c, <1>t, CapturedType
  <1>w. ASSUME graph' = IF warmed THEN graph ELSE Captured(model, WarmupIters),
               config' = config, model' = model, model # 0, config.scope # "off"
        PROVE  graph'[model'] # -1
    BY <1>c, <1>p, <1>t, <1>w DEF FlagsAreTrue
  (* Releasing the GPU *)
  <1>b. ASSUME Release, config' = config, graph' = graph, warmed' = warmed
        PROVE  FlagsAreTrue'
    <2>1. /\ resident' = FALSE /\ model' = model
          /\ model # 0 => place'[model] = "cpu"
      BY <1>0, <1>b, ReleaseType
    <2> QED
      BY <1>b, <2>1 DEF FlagsAreTrue
  (* Leaving the model where it is *)
  <1>k. ASSUME UNCHANGED <<config, model, resident>>,
               model # 0 => place'[model] = place[model],
               resident /\ config.guard => lease' # 0,
               model # 0 /\ warmed' /\ config.scope # "off" => graph'[model] # -1
        PROVE  FlagsAreTrue'
    BY <1>k DEF FlagsAreTrue
  <1>1. ASSUME NEW steps \in Lengths, Load(steps)
        PROVE  FlagsAreTrue'
    <2>1. CASE Install /\ lease' = Acquired(steps)
      <3>1. /\ model' = loads + 1 /\ loads + 1 \in Models /\ loads + 1 # 0
            /\ resident' = TRUE /\ warmed' = FALSE /\ config' = config
        BY <1>1, <1>t, <2>1 DEF Load, Install, Models
      <3> DEFINE at == [place EXCEPT ![loads + 1] = "gpu"]
      <3>2. at \in [Models -> Places] /\ at[loads + 1] = "gpu"
        BY <1>p, <3>1 DEF Places
      <3>3. place' = Settled(loads + 1, stream, at)
        BY <2>1 DEF Install
      <3> HIDE DEF at
      <3>4. place'[loads + 1] = "gpu"
        BY <3>1, <3>2, <3>3, SettledType
      <3> QED
        BY <1>l, <2>1, <3>1, <3>4 DEF FlagsAreTrue
    <2>2. CASE Release /\ UNCHANGED warmed
      BY <1>1, <1>b, <2>2 DEF Load
    <2> QED
      BY <1>1, <2>1, <2>2 DEF Load
  <1>2. ASSUME NEW steps \in Lengths, PrepareResident(steps)
        PROVE  FlagsAreTrue'
    <2>1. CASE Release /\ UNCHANGED <<graph, warmed>>
      BY <1>2, <1>b, <2>1 DEF PrepareResident
    <2>2. CASE /\ lease' = Acquired(steps)
               /\ graph' = IF warmed THEN graph ELSE Captured(model, WarmupIters)
               /\ warmed' = TRUE
               /\ UNCHANGED <<model, loads, place, resident>>
      <3>1. UNCHANGED config
        BY <1>2 DEF PrepareResident
      <3>2. model # 0 /\ config.scope # "off" => graph'[model] # -1
        BY <1>w, <2>2, <3>1
      <3> QED
        BY <1>k, <1>l, <2>2, <3>1, <3>2
    <2> QED
      BY <1>2, <2>1, <2>2 DEF PrepareResident
  <1>3. ASSUME NEW steps \in Lengths, PrepareAnew(steps)
        PROVE  FlagsAreTrue'
    <2>1. loads + 1 \in Models /\ loads + 1 # 0 /\ resident = FALSE /\ config' = config
      BY <1>0, <1>3, <1>t DEF PrepareAnew, Models, TypeOK
    <2>2. ASSUME NEW there \in {"gpu", "cpu"},
                 model' = loads + 1,
                 place' = Settled(model', stream, [place EXCEPT ![model'] = there])
          PROVE  place'[model'] = there
      <3> DEFINE at == [place EXCEPT ![loads + 1] = there]
      <3>1. at \in [Models -> Places] /\ at[loads + 1] = there
        BY <1>p, <2>1 DEF Places
      <3>2. place' = Settled(loads + 1, stream, at)
        BY <2>2
      <3> HIDE DEF at
      <3>3. place'[loads + 1] = at[loads + 1]
        BY <2>1, <3>1, <3>2, SettledType
      <3> QED
        BY <2>2, <3>1, <3>3
    <2>3. CASE /\ lease' = Acquired(steps)
               /\ loads' = loads + 1
               /\ model' = loads + 1
               /\ place' = Settled(model', stream, [place EXCEPT ![model'] = "gpu"])
               /\ graph' = Captured(model', WarmupIters)
               /\ resident' = TRUE
               /\ warmed' = TRUE
      <3>1. place'[model'] = "gpu"
        BY <2>2, <2>3
      <3>2. config.scope # "off" => graph'[model'] # -1
        BY <1>c, <1>t, <2>1, <2>3
      <3> QED
        BY <1>l, <2>1, <2>3, <3>1, <3>2 DEF FlagsAreTrue
    <2>4. CASE model' = 0 /\ resident' = resident
      BY <2>1, <2>4 DEF FlagsAreTrue
    <2>5. CASE /\ model' = loads + 1
               /\ place' = Settled(model', stream, [place EXCEPT ![model'] = "cpu"])
               /\ warmed' = FALSE
               /\ resident' = resident
      <3>1. place'[model'] = "cpu"
        BY <2>2, <2>5
      <3> QED
        BY <2>1, <2>5, <3>1 DEF FlagsAreTrue
    <2> QED
      BY <1>3, <2>3, <2>4, <2>5 DEF PrepareAnew
  <1>4. ASSUME NEW iters \in MoreIters, WarmUp(iters)
        PROVE  FlagsAreTrue'
    <2>1. /\ model # 0 /\ graph' = Captured(model, iters)
          /\ UNCHANGED <<config, lease, model, place, resident>>
      BY <1>4 DEF WarmUp, gpuVars
    <2>2. config.scope # "off" => graph'[model] # -1
      BY <1>c, <1>p, <1>t, <2>1
    <2> QED
      BY <1>k, <2>1, <2>2 DEF FlagsAreTrue
  <1>5. CASE Predict
    <2>1. /\ model # 0
          /\ graph' = IF warmed THEN graph ELSE Captured(model, WarmupIters)
          /\ UNCHANGED <<config, lease, model, place, resident>>
      BY <1>5 DEF Predict
    <2>2. config.scope # "off" => graph'[model] # -1
      BY <1>w, <2>1
    <2> QED
      BY <1>k, <2>1, <2>2 DEF FlagsAreTrue
  <1>6. CASE ReleaseGpu
    BY <1>6, <1>b DEF ReleaseGpu
  <1>7. CASE Close
    BY <1>7 DEF Close, FlagsAreTrue
  <1>8. ASSUME NEW g \in Generators, NEW steps \in Lengths, RolloutStream(g, steps)
        PROVE  FlagsAreTrue'
    BY <1>8 DEF RolloutStream, gpuVars, FlagsAreTrue
  <1>9. ASSUME NEW g \in Generators, Begin(g)
        PROVE  FlagsAreTrue'
    <2>1. /\ model # 0 /\ lease' = Acquired(stream[g].length)
          /\ graph' = IF warmed THEN graph ELSE Captured(model, WarmupIters)
          /\ UNCHANGED <<config, model, place, resident>>
      BY <1>9 DEF Begin
    <2>2. stream[g].length \in Lengths
      BY <1>t DEF Stream
    <2>3. config.scope # "off" => graph'[model] # -1
      BY <1>w, <2>1
    <2> QED
      BY <1>k, <1>l, <2>1, <2>2, <2>3
  <1>10. ASSUME NEW g \in Generators, BeginFails(g)
         PROVE  FlagsAreTrue'
    <2>1. UNCHANGED <<config, graph, warmed>>
      BY <1>10 DEF BeginFails
    <2>2. CASE /\ lease' \in {lease, Acquired(stream[g].length)}
               /\ UNCHANGED <<model, loads, place, resident>>
      <3>1. config.guard => Acquired(stream[g].length) # 0
        BY <1>l, <1>t DEF Stream
      <3> QED
        BY <1>k, <2>1, <2>2, <3>1 DEF FlagsAreTrue
    <2>3. CASE Release
      BY <1>b, <2>1, <2>3
    <2> QED
      BY <1>10, <2>2, <2>3 DEF BeginFails
  <1>11. ASSUME NEW g \in Generators, Advance(g)
         PROVE  FlagsAreTrue'
    BY <1>11 DEF Advance, gpuVars, FlagsAreTrue
  <1>12. ASSUME NEW g \in Generators, AdvanceFails(g)
         PROVE  FlagsAreTrue'
    <2> DEFINE at == [m \in Models |-> IF m = model THEN "cpu" ELSE place[m]]
    <2>1. /\ resident' = FALSE /\ place' = Settled(model, stream', at)
          /\ UNCHANGED <<config, model, graph, warmed>>
      BY <1>12 DEF AdvanceFails
    <2>2. at \in [Models -> Places] /\ (model # 0 => at[model] = "cpu")
      BY <1>p DEF Places
    <2> HIDE DEF at
    <2>3. model # 0 => place'[model] = "cpu"
      BY <1>p, <2>1, <2>2, SettledType
    <2> QED
      BY <2>1, <2>3 DEF FlagsAreTrue
  <1>13. ASSUME NEW g \in Generators, EndStream(g)
         PROVE  FlagsAreTrue'
    <2>1. /\ place' = Settled(model, stream', place)
          /\ UNCHANGED <<config, lease, model, resident, graph, warmed>>
      BY <1>13 DEF EndStream
    <2>2. model # 0 => place'[model] = place[model]
      BY <1>p, <2>1, SettledType
    <2> QED
      BY <1>k, <2>1, <2>2 DEF FlagsAreTrue
  <1>14. CASE UNCHANGED vars
    BY <1>14 DEF vars, gpuVars, FlagsAreTrue
  <1> QED
    BY <1>1, <1>2, <1>3, <1>4, <1>5, <1>6, <1>7, <1>8, <1>9, <1>10, <1>11, <1>12,
       <1>13, <1>14, Steps

(* _model_on_device says just that the model is on the GPU, and then there *)
(* is a ticket; _forward_warmed says that the instance there is now has    *)
(* its graph: after every failure, release, reload and rollout.            *)
THEOREM EngineFlagsAreTrue == EngineAssumption => (Spec => []FlagsAreTrue)
  <1> SUFFICES ASSUME EngineAssumption PROVE Spec => []FlagsAreTrue
    OBVIOUS
  <1>1. Init => TypedInv
    BY TypedInit
  <1>2. TypedInv /\ [Next]_vars => TypedInv'
    BY TypedStep
  <1>3. Init => FlagsAreTrue
    BY DEF Init, FlagsAreTrue
  <1>4. TypedInv /\ FlagsAreTrue /\ [Next]_vars => FlagsAreTrue'
    BY FlagsStep
  <1> QED
    BY <1>1, <1>2, <1>3, <1>4, PTL DEF Spec

-----------------------------------------------------------------------------
(* LoRA layers.                                                            *)

(* What the graph of the backbone asks of the settings: it replays the     *)
(* layer it was captured with, so that layer has to be every step's        *)
(* (cuda_graph.py:194), and it is captured before the layers end.          *)
ReplaySuits ==
    \A s \in Settings :
        s.scope = "backbone" =>
            /\ s.mode = "single"
            /\ \A iters \in MoreIters \cup {WarmupIters} : iters < LoraSteps

GraphInv ==
    \A m \in Models :
        /\ config.scope = "backbone" => graph[m] < LoraSteps
        /\ config.scope = "off" => graph[m] = -1

LayerInv == GraphInv /\ AppliesItsLayer

(* A step captures at most one graph and makes at most one forward pass,   *)
(* which sees the graph the step leaves.                                   *)
LEMMA PassAndCapture ==
    ASSUME EngineAssumption, TypedInv, FlagsAreTrue, [Next]_vars
    PROVE  /\ config' = config
           /\ \/ graph' = graph
              \/ \E m \in Models, iters \in MoreIters \cup {WarmupIters} :
                    graph' = Captured(m, iters)
           /\ ran' = ran \/ \E m \in Models, step \in Nat : Runs(m, step)
  <1>0. TypeOK /\ HeldInv
    BY DEF TypedInv
  <1>p. model # 0 => model \in Models
    BY <1>0, PlaceType
  <1>t. /\ loads \in 0 .. MaxLoads /\ MaxLoads \in Nat
        /\ stream \in [Generators -> Stream]
    BY <1>0 DEF TypeOK, EngineAssumption
  <1> DEFINE Captures == \/ graph' = graph
                         \/ \E m \in Models, iters \in MoreIters \cup {WarmupIters} :
                               graph' = Captured(m, iters)
             Passes == ran' = ran \/ \E m \in Models, step \in Nat : Runs(m, step)
             Goal == config' = config /\ Captures /\ Passes
  <1>1. ASSUME NEW steps \in Lengths, Load(steps) PROVE Goal
    BY <1>1 DEF Load
  <1>2. ASSUME NEW steps \in Lengths, PrepareResident(steps) PROVE Goal
    <2>1. resident => model # 0
      BY DEF FlagsAreTrue
    <2> QED
      BY <1>2, <1>p, <2>1 DEF PrepareResident
  <1>3. ASSUME NEW steps \in Lengths, PrepareAnew(steps) PROVE Goal
    <2>1. loads + 1 \in Models
      BY <1>3, <1>t DEF PrepareAnew, Models
    <2> QED
      BY <1>3, <2>1 DEF PrepareAnew
  <1>4. ASSUME NEW iters \in MoreIters, WarmUp(iters) PROVE Goal
    BY <1>4, <1>p DEF WarmUp
  <1>5. CASE Predict
    <2>1. 0 \in Nat
      OBVIOUS
    <2> QED
      BY <1>5, <1>p, <2>1 DEF Predict
  <1>6. CASE ReleaseGpu
    BY <1>6 DEF ReleaseGpu
  <1>7. CASE Close
    BY <1>7 DEF Close
  <1>8. ASSUME NEW g \in Generators, NEW steps \in Lengths, RolloutStream(g, steps) PROVE Goal
    BY <1>8 DEF RolloutStream
  <1>9. ASSUME NEW g \in Generators, Begin(g) PROVE Goal
    BY <1>9, <1>p DEF Begin
  <1>10. ASSUME NEW g \in Generators, BeginFails(g) PROVE Goal
    BY <1>10 DEF BeginFails
  <1>11. ASSUME NEW g \in Generators, Advance(g) PROVE Goal
    <2>1. stream[g].of \in Models /\ stream[g].step \in Nat
      BY <1>0, <1>11, <1>t DEF Advance, HeldInv, Stream
    <2> QED
      BY <1>11, <2>1 DEF Advance
  <1>12. ASSUME NEW g \in Generators, AdvanceFails(g) PROVE Goal
    BY <1>12 DEF AdvanceFails
  <1>13. ASSUME NEW g \in Generators, EndStream(g) PROVE Goal
    BY <1>13 DEF EndStream
  <1>14. CASE UNCHANGED vars
    BY <1>14 DEF vars
  <1> QED
    BY <1>1, <1>2, <1>3, <1>4, <1>5, <1>6, <1>7, <1>8, <1>9, <1>10, <1>11, <1>12,
       <1>13, <1>14, Steps

(* Graphs are captured, and replayed, at steps that have their layer.      *)
LEMMA LayerStep ==
    ASSUME EngineAssumption, ReplaySuits, TypedInv, FlagsAreTrue, LayerInv, [Next]_vars
    PROVE  LayerInv'
  <1>1. /\ config \in Settings /\ config.mode \in Modes /\ config.scope \in Scopes
        /\ graph \in [Models -> Nat \cup {-1}]
        /\ graph' \in [Models -> Nat \cup {-1}]
        /\ LoraSteps \in Nat
        /\ \A iters \in MoreIters \cup {WarmupIters} : iters \in Nat
        /\ config' = config
    <2>1. TypeOK /\ TypeOK'
      BY TypedStep DEF TypedInv
    <2>2. config' = config
      BY PassAndCapture
    <2> QED
      BY <2>1, <2>2 DEF TypeOK, EngineAssumption
  <1>2. GraphInv'
    <2>1. CASE graph' = graph
      BY <1>1, <2>1 DEF LayerInv, GraphInv
    <2>2. ASSUME NEW n \in Models, NEW iters \in MoreIters \cup {WarmupIters},
                 graph' = Captured(n, iters)
          PROVE  GraphInv'
      <3>1. \A m \in Models : graph'[m] \in {graph[m], iters}
        BY <1>1, <2>2, CapturedType
      <3>2. config.scope = "off" => graph' = graph
        BY <1>1, <2>2, CapturedType
      <3>3. config.scope = "backbone" => iters < LoraSteps
        BY <1>1 DEF ReplaySuits
      <3> QED
        BY <1>1, <3>1, <3>2, <3>3 DEF LayerInv, GraphInv
    <2> QED
      BY <2>1, <2>2, PassAndCapture
  <1>3. AppliesItsLayer'
    <2>1. CASE ran' = ran
      BY <1>1, <2>1 DEF LayerInv, AppliesItsLayer, LayerFor
    <2>2. ASSUME NEW m \in Models, NEW step \in Nat, Runs(m, step),
                 config.scope = "backbone" => step < LoraSteps
          PROVE  LayerFor(IF CanReplay(m, step) THEN graph'[m] ELSE step) = LayerFor(step)
      <3>1. CASE ~CanReplay(m, step)
        BY <3>1
      <3>2. CASE CanReplay(m, step) /\ config.scope = "full_gpu"
        BY <3>2 DEF CanReplay
      <3>3. CASE CanReplay(m, step) /\ config.scope = "off"
        BY <1>1, <1>2, <3>3 DEF CanReplay, GraphInv
      <3>4. CASE CanReplay(m, step) /\ config.scope = "backbone"
        <4>1. graph'[m] < LoraSteps /\ graph'[m] \in Nat /\ step < LoraSteps
          BY <1>1, <1>2, <2>2, <3>4 DEF CanReplay, GraphInv
        <4>2. config.mode = "single"
          BY <1>1, <3>4 DEF ReplaySuits
        <4>3. \A s \in Nat : s < LoraSteps => LayerFor(s) = 1
          BY <1>1, <4>2 DEF LayerFor
        <4> QED
          BY <3>4, <4>1, <4>3
      <3> QED
        BY <1>1, <3>1, <3>2, <3>3, <3>4 DEF Scopes
    <2>3. ASSUME NEW m \in Models, NEW step \in Nat, Runs(m, step)
          PROVE  AppliesItsLayer'
      <3>1. /\ ran'.step = step
            /\ ran'.layer = LayerFor(IF CanReplay(m, step) THEN graph'[m] ELSE step)
        BY <2>3 DEF Runs
      <3>2. (config.scope = "backbone" => step < LoraSteps) => ran'.layer = LayerFor(step)
        BY <2>2, <2>3, <3>1
      <3> QED
        BY <1>1, <3>1, <3>2 DEF AppliesItsLayer, LayerFor
    <2> QED
      BY <2>1, <2>3, PassAndCapture
  <1> QED
    BY <1>2, <1>3 DEF LayerInv

(* Before the first request no model is captured and none has run.         *)
LEMMA LayerInit == EngineAssumption /\ Init => LayerInv
  <1> SUFFICES ASSUME EngineAssumption, Init PROVE LayerInv
    OBVIOUS
  <1>1. \A m \in Models : graph[m] = -1
    BY DEF Init
  <1>2. LoraSteps \in Nat /\ ran.on = "none"
    BY DEF Init, EngineAssumption
  <1> QED
    BY <1>1, <1>2 DEF LayerInv, GraphInv, AppliesItsLayer

(* "Replay is valid across rollout steps when LoRA is step-invariant       *)
(* (lora_mode='single')" (cuda_graph.py:194): where the settings of the    *)
(* backbone's graph are such, every forward pass applies the layer of its  *)
(* own rollout step, replayed or not.  Without that the claim is false:    *)
(* can_replay drops the step it is asked about.                            *)
THEOREM EngineAppliesItsLayer ==
    EngineAssumption /\ ReplaySuits => (Spec => []AppliesItsLayer)
  <1> SUFFICES ASSUME EngineAssumption, ReplaySuits PROVE Spec => []AppliesItsLayer
    OBVIOUS
  <1>1. Init => LayerInv
    BY LayerInit
  <1>2. Init => TypedInv
    BY TypedInit
  <1>3. TypedInv /\ [Next]_vars => TypedInv'
    BY TypedStep
  <1>4. TypedInv /\ FlagsAreTrue /\ LayerInv /\ [Next]_vars => LayerInv'
    BY LayerStep
  <1>5. LayerInv => AppliesItsLayer
    BY DEF LayerInv
  <1> QED
    BY <1>1, <1>2, <1>3, <1>4, <1>5, EngineFlagsAreTrue, PTL DEF Spec
=============================================================================
