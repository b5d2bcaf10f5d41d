---------------------------- MODULE MCCoordinator ----------------------------
(* Instances of Coordinator for TLC: two workers, both first set up for    *)
(* preset A, and two or three jobs.                                        *)
EXTENDS Coordinator, TLC

CONSTANTS A, B,       \* presets
          r1, r2, r3, \* requests
          k1          \* the sticky key

(* Worker 1 may load either preset, worker 2 serves only A *)
PoolAccepts == 1 :> {A, B} @@ 2 :> {A}
(* Neither worker lists presets: each serves the one it reports *)
NoLists == [w \in Workers |-> {}]
StartWithA == [w \in Workers |-> A]
OneSlotEach == [w \in Workers |-> 1]
TwoSlotsOnFirst == 1 :> 2 @@ 2 :> 1

OnlyA == [r \in Requests |-> A]
LastWantsB == [r \in Requests |-> IF r = r3 THEN B ELSE A]
NoKeys == [r \in Requests |-> NoKey]
AllShareKey == [r \in Requests |-> k1]
FirstTwoShareKey == [r \in Requests |-> IF r = r3 THEN NoKey ELSE k1]

(* r1 and r2 want the same preset with the same key in every instance *)
Alike == Permutations({r1, r2})
(* and all three are the same where there is one preset and no or one key *)
AllAlike == Permutations({r1, r2, r3})

(* Bound of the live run: a client that shuts the coordinator down has sent *)
(* one job at most.  What live claims is about runs that keep serving, and  *)
(* those the bound leaves whole.                                            *)
ShutsDownEarly == serving \/ Len(submitted) <= 1
=============================================================================
