------------------------------ MODULE MCGpuGuard ------------------------------
(* Instances of GpuGuard for TLC: three processes, two of which run two    *)
(* jobs each.  One lease may grow to become exclusive, an exclusive one    *)
(* may grow beyond what the budget leaves beside others; two exclusive     *)
(* jobs would fit into the budget together.                                *)
EXTENDS GpuGuard, TLC

CONSTANTS p1, p2, p3, \* processes
          a, b,       \* jobs of p1: a small and an exclusive one
          c, d,       \* jobs of p2: both exclusive, the second one larger
          e           \* the small job of p3

Processes == a :> p1 @@ b :> p1 @@ c :> p2 @@ d :> p2 @@ e :> p3
Needs == a :> 2 @@ b :> 4 @@ c :> 4 @@ d :> 7 @@ e :> 2

(* Only is the library's SelectSeq *)
OnlySelects ==
    \A those \in SUBSET Pids, n \in 0 .. 4 : \A pids \in [1 .. n -> Pids] :
        Only(pids, those) = SelectSeq(pids, LAMBDA p : p \in those)
ASSUME OnlySelects
===============================================================================
