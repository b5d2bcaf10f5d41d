-------------------------------- MODULE MCNode --------------------------------
(* Instances of Node for TLC *)
EXTENDS Node, TLC

CONSTANTS analysis, day, e, \* a request, its key and its entry, prepared by
          pid1, pid2,       \* two processes, who are children of a program too
          c1, c2, r1, r2    \* clients and requests

(* Two members of an ensemble and a rollout of another job *)
OneEnsemble == <<1, 1, 2>>
MembersPooled == <<TRUE, TRUE, FALSE>>
MembersAsk == <<"a", "a", NoDir>>

(* One entry, at which the processes meet with one input or with two, as   *)
(* they would with two requests that share it                              *)
TheDay == analysis :> day
TheEntry == analysis :> e
OldInputs == analysis :> "old"

(* All shapes of a plan, on one to three devices *)
Placed(encoder, backbone, decoder, spatial) ==
    [encoder |-> encoder, backbone |-> backbone, decoder |-> decoder, spatial |-> spatial]
AllShapes == {Placed(0, 0, 0, FALSE), Placed(0, 1, 0, FALSE), Placed(0, 1, 1, FALSE),
              Placed(0, 1, 2, FALSE), Placed(0, 1, 1, TRUE)}

(* What presets and defaults give, and modes whose steps differ with the   *)
(* graph that minds the step; one has the guard off.                       *)
Setting(mode, scope, guard) == [mode |-> mode, scope |-> scope, guard |-> guard]
UsualSettings == {Setting("single", "off", FALSE), Setting("single", "backbone", TRUE),
                  Setting("from_second", "full_gpu", TRUE), Setting("all", "full_gpu", TRUE)}

(* Images that fit the windows, with and without padding, or are smaller,  *)
(* and that are odd or even before and after they are halved               *)
SmallImages == {2, 4} \X {3, 5, 8} \X {3, 4, 6, 7}
SmallWindow == <<2, 4, 2>>
===============================================================================
