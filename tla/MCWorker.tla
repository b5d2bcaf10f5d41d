------------------------------- MODULE MCWorker -------------------------------
(* Instances of Worker for TLC: two presets, and two or three jobs.        *)
EXTENDS Worker, TLC

CONSTANTS A, B,       \* presets
          r1, r2, r3  \* requests

SecondWantsB == [r \in Requests |-> IF r = r2 THEN B ELSE A]
=============================================================================
