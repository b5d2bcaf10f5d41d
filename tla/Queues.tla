-------------------------------- MODULE Queues --------------------------------
(***************************************************************************)
(* What the comprehension [x for x in queue if x in those] returns, as the *)
(* code writes it wherever a queue is cleared of some of its items.        *)
(*                                                                         *)
(* It is SelectSeq with a set instead of a test, defined by a function, so *)
(* that it can be reasoned about.                                          *)
(***************************************************************************)
EXTENDS Integers, Sequences

(* What is kept of the first n items *)
KeptOf(queue, those) ==
    LET kept[n \in 0 .. Len(queue)] ==
            IF n = 0 THEN <<>>
            ELSE IF queue[n] \in those THEN Append(kept[n - 1], queue[n])
            ELSE kept[n - 1]
    IN  kept

Only(queue, those) == KeptOf(queue, those)[Len(queue)]
=============================================================================
