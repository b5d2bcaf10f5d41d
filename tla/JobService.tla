------------------------------ MODULE JobService ------------------------------
(***************************************************************************)
(* What the scheduler promises its clients, whatever it is made of: a job  *)
(* waits, is run by one worker that is not down and has a slot for it, and *)
(* is settled once and for all.  Losing a worker settles the jobs it ran.  *)
(* Late answers of a worker that was given up are no step of this          *)
(* specification: they may not disturb it.                                 *)
(***************************************************************************)
EXTENDS Integers, FiniteSets

CONSTANTS Workers, Requests, SlotsOf

VARIABLES
    waiting,  \* jobs no worker has
    active,   \* the jobs each worker is held responsible for
    settled,  \* jobs a client has an answer for
    down      \* workers given up

vars == <<waiting, active, settled, down>>

Init ==
    /\ waiting = {}
    /\ active = [w \in Workers |-> {}]
    /\ settled = {}
    /\ down = {}

Known == waiting \cup settled \cup UNION {active[w] : w \in Workers}

Accept(r) ==
    /\ r \notin Known
    /\ waiting' = waiting \cup {r}
    /\ UNCHANGED <<active, settled, down>>

(* At once, or after the last worker that could have run it went down *)
Refuse(r) ==
    /\ r \notin Known \/ (r \in waiting /\ down # {})
    /\ waiting' = waiting \ {r}
    /\ settled' = settled \cup {r}
    /\ UNCHANGED <<active, down>>

Assign(r, w) ==
    /\ r \in waiting
    /\ w \notin down
    /\ Cardinality(active[w]) < SlotsOf[w]
    /\ waiting' = waiting \ {r}
    /\ active' = [active EXCEPT ![w] = @ \cup {r}]
    /\ UNCHANGED <<settled, down>>

Settle(r, w) ==
    /\ r \in active[w]
    /\ active' = [active EXCEPT ![w] = @ \ {r}]
    /\ settled' = settled \cup {r}
    /\ UNCHANGED <<waiting, down>>

Lose(w) ==
    /\ w \notin down
    /\ down' = down \cup {w}
    /\ settled' = settled \cup active[w]
    /\ active' = [active EXCEPT ![w] = {}]
    /\ UNCHANGED waiting

Rejoin(w) ==
    /\ w \in down
    /\ down' = down \ {w}
    /\ UNCHANGED <<waiting, active, settled>>

Next ==
    \/ \E r \in Requests : Accept(r) \/ Refuse(r)
    \/ \E w \in Workers : Lose(w) \/ Rejoin(w)
    \/ \E r \in Requests, w \in Workers : Assign(r, w) \/ Settle(r, w)

Spec == Init /\ [][Next]_vars
=============================================================================
