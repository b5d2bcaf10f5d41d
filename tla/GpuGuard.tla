------------------------------- MODULE GpuGuard -------------------------------
(***************************************************************************)
(* The registry that shares one GPU between processes,                     *)
(* flash_aurora/engine/runtime/gpu_guard.py: a JSON file of leases and     *)
(* waiting processes.  Every access to it is a transaction under a file    *)
(* lock and one action here; the file is replaced by a rename, so a crash  *)
(* leaves it as it was before or after.                                    *)
(*                                                                         *)
(* A job is one call of acquire() with the use of the ticket it returns.   *)
(* Jobs of one process share its lease.  A lease is named by the job that  *)
(* opened it, where the code draws a uuid.  Clocks are left out: a lease   *)
(* is fresh until its process was held up for longer than _STALE_SECONDS.  *)
(***************************************************************************)
EXTENDS Queues, FiniteSets, Functions

CONSTANTS
    Jobs,
    Pids,       \* process ids, never used twice
    NoLease,
    PidOf,      \* the process of a job
    Need,       \* estimate_vram_gib of a job, in units of memory
    Threshold,  \* _EXCLUSIVE_THRESHOLD_GIB
    Total,      \* memory of the GPU
    Budget,     \* the part of it that may be reserved
    CanDie,     \* processes that may be killed
    CanTimeOut, \* jobs whose wait may reach its timeout
    MaxStalls   \* bound: how often a process is held up

(* The preflight of acquire() has refused what exceeds the budget alone    *)
ASSUME GuardAssumption ==
    /\ IsFiniteSet(Jobs)
    /\ PidOf \in [Jobs -> Pids]
    /\ Need \in [Jobs -> Nat \ {0}]
    /\ {Threshold, Total, Budget, MaxStalls} \subseteq Nat
    /\ Budget <= Total
    /\ \A j \in Jobs : Need[j] <= Budget
    /\ NoLease \notin Jobs
    /\ CanDie \subseteq Pids
    /\ CanTimeOut \subseteq Jobs

VARIABLES
    lease,  \* GpuDeviceState.leases: at most one per process is ever opened
    queue,  \* GpuDeviceState.queue
    alive,  \* the process runs
    at,     \* where a job is
    ticket, \* the lease a job holds a ticket for
    stalls  \* what MaxStalls bounds

fileVars == <<lease, queue>>
vars == <<fileVars, alive, at, ticket, stalls>>

Exclusive(j) == Need[j] >= Threshold

States == {"idle", "waiting", "holding", "loaded", "leaving", "done", "timedOut", "dead"}
Lease == [id : Jobs, reserved : Nat \ {0}, exclusive : BOOLEAN,
          holders : Nat \ {0}, fresh : BOOLEAN]

ASSUME LeaseAssumption == NoLease \notin Lease

TypeQueue == queue \in Seq(Pids) /\ IsInjective(queue)

TypeTickets ==
    /\ lease \in [Pids -> Lease \cup {NoLease}]
    /\ alive \in [Pids -> BOOLEAN]
    /\ at \in [Jobs -> States]
    /\ ticket \in [Jobs -> Jobs \cup {NoLease}]
    /\ stalls \in 0 .. MaxStalls

TypeOK == TypeTickets /\ TypeQueue

Init ==
    /\ lease = [p \in Pids |-> NoLease]
    /\ queue = <<>>
    /\ alive = [p \in Pids |-> TRUE]
    /\ at = [j \in Jobs |-> "idle"]
    /\ ticket = [j \in Jobs |-> NoLease]
    /\ stalls = 0

-----------------------------------------------------------------------------
(* What a transaction computes from the file.  Here and below, an operator *)
(* whose comment starts with Mutant is the next one with a plausible       *)
(* mistake; no specification uses it.                                      *)

Holders == {p \in Pids : lease[p] # NoLease}

(* _purge_stale *)
PurgedLeases ==
    [p \in Pids |-> IF p \in Holders /\ alive[p] /\ lease[p].fresh THEN lease[p] ELSE NoLease]

(* Mutant: records of dead processes stay *)
UnpurgedQueue == queue

PurgedQueue == Only(queue, {p \in Pids : alive[p]})

(* _reserved_gib and _has_exclusive_lease, over leases after a purge *)
Others(leases, p) == {q \in Pids \ {p} : leases[q] # NoLease}
Reserved(leases, pids) == SumFunction([p \in pids |-> leases[p].reserved])
ReservedByOthers(leases, p) == Reserved(leases, Others(leases, p))

(* cuda_memory_snapshot: memory is in use until the weights have left it,  *)
(* which is after the ticket is released                                   *)
InUse == SumFunctionOnSet(Need, {j \in Jobs : at[j] \in {"loaded", "leaving"}})
FreeMemory == IF InUse > Total THEN 0 ELSE Total - InUse

(* _can_grant.  Needs exceed half a GiB, so reserved > 0.5 says that there *)
(* is another lease.                                                       *)
CanGrant(leases, j) ==
    LET p == PidOf[j] IN
    /\ Exclusive(j) => \A q \in Others(leases, p) : ~leases[q].exclusive
    /\ ReservedByOthers(leases, p) + Need[j] <= Budget
    /\ IF Exclusive(j) THEN FreeMemory >= Need[j] ELSE 4 * FreeMemory >= 3 * Need[j]

(* Mutant: a process becomes exclusive like one that was alone *)
CanGrowBesideOthers(leases, j) ==
    LET own == leases[PidOf[j]]
        growth == Need[j] - own.reserved
    IN  \/ growth <= 0
        \/ /\ ReservedByOthers(leases, PidOf[j]) + Need[j] <= Budget
           /\ FreeMemory >= growth

(* Mutant: only the growth of the reservation is compared to the budget *)
CanGrowAlone(leases, j) ==
    LET own == leases[PidOf[j]]
        growth == Need[j] - own.reserved
        becomesExclusive == Exclusive(j) /\ ~own.exclusive
    IN  \/ growth <= 0 /\ ~becomesExclusive
        \/ /\ becomesExclusive => Others(leases, PidOf[j]) = {}
           /\ Need[j] <= Budget
           /\ FreeMemory >= growth

(* _can_grow *)
CanGrow(leases, j) ==
    LET own == leases[PidOf[j]]
        growth == Need[j] - own.reserved
        becomesExclusive == Exclusive(j) /\ ~own.exclusive
    IN  \/ growth <= 0 /\ ~becomesExclusive
        \/ /\ becomesExclusive => Others(leases, PidOf[j]) = {}
           /\ ReservedByOthers(leases, PidOf[j]) + Need[j] <= Budget
           /\ FreeMemory >= growth

-----------------------------------------------------------------------------
(* acquire().                                                              *)

Ask(j) ==
    /\ at[j] = "idle" /\ alive[PidOf[j]]
    /\ at' = [at EXCEPT ![j] = "waiting"]
    /\ UNCHANGED <<fileVars, alive, ticket, stalls>>

(* Mutant: the reservation stays at what the first ticket needed *)
SharedSameSize(l, j) ==
    [l EXCEPT !.holders = @ + 1, !.exclusive = @ \/ Exclusive(j), !.fresh = TRUE]

Shared(l, j) ==
    [id |-> l.id,
     reserved |-> IF Need[j] > l.reserved THEN Need[j] ELSE l.reserved,
     exclusive |-> l.exclusive \/ Exclusive(j),
     holders |-> l.holders + 1,
     fresh |-> TRUE]

(* _try_share_own_lease: a process that holds a lease does not queue       *)
PollOwnLease(j) ==
    LET p == PidOf[j] IN
    /\ PurgedLeases[p] # NoLease
    /\ IF CanGrow(PurgedLeases, j)
       THEN /\ lease' = [PurgedLeases EXCEPT ![p] = Shared(@, j)]
            /\ at' = [at EXCEPT ![j] = "holding"]
            /\ ticket' = [ticket EXCEPT ![j] = lease[p].id]
       ELSE /\ lease' = PurgedLeases
            /\ UNCHANGED <<at, ticket>>
    /\ queue' = PurgedQueue

(* Mutant: every poll queues the process once more *)
QueueWithAgain(p) == Append(PurgedQueue, p)

QueueWith(p) == IF p \in Range(PurgedQueue) THEN PurgedQueue ELSE Append(PurgedQueue, p)

(* _try_new_lease: behind the processes that queued before *)
PollNewLease(j) ==
    LET p == PidOf[j]
        waiting == QueueWith(p)
    IN
    /\ PurgedLeases[p] = NoLease
    /\ IF Head(waiting) = p /\ CanGrant(PurgedLeases, j)
       THEN /\ queue' = Only(waiting, Pids \ {p})
            /\ lease' = [PurgedLeases EXCEPT ![p] =
                            [id |-> j, reserved |-> Need[j], exclusive |-> Exclusive(j),
                             holders |-> 1, fresh |-> TRUE]]
            /\ at' = [at EXCEPT ![j] = "holding"]
            /\ ticket' = [ticket EXCEPT ![j] = j]
       ELSE /\ queue' = waiting
            /\ lease' = PurgedLeases
            /\ UNCHANGED <<at, ticket>>

Poll(j) ==
    /\ at[j] = "waiting"
    /\ PollOwnLease(j) \/ PollNewLease(j)
    /\ UNCHANGED <<alive, stalls>>

(* TimeoutError leaves the registry as it is *)
TimeOut(j) ==
    /\ j \in CanTimeOut
    /\ at[j] = "waiting"
    /\ at' = [at EXCEPT ![j] = "timedOut"]
    /\ UNCHANGED <<fileVars, alive, ticket, stalls>>

-----------------------------------------------------------------------------
(* The ticket.                                                             *)

Load(j) ==
    /\ at[j] = "holding"
    /\ Need[j] <= FreeMemory
    /\ at' = [at EXCEPT ![j] = "loaded"]
    /\ UNCHANGED <<fileVars, alive, ticket, stalls>>

(* Mutant: the first release drops the lease *)
LeaseDropped(j) ==
    LET l == lease[PidOf[j]] IN
    IF l # NoLease /\ l.id = ticket[j] THEN NoLease ELSE l

(* Mutant: the lease outlives its last ticket *)
LeaseKept(j) ==
    LET l == lease[PidOf[j]] IN
    IF l # NoLease /\ l.id = ticket[j] /\ l.holders > 1
    THEN [l EXCEPT !.holders = @ - 1] ELSE l

(* A purged lease is not released a second time *)
LeaseWithout(j) ==
    LET l == lease[PidOf[j]] IN
    IF l = NoLease \/ l.id # ticket[j] THEN l
    ELSE IF l.holders > 1 THEN [l EXCEPT !.holders = @ - 1] ELSE NoLease

(* release(), after use or when loading failed; the engine moves its       *)
(* weights off the GPU only then                                           *)
Release(j) ==
    /\ at[j] \in {"holding", "loaded"}
    /\ at' = [at EXCEPT ![j] = IF @ = "loaded" THEN "leaving" ELSE "done"]
    /\ ticket' = [ticket EXCEPT ![j] = NoLease]
    /\ lease' = [lease EXCEPT ![PidOf[j]] = LeaseWithout(j)]
    /\ queue' = Only(queue, Pids \ {PidOf[j]})
    /\ UNCHANGED <<alive, stalls>>

Unload(j) ==
    /\ at[j] = "leaving"
    /\ at' = [at EXCEPT ![j] = "done"]
    /\ UNCHANGED <<fileVars, alive, ticket, stalls>>

-----------------------------------------------------------------------------
(* Processes.                                                              *)

(* The background thread of a ticket; of no use once the lease was purged  *)
Heartbeat(j) ==
    LET p == PidOf[j] IN
    /\ at[j] \in {"holding", "loaded"}
    /\ lease[p] # NoLease
    /\ lease[p].id = ticket[j]
    /\ lease' = [lease EXCEPT ![p].fresh = TRUE]
    /\ UNCHANGED <<queue, alive, at, ticket, stalls>>

(* status(), from any process *)
Status ==
    /\ lease' = PurgedLeases
    /\ queue' = PurgedQueue
    /\ UNCHANGED <<alive, at, ticket, stalls>>

(* No heartbeat for longer than the limit: stopped, suspended, or the file *)
(* could not be written                                                    *)
Stall(p) ==
    /\ alive[p] /\ p \in Holders /\ lease[p].fresh
    /\ stalls < MaxStalls
    /\ stalls' = stalls + 1
    /\ lease' = [lease EXCEPT ![p].fresh = FALSE]
    /\ UNCHANGED <<queue, alive, at, ticket>>

(* Killed: no release, no atexit; its memory is free at once               *)
Die(p) ==
    /\ p \in CanDie /\ alive[p]
    /\ alive' = [alive EXCEPT ![p] = FALSE]
    /\ at' = [j \in Jobs |-> IF PidOf[j] = p THEN "dead" ELSE at[j]]
    /\ ticket' = [j \in Jobs |-> IF PidOf[j] = p THEN NoLease ELSE ticket[j]]
    /\ UNCHANGED <<fileVars, stalls>>

Next ==
    \/ \E j \in Jobs : Ask(j) \/ Poll(j) \/ TimeOut(j) \/ Load(j) \/ Release(j)
                       \/ Unload(j) \/ Heartbeat(j)
    \/ Status
    \/ \E p \in Pids : Stall(p) \/ Die(p)

Spec == Init /\ [][Next]_vars

(* A waiting process polls every _POLL_SECONDS, and release_gpu goes on    *)
(* from the ticket to the weights.  A ticket need not be released: after a *)
(* forecast the engine keeps it, with its model, for the next one.         *)
Fairness == \A j \in Jobs : WF_vars(Poll(j)) /\ WF_vars(Unload(j))

FairSpec == Spec /\ Fairness

-----------------------------------------------------------------------------
(* Properties.                                                             *)

(* At most one process has an exclusive lease, however leases grow, are    *)
(* shared, purged and opened again (_can_grant, _can_grow).                *)
AtMostOneExclusive ==
    \A p, q \in Holders : lease[p].exclusive /\ lease[q].exclusive => p = q

(* All leases together never exceed the budget, a growing one included     *)
(* (_can_grant, _can_grow, _try_share_own_lease).                          *)
WithinBudget == Reserved(lease, Holders) <= Budget

(* While no process is held up, each ticket is backed by its lease and the *)
(* lease counts exactly the tickets a live process holds: release, sharing *)
(* and purging by others neither drop a lease that is used nor leave one   *)
(* that is not (release, _try_share_own_lease, _purge_stale).              *)
TicketsBacked ==
    stalls = 0 =>
        /\ \A j \in Jobs : ticket[j] # NoLease =>
              PidOf[j] \in Holders /\ lease[PidOf[j]].id = ticket[j]
        /\ \A p \in Holders : alive[p] =>
              lease[p].holders = Cardinality({j \in Jobs : PidOf[j] = p /\ ticket[j] # NoLease})

(* While no process is held up and no lease is shared at the moment, what  *)
(* the tickets were given for fits on the GPU together (test_gpu_guard.py: *)
(* "second ticket of the process grows the reservation").                  *)
TicketsFit ==
    stalls = 0 /\ (\A p \in Holders : lease[p].holders = 1) =>
        SumFunctionOnSet(Need, {j \in Jobs : ticket[j] # NoLease}) <= Budget

Waits(p) == \E j \in Jobs : PidOf[j] = p /\ at[j] = "waiting"

(* docs/tutorial.md:225 "seconds to wait for GPU slot": who is queued and  *)
(* alive is a process that still waits.                                    *)
QueueHoldsWaiters == \A p \in Range(queue) : alive[p] => Waits(p)

(* docs/tutorial.md:224 "queue large jobs when VRAM is saturated": if no   *)
(* ticket is kept for good, each job that waits stops waiting, whatever    *)
(* crashes or is purged, unless a process that gave up stays in the queue  *)
(* for good.  Behind a worker that keeps its model a job may wait for ever *)
(* (engine.py:246, worker.py:517-537), or until its timeout.               *)
EveryWaiterServed ==
    (\A j \in Jobs : []<>(ticket[j] = NoLease)) =>
        \A j \in Jobs : at[j] = "waiting" ~> (at[j] # "waiting" \/ ~QueueHoldsWaiters)
=============================================================================
