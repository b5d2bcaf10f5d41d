---------------------------- MODULE GpuGuardProofs ----------------------------
(***************************************************************************)
(* Proofs about GpuGuard, for any processes, jobs and sizes.               *)
(***************************************************************************)
EXTENDS GpuGuard, QueueLemmas, FiniteSetTheorems

USE GuardAssumption, LeaseAssumption DEF GuardAssumption, LeaseAssumption

-----------------------------------------------------------------------------
(* A purge changes no lease that it leaves. *)
LEMMA PurgeKeeps ==
    ASSUME TypeTickets
    PROVE  /\ PurgedLeases \in [Pids -> Lease \cup {NoLease}]
           /\ \A p \in Pids : PurgedLeases[p] # NoLease =>
                 p \in Holders /\ PurgedLeases[p] = lease[p] /\ alive[p] /\ lease[p].fresh
           /\ \A p \in Holders : alive[p] /\ lease[p].fresh => PurgedLeases[p] = lease[p]
  BY DEF PurgedLeases, Holders, TypeTickets

(* A lease is a record of its five fields, each of its type.               *)
LEMMA LeaseFields ==
    ASSUME NEW l \in Lease
    PROVE  /\ l = [id |-> l.id, reserved |-> l.reserved, exclusive |-> l.exclusive,
                   holders |-> l.holders, fresh |-> l.fresh]
           /\ l.id \in Jobs
           /\ l.reserved \in Nat \ {0}
           /\ l.exclusive \in BOOLEAN
           /\ l.holders \in Nat \ {0}
           /\ l.fresh \in BOOLEAN
  BY DEF Lease

(* A lease shared with one more job is a lease still.                      *)
LEMMA SharedType ==
    ASSUME NEW l \in Lease, NEW j \in Jobs
    PROVE  Shared(l, j) \in Lease
  <1>1. /\ (IF Need[j] > l.reserved THEN Need[j] ELSE l.reserved) \in Nat \ {0}
        /\ l.holders + 1 \in Nat \ {0}
    BY LeaseFields
  <1>2. (l.exclusive \/ Exclusive(j)) \in BOOLEAN
    OBVIOUS
  <1> QED
    BY <1>1, <1>2, LeaseFields DEF Shared, Lease

(* A heartbeat, or the lack of one, changes how old a lease looks and no more. *)
LEMMA FreshType ==
    ASSUME NEW l \in Lease, NEW b \in BOOLEAN
    PROVE  /\ [l EXCEPT !.fresh = b] \in Lease
           /\ [l EXCEPT !.fresh = b].exclusive = l.exclusive
           /\ [l EXCEPT !.fresh = b].id = l.id
           /\ [l EXCEPT !.fresh = b].holders = l.holders
           /\ [l EXCEPT !.fresh = b].reserved = l.reserved
  <1>1. [l EXCEPT !.fresh = b] = [id |-> l.id, reserved |-> l.reserved,
                                  exclusive |-> l.exclusive, holders |-> l.holders,
                                  fresh |-> b]
    BY LeaseFields DEF Lease
  <1> QED
    BY <1>1, LeaseFields DEF Lease

(* What a release leaves behind is a lease, or none.                       *)
LEMMA LeaseWithoutType ==
    ASSUME TypeTickets, NEW j \in Jobs
    PROVE  LeaseWithout(j) \in Lease \cup {NoLease}
  <1>1. lease[PidOf[j]] \in Lease \cup {NoLease}
    BY DEF TypeTickets
  <1>2. CASE lease[PidOf[j]] = NoLease \/ lease[PidOf[j]].id # ticket[j]
    BY <1>1, <1>2 DEF LeaseWithout
  <1>3. CASE ~(lease[PidOf[j]] = NoLease \/ lease[PidOf[j]].id # ticket[j])
    <2>1. lease[PidOf[j]] \in Lease
      BY <1>1, <1>3
    <2>2. lease[PidOf[j]].holders > 1 =>
             [lease[PidOf[j]] EXCEPT !.holders = @ - 1] \in Lease
      BY <2>1 DEF Lease
    <2> QED
      BY <1>3, <2>2 DEF LeaseWithout
  <1> QED
    BY <1>2, <1>3

(* The types of leases, jobs and processes are preserved by every step. *)
LEMMA TypeStep ==
    ASSUME TypeTickets, [Next]_vars
    PROVE  TypeTickets'
  <1> USE DEF States
  <1>1. ASSUME NEW j \in Jobs, Ask(j) \/ TimeOut(j) \/ Load(j) \/ Unload(j)
        PROVE  TypeTickets'
    BY <1>1 DEF Ask, TimeOut, Load, Unload, TypeTickets, fileVars
  <1>2. ASSUME NEW j \in Jobs, Poll(j), PollOwnLease(j)
        PROVE  TypeTickets'
    <2> DEFINE p == PidOf[j]
    <2>1. PurgedLeases[p] \in Lease /\ PurgedLeases[p] = lease[p] /\ lease[p].id \in Jobs
      BY <1>2, PurgeKeeps DEF PollOwnLease, Lease
    <2>2. Shared(PurgedLeases[p], j) \in Lease
      BY <2>1, SharedType
    <2> HIDE DEF p
    <2>3. [PurgedLeases EXCEPT ![p] = Shared(@, j)] \in [Pids -> Lease \cup {NoLease}]
      BY <2>2, PurgeKeeps
    <2>4. lease' \in [Pids -> Lease \cup {NoLease}]
      BY <1>2, <2>3, PurgeKeeps DEF PollOwnLease, p
    <2>5. at' \in [Jobs -> States] /\ ticket' \in [Jobs -> Jobs \cup {NoLease}]
      BY <1>2, <2>1 DEF PollOwnLease, TypeTickets, p
    <2> QED
      BY <1>2, <2>4, <2>5 DEF Poll, TypeTickets
  <1>3. ASSUME NEW j \in Jobs, Poll(j), PollNewLease(j)
        PROVE  TypeTickets'
    <2> DEFINE new == [id |-> j, reserved |-> Need[j], exclusive |-> Exclusive(j),
                       holders |-> 1, fresh |-> TRUE]
    <2>1. new \in Lease
      BY DEF Lease, Exclusive
    <2> HIDE DEF new
    <2>2. [PurgedLeases EXCEPT ![PidOf[j]] = new] \in [Pids -> Lease \cup {NoLease}]
      BY <2>1, PurgeKeeps
    <2>3. lease' \in [Pids -> Lease \cup {NoLease}]
      BY <1>3, <2>2, PurgeKeeps DEF PollNewLease, new
    <2>4. at' \in [Jobs -> States] /\ ticket' \in [Jobs -> Jobs \cup {NoLease}]
      BY <1>3 DEF PollNewLease, TypeTickets
    <2> QED
      BY <1>3, <2>3, <2>4 DEF Poll, TypeTickets
  <1>4. ASSUME NEW j \in Jobs, Release(j)
        PROVE  TypeTickets'
    BY <1>4, LeaseWithoutType DEF Release, TypeTickets
  <1>5. ASSUME NEW j \in Jobs, Heartbeat(j)
        PROVE  TypeTickets'
    <2>0. lease[PidOf[j]] \in Lease
      BY <1>5 DEF Heartbeat, TypeTickets
    <2>1. [lease[PidOf[j]] EXCEPT !.fresh = TRUE] \in Lease
      BY Zenon, <2>0, FreshType
    <2> QED
      BY <1>5, <2>1 DEF Heartbeat, TypeTickets
  <1>6. CASE Status
    BY <1>6, PurgeKeeps DEF Status, TypeTickets
  <1>7. ASSUME NEW p \in Pids, Stall(p)
        PROVE  TypeTickets'
    <2>0. lease[p] \in Lease
      BY <1>7 DEF Stall, Holders, TypeTickets
    <2>1. [lease[p] EXCEPT !.fresh = FALSE] \in Lease
      BY Zenon, <2>0, FreshType
    <2>2. stalls + 1 \in 0 .. MaxStalls
      BY <1>7 DEF Stall, TypeTickets
    <2> QED
      BY <1>7, <2>1, <2>2 DEF Stall, TypeTickets
  <1>8. ASSUME NEW p \in Pids, Die(p)
        PROVE  TypeTickets'
    BY <1>8 DEF Die, TypeTickets, fileVars
  <1>9. CASE UNCHANGED vars
    BY <1>9 DEF vars, fileVars, TypeTickets
  <1> QED
    BY <1>1, <1>2, <1>3, <1>4, <1>5, <1>6, <1>7, <1>8, <1>9 DEF Next, Poll

(* Every record of the registry and every ticket is well formed, in every  *)
(* state the processes can reach. *)
THEOREM TicketTypes == Spec => []TypeTickets
  <1>1. Init => TypeTickets
    BY DEF Init, TypeTickets, States
  <1> QED
    BY <1>1, TypeStep, PTL DEF Spec

(* A queue of processes that each queue once, cleared of some of them.     *)
LEMMA ClearedQueue ==
    ASSUME NEW pids \in Seq(Pids), IsInjective(pids), NEW those
    PROVE  Only(pids, those) \in Seq(Pids) /\ IsInjective(Only(pids, those))
  BY OnlyType, OnlyDistinct

(* Whatever is purged, appended and removed: a process queues once.        *)
LEMMA QueueStep ==
    ASSUME TypeQueue, [Next]_vars
    PROVE  TypeQueue'
  <1>1. PurgedQueue \in Seq(Pids) /\ IsInjective(PurgedQueue)
    BY ClearedQueue DEF TypeQueue, PurgedQueue
  <1>2. ASSUME NEW j \in Jobs, Poll(j)
        PROVE  TypeQueue'
    <2> DEFINE p == PidOf[j]
               waiting == QueueWith(p)
    <2>1. p \in Pids
      OBVIOUS
    <2>2. waiting \in Seq(Pids) /\ IsInjective(waiting)
      <3>1. CASE p \in Range(PurgedQueue)
        BY <1>1, <3>1 DEF QueueWith
      <3>2. CASE p \notin Range(PurgedQueue)
        <4>1. Append(PurgedQueue, p) \in Seq(Pids) /\ IsInjective(Append(PurgedQueue, p))
          BY <1>1, <2>1, <3>2, AppendRange, AppendDistinct
        <4> QED
          BY <3>2, <4>1 DEF QueueWith
      <3> QED
        BY <3>1, <3>2
    <2> HIDE DEF waiting
    <2>3. Only(waiting, Pids \ {p}) \in Seq(Pids) /\ IsInjective(Only(waiting, Pids \ {p}))
      BY <2>2, ClearedQueue
    <2>4. CASE PollOwnLease(j)
      BY <1>1, <2>4 DEF PollOwnLease, TypeQueue
    <2>5. CASE PollNewLease(j)
      BY <2>2, <2>3, <2>5 DEF PollNewLease, TypeQueue, waiting
    <2> QED
      BY <1>2, <2>4, <2>5 DEF Poll
  <1>3. ASSUME NEW j \in Jobs, Release(j)
        PROVE  TypeQueue'
    BY <1>3, ClearedQueue DEF Release, TypeQueue
  <1>4. CASE Status
    BY <1>1, <1>4 DEF Status, TypeQueue
  <1>5. CASE UNCHANGED queue
    BY <1>5 DEF TypeQueue
  <1> QED
    BY <1>2, <1>3, <1>4, <1>5
    DEF Next, vars, fileVars, Ask, TimeOut, Load, Unload, Heartbeat, Stall, Die

(* The registry is well formed, its queue included: it names processes,    *)
(* each of them once, however often they poll, give up, die and are purged *)
(* (_try_new_lease, _purge_stale).                                         *)
THEOREM RegistryTypes == Spec => []TypeOK
  <1>1. Init => TypeTickets /\ TypeQueue
    <2>1. IsInjective(<<>>) /\ <<>> \in Seq(Pids)
      BY DEF IsInjective
    <2> QED
      BY <2>1 DEF Init, TypeTickets, States, TypeQueue
  <1> QED
    BY <1>1, TypeStep, QueueStep, PTL DEF Spec, TypeOK

-----------------------------------------------------------------------------
(* At most one of the leases is exclusive. *)
OneExclusive(leases) ==
    \A p, q \in Pids :
        /\ leases[p] # NoLease /\ leases[p].exclusive
        /\ leases[q] # NoLease /\ leases[q].exclusive
        => p = q

(* The property, as said of any assignment of leases.                      *)
LEMMA OneExclusiveIs == AtMostOneExclusive <=> OneExclusive(lease)
  BY DEF AtMostOneExclusive, OneExclusive, Holders

(* A purge removes leases only, so it adds no exclusive one.               *)
LEMMA PurgedOneExclusive ==
    ASSUME TypeTickets, AtMostOneExclusive
    PROVE  OneExclusive(PurgedLeases)
  BY PurgeKeeps, OneExclusiveIs DEF OneExclusive

(* A lease may be replaced by an exclusive one if no other one is exclusive. *)
LEMMA ReplacedOneExclusive ==
    ASSUME NEW leases \in [Pids -> Lease \cup {NoLease}], OneExclusive(leases),
           NEW p \in Pids, NEW l,
           l # NoLease /\ l.exclusive =>
              \A q \in Pids \ {p} : leases[q] # NoLease => ~leases[q].exclusive
    PROVE  OneExclusive([leases EXCEPT ![p] = l])
  BY DEF OneExclusive

(* A release leaves a lease as exclusive as it was. *)
LEMMA LeaseWithoutExclusive ==
    ASSUME TypeTickets, NEW j \in Jobs, LeaseWithout(j) # NoLease
    PROVE  /\ lease[PidOf[j]] # NoLease
           /\ LeaseWithout(j).exclusive = lease[PidOf[j]].exclusive
  <1> DEFINE l == lease[PidOf[j]]
  <1>1. l # NoLease /\ l \in Lease
    BY DEF LeaseWithout, TypeTickets
  <1>2. [l EXCEPT !.holders = @ - 1].exclusive = l.exclusive
    BY <1>1 DEF Lease
  <1> QED
    BY <1>1, <1>2 DEF LeaseWithout

(* Exclusive leases stay single, however leases are opened, shared, grown, *)
(* purged and released. *)
LEMMA OneExclusiveStep ==
    ASSUME TypeTickets, AtMostOneExclusive, [Next]_vars
    PROVE  AtMostOneExclusive'
  <1> SUFFICES OneExclusive(lease')
    BY DEF AtMostOneExclusive, OneExclusive, Holders
  <1>0. OneExclusive(lease) /\ lease \in [Pids -> Lease \cup {NoLease}]
    BY OneExclusiveIs DEF TypeTickets
  <1>1. CASE UNCHANGED lease
    BY <1>0, <1>1
  <1>2. CASE lease' = PurgedLeases
    BY <1>2, PurgedOneExclusive
  <1>3. ASSUME NEW j \in Jobs, PollOwnLease(j), lease' # PurgedLeases
        PROVE  OneExclusive(lease')
    <2> DEFINE p == PidOf[j]
               own == PurgedLeases[p]
    <2>1. own \in Lease /\ own # NoLease /\ CanGrow(PurgedLeases, j)
      BY <1>3, PurgeKeeps DEF PollOwnLease
    <2>2. Shared(own, j).exclusive = (own.exclusive \/ Exclusive(j))
      BY DEF Shared
    <2>4. ASSUME own.exclusive \/ Exclusive(j)
          PROVE  \A q \in Pids \ {p} : PurgedLeases[q] # NoLease => ~PurgedLeases[q].exclusive
      <3>1. CASE own.exclusive
        BY <2>1, <3>1, PurgedOneExclusive DEF OneExclusive
      <3>2. CASE ~own.exclusive /\ Exclusive(j)
        BY <2>1, <3>2 DEF CanGrow, Others
      <3> QED
        BY <2>4, <3>1, <3>2
    <2>5. lease' = [PurgedLeases EXCEPT ![p] = Shared(own, j)]
      BY <1>3 DEF PollOwnLease
    <2> HIDE DEF p, own
    <2>6. p \in Pids
      BY DEF p
    <2> QED
      BY <2>2, <2>4, <2>5, <2>6, PurgeKeeps, PurgedOneExclusive, ReplacedOneExclusive
  <1>4. ASSUME NEW j \in Jobs, PollNewLease(j), lease' # PurgedLeases
        PROVE  OneExclusive(lease')
    <2> DEFINE new == [id |-> j, reserved |-> Need[j], exclusive |-> Exclusive(j),
                       holders |-> 1, fresh |-> TRUE]
    <2>1. CanGrant(PurgedLeases, j) /\ lease' = [PurgedLeases EXCEPT ![PidOf[j]] = new]
      BY <1>4 DEF PollNewLease
    <2>2. new.exclusive = Exclusive(j)
      OBVIOUS
    <2>3. Exclusive(j) =>
             \A q \in Pids \ {PidOf[j]} : PurgedLeases[q] # NoLease => ~PurgedLeases[q].exclusive
      BY <2>1 DEF CanGrant, Others
    <2> HIDE DEF new
    <2> QED
      BY <2>1, <2>2, <2>3, PurgeKeeps, PurgedOneExclusive, ReplacedOneExclusive
  <1>5. ASSUME NEW j \in Jobs, Release(j)
        PROVE  OneExclusive(lease')
    <2>1. LeaseWithout(j) # NoLease /\ LeaseWithout(j).exclusive =>
             \A q \in Pids \ {PidOf[j]} : lease[q] # NoLease => ~lease[q].exclusive
      BY <1>0, LeaseWithoutExclusive DEF OneExclusive
    <2> QED
      BY <1>0, <1>5, <2>1, ReplacedOneExclusive DEF Release
  <1>6. ASSUME NEW p \in Pids, lease[p] # NoLease, NEW b \in BOOLEAN,
               lease' = [lease EXCEPT ![p].fresh = b]
        PROVE  OneExclusive(lease')
    <2>1. lease[p] \in Lease
      BY <1>0, <1>6
    <2>2. [lease[p] EXCEPT !.fresh = b].exclusive = lease[p].exclusive
      BY Zenon, <2>1, FreshType
    <2> DEFINE l == [lease[p] EXCEPT !.fresh = b]
    <2>3. lease' = [lease EXCEPT ![p] = l]
      BY <1>6
    <2> HIDE DEF l
    <2>4. l.exclusive =>
             \A q \in Pids \ {p} : lease[q] # NoLease => ~lease[q].exclusive
      BY <1>0, <1>6, <2>2 DEF OneExclusive, l
    <2> QED
      BY <1>0, <2>3, <2>4, ReplacedOneExclusive
  <1> QED
    BY <1>1, <1>2, <1>3, <1>4, <1>5, <1>6
    DEF Next, vars, fileVars, Ask, Poll, TimeOut, Load, Unload, Heartbeat, Status, Stall, Die, Holders

(* At no time do two processes have an exclusive lease, for any number of  *)
(* processes and jobs of any size, whatever dies, stalls or is purged. *)
THEOREM SingleExclusive == Spec => []AtMostOneExclusive
  <1>1. Init => AtMostOneExclusive
    BY DEF Init, AtMostOneExclusive, Holders
  <1> QED
    BY <1>1, OneExclusiveStep, TicketTypes, PTL DEF Spec

-----------------------------------------------------------------------------
(* The tickets of a process *)
TicketsOf(p) == {j \in Jobs : PidOf[j] = p /\ ticket[j] # NoLease}

(* No lease is stale, each ticket is backed, and the counts are right.     *)
LeasesBacked ==
    /\ \A p \in Holders : lease[p].fresh
    /\ \A j \in Jobs : ticket[j] # NoLease =>
          PidOf[j] \in Holders /\ lease[PidOf[j]].id = ticket[j]
    /\ \A p \in Holders : alive[p] => lease[p].holders = Cardinality(TicketsOf(p))

(* What has to hold besides for the counts to stay right: the jobs with a  *)
(* ticket are those that hold or use the GPU, and their processes live.    *)
Backed ==
    /\ \A j \in Jobs : ticket[j] # NoLease <=> at[j] \in {"holding", "loaded"}
    /\ \A j \in Jobs : at[j] \in {"waiting", "holding", "loaded"} => alive[PidOf[j]]
    /\ stalls = 0 => LeasesBacked

(* TicketsBacked follows. *)
LEMMA BackedTickets == Backed => TicketsBacked
  BY DEF Backed, LeasesBacked, TicketsBacked, TicketsOf

(* One more ticket, or one less, changes the count of its process by one. *)
LEMMA TicketsCount ==
    ASSUME NEW j \in Jobs, TypeTickets, TypeTickets',
           \A i \in Jobs \ {j} : ticket'[i] = ticket[i]
    PROVE  /\ \A p \in Pids \ {PidOf[j]} : TicketsOf(p)' = TicketsOf(p)
           /\ ticket[j] = NoLease /\ ticket'[j] # NoLease =>
                 /\ Cardinality(TicketsOf(PidOf[j])') = Cardinality(TicketsOf(PidOf[j])) + 1
                 /\ TicketsOf(PidOf[j])' = TicketsOf(PidOf[j]) \cup {j}
           /\ ticket[j] # NoLease /\ ticket'[j] = NoLease =>
                 /\ Cardinality(TicketsOf(PidOf[j])') = Cardinality(TicketsOf(PidOf[j])) - 1
                 /\ TicketsOf(PidOf[j])' = TicketsOf(PidOf[j]) \ {j}
           /\ Cardinality(TicketsOf(PidOf[j])) \in Nat
           /\ Cardinality(TicketsOf(PidOf[j])) = 0 <=> TicketsOf(PidOf[j]) = {}
           /\ Cardinality(TicketsOf(PidOf[j])') = 0 <=> TicketsOf(PidOf[j])' = {}
  <1> DEFINE T == TicketsOf(PidOf[j])
  <1>1. IsFiniteSet(T) /\ IsFiniteSet(T')
    BY FS_Subset DEF TicketsOf
  <1>2. \A p \in Pids \ {PidOf[j]} : TicketsOf(p)' = TicketsOf(p)
    BY DEF TicketsOf
  <1>3. ASSUME ticket[j] = NoLease, ticket'[j] # NoLease
        PROVE  T' = T \cup {j} /\ j \notin T
    BY <1>3 DEF TicketsOf
  <1>4. ASSUME ticket[j] # NoLease, ticket'[j] = NoLease
        PROVE  T' = T \ {j} /\ j \in T
    BY <1>4 DEF TicketsOf
  <1>5. /\ \A x : Cardinality(T \cup {x}) = IF x \in T THEN Cardinality(T) ELSE Cardinality(T) + 1
        /\ \A x : Cardinality(T \ {x}) = IF x \in T THEN Cardinality(T) - 1 ELSE Cardinality(T)
        /\ Cardinality(T) \in Nat
        /\ Cardinality(T) = 0 <=> T = {}
        /\ Cardinality(T') = 0 <=> T' = {}
    BY <1>1, FS_AddElement, FS_RemoveElement, FS_CardinalityType, FS_EmptySet
  <1> HIDE DEF T
  <1>6. /\ ticket[j] = NoLease /\ ticket'[j] # NoLease =>
              Cardinality(T') = Cardinality(T) + 1 /\ T' = T \cup {j}
        /\ ticket[j] # NoLease /\ ticket'[j] = NoLease =>
              Cardinality(T') = Cardinality(T) - 1 /\ T' = T \ {j}
    BY <1>3, <1>4, <1>5
  <1> QED
    BY <1>2, <1>5, <1>6 DEF T

(* A purge by anybody takes nothing away from those that live. *)
LEMMA PurgeBacked ==
    ASSUME TypeTickets, Backed, lease' = PurgedLeases, UNCHANGED <<alive, at, ticket, stalls>>
    PROVE  Backed'
  <1>1. \A p \in Pids : TicketsOf(p)' = TicketsOf(p)
    BY DEF TicketsOf
  <1>2. \A p \in Pids : p \in Holders' => p \in Holders /\ lease'[p] = lease[p] /\ alive[p]
    BY PurgeKeeps DEF Holders
  <1>3. LeasesBacked => \A p \in Pids : p \in Holders /\ alive[p] => p \in Holders' /\ lease'[p] = lease[p]
    BY PurgeKeeps DEF Holders, LeasesBacked
  <1>4. \A j \in Jobs : ticket[j] # NoLease => alive[PidOf[j]]
    BY DEF Backed
  <1>5. LeasesBacked => LeasesBacked'
    BY <1>1, <1>2, <1>3, <1>4 DEF LeasesBacked, Holders
  <1> QED
    BY <1>5 DEF Backed

(* A ticket given to a waiting job: its lease counts one more, the other   *)
(* leases are those a purge leaves. *)
LEMMA GrantBacked ==
    ASSUME TypeTickets, TypeTickets', Backed, NEW j \in Jobs, at[j] = "waiting", NEW l \in Lease,
           l.fresh, stalls = 0 => l.holders = Cardinality(TicketsOf(PidOf[j])) + 1,
           \A i \in Jobs \ {j} : stalls = 0 /\ PidOf[i] = PidOf[j] /\ ticket[i] # NoLease =>
                l.id = ticket[i],
           lease' = [PurgedLeases EXCEPT ![PidOf[j]] = l],
           at' = [at EXCEPT ![j] = "holding"], ticket' = [ticket EXCEPT ![j] = l.id],
           UNCHANGED <<alive, stalls>>
    PROVE  Backed'
  <1> DEFINE p == PidOf[j]
  <1>0. p \in Pids /\ l # NoLease /\ l.id # NoLease /\ l.id \in Jobs
    BY DEF Lease
  <1>1. ticket[j] = NoLease /\ ticket'[j] = l.id /\ \A i \in Jobs \ {j} : ticket'[i] = ticket[i]
    BY DEF Backed, TypeTickets
  <1>2. /\ \A q \in Pids \ {p} : TicketsOf(q)' = TicketsOf(q)
        /\ Cardinality(TicketsOf(p)') = Cardinality(TicketsOf(p)) + 1
    BY <1>0, <1>1, TicketsCount
  <1>3. lease'[p] = l /\ \A q \in Pids \ {p} : lease'[q] = PurgedLeases[q]
    BY PurgeKeeps
  <1>4. \A q \in Pids \ {p} : q \in Holders' => q \in Holders /\ lease'[q] = lease[q]
    BY <1>3, PurgeKeeps DEF Holders
  <1>5. LeasesBacked =>
           \A q \in Pids \ {p} : q \in Holders /\ alive[q] => q \in Holders' /\ lease'[q] = lease[q]
    BY <1>3, PurgeKeeps DEF Holders, LeasesBacked
  <1>6. \A i \in Jobs : ticket[i] # NoLease => alive[PidOf[i]]
    BY DEF Backed
  <1>7. p \in Holders'
    BY <1>0, <1>3 DEF Holders
  <1>8. ASSUME stalls = 0
        PROVE  LeasesBacked'
    <2>0. LeasesBacked
      BY <1>8 DEF Backed
    <2>1. \A q \in Holders' : lease'[q].fresh
      BY <1>3, <1>4, <2>0 DEF LeasesBacked, Holders
    <2>2. \A i \in Jobs : ticket'[i] # NoLease =>
             PidOf[i] \in Holders' /\ lease'[PidOf[i]].id = ticket'[i]
      BY <1>1, <1>3, <1>5, <1>6, <1>7, <1>8, <2>0 DEF LeasesBacked
    <2>3. \A q \in Holders' : alive'[q] => lease'[q].holders = Cardinality(TicketsOf(q)')
      BY <1>2, <1>3, <1>4, <1>8, <2>0 DEF LeasesBacked, Holders
    <2> QED
      BY <2>1, <2>2, <2>3 DEF LeasesBacked
  <1>9. \A i \in Jobs : ticket'[i] # NoLease <=> at'[i] \in {"holding", "loaded"}
    BY <1>0, <1>1 DEF Backed, TypeTickets
  <1>10. \A i \in Jobs : at'[i] \in {"waiting", "holding", "loaded"} => alive'[PidOf[i]]
    BY DEF Backed, TypeTickets
  <1> QED
    BY <1>8, <1>9, <1>10 DEF Backed

(* A released ticket: its lease counts one less, or is gone with the last. *)
LEMMA ReleaseBacked ==
    ASSUME TypeTickets, TypeTickets', Backed, NEW j \in Jobs, Release(j)
    PROVE  Backed'
  <1> DEFINE p == PidOf[j]
  <1>0. p \in Pids
    OBVIOUS
  <1>1. ticket[j] # NoLease /\ ticket'[j] = NoLease /\ \A i \in Jobs \ {j} : ticket'[i] = ticket[i]
    BY DEF Backed, TypeTickets, Release
  <1>2. /\ \A q \in Pids \ {p} : TicketsOf(q)' = TicketsOf(q)
        /\ Cardinality(TicketsOf(p)') = Cardinality(TicketsOf(p)) - 1
        /\ Cardinality(TicketsOf(p)) \in Nat
        /\ Cardinality(TicketsOf(p)') = 0 <=> TicketsOf(p)' = {}
    BY <1>0, <1>1, TicketsCount
  <1>3. lease'[p] = LeaseWithout(j) /\ \A q \in Pids \ {p} : lease'[q] = lease[q]
    BY DEF Release, TypeTickets
  <1>4. alive' = alive /\ stalls' = stalls
    BY DEF Release
  <1>5. ASSUME stalls = 0
        PROVE  LeasesBacked'
    <2>0. LeasesBacked
      BY <1>5 DEF Backed
    <2>1. lease[p] \in Lease /\ lease[p] # NoLease /\ lease[p].id = ticket[j] /\ alive[p]
          /\ lease[p].holders = Cardinality(TicketsOf(p)) /\ lease[p].fresh
      BY <1>1, <2>0 DEF LeasesBacked, Holders, TypeTickets, Backed
    <2>2. CASE lease[p].holders > 1
      <3>1. LeaseWithout(j) = [lease[p] EXCEPT !.holders = @ - 1]
        BY <2>1, <2>2 DEF LeaseWithout
      <3>2. /\ lease'[p].holders = Cardinality(TicketsOf(p)')
            /\ lease'[p].id = lease[p].id
            /\ lease'[p].fresh
            /\ lease'[p] # NoLease
        BY <1>2, <1>3, <2>1, <2>2, <3>1 DEF Lease, TypeTickets
      <3>3. Holders' = Holders
        BY <1>3, <2>1, <3>2 DEF Holders
      <3> QED
        BY <1>1, <1>2, <1>3, <1>4, <2>0, <2>1, <3>2, <3>3 DEF LeasesBacked, Holders
    <2>3. CASE ~(lease[p].holders > 1)
      <3>1. lease'[p] = NoLease
        BY <1>3, <2>1, <2>3 DEF LeaseWithout
      <3>2. lease[p].holders = 1
        BY <2>1, <2>3 DEF Lease
      <3>3. \A i \in Jobs : PidOf[i] = p => ticket'[i] = NoLease
        <4>1. TicketsOf(p)' = {}
          BY <1>2, <2>1, <3>2
        <4> QED
          BY <4>1 DEF TicketsOf
      <3>4. \A q \in Pids \ {p} : q \in Holders' <=> q \in Holders
        BY <1>3 DEF Holders
      <3>5. p \notin Holders'
        BY <3>1 DEF Holders
      <3>6. \A q \in Holders' : lease'[q].fresh /\
               (alive'[q] => lease'[q].holders = Cardinality(TicketsOf(q)'))
        BY <1>2, <1>3, <1>4, <2>0, <3>4, <3>5 DEF LeasesBacked, Holders
      <3>7. \A i \in Jobs : ticket'[i] # NoLease =>
               PidOf[i] \in Holders' /\ lease'[PidOf[i]].id = ticket'[i]
        BY <1>1, <1>3, <2>0, <3>3, <3>4 DEF LeasesBacked
      <3> QED
        BY <3>6, <3>7 DEF LeasesBacked
    <2> QED
      BY <2>2, <2>3
  <1>6. at'[j] \in {"leaving", "done"} /\ \A i \in Jobs \ {j} : at'[i] = at[i]
    BY DEF Release, TypeTickets
  <1>7. \A i \in Jobs : ticket'[i] # NoLease <=> at'[i] \in {"holding", "loaded"}
    BY <1>1, <1>6 DEF Backed
  <1>8. \A i \in Jobs : at'[i] \in {"waiting", "holding", "loaded"} => alive'[PidOf[i]]
    BY <1>4, <1>6 DEF Backed
  <1> QED
    BY <1>4, <1>5, <1>7, <1>8 DEF Backed

(* The invariant is kept by every step. *)
LEMMA BackedStep ==
    ASSUME TypeTickets, TypeTickets', Backed, [Next]_vars
    PROVE  Backed'
  <1>1. ASSUME NEW j \in Jobs, Ask(j) \/ TimeOut(j) \/ Load(j) \/ Unload(j)
        PROVE  Backed'
    <2>1. UNCHANGED <<lease, alive, ticket, stalls>>
      BY <1>1 DEF Ask, TimeOut, Load, Unload, fileVars
    <2>2. LeasesBacked' = LeasesBacked
      BY <2>1 DEF LeasesBacked, Holders, TicketsOf
    <2>3. \A i \in Jobs : at'[i] \in {"holding", "loaded"} <=> at[i] \in {"holding", "loaded"}
      BY <1>1 DEF Ask, TimeOut, Load, Unload, TypeTickets
    <2>4. \A i \in Jobs : at'[i] \in {"waiting", "holding", "loaded"} =>
             at[i] \in {"waiting", "holding", "loaded"} \/ alive[PidOf[i]]
      BY <1>1 DEF Ask, TimeOut, Load, Unload, TypeTickets
    <2> QED
      BY <2>1, <2>2, <2>3, <2>4 DEF Backed
  <1>2. ASSUME NEW j \in Jobs, Poll(j)
        PROVE  Backed'
    <2> DEFINE p == PidOf[j]
    <2>0. at[j] = "waiting" /\ alive[p] /\ UNCHANGED <<alive, stalls>> /\ p \in Pids
      BY <1>2 DEF Poll, Backed
    <2>1. CASE lease' = PurgedLeases /\ UNCHANGED <<at, ticket>>
      BY <2>0, <2>1, PurgeBacked
    <2>2. CASE PollOwnLease(j) /\ CanGrow(PurgedLeases, j)
      <3>1. PurgedLeases[p] = lease[p] /\ lease[p] \in Lease /\ p \in Holders
        BY <2>2, PurgeKeeps DEF PollOwnLease, TypeTickets
      <3> DEFINE l == Shared(lease[p], j)
      <3>2. l \in Lease /\ l.fresh /\ l.id = lease[p].id /\ l.holders = lease[p].holders + 1
        BY <3>1, SharedType DEF Shared
      <3>3. /\ lease' = [PurgedLeases EXCEPT ![PidOf[j]] = l]
            /\ at' = [at EXCEPT ![j] = "holding"]
            /\ ticket' = [ticket EXCEPT ![j] = l.id]
        BY <2>2, <3>1, <3>2 DEF PollOwnLease
      <3>4. stalls = 0 => l.holders = Cardinality(TicketsOf(PidOf[j])) + 1
        BY <2>0, <3>1, <3>2 DEF Backed, LeasesBacked
      <3>5. \A i \in Jobs \ {j} : stalls = 0 /\ PidOf[i] = PidOf[j] /\ ticket[i] # NoLease =>
               l.id = ticket[i]
        BY <3>2 DEF Backed, LeasesBacked
      <3> HIDE DEF l
      <3> QED
        BY <2>0, <3>2, <3>3, <3>4, <3>5, GrantBacked
    <2>3. CASE PollNewLease(j) /\ CanGrant(PurgedLeases, j) /\ Head(QueueWith(p)) = p
      <3> DEFINE l == [id |-> j, reserved |-> Need[j], exclusive |-> Exclusive(j),
                       holders |-> 1, fresh |-> TRUE]
      <3>1. l \in Lease /\ l.fresh /\ l.id = j /\ l.holders = 1
        BY DEF Lease, Exclusive
      <3>2. /\ lease' = [PurgedLeases EXCEPT ![PidOf[j]] = l]
            /\ at' = [at EXCEPT ![j] = "holding"]
            /\ ticket' = [ticket EXCEPT ![j] = l.id]
        BY <2>3, <3>1 DEF PollNewLease
      <3> HIDE DEF l
      <3>3. stalls = 0 => p \notin Holders
        BY <2>0, <2>3, PurgeKeeps DEF PollNewLease, Backed, LeasesBacked, Holders
      <3>4. stalls = 0 => \A i \in Jobs : PidOf[i] = p => ticket[i] = NoLease
        BY <3>3 DEF Backed, LeasesBacked
      <3>5. stalls = 0 => TicketsOf(p) = {}
        BY <3>4 DEF TicketsOf
      <3>6. stalls = 0 => l.holders = Cardinality(TicketsOf(PidOf[j])) + 1
        <4>1. stalls = 0 => Cardinality(TicketsOf(p)) = 0
          BY <3>5, FS_EmptySet
        <4> QED
          BY <3>1, <4>1
      <3>7. \A i \in Jobs \ {j} : stalls = 0 /\ PidOf[i] = PidOf[j] /\ ticket[i] # NoLease =>
               l.id = ticket[i]
        BY <3>4
      <3> QED
        BY <2>0, <3>1, <3>2, <3>6, <3>7, GrantBacked
    <2> QED
      BY <1>2, <2>1, <2>2, <2>3 DEF Poll, PollOwnLease, PollNewLease
  <1>3. ASSUME NEW j \in Jobs, Release(j)
        PROVE  Backed'
    BY <1>3, ReleaseBacked
  <1>4. ASSUME NEW j \in Jobs, Heartbeat(j)
        PROVE  Backed'
    <2> DEFINE p == PidOf[j]
               l == [lease[p] EXCEPT !.fresh = TRUE]
    <2>1. lease[p] \in Lease /\ UNCHANGED <<alive, at, ticket, stalls>>
      BY <1>4 DEF Heartbeat, TypeTickets
    <2>2. l \in Lease /\ l.id = lease[p].id /\ l.holders = lease[p].holders
      BY Zenon, <2>1, FreshType
    <2>3. l.fresh
      BY <2>1 DEF Lease
    <2>4. lease'[p] = l /\ \A q \in Pids \ {p} : lease'[q] = lease[q]
      BY <1>4 DEF Heartbeat, TypeTickets
    <2> HIDE DEF l
    <2>5. Holders' = Holders
      BY <2>1, <2>2, <2>4 DEF Holders
    <2>6. LeasesBacked => LeasesBacked'
      <3>1. \A q \in Pids : TicketsOf(q)' = TicketsOf(q)
        BY <2>1 DEF TicketsOf
      <3>2. \A q \in Holders :
               /\ q \in Pids
               /\ lease'[q].id = lease[q].id /\ lease'[q].holders = lease[q].holders
               /\ lease'[q].fresh \/ lease'[q] = lease[q]
        BY <2>2, <2>3, <2>4 DEF Holders
      <3> HIDE DEF p
      <3> QED
        BY <2>1, <2>5, <3>1, <3>2 DEF LeasesBacked
    <2> QED
      BY <2>1, <2>6 DEF Backed
  <1>5. CASE Status
    BY <1>5, PurgeBacked DEF Status
  <1>6. ASSUME NEW p \in Pids, Stall(p)
        PROVE  Backed'
    <2>1. stalls' # 0
      BY <1>6 DEF Stall, TypeTickets
    <2> QED
      BY <1>6, <2>1 DEF Stall, Backed
  <1>7. ASSUME NEW p \in Pids, Die(p)
        PROVE  Backed'
    <2>1. /\ lease' = lease /\ stalls' = stalls
          /\ \A q \in Pids : alive'[q] = IF q = p THEN FALSE ELSE alive[q]
          /\ \A i \in Jobs : /\ at'[i] = IF PidOf[i] = p THEN "dead" ELSE at[i]
                             /\ ticket'[i] = IF PidOf[i] = p THEN NoLease ELSE ticket[i]
      BY <1>7 DEF Die, TypeTickets, fileVars
    <2>2. \A q \in Pids \ {p} : TicketsOf(q)' = TicketsOf(q)
      BY <2>1 DEF TicketsOf
    <2>3. ASSUME LeasesBacked
          PROVE  LeasesBacked'
      <3>1. Holders' = Holders
        BY <2>1 DEF Holders
      <3>2. \A q \in Holders' : lease'[q].fresh
        BY Zenon, <2>1, <2>3, <3>1 DEF LeasesBacked
      <3>3. \A i \in Jobs : ticket'[i] # NoLease =>
               PidOf[i] \in Holders' /\ lease'[PidOf[i]].id = ticket'[i]
        <4>1. \A i \in Jobs : ticket'[i] # NoLease => ticket'[i] = ticket[i]
          BY Zenon, <2>1
        <4> QED
          BY Zenon, <2>1, <2>3, <3>1, <4>1 DEF LeasesBacked
      <3>4. ASSUME NEW q \in Holders', alive'[q]
            PROVE  lease'[q].holders = Cardinality(TicketsOf(q)')
        <4>1. q \in Holders /\ q \in Pids \ {p} /\ alive[q]
          BY <2>1, <3>1, <3>4 DEF Holders
        <4>2. TicketsOf(q)' = TicketsOf(q) /\ lease'[q].holders = lease[q].holders
          BY Zenon, <2>1, <2>2, <4>1
        <4> QED
          BY Zenon, <2>3, <4>1, <4>2 DEF LeasesBacked
      <3> QED
        BY Zenon, <3>2, <3>3, <3>4 DEF LeasesBacked
    <2> QED
      BY <2>1, <2>3 DEF Backed
  <1>8. CASE UNCHANGED vars
    BY <1>8 DEF vars, fileVars, Backed, LeasesBacked, Holders, TicketsOf
  <1> QED
    BY <1>1, <1>2, <1>3, <1>4, <1>5, <1>6, <1>7, <1>8 DEF Next

(* While no process is held up, every ticket is backed by a lease of its   *)
(* process, and the lease counts its tickets, for any number of processes  *)
(* and jobs, whatever dies, shares, times out or is purged. *)
THEOREM TicketsAreBacked == Spec => []TicketsBacked
  <1>1. Init => Backed
    BY DEF Init, Backed, LeasesBacked, Holders
  <1>2. Spec => []Backed
    BY <1>1, BackedStep, TicketTypes, PTL DEF Spec
  <1> QED
    BY <1>2, BackedTickets, PTL

-----------------------------------------------------------------------------
(* Sums over finite sets: what SumFunctionOnSet, a recursive function over *)
(* the subsets of its set, computes.                                       *)

(* Among sets of subsets of a finite set each has one without a smaller    *)
(* one: what holds of a set whenever it holds of all smaller ones holds of *)
(* every finite set.                                                       *)
LEMMA SmallestSet ==
    ASSUME NEW S, IsFiniteSet(S), NEW Bad \in SUBSET SUBSET S, Bad # {}
    PROVE  \E s \in Bad : \A t \in SUBSET s : t # s => t \notin Bad
  <1> DEFINE Sizes == {Cardinality(s) : s \in Bad}
  <1>1. \A s \in SUBSET S : IsFiniteSet(s) /\ Cardinality(s) \in Nat
    BY FS_Subset, FS_CardinalityType
  <1>2. Sizes \subseteq Nat /\ Sizes # {}
    BY <1>1
  <1> HIDE DEF Sizes
  <1>5. PICK n \in Sizes : \A m \in Nat : m < n => m \notin Sizes
    BY <1>2, SmallestNumber
  <1>6. PICK s \in Bad : n = Cardinality(s)
    BY <1>5 DEF Sizes
  <1>7. ASSUME NEW t \in SUBSET s, t # s, t \in Bad
        PROVE  FALSE
    <2>1. Cardinality(t) < Cardinality(s)
      BY <1>1, <1>6, <1>7, FS_Subset
    <2>2. Cardinality(t) \in Sizes
      BY <1>7 DEF Sizes
    <2> QED
      BY <1>1, <1>2, <1>5, <1>6, <2>1, <2>2
  <1> QED
    BY <1>6, <1>7

(* How SumFunctionOnSet goes through a set                                 *)
Pick(s) == CHOOSE x \in s : TRUE

Adds(total, w, S) ==
    total = [s \in SUBSET S |-> IF s = {} THEN 0 ELSE w[Pick(s)] + total[s \ {Pick(s)}]]

Totals(w, S) == CHOOSE total : Adds(total, w, S)

(* The library's sum is a total in this sense.                             *)
LEMMA SumIsTotal ==
    ASSUME NEW w, NEW S
    PROVE  SumFunctionOnSet(w, S) = Totals(w, S)[S]
  BY DEF SumFunctionOnSet, FoldFunctionOnSet, MapThenFoldSet, Totals, Adds, Pick

(* What is picked is in the set, and the rest is smaller.                  *)
LEMMA PickIsIn ==
    ASSUME NEW s, s # {}
    PROVE  Pick(s) \in s /\ s \ {Pick(s)} \in SUBSET s /\ s \ {Pick(s)} # s
  <1>1. Pick(s) \in s
    BY DEF Pick
  <1> QED
    BY <1>1

(* Two totals agree where both are defined.                                *)
LEMMA OneTotal ==
    ASSUME NEW w, NEW S, IsFiniteSet(S), NEW T, T \subseteq S, NEW g, NEW h,
           Adds(g, w, S), Adds(h, w, T)
    PROVE  \A t \in SUBSET T : g[t] = h[t]
  <1> DEFINE Bad == {t \in SUBSET T : g[t] # h[t]}
  <1>0. Bad \in SUBSET SUBSET T
    OBVIOUS
  <1>1. SUFFICES ASSUME Bad # {} PROVE FALSE
    OBVIOUS
  <1> HIDE DEF Bad
  <1>2. IsFiniteSet(T)
    BY FS_Subset
  <1>3. PICK t \in Bad : \A u \in SUBSET t : u # t => u \notin Bad
    BY <1>0, <1>1, <1>2, SmallestSet
  <1> USE DEF Bad
  <1>4. /\ g[t] = IF t = {} THEN 0 ELSE w[Pick(t)] + g[t \ {Pick(t)}]
        /\ h[t] = IF t = {} THEN 0 ELSE w[Pick(t)] + h[t \ {Pick(t)}]
    BY DEF Adds
  <1>5. ASSUME t # {}
        PROVE  g[t \ {Pick(t)}] = h[t \ {Pick(t)}]
    <2>1. t \ {Pick(t)} \in SUBSET t /\ t \ {Pick(t)} # t
      BY <1>5, PickIsIn
    <2> QED
      BY <1>3, <2>1
  <1> QED
    BY <1>4, <1>5

(* So the total of a finite set is made from the total of the rest of it.  *)
LEMMA TotalExists ==
    ASSUME NEW w, NEW S, IsFiniteSet(S)
    PROVE  Adds(Totals(w, S), w, S)
  <1> DEFINE Bad == {s \in SUBSET S : ~Adds(Totals(w, s), w, s)}
  <1>0. Bad \in SUBSET SUBSET S
    OBVIOUS
  <1>1. SUFFICES ASSUME Bad # {} PROVE FALSE
    OBVIOUS
  <1> HIDE DEF Bad
  <1>2. PICK s \in Bad : \A t \in SUBSET s : t # s => t \notin Bad
    BY <1>0, <1>1, SmallestSet
  <1> USE DEF Bad
  <1>3. ASSUME NEW t \in SUBSET s, t # s
        PROVE  Adds(Totals(w, t), w, t) /\ IsFiniteSet(t)
    BY <1>2, <1>3, FS_Subset
  <1> DEFINE Rest(t) == t \ {Pick(t)}
             total == [t \in SUBSET s |-> IF t = {} THEN 0
                                          ELSE w[Pick(t)] + Totals(w, Rest(t))[Rest(t)]]
  <1>4. ASSUME NEW t \in SUBSET s, t # s
        PROVE  total[t] = Totals(w, t)[t]
    <2>1. CASE t = {}
      <3>1. Adds(Totals(w, t), w, t)
        BY <1>3, <1>4
      <3>2. Totals(w, t)[t] = 0
        BY <2>1, <3>1 DEF Adds
      <3> QED
        BY <2>1, <3>2
    <2>2. CASE t # {}
      <3>1. Rest(t) \in SUBSET t /\ Rest(t) # s
        BY <1>4, <2>2, PickIsIn
      <3>2. Adds(Totals(w, t), w, t) /\ Adds(Totals(w, Rest(t)), w, Rest(t)) /\ IsFiniteSet(t)
        BY <1>3, <1>4, <3>1
      <3>3. Totals(w, t)[Rest(t)] = Totals(w, Rest(t))[Rest(t)]
        BY <3>1, <3>2, OneTotal
      <3>4. Totals(w, t)[t] = w[Pick(t)] + Totals(w, t)[Rest(t)]
        BY <2>2, <3>2 DEF Adds
      <3> QED
        BY <2>2, <3>3, <3>4
    <2> QED
      BY <2>1, <2>2
  <1>5. Adds(total, w, s)
    <2>1. ASSUME NEW t \in SUBSET s, t # {}
          PROVE  total[Rest(t)] = Totals(w, Rest(t))[Rest(t)]
      BY <1>4, <2>1, PickIsIn
    <2> QED
      BY <2>1 DEF Adds
  <1>6. Adds(Totals(w, s), w, s)
    BY <1>5 DEF Totals
  <1> QED
    BY <1>2, <1>6

(* Nothing sums up to zero.                                                *)
LEMMA SumOfNone ==
    ASSUME NEW w
    PROVE  SumFunctionOnSet(w, {}) = 0
  <1>1. Adds(Totals(w, {}), w, {})
    BY TotalExists, FS_EmptySet
  <1>2. Totals(w, {})[{}] = 0
    BY <1>1 DEF Adds
  <1> QED
    BY <1>2, SumIsTotal

(* A sum is the weight picked first and the sum of the rest.               *)
LEMMA SumOfPick ==
    ASSUME NEW w, NEW S, IsFiniteSet(S), S # {}
    PROVE  SumFunctionOnSet(w, S) = w[Pick(S)] + SumFunctionOnSet(w, S \ {Pick(S)})
  <1> DEFINE R == S \ {Pick(S)}
  <1>1. R \subseteq S /\ Adds(Totals(w, S), w, S) /\ Adds(Totals(w, R), w, R)
    BY TotalExists, FS_Subset
  <1>3. Totals(w, S)[S] = w[Pick(S)] + Totals(w, S)[R]
    BY <1>1 DEF Adds
  <1> HIDE DEF R
  <1>2. Totals(w, S)[R] = Totals(w, R)[R]
    BY <1>1, OneTotal
  <1> QED
    BY <1>2, <1>3, SumIsTotal DEF R

(* A sum of numbers is one.                                                *)
LEMMA SumType ==
    ASSUME NEW S, IsFiniteSet(S), NEW w, \A x \in S : w[x] \in Nat
    PROVE  SumFunctionOnSet(w, S) \in Nat
  <1> DEFINE Bad == {s \in SUBSET S : SumFunctionOnSet(w, s) \notin Nat}
  <1>0. Bad \in SUBSET SUBSET S
    OBVIOUS
  <1>1. SUFFICES ASSUME Bad # {} PROVE FALSE
    OBVIOUS
  <1> HIDE DEF Bad
  <1>2. PICK s \in Bad : \A t \in SUBSET s : t # s => t \notin Bad
    BY <1>0, <1>1, SmallestSet
  <1> USE DEF Bad
  <1>none. s = {} => SumFunctionOnSet(w, s) = 0
    BY SumOfNone
  <1>3. s # {}
    BY <1>2, <1>none
  <1>4. SumFunctionOnSet(w, s) = w[Pick(s)] + SumFunctionOnSet(w, s \ {Pick(s)})
    BY <1>3, SumOfPick, FS_Subset
  <1>5. SumFunctionOnSet(w, s \ {Pick(s)}) \in Nat /\ w[Pick(s)] \in Nat
    BY <1>2, <1>3, PickIsIn
  <1> QED
    BY <1>2, <1>4, <1>5

(* It does not matter which item is counted first.                         *)
LEMMA SumWithout ==
    ASSUME NEW S, IsFiniteSet(S), NEW w, \A x \in S : w[x] \in Nat, NEW x \in S
    PROVE  SumFunctionOnSet(w, S) = w[x] + SumFunctionOnSet(w, S \ {x})
  <1> DEFINE SumOf(s) == SumFunctionOnSet(w, s)
             Bad == {s \in SUBSET S : \E y \in s : SumOf(s) # w[y] + SumOf(s \ {y})}
  <1>0. Bad \in SUBSET SUBSET S
    OBVIOUS
  <1>1. SUFFICES ASSUME Bad # {} PROVE FALSE
    OBVIOUS
  <1> HIDE DEF Bad
  <1>2. PICK s \in Bad : \A t \in SUBSET s : t # s => t \notin Bad
    BY <1>0, <1>1, SmallestSet
  <1> USE DEF Bad
  <1>3. PICK y \in s : SumOf(s) # w[y] + SumOf(s \ {y})
    BY <1>2
  <1> DEFINE c == Pick(s)
             r == s \ {c, y}
  <1>4. c \in s /\ SumOf(s) = w[c] + SumOf(s \ {c})
    BY <1>3, PickIsIn, SumOfPick, FS_Subset
  <1>5. c # y
    BY <1>3, <1>4
  <1> HIDE DEF c, SumOf
  <1>6. SumOf(s \ {c}) = w[y] + SumOf((s \ {c}) \ {y})
    BY <1>2, <1>4, <1>5
  <1>7. SumOf(s \ {y}) = w[c] + SumOf((s \ {y}) \ {c})
    BY <1>2, <1>3, <1>4, <1>5
  <1>8. (s \ {c}) \ {y} = r /\ (s \ {y}) \ {c} = r
    OBVIOUS
  <1>9. SumOf(r) \in Nat
    BY SumType, FS_Subset DEF SumOf
  <1>10. w[c] \in Nat /\ w[y] \in Nat
    BY <1>3, <1>4
  <1> HIDE DEF r
  <1>11. SumOf(s \ {c}) = w[y] + SumOf(r) /\ SumOf(s \ {y}) = w[c] + SumOf(r)
    BY <1>6, <1>7, <1>8
  <1>12. SumOf(s) = w[c] + (w[y] + SumOf(r)) /\ SumOf(s) # w[y] + (w[c] + SumOf(r))
    BY <1>3, <1>4, <1>11
  <1> QED
    BY <1>9, <1>10, <1>12

(* A sum depends on what is added only, and grows with it.                 *)
LEMMA SumGrows ==
    ASSUME NEW S, IsFiniteSet(S), NEW v, NEW w,
           \A x \in S : v[x] \in Nat /\ w[x] \in Nat /\ v[x] <= w[x]
    PROVE  SumFunctionOnSet(v, S) <= SumFunctionOnSet(w, S)
  <1> DEFINE V(s) == SumFunctionOnSet(v, s)
             W(s) == SumFunctionOnSet(w, s)
             Bad == {s \in SUBSET S : ~(V(s) <= W(s))}
  <1>0. Bad \in SUBSET SUBSET S
    OBVIOUS
  <1>1. SUFFICES ASSUME Bad # {} PROVE FALSE
    OBVIOUS
  <1> HIDE DEF Bad
  <1>2. PICK s \in Bad : \A t \in SUBSET s : t # s => t \notin Bad
    BY <1>0, <1>1, SmallestSet
  <1> USE DEF Bad
  <1>none. s = {} => V(s) = 0 /\ W(s) = 0
    BY SumOfNone
  <1>3. s # {}
    BY <1>2, <1>none
  <1> DEFINE c == Pick(s)
  <1>4. /\ c \in s /\ V(s) = v[c] + V(s \ {c}) /\ W(s) = w[c] + W(s \ {c})
    BY <1>3, PickIsIn, SumOfPick, FS_Subset
  <1>5. V(s \ {c}) \in Nat /\ W(s \ {c}) \in Nat
    BY SumType, FS_Subset
  <1> HIDE DEF c, V, W
  <1>6. V(s \ {c}) <= W(s \ {c})
    BY <1>2, <1>4
  <1>7. v[c] \in Nat /\ w[c] \in Nat /\ v[c] <= w[c]
    BY <1>4
  <1> QED
    BY <1>2, <1>4, <1>5, <1>6, <1>7

(* Weights that are the same have the same sum.                            *)
LEMMA SumOfSame ==
    ASSUME NEW S, IsFiniteSet(S), NEW v, NEW w, \A x \in S : w[x] \in Nat /\ v[x] = w[x]
    PROVE  SumFunctionOnSet(v, S) = SumFunctionOnSet(w, S)
  <1>1. SumFunctionOnSet(v, S) <= SumFunctionOnSet(w, S) /\ SumFunctionOnSet(w, S) <= SumFunctionOnSet(v, S)
    BY SumGrows
  <1>2. SumFunctionOnSet(v, S) \in Nat /\ SumFunctionOnSet(w, S) \in Nat
    BY SumType
  <1> QED
    BY <1>1, <1>2

(* A part of a set sums up to no more than the set.                        *)
LEMMA SumOfPart ==
    ASSUME NEW S, IsFiniteSet(S), NEW w, \A x \in S : w[x] \in Nat, NEW T, T \subseteq S
    PROVE  SumFunctionOnSet(w, T) <= SumFunctionOnSet(w, S)
  <1> DEFINE SumOf(s) == SumFunctionOnSet(w, s)
             Bad == {s \in SUBSET S : T \subseteq s /\ ~(SumOf(T) <= SumOf(s))}
  <1>0. Bad \in SUBSET SUBSET S
    OBVIOUS
  <1>1. SUFFICES ASSUME Bad # {} PROVE FALSE
    OBVIOUS
  <1> HIDE DEF Bad
  <1>2. PICK s \in Bad : \A t \in SUBSET s : t # s => t \notin Bad
    BY <1>0, <1>1, SmallestSet
  <1> USE DEF Bad
  <1>3. \A t \in SUBSET S : SumOf(t) \in Nat
    BY SumType, FS_Subset
  <1> HIDE DEF SumOf
  <1>4. T # s
    BY <1>2, <1>3
  <1>5. PICK x \in s : x \notin T
    BY <1>2, <1>4
  <1>6. SumOf(s) = w[x] + SumOf(s \ {x})
    BY <1>5, SumWithout, FS_Subset DEF SumOf
  <1>7. SumOf(T) <= SumOf(s \ {x})
    BY <1>2, <1>5
  <1> QED
    BY <1>2, <1>3, <1>5, <1>6, <1>7

(* Numbers that fit one to one below others sum up to no more than those.  *)
LEMMA SumFitsBelow ==
    ASSUME NEW S, IsFiniteSet(S), NEW P, IsFiniteSet(P), NEW w, NEW v, NEW f,
           \A x \in S : w[x] \in Nat /\ f[x] \in P /\ w[x] <= v[f[x]],
           \A p \in P : v[p] \in Nat,
           \A x, y \in S : f[x] = f[y] => x = y
    PROVE  SumFunctionOnSet(w, S) <= SumFunctionOnSet(v, P)
  <1> DEFINE W(s) == SumFunctionOnSet(w, s)
             V(r) == SumFunctionOnSet(v, r)
             Bad == {s \in SUBSET S :
                        \E r \in SUBSET P : (\A x \in s : f[x] \in r) /\ ~(W(s) <= V(r))}
  <1>1. Bad \in SUBSET SUBSET S
    OBVIOUS
  <1>2. Bad = {} => SumFunctionOnSet(w, S) <= SumFunctionOnSet(v, P)
    OBVIOUS
  <1>3. SUFFICES ASSUME Bad # {} PROVE FALSE
    BY <1>2
  <1> HIDE DEF Bad
  <1>4. PICK s \in Bad : \A t \in SUBSET s : t # s => t \notin Bad
    BY <1>1, <1>3, SmallestSet
  <1> USE DEF Bad
  <1>5. PICK r \in SUBSET P : (\A x \in s : f[x] \in r) /\ ~(W(s) <= V(r))
    BY <1>4
  <1>6. V(r) \in Nat
    BY SumType, FS_Subset
  <1>7. s = {} => W(s) = 0
    BY SumOfNone
  <1> HIDE DEF W, V
  <1>8. PICK x \in s : TRUE
    BY <1>5, <1>6, <1>7
  <1>9. /\ W(s) = w[x] + W(s \ {x})
        /\ V(r) = v[f[x]] + V(r \ {f[x]})
    BY <1>5, <1>8, SumWithout, FS_Subset DEF W, V
  <1>10. W(s \ {x}) \in Nat /\ V(r \ {f[x]}) \in Nat
    BY SumType, FS_Subset DEF W, V
  <1>11. W(s \ {x}) <= V(r \ {f[x]})
    <2>1. s \ {x} \in SUBSET S /\ s \ {x} \in SUBSET s /\ s \ {x} # s
      BY <1>8
    <2>2. \A y \in s \ {x} : f[y] \in r \ {f[x]}
      BY <1>5, <1>8
    <2> QED
      BY <1>4, <2>1, <2>2
  <1>12. w[x] \in Nat /\ v[f[x]] \in Nat /\ w[x] <= v[f[x]]
    BY <1>8
  <1> QED
    BY <1>5, <1>9, <1>10, <1>11, <1>12

-----------------------------------------------------------------------------
(* What leases reserve.                                                    *)

HoldersIn(leases) == {p \in Pids : leases[p] # NoLease}

(* Only processes with jobs ever have a lease *)
Askers == {PidOf[j] : j \in Jobs}

(* Jobs are finitely many, and with them the processes that ask.           *)
LEMMA AskersAreFinite == IsFiniteSet(Askers) /\ Askers \subseteq Pids
  <1>1. Askers \subseteq Pids
    BY DEF Askers
  <1>2. PidOf \in Surjection(Jobs, Askers)
    <2>1. PidOf \in [Jobs -> Askers]
      BY DEF Askers
    <2> QED
      BY <2>1 DEF Surjection, Askers
  <1> QED
    BY <1>1, <1>2, FS_Surjection

(* What finitely many leases reserve is a number.                          *)
LEMMA ReservedType ==
    ASSUME NEW leases \in [Pids -> Lease \cup {NoLease}], NEW S \in SUBSET HoldersIn(leases),
           IsFiniteSet(S)
    PROVE  Reserved(leases, S) \in Nat
  <1> DEFINE w == [p \in S |-> leases[p].reserved]
  <1>1. \A p \in S : w[p] \in Nat
    BY LeaseFields DEF HoldersIn
  <1>2. Reserved(leases, S) = SumFunctionOnSet(w, S)
    BY DEF Reserved, SumFunction
  <1> HIDE DEF w
  <1> QED
    BY <1>1, <1>2, SumType

(* Part of the leases reserve no more than all.                            *)
LEMMA ReservedOfPart ==
    ASSUME NEW leases \in [Pids -> Lease \cup {NoLease}], NEW S \in SUBSET HoldersIn(leases),
           IsFiniteSet(S), NEW T \in SUBSET S
    PROVE  Reserved(leases, T) <= Reserved(leases, S)
  <1> DEFINE w == [p \in S |-> leases[p].reserved]
             v == [p \in T |-> leases[p].reserved]
  <1>1. /\ \A p \in S : w[p] \in Nat
        /\ \A p \in T : v[p] = w[p]
        /\ IsFiniteSet(T)
    BY LeaseFields, FS_Subset DEF HoldersIn
  <1>2. Reserved(leases, S) = SumFunctionOnSet(w, S) /\ Reserved(leases, T) = SumFunctionOnSet(v, T)
    BY DEF Reserved, SumFunction
  <1> HIDE DEF v, w
  <1>3. SumFunctionOnSet(v, T) = SumFunctionOnSet(w, T)
    BY <1>1, SumOfSame
  <1>4. SumFunctionOnSet(w, T) <= SumFunctionOnSet(w, S)
    BY <1>1, SumOfPart
  <1> QED
    BY <1>2, <1>3, <1>4

(* All of them reserve what one does and what the others do.               *)
LEMMA ReservedBesides ==
    ASSUME NEW leases \in [Pids -> Lease \cup {NoLease}], IsFiniteSet(HoldersIn(leases)),
           NEW p \in HoldersIn(leases)
    PROVE  Reserved(leases, HoldersIn(leases)) = leases[p].reserved + ReservedByOthers(leases, p)
  <1> DEFINE S == HoldersIn(leases)
             w == [q \in S |-> leases[q].reserved]
             v == [q \in S \ {p} |-> leases[q].reserved]
  <1>1. /\ \A q \in S : w[q] \in Nat
        /\ \A q \in S \ {p} : w[q] \in Nat /\ v[q] = w[q]
        /\ IsFiniteSet(S \ {p})
        /\ w[p] = leases[p].reserved
    BY LeaseFields, FS_Subset DEF HoldersIn
  <1>2. S \ {p} = Others(leases, p)
    BY DEF HoldersIn, Others
  <1>3. /\ Reserved(leases, S) = SumFunctionOnSet(w, S)
        /\ ReservedByOthers(leases, p) = SumFunctionOnSet(v, S \ {p})
    BY <1>2 DEF Reserved, ReservedByOthers, SumFunction
  <1>4. p \in S /\ IsFiniteSet(S)
    OBVIOUS
  <1> HIDE DEF v, w, S
  <1>5. SumFunctionOnSet(v, S \ {p}) = SumFunctionOnSet(w, S \ {p})
    BY <1>1, SumOfSame
  <1>6. SumFunctionOnSet(w, S) = w[p] + SumFunctionOnSet(w, S \ {p})
    BY <1>1, <1>4, SumWithout
  <1> QED
    BY <1>1, <1>3, <1>5, <1>6 DEF S

(* Reservations are counted lease by lease.                                *)
LEMMA ReservedSame ==
    ASSUME NEW leases, NEW others, NEW S, \A p \in S : others[p].reserved = leases[p].reserved
    PROVE  Reserved(others, S) = Reserved(leases, S)
  <1>1. [p \in S |-> others[p].reserved] = [p \in S |-> leases[p].reserved]
    OBVIOUS
  <1> QED
    BY <1>1 DEF Reserved

FitsBudget(leases) ==
    /\ HoldersIn(leases) \subseteq Askers
    /\ Reserved(leases, HoldersIn(leases)) <= Budget

(* The property is the second part of FitsBudget, of the leases there are. *)
LEMMA BudgetIs ==
    /\ WithinBudget <=> Reserved(lease, HoldersIn(lease)) <= Budget
    /\ Holders = HoldersIn(lease)
  BY DEF WithinBudget, HoldersIn, Holders

(* A lease may be replaced by one that fits beside the others, or by none. *)
LEMMA ReplacedFits ==
    ASSUME NEW leases \in [Pids -> Lease \cup {NoLease}], FitsBudget(leases),
           NEW p \in Askers, NEW l \in Lease \cup {NoLease},
           l # NoLease => ReservedByOthers(leases, p) + l.reserved <= Budget
    PROVE  FitsBudget([leases EXCEPT ![p] = l])
  <1> DEFINE new == [leases EXCEPT ![p] = l]
  <1>1. /\ new \in [Pids -> Lease \cup {NoLease}]
        /\ p \in Pids
        /\ new[p] = l
        /\ \A q \in Pids \ {p} : new[q] = leases[q]
    BY AskersAreFinite
  <1> SUFFICES FitsBudget(new)
    OBVIOUS
  <1> HIDE DEF new
  <1>2. HoldersIn(new) \subseteq Askers
    BY <1>1 DEF HoldersIn, FitsBudget
  <1>3. IsFiniteSet(HoldersIn(new)) /\ IsFiniteSet(HoldersIn(leases))
    BY <1>2, AskersAreFinite, FS_Subset DEF FitsBudget
  <1>4. Others(new, p) = Others(leases, p)
    BY <1>1 DEF Others
  <1>5. ReservedByOthers(new, p) = ReservedByOthers(leases, p)
    <2>1. \A q \in Others(leases, p) : new[q].reserved = leases[q].reserved
      BY <1>1 DEF Others
    <2> QED
      BY <1>4, <2>1, ReservedSame DEF ReservedByOthers
  <1>6. CASE l # NoLease
    <2>1. p \in HoldersIn(new)
      BY <1>1, <1>6 DEF HoldersIn
    <2>2. Reserved(new, HoldersIn(new)) = l.reserved + ReservedByOthers(new, p)
      BY <1>1, <1>3, <2>1, ReservedBesides
    <2>3. l.reserved \in Nat
      BY <1>6, LeaseFields
    <2>4. ReservedByOthers(leases, p) \in Nat
      <3>1. Others(leases, p) \in SUBSET HoldersIn(leases) /\ IsFiniteSet(Others(leases, p))
        BY <1>3, FS_Subset DEF Others, HoldersIn
      <3> QED
        BY <3>1, ReservedType DEF ReservedByOthers
    <2> QED
      BY <1>2, <1>5, <1>6, <2>2, <2>3, <2>4 DEF FitsBudget
  <1>7. CASE l = NoLease
    <2>1. HoldersIn(new) = Others(leases, p)
      BY <1>1, <1>7 DEF HoldersIn, Others
    <2>2. Reserved(new, HoldersIn(new)) = ReservedByOthers(leases, p)
      BY <1>4, <1>5, <2>1 DEF ReservedByOthers
    <2>3. Others(leases, p) \in SUBSET HoldersIn(leases)
      BY DEF Others, HoldersIn
    <2>4. ReservedByOthers(leases, p) <= Reserved(leases, HoldersIn(leases))
      BY <1>3, <2>3, ReservedOfPart DEF ReservedByOthers
    <2>5. ReservedByOthers(leases, p) \in Nat /\ Reserved(leases, HoldersIn(leases)) \in Nat
      BY <1>3, <2>3, ReservedType, FS_Subset DEF ReservedByOthers
    <2> QED
      BY <1>2, <2>2, <2>4, <2>5 DEF FitsBudget
  <1> QED
    BY <1>6, <1>7

(* What a lease reserved may be reserved again.                            *)
LEMMA OwnFits ==
    ASSUME NEW leases \in [Pids -> Lease \cup {NoLease}], FitsBudget(leases),
           NEW p \in HoldersIn(leases)
    PROVE  ReservedByOthers(leases, p) + leases[p].reserved <= Budget
  <1>1. IsFiniteSet(HoldersIn(leases))
    BY AskersAreFinite, FS_Subset DEF FitsBudget
  <1>2. Others(leases, p) \in SUBSET HoldersIn(leases) /\ IsFiniteSet(Others(leases, p))
    BY <1>1, FS_Subset DEF Others, HoldersIn
  <1>3. ReservedByOthers(leases, p) \in Nat /\ leases[p].reserved \in Nat
    BY <1>2, ReservedType, LeaseFields DEF ReservedByOthers, HoldersIn
  <1>4. Reserved(leases, HoldersIn(leases)) = leases[p].reserved + ReservedByOthers(leases, p)
    BY <1>1, ReservedBesides
  <1> QED
    BY <1>3, <1>4 DEF FitsBudget

(* What is left after a purge reserves no more than before.                *)
LEMMA PurgedFits ==
    ASSUME TypeTickets, FitsBudget(lease)
    PROVE  FitsBudget(PurgedLeases)
  <1> DEFINE S == HoldersIn(PurgedLeases)
  <1>1. S \in SUBSET HoldersIn(lease) /\ \A p \in S : PurgedLeases[p].reserved = lease[p].reserved
    BY PurgeKeeps DEF HoldersIn
  <1>2. IsFiniteSet(HoldersIn(lease)) /\ IsFiniteSet(S) /\ S \subseteq Askers
    BY <1>1, AskersAreFinite, FS_Subset DEF FitsBudget
  <1>3. lease \in [Pids -> Lease \cup {NoLease}]
    BY DEF TypeTickets
  <1> HIDE DEF S
  <1>4. Reserved(PurgedLeases, S) = Reserved(lease, S)
    BY <1>1, ReservedSame
  <1>5. Reserved(lease, S) <= Reserved(lease, HoldersIn(lease))
    BY <1>1, <1>2, <1>3, ReservedOfPart
  <1>6. Reserved(lease, S) \in Nat /\ Reserved(lease, HoldersIn(lease)) \in Nat
    BY <1>1, <1>2, <1>3, ReservedType
  <1> QED
    BY <1>2, <1>4, <1>5, <1>6 DEF FitsBudget, S

(* A release leaves a lease with what it reserved, or no lease.            *)
LEMMA LeaseWithoutReserved ==
    ASSUME TypeTickets, NEW j \in Jobs, LeaseWithout(j) # NoLease
    PROVE  /\ PidOf[j] \in Holders
           /\ LeaseWithout(j).reserved = lease[PidOf[j]].reserved
  <1> DEFINE l == lease[PidOf[j]]
  <1>1. l # NoLease /\ l \in Lease
    BY DEF LeaseWithout, TypeTickets
  <1>2. [l EXCEPT !.holders = @ - 1].reserved = l.reserved
    BY <1>1 DEF Lease
  <1> QED
    BY <1>1, <1>2 DEF LeaseWithout, Holders

(* The budget is kept by every step: who grows is compared with what the   *)
(* others reserve, and who does not grow reserves what it did.             *)
LEMMA FitsStep ==
    ASSUME TypeTickets, FitsBudget(lease), [Next]_vars
    PROVE  FitsBudget(lease')
  <1>0. lease \in [Pids -> Lease \cup {NoLease}]
    BY DEF TypeTickets
  <1>1. CASE UNCHANGED lease
    BY <1>1
  <1>2. CASE lease' = PurgedLeases
    BY <1>2, PurgedFits
  <1>3. ASSUME NEW j \in Jobs, PollOwnLease(j), lease' # PurgedLeases
        PROVE  FitsBudget(lease')
    <2> DEFINE p == PidOf[j]
               own == PurgedLeases[p]
               l == Shared(own, j)
    <2>1. /\ own \in Lease /\ own # NoLease /\ p \in Askers /\ p \in HoldersIn(PurgedLeases)
          /\ CanGrow(PurgedLeases, j)
          /\ lease' = [PurgedLeases EXCEPT ![p] = l]
      BY <1>3, PurgeKeeps DEF PollOwnLease, Askers, HoldersIn
    <2>2. l \in Lease /\ l.reserved = IF Need[j] > own.reserved THEN Need[j] ELSE own.reserved
      BY <2>1, SharedType DEF Shared
    <2>3. PurgedLeases \in [Pids -> Lease \cup {NoLease}] /\ FitsBudget(PurgedLeases)
      BY PurgeKeeps, PurgedFits
    <2>4. ReservedByOthers(PurgedLeases, p) + own.reserved <= Budget
      BY <2>1, <2>3, OwnFits
    <2>5. Need[j] > own.reserved => ReservedByOthers(PurgedLeases, p) + Need[j] <= Budget
      BY <2>1, LeaseFields DEF CanGrow
    <2> HIDE DEF own, l, p
    <2>6. ReservedByOthers(PurgedLeases, p) + l.reserved <= Budget
      BY <2>2, <2>4, <2>5
    <2> QED
      BY <2>1, <2>2, <2>3, <2>6, ReplacedFits
  <1>4. ASSUME NEW j \in Jobs, PollNewLease(j), lease' # PurgedLeases
        PROVE  FitsBudget(lease')
    <2> DEFINE p == PidOf[j]
               l == [id |-> j, reserved |-> Need[j], exclusive |-> Exclusive(j),
                     holders |-> 1, fresh |-> TRUE]
    <2>1. p \in Askers /\ CanGrant(PurgedLeases, j) /\ lease' = [PurgedLeases EXCEPT ![p] = l]
      BY <1>4 DEF PollNewLease, Askers
    <2>2. l \in Lease /\ l.reserved = Need[j]
      BY DEF Lease, Exclusive
    <2>3. PurgedLeases \in [Pids -> Lease \cup {NoLease}] /\ FitsBudget(PurgedLeases)
      BY PurgeKeeps, PurgedFits
    <2>4. ReservedByOthers(PurgedLeases, p) + Need[j] <= Budget
      BY <2>1 DEF CanGrant
    <2> HIDE DEF l, p
    <2> QED
      BY <2>1, <2>2, <2>3, <2>4, ReplacedFits
  <1>5. ASSUME NEW j \in Jobs, Release(j)
        PROVE  FitsBudget(lease')
    <2> DEFINE p == PidOf[j]
               l == LeaseWithout(j)
    <2>1. p \in Askers /\ l \in Lease \cup {NoLease} /\ lease' = [lease EXCEPT ![p] = l]
      BY <1>5, LeaseWithoutType DEF Release, Askers
    <2>2. l # NoLease => p \in HoldersIn(lease) /\ l.reserved = lease[p].reserved
      BY LeaseWithoutReserved DEF HoldersIn, Holders
    <2> HIDE DEF l, p
    <2>3. l # NoLease => ReservedByOthers(lease, p) + l.reserved <= Budget
      BY <1>0, <2>2, OwnFits
    <2> QED
      BY <1>0, <2>1, <2>3, ReplacedFits
  <1>6. ASSUME NEW p \in Pids, lease[p] # NoLease, NEW b \in BOOLEAN,
               lease' = [lease EXCEPT ![p].fresh = b]
        PROVE  FitsBudget(lease')
    <2> DEFINE l == [lease[p] EXCEPT !.fresh = b]
    <2>1. lease[p] \in Lease /\ p \in HoldersIn(lease)
      BY <1>0, <1>6 DEF HoldersIn
    <2>2. l \in Lease /\ l.reserved = lease[p].reserved
      BY Zenon, <2>1, FreshType
    <2>3. lease' = [lease EXCEPT ![p] = l] /\ p \in Askers
      BY <1>6, <2>1 DEF FitsBudget
    <2> HIDE DEF l
    <2>4. ReservedByOthers(lease, p) + l.reserved <= Budget
      BY <1>0, <2>1, <2>2, OwnFits
    <2> QED
      BY <1>0, <2>2, <2>3, <2>4, ReplacedFits
  <1> QED
    BY <1>1, <1>2, <1>3, <1>4, <1>5, <1>6
    DEF Next, vars, fileVars, Ask, Poll, TimeOut, Load, Unload, Heartbeat, Status, Stall, Die, Holders

(* Leases belong to processes that ask, and fit the budget together.       *)
LEMMA BudgetFits == Spec => []FitsBudget(lease)
  <1>1. Init => FitsBudget(lease)
    <2>1. Init => HoldersIn(lease) = {}
      BY DEF Init, HoldersIn
    <2>2. Reserved(lease, {}) = 0
      BY SumOfNone DEF Reserved, SumFunction
    <2>3. 0 <= Budget
      OBVIOUS
    <2>4. Init => Reserved(lease, HoldersIn(lease)) <= Budget
      BY <2>1, <2>2, <2>3
    <2> QED
      BY <2>1, <2>4 DEF FitsBudget
  <1>2. TypeTickets /\ FitsBudget(lease) /\ [Next]_vars => FitsBudget(lease)'
    BY FitsStep
  <1> QED
    BY <1>1, <1>2, TicketTypes, PTL DEF Spec

(* All leases together never exceed the budget, however they are opened,   *)
(* shared, grown, purged and released, for any number of processes and     *)
(* jobs of any size (_can_grant, _can_grow).                               *)
THEOREM BudgetIsKept == Spec => []WithinBudget
  <1>1. FitsBudget(lease) => WithinBudget
    BY BudgetIs DEF FitsBudget
  <1> QED
    BY <1>1, BudgetFits, PTL

-----------------------------------------------------------------------------
(* While no process is held up, no ticket was given for more than its      *)
(* lease reserves.                                                         *)
TicketsCovered ==
    stalls = 0 =>
        \A j \in Jobs : ticket[j] # NoLease => Need[j] <= lease[PidOf[j]].reserved

(* A lease that is shared grows with the largest ticket, and shrinks not   *)
(* even when that one is released; nobody opens a second lease beside      *)
(* tickets that are in use.                                                *)
LEMMA CoveredStep ==
    ASSUME TypeTickets, Backed, Backed', TicketsCovered, [Next]_vars
    PROVE  TicketsCovered'
  <1> SUFFICES ASSUME stalls' = 0, NEW j \in Jobs, ticket'[j] # NoLease
               PROVE  Need[j] <= lease'[PidOf[j]].reserved
    BY DEF TicketsCovered
  <1>1. stalls = 0
    <2>1. stalls' = stalls \/ stalls' = stalls + 1
      BY DEF Next, Ask, Poll, TimeOut, Load, Release, Unload, Heartbeat, Status, Stall, Die, vars
    <2> QED
      BY <2>1 DEF TypeTickets
  <1>2. LeasesBacked /\ LeasesBacked'
    BY <1>1 DEF Backed
  <1>3. PidOf[j] \in Pids /\ lease'[PidOf[j]] # NoLease
    BY <1>2 DEF LeasesBacked, Holders
  <1>4. ASSUME ticket[j] # NoLease
        PROVE  /\ Need[j] <= lease[PidOf[j]].reserved
               /\ PidOf[j] \in Holders /\ lease[PidOf[j]] \in Lease
               /\ alive[PidOf[j]] /\ lease[PidOf[j]].fresh
               /\ PurgedLeases[PidOf[j]] = lease[PidOf[j]]
    <2>1. Need[j] <= lease[PidOf[j]].reserved
      BY <1>1, <1>4 DEF TicketsCovered
    <2>2. PidOf[j] \in Holders /\ lease[PidOf[j]] \in Lease
      BY <1>2, <1>4 DEF LeasesBacked, Holders, TypeTickets
    <2>3. alive[PidOf[j]] /\ lease[PidOf[j]].fresh
      BY <1>2, <1>4, <2>2 DEF Backed, LeasesBacked
    <2> QED
      BY <2>1, <2>2, <2>3, PurgeKeeps
  <1>5. CASE UNCHANGED <<lease, ticket>>
    BY <1>4, <1>5
  <1>6. CASE lease' = PurgedLeases /\ UNCHANGED ticket
    BY <1>4, <1>6
  <1>7. ASSUME NEW i \in Jobs, PollOwnLease(i), CanGrow(PurgedLeases, i)
        PROVE  Need[j] <= lease'[PidOf[j]].reserved
    <2> DEFINE own == PurgedLeases[PidOf[i]]
               l == Shared(own, i)
    <2>1. /\ own \in Lease
          /\ lease' = [PurgedLeases EXCEPT ![PidOf[i]] = l]
          /\ \A k \in Jobs : k # i => ticket'[k] = ticket[k]
      BY <1>7, PurgeKeeps DEF PollOwnLease, TypeTickets
    <2>2. Need[i] <= l.reserved /\ own.reserved <= l.reserved
      BY <2>1, LeaseFields DEF Shared
    <2>3. own.reserved \in Nat /\ l.reserved \in Nat
      BY <2>1, LeaseFields, SharedType
    <2>4. lease'[PidOf[i]] = l /\ \A p \in Pids : p # PidOf[i] => lease'[p] = PurgedLeases[p]
      BY <2>1, PurgeKeeps
    <2>5. j # i /\ PidOf[j] = PidOf[i] => Need[j] <= own.reserved
      BY <1>4, <2>1
    <2> HIDE DEF own, l
    <2>6. CASE j = i
      BY <2>2, <2>4, <2>6
    <2>7. CASE j # i /\ PidOf[j] = PidOf[i]
      BY <2>2, <2>3, <2>4, <2>5, <2>7
    <2>8. CASE PidOf[j] # PidOf[i]
      <3>1. ticket[j] # NoLease
        BY <2>1, <2>8
      <3> QED
        BY <1>3, <1>4, <2>4, <2>8, <3>1
    <2> QED
      BY <2>6, <2>7, <2>8
  <1>8. ASSUME NEW i \in Jobs, PollNewLease(i), Head(QueueWith(PidOf[i])) = PidOf[i],
               CanGrant(PurgedLeases, i)
        PROVE  Need[j] <= lease'[PidOf[j]].reserved
    <2> DEFINE l == [id |-> i, reserved |-> Need[i], exclusive |-> Exclusive(i),
                     holders |-> 1, fresh |-> TRUE]
    <2>1. /\ PurgedLeases[PidOf[i]] = NoLease
          /\ lease' = [PurgedLeases EXCEPT ![PidOf[i]] = l]
          /\ \A k \in Jobs : k # i => ticket'[k] = ticket[k]
      BY <1>8 DEF PollNewLease, TypeTickets
    <2>2. l.reserved = Need[i]
      OBVIOUS
    <2> HIDE DEF l
    <2>3. lease'[PidOf[i]] = l /\ \A p \in Pids : p # PidOf[i] => lease'[p] = PurgedLeases[p]
      BY <2>1, PurgeKeeps
    <2>4. CASE j = i
      BY <2>2, <2>3, <2>4
    <2>5. CASE j # i
      <3>1. ticket[j] # NoLease
        BY <2>1, <2>5
      <3>2. PidOf[j] # PidOf[i]
        BY <1>4, <2>1, <3>1 DEF Holders
      <3> QED
        BY <1>3, <1>4, <2>3, <3>1, <3>2
    <2> QED
      BY <2>4, <2>5
  <1>9. ASSUME NEW i \in Jobs, Release(i)
        PROVE  Need[j] <= lease'[PidOf[j]].reserved
    <2>1. /\ ticket[j] # NoLease
          /\ lease'[PidOf[i]] = LeaseWithout(i)
          /\ \A p \in Pids : p # PidOf[i] => lease'[p] = lease[p]
      BY <1>9 DEF Release, TypeTickets
    <2>2. PidOf[j] = PidOf[i] => lease'[PidOf[j]].reserved = lease[PidOf[j]].reserved
      BY <1>3, <2>1, LeaseWithoutReserved
    <2> QED
      BY <1>3, <1>4, <2>1, <2>2
  <1>10. ASSUME NEW i \in Jobs, Heartbeat(i)
         PROVE  Need[j] <= lease'[PidOf[j]].reserved
    <2>1. lease[PidOf[i]] \in Lease /\ ticket' = ticket
      BY <1>10 DEF Heartbeat, TypeTickets
    <2>2. [lease[PidOf[i]] EXCEPT !.fresh = TRUE].reserved = lease[PidOf[i]].reserved
      BY Zenon, <2>1, FreshType
    <2>3. lease'[PidOf[j]].reserved = lease[PidOf[j]].reserved
      <3>1. PidOf[j] = PidOf[i] => lease'[PidOf[j]] = [lease[PidOf[i]] EXCEPT !.fresh = TRUE]
        BY <1>10 DEF Heartbeat, TypeTickets
      <3>2. PidOf[j] # PidOf[i] => lease'[PidOf[j]] = lease[PidOf[j]]
        BY <1>10 DEF Heartbeat, TypeTickets
      <3> QED
        BY <2>2, <3>1, <3>2
    <2> QED
      BY <1>4, <2>1, <2>3
  <1>11. ASSUME NEW p \in Pids, Stall(p)
         PROVE  FALSE
    BY <1>1, <1>11 DEF Stall
  <1>12. ASSUME NEW p \in Pids, Die(p)
         PROVE  Need[j] <= lease'[PidOf[j]].reserved
    <2>1. ticket[j] # NoLease /\ lease' = lease
      BY <1>12 DEF Die, TypeTickets, fileVars
    <2> QED
      BY <1>4, <2>1
  <1> QED
    BY <1>5, <1>6, <1>7, <1>8, <1>9, <1>10, <1>11, <1>12
    DEF Next, vars, fileVars, Ask, Poll, PollOwnLease, PollNewLease, TimeOut, Load, Unload, Status

(* Where no lease is shared the tickets are of different processes, each   *)
(* for no more than its lease reserves.                                    *)
LEMMA CoveredTicketsFit ==
    ASSUME TypeTickets, Backed, TicketsCovered, FitsBudget(lease)
    PROVE  TicketsFit
  <1> DEFINE T == {j \in Jobs : ticket[j] # NoLease}
             v == [p \in Holders |-> lease[p].reserved]
  <1> SUFFICES ASSUME stalls = 0, \A p \in Holders : lease[p].holders = 1
               PROVE  SumFunctionOnSet(Need, T) <= Budget
    BY DEF TicketsFit
  <1>1. IsFiniteSet(T) /\ IsFiniteSet(Holders)
    BY AskersAreFinite, FS_Subset, BudgetIs DEF FitsBudget
  <1>2. LeasesBacked
    BY DEF Backed
  <1>3. \A p \in Holders : v[p] \in Nat
    BY LeaseFields DEF Holders, TypeTickets
  <1>4. \A j \in T : Need[j] \in Nat /\ PidOf[j] \in Holders /\ Need[j] <= v[PidOf[j]]
    BY <1>2 DEF TicketsCovered, LeasesBacked
  <1>5. ASSUME NEW i \in T, NEW j \in T, PidOf[i] = PidOf[j]
        PROVE  i = j
    <2> DEFINE S == TicketsOf(PidOf[j])
    <2>1. i \in S /\ j \in S /\ IsFiniteSet(S)
      BY <1>5, FS_Subset DEF TicketsOf
    <2>2. PidOf[j] \in Holders /\ alive[PidOf[j]]
      BY <1>4 DEF Backed
    <2>3. Cardinality(S) = 1
      BY <1>2, <2>2 DEF LeasesBacked
    <2> HIDE DEF S
    <2>4. PICK x : S = {x}
      BY <2>1, <2>3, FS_Singleton
    <2> QED
      BY <2>1, <2>4
  <1>6. Reserved(lease, Holders) = SumFunctionOnSet(v, Holders)
    BY DEF Reserved, SumFunction
  <1>7. SumFunctionOnSet(v, Holders) <= Budget
    BY <1>6, BudgetIs DEF FitsBudget
  <1>8. SumFunctionOnSet(v, Holders) \in Nat
    BY <1>1, <1>3, SumType
  <1>9. SumFunctionOnSet(Need, T) \in Nat
    BY <1>1, <1>4, SumType
  <1> HIDE DEF T, v
  <1>10. SumFunctionOnSet(Need, T) <= SumFunctionOnSet(v, Holders)
    BY <1>1, <1>3, <1>4, <1>5, SumFitsBelow
  <1> QED
    BY <1>7, <1>8, <1>9, <1>10

(* While no process is held up and no lease is shared at the moment, what  *)
(* the tickets were given for fits into the budget together, for any jobs  *)
(* and sizes, whichever tickets of a lease were released before            *)
(* (_try_share_own_lease, release).                                        *)
THEOREM TicketsFitTogether == Spec => []TicketsFit
  <1>1. Init => Backed /\ TicketsCovered
    BY DEF Init, Backed, LeasesBacked, Holders, TicketsCovered
  <1>2. TypeTickets /\ TypeTickets' /\ Backed /\ [Next]_vars => Backed'
    BY BackedStep
  <1>3. TypeTickets /\ Backed /\ Backed' /\ TicketsCovered /\ [Next]_vars => TicketsCovered'
    BY CoveredStep
  <1>4. TypeTickets /\ Backed /\ TicketsCovered /\ FitsBudget(lease) => TicketsFit
    BY CoveredTicketsFit
  <1> QED
    BY <1>1, <1>2, <1>3, <1>4, TicketTypes, BudgetFits, PTL DEF Spec
=============================================================================
