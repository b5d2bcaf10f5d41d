-------------------------------- MODULE MCPool --------------------------------
(***************************************************************************)
(* Three settings of Coordinator side by side, of which a behaviour has    *)
(* one.  In "sticky", which the cfg gives, all jobs have one key, worker 1 *)
(* may die, and with two of the three jobs either may be taken for silent. *)
(* In "pauses" no job has a key, no worker dies, and with two jobs either  *)
(* may be taken for silent.  In "restarts" worker 1 dies, is started again *)
(* and a client shuts the coordinator down, with two jobs.                 *)
(***************************************************************************)
EXTENDS MCCoordinator

VARIABLE setting

Pauses == INSTANCE Coordinator
    WITH KeyOf <- NoKeys, StickySessions <- FALSE, CanCrash <- {},
         ConfigCapacity <- OneSlotEach, RealCapacity <- OneSlotEach,
         AcceptedPresets <- NoLists, Preloads <- {1}

Restarts == INSTANCE Coordinator
    WITH KeyOf <- NoKeys, StickySessions <- FALSE, CanCrash <- {1},
         ConfigCapacity <- OneSlotEach, RealCapacity <- OneSlotEach,
         AcceptedPresets <- NoLists, Preloads <- {1},
         MaxStarts <- 2, MaxPauses <- 0, ClientShutsDown <- TRUE

PoolInit ==
    \/ setting = "restarts" /\ Restarts!Init
    \/ setting = "sticky" /\ Init
    \/ setting = "pauses" /\ Pauses!Init

PoolNext ==
    /\ \/ setting = "restarts" /\ Restarts!Next /\ Len(submitted') <= 2
       \/ setting = "sticky" /\ Next
       \/ setting = "pauses" /\ Pauses!Next
    /\ Len(submitted') <= 2 \/ pauses' = 0
    /\ UNCHANGED setting

PoolSpec == PoolInit /\ [][PoolNext]_<<vars, setting>>
=============================================================================
