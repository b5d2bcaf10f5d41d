-------------------------------- MODULE Reclaim --------------------------------
(***************************************************************************)
(* How scheduler processes are brought down, and by whom: the program that *)
(* spawned them (shutdown_scheduler_subprocesses), the next program that   *)
(* uses their directory (cleanup_stale_scheduler_processes), both in       *)
(* processes.py, and the supervisor that looks for orphans.  The three run *)
(* beside each other and see one another only in the process table.        *)
(*                                                                         *)
(* A pid is not used again and signals are permitted.  SIGTERM asks: a     *)
(* process may exit at any time, whether it was asked to or not.           *)
(***************************************************************************)
EXTENDS Queues, SequencesExt, FiniteSets

CONSTANT Children \* the processes of an owner

ReclaimAssumption == IsFiniteSet(Children)

VARIABLES
    proc,    \* their states
    leads,   \* whether one was spawned with start_new_session
    socket,  \* whose socket file is there
    ending,  \* the owner: where shutdown_scheduler_subprocesses is
    left,    \* what it has still to terminate, the first one now
    cleanup, \* where cleanup_stale_scheduler_processes is
    stale,   \* the processes it found
    scan,    \* where a scan of the supervisor is
    orphans, \* the ones it has still to kill
    victim,  \* the one it waits for
    killed,  \* orphans_killed
    listed   \* its second look at the process table

ownerVars == <<ending, left>>
cleanupVars == <<cleanup, stale>>
scanVars == <<scan, orphans, victim, killed, listed>>
vars == <<proc, leads, socket, ownerVars, cleanupVars, scanVars>>

TypeOK ==
    /\ proc \in [Children -> {"new", "runs", "dying", "zombie", "gone"}]
    /\ leads \in [Children -> BOOLEAN]
    /\ socket \subseteq Children
    /\ ending \in {"idle", "grace", "next", "term", "wait", "last", "returned", "raised", "dead"}
    /\ left \in Seq(Children)
    /\ cleanup \in {"idle", "waits", "done"}
    /\ stale \subseteq Children
    /\ scan \in {"idle", "next", "term", "files", "done"}
    /\ orphans \subseteq Children
    /\ victim \subseteq Children
    /\ killed \subseteq Children
    /\ listed \subseteq Children

Init ==
    /\ proc = [c \in Children |-> "new"]
    /\ leads \in [Children -> BOOLEAN]
    /\ socket = {}
    /\ ending = "idle"
    /\ left = <<>>
    /\ cleanup = "idle"
    /\ stale = {}
    /\ scan = "idle"
    /\ orphans = {}
    /\ victim = {}
    /\ killed = {}
    /\ listed = {}

-----------------------------------------------------------------------------
(* Processes                                                               *)

OwnerIsDead == ending = "dead"

(* ps shows the command of a process until it is a zombie *)
Table == {c \in Children : proc[c] \in {"runs", "dying"}}

(* What kill(pid, 0) finds: zombies too *)
Exists(c) == proc[c] \in {"runs", "dying", "zombie"}

Sent(kill) ==
    [c \in Children |-> IF c \in kill /\ proc[c] = "runs" THEN "dying" ELSE proc[c]]

(* An owner has to ask for the end of a process, init does at once *)
Reaped(these) ==
    [c \in Children |-> IF c \in these /\ proc[c] = "zombie" THEN "gone" ELSE proc[c]]

(* The process binds its sockets *)
Start(c) ==
    /\ ending = "idle"
    /\ proc[c] = "new"
    /\ proc' = [proc EXCEPT ![c] = "runs"]
    /\ socket' = socket \cup {c}
    /\ UNCHANGED <<leads, ownerVars, cleanupVars, scanVars>>

Exit(c) ==
    /\ c \in Table
    /\ proc' = [proc EXCEPT ![c] = IF OwnerIsDead THEN "gone" ELSE "zombie"]
    /\ UNCHANGED <<leads, socket, ownerVars, cleanupVars, scanVars>>

OwnerDies ==
    /\ ~OwnerIsDead
    /\ ending' = "dead"
    /\ left' = <<>>
    /\ proc' = Reaped(Children)
    /\ UNCHANGED <<leads, socket, cleanupVars, scanVars>>

-----------------------------------------------------------------------------
(* The owner                                                               *)

(* poll() of all, in the order in which they were spawned.  The deadline   *)
(* is looked at after it.                                                  *)
Polled(these) ==
    LET alive == Only(these, {c \in Children : proc[c] # "zombie"})
    IN  /\ proc' = Reaped(ToSet(these))
        /\ left' = alive
        /\ ending' \in IF alive = <<>> THEN {"returned"} ELSE {"grace", "next"}

Shutdown ==
    /\ ending = "idle"
    /\ \E started \in SetToSeqs({c \in Children : proc[c] # "new"}) : Polled(started)
    /\ UNCHANGED <<leads, socket, cleanupVars, scanVars>>

Poll ==
    /\ ending = "grace"
    /\ Polled(left)
    /\ UNCHANGED <<leads, socket, cleanupVars, scanVars>>

NextOne ==
    /\ left' = Tail(left)
    /\ ending' = IF Tail(left) = <<>> THEN "returned" ELSE "next"

(* terminate_process_tree: poll, and killpg of a pid that leads no group   *)
(* finds none                                                              *)
Terminate ==
    /\ ending = "next"
    /\ proc' = Reaped({Head(left)})
    /\ IF proc[Head(left)] = "zombie"
       THEN NextOne
       ELSE ending' = (IF leads[Head(left)] THEN "term" ELSE "wait") /\ UNCHANGED left
    /\ UNCHANGED <<leads, socket, cleanupVars, scanVars>>

(* A child that nobody reaps exists, so the time of _terminate_pid always  *)
(* runs out                                                                *)
Escalate ==
    /\ ending = "term"
    /\ proc' = Sent({Head(left)})
    /\ ending' = "wait"
    /\ UNCHANGED <<leads, socket, left, cleanupVars, scanVars>>

(* wait() returns, or raises, and proc.kill() needs no group *)
Reap ==
    /\ ending \in {"wait", "last"}
    /\ proc[Head(left)] = "zombie"
    /\ proc' = Reaped({Head(left)})
    /\ NextOne
    /\ UNCHANGED <<leads, socket, cleanupVars, scanVars>>

(* Mutant: whoever is not gone by now is left to itself *)
GiveUpWithoutKill ==
    /\ ending = "wait"
    /\ proc[Head(left)] # "zombie"
    /\ NextOne
    /\ UNCHANGED <<proc, leads, socket, cleanupVars, scanVars>>

KillAtLast ==
    /\ ending = "wait"
    /\ proc[Head(left)] # "zombie"
    /\ proc' = Sent({Head(left)})
    /\ ending' = "last"
    /\ UNCHANGED <<leads, socket, left, cleanupVars, scanVars>>

(* The second TimeoutExpired reaches the caller *)
WaitExpires ==
    /\ ending = "last"
    /\ proc[Head(left)] # "zombie"
    /\ ending' = "raised"
    /\ UNCHANGED <<proc, leads, socket, left, cleanupVars, scanVars>>

Owner ==
    Shutdown \/ Poll \/ Terminate \/ Escalate \/ Reap \/ KillAtLast \/ WaitExpires \/ OwnerDies

-----------------------------------------------------------------------------
(* Another program that is about to use the directory                      *)

(* SIGTERM to all the table shows.  Without any, only files are removed.   *)
FindStale ==
    /\ cleanup # "waits"
    /\ stale' = Table
    /\ IF Table = {}
       THEN cleanup' = "done" /\ socket' = {}
       ELSE cleanup' = "waits" /\ UNCHANGED socket
    /\ UNCHANGED <<proc, leads, ownerVars, scanVars>>

(* All gone before the deadline, or SIGKILL for those that exist *)
CleanUp ==
    /\ cleanup = "waits"
    /\ proc' = Sent({c \in stale : Exists(c)})
    /\ cleanup' = "done"
    /\ socket' = {}
    /\ UNCHANGED <<leads, stale, ownerVars, scanVars>>

-----------------------------------------------------------------------------
(* The supervisor                                                          *)

(* Orphans are adopted by init *)
FindOrphans ==
    /\ scan \in {"idle", "done"}
    /\ scan' = "next"
    /\ orphans' = IF OwnerIsDead THEN Table ELSE {}
    /\ killed' = {}
    /\ UNCHANGED <<proc, leads, socket, ownerVars, cleanupVars, victim, listed>>

(* _force_kill: returns at once if killpg finds no group *)
ForceKill(c) ==
    /\ scan = "next"
    /\ c \in orphans
    /\ orphans' = orphans \ {c}
    /\ IF leads[c] /\ Exists(c)
       THEN scan' = "term" /\ victim' = {c} /\ UNCHANGED killed
       ELSE killed' = killed \cup {c} /\ UNCHANGED <<scan, victim>>
    /\ UNCHANGED <<proc, leads, socket, ownerVars, cleanupVars, listed>>

(* It went, or _TERM_WAIT_S ran out.  _KILL_WAIT_S is not used. *)
ForceKilled ==
    /\ scan = "term"
    /\ proc' = Sent(victim)
    /\ killed' = killed \cup victim
    /\ victim' = {}
    /\ scan' = "next"
    /\ UNCHANGED <<leads, socket, ownerVars, cleanupVars, orphans, listed>>

(* find_stale_ipc_files reads the table, and looks for files afterwards *)
ListAgain ==
    /\ scan = "next" /\ orphans = {}
    /\ listed' = Table
    /\ scan' = "files"
    /\ UNCHANGED <<proc, leads, socket, ownerVars, cleanupVars, orphans, victim, killed>>

RemoveFiles ==
    /\ scan = "files"
    /\ socket' = socket \cap listed
    /\ scan' = "done"
    /\ UNCHANGED <<proc, leads, ownerVars, cleanupVars, orphans, victim, killed, listed>>

Supervisor ==
    FindOrphans \/ (\E c \in Children : ForceKill(c)) \/ ForceKilled \/ ListAgain \/ RemoveFiles

-----------------------------------------------------------------------------

Next ==
    \/ \E c \in Children : Start(c) \/ Exit(c)
    \/ Owner
    \/ FindStale \/ CleanUp
    \/ Supervisor

Spec == Init /\ [][Next]_vars

-----------------------------------------------------------------------------
(* Properties                                                              *)

(* Who has brought processes down may rely on it, whatever they do, the    *)
(* other two meanwhile, and whether they lead a group or not: when         *)
(* shutdown_scheduler_subprocesses has returned without an error they are  *)
(* gone and reaped, and when cleanup_stale_scheduler_processes has, none   *)
(* of those it found goes on running.  (processes.py:69-207)               *)
StoppedAreDown ==
    /\ ending = "returned" => \A c \in Children : proc[c] \in {"new", "gone"}
    /\ cleanup = "done" => \A c \in stale : proc[c] # "runs"

(* The supervisor force-kills orphans (supervisor.py:1): it sends SIGTERM  *)
(* to "the process group" and is to "escalate to SIGKILL if it survives"   *)
(* (:120).  So no process it lists as killed goes on running.              *)
KilledAreDown == \A c \in killed : proc[c] # "runs"
=============================================================================
