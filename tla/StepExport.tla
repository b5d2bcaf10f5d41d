----------------------------- MODULE StepExport ------------------------------
(***************************************************************************)
(* Writing the steps of rollouts to files: rollout_and_export of the       *)
(* engine, the thread pool of flash_aurora/engine/egress/io_backend.py and *)
(* the loop over ensemble members of the worker.  The caller advances a    *)
(* rollout and submits one write per step; threads write the files and     *)
(* remove the one that is Retain steps older.  A rollout without the pool  *)
(* writes its steps itself and removes nothing.                            *)
(*                                                                         *)
(* What a file holds is abstracted to the rollout it came from.            *)
(***************************************************************************)
EXTENDS Integers, Sequences, FiniteSets, FiniteSetsExt

CONSTANTS
    LastRollout, \* rollouts one engine runs, one after the other
    JobOf,       \* the job of a rollout: the members of an ensemble share one
    Asked,       \* the directory a rollout's request names, or NoDir
    Pooled,      \* whether a rollout exports through the pool
    Steps,       \* steps of a rollout
    PoolSize,
    MaxInflight,
    Retain,      \* files to keep of a pooled rollout; the worker keeps all: Steps or more
    Dirs,
    DefaultDir,  \* the asset directory's output
    MaxFailures, \* bound: how many writes and forwards fail
    NoDir,       \* the request names none
    NoFile,
    Torn         \* a file that does not hold one whole step

Rollouts == 1 .. LastRollout
StepIds == 0 .. Steps - 1

ASSUME ExportAssumption ==
    /\ LastRollout \in Nat
    /\ Steps \in Nat
    /\ Asked \in [Rollouts -> Dirs \cup {NoDir}]
    /\ Pooled \in [Rollouts -> BOOLEAN]
    /\ PoolSize \in Nat \ {0}
    /\ MaxInflight \in Nat
    /\ Retain \in Nat \ {0}
    /\ DefaultDir \in Dirs
    /\ NoDir \notin Dirs
    /\ NoFile \notin Rollouts /\ Torn \notin Rollouts /\ NoFile # Torn
    /\ MaxFailures \in Nat

VARIABLES
    exportDir, \* config.export_dir
    rollout,   \* the rollout under way, or the next one
    caller,    \* where the caller is
    step,      \* the step it submits next
    broken,    \* an exception is on its way out of the with statement
    pending,   \* _pending: steps of this rollout that were not awaited
    target,    \* the directory of a rollout
    write,     \* the write of each step of each rollout
    file,      \* the files on disk
    outcome,   \* how a rollout ended, for its client
    failures   \* what MaxFailures bounds

callerVars == <<exportDir, rollout, caller, step, broken, pending, target, outcome>>
vars == <<callerVars, write, file, failures>>

(* A write that is "mixed" shares its file with another one, a write that  *)
(* is "cut" goes to a file that has been removed.                          *)
Writing == {"writing", "mixed", "cut"}
Unfinished == {"queued", "taken", "written"} \cup Writing
Writes == {"none", "done", "failed"} \cup Unfinished

TypeOK ==
    /\ exportDir \in Dirs \cup {NoDir}
    /\ rollout \in 1 .. LastRollout + 1
    /\ caller \in {"idle", "forward", "inline", "close"}
    /\ step \in 0 .. Steps
    /\ broken \in BOOLEAN
    /\ pending \in Seq(StepIds)
    /\ target \in [Rollouts -> Dirs \cup {NoDir}]
    /\ write \in [Rollouts -> [StepIds -> Writes]]
    /\ file \in [Dirs -> [StepIds -> Rollouts \cup {NoFile, Torn}]]
    /\ outcome \in [Rollouts -> {"none", "completed", "failed"}]
    /\ failures \in 0 .. MaxFailures

Init ==
    /\ exportDir = NoDir
    /\ rollout = 1
    /\ caller = "idle"
    /\ step = 0
    /\ broken = FALSE
    /\ pending = <<>>
    /\ target = [r \in Rollouts |-> NoDir]
    /\ write = [r \in Rollouts |-> [s \in StepIds |-> "none"]]
    /\ file = [d \in Dirs |-> [s \in StepIds |-> NoFile]]
    /\ outcome = [r \in Rollouts |-> "none"]
    /\ failures = 0

-----------------------------------------------------------------------------
SetWrite(r, s, state) == write' = [write EXCEPT ![r][s] = state]
SetFile(r, s, content) == file' = [file EXCEPT ![target[r]][s] = content]

Fail == failures < MaxFailures /\ failures' = failures + 1

(* The job of a rollout that failed ends with it *)
AfterFailure ==
    LET later == {r \in Rollouts : r > rollout /\ JobOf[r] # JobOf[rollout]}
    IN IF later = {} THEN LastRollout + 1 ELSE Min(later)

End(result) ==
    /\ outcome' = [outcome EXCEPT ![rollout] = result]
    /\ rollout' = IF result = "failed" THEN AfterFailure ELSE rollout + 1
    /\ caller' = "idle"
    /\ pending' = <<>>

(* A directory that is asked for stays in the configuration, for requests  *)
(* that name none too.                                                     *)
Start ==
    /\ caller = "idle"
    /\ rollout \in Rollouts
    /\ exportDir' = IF Asked[rollout] = NoDir THEN exportDir ELSE Asked[rollout]
    /\ target' = [target EXCEPT ![rollout] =
                      IF exportDir' = NoDir THEN DefaultDir ELSE exportDir']
    /\ caller' = "forward"
    /\ step' = 0
    /\ broken' = FALSE
    /\ UNCHANGED <<rollout, pending, outcome, write, file, failures>>

(* Mutant: one write more may be under way *)
HasRoomPlusOne == Len(pending) <= MaxInflight + 1

HasRoom == Len(pending) <= MaxInflight

Submit ==
    /\ caller = "forward"
    /\ Pooled[rollout]
    /\ step < Steps
    /\ HasRoom
    /\ SetWrite(rollout, step, "queued")
    /\ pending' = Append(pending, step)
    /\ step' = step + 1
    /\ UNCHANGED <<exportDir, rollout, caller, broken, target, outcome, file, failures>>

(* _limit_inflight; a write that failed raises here *)
AwaitOldest ==
    /\ caller = "forward"
    /\ step < Steps
    /\ ~HasRoom
    /\ write[rollout][Head(pending)] \in {"done", "failed"}
    /\ pending' = Tail(pending)
    /\ broken' = (write[rollout][Head(pending)] = "failed")
    /\ caller' = IF broken' THEN "close" ELSE caller
    /\ UNCHANGED <<exportDir, rollout, step, target, outcome, write, file, failures>>

(* The forward pass raises, or whoever iterates stops *)
ForwardFails ==
    /\ caller = "forward"
    /\ step < Steps
    /\ Fail
    /\ IF Pooled[rollout]
       THEN /\ caller' = "close"
            /\ broken' = TRUE
            /\ UNCHANGED <<rollout, pending, outcome>>
       ELSE End("failed") /\ UNCHANGED broken
    /\ UNCHANGED <<exportDir, step, target, write, file>>

StreamEnds ==
    /\ caller = "forward"
    /\ step = Steps
    /\ IF Pooled[rollout]
       THEN caller' = "close" /\ UNCHANGED <<rollout, pending, outcome>>
       ELSE End("completed")
    /\ UNCHANGED <<exportDir, step, broken, target, write, file, failures>>

-----------------------------------------------------------------------------
(* close(): the futures are awaited in order, then the pool is shut down.  *)

(* A write that failed raises, and nothing behind it is awaited            *)
CloseRaises ==
    /\ caller = "close"
    /\ pending # <<>>
    /\ write[rollout][Head(pending)] = "failed"
    /\ End("failed")
    /\ UNCHANGED <<exportDir, step, broken, target, write, file, failures>>

CloseAwaits ==
    /\ caller = "close"
    /\ pending # <<>>
    /\ write[rollout][Head(pending)] = "done"
    /\ pending' = Tail(pending)
    /\ UNCHANGED <<exportDir, rollout, caller, step, broken, target, outcome,
                   write, file, failures>>

Closed ==
    /\ caller = "close"
    /\ pending = <<>>
    /\ End(IF broken THEN "failed" ELSE "completed")
    /\ UNCHANGED <<exportDir, step, broken, target, write, file, failures>>

-----------------------------------------------------------------------------
(* The threads of a rollout's pool, which outlive a close that raised.     *)

Active(r) == {s \in StepIds : write[r][s] \in {"taken", "written"} \cup Writing}

(* The pool's work queue is first in, first out *)
Take(r, s) ==
    /\ write[r][s] = "queued"
    /\ \A earlier \in StepIds : write[r][earlier] = "queued" => s <= earlier
    /\ Cardinality(Active(r)) < PoolSize
    /\ SetWrite(r, s, "taken")
    /\ UNCHANGED <<callerVars, file, failures>>

SameFile(r, q, s) == write[q][s] \in {"writing", "mixed"} /\ target[q] = target[r]

(* Mutant: room for the new file is made before it is written *)
OpenAfterDrop(r, s) ==
    /\ file' = [file EXCEPT ![target[r]] =
                  [t \in StepIds |-> IF t = s THEN Torn
                                     ELSE IF t = s - Retain THEN NoFile ELSE @[t]]]
    /\ write' = [write EXCEPT ![r][s] = "writing"]

(* Opening truncates the file, one that is being written too *)
OpenFile(r, s) ==
    /\ SetFile(r, s, Torn)
    /\ LET shared == \E q \in Rollouts \ {r} : SameFile(r, q, s)
       IN write' = [q \in Rollouts |->
            IF q = r
            THEN [write[r] EXCEPT ![s] = IF shared THEN "mixed" ELSE "writing"]
            ELSE IF SameFile(r, q, s) THEN [write[q] EXCEPT ![s] = "mixed"]
            ELSE write[q]]

Open(r, s) ==
    /\ write[r][s] = "taken"
    /\ OpenFile(r, s)
    /\ UNCHANGED <<callerVars, failures>>

(* What a file holds once the write of r is through *)
Written(r, s) ==
    CASE write[r][s] = "writing" -> {r}
      [] write[r][s] = "mixed" -> {r, Torn}
      [] write[r][s] = "cut" -> {file[target[r]][s]}

Save(r, s) ==
    /\ write[r][s] \in Writing
    /\ SetWrite(r, s, "written")
    /\ \E content \in Written(r, s) : SetFile(r, s, content)
    /\ UNCHANGED <<callerVars, failures>>

WriteFails(r, s) ==
    /\ write[r][s] \in {"taken"} \cup Writing
    /\ Fail
    /\ SetWrite(r, s, "failed")
    /\ UNCHANGED <<callerVars, file>>

(* The file to remove once step s is written *)
Stale(s) == s - Retain

(* _drop_stale; a thread that writes the removed file goes on writing      *)
DropStale(r, s) ==
    /\ write[r][s] = "written"
    /\ IF Pooled[r] /\ Stale(s) \in StepIds
       THEN /\ SetFile(r, Stale(s), NoFile)
            /\ write' = [q \in Rollouts |->
                 LET rest == IF SameFile(r, q, Stale(s))
                             THEN [write[q] EXCEPT ![Stale(s)] = "cut"]
                             ELSE write[q]
                 IN IF q = r THEN [rest EXCEPT ![s] = "done"] ELSE rest]
       ELSE SetWrite(r, s, "done") /\ UNCHANGED file
    /\ UNCHANGED <<callerVars, failures>>

(* Without the pool the caller takes the write itself and waits for it     *)
WriteInline ==
    /\ caller = "forward"
    /\ ~Pooled[rollout]
    /\ step < Steps
    /\ SetWrite(rollout, step, "taken")
    /\ caller' = "inline"
    /\ UNCHANGED <<exportDir, rollout, step, broken, pending, target, outcome,
                   file, failures>>

WroteInline ==
    /\ caller = "inline"
    /\ \/ /\ write[rollout][step] = "done"
          /\ caller' = "forward"
          /\ step' = step + 1
          /\ UNCHANGED <<rollout, pending, outcome>>
       \/ /\ write[rollout][step] = "failed"
          /\ End("failed")
          /\ UNCHANGED step
    /\ UNCHANGED <<exportDir, broken, target, write, file, failures>>

-----------------------------------------------------------------------------
Caller ==
    \/ Start \/ Submit \/ AwaitOldest \/ ForwardFails \/ StreamEnds
    \/ CloseRaises \/ CloseAwaits \/ Closed
    \/ WriteInline \/ WroteInline

Thread(r, s) ==
    Take(r, s) \/ Open(r, s) \/ Save(r, s) \/ WriteFails(r, s) \/ DropStale(r, s)

Next == Caller \/ \E r \in Rollouts, s \in StepIds : Thread(r, s)

Spec == Init /\ [][Next]_vars

-----------------------------------------------------------------------------
(* Properties.                                                             *)

Kept(r, s) == Pooled[r] => s >= Steps - Retain

HoldsItsSteps(r) ==
    \A s \in StepIds : file[target[r]][s] = IF Kept(r, s) THEN r ELSE NoFile

(* Nobody wrote to its directory since, and who did before came to an end  *)
LastWriter(r) ==
    \A q \in Rollouts \ {r} :
        target[q] = target[r] => q < r /\ outcome[q] = "completed"

(* io_backend.py:122 "Keep only the newest files": when a rollout is       *)
(* completed, its directory holds its newest steps, whole, and no stale    *)
(* ones, in whatever order the threads finished, over what earlier         *)
(* rollouts left there.                                                    *)
CompletedIsOnDisk ==
    \A r \in Rollouts :
        outcome[r] = "completed" /\ LastWriter(r) => HoldsItsSteps(r)

(* A stale file goes only when a newer one is whole: once a rollout has    *)
(* written a step, there is a whole step of it on disk at every moment,    *)
(* whatever fails and whenever the process dies.                           *)
AWholeStepSurvives ==
    \A r \in Rollouts :
        (\E s \in StepIds : write[r][s] \in {"written", "done"}) /\ LastWriter(r) =>
            \E s \in StepIds : file[target[r]][s] = r
=============================================================================
