----------------------------- MODULE ExportProofs -----------------------------
(***************************************************************************)
(* What is on disk while the threads of the export pool write, overtake    *)
(* each other, fail and remove stale files: for any number of rollouts,    *)
(* steps, threads and directories.                                         *)
(*                                                                         *)
(* The caller's window of steps it did not wait for, with what a thread    *)
(* may have done to them, is the inductive part.  AWholeStepSurvives needs *)
(* nothing of the settings.  CompletedIsOnDisk needs that more files are   *)
(* retained than writes are in flight: with fewer a late thread creates    *)
(* the file that another has removed as stale.                             *)
(***************************************************************************)
EXTENDS StepExport, SequenceTheorems, WellFoundedInduction, TLAPS

(* A rollout that did not begin has written nothing.                       *)
Started(r) == target[r] # NoDir

BegunInv ==
    \A r \in Rollouts :
        /\ r > rollout \/ (r = rollout /\ caller = "idle") => ~Started(r)
        /\ ~Started(r) => outcome[r] = "none" /\ \A s \in StepIds : write[r][s] = "none"
        /\ outcome[r] = "completed" => \A s \in StepIds : write[r][s] = "done"

(* The oldest step the caller did not wait for yet                         *)
Oldest == step - Len(pending)

(* The caller waits for the steps in their order.                          *)
PooledWindow ==
    /\ caller \in {"forward", "close"}
    /\ Oldest \in 0 .. step
    /\ \A i \in 1 .. Len(pending) : pending[i] = Oldest + i - 1
    /\ \A s \in StepIds :
          /\ s < Oldest => /\ write[rollout][s] \in {"done", "failed"}
                           /\ ~broken => write[rollout][s] = "done"
          /\ s >= step => write[rollout][s] = "none"
    /\ caller = "close" /\ ~broken => step = Steps
    /\ caller = "forward" => ~broken

InlineWindow ==
    /\ caller \in {"forward", "inline"}
    /\ pending = <<>>
    /\ caller = "inline" => step < Steps
    /\ \A s \in StepIds :
          /\ s < step => write[rollout][s] = "done"
          /\ s > step \/ (s = step /\ caller = "forward") => write[rollout][s] = "none"

CallerInv ==
    IF caller = "idle"
    THEN pending = <<>>
    ELSE /\ rollout \in Rollouts
         /\ Started(rollout)
         /\ outcome[rollout] = "none"
         /\ IF Pooled[rollout] THEN PooledWindow ELSE InlineWindow

(* What is in a file was saved by the rollout it is of.                    *)
TracedInv ==
    \A d \in Dirs, s \in StepIds, r \in Rollouts :
        file[d][s] = r => target[r] = d /\ write[r][s] \in {"written", "done"}

(* Nobody else writes to the directory of r *)
Alone(r) == LastWriter(r) /\ Started(r)

(* A step that was written is there, or a newer one is; and nobody got     *)
(* between its writing.                                                    *)
WholeInv ==
    \A r \in Rollouts : Alone(r) =>
        \A s \in StepIds :
            /\ write[r][s] # "mixed"
            /\ write[r][s] \in {"cut", "written", "done"} =>
                  \E u \in StepIds : u >= s /\ file[target[r]][u] = r

(* Where Retain is more than MaxInflight, what is stale is finished.       *)
StaleInv ==
    \A r \in Rollouts, s, t \in StepIds :
        Pooled[r] /\ write[r][s] # "none" /\ t <= Stale(s) =>
            write[r][t] \in {"done", "failed"}

Removed(r, s) ==
    /\ Pooled[r]
    /\ s + Retain \in StepIds
    /\ write[r][s + Retain] = "done"

ExactInv ==
    \A r \in Rollouts : Alone(r) =>
        \A s \in StepIds :
            /\ write[r][s] \notin {"mixed", "cut"}
            /\ Removed(r, s) => file[target[r]][s] = NoFile
            /\ write[r][s] \in {"written", "done"} /\ ~Removed(r, s) =>
                  file[target[r]][s] = r

-----------------------------------------------------------------------------
(* Operators.                                                              *)

WritesType == [Rollouts -> [StepIds -> Writes]]
Content == Rollouts \cup {NoFile, Torn}
FilesType == [Dirs -> [StepIds -> Content]]

(* Numbers have a least one.                                               *)
LEMMA LeastNumber ==
    ASSUME NEW T \in SUBSET Nat, T # {}
    PROVE  Min(T) \in T
  <1> DEFINE Less == OpToRel(<, Nat)
  <1>1. \A m, n \in Nat : m < n => <<m, n>> \in Less
    BY DEF OpToRel
  <1>2. IsWellFoundedOn(Less, Nat)
    BY NatLessThanWellFounded
  <1> HIDE DEF Less
  <1>3. PICK n \in T : \A m \in T : <<m, n>> \notin Less
    BY <1>2, WFMin
  <1>4. ASSUME NEW m \in T PROVE n <= m
    <2>1. m \in Nat /\ n \in Nat
      OBVIOUS
    <2>2. ~(m < n)
      BY <1>1, <1>3, <2>1
    <2> QED
      BY <2>1, <2>2
  <1> QED
    BY <1>4 DEF Min

(* After a rollout that failed comes a later one, or none.                 *)
LEMMA AfterFailureType ==
    ASSUME rollout \in Rollouts
    PROVE  AfterFailure \in 1 .. LastRollout + 1 /\ AfterFailure > rollout
  <1> DEFINE later == {r \in Rollouts : r > rollout /\ JobOf[r] # JobOf[rollout]}
  <1>1. LastRollout \in Nat /\ rollout \in 1 .. LastRollout
    BY ExportAssumption DEF Rollouts
  <1>2. AfterFailure = IF later = {} THEN LastRollout + 1 ELSE Min(later)
    BY DEF AfterFailure
  <1>3. CASE later = {}
    BY <1>1, <1>2, <1>3
  <1>4. CASE later # {}
    <2>1. later \in SUBSET Nat
      BY <1>1 DEF Rollouts
    <2> HIDE DEF later
    <2>2. Min(later) \in later
      BY <1>4, <2>1, LeastNumber
    <2> USE DEF later
    <2>3. Min(later) \in 1 .. LastRollout /\ Min(later) > rollout
      BY <2>2 DEF Rollouts
    <2> QED
      BY <1>1, <1>2, <1>4, <2>3
  <1> QED
    BY <1>3, <1>4

(* The steps of a rollout are numbered.                                    *)
LEMMA StepsAreNumbers == Steps \in Nat /\ \A s : s \in StepIds <=> s \in Nat /\ s < Steps
  BY ExportAssumption DEF StepIds

(* One write changes its state.                                            *)
LEMMA OneWrite ==
    ASSUME write \in WritesType, NEW r \in Rollouts, NEW s \in StepIds,
           NEW state \in Writes, SetWrite(r, s, state)
    PROVE  /\ write' \in WritesType
           /\ \A q \in Rollouts, t \in StepIds :
                 write'[q][t] = IF q = r /\ t = s THEN state ELSE write[q][t]
           /\ \A q \in Rollouts : q # r => write'[q] = write[q]
  <1>1. write' = [write EXCEPT ![r] = [write[r] EXCEPT ![s] = state]]
    BY DEF SetWrite
  <1>2. [write[r] EXCEPT ![s] = state] \in [StepIds -> Writes]
    BY DEF WritesType
  <1> QED
    BY <1>1, <1>2 DEF WritesType

(* One file changes its content.                                           *)
LEMMA OneFile ==
    ASSUME file \in FilesType, NEW r \in Rollouts, target[r] \in Dirs, NEW s \in StepIds,
           NEW content \in Content, SetFile(r, s, content)
    PROVE  /\ file' \in FilesType
           /\ \A d \in Dirs, t \in StepIds :
                 file'[d][t] = IF d = target[r] /\ t = s THEN content ELSE file[d][t]
  <1>1. file' = [file EXCEPT ![target[r]] = [file[target[r]] EXCEPT ![s] = content]]
    BY DEF SetFile
  <1>2. [file[target[r]] EXCEPT ![s] = content] \in [StepIds -> Content]
    BY DEF FilesType
  <1> QED
    BY <1>1, <1>2 DEF FilesType

-----------------------------------------------------------------------------
(* What a thread does.                                                     *)

BaseInv == TypeOK /\ BegunInv /\ CallerInv /\ TracedInv

(* The write of a thread is of a rollout that began.                       *)
LEMMA ThreadHasDir ==
    ASSUME TypeOK, BegunInv, NEW r \in Rollouts, NEW s \in StepIds, write[r][s] # "none"
    PROVE  Started(r) /\ target[r] \in Dirs
  BY DEF TypeOK, BegunInv, Started

(* Who else writes to a file, once it is truncated, shares it.             *)
LEMMA OpenWrites ==
    ASSUME TypeOK, NEW r \in Rollouts, NEW s \in StepIds, OpenFile(r, s)
    PROVE  /\ write' \in WritesType
           /\ write'[r][s] \in {"writing", "mixed"}
           /\ \A t \in StepIds : t # s => write'[r][t] = write[r][t]
           /\ \A q \in Rollouts : q # r =>
                 \/ write'[q] = write[q]
                 \/ /\ SameFile(r, q, s)
                    /\ write'[q][s] = "mixed"
                    /\ \A t \in StepIds : t # s => write'[q][t] = write[q][t]
           /\ (\A q \in Rollouts \ {r} : ~SameFile(r, q, s)) => write'[r][s] = "writing"
  <1> DEFINE shared == \E q \in Rollouts \ {r} : SameFile(r, q, s)
             mine == [write[r] EXCEPT ![s] = IF shared THEN "mixed" ELSE "writing"]
             mixed(q) == [write[q] EXCEPT ![s] = "mixed"]
  <1>1. write' = [q \in Rollouts |->
                     IF q = r THEN mine ELSE IF SameFile(r, q, s) THEN mixed(q) ELSE write[q]]
    BY DEF OpenFile
  <1>2. write \in WritesType /\ {"mixed", "writing"} \subseteq Writes
    BY DEF TypeOK, WritesType, Writes, Unfinished, Writing
  <1>3. /\ mine \in [StepIds -> Writes]
        /\ mine[s] = IF shared THEN "mixed" ELSE "writing"
        /\ \A t \in StepIds : t # s => mine[t] = write[r][t]
    BY <1>2 DEF WritesType
  <1>4. \A q \in Rollouts :
           /\ mixed(q) \in [StepIds -> Writes]
           /\ mixed(q)[s] = "mixed"
           /\ \A t \in StepIds : t # s => mixed(q)[t] = write[q][t]
    BY <1>2 DEF WritesType
  <1> HIDE DEF mine, mixed
  <1>5. write' \in WritesType
    BY <1>1, <1>2, <1>3, <1>4 DEF WritesType
  <1>6. write'[r] = mine /\ \A q \in Rollouts : q # r =>
           write'[q] = IF SameFile(r, q, s) THEN mixed(q) ELSE write[q]
    BY <1>1
  <1> QED
    BY <1>3, <1>4, <1>5, <1>6

(* Removing the stale file cuts the writes that are to it.                 *)
LEMMA DropWrites ==
    ASSUME TypeOK, NEW r \in Rollouts, NEW s \in StepIds,
           Pooled[r], Stale(s) \in StepIds, DropStale(r, s)
    PROVE  /\ write' \in WritesType
           /\ write'[r][s] = "done"
           /\ \A q \in Rollouts, t \in StepIds :
                 (q # r \/ t # s) =>
                    \/ write'[q][t] = write[q][t]
                    \/ /\ SameFile(r, q, t) /\ t = Stale(s)
                       /\ write'[q][t] = "cut"
           /\ \A q \in Rollouts :
                 q # r => write'[q] = write[q] \/ SameFile(r, q, Stale(s))
  <1> DEFINE cut == [q \in Rollouts |-> [write[q] EXCEPT ![Stale(s)] = "cut"]]
             rest == [q \in Rollouts |->
                         IF SameFile(r, q, Stale(s)) THEN cut[q] ELSE write[q]]
             mine == [rest[r] EXCEPT ![s] = "done"]
  <1>1. write' = [q \in Rollouts |-> IF q = r THEN mine ELSE rest[q]]
    BY DEF DropStale
  <1>2. write \in WritesType /\ {"cut", "done"} \subseteq Writes
    BY DEF TypeOK, WritesType, Writes, Unfinished, Writing
  <1>3. \A q \in Rollouts :
           /\ cut[q] \in [StepIds -> Writes]
           /\ cut[q][Stale(s)] = "cut"
           /\ \A t \in StepIds : t # Stale(s) => cut[q][t] = write[q][t]
    BY <1>2 DEF WritesType
  <1> HIDE DEF cut, rest, mine
  <1>4. ASSUME NEW q \in Rollouts
        PROVE  /\ rest[q] \in [StepIds -> Writes]
               /\ \A t \in StepIds :
                     \/ rest[q][t] = write[q][t]
                     \/ SameFile(r, q, t) /\ t = Stale(s) /\ rest[q][t] = "cut"
               /\ rest[q] = write[q] \/ SameFile(r, q, Stale(s))
    <2>1. rest[q] = IF SameFile(r, q, Stale(s)) THEN cut[q] ELSE write[q]
      BY DEF rest
    <2>2. write[q] \in [StepIds -> Writes]
      BY <1>2 DEF WritesType
    <2>3. CASE SameFile(r, q, Stale(s))
      <3>1. ASSUME NEW t \in StepIds
            PROVE  \/ rest[q][t] = write[q][t]
                   \/ SameFile(r, q, t) /\ t = Stale(s) /\ rest[q][t] = "cut"
        <4>1. rest[q][t] = cut[q][t]
          BY <2>1, <2>3
        <4> QED
          BY <1>3, <2>3, <4>1
      <3> QED
        BY <1>3, <2>1, <2>3, <3>1
    <2>4. CASE ~SameFile(r, q, Stale(s))
      BY <2>1, <2>2, <2>4
    <2> QED
      BY <2>3, <2>4
  <1> USE DEF mine
  <1>5. /\ mine \in [StepIds -> Writes]
        /\ mine[s] = "done"
        /\ \A t \in StepIds : t # s => mine[t] = rest[r][t]
    BY <1>2, <1>4
  <1> HIDE DEF mine
  <1>6. write' \in WritesType
    BY <1>1, <1>4, <1>5 DEF WritesType
  <1>7. write'[r] = mine /\ \A q \in Rollouts : q # r => write'[q] = rest[q]
    BY <1>1
  <1> QED
    BY <1>4, <1>5, <1>6, <1>7

(* A thread goes on with a write under way, and with those it shares the   *)
(* file with; it leaves alone what is over or did not begin.  A file is of *)
(* a rollout only if that rollout's thread saved it.                       *)
ThreadEffect(r, s) ==
    /\ UNCHANGED callerVars
    /\ failures' \in 0 .. MaxFailures
    /\ write' \in WritesType
    /\ file' \in FilesType
    /\ target[r] \in Dirs /\ Started(r)
    /\ write[r][s] \in Unfinished
    /\ \A q \in Rollouts, t \in StepIds :
          /\ write[q][t] = "none" <=> write'[q][t] = "none"
          /\ write[q][t] \in {"done", "failed"} => write'[q][t] = write[q][t]
          /\ write[q][t] = "written" => write'[q][t] \in {"written", "done"}
    /\ \A d \in Dirs, t \in StepIds :
          \/ file'[d][t] = file[d][t]
          \/ file'[d][t] \notin Rollouts
          \/ d = target[r] /\ t = s /\ file'[d][t] = r /\ write'[r][s] = "written"

(* Every step of a thread is such.                                         *)
LEMMA ThreadSteps ==
    ASSUME TypeOK, BegunInv, NEW r \in Rollouts, NEW s \in StepIds, Thread(r, s)
    PROVE  ThreadEffect(r, s)
  <1>t. /\ write \in WritesType /\ file \in FilesType /\ failures \in 0 .. MaxFailures
        /\ MaxFailures \in Nat
    BY ExportAssumption DEF TypeOK, WritesType, FilesType, Content
  <1>u. /\ {"taken", "written", "done", "failed", "writing", "mixed", "cut"} \subseteq Writes
        /\ Writing \subseteq Unfinished /\ {"queued", "taken", "written"} \subseteq Unfinished
        /\ "none" \notin Unfinished
        /\ NoFile \in Content /\ Torn \in Content /\ r \in Content
        /\ NoFile \notin Rollouts /\ Torn \notin Rollouts
    BY ExportAssumption DEF Writes, Unfinished, Writing, Content
  <1>d. ASSUME write[r][s] \in Unfinished
        PROVE  target[r] \in Dirs /\ Started(r)
    BY <1>d, <1>u, ThreadHasDir
  (* The state of one write that is not over, when nothing else changes *)
  <1>w. ASSUME NEW state \in Writes, SetWrite(r, s, state), UNCHANGED callerVars,
               write[r][s] \in Unfinished, state # "none",
               write[r][s] = "written" => state = "done",
               failures' \in 0 .. MaxFailures,
               \/ file' = file
               \/ /\ file' \in FilesType
                  /\ \A d \in Dirs, t \in StepIds :
                        \/ file'[d][t] = file[d][t]
                        \/ file'[d][t] \notin Rollouts
                        \/ /\ d = target[r] /\ t = s /\ file'[d][t] = r
                           /\ state = "written"
        PROVE  ThreadEffect(r, s)
    <2>1. /\ write' \in WritesType
          /\ \A q \in Rollouts, t \in StepIds :
                write'[q][t] = IF q = r /\ t = s THEN state ELSE write[q][t]
      BY <1>t, <1>w, OneWrite
    <2>2. \A q \in Rollouts, t \in StepIds :
             /\ write[q][t] = "none" <=> write'[q][t] = "none"
             /\ write[q][t] \in {"done", "failed"} => write'[q][t] = write[q][t]
             /\ write[q][t] = "written" => write'[q][t] \in {"written", "done"}
      BY <1>w, <2>1 DEF Unfinished, Writing
    <2>3. file' \in FilesType /\ \A d \in Dirs, t \in StepIds :
             \/ file'[d][t] = file[d][t]
             \/ file'[d][t] \notin Rollouts
             \/ d = target[r] /\ t = s /\ file'[d][t] = r /\ write'[r][s] = "written"
      BY <1>t, <1>w, <2>1
    <2> QED
      BY <1>d, <1>w, <2>1, <2>2, <2>3 DEF ThreadEffect
  <1>1. CASE Take(r, s)
    BY <1>1, <1>t, <1>u, <1>w DEF Take
  <1>2. CASE Open(r, s)
    <2>1. write[r][s] = "taken" /\ OpenFile(r, s) /\ UNCHANGED <<callerVars, failures>>
      BY <1>2 DEF Open
    <2>2. target[r] \in Dirs /\ Started(r) /\ write[r][s] \in Unfinished
      BY <1>d, <1>u, <2>1
    <2>3. /\ file' \in FilesType
          /\ \A d \in Dirs, t \in StepIds :
                file'[d][t] = IF d = target[r] /\ t = s THEN Torn ELSE file[d][t]
      BY <1>t, <1>u, <2>1, <2>2, OneFile DEF OpenFile
    <2>4. /\ write' \in WritesType
          /\ write'[r][s] \in {"writing", "mixed"}
          /\ \A t \in StepIds : t # s => write'[r][t] = write[r][t]
          /\ \A q \in Rollouts : q # r =>
                \/ write'[q] = write[q]
                \/ /\ SameFile(r, q, s)
                   /\ write'[q][s] = "mixed"
                   /\ \A t \in StepIds : t # s => write'[q][t] = write[q][t]
      BY <2>1, OpenWrites
    <2>5. \A q \in Rollouts, t \in StepIds :
             \/ write'[q][t] = write[q][t]
             \/ /\ write[q][t] \in {"taken", "writing", "mixed"}
                /\ write'[q][t] \in {"writing", "mixed"}
      <3> SUFFICES ASSUME NEW q \in Rollouts, NEW t \in StepIds
                   PROVE  \/ write'[q][t] = write[q][t]
                          \/ /\ write[q][t] \in {"taken", "writing", "mixed"}
                             /\ write'[q][t] \in {"writing", "mixed"}
        OBVIOUS
      <3>1. CASE q = r
        BY <2>1, <2>4, <3>1
      <3>2. CASE q # r
        BY <2>4, <3>2 DEF SameFile
      <3> QED
        BY <3>1, <3>2
    <2>6. \A q \in Rollouts, t \in StepIds :
             /\ write[q][t] = "none" <=> write'[q][t] = "none"
             /\ write[q][t] \in {"done", "failed"} => write'[q][t] = write[q][t]
             /\ write[q][t] = "written" => write'[q][t] \in {"written", "done"}
      BY <2>5
    <2> QED
      BY <1>t, <1>u, <2>1, <2>2, <2>3, <2>4, <2>6 DEF ThreadEffect
  <1>3. CASE Save(r, s)
    <2>1. /\ write[r][s] \in Writing /\ SetWrite(r, s, "written")
          /\ UNCHANGED <<callerVars, failures>>
      BY <1>3 DEF Save
    <2>2. PICK content \in Written(r, s) : SetFile(r, s, content)
      BY <1>3 DEF Save
    <2>3. target[r] \in Dirs
      BY <1>d, <1>u, <2>1
    <2>4. content \in {r, Torn, file[target[r]][s]}
      BY <2>1, <2>2 DEF Written, Writing
    <2>5. file[target[r]][s] \in Content
      BY <1>t, <2>3 DEF FilesType
    <2>6. /\ file' \in FilesType
          /\ \A d \in Dirs, t \in StepIds :
                file'[d][t] = IF d = target[r] /\ t = s THEN content ELSE file[d][t]
      BY <1>t, <1>u, <2>2, <2>3, <2>4, <2>5, OneFile
    <2>7. \A d \in Dirs, t \in StepIds :
                        \/ file'[d][t] = file[d][t]
                        \/ file'[d][t] \notin Rollouts
                        \/ d = target[r] /\ t = s /\ file'[d][t] = r
      BY <1>u, <2>4, <2>6
    <2>8. write[r][s] \in Unfinished /\ write[r][s] # "written"
      BY <2>1 DEF Unfinished, Writing
    <2> QED
      BY <1>t, <1>u, <1>w, <2>1, <2>6, <2>7, <2>8
  <1>4. CASE WriteFails(r, s)
    <2>1. /\ write[r][s] \in Unfinished /\ write[r][s] # "written"
          /\ SetWrite(r, s, "failed") /\ UNCHANGED <<callerVars, file>>
      BY <1>4 DEF WriteFails, Unfinished, Writing
    <2>2. failures' \in 0 .. MaxFailures
      BY <1>4, <1>t DEF WriteFails, Fail
    <2> QED
      BY <1>u, <1>w, <2>1, <2>2
  <1>5. CASE DropStale(r, s)
    <2>1. write[r][s] = "written" /\ UNCHANGED <<callerVars, failures>>
      BY <1>5 DEF DropStale
    <2>2. target[r] \in Dirs /\ Started(r) /\ write[r][s] \in Unfinished
      BY <1>d, <1>u, <2>1
    <2>3. CASE Pooled[r] /\ Stale(s) \in StepIds
      <3>1. /\ file' \in FilesType
            /\ \A d \in Dirs, t \in StepIds :
                  file'[d][t] = IF d = target[r] /\ t = Stale(s) THEN NoFile ELSE file[d][t]
        BY <1>5, <1>t, <1>u, <2>2, <2>3, OneFile DEF DropStale
      <3>2. /\ write' \in WritesType
            /\ write'[r][s] = "done"
            /\ \A q \in Rollouts, t \in StepIds :
                  (q # r \/ t # s) =>
                     \/ write'[q][t] = write[q][t]
                     \/ /\ SameFile(r, q, t) /\ t = Stale(s)
                        /\ write'[q][t] = "cut"
        BY <1>5, <2>3, DropWrites
      <3>3. \A q \in Rollouts, t \in StepIds :
               /\ write[q][t] = "none" <=> write'[q][t] = "none"
               /\ write[q][t] \in {"done", "failed"} => write'[q][t] = write[q][t]
               /\ write[q][t] = "written" => write'[q][t] \in {"written", "done"}
        BY <2>1, <3>2 DEF SameFile
      <3> QED
        BY <1>t, <1>u, <2>1, <2>2, <3>1, <3>2, <3>3 DEF ThreadEffect
    <2>4. CASE ~(Pooled[r] /\ Stale(s) \in StepIds)
      <3>1. SetWrite(r, s, "done") /\ file' = file
        BY <1>5, <2>4 DEF DropStale
      <3> QED
        BY <1>t, <1>u, <1>w, <2>1, <2>2, <3>1
    <2> QED
      BY <2>3, <2>4
  <1> QED
    BY <1>1, <1>2, <1>3, <1>4, <1>5 DEF Thread

-----------------------------------------------------------------------------
(* Types, the caller's window, and where the files are from.               *)

(* Nothing was asked for yet.                                              *)
LEMMA BaseInit == Init => BaseInv
  <1> SUFFICES ASSUME Init PROVE BaseInv
    OBVIOUS
  <1>1. TypeOK
    <2>1. 1 \in 1 .. LastRollout + 1 /\ 0 \in 0 .. Steps /\ 0 \in 0 .. MaxFailures
      BY ExportAssumption
    <2>2. /\ write \in [Rollouts -> [StepIds -> Writes]]
          /\ file \in [Dirs -> [StepIds -> Rollouts \cup {NoFile, Torn}]]
      BY DEF Init, Writes
    <2>3. /\ target \in [Rollouts -> Dirs \cup {NoDir}]
          /\ outcome \in [Rollouts -> {"none", "completed", "failed"}]
          /\ pending \in Seq(StepIds)
      BY DEF Init
    <2>4. broken \in BOOLEAN
      BY DEF Init
    <2>5. /\ exportDir \in Dirs \cup {NoDir}
          /\ rollout \in 1 .. LastRollout + 1
          /\ caller \in {"idle", "forward", "inline", "close"}
          /\ step \in 0 .. Steps
          /\ failures \in 0 .. MaxFailures
      BY <2>1 DEF Init
    <2> QED
      BY <2>2, <2>3, <2>4, <2>5 DEF TypeOK
  <1>2. BegunInv /\ CallerInv
    BY DEF Init, BegunInv, CallerInv, Started
  <1>3. TracedInv
    BY ExportAssumption DEF Init, TracedInv
  <1> QED
    BY <1>1, <1>2, <1>3 DEF BaseInv

(* What a thread does to a write does not disturb the caller's window.     *)
LEMMA BaseThread ==
    ASSUME BaseInv, NEW r \in Rollouts, NEW s \in StepIds, Thread(r, s)
    PROVE  BaseInv'
  <1>1. ThreadEffect(r, s)
    BY ThreadSteps DEF BaseInv
  <1>2. UNCHANGED <<exportDir, rollout, caller, step, broken, pending, target, outcome>>
    BY <1>1 DEF ThreadEffect, callerVars
  <1>3. \A q \in Rollouts, t \in StepIds :
           /\ write[q][t] = "none" <=> write'[q][t] = "none"
           /\ write[q][t] \in {"done", "failed"} => write'[q][t] = write[q][t]
           /\ write[q][t] = "written" => write'[q][t] \in {"written", "done"}
    BY <1>1 DEF ThreadEffect
  <1>4. TypeOK'
    BY <1>1, <1>2 DEF BaseInv, TypeOK, ThreadEffect, WritesType, FilesType, Content
  <1>5. BegunInv'
    BY <1>2, <1>3 DEF BaseInv, BegunInv, Started
  <1>6. CallerInv'
    <2>1. CASE caller = "idle"
      BY <1>2, <2>1 DEF BaseInv, CallerInv
    <2>2. CASE caller # "idle" /\ Pooled[rollout]
      <3>1. PooledWindow /\ rollout \in Rollouts /\ Started(rollout) /\ outcome[rollout] = "none"
        BY <2>2 DEF BaseInv, CallerInv
      <3>2. PooledWindow'
        BY <1>2, <1>3, <3>1 DEF PooledWindow, Oldest
      <3> QED
        BY <1>2, <2>2, <3>1, <3>2 DEF CallerInv, Started
    <2>3. CASE caller # "idle" /\ ~Pooled[rollout]
      <3>1. InlineWindow /\ rollout \in Rollouts /\ Started(rollout) /\ outcome[rollout] = "none"
        BY <2>3 DEF BaseInv, CallerInv
      <3>2. InlineWindow'
        BY <1>2, <1>3, <3>1 DEF InlineWindow
      <3> QED
        BY <1>2, <2>3, <3>1, <3>2 DEF CallerInv, Started
    <2> QED
      BY <2>1, <2>2, <2>3
  <1>7. TracedInv'
    <2> SUFFICES ASSUME NEW d \in Dirs, NEW t \in StepIds, NEW q \in Rollouts,
                        file'[d][t] = q
                 PROVE  target'[q] = d /\ write'[q][t] \in {"written", "done"}
      BY DEF TracedInv
    <2>1. CASE file'[d][t] = file[d][t]
      BY <1>2, <1>3, <2>1 DEF BaseInv, TracedInv
    <2>2. CASE d = target[r] /\ t = s /\ file'[d][t] = r /\ write'[r][s] = "written"
      BY <1>2, <2>2
    <2> QED
      BY <1>1, <2>1, <2>2 DEF ThreadEffect
  <1> QED
    BY <1>4, <1>5, <1>6, <1>7 DEF BaseInv

(* The end of a rollout                                                    *)
LEMMA BaseEnd ==
    ASSUME BaseInv, caller # "idle", NEW result \in {"completed", "failed"}, End(result),
           result = "completed" => \A s \in StepIds : write[rollout][s] = "done",
           step' \in 0 .. Steps, broken' \in BOOLEAN, failures' \in 0 .. MaxFailures,
           UNCHANGED <<exportDir, target, write, file>>
    PROVE  BaseInv'
  <1>1. /\ rollout \in Rollouts /\ outcome[rollout] = "none" /\ Started(rollout)
        /\ TypeOK
    BY DEF BaseInv, CallerInv
  <1>2. rollout' \in 1 .. LastRollout + 1 /\ rollout' > rollout
    <2>1. LastRollout \in Nat /\ rollout \in 1 .. LastRollout
      BY <1>1, ExportAssumption DEF Rollouts
    <2>2. AfterFailure \in 1 .. LastRollout + 1 /\ AfterFailure > rollout
      BY <1>1, AfterFailureType
    <2>3. rollout' = IF result = "failed" THEN AfterFailure ELSE rollout + 1
      BY DEF End
    <2> QED
      BY <2>1, <2>2, <2>3
  <1>3. /\ outcome' = [outcome EXCEPT ![rollout] = result]
        /\ caller' = "idle" /\ pending' = <<>>
    BY DEF End
  <1>4. TypeOK'
    BY <1>1, <1>2, <1>3 DEF TypeOK
  <1>5. BegunInv'
    <2>1. \A q \in Rollouts : q \in Nat
      BY DEF Rollouts
    <2>2. rollout' \in Nat /\ rollout \in Nat
      BY <1>1, <1>2, <2>1
    <2>3. \A q \in Rollouts : outcome'[q] = IF q = rollout THEN result ELSE outcome[q]
      BY <1>1, <1>3 DEF TypeOK
    <2>4. ASSUME NEW q \in Rollouts
          PROVE  /\ q > rollout' \/ (q = rollout' /\ caller' = "idle") => ~Started(q)'
                 /\ ~Started(q)' => /\ outcome'[q] = "none"
                                    /\ \A s \in StepIds : write'[q][s] = "none"
                 /\ outcome'[q] = "completed" => \A s \in StepIds : write'[q][s] = "done"
      <3>1. q >= rollout' => q > rollout
        BY <1>2, <2>1, <2>2
      <3>2. Started(q)' <=> Started(q)
        BY DEF Started
      <3>3. q > rollout => ~Started(q)
        BY DEF BaseInv, BegunInv
      <3>4. /\ ~Started(q) => /\ outcome[q] = "none"
                               /\ \A s \in StepIds : write[q][s] = "none"
            /\ outcome[q] = "completed" => \A s \in StepIds : write[q][s] = "done"
        BY DEF BaseInv, BegunInv
      <3>5. CASE q = rollout
        BY <1>1, <1>2, <2>1, <2>2, <2>3, <3>2, <3>5
      <3>6. CASE q # rollout
        <4>1. outcome'[q] = outcome[q]
          BY <2>3, <3>6
        <4>2. write' = write
          OBVIOUS
        <4>3. q > rollout' \/ q = rollout' => q >= rollout'
          BY <2>1, <2>2
        <4> QED
          BY <3>1, <3>2, <3>3, <3>4, <4>1, <4>2, <4>3
      <3> QED
        BY <3>5, <3>6
    <2> QED
      BY <2>4 DEF BegunInv
  <1>6. CallerInv'
    BY <1>3 DEF CallerInv
  <1>7. TracedInv'
    BY DEF BaseInv, TracedInv
  <1> QED
    BY <1>4, <1>5, <1>6, <1>7 DEF BaseInv

(* The window, but for where the caller is                                 *)
AwaitedWindow ==
    /\ Oldest \in 0 .. step
    /\ \A i \in 1 .. Len(pending) : pending[i] = Oldest + i - 1
    /\ \A s \in StepIds :
          /\ s < Oldest => /\ write[rollout][s] \in {"done", "failed"}
                           /\ ~broken => write[rollout][s] = "done"
          /\ s >= step => write[rollout][s] = "none"

(* The oldest write is over: the window begins one step later.             *)
LEMMA Awaited ==
    ASSUME PooledWindow, pending \in Seq(StepIds), pending # <<>>, step \in Nat,
           write[rollout][Head(pending)] \in {"done", "failed"},
           pending' = Tail(pending), UNCHANGED <<rollout, step, write>>,
           ~broken' => ~broken /\ write[rollout][Head(pending)] = "done"
    PROVE  AwaitedWindow'
  <1>1. /\ Len(pending) \in Nat \ {0} /\ Head(pending) = pending[1]
        /\ Len(pending') = Len(pending) - 1
        /\ \A i \in 1 .. Len(pending') : pending'[i] = pending[i + 1]
    BY HeadTailProperties, LenProperties, EmptySeq
  <1>2. /\ Oldest = step - Len(pending) /\ Oldest \in Nat
        /\ Oldest' = Oldest + 1 /\ Oldest + 1 <= step
        /\ Head(pending) = Oldest
    BY <1>1 DEF PooledWindow, Oldest
  <1>3. \A i \in 1 .. Len(pending') : pending'[i] = Oldest' + i - 1
    BY <1>1, <1>2 DEF PooledWindow
  <1>4. ASSUME NEW s \in StepIds
        PROVE  /\ s < Oldest' => /\ write'[rollout'][s] \in {"done", "failed"}
                                 /\ ~broken' => write'[rollout'][s] = "done"
               /\ s >= step' => write'[rollout'][s] = "none"
    <2>1. s < Oldest' => s < Oldest \/ s = Head(pending)
      BY <1>2, StepsAreNumbers
    <2> QED
      BY <2>1 DEF PooledWindow
  <1> QED
    BY <1>2, <1>3, <1>4 DEF AwaitedWindow

(* The caller goes on in its window, or a rollout ends.                    *)
LEMMA BaseCaller ==
    ASSUME BaseInv, Caller
    PROVE  BaseInv'
  <1>t. TypeOK /\ BegunInv /\ CallerInv /\ TracedInv
    BY DEF BaseInv
  <1>n. /\ step \in 0 .. Steps /\ Steps \in Nat
        /\ pending \in Seq(StepIds) /\ Len(pending) \in Nat
        /\ failures \in 0 .. MaxFailures /\ MaxFailures \in Nat
        /\ write \in WritesType
    BY <1>t, ExportAssumption, LenProperties DEF TypeOK, WritesType
  (* What is not the start of a rollout, nor its end *)
  <1>k. ASSUME caller # "idle",
               UNCHANGED <<exportDir, rollout, target, outcome, file>>,
               step' \in 0 .. Steps, broken' \in BOOLEAN, failures' \in 0 .. MaxFailures,
               caller' \in {"forward", "inline", "close"}, pending' \in Seq(StepIds),
               write' \in WritesType,
               \A q \in Rollouts, t \in StepIds :
                  \/ write'[q][t] = write[q][t]
                  \/ q = rollout /\ write[q][t] = "none",
               Pooled[rollout] => PooledWindow',
               ~Pooled[rollout] => InlineWindow'
        PROVE  BaseInv'
    <2>1. rollout \in Rollouts /\ Started(rollout) /\ outcome[rollout] = "none"
      BY <1>k, <1>t DEF CallerInv
    <2>2. TypeOK'
      BY <1>k, <1>t DEF TypeOK, WritesType
    <2>3. BegunInv'
      <3>1. \A q \in Rollouts : q # rollout => \A t \in StepIds : write'[q][t] = write[q][t]
        BY <1>k
      <3> QED
        BY <1>k, <1>t, <2>1, <3>1 DEF BegunInv, Started
    <2>4. CallerInv'
      BY <1>k, <2>1 DEF CallerInv, Started
    <2>5. TracedInv'
      BY <1>k, <1>t DEF TracedInv
    <2> QED
      BY <2>2, <2>3, <2>4, <2>5 DEF BaseInv
  (* One write is begun, of the step that comes next *)
  <1>b. ASSUME NEW state \in Writes, caller # "idle", step \in StepIds,
               write[rollout][step] = "none", SetWrite(rollout, step, state)
        PROVE  /\ write' \in WritesType
               /\ \A q \in Rollouts, t \in StepIds :
                     write'[q][t] = IF q = rollout /\ t = step THEN state ELSE write[q][t]
    BY <1>b, <1>n, <1>t, OneWrite DEF CallerInv
  <1>1. CASE Start
    <2>1. /\ caller = "idle" /\ rollout \in Rollouts /\ pending = <<>>
          /\ caller' = "forward" /\ step' = 0 /\ broken' = FALSE
          /\ UNCHANGED <<rollout, pending, outcome, write, file, failures>>
      BY <1>1, <1>t DEF Start, CallerInv
    <2>2. /\ ~Started(rollout) /\ outcome[rollout] = "none"
          /\ \A s \in StepIds : write[rollout][s] = "none"
      BY <1>t, <2>1 DEF BegunInv
    <2>3. exportDir' \in Dirs \cup {NoDir}
      BY <1>1, <1>t, <2>1, ExportAssumption DEF Start, TypeOK
    <2>4. PICK d \in Dirs : target' = [target EXCEPT ![rollout] = d]
      BY <1>1, <2>3, ExportAssumption DEF Start
    <2>5. /\ target' \in [Rollouts -> Dirs \cup {NoDir}]
          /\ \A q \in Rollouts : target'[q] = IF q = rollout THEN d ELSE target[q]
          /\ d # NoDir
      BY <1>t, <2>1, <2>4, ExportAssumption DEF TypeOK
    <2>6. TypeOK'
      <3>1. 0 \in 0 .. Steps
        BY <1>n
      <3> QED
        BY <1>t, <2>1, <2>3, <2>5, <3>1 DEF TypeOK
    <2>7. BegunInv'
      <3>1. \A q \in Rollouts : q \in Nat
        BY DEF Rollouts
      <3>2. \A q \in Rollouts : q > rollout => q # rollout
        BY <2>1, <3>1
      <3>3. \A q \in Rollouts : q # rollout => (Started(q)' <=> Started(q))
        BY <2>5 DEF Started
      <3>4. Started(rollout)'
        BY <2>1, <2>5 DEF Started
      <3> QED
        BY <1>t, <2>1, <2>2, <3>2, <3>3, <3>4 DEF BegunInv
    <2>8. CallerInv'
      <3>1. Started(rollout)'
        BY <2>1, <2>5 DEF Started
      <3>2. Len(<<>>) = 0
        OBVIOUS
      <3>3. PooledWindow'
        <4>1. Oldest' = 0 /\ Len(pending') = 0
          <5>1. Len(pending') = 0 /\ step' = 0
            BY <2>1, <3>2
          <5>2. step' - Len(pending') = 0
            BY <5>1
          <5> QED
            BY <5>1, <5>2 DEF Oldest
        <4>2. \A i \in 1 .. Len(pending') : pending'[i] = Oldest' + i - 1
          BY <4>1
        <4>3. \A s \in StepIds : ~(s < Oldest') /\ write'[rollout'][s] = "none"
          BY <2>1, <2>2, <4>1, StepsAreNumbers
        <4>4. Oldest' \in 0 .. step' /\ broken' = FALSE /\ caller' = "forward"
          BY <2>1, <4>1
        <4> QED
          BY <4>2, <4>3, <4>4 DEF PooledWindow
      <3>4. InlineWindow'
        BY <1>n, <2>1, <2>2, <3>2, StepsAreNumbers DEF InlineWindow
      <3> QED
        BY <2>1, <2>2, <3>1, <3>3, <3>4 DEF CallerInv
    <2>9. TracedInv'
      BY <1>t, <2>1, <2>2, <2>5 DEF TracedInv
    <2> QED
      BY <2>6, <2>7, <2>8, <2>9 DEF BaseInv
  <1>2. CASE Submit
    <2>1. /\ caller = "forward" /\ Pooled[rollout] /\ step < Steps
          /\ SetWrite(rollout, step, "queued")
          /\ pending' = Append(pending, step) /\ step' = step + 1
          /\ UNCHANGED <<exportDir, rollout, caller, broken, target, outcome, file, failures>>
      BY <1>2 DEF Submit
    <2>2. PooledWindow /\ rollout \in Rollouts
      BY <1>t, <2>1 DEF CallerInv
    <2>3. step \in StepIds /\ write[rollout][step] = "none" /\ "queued" \in Writes
      BY <1>n, <2>1, <2>2, StepsAreNumbers DEF PooledWindow, Writes, Unfinished
    <2>4. /\ write' \in WritesType
          /\ \A q \in Rollouts, t \in StepIds :
                write'[q][t] = IF q = rollout /\ t = step THEN "queued" ELSE write[q][t]
      BY <1>b, <2>1, <2>3
    <2>5. /\ pending' \in Seq(StepIds) /\ Len(pending') = Len(pending) + 1
          /\ \A i \in 1 .. Len(pending) : pending'[i] = pending[i]
          /\ pending'[Len(pending) + 1] = step
      BY <1>n, <2>1, <2>3, AppendProperties
    <2>6. PooledWindow'
      <3>1. Oldest' = Oldest /\ Oldest \in 0 .. step /\ Oldest = step - Len(pending)
        BY <1>n, <2>1, <2>2, <2>5 DEF Oldest, PooledWindow
      <3>2. Oldest' \in 0 .. step'
        BY <1>n, <2>1, <3>1
      <3>3. \A i \in 1 .. Len(pending') : pending'[i] = Oldest' + i - 1
        <4> SUFFICES ASSUME NEW i \in 1 .. Len(pending') PROVE pending'[i] = Oldest' + i - 1
          OBVIOUS
        <4>1. CASE i \in 1 .. Len(pending)
          BY <2>2, <2>5, <3>1, <4>1 DEF PooledWindow
        <4>2. CASE i = Len(pending) + 1
          BY <1>n, <2>5, <3>1, <4>2
        <4> QED
          BY <1>n, <2>5, <4>1, <4>2
      <3>4. ASSUME NEW s \in StepIds
            PROVE  /\ s < Oldest' => /\ write'[rollout][s] \in {"done", "failed"}
                                     /\ ~broken' => write'[rollout][s] = "done"
                   /\ s >= step' => write'[rollout][s] = "none"
        <4>1. s \in Nat
          BY StepsAreNumbers
        <4>2. s < Oldest \/ s >= step' => s # step
          BY <1>n, <2>1, <3>1, <4>1
        <4>3. s >= step' => s >= step
          BY <1>n, <2>1, <4>1
        <4> QED
          BY <2>1, <2>2, <2>4, <3>1, <4>2, <4>3 DEF PooledWindow
      <3> QED
        BY <2>1, <2>2, <3>2, <3>3, <3>4 DEF PooledWindow
    <2>7. step' \in 0 .. Steps
      BY <1>n, <2>1
    <2>8. \A q \in Rollouts, t \in StepIds :
             write'[q][t] = write[q][t] \/ (q = rollout /\ write[q][t] = "none")
      BY <2>3, <2>4
    <2> QED
      BY <1>k, <1>n, <1>t, <2>1, <2>4, <2>5, <2>6, <2>7, <2>8 DEF TypeOK
  <1>3. CASE AwaitOldest
    <2>1. /\ caller = "forward" /\ ~HasRoom /\ step < Steps
          /\ write[rollout][Head(pending)] \in {"done", "failed"}
          /\ pending' = Tail(pending)
          /\ broken' = (write[rollout][Head(pending)] = "failed")
          /\ caller' = IF broken' THEN "close" ELSE caller
          /\ UNCHANGED <<exportDir, rollout, step, target, outcome, write, file, failures>>
      BY <1>3 DEF AwaitOldest
    <2>2. pending # <<>>
      BY <2>1, ExportAssumption DEF HasRoom
    <2>3. CASE Pooled[rollout]
      <3>1. PooledWindow
        BY <1>t, <2>1, <2>3 DEF CallerInv
      <3>2. ~broken
        BY <2>1, <3>1 DEF PooledWindow
      <3>3. PooledWindow'
        <4>1. ~broken' => ~broken /\ write[rollout][Head(pending)] = "done"
          BY <2>1, <3>2
        <4>2. AwaitedWindow'
          BY <1>n, <2>1, <2>2, <3>1, <4>1, Awaited
        <4> QED
          BY <2>1, <4>2 DEF AwaitedWindow, PooledWindow
      <3>4. pending' \in Seq(StepIds)
        BY <1>n, <2>1, <2>2
      <3>5. broken' \in BOOLEAN /\ caller' \in {"forward", "close"}
        BY <2>1
      <3>6. step' \in 0 .. Steps /\ failures' \in 0 .. MaxFailures /\ write' \in WritesType
        BY <1>n, <2>1
      <3> QED
        BY <1>k, <2>1, <2>3, <3>3, <3>4, <3>5, <3>6
    <2>4. CASE ~Pooled[rollout]
      BY <1>t, <2>1, <2>2, <2>4 DEF CallerInv, InlineWindow
    <2> QED
      BY <2>3, <2>4
  <1>4. CASE ForwardFails
    <2>1. /\ caller = "forward" /\ failures' \in 0 .. MaxFailures
          /\ UNCHANGED <<exportDir, step, target, write, file>>
      BY <1>4, <1>n DEF ForwardFails, Fail
    <2>2. CASE Pooled[rollout]
      <3>1. /\ caller' = "close" /\ broken' = TRUE
            /\ UNCHANGED <<rollout, pending, outcome>>
        BY <1>4, <2>2 DEF ForwardFails
      <3>2. PooledWindow
        BY <1>t, <2>1, <2>2 DEF CallerInv
      <3>3. PooledWindow'
        BY <2>1, <3>1, <3>2 DEF PooledWindow, Oldest
      <3> QED
        BY <1>k, <1>n, <2>1, <2>2, <3>1, <3>3
    <2>3. CASE ~Pooled[rollout]
      <3>1. End("failed") /\ UNCHANGED broken
        BY <1>4, <2>3 DEF ForwardFails
      <3>2. broken' \in BOOLEAN
        BY <1>t, <3>1 DEF TypeOK
      <3> QED
        BY <1>n, <2>1, <3>1, <3>2, BaseEnd
    <2> QED
      BY <2>2, <2>3
  <1>5. CASE StreamEnds
    <2>1. /\ caller = "forward" /\ step = Steps
          /\ UNCHANGED <<exportDir, step, broken, target, write, file, failures>>
      BY <1>5 DEF StreamEnds
    <2>2. broken' \in BOOLEAN
      BY <1>t, <2>1 DEF TypeOK
    <2>3. CASE Pooled[rollout]
      <3>1. caller' = "close" /\ UNCHANGED <<rollout, pending, outcome>>
        BY <1>5, <2>3 DEF StreamEnds
      <3>2. PooledWindow
        BY <1>t, <2>1, <2>3 DEF CallerInv
      <3>3. PooledWindow'
        BY <2>1, <3>1, <3>2 DEF PooledWindow, Oldest
      <3> QED
        BY <1>k, <1>n, <2>1, <2>2, <2>3, <3>1, <3>3
    <2>4. CASE ~Pooled[rollout]
      <3>1. End("completed")
        BY <1>5, <2>4 DEF StreamEnds
      <3>2. \A s \in StepIds : write[rollout][s] = "done"
        BY <1>t, <2>1, <2>4, StepsAreNumbers DEF CallerInv, InlineWindow
      <3> QED
        BY <1>n, <2>1, <2>2, <3>1, <3>2, BaseEnd
    <2> QED
      BY <2>3, <2>4
  <1>6. CASE CloseRaises
    <2>1. /\ caller = "close" /\ End("failed")
          /\ UNCHANGED <<exportDir, step, broken, target, write, file, failures>>
      BY <1>6 DEF CloseRaises
    <2>2. broken' \in BOOLEAN
      BY <1>t, <2>1 DEF TypeOK
    <2> QED
      BY <1>n, <2>1, <2>2, BaseEnd
  <1>7. CASE CloseAwaits
    <2>1. /\ caller = "close" /\ pending # <<>>
          /\ write[rollout][Head(pending)] = "done"
          /\ pending' = Tail(pending)
          /\ UNCHANGED <<exportDir, rollout, caller, step, broken, target, outcome,
                         write, file, failures>>
      BY <1>7 DEF CloseAwaits
    <2>2. Pooled[rollout] /\ PooledWindow
      BY <1>t, <2>1 DEF CallerInv, InlineWindow
    <2>3. AwaitedWindow'
      BY <1>n, <2>1, <2>2, Awaited
    <2>4. PooledWindow'
      BY <2>1, <2>2, <2>3 DEF AwaitedWindow, PooledWindow
    <2>5. pending' \in Seq(StepIds) /\ broken' \in BOOLEAN
      BY <1>n, <1>t, <2>1 DEF TypeOK
    <2> QED
      BY <1>k, <1>n, <2>1, <2>2, <2>4, <2>5
  <1>8. CASE Closed
    <2>1. /\ caller = "close" /\ pending = <<>>
          /\ End(IF broken THEN "failed" ELSE "completed")
          /\ UNCHANGED <<exportDir, step, broken, target, write, file, failures>>
      BY <1>8 DEF Closed
    <2>2. PooledWindow
      BY <1>t, <2>1 DEF CallerInv, InlineWindow
    <2>3. ~broken => \A s \in StepIds : write[rollout][s] = "done"
      <3>1. Len(pending) = 0
        BY <2>1
      <3>2. Oldest = step
        BY <1>n, <3>1 DEF Oldest
      <3> QED
        BY <2>1, <2>2, <3>2, StepsAreNumbers DEF PooledWindow
    <2>4. broken \in BOOLEAN /\ broken' \in BOOLEAN
      BY <1>t, <2>1 DEF TypeOK
    <2>5. CASE broken
      <3>1. End("failed")
        BY <2>1, <2>5
      <3> QED
        BY <1>n, <2>1, <2>4, <3>1, BaseEnd
    <2>6. CASE ~broken
      <3>1. End("completed")
        BY <2>1, <2>6
      <3> QED
        BY <1>n, <2>1, <2>3, <2>4, <2>6, <3>1, BaseEnd
    <2> QED
      BY <2>5, <2>6
  <1>9. CASE WriteInline
    <2>1. /\ caller = "forward" /\ ~Pooled[rollout] /\ step < Steps
          /\ SetWrite(rollout, step, "taken") /\ caller' = "inline"
          /\ UNCHANGED <<exportDir, rollout, step, broken, pending, target, outcome,
                         file, failures>>
      BY <1>9 DEF WriteInline
    <2>2. InlineWindow /\ rollout \in Rollouts
      BY <1>t, <2>1 DEF CallerInv
    <2>3. step \in StepIds /\ write[rollout][step] = "none" /\ "taken" \in Writes
      BY <1>n, <2>1, <2>2, StepsAreNumbers DEF InlineWindow, Writes, Unfinished
    <2>4. /\ write' \in WritesType
          /\ \A q \in Rollouts, t \in StepIds :
                write'[q][t] = IF q = rollout /\ t = step THEN "taken" ELSE write[q][t]
      BY <1>b, <2>1, <2>3
    <2>5. InlineWindow'
      BY <1>n, <2>1, <2>2, <2>3, <2>4, StepsAreNumbers DEF InlineWindow
    <2>6. \A q \in Rollouts, t \in StepIds :
             write'[q][t] = write[q][t] \/ (q = rollout /\ write[q][t] = "none")
      BY <2>3, <2>4
    <2>7. broken' \in BOOLEAN
      BY <1>t, <2>1 DEF TypeOK
    <2> QED
      BY <1>k, <1>n, <2>1, <2>4, <2>5, <2>6, <2>7
  <1>10. CASE WroteInline
    <2>1. /\ caller = "inline"
          /\ UNCHANGED <<exportDir, broken, target, write, file, failures>>
      BY <1>10 DEF WroteInline
    <2>2. ~Pooled[rollout] /\ InlineWindow
      BY <1>t, <2>1 DEF CallerInv, PooledWindow
    <2>3. broken' \in BOOLEAN
      BY <1>t, <2>1 DEF TypeOK
    <2>4. CASE /\ write[rollout][step] = "done" /\ caller' = "forward" /\ step' = step + 1
               /\ UNCHANGED <<rollout, pending, outcome>>
      <3>1. step < Steps
        BY <2>1, <2>2 DEF InlineWindow
      <3>2. InlineWindow'
        BY <1>n, <2>1, <2>2, <2>4, <3>1, StepsAreNumbers DEF InlineWindow
      <3> QED
        BY <1>k, <1>n, <2>1, <2>2, <2>3, <2>4, <3>1, <3>2
    <2>5. CASE End("failed") /\ UNCHANGED step
      BY <1>n, <2>1, <2>3, <2>5, BaseEnd
    <2> QED
      BY <1>10, <2>4, <2>5 DEF WroteInline
  <1> QED
    BY <1>1, <1>2, <1>3, <1>4, <1>5, <1>6, <1>7, <1>8, <1>9, <1>10 DEF Caller


(* The base invariant is kept, whoever makes the step.                     *)
LEMMA BaseStep ==
    ASSUME BaseInv, [Next]_vars
    PROVE  BaseInv'
  <1>1. CASE Caller
    BY <1>1, BaseCaller
  <1>2. ASSUME NEW r \in Rollouts, NEW s \in StepIds, Thread(r, s)
        PROVE  BaseInv'
    BY <1>2, BaseThread
  <1>3. CASE UNCHANGED vars
    <2>1. TypeOK' /\ BegunInv' /\ TracedInv'
      BY <1>3 DEF BaseInv, vars, callerVars, TypeOK, BegunInv, Started, TracedInv
    <2>2. CallerInv'
      BY <1>3 DEF BaseInv, vars, callerVars, CallerInv, Started, PooledWindow, InlineWindow,
                  Oldest
    <2> QED
      BY <2>1, <2>2 DEF BaseInv
  <1> QED
    BY <1>1, <1>2, <1>3 DEF Next

(* The export goes through the states it has, whatever fails.              *)
THEOREM ExportTypeCorrect == Spec => []TypeOK
  <1>1. BaseInv /\ [Next]_vars => BaseInv'
    BY BaseStep
  <1>2. BaseInv => TypeOK
    BY DEF BaseInv
  <1> QED
    BY <1>1, <1>2, BaseInit, PTL DEF Spec

(* Every file that is of a rollout was saved by it, in its directory.      *)
THEOREM FilesAreTraced == Spec => []TracedInv
  <1>1. BaseInv /\ [Next]_vars => BaseInv'
    BY BaseStep
  <1>2. BaseInv => TracedInv
    BY DEF BaseInv
  <1> QED
    BY <1>1, <1>2, BaseInit, PTL DEF Spec

-----------------------------------------------------------------------------
(* A rollout that is alone in its directory.                               *)

(* Who is alone was so before: the others that wrote there are over.       *)
LEMMA StaysAlone ==
    ASSUME BaseInv, [Next]_vars, NEW r \in Rollouts, Started(r), Alone(r)'
    PROVE  Alone(r) /\ target'[r] = target[r]
  <1>0. TypeOK /\ BegunInv /\ CallerInv
    BY DEF BaseInv
  <1>1. CASE UNCHANGED callerVars
    BY <1>1 DEF callerVars, Alone, LastWriter, Started
  <1>2. CASE Start
    <2>1. /\ rollout \in Rollouts /\ ~Started(rollout) /\ outcome' = outcome
          /\ \A q \in Rollouts : q # rollout => target'[q] = target[q]
      BY <1>0, <1>2 DEF Start, BegunInv, TypeOK
    <2>2. target'[r] = target[r]
      BY <2>1
    <2>3. ASSUME NEW q \in Rollouts, q # r, target[q] = target[r]
          PROVE  q < r /\ outcome[q] = "completed"
      <3>1. q # rollout
        BY <2>1, <2>3 DEF Started
      <3> QED
        BY <2>1, <2>2, <2>3, <3>1 DEF Alone, LastWriter
    <2> QED
      BY <2>2, <2>3 DEF Alone, LastWriter
  <1>3. CASE /\ target' = target
             /\ caller # "idle"
             /\ \E result \in {"completed", "failed"} :
                   outcome' = [outcome EXCEPT ![rollout] = result]
    <2>1. \A q \in Rollouts : q # rollout => outcome'[q] = outcome[q]
      BY <1>0, <1>3 DEF TypeOK
    <2>2. rollout \in Rollouts /\ \A q \in Rollouts : q \in Nat
      BY <1>0, <1>3 DEF CallerInv, Rollouts
    <2>3. r <= rollout
      BY <1>0, <2>2 DEF BegunInv
    <2>4. ASSUME NEW q \in Rollouts, q # r, target[q] = target[r]
          PROVE  q < r /\ outcome[q] = "completed"
      <3>1. q < r /\ outcome'[q] = "completed"
        BY <1>3, <2>4 DEF Alone, LastWriter
      <3>2. q # rollout
        BY <2>2, <2>3, <3>1
      <3> QED
        BY <2>1, <3>1, <3>2
    <2> QED
      BY <1>3, <2>4 DEF Alone, LastWriter
  <1>4. CASE target' = target /\ outcome' = outcome
    BY <1>4 DEF Alone, LastWriter, Started
  <1>5. CASE Caller
    <2>1. ASSUME caller # "idle", target' = target, NEW result \in {"completed", "failed"},
                 End(result)
          PROVE  Alone(r) /\ target'[r] = target[r]
      BY <1>3, <2>1 DEF End
    <2>2. CASE ForwardFails
      BY <1>4, <2>1, <2>2 DEF ForwardFails
    <2>3. CASE StreamEnds
      BY <1>4, <2>1, <2>3 DEF StreamEnds
    <2>4. CASE CloseRaises
      BY <2>1, <2>4 DEF CloseRaises
    <2>5. CASE Closed
      BY <2>1, <2>5 DEF Closed
    <2>6. CASE WroteInline
      BY <1>4, <2>1, <2>6 DEF WroteInline
    <2>7. CASE Submit \/ AwaitOldest \/ CloseAwaits \/ WriteInline
      BY <1>4, <2>7 DEF Submit, AwaitOldest, CloseAwaits, WriteInline
    <2> QED
      BY <1>2, <1>5, <2>2, <2>3, <2>4, <2>5, <2>6, <2>7 DEF Caller
  <1>6. ASSUME NEW q \in Rollouts, NEW s \in StepIds, Thread(q, s)
        PROVE  UNCHANGED callerVars
    BY <1>6, ThreadSteps DEF BaseInv, ThreadEffect
  <1> QED
    BY <1>1, <1>5, <1>6 DEF Next, vars

(* Who begins a rollout finds no write of it; otherwise the caller begins  *)
(* the write that is next, if any, and touches no file.                    *)
LEMMA CallerSteps ==
    ASSUME BaseInv, Caller
    PROVE  /\ file' = file
           /\ \A r \in Rollouts, s \in StepIds :
                 \/ write'[r][s] = write[r][s]
                 \/ /\ write[r][s] = "none" /\ write'[r][s] \in {"queued", "taken"}
                    /\ r = rollout /\ s = step
                    /\ Pooled[r] => Submit
  <1>1. CASE Submit \/ WriteInline
    <2>1. /\ rollout \in Rollouts /\ step \in StepIds /\ write \in WritesType
          /\ write[rollout][step] = "none"
          /\ {"queued", "taken"} \subseteq Writes
      <3>1. caller = "forward" /\ step < Steps
        BY <1>1 DEF Submit, WriteInline
      <3>2. /\ rollout \in Rollouts
            /\ IF Pooled[rollout] THEN PooledWindow ELSE InlineWindow
        BY <3>1 DEF BaseInv, CallerInv
      <3>3. step \in StepIds /\ step >= step
        <4>1. step \in Nat
          BY StepsAreNumbers DEF BaseInv, TypeOK
        <4> QED
          BY <3>1, <4>1, StepsAreNumbers
      <3>4. write[rollout][step] = "none"
        BY <3>1, <3>2, <3>3 DEF PooledWindow, InlineWindow
      <3> QED
        BY <3>2, <3>3, <3>4 DEF BaseInv, TypeOK, WritesType, Writes, Unfinished
    <2>2. file' = file /\ (WriteInline => ~Pooled[rollout])
      BY <1>1 DEF Submit, WriteInline
    <2>3. PICK state \in {"queued", "taken"} : SetWrite(rollout, step, state)
      BY <1>1 DEF Submit, WriteInline
    <2>4. \A q \in Rollouts, t \in StepIds :
             write'[q][t] = IF q = rollout /\ t = step THEN state ELSE write[q][t]
      BY <2>1, <2>3, OneWrite
    <2> QED
      BY <1>1, <2>1, <2>2, <2>3, <2>4
  <1>2. CASE Start \/ AwaitOldest \/ ForwardFails \/ StreamEnds \/ CloseRaises
             \/ CloseAwaits \/ Closed \/ WroteInline
    BY <1>2 DEF Start, AwaitOldest, ForwardFails, StreamEnds, CloseRaises, CloseAwaits,
                Closed, WroteInline
  <1> QED
    BY <1>1, <1>2 DEF Caller

(* Nobody else's thread writes in the directory of a rollout that is alone *)
(* there: the others' are over.                                            *)
LEMMA OthersKeepAway ==
    ASSUME BaseInv, NEW r \in Rollouts, Alone(r),
           NEW q \in Rollouts, q # r, NEW s \in StepIds, Thread(q, s)
    PROVE  /\ \A t \in StepIds : write'[r][t] = write[r][t]
           /\ \A t \in StepIds : file'[target[r]][t] = file[target[r]][t]
  <1>0. TypeOK /\ BegunInv
    BY DEF BaseInv
  <1>1. write[q][s] \in Unfinished /\ target[q] \in Dirs
    BY <1>0, ThreadSteps DEF ThreadEffect
  <1>2. target[q] # target[r]
    BY <1>0, <1>1 DEF Alone, LastWriter, BegunInv, Unfinished, Writing
  <1>3. target[r] \in Dirs
    BY <1>0 DEF Alone, Started, TypeOK
  <1>4. write \in WritesType /\ file \in FilesType
    BY <1>0 DEF TypeOK, WritesType, FilesType, Content
  <1>5. {"taken", "written", "failed", "done"} \subseteq Writes
        /\ {NoFile, Torn, q} \subseteq Content
    BY DEF Writes, Unfinished, Content
  <1>w. ASSUME NEW state \in Writes, SetWrite(q, s, state)
        PROVE  \A t \in StepIds : write'[r][t] = write[r][t]
    BY <1>4, <1>w, OneWrite
  <1>f. ASSUME NEW t \in StepIds, NEW content \in Content, SetFile(q, t, content)
        PROVE  \A u \in StepIds : file'[target[r]][u] = file[target[r]][u]
    BY <1>1, <1>2, <1>3, <1>4, <1>f, OneFile
  <1>6. CASE Take(q, s)
    BY <1>5, <1>6, <1>w DEF Take
  <1>7. CASE Open(q, s)
    <2>1. OpenFile(q, s) /\ SetFile(q, s, Torn)
      BY <1>7 DEF Open, OpenFile
    <2>2. ~SameFile(q, r, s)
      BY <1>2 DEF SameFile
    <2>3. write'[r] = write[r]
      BY <1>0, <2>1, <2>2, OpenWrites
    <2> QED
      BY <1>5, <1>f, <2>1, <2>3
  <1>8. CASE Save(q, s)
    <2>1. /\ write[q][s] \in Writing /\ SetWrite(q, s, "written")
          /\ \E content \in Written(q, s) : SetFile(q, s, content)
      BY <1>8 DEF Save
    <2>2. PICK content \in Written(q, s) : SetFile(q, s, content)
      BY <2>1
    <2>3. content \in {q, Torn, file[target[q]][s]}
      BY <2>1, <2>2 DEF Written, Writing
    <2>4. content \in Content
      BY <1>1, <1>4, <1>5, <2>3 DEF FilesType
    <2> QED
      BY <1>5, <1>f, <1>w, <2>1, <2>2, <2>4
  <1>9. CASE WriteFails(q, s)
    BY <1>5, <1>9, <1>w DEF WriteFails
  <1>10. CASE DropStale(q, s)
    <2>1. CASE Pooled[q] /\ Stale(s) \in StepIds
      <3>1. SetFile(q, Stale(s), NoFile)
        BY <1>10, <2>1 DEF DropStale
      <3>2. write'[r] = write[r] \/ SameFile(q, r, Stale(s))
        BY <1>0, <1>10, <2>1, DropWrites
      <3>3. write'[r] = write[r]
        BY <1>2, <3>2 DEF SameFile
      <3> QED
        BY <1>5, <1>f, <2>1, <3>1, <3>3
    <2>2. CASE ~(Pooled[q] /\ Stale(s) \in StepIds)
      BY <1>5, <1>10, <1>w, <2>2 DEF DropStale
    <2> QED
      BY <2>1, <2>2
  <1> QED
    BY <1>6, <1>7, <1>8, <1>9, <1>10 DEF Thread

(* What its own threads do there, when nobody got between                  *)
OwnStep(r, s) ==
    LET same == \A t \in StepIds : file'[target[r]][t] = file[target[r]][t] IN
    /\ \A t \in StepIds : t # s =>
          \/ write'[r][t] = write[r][t]
          \/ /\ write[r][t] = "writing" /\ write'[r][t] = "cut"
             /\ t = Stale(s) /\ write[r][s] = "written" /\ Pooled[r]
    /\ \/ write[r][s] = "queued" /\ write'[r][s] = "taken" /\ same
       \/ write[r][s] \notin {"none", "written", "done"} /\ write'[r][s] = "failed" /\ same
       \/ /\ write[r][s] = "taken" /\ write'[r][s] = "writing"
          /\ \A t \in StepIds :
                file'[target[r]][t] = IF t = s THEN Torn ELSE file[target[r]][t]
       \/ /\ write[r][s] = "writing" /\ write'[r][s] = "written"
          /\ \A t \in StepIds :
                file'[target[r]][t] = IF t = s THEN r ELSE file[target[r]][t]
       \/ write[r][s] = "cut" /\ write'[r][s] = "written" /\ same
       \/ /\ write[r][s] = "written" /\ write'[r][s] = "done"
          /\ \A t \in StepIds :
                file'[target[r]][t] = IF Pooled[r] /\ t = Stale(s)
                                      THEN NoFile ELSE file[target[r]][t]

(* The steps of its threads are such.                                      *)
LEMMA OwnThread ==
    ASSUME BaseInv, NEW r \in Rollouts, Alone(r), NEW s \in StepIds, Thread(r, s),
           \A t \in StepIds : write[r][t] # "mixed"
    PROVE  OwnStep(r, s)
  <1>0. TypeOK /\ BegunInv
    BY DEF BaseInv
  <1>1. target[r] \in Dirs
    BY <1>0 DEF Alone, Started, TypeOK
  <1>2. write \in WritesType /\ file \in FilesType
    BY <1>0 DEF TypeOK, WritesType, FilesType, Content
  <1>3. /\ {"taken", "written", "failed", "done"} \subseteq Writes
        /\ {NoFile, Torn, r} \subseteq Content
    BY DEF Writes, Unfinished, Content
  <1>w. ASSUME NEW state \in Writes, SetWrite(r, s, state)
        PROVE  \A t \in StepIds : write'[r][t] = IF t = s THEN state ELSE write[r][t]
    BY <1>2, <1>w, OneWrite
  <1>f. ASSUME NEW u \in StepIds, NEW content \in Content, SetFile(r, u, content)
        PROVE  \A t \in StepIds :
                  file'[target[r]][t] = IF t = u THEN content ELSE file[target[r]][t]
    BY <1>1, <1>2, <1>f, OneFile
  <1>6. CASE Take(r, s)
    <2>1. write[r][s] = "queued" /\ SetWrite(r, s, "taken") /\ file' = file
      BY <1>6 DEF Take
    <2> QED
      BY <1>3, <1>w, <2>1 DEF OwnStep
  <1>7. CASE Open(r, s)
    <2>1. write[r][s] = "taken" /\ OpenFile(r, s) /\ SetFile(r, s, Torn)
      BY <1>7 DEF Open, OpenFile
    <2>2. \A q \in Rollouts \ {r} : ~SameFile(r, q, s)
      BY <1>0 DEF SameFile, Alone, LastWriter, BegunInv
    <2>3. /\ write'[r][s] = "writing"
          /\ \A t \in StepIds : t # s => write'[r][t] = write[r][t]
      BY <1>0, <2>1, <2>2, OpenWrites
    <2>4. \A t \in StepIds :
             file'[target[r]][t] = IF t = s THEN Torn ELSE file[target[r]][t]
      BY <1>3, <1>f, <2>1
    <2> QED
      BY <2>1, <2>3, <2>4 DEF OwnStep
  <1>8. CASE Save(r, s)
    <2>1. /\ write[r][s] \in {"writing", "cut"} /\ SetWrite(r, s, "written")
          /\ \E content \in Written(r, s) : SetFile(r, s, content)
      BY <1>8 DEF Save, Writing
    <2>2. \A t \in StepIds : write'[r][t] = IF t = s THEN "written" ELSE write[r][t]
      BY <1>3, <1>w, <2>1
    <2>3. CASE write[r][s] = "writing"
      <3>1. SetFile(r, s, r)
        BY <2>1, <2>3 DEF Written
      <3>2. \A t \in StepIds :
               file'[target[r]][t] = IF t = s THEN r ELSE file[target[r]][t]
        BY <1>3, <1>f, <3>1
      <3> QED
        BY <2>2, <2>3, <3>2 DEF OwnStep
    <2>4. CASE write[r][s] = "cut"
      <3>1. SetFile(r, s, file[target[r]][s])
        BY <2>1, <2>4 DEF Written
      <3>2. file[target[r]][s] \in Content
        BY <1>1, <1>2 DEF FilesType
      <3>3. \A t \in StepIds : file'[target[r]][t] = file[target[r]][t]
        BY <1>f, <3>1, <3>2
      <3> QED
        BY <2>2, <2>4, <3>3 DEF OwnStep
    <2> QED
      BY <2>1, <2>3, <2>4
  <1>9. CASE WriteFails(r, s)
    <2>1. /\ write[r][s] \notin {"none", "written", "done"}
          /\ SetWrite(r, s, "failed") /\ file' = file
      BY <1>9 DEF WriteFails, Writing
    <2> QED
      BY <1>3, <1>w, <2>1 DEF OwnStep
  <1>10. CASE DropStale(r, s)
    <2>0. write[r][s] = "written"
      BY <1>10 DEF DropStale
    <2>1. CASE Pooled[r] /\ Stale(s) \in StepIds
      <3>1. SetFile(r, Stale(s), NoFile)
        BY <1>10, <2>1 DEF DropStale
      <3>2. \A t \in StepIds :
               file'[target[r]][t] = IF Pooled[r] /\ t = Stale(s)
                                     THEN NoFile ELSE file[target[r]][t]
        BY <1>3, <1>f, <2>1, <3>1
      <3>3. /\ write'[r][s] = "done"
            /\ \A t \in StepIds : t # s =>
                  \/ write'[r][t] = write[r][t]
                  \/ SameFile(r, r, t) /\ t = Stale(s) /\ write'[r][t] = "cut"
        BY <1>0, <1>10, <2>1, DropWrites
      <3>4. \A t \in StepIds : SameFile(r, r, t) => write[r][t] = "writing"
        BY DEF SameFile
      <3> QED
        BY <2>0, <2>1, <3>2, <3>3, <3>4 DEF OwnStep
    <2>2. CASE ~(Pooled[r] /\ Stale(s) \in StepIds)
      <3>1. SetWrite(r, s, "done") /\ file' = file
        BY <1>10, <2>2 DEF DropStale
      <3> QED
        BY <1>3, <1>w, <2>0, <2>2, <3>1 DEF OwnStep
    <2> QED
      BY <2>1, <2>2
  <1> QED
    BY <1>6, <1>7, <1>8, <1>9, <1>10 DEF Thread

-----------------------------------------------------------------------------
(* A whole step survives.                                                  *)

(* A stale file is removed by a thread that saw a newer one whole.         *)
LEMMA WholeStep ==
    ASSUME BaseInv, WholeInv, [Next]_vars
    PROVE  WholeInv'
  <1> DEFINE There(r, s) ==
                /\ write[r][s] # "mixed"
                /\ write[r][s] \in {"cut", "written", "done"} =>
                      \E u \in StepIds : u >= s /\ file[target[r]][u] = r
  <1> SUFFICES ASSUME NEW r \in Rollouts, Alone(r)'
               PROVE  \A s \in StepIds : There(r, s)'
    BY DEF WholeInv
  <1>1. CASE ~Started(r)
    <2>1. \A s \in StepIds : write[r][s] = "none"
      BY <1>1 DEF BaseInv, BegunInv
    <2>2. \A s \in StepIds : write'[r][s] \in {"none", "queued", "taken"}
      <3>1. CASE Caller
        BY <2>1, <3>1, CallerSteps
      <3>2. ASSUME NEW q \in Rollouts, NEW s \in StepIds, Thread(q, s)
            PROVE  \A t \in StepIds : write'[r][t] = "none"
        BY <2>1, <3>2, ThreadSteps DEF BaseInv, ThreadEffect
      <3>3. CASE UNCHANGED vars
        BY <2>1, <3>3 DEF vars
      <3> QED
        BY <3>1, <3>2, <3>3 DEF Next
    <2> QED
      BY <2>2
  <1>2. CASE Started(r)
    <2>1. Alone(r) /\ target'[r] = target[r]
      BY <1>2, StaysAlone
    <2>2. \A s \in StepIds : There(r, s)
      BY <2>1 DEF WholeInv
    <2>k. ASSUME \A s \in StepIds : file'[target[r]][s] = file[target[r]][s],
                 \A s \in StepIds :
                    \/ write'[r][s] = write[r][s]
                    \/ write'[r][s] \in {"queued", "taken"}
          PROVE  \A s \in StepIds : There(r, s)'
      BY <2>1, <2>2, <2>k
    <2>3. CASE Caller
      BY <2>3, <2>k, CallerSteps
    <2>4. CASE UNCHANGED vars
      BY <2>4, <2>k DEF vars
    <2>5. ASSUME NEW q \in Rollouts, NEW s \in StepIds, Thread(q, s), q # r
          PROVE  \A t \in StepIds : There(r, t)'
      BY <2>1, <2>5, <2>k, OthersKeepAway
    <2>6. ASSUME NEW s \in StepIds, Thread(r, s)
          PROVE  \A t \in StepIds : There(r, t)'
      <3>1. OwnStep(r, s)
        BY <2>1, <2>2, <2>6, OwnThread
      <3>2. target[r] \in Dirs
        BY <2>1 DEF Alone, Started, BaseInv, TypeOK
      <3>3. file[target[r]][s] = r => write[r][s] \in {"written", "done"}
        BY <3>2 DEF BaseInv, TracedInv
      <3>4. \A t \in StepIds : t \in Nat
        BY StepsAreNumbers
      <3>5. \A t \in StepIds : t # s /\ write'[r][t] \in {"cut", "written", "done"} =>
               \/ write[r][t] \in {"cut", "written", "done"}
               \/ t = Stale(s) /\ write[r][s] = "written"
        BY <3>1 DEF OwnStep
      <3>6. \A t \in StepIds : write'[r][t] # "mixed"
        BY <2>2, <3>1 DEF OwnStep
      (* Unless the witness goes, it is one still *)
      <3>7. CASE \A u \in StepIds :
                    file[target[r]][u] = r => file'[target[r]][u] = r
        <4>1. ASSUME NEW t \in StepIds, write'[r][t] \in {"cut", "written", "done"}
              PROVE  \E u \in StepIds : u >= t /\ file'[target[r]][u] = r
          <5>1. CASE write[r][t] \in {"cut", "written", "done"}
            BY <2>2, <3>7, <5>1
          <5>2. CASE t = s /\ write[r][t] = "writing" /\ write'[r][t] = "written"
            <6>1. file'[target[r]][s] = r
              BY <3>1, <5>2 DEF OwnStep
            <6> QED
              BY <3>4, <5>2, <6>1
          <5>3. CASE t = Stale(s) /\ write[r][s] = "written"
            <6>1. PICK u \in StepIds : u >= s /\ file[target[r]][u] = r
              BY <2>2, <5>3
            <6>2. u >= t
              BY <3>4, <5>3, <6>1, ExportAssumption DEF Stale
            <6> QED
              BY <3>7, <6>1, <6>2
          <5> QED
            BY <3>1, <3>5, <4>1, <5>1, <5>2, <5>3 DEF OwnStep
        <4> QED
          BY <2>1, <3>6, <4>1
      <3>8. CASE /\ write[r][s] = "written" /\ write'[r][s] = "done"
                 /\ \A t \in StepIds :
                       file'[target[r]][t] = IF Pooled[r] /\ t = Stale(s)
                                             THEN NoFile ELSE file[target[r]][t]
        <4>1. PICK u \in StepIds : u >= s /\ file[target[r]][u] = r
          BY <2>2, <3>8
        <4>2. u > Stale(s) /\ file'[target[r]][u] = r
          BY <3>4, <3>8, <4>1, ExportAssumption DEF Stale
        <4>3. ASSUME NEW t \in StepIds, write'[r][t] \in {"cut", "written", "done"}
              PROVE  \E v \in StepIds : v >= t /\ file'[target[r]][v] = r
          <5>1. CASE t <= Stale(s)
            <6>1. u >= t
              BY <3>4, <4>2, <5>1, ExportAssumption DEF Stale
            <6> QED
              BY <4>2, <6>1
          <5>2. CASE ~(t <= Stale(s))
            <6>1. Stale(s) \in Int
              BY <3>4, ExportAssumption DEF Stale
            <6>2. t # Stale(s) /\ t > Stale(s)
              BY <3>4, <5>2, <6>1
            <6>3. write[r][t] \in {"cut", "written", "done"}
              BY <3>5, <3>8, <4>3, <6>2
            <6>4. PICK v \in StepIds : v >= t /\ file[target[r]][v] = r
              BY <2>2, <6>3
            <6>5. v # Stale(s)
              BY <3>4, <6>1, <6>2, <6>4
            <6> QED
              BY <3>8, <6>4, <6>5
          <5> QED
            BY <5>1, <5>2
        <4> QED
          BY <2>1, <3>6, <4>3
      <3>9. CASE \A t \in StepIds :
                    file'[target[r]][t] = IF t = s THEN Torn ELSE file[target[r]][t]
        <4>1. CASE write[r][s] = "taken"
          BY <3>3, <3>7, <3>9, <4>1
        <4>2. CASE write[r][s] # "taken"
          BY <3>1, <3>7, <3>8, <4>2 DEF OwnStep
        <4> QED
          BY <4>1, <4>2
      <3>10. CASE \A t \in StepIds :
                    file'[target[r]][t] = IF t = s THEN r ELSE file[target[r]][t]
        BY <3>7, <3>10
      <3>11. CASE \A t \in StepIds : file'[target[r]][t] = file[target[r]][t]
        BY <3>7, <3>11
      <3> QED
        BY <3>1, <3>8, <3>9, <3>10, <3>11 DEF OwnStep
    <2> QED
      BY <2>3, <2>4, <2>5, <2>6 DEF Next
  <1> QED
    BY <1>1, <1>2

(* A stale file goes only when a newer one is whole: once a rollout has    *)
(* written a step there is a whole step of it on disk at every moment, for *)
(* any number of threads, writes in flight and files to retain, whatever   *)
(* fails and whenever the process dies.                                    *)
THEOREM WholeStepsSurvive == Spec => []AWholeStepSurvives
  <1>1. BaseInv /\ [Next]_vars => BaseInv'
    BY BaseStep
  <1>2. Init => WholeInv
    BY DEF Init, WholeInv, Alone, Started
  <1>3. BaseInv /\ WholeInv /\ [Next]_vars => WholeInv'
    BY WholeStep
  <1>4. BaseInv /\ WholeInv => AWholeStepSurvives
    <2> SUFFICES ASSUME BaseInv, WholeInv, NEW r \in Rollouts, LastWriter(r),
                        NEW s \in StepIds, write[r][s] \in {"written", "done"}
                 PROVE  \E t \in StepIds : file[target[r]][t] = r
      BY DEF AWholeStepSurvives
    <2>1. Started(r)
      BY DEF BaseInv, BegunInv
    <2> QED
      BY <2>1 DEF WholeInv, Alone
  <1> QED
    BY <1>1, <1>2, <1>3, <1>4, BaseInit, PTL DEF Spec

-----------------------------------------------------------------------------
(* What is on disk in the end.                                             *)

(* More files are kept than writes may be under way, or all of them are.   *)
RetainsEnough == Retain > MaxInflight \/ Retain >= Steps

(* A step that is stale was waited for when the newer one was submitted.   *)
LEMMA StaleStep ==
    ASSUME RetainsEnough, BaseInv, StaleInv, [Next]_vars
    PROVE  StaleInv'
  <1> SUFFICES ASSUME NEW r \in Rollouts, NEW s \in StepIds, NEW t \in StepIds,
                      Pooled[r], write'[r][s] # "none", t <= Stale(s)
               PROVE  write'[r][t] \in {"done", "failed"}
    BY DEF StaleInv, Stale
  <1>1. write[r][s] # "none" => write[r][t] \in {"done", "failed"}
    BY DEF StaleInv
  <1>2. ASSUME NEW q \in Rollouts, NEW u \in StepIds, Thread(q, u)
        PROVE  write'[r][t] \in {"done", "failed"}
    BY <1>1, <1>2, ThreadSteps DEF BaseInv, ThreadEffect
  <1>3. CASE UNCHANGED vars
    BY <1>1, <1>3 DEF vars
  <1>4. CASE Caller
    <2>1. write[r][t] \in {"done", "failed"} => write'[r][t] = write[r][t]
      BY <1>4, CallerSteps
    <2>2. CASE write[r][s] # "none"
      BY <1>1, <2>1, <2>2
    <2>3. CASE write[r][s] = "none"
      <3>1. r = rollout /\ s = step /\ Submit
        BY <1>4, <2>3, CallerSteps
      <3>2. PooledWindow
        BY <3>1 DEF Submit, BaseInv, CallerInv
      <3>3. Len(pending) <= MaxInflight /\ Len(pending) \in Nat
        BY <3>1, LenProperties DEF Submit, HasRoom, BaseInv, TypeOK
      <3>4. s \in Nat /\ t \in Nat /\ s < Steps /\ Retain \in Nat /\ MaxInflight \in Nat
            /\ Steps \in Nat
        BY StepsAreNumbers, ExportAssumption
      <3>5. t < Oldest
        BY <3>1, <3>3, <3>4 DEF Oldest, Stale, RetainsEnough
      <3> QED
        BY <2>1, <3>1, <3>2, <3>5 DEF PooledWindow
    <2> QED
      BY <2>2, <2>3
  <1> QED
    BY <1>2, <1>3, <1>4 DEF Next

(* A file is removed after its write is over, and never comes back.        *)
LEMMA ExactStep ==
    ASSUME BaseInv, StaleInv, ExactInv, [Next]_vars
    PROVE  ExactInv'
  <1> DEFINE Exact(r, s) ==
                /\ write[r][s] \notin {"mixed", "cut"}
                /\ Removed(r, s) => file[target[r]][s] = NoFile
                /\ write[r][s] \in {"written", "done"} /\ ~Removed(r, s) =>
                      file[target[r]][s] = r
  <1> SUFFICES ASSUME NEW r \in Rollouts, Alone(r)'
               PROVE  \A s \in StepIds : Exact(r, s)'
    BY DEF ExactInv
  <1>1. CASE ~Started(r)
    <2>1. \A s \in StepIds : write[r][s] = "none"
      BY <1>1 DEF BaseInv, BegunInv
    <2>2. \A s \in StepIds : write'[r][s] \in {"none", "queued", "taken"}
      <3>1. CASE Caller
        BY <2>1, <3>1, CallerSteps
      <3>2. ASSUME NEW q \in Rollouts, NEW s \in StepIds, Thread(q, s)
            PROVE  \A t \in StepIds : write'[r][t] = "none"
        BY <2>1, <3>2, ThreadSteps DEF BaseInv, ThreadEffect
      <3>3. CASE UNCHANGED vars
        BY <2>1, <3>3 DEF vars
      <3> QED
        BY <3>1, <3>2, <3>3 DEF Next
    <2>3. \A s \in StepIds : ~Removed(r, s)'
      BY <2>2 DEF Removed
    <2> QED
      BY <2>2, <2>3
  <1>2. CASE Started(r)
    <2>1. Alone(r) /\ target'[r] = target[r]
      BY <1>2, StaysAlone
    <2>2. \A s \in StepIds : Exact(r, s)
      BY <2>1 DEF ExactInv
    <2>k. ASSUME \A s \in StepIds : file'[target[r]][s] = file[target[r]][s],
                 \A s \in StepIds :
                    \/ write'[r][s] = write[r][s]
                    \/ /\ write[r][s] \notin {"written", "done"}
                       /\ write'[r][s] \in {"queued", "taken", "failed"}
          PROVE  \A s \in StepIds : Exact(r, s)'
      <3>1. \A s \in StepIds : Removed(r, s)' <=> Removed(r, s)
        BY <2>k DEF Removed
      <3> QED
        BY <2>1, <2>2, <2>k, <3>1
    <2>3. CASE Caller
      BY <2>3, <2>k, CallerSteps
    <2>4. CASE UNCHANGED vars
      BY <2>4, <2>k DEF vars
    <2>5. ASSUME NEW q \in Rollouts, NEW s \in StepIds, Thread(q, s), q # r
          PROVE  \A t \in StepIds : Exact(r, t)'
      BY <2>1, <2>5, <2>k, OthersKeepAway
    <2>6. ASSUME NEW s \in StepIds, Thread(r, s)
          PROVE  \A t \in StepIds : Exact(r, t)'
      <3>1. OwnStep(r, s)
        BY <2>1, <2>2, <2>6, OwnThread
      <3>2. \A t \in StepIds : t \in Nat /\ Retain \in Nat \ {0}
        BY StepsAreNumbers, ExportAssumption
      (* Who is under way has not been removed *)
      <3>3. write[r][s] \notin {"done", "failed"} => ~Removed(r, s)
        BY <3>2 DEF StaleInv, Removed, Stale
      <3>4. \A t \in StepIds : t # s => write'[r][t] = write[r][t]
        <4> SUFFICES ASSUME NEW t \in StepIds, t = Stale(s), Pooled[r],
                            write[r][s] = "written", write[r][t] = "writing"
                     PROVE  FALSE
          BY <3>1 DEF OwnStep
        <4> QED
          BY <3>2 DEF StaleInv, Stale
      <3>6. CASE write'[r][s] \in {"taken", "failed"}
        <4>1. /\ write[r][s] \notin {"written", "done"}
              /\ \A t \in StepIds : file'[target[r]][t] = file[target[r]][t]
          BY <3>1, <3>6 DEF OwnStep
        <4> QED
          BY <2>k, <3>4, <3>6, <4>1
      <3>7. ASSUME NEW content,
                   \A t \in StepIds :
                      file'[target[r]][t] = IF t = s THEN content ELSE file[target[r]][t],
                   write[r][s] \in {"taken", "writing"},
                   \/ write'[r][s] = "writing"
                   \/ write'[r][s] = "written" /\ content = r
            PROVE  \A t \in StepIds : Exact(r, t)'
        <4>1. \A t \in StepIds : Removed(r, t)' <=> Removed(r, t)
          BY <3>4, <3>7 DEF Removed
        <4>2. ~Removed(r, s)
          BY <3>3, <3>7
        <4> QED
          BY <2>1, <2>2, <3>4, <3>7, <4>1, <4>2
      <3>8. CASE /\ write[r][s] = "written" /\ write'[r][s] = "done"
                 /\ \A t \in StepIds :
                       file'[target[r]][t] = IF Pooled[r] /\ t = Stale(s)
                                             THEN NoFile ELSE file[target[r]][t]
        <4>1. ASSUME NEW t \in StepIds
              PROVE  Removed(r, t)' <=> Removed(r, t) \/ (Pooled[r] /\ t = Stale(s))
          <5>1. t = Stale(s) <=> t + Retain = s
            BY <3>2 DEF Stale
          <5>2. t + Retain \in StepIds /\ t + Retain # s =>
                    write'[r][t + Retain] = write[r][t + Retain]
            BY <3>4
          <5> QED
            BY <3>8, <5>1, <5>2 DEF Removed
        <4>2. ~Removed(r, s)
          BY <3>3, <3>8
        <4>3. \A t \in StepIds : write'[r][t] \notin {"mixed", "cut"}
          BY <2>2, <3>4, <3>8
        <4>4. ASSUME NEW t \in StepIds
              PROVE  /\ Removed(r, t)' => file'[target[r]][t] = NoFile
                     /\ write'[r][t] \in {"written", "done"} /\ ~Removed(r, t)' =>
                           file'[target[r]][t] = r
          <5>1. CASE Pooled[r] /\ t = Stale(s)
            BY <3>8, <4>1, <5>1
          <5>2. CASE ~(Pooled[r] /\ t = Stale(s))
            <6>1. file'[target[r]][t] = file[target[r]][t] /\ (Removed(r, t)' <=> Removed(r, t))
              BY <3>8, <4>1, <5>2
            <6>2. write'[r][t] \in {"written", "done"} => write[r][t] \in {"written", "done"}
              BY <3>4, <3>8
            <6> QED
              BY <2>2, <6>1, <6>2
          <5> QED
            BY <5>1, <5>2
        <4> QED
          BY <2>1, <4>3, <4>4
      <3> QED
        BY <2>2, <3>1, <3>6, <3>7, <3>8 DEF OwnStep
    <2> QED
      BY <2>3, <2>4, <2>5, <2>6 DEF Next
  <1> QED
    BY <1>1, <1>2

(* "Keep only the newest files" (io_backend.py:122): when a rollout is     *)
(* completed its directory holds its newest steps, whole, and no stale     *)
(* ones, in whatever order the threads finished.  With fewer files to      *)
(* retain than writes in flight it is false: the write of a step may be    *)
(* taken up after a newer one removed its file, and the file stays.        *)
THEOREM CompletedRolloutsAreOnDisk ==
    ASSUME RetainsEnough
    PROVE  Spec => []CompletedIsOnDisk
  <1>1. BaseInv /\ [Next]_vars => BaseInv'
    BY BaseStep
  <1>2. Init => StaleInv /\ ExactInv
    BY DEF Init, StaleInv, ExactInv, Alone, Started
  <1>3. BaseInv /\ StaleInv /\ [Next]_vars => StaleInv'
    BY StaleStep
  <1>4. BaseInv /\ StaleInv /\ ExactInv /\ [Next]_vars => ExactInv'
    BY ExactStep
  <1>5. BaseInv /\ ExactInv => CompletedIsOnDisk
    <2> SUFFICES ASSUME BaseInv, ExactInv, NEW r \in Rollouts,
                        outcome[r] = "completed", LastWriter(r), NEW s \in StepIds
                 PROVE  file[target[r]][s] = IF Kept(r, s) THEN r ELSE NoFile
      BY DEF CompletedIsOnDisk, HoldsItsSteps
    <2>1. Started(r) /\ \A t \in StepIds : write[r][t] = "done"
      BY DEF BaseInv, BegunInv
    <2>2. /\ Removed(r, s) => file[target[r]][s] = NoFile
          /\ ~Removed(r, s) => file[target[r]][s] = r
      BY <2>1 DEF ExactInv, Alone
    <2>3. Removed(r, s) <=> ~Kept(r, s)
      <3>1. s + Retain \in StepIds <=> ~(s >= Steps - Retain)
        BY StepsAreNumbers, ExportAssumption
      <3> QED
        BY <2>1, <3>1 DEF Removed, Kept
    <2> QED
      BY <2>2, <2>3
  <1> QED
    BY <1>1, <1>2, <1>3, <1>4, <1>5, BaseInit, PTL DEF Spec
=============================================================================
