------------------------------ MODULE NodeProofs ------------------------------
(***************************************************************************)
(* Theorems about Node, for any processes, clients, requests, plans,       *)
(* images and numbers of layers: that processes which were stopped are     *)
(* down, that a forecast loses no event, that the layers of the backbone   *)
(* meet, that the streams of devices hand on what is there, and the types  *)
(* of it all.  What ExportProofs, CacheProofs and EngineProofs prove of    *)
(* their parts is carried over.  One part takes a step at a time, and a    *)
(* step of the node is a step of every part or leaves that part alone      *)
(* (NodeStep), so that each part has an invariant of its own.              *)
(***************************************************************************)
EXTENDS Node, ExportProofs, QueueLemmas, FiniteSetTheorems

-----------------------------------------------------------------------------
(* Processes that are brought down                                         *)

(* What the owner has still to terminate is all that is not gone, and who  *)
(* cleaned up never found a process that did not run yet.                  *)
EndingInv ==
    /\ ending \in {"grace", "next", "term", "wait", "last"} => left # <<>>
    /\ ending = "returned" => left = <<>>
    /\ ending \notin {"idle", "dead"} =>
           \A c \in Children : c \notin Range(left) => proc[c] \in {"new", "gone"}
StaleFoundInv ==
    \A c \in stale : proc[c] # "new" /\ (cleanup = "done" => proc[c] # "runs")
DownInv == Down!TypeOK /\ EndingInv /\ StaleFoundInv

(* A sequence that SetToSeqs makes of a finite set holds all of it.        *)
LEMMA AllInOrder ==
    ASSUME NEW S, IsFiniteSet(S), NEW s \in Down!SetToSeqs(S)
    PROVE  s \in Seq(S) /\ Range(s) = S
  <1> DEFINE n == Cardinality(S)
  <1>1. n \in Nat
    BY FS_CardinalityType
  <1>c. Down!Cardinality(S) = n
    BY DEF Down!Cardinality, Cardinality, Down!IsFiniteSet, IsFiniteSet
  <1>2. s \in [1 .. n -> S] /\ \A i, j \in 1 .. n : i # j => s[i] # s[j]
    BY <1>c DEF Down!SetToSeqs
  <1>3. s \in Injection(1 .. n, S)
    BY <1>2 DEF Injection, IsInjective
  <1>4. IsFiniteSet(1 .. n) /\ Cardinality(1 .. n) = n
    BY <1>1, FS_Interval
  <1>5. s \in Surjection(1 .. n, S)
    BY <1>3, <1>4, FS_Injection
  <1>6. \A x \in S : \E i \in 1 .. n : s[i] = x
    BY <1>5 DEF Surjection
  <1>7. s \in Seq(S)
    BY <1>1, <1>2, SeqDef
  <1> QED
    BY <1>2, <1>6, <1>7 DEF Range

(* After a poll of processes that are all that is not gone, the ones left  *)
(* are all that is not gone.                                               *)
LEMMA PolledLeaves ==
    ASSUME NEW these \in Seq(Children), DownInv, Down!Polled(these),
           \A c \in Children : c \notin Range(these) => proc[c] \in {"new", "gone"}
    PROVE  /\ left' \in Seq(Children)
           /\ proc' \in [Children -> {"new", "runs", "dying", "zombie", "gone"}]
           /\ \A c \in Children : proc'[c] = proc[c] \/ (proc[c] = "zombie" /\ proc'[c] = "gone")
           /\ ending' \in {"grace", "next", "returned"}
           /\ EndingInv'
  <1> DEFINE unreaped == {c \in Children : proc[c] # "zombie"}
  <1>1. left' \in Seq(Children) /\ Range(left') = Range(these) \cap unreaped
    BY OnlyType DEF Down!Polled, Down!Only, Down!KeptOf, Only, KeptOf
  <1>2. Down!ToSet(these) = Range(these)
    BY DEF Down!ToSet, Range
  <1>3. proc' = Down!Reaped(Range(these))
    BY <1>2 DEF Down!Polled
  <1>4. \A c \in Children :
            proc'[c] = IF c \in Range(these) /\ proc[c] = "zombie" THEN "gone" ELSE proc[c]
    BY <1>3 DEF Down!Reaped
  <1>5. /\ ending' \in {"grace", "next", "returned"}
        /\ ending' = "returned" <=> left' = <<>>
    BY DEF Down!Polled
  <1> QED
    BY <1>1, <1>3, <1>4, <1>5 DEF EndingInv, DownInv, Down!TypeOK, Down!Reaped

(* At first nothing has been looked at.                                    *)
LEMMA DownInit == Down!Init => DownInv
  <1> SUFFICES ASSUME Down!Init PROVE DownInv
    OBVIOUS
  <1>1. <<>> \in Seq(Children)
    OBVIOUS
  <1> QED
    BY <1>1 DEF Down!Init, DownInv, EndingInv, StaleFoundInv, Down!TypeOK

(* Processes that start, exit, or lose their owner                         *)
LEMMA DownStepProcess ==
    ASSUME DownInv, Down!OwnerDies \/ \E c \in Children : Down!Start(c) \/ Down!Exit(c)
    PROVE  DownInv'
  <1>1. <<>> \in Seq(Children)
    OBVIOUS
  <1>2. CASE Down!OwnerDies
    <2>1. Down!TypeOK'
      BY <1>1, <1>2 DEF DownInv, Down!TypeOK, Down!OwnerDies, Down!Reaped,
            Down!cleanupVars, Down!scanVars
    <2> QED
      BY <1>2, <2>1 DEF DownInv, Down!TypeOK, EndingInv, StaleFoundInv, Down!OwnerDies,
            Down!Reaped, Down!cleanupVars, Down!scanVars
  <1>3. ASSUME NEW c \in Children, Down!Start(c) PROVE DownInv'
    <2>1. Down!TypeOK'
      BY <1>3 DEF DownInv, Down!TypeOK, Down!Start, Down!ownerVars, Down!cleanupVars,
            Down!scanVars
    <2> QED
      BY <1>3, <2>1 DEF DownInv, Down!TypeOK, EndingInv, StaleFoundInv, Down!Start,
            Down!ownerVars, Down!cleanupVars, Down!scanVars
  <1>4. ASSUME NEW c \in Children, Down!Exit(c) PROVE DownInv'
    <2>1. Down!TypeOK'
      BY <1>4 DEF DownInv, Down!TypeOK, Down!Exit, Down!ownerVars, Down!cleanupVars,
            Down!scanVars
    <2> QED
      BY <1>4, <2>1 DEF DownInv, Down!TypeOK, EndingInv, StaleFoundInv, Down!Exit,
            Down!ownerVars, Down!cleanupVars, Down!scanVars, Down!Table
  <1> QED
    BY <1>2, <1>3, <1>4

(* The owner terminates what is left, one after the other.                 *)
LEMMA DownStepOwner ==
    ASSUME Down!ReclaimAssumption, DownInv, Down!Owner, ~Down!OwnerDies
    PROVE  DownInv'
  <1> USE DEF DownInv, Down!TypeOK, EndingInv, StaleFoundInv, Down!ownerVars,
          Down!cleanupVars, Down!scanVars
  <1>1. CASE Down!Shutdown
    <2> DEFINE started == {c \in Children : proc[c] # "new"}
    <2>1. IsFiniteSet(Children)
      BY DEF Down!ReclaimAssumption, Down!IsFiniteSet, IsFiniteSet
    <2>2. IsFiniteSet(started)
      BY <2>1, FS_Subset
    <2>3. PICK these \in Down!SetToSeqs(started) : Down!Polled(these)
      BY <1>1 DEF Down!Shutdown
    <2>4. these \in Seq(started) /\ Range(these) = started
      BY <2>2, <2>3, AllInOrder
    <2>5. these \in Seq(Children)
      BY <2>4
    <2>6. \A c \in Children : c \notin Range(these) => proc[c] \in {"new", "gone"}
      BY <2>4
    <2> HIDE DEF started
    <2>7. /\ left' \in Seq(Children)
          /\ proc' \in [Children -> {"new", "runs", "dying", "zombie", "gone"}]
          /\ \A c \in Children :
                proc'[c] = proc[c] \/ (proc[c] = "zombie" /\ proc'[c] = "gone")
          /\ ending' \in {"grace", "next", "returned"}
          /\ EndingInv'
      BY <2>3, <2>5, <2>6, PolledLeaves
    <2> QED
      BY <1>1, <2>7 DEF Down!Shutdown
  <1>2. CASE Down!Poll
    <2>1. left \in Seq(Children) /\ Down!Polled(left)
      BY <1>2 DEF Down!Poll
    <2>2. \A c \in Children : c \notin Range(left) => proc[c] \in {"new", "gone"}
      BY <1>2 DEF Down!Poll
    <2>7. /\ left' \in Seq(Children)
          /\ proc' \in [Children -> {"new", "runs", "dying", "zombie", "gone"}]
          /\ \A c \in Children :
                proc'[c] = proc[c] \/ (proc[c] = "zombie" /\ proc'[c] = "gone")
          /\ ending' \in {"grace", "next", "returned"}
          /\ EndingInv'
      BY <2>1, <2>2, PolledLeaves
    <2> QED
      BY <1>2, <2>7 DEF Down!Poll
  <1>3. CASE ending \in {"next", "term", "wait", "last"}
    <2>1. left # <<>>
      BY <1>3
    <2>2. /\ Head(left) \in Children
          /\ Tail(left) \in Seq(Children)
          /\ Range(left) = Range(Tail(left)) \cup {Head(left)}
      BY <2>1, TailRange
    <2>3. CASE Down!NextOne /\ proc[Head(left)] = "zombie"
                /\ proc' = Down!Reaped({Head(left)})
                /\ UNCHANGED <<leads, socket, cleanup, stale, Down!scanVars>>
      BY <1>3, <2>2, <2>3 DEF Down!NextOne, Down!Reaped
    <2>4. CASE UNCHANGED <<left, leads, socket, cleanup, stale, Down!scanVars>>
                /\ ending' \in {"term", "wait", "last", "raised"}
                /\ \/ proc' = Down!Reaped({Head(left)})
                   \/ proc' = Down!Sent({Head(left)})
                   \/ proc' = proc
      <3>1. /\ proc' \in [Children -> {"new", "runs", "dying", "zombie", "gone"}]
            /\ \A c \in Children :
                   proc'[c] = proc[c] \/ (proc[c] = "zombie" /\ proc'[c] = "gone")
                   \/ (proc[c] = "runs" /\ proc'[c] = "dying")
        <4>1. CASE proc' = Down!Reaped({Head(left)})
          BY <4>1 DEF Down!Reaped
        <4>2. CASE proc' = Down!Sent({Head(left)})
          BY <4>2 DEF Down!Sent
        <4>3. CASE proc' = proc
          BY <4>3
        <4> QED
          BY <2>4, <4>1, <4>2, <4>3
      <3> QED
        BY <1>3, <2>4, <3>1
    <2> QED
      BY <1>3, <2>3, <2>4 DEF Down!Owner, Down!Shutdown, Down!Poll, Down!Terminate,
            Down!Escalate, Down!Reap, Down!KillAtLast, Down!WaitExpires
  <1> QED
    BY <1>1, <1>2, <1>3 DEF Down!Owner, Down!Terminate, Down!Escalate, Down!Reap,
          Down!KillAtLast, Down!WaitExpires

(* The other two send signals, which make nobody run or start.             *)
LEMMA DownStepOthers ==
    ASSUME DownInv, Down!FindStale \/ Down!CleanUp \/ Down!Supervisor
    PROVE  DownInv'
  <1>1. /\ UNCHANGED <<ending, left, leads>>
        /\ proc' \in [Children -> {"new", "runs", "dying", "zombie", "gone"}]
        /\ \A c \in Children :
                proc'[c] = proc[c] \/ (proc[c] = "runs" /\ proc'[c] = "dying")
    <2>1. /\ UNCHANGED <<ending, left, leads>>
          /\ proc' = proc \/ \E kill : proc' = Down!Sent(kill)
      BY DEF Down!FindStale, Down!CleanUp, Down!Supervisor, Down!FindOrphans,
            Down!ForceKill, Down!ForceKilled, Down!ListAgain, Down!RemoveFiles,
            Down!ownerVars
    <2>2. ASSUME NEW kill, proc' = Down!Sent(kill)
          PROVE  /\ proc' \in [Children -> {"new", "runs", "dying", "zombie", "gone"}]
                 /\ \A c \in Children :
                        proc'[c] = proc[c] \/ (proc[c] = "runs" /\ proc'[c] = "dying")
      BY <2>2 DEF DownInv, Down!TypeOK, Down!Sent
    <2> QED
      BY <2>1, <2>2 DEF DownInv, Down!TypeOK
  <1>2. EndingInv'
    BY <1>1 DEF DownInv, EndingInv
  <1>3. Down!TypeOK'
    <2>1. /\ socket' \subseteq Children
          /\ cleanup' \in {"idle", "waits", "done"}
          /\ stale' \subseteq Children
      BY DEF DownInv, Down!TypeOK, Down!FindStale, Down!CleanUp, Down!Supervisor,
          Down!FindOrphans, Down!ForceKill, Down!ForceKilled, Down!ListAgain,
          Down!RemoveFiles, Down!Table, Down!ownerVars, Down!cleanupVars
    <2>2. /\ scan' \in {"idle", "next", "term", "files", "done"}
          /\ orphans' \subseteq Children
          /\ victim' \subseteq Children
          /\ killed' \subseteq Children
          /\ listed' \subseteq Children
      BY DEF DownInv, Down!TypeOK, Down!FindStale, Down!CleanUp, Down!Supervisor,
          Down!FindOrphans, Down!ForceKill, Down!ForceKilled, Down!ListAgain,
          Down!RemoveFiles, Down!Table, Down!ownerVars, Down!scanVars
    <2> QED
      BY <1>1, <2>1, <2>2 DEF DownInv, Down!TypeOK
  <1>4. StaleFoundInv'
    <2>1. CASE Down!FindStale
      BY <2>1 DEF DownInv, StaleFoundInv, Down!FindStale, Down!Table
    <2>2. CASE Down!CleanUp
      BY <2>2 DEF DownInv, Down!TypeOK, StaleFoundInv, Down!CleanUp, Down!Sent, Down!Exists
    <2>3. CASE Down!Supervisor
      <3>1. UNCHANGED <<cleanup, stale>>
        BY <2>3 DEF Down!Supervisor, Down!FindOrphans, Down!ForceKill, Down!ForceKilled,
              Down!ListAgain, Down!RemoveFiles, Down!cleanupVars
      <3> QED
        BY <1>1, <3>1 DEF DownInv, Down!TypeOK, StaleFoundInv
    <2> QED
      BY <2>1, <2>2, <2>3
  <1> QED
    BY <1>2, <1>3, <1>4 DEF DownInv

(* Every step keeps it, whoever takes it.                                  *)
LEMMA DownStep ==
    ASSUME Down!ReclaimAssumption, DownInv, [Down!Next]_(Down!vars)
    PROVE  DownInv'
  <1>1. CASE Down!OwnerDies \/ \E c \in Children : Down!Start(c) \/ Down!Exit(c)
    BY <1>1, DownStepProcess
  <1>2. CASE Down!Owner /\ ~Down!OwnerDies
    BY <1>2, DownStepOwner
  <1>3. CASE Down!FindStale \/ Down!CleanUp \/ Down!Supervisor
    BY <1>3, DownStepOthers
  <1>4. CASE UNCHANGED Down!vars
    BY <1>4 DEF Down!vars, Down!ownerVars, Down!cleanupVars, Down!scanVars, DownInv,
          Down!TypeOK, EndingInv, StaleFoundInv
  <1> QED
    BY <1>1, <1>2, <1>3, <1>4 DEF Down!Next

(* What has been brought down stays down, for any number of processes and  *)
(* whatever they, the owner, another program and the supervisor do.        *)
LEMMA DownKeeps == DownInv => Down!StoppedAreDown
  <1>1. Range(<<>>) = {}
    BY DEF Range
  <1> QED
    BY <1>1 DEF DownInv, EndingInv, StaleFoundInv, Down!StoppedAreDown

-----------------------------------------------------------------------------
(* Clients                                                                 *)

(* The events of a queue that are about a request                          *)
About(r) == {x \in Peer!Events : x.of = {r}}
EventsAbout(r, queue) == Only(queue, About(r))

(* What is sent, or said, of a request: an answer is the last of it.       *)
EndsWithAnswer(r, events) ==
    \A i \in 1 .. Len(events) :
        events[i].of = {r} /\ (events[i].kind = "answer" => i = Len(events))

(* A request is on its way to the peer once, and before the peer has said  *)
(* anything of it.                                                         *)
Once(queue) ==
    \A i, j \in 1 .. Len(queue) : queue[i] = queue[j] /\ queue[i] \in Requests => i = j
AskInv ==
    \A c \in Clients :
        /\ Once(commands[c])
        /\ \A r \in Requests :
              r \in Range(commands[c]) => submitter[r] = {c} /\ told[r] = <<>>

ToldInv ==
    \A r \in Requests :
        /\ submitter[r] = {} => told[r] = <<>> /\ got[r] = <<>>
        /\ EndsWithAnswer(r, told[r])

(* Nothing is on the way that was not said.                                *)
WasTold(queue) ==
    \A x \in Range(queue) : \A r \in Requests : x.of = {r} => told[r] # <<>>
PipeInv == WasTold(outbox) /\ \A c \in Clients : WasTold(inbox[c])

(* A client in a call is connected and asks for what it has submitted.     *)
CallInv ==
    \A c \in Clients :
        call[c] # Peer!Idle =>
            c \in Peer!Open /\ \A r \in call[c].of : submitter[r] = {c}

(* Nobody else hears of a request that is outstanding and undisturbed, and *)
(* its client asks for nothing else.                                       *)
AloneInv ==
    \A r \in Peer!Outstanding \ disturbed : \A c \in submitter[r] :
        /\ Peer!Open = {c}
        /\ call[c] \in {Peer!Idle, Peer!Call("events", {r})}

Balanced(r, c) ==
    told[r] = (got[r] \o EventsAbout(r, inbox[c])) \o EventsAbout(r, outbox)
BalanceInv == \A r \in Requests \ disturbed : \A c \in submitter[r] : Balanced(r, c)

ClientInv ==
    /\ Peer!TypeOK
    /\ AskInv
    /\ ToldInv
    /\ PipeInv
    /\ CallInv
    /\ AloneInv
    /\ BalanceInv

(* An event more at the end of a queue, or one less at its beginning       *)
LEMMA AboutAppend ==
    ASSUME NEW r, NEW queue \in Seq(Peer!Events), NEW x \in Peer!Events
    PROVE  EventsAbout(r, Append(queue, x)) =
              IF x.of = {r} THEN Append(EventsAbout(r, queue), x) ELSE EventsAbout(r, queue)
  <1>1. x \in About(r) <=> x.of = {r}
    BY DEF About
  <1>2. Only(Append(queue, x), About(r)) =
          IF x \in About(r) THEN Append(Only(queue, About(r)), x) ELSE Only(queue, About(r))
    BY OnlyOfAppend
  <1> QED
    BY <1>1, <1>2 DEF EventsAbout

(* What one less at the beginning leaves, the first of it being handed out *)
LEMMA AboutTail ==
    ASSUME NEW r, NEW queue \in Seq(Peer!Events), queue # <<>>
    PROVE  EventsAbout(r, queue) =
              (IF Head(queue).of = {r} THEN <<Head(queue)>> ELSE <<>>)
              \o EventsAbout(r, Tail(queue))
  <1>1. Head(queue) \in Peer!Events
    BY HeadTailProperties
  <1>2. Head(queue) \in About(r) <=> Head(queue).of = {r}
    BY <1>1 DEF About
  <1>3. Only(queue, About(r)) =
          (IF Head(queue) \in About(r) THEN <<Head(queue)>> ELSE <<>>)
          \o Only(Tail(queue), About(r))
    BY OnlyOfTail
  <1> QED
    BY <1>2, <1>3 DEF EventsAbout

(* What is about a request is there iff an event of the queue is.          *)
LEMMA AboutType ==
    ASSUME NEW r, NEW queue \in Seq(Peer!Events)
    PROVE  /\ EventsAbout(r, queue) \in Seq(Peer!Events)
           /\ EventsAbout(r, queue) = <<>> <=> \A x \in Range(queue) : x.of # {r}
  <1>1. /\ Only(queue, About(r)) \in Seq(Peer!Events)
        /\ Range(Only(queue, About(r))) = Range(queue) \cap About(r)
    BY OnlyType
  <1>2. \A x \in Range(queue) : x \in Peer!Events
    BY RangeEquality
  <1>3. Only(queue, About(r)) = <<>> <=> Range(Only(queue, About(r))) = {}
    <2> DEFINE s == Only(queue, About(r))
    <2>1. s \in Seq(Peer!Events)
      BY <1>1
    <2> HIDE DEF s
    <2>2. Range(<<>>) = {}
      BY DEF Range
    <2>3. s # <<>> => Head(s) \in Range(s)
      BY <2>1, TailRange
    <2> QED
      BY <2>2, <2>3 DEF s
  <1> QED
    BY <1>1, <1>2, <1>3 DEF EventsAbout, About

(* The client picks by what an event is of; here by the set of such        *)
(* events.                                                                 *)
LEMMA AboutIsEventsOf ==
    ASSUME NEW r, NEW queue
    PROVE  Peer!EventsOf(r, queue) = EventsAbout(r, queue)
  BY DEF Peer!EventsOf, Peer!Only, Peer!KeptOf, EventsAbout, About, Only, KeptOf

(* Nothing follows an answer.                                              *)
LEMMA NothingFollows ==
    ASSUME NEW S, NEW r, NEW g \in Seq(S), NEW h \in Seq(S), NEW k \in Seq(S),
           EndsWithAnswer(r, (g \o h) \o k), g # <<>>, g[Len(g)].kind = "answer"
    PROVE  h = <<>> /\ k = <<>>
  <1> DEFINE all == (g \o h) \o k
  <1>1. /\ g \o h \in Seq(S)
        /\ Len(g \o h) = Len(g) + Len(h)
        /\ \A i \in 1 .. Len(g) + Len(h) :
              (g \o h)[i] = IF i <= Len(g) THEN g[i] ELSE h[i - Len(g)]
    BY ConcatProperties
  <1>2. /\ Len(all) = Len(g \o h) + Len(k)
        /\ \A i \in 1 .. Len(g \o h) + Len(k) :
              all[i] = IF i <= Len(g \o h) THEN (g \o h)[i] ELSE k[i - Len(g \o h)]
    BY <1>1, ConcatProperties
  <1>3. Len(g) \in Nat /\ Len(h) \in Nat /\ Len(k) \in Nat /\ Len(g) # 0
    BY LenProperties, EmptySeq
  <1>4. all[Len(g)] = g[Len(g)] /\ Len(g) \in 1 .. Len(all)
    BY <1>1, <1>2, <1>3
  <1>5. Len(g) = Len(all)
    BY <1>4 DEF EndsWithAnswer
  <1>6. Len(h) = 0 /\ Len(k) = 0
    BY <1>1, <1>2, <1>3, <1>5
  <1> QED
    BY <1>6, EmptySeq

(* Where an event goes that is emitted                                     *)
LEMMA EmittedGoes ==
    ASSUME Peer!TypeOK, NEW event \in Peer!Events, Peer!Emitted(event)
    PROVE  /\ inbox' \in [Clients -> Seq(Peer!Events)]
           /\ outbox' \in Seq(Peer!Events)
           /\ \/ outbox' = Append(outbox, event) /\ inbox' = inbox
              \/ /\ outbox = <<>> /\ outbox' = <<>>
                 /\ \E c \in Peer!Attached :
                       inbox' = [inbox EXCEPT ![c] = Append(inbox[c], event)]
  <1>1. inbox \in [Clients -> Seq(Peer!Events)] /\ outbox \in Seq(Peer!Events)
    BY DEF Peer!TypeOK
  <1>2. CASE outbox' = Append(outbox, event) /\ inbox' = inbox
    <2>1. Append(outbox, event) \in Seq(Peer!Events)
      BY <1>1
    <2> QED
      BY <1>1, <1>2, <2>1
  <1>3. ASSUME NEW c \in Peer!Attached, outbox = <<>>, outbox' = outbox,
               inbox' = [inbox EXCEPT ![c] = Append(inbox[c], event)]
        PROVE  inbox' \in [Clients -> Seq(Peer!Events)]
    <2>1. Append(inbox[c], event) \in Seq(Peer!Events)
      BY <1>1 DEF Peer!Attached
    <2> QED
      BY <1>1, <1>3, <2>1
  <1> QED
    BY <1>1, <1>2, <1>3 DEF Peer!Emitted

(* What the peer says is an event: progress and an answer of one request,  *)
(* a report of none.                                                       *)
LEMMA SaidIsEvent ==
    /\ \A r \in Requests : \A k \in {"progress", "answer"} :
          [kind |-> k, of |-> {r}] \in Peer!JobEvents
    /\ \A r \in Requests : \A event \in [kind : {"progress", "answer"}, of : {{r}}] :
          event \in Peer!JobEvents /\ event.of = {r}
    /\ Peer!JobEvents \subseteq Peer!Events
    /\ \A k \in {"ready", "health"} :
          Peer!Report(k) \in Peer!Events /\ Peer!Report(k).of = {}
  BY DEF Peer!JobEvents, Peer!Events, Peer!Report

(* At first nothing was asked for, said or read.                           *)
LEMMA ClientInit == Peer!ClientAssumption /\ Peer!Init => ClientInv
  <1> SUFFICES ASSUME Peer!ClientAssumption, Peer!Init PROVE ClientInv
    OBVIOUS
  <1>1. \A S : <<>> \in Seq(S)
    OBVIOUS
  <1>2. Range(<<>>) = {} /\ Len(<<>>) = 0
    BY DEF Range
  <1>3. Peer!TypeOK
    BY <1>1 DEF Peer!Init, Peer!TypeOK, Peer!ClientAssumption, Peer!Idle, Peer!Call
  <1>4. AskInv /\ ToldInv /\ PipeInv
    BY <1>2 DEF Peer!Init, AskInv, ToldInv, PipeInv, Once, EndsWithAnswer, WasTold
  <1>5. CallInv /\ AloneInv /\ BalanceInv
    BY DEF Peer!Init, CallInv, AloneInv, BalanceInv, Peer!Outstanding
  <1> QED
    BY <1>3, <1>4, <1>5 DEF ClientInv

(* Sockets, calls and pipes keep their types: one case per action.         *)
LEMMA ClientTypeStep ==
    ASSUME Peer!ClientAssumption, Peer!TypeOK, [Peer!Next]_(Peer!vars)
    PROVE  Peer!TypeOK'
  <1> USE DEF Peer!TypeOK, Peer!pipes
  <1>0. Peer!Extra => extra' \in 0 .. MaxExtra
    BY DEF Peer!Extra, Peer!ClientAssumption
  <1>1. ASSUME NEW c \in Clients, Peer!Connect(c) PROVE Peer!TypeOK'
    BY <1>1 DEF Peer!Connect, Peer!Disturbing, Peer!Outstanding
  <1>2. ASSUME NEW c \in Clients, Peer!Close(c) PROVE Peer!TypeOK'
    <2>1. <<>> \in Seq(Peer!Events)
      OBVIOUS
    <2>2. \A n \in 0 .. Len(commands[c]) :
             SubSeq(commands[c], 1, n) \in Seq({"health", "shutdown"} \cup Requests)
      <3>1. commands[c] \in Seq({"health", "shutdown"} \cup Requests)
        OBVIOUS
      <3>2. Len(commands[c]) \in Nat
        BY <3>1, LenProperties
      <3> QED
        BY <3>1, <3>2, SubSeqRange
    <2>3. commands' \in [Clients -> Seq({"health", "shutdown"} \cup Requests)]
      BY <1>2, <2>2 DEF Peer!Close
    <2>4. inbox' \in [Clients -> Seq(Peer!Events)]
      BY <1>2, <2>1 DEF Peer!Close
    <2> QED
      BY <1>0, <1>2, <2>3, <2>4 DEF Peer!Close, Peer!Disturbing, Peer!Outstanding
  <1>3. ASSUME NEW c \in Clients, NEW r \in Requests, Peer!Submit(c, r) PROVE Peer!TypeOK'
    <2>1. Append(commands[c], r) \in Seq({"health", "shutdown"} \cup Requests)
      OBVIOUS
    <2> QED
      BY <1>3, <2>1 DEF Peer!Submit, Peer!Disturbing, Peer!Send
  <1>4. ASSUME NEW c \in Clients, Peer!ShutdownWorker(c) \/ Peer!Health(c) \/ Peer!PollInVain(c)
        PROVE Peer!TypeOK'
    <2>1. \A k \in {"health", "shutdown"} :
             Append(commands[c], k) \in Seq({"health", "shutdown"} \cup Requests)
      OBVIOUS
    <2>2. commands' \in [Clients -> Seq({"health", "shutdown"} \cup Requests)]
      BY <1>4, <2>1 DEF Peer!ShutdownWorker, Peer!Health, Peer!PollInVain, Peer!Send
    <2>3. /\ UNCHANGED <<link, inbox, outbox, submitter, told, got>>
          /\ extra' \in 0 .. MaxExtra
          /\ disturbed' \subseteq Requests
      BY <1>0, <1>4 DEF Peer!ShutdownWorker, Peer!Health, Peer!PollInVain,
            Peer!Disturbing, Peer!Outstanding
    <2>4. call' = call \/ call' = [call EXCEPT ![c] = Peer!Call("health", {})]
      BY <1>4 DEF Peer!ShutdownWorker, Peer!Health, Peer!PollInVain, Peer!Enter
    <2> QED
      BY <2>2, <2>3, <2>4
  <1>5. ASSUME NEW c \in Clients, Peer!WaitForReady(c) PROVE Peer!TypeOK'
    BY <1>0, <1>5 DEF Peer!WaitForReady, Peer!Enter, Peer!Disturbing, Peer!Outstanding
  <1>6. ASSUME NEW c \in Clients, NEW r \in Requests, Peer!Resume(c, r) PROVE Peer!TypeOK'
    BY <1>6 DEF Peer!Resume, Peer!Enter, Peer!Disturbing, Peer!Outstanding
  <1>7. ASSUME NEW c \in Clients, NEW name, Peer!Reads(c, name)
        PROVE  /\ inbox' \in [Clients -> Seq(Peer!Events)]
               /\ Head(inbox[c]) \in Peer!Events
               /\ UNCHANGED <<link, commands, outbox, extra, submitter, told, disturbed>>
    <2>1. Tail(inbox[c]) \in Seq(Peer!Events) /\ Head(inbox[c]) \in Peer!Events
      BY <1>7, HeadTailProperties DEF Peer!Reads
    <2> QED
      BY <1>7, <2>1 DEF Peer!Reads
  <1>8. ASSUME NEW c \in Clients, Peer!ReadHealth(c) \/ Peer!ReadReady(c) PROVE Peer!TypeOK'
    <2>1. PICK name : Peer!Reads(c, name)
      BY <1>8 DEF Peer!ReadHealth, Peer!ReadReady
    <2>2. call' = call \/ call' = [call EXCEPT ![c] = Peer!Call("idle", {})]
      BY <1>8 DEF Peer!ReadHealth, Peer!ReadReady, Peer!Enter
    <2>3. got' = got
      BY <1>8 DEF Peer!ReadHealth, Peer!ReadReady
    <2> QED
      BY <1>7, <2>1, <2>2, <2>3
  <1>9. ASSUME NEW c \in Clients, Peer!ReadEvents(c) PROVE Peer!TypeOK'
    <2>1. Peer!Reads(c, "events")
      BY <1>9 DEF Peer!ReadEvents
    <2>2. /\ inbox' \in [Clients -> Seq(Peer!Events)]
          /\ Head(inbox[c]) \in Peer!Events
          /\ UNCHANGED <<link, commands, outbox, extra, submitter, told, disturbed>>
      BY <1>7, <2>1
    <2>3. call' \in [Clients -> {Peer!Call(n, {}) : n \in {"idle", "health", "wait_for_ready"}}
                               \cup {Peer!Call("events", {r}) : r \in Requests}]
      BY <1>9 DEF Peer!ReadEvents, Peer!Enter
    <2>4. got' \in [Requests -> Seq(Peer!Events)]
      <3>1. \A r \in Requests : Append(got[r], Head(inbox[c])) \in Seq(Peer!Events)
        BY <2>2
      <3> QED
        BY <1>9, <3>1 DEF Peer!ReadEvents
    <2> QED
      BY <2>2, <2>3, <2>4
  <1>10. ASSUME NEW c \in Clients, Peer!Again(c) PROVE Peer!TypeOK'
    BY <1>10 DEF Peer!Again, Peer!Enter
  <1>11. ASSUME NEW r \in Requests, Peer!Says(r)
         PROVE  /\ told' \in [Requests -> Seq(Peer!JobEvents)]
                /\ inbox' \in [Clients -> Seq(Peer!Events)]
                /\ outbox' \in Seq(Peer!Events)
    <2>1. PICK event \in [kind : {"progress", "answer"}, of : {{r}}] :
             /\ told' = [told EXCEPT ![r] = Append(told[r], event)]
             /\ Peer!Emitted(event)
      BY <1>11 DEF Peer!Says
    <2>2. event \in Peer!JobEvents /\ event \in Peer!Events
      BY SaidIsEvent
    <2>3. Append(told[r], event) \in Seq(Peer!JobEvents)
      BY <2>2
    <2> QED
      BY <2>1, <2>2, <2>3, EmittedGoes
  <1>12. ASSUME NEW c \in Clients, Peer!Handle(c) PROVE Peer!TypeOK'
    <2>1. Tail(commands[c]) \in Seq({"health", "shutdown"} \cup Requests)
      BY <1>12, HeadTailProperties DEF Peer!Handle
    <2>2. /\ told' \in [Requests -> Seq(Peer!JobEvents)]
          /\ inbox' \in [Clients -> Seq(Peer!Events)]
          /\ outbox' \in Seq(Peer!Events)
      BY <1>11, <1>12, EmittedGoes, SaidIsEvent DEF Peer!Handle
    <2> QED
      BY <1>12, <2>1, <2>2 DEF Peer!Handle
  <1>13. ASSUME NEW r \in Requests, Peer!Work(r) PROVE Peer!TypeOK'
    BY <1>11, <1>13 DEF Peer!Work
  <1>14. CASE Peer!Announce
    <2>1. inbox' \in [Clients -> Seq(Peer!Events)] /\ outbox' \in Seq(Peer!Events)
      BY <1>14, EmittedGoes, SaidIsEvent DEF Peer!Announce
    <2> QED
      BY <1>0, <1>14, <2>1 DEF Peer!Announce
  <1>15. ASSUME NEW c \in Clients, Peer!Attach(c) PROVE Peer!TypeOK'
    BY <1>15 DEF Peer!Attach
  <1>16. ASSUME NEW c \in Clients, Peer!Flush(c) PROVE Peer!TypeOK'
    <2>1. Head(outbox) \in Peer!Events /\ Tail(outbox) \in Seq(Peer!Events)
      BY <1>16, HeadTailProperties DEF Peer!Flush
    <2>2. Append(inbox[c], Head(outbox)) \in Seq(Peer!Events)
      BY <2>1
    <2> QED
      BY <1>16, <2>1, <2>2 DEF Peer!Flush
  <1>17. CASE UNCHANGED Peer!vars
    BY <1>17 DEF Peer!vars
  <1> QED
    BY <1>1, <1>2, <1>3, <1>4, <1>5, <1>6, <1>8, <1>9, <1>10, <1>12, <1>13, <1>14, <1>15,
       <1>16, <1>17 DEF Peer!Next, Peer!ClientNext

(* A request that is put on its way, taken from it, or lost with all that  *)
(* follows it                                                              *)
LEMMA OnceAppend ==
    ASSUME NEW S, NEW queue \in Seq(S), NEW x \in S, Once(queue),
           x \notin Requests \/ x \notin Range(queue)
    PROVE  Once(Append(queue, x))
  <1>1. /\ Len(Append(queue, x)) = Len(queue) + 1
        /\ \A i \in 1 .. Len(queue) : Append(queue, x)[i] = queue[i]
        /\ Append(queue, x)[Len(queue) + 1] = x
        /\ Len(queue) \in Nat
    BY AppendProperties, LenProperties
  <1>2. x \in Requests => \A i \in 1 .. Len(queue) : queue[i] # x
    BY RangeEquality
  <1>3. \A i \in 1 .. Len(queue) + 1 : i \in 1 .. Len(queue) \/ i = Len(queue) + 1
    BY <1>1
  <1> QED
    BY <1>1, <1>2, <1>3 DEF Once

(* A request that is taken from the pipe is not in what is left of it.     *)
LEMMA OnceTail ==
    ASSUME NEW S, NEW queue \in Seq(S), queue # <<>>, Once(queue)
    PROVE  /\ Once(Tail(queue))
           /\ Head(queue) \in Requests => Head(queue) \notin Range(Tail(queue))
  <1>1. /\ Tail(queue) \in Seq(S)
        /\ Len(queue) \in Nat \ {0}
        /\ Len(Tail(queue)) = Len(queue) - 1
        /\ \A i \in 1 .. Len(Tail(queue)) : Tail(queue)[i] = queue[i + 1]
        /\ Head(queue) = queue[1]
    BY HeadTailProperties, EmptySeq, LenProperties
  <1>2. \A i \in 1 .. Len(Tail(queue)) : i + 1 \in 1 .. Len(queue) /\ i + 1 # 1
    BY <1>1
  <1>3. Once(Tail(queue))
    BY <1>1, <1>2 DEF Once
  <1>4. 1 \in 1 .. Len(queue)
    BY <1>1
  <1>5. Head(queue) \in Requests =>
           \A i \in 1 .. Len(Tail(queue)) : Tail(queue)[i] # Head(queue)
    BY <1>1, <1>2, <1>4 DEF Once
  <1>6. Range(Tail(queue)) = {Tail(queue)[i] : i \in 1 .. Len(Tail(queue))}
    BY <1>1, RangeEquality
  <1> QED
    BY <1>3, <1>5, <1>6

(* A prefix of a pipe, which is what is left when a client closes, holds   *)
(* no request twice either.                                                *)
LEMMA OnceSubSeq ==
    ASSUME NEW S, NEW queue \in Seq(S), NEW n \in 0 .. Len(queue), Once(queue)
    PROVE  Once(SubSeq(queue, 1, n))
  <1>1. Len(queue) \in Nat
    BY LenProperties
  <1>2. /\ Len(SubSeq(queue, 1, n)) = n
        /\ \A i \in 1 .. n : SubSeq(queue, 1, n)[i] = queue[i]
    BY <1>1, SubSeqProperties
  <1> QED
    BY <1>1, <1>2 DEF Once

(* A request stays on its way once, and nothing is said of it before it is *)
(* there.                                                                  *)
LEMMA AskStep ==
    ASSUME Peer!ClientAssumption, Peer!TypeOK, AskInv, ToldInv, [Peer!Next]_(Peer!vars)
    PROVE  AskInv'
  <1> DEFINE Commands == {"health", "shutdown"} \cup Requests
  <1>0. /\ \A c \in Clients : commands[c] \in Seq(Commands)
        /\ submitter \in [Requests -> {{}} \cup {{c} : c \in Clients}]
        /\ commands \in [Clients -> Seq(Commands)]
        /\ told \in [Requests -> Seq(Peer!JobEvents)]
    BY DEF Peer!TypeOK
  <1>1. CASE UNCHANGED <<commands, submitter, told>>
    BY <1>1 DEF AskInv, Once
  <1>2. ASSUME NEW r \in Requests, Peer!Work(r) PROVE AskInv'
    <2>1. told[r] # <<>> /\ UNCHANGED <<commands, submitter>>
          /\ \A q \in Requests : q # r => told'[q] = told[q]
      BY <1>0, <1>2 DEF Peer!Work, Peer!Says
    <2> QED
      BY <2>1 DEF AskInv, Once
  <1>3. ASSUME NEW c \in Clients, Peer!Close(c) PROVE AskInv'
    <2>1. PICK n \in 0 .. Len(commands[c]) :
             commands' = [commands EXCEPT ![c] = SubSeq(commands[c], 1, n)]
      BY <1>3 DEF Peer!Close
    <2>2. UNCHANGED <<submitter, told>>
      BY <1>3 DEF Peer!Close
    <2>3. Once(commands[c])
      BY DEF AskInv
    <2>4. Once(SubSeq(commands[c], 1, n))
      BY <1>0, <2>3, OnceSubSeq
    <2>5. Range(SubSeq(commands[c], 1, n)) \subseteq Range(commands[c])
      <3>1. Len(commands[c]) \in Nat
        BY <1>0, LenProperties
      <3> QED
        BY <1>0, <3>1, SubSeqRange
    <2> DEFINE rest == SubSeq(commands[c], 1, n)
    <2> HIDE DEF rest
    <2>6. /\ commands' = [commands EXCEPT ![c] = rest]
          /\ Once(rest) /\ Range(rest) \subseteq Range(commands[c])
      BY <2>1, <2>4, <2>5 DEF rest
    <2>7. \A d \in Clients : commands'[d] = IF d = c THEN rest ELSE commands[d]
      BY <1>0, <2>6
    <2>8. ASSUME NEW d \in Clients
          PROVE  Once(commands'[d]) /\ Range(commands'[d]) \subseteq Range(commands[d])
      BY <2>6, <2>7 DEF AskInv
    <2> QED
      BY <2>2, <2>8 DEF AskInv, Once
  <1>4. ASSUME NEW c \in Clients, NEW r \in Requests, Peer!Submit(c, r) PROVE AskInv'
    <2>1. /\ submitter[r] = {} /\ submitter' = [submitter EXCEPT ![r] = {c}]
          /\ commands' = [commands EXCEPT ![c] = Append(commands[c], r)]
          /\ told' = told
      BY <1>4 DEF Peer!Submit, Peer!Send
    <2>2. told[r] = <<>> /\ \A d \in Clients : r \notin Range(commands[d])
      BY <2>1 DEF ToldInv, AskInv
    <2>3. Once(Append(commands[c], r))
      BY <1>0, <2>2, OnceAppend DEF AskInv
    <2>4. Range(Append(commands[c], r)) = Range(commands[c]) \cup {r}
      BY <1>0, AppendRange
    <2>5. \A d \in Clients : commands'[d] = IF d = c THEN Append(commands[c], r) ELSE commands[d]
      BY <1>0, <2>1
    <2>6. \A q \in Requests : submitter'[q] = IF q = r THEN {c} ELSE submitter[q]
      BY <1>0, <2>1
    <2>7. ASSUME NEW d \in Clients
          PROVE  /\ Once(commands'[d])
                 /\ Range(commands'[d]) = Range(commands[d]) \cup (IF d = c THEN {r} ELSE {})
      BY <2>3, <2>4, <2>5 DEF AskInv
    <2>8. ASSUME NEW d \in Clients PROVE Once(commands[d])'
      BY <2>7 DEF Once
    <2>9. ASSUME NEW d \in Clients, NEW q \in Requests, q \in Range(commands'[d])
          PROVE  submitter'[q] = {d} /\ told'[q] = <<>>
      <3>1. CASE q = r
        BY <2>1, <2>2, <2>6, <2>7, <2>9, <3>1
      <3>2. CASE q # r
        <4>1. q \in Range(commands[d])
          BY <2>7, <2>9, <3>2
        <4> QED
          BY <2>1, <2>6, <3>2, <4>1 DEF AskInv
      <3> QED
        BY <3>1, <3>2
    <2>10. ASSUME NEW d \in Clients, NEW q \in Requests
           PROVE  (q \in Range(commands[d]) => submitter[q] = {d} /\ told[q] = <<>>)'
      BY <2>9
    <2> QED
      BY <2>8, <2>10 DEF AskInv
  <1>5. ASSUME NEW c \in Clients, NEW k \in {"health", "shutdown"}, Peer!Send(c, k),
               UNCHANGED <<submitter, told>>
        PROVE  AskInv'
    <2>1. k \notin Requests
      BY DEF Peer!ClientAssumption
    <2>2. Once(Append(commands[c], k))
      BY <1>0, <2>1, OnceAppend DEF AskInv
    <2>3. Range(Append(commands[c], k)) = Range(commands[c]) \cup {k}
      BY <1>0, AppendRange
    <2>4. \A d \in Clients : commands'[d] = IF d = c THEN Append(commands[c], k) ELSE commands[d]
      BY <1>0, <1>5 DEF Peer!Send
    <2>5. ASSUME NEW d \in Clients
          PROVE  /\ Once(commands'[d])
                 /\ Range(commands'[d]) \cap Requests = Range(commands[d]) \cap Requests
      BY <2>1, <2>2, <2>3, <2>4 DEF AskInv
    <2> QED
      BY <1>5, <2>5 DEF AskInv, Once
  <1>6. ASSUME NEW c \in Clients, Peer!Handle(c) PROVE AskInv'
    <2>1. /\ commands[c] # <<>> /\ submitter' = submitter
          /\ commands' = [commands EXCEPT ![c] = Tail(commands[c])]
      BY <1>6 DEF Peer!Handle
    <2>2. /\ Once(Tail(commands[c]))
          /\ Head(commands[c]) \in Requests => Head(commands[c]) \notin Range(Tail(commands[c]))
      BY <1>0, <2>1, OnceTail DEF AskInv
    <2>3. /\ Range(Tail(commands[c])) \subseteq Range(commands[c])
          /\ Head(commands[c]) \in Range(commands[c])
      BY <1>0, <2>1, TailRange
    <2>4. \A d \in Clients : commands'[d] = IF d = c THEN Tail(commands[c]) ELSE commands[d]
      BY <1>0, <2>1
    <2>5. ASSUME NEW d \in Clients
          PROVE  /\ Once(commands'[d])
                 /\ Range(commands'[d]) \subseteq Range(commands[d])
                 /\ Head(commands[c]) \in Requests => Head(commands[c]) \notin Range(commands'[d])
      <3>1. CASE d = c
        BY <2>2, <2>3, <2>4, <3>1
      <3>2. CASE d # c
        <4>1. commands'[d] = commands[d] /\ Once(commands[d])
          BY <2>4, <3>2 DEF AskInv
        <4>2. ASSUME Head(commands[c]) \in Requests, Head(commands[c]) \in Range(commands[d])
              PROVE  FALSE
          <5>1. submitter[Head(commands[c])] = {c} /\ submitter[Head(commands[c])] = {d}
            BY <2>3, <4>2 DEF AskInv
          <5> QED
            BY <3>2, <5>1
        <4> QED
          BY <4>1, <4>2
      <3> QED
        BY <3>1, <3>2
    <2>6. \A q \in Requests : q # Head(commands[c]) => told'[q] = told[q]
      <3>1. \/ told' = told
            \/ Head(commands[c]) \in Requests /\ Peer!Says(Head(commands[c]))
        BY <1>6 DEF Peer!Handle
      <3> QED
        BY <1>0, <3>1 DEF Peer!Says
    <2>7. ASSUME NEW d \in Clients PROVE Once(commands[d])'
      BY <2>5 DEF Once
    <2>8. ASSUME NEW d \in Clients, NEW q \in Requests, q \in Range(commands'[d])
          PROVE  submitter'[q] = {d} /\ told'[q] = <<>>
      <3>1. q \in Range(commands[d]) /\ q # Head(commands[c])
        BY <2>5, <2>8
      <3> QED
        BY <2>1, <2>6, <3>1 DEF AskInv
    <2>9. ASSUME NEW d \in Clients, NEW q \in Requests
          PROVE  (q \in Range(commands[d]) => submitter[q] = {d} /\ told[q] = <<>>)'
      BY <2>8
    <2> QED
      BY <2>7, <2>9 DEF AskInv
  <1> QED
    BY <1>1, <1>2, <1>3, <1>4, <1>5, <1>6 DEF Peer!Next, Peer!ClientNext, Peer!vars,
       Peer!pipes, Peer!Connect, Peer!ShutdownWorker, Peer!Health, Peer!PollInVain,
       Peer!WaitForReady, Peer!Resume, Peer!ReadHealth, Peer!ReadReady, Peer!ReadEvents,
       Peer!Reads, Peer!Again, Peer!Announce, Peer!Attach, Peer!Flush

(* What a step does to the events: the peer says one of a request, or      *)
(* reports, or an event moves on, or none of this.                         *)
Speaks(r, event) ==
    /\ submitter[r] # {} /\ ~Peer!Answered(told[r])
    /\ event \in Peer!JobEvents /\ event.of = {r}
    /\ told' = [told EXCEPT ![r] = Append(told[r], event)]
    /\ Peer!Emitted(event)
    /\ UNCHANGED <<link, call, submitter, got, disturbed>>
Reports(event) ==
    /\ event \in Peer!Events /\ event.of = {}
    /\ Peer!Emitted(event)
    /\ UNCHANGED <<link, call, submitter, told, got, disturbed>>
Quiet ==
    /\ UNCHANGED <<inbox, outbox, submitter, told, got>>
    /\ disturbed \subseteq disturbed'

(* What the actions do to the pipes: the peer speaks of a request, or      *)
(* reports; or nothing happens to them; or a client reads, is flushed or   *)
(* closes; or submits.                                                     *)
LEMMA WhatHappens ==
    ASSUME Peer!TypeOK, AskInv, ToldInv, [Peer!Next]_(Peer!vars)
    PROVE  \/ \E r \in Requests, event \in Peer!JobEvents : Speaks(r, event)
           \/ \E event \in Peer!Events : Reports(event)
           \/ Quiet
           \/ \E c \in Clients : \/ Peer!Flush(c) \/ Peer!Close(c)
                                 \/ Peer!ReadHealth(c) \/ Peer!ReadReady(c) \/ Peer!ReadEvents(c)
           \/ \E c \in Clients, r \in Requests : Peer!Submit(c, r)
  <1>1. ASSUME NEW r \in Requests, Peer!Says(r), submitter[r] # {},
               ~Peer!Answered(told[r]), UNCHANGED <<link, call, submitter, got, disturbed>>
        PROVE  \E event \in Peer!JobEvents : Speaks(r, event)
    <2>1. PICK event \in [kind : {"progress", "answer"}, of : {{r}}] :
             /\ told' = [told EXCEPT ![r] = Append(told[r], event)]
             /\ Peer!Emitted(event)
      BY <1>1 DEF Peer!Says
    <2>2. event \in Peer!JobEvents /\ event.of = {r}
      BY SaidIsEvent
    <2> QED
      BY <1>1, <2>1, <2>2 DEF Speaks
  <1>2. ASSUME NEW c \in Clients, Peer!Handle(c)
        PROVE  \/ \E r \in Requests, event \in Peer!JobEvents : Speaks(r, event)
               \/ \E event \in Peer!Events : Reports(event)
               \/ Quiet
    <2>1. CASE Peer!Emitted(Peer!Report("health")) /\ UNCHANGED told
      BY <1>2, <2>1, SaidIsEvent DEF Reports, Peer!Handle
    <2>2. CASE UNCHANGED <<inbox, outbox, told>>
      BY <1>2, <2>2 DEF Quiet, Peer!Handle
    <2>3. CASE Head(commands[c]) \in Requests /\ Peer!Says(Head(commands[c]))
      <3> DEFINE r == Head(commands[c])
      <3>1. r \in Range(commands[c])
        BY <1>2, TailRange DEF Peer!TypeOK, Peer!Handle
      <3>2. submitter[r] = {c} /\ told[r] = <<>>
        BY <2>3, <3>1 DEF AskInv
      <3>3. UNCHANGED <<link, call, submitter, got, disturbed>>
        BY <1>2 DEF Peer!Handle
      <3>4. submitter[r] # {} /\ ~Peer!Answered(told[r])
        BY <3>2 DEF Peer!Answered
      <3> HIDE DEF r
      <3> QED
        BY <1>1, <2>3, <3>3, <3>4 DEF r
    <2> QED
      BY <1>2, <2>1, <2>2, <2>3 DEF Peer!Handle
  <1>3. ASSUME NEW r \in Requests, Peer!Work(r)
        PROVE  \E event \in Peer!JobEvents : Speaks(r, event)
    <2>1. submitter[r] # {} /\ ~Peer!Answered(told[r])
      BY <1>3 DEF Peer!Work, ToldInv
    <2> QED
      BY <1>1, <1>3, <2>1 DEF Peer!Work
  <1>4. CASE Peer!Announce
    <2>1. CASE Peer!Emitted(Peer!Report("ready"))
      BY <1>4, <2>1, SaidIsEvent DEF Reports, Peer!Announce
    <2> QED
      BY <1>4, <2>1 DEF Peer!Announce, Quiet
  <1>5. ASSUME NEW c \in Clients,
               \/ Peer!Connect(c) \/ Peer!ShutdownWorker(c) \/ Peer!Health(c)
               \/ Peer!WaitForReady(c) \/ Peer!PollInVain(c) \/ Peer!Again(c) \/ Peer!Attach(c)
        PROVE  Quiet
    BY <1>5 DEF Quiet, Peer!pipes, Peer!Connect, Peer!ShutdownWorker, Peer!Health,
       Peer!WaitForReady, Peer!PollInVain, Peer!Again, Peer!Attach, Peer!Disturbing
  <1>6. ASSUME NEW c \in Clients, NEW r \in Requests, Peer!Resume(c, r) PROVE Quiet
    BY <1>6 DEF Quiet, Peer!pipes, Peer!Resume, Peer!Disturbing
  <1>7. CASE UNCHANGED Peer!vars
    BY <1>7 DEF Quiet, Peer!vars, Peer!pipes
  <1> QED
    BY <1>2, <1>3, <1>4, <1>5, <1>6, <1>7 DEF Peer!Next, Peer!ClientNext

(* Nothing is said of what nobody asked for, and nothing after an answer.  *)
LEMMA ToldStep ==
    ASSUME Peer!TypeOK, AskInv, ToldInv, CallInv, [Peer!Next]_(Peer!vars)
    PROVE  ToldInv'
  <1>1. ASSUME NEW r \in Requests, NEW event \in Peer!JobEvents, Speaks(r, event)
        PROVE  ToldInv'
    <2>1. told[r] \in Seq(Peer!JobEvents) /\ told \in [Requests -> Seq(Peer!JobEvents)]
      BY DEF Peer!TypeOK
    <2>2. EndsWithAnswer(r, Append(told[r], event))
      <3>1. /\ Len(Append(told[r], event)) = Len(told[r]) + 1
            /\ \A i \in 1 .. Len(told[r]) : Append(told[r], event)[i] = told[r][i]
            /\ Append(told[r], event)[Len(told[r]) + 1] = event
            /\ Len(told[r]) \in Nat
            /\ told[r] # <<>> => Len(told[r]) # 0
        BY <2>1, AppendProperties, LenProperties, EmptySeq
      <3>2. \A i \in 1 .. Len(told[r]) : told[r][i].kind # "answer"
        BY <1>1, <3>1 DEF Speaks, Peer!Answered, Peer!Last, ToldInv, EndsWithAnswer
      <3>3. \A i \in 1 .. Len(told[r]) + 1 : i \in 1 .. Len(told[r]) \/ i = Len(told[r]) + 1
        BY <3>1
      <3> QED
        BY <1>1, <3>1, <3>2, <3>3 DEF ToldInv, EndsWithAnswer, Speaks
    <2>3. \A q \in Requests : told'[q] = IF q = r THEN Append(told[r], event) ELSE told[q]
      BY <1>1, <2>1 DEF Speaks
    <2>4. ASSUME NEW q \in Requests PROVE EndsWithAnswer(q, told'[q])
      BY <2>2, <2>3 DEF ToldInv
    <2>5. UNCHANGED <<submitter, got>> /\ submitter[r] # {}
      BY <1>1 DEF Speaks
    <2> QED
      BY <2>3, <2>4, <2>5 DEF ToldInv, EndsWithAnswer
  <1>2. CASE UNCHANGED <<submitter, told, got>>
    BY <1>2 DEF ToldInv, EndsWithAnswer
  <1>3. ASSUME NEW c \in Clients, NEW r \in Requests, Peer!Submit(c, r)
        PROVE  ToldInv'
    <2>1. \A q \in Requests : submitter'[q] = IF q = r THEN {c} ELSE submitter[q]
      BY <1>3 DEF Peer!TypeOK, Peer!Submit
    <2>2. UNCHANGED <<told, got>>
      BY <1>3 DEF Peer!Submit
    <2> QED
      BY <2>1, <2>2 DEF ToldInv, EndsWithAnswer
  <1>4. ASSUME NEW c \in Clients, Peer!ReadEvents(c)
        PROVE  ToldInv'
    <2>1. UNCHANGED <<submitter, told>>
      BY <1>4 DEF Peer!ReadEvents, Peer!Reads
    <2>2. \A q \in call[c].of : submitter[q] = {c}
      <3>1. call[c] # Peer!Idle
        BY <1>4 DEF Peer!ReadEvents, Peer!Reads, Peer!Idle, Peer!Call
      <3> QED
        BY <3>1 DEF CallInv
    <2>3. \A q \in Requests : q \notin call[c].of => got'[q] = got[q]
      BY <1>4 DEF Peer!ReadEvents
    <2> QED
      BY <2>1, <2>2, <2>3 DEF ToldInv, EndsWithAnswer
  <1> QED
    BY <1>1, <1>2, <1>3, <1>4, WhatHappens DEF Reports, Quiet, Peer!Flush, Peer!Close,
       Peer!ReadHealth, Peer!ReadReady, Peer!Reads

(* An event that is emitted is added to one queue.                         *)
LEMMA EmittedRanges ==
    ASSUME Peer!TypeOK, NEW event \in Peer!Events, Peer!Emitted(event)
    PROVE  /\ Range(outbox') \subseteq Range(outbox) \cup {event}
           /\ \A c \in Clients : Range(inbox'[c]) \subseteq Range(inbox[c]) \cup {event}
  <1>1. inbox \in [Clients -> Seq(Peer!Events)] /\ outbox \in Seq(Peer!Events)
    BY DEF Peer!TypeOK
  <1>2. CASE outbox' = Append(outbox, event) /\ inbox' = inbox
    <2>1. Range(Append(outbox, event)) = Range(outbox) \cup {event}
      BY <1>1, AppendRange
    <2> QED
      BY <1>2, <2>1
  <1>3. ASSUME NEW c \in Peer!Attached, outbox' = outbox,
               inbox' = [inbox EXCEPT ![c] = Append(inbox[c], event)]
        PROVE  /\ Range(outbox') \subseteq Range(outbox) \cup {event}
               /\ \A d \in Clients : Range(inbox'[d]) \subseteq Range(inbox[d]) \cup {event}
    <2>1. Range(Append(inbox[c], event)) = Range(inbox[c]) \cup {event}
      BY <1>1, AppendRange DEF Peer!Attached
    <2>2. \A d \in Clients : inbox'[d] = IF d = c THEN Append(inbox[c], event) ELSE inbox[d]
      BY <1>1, <1>3
    <2> QED
      BY <1>3, <2>1, <2>2
  <1> QED
    BY <1>2, <1>3, EmittedGoes

(* So every step only moves events, but for the one that is said.          *)
LEMMA PipeStep ==
    ASSUME Peer!TypeOK, AskInv, ToldInv, PipeInv, [Peer!Next]_(Peer!vars)
    PROVE  PipeInv'
  <1>0. /\ inbox \in [Clients -> Seq(Peer!Events)] /\ outbox \in Seq(Peer!Events)
        /\ told \in [Requests -> Seq(Peer!JobEvents)]
    BY DEF Peer!TypeOK
  <1>1. ASSUME NEW r \in Requests, NEW event \in Peer!JobEvents, Speaks(r, event)
        PROVE  PipeInv'
    <2>1. Append(told[r], event) # <<>>
      <3>1. Len(Append(told[r], event)) = Len(told[r]) + 1 /\ Len(told[r]) \in Nat
        BY <1>0, AppendProperties, LenProperties
      <3>2. Len(<<>>) = 0
        OBVIOUS
      <3> QED
        BY <3>1, <3>2
    <2>2. \A q \in Requests : told'[q] = IF q = r THEN Append(told[r], event) ELSE told[q]
      BY <1>0, <1>1 DEF Speaks
    <2>3. event \in Peer!Events /\ Peer!Emitted(event) /\ event.of = {r}
      BY <1>1, SaidIsEvent DEF Speaks
    <2>4. /\ Range(outbox') \subseteq Range(outbox) \cup {event}
          /\ \A c \in Clients : Range(inbox'[c]) \subseteq Range(inbox[c]) \cup {event}
      BY <2>3, EmittedRanges
    <2> QED
      BY <2>1, <2>2, <2>3, <2>4 DEF PipeInv, WasTold
  <1>2. ASSUME NEW event \in Peer!Events, Reports(event) PROVE PipeInv'
    <2>1. /\ Range(outbox') \subseteq Range(outbox) \cup {event}
          /\ \A c \in Clients : Range(inbox'[c]) \subseteq Range(inbox[c]) \cup {event}
      BY <1>2, EmittedRanges DEF Reports
    <2> QED
      BY <1>2, <2>1 DEF PipeInv, WasTold, Reports
  <1>3. CASE UNCHANGED <<inbox, outbox, told>>
    BY <1>3 DEF PipeInv, WasTold
  <1>4. ASSUME NEW c \in Clients, Peer!Flush(c) PROVE PipeInv'
    <2>1. /\ outbox # <<>> /\ outbox' = Tail(outbox) /\ told' = told
          /\ inbox' = [inbox EXCEPT ![c] = Append(inbox[c], Head(outbox))]
      BY <1>4 DEF Peer!Flush
    <2>2. /\ Head(outbox) \in Range(outbox) /\ Head(outbox) \in Peer!Events
          /\ Range(Tail(outbox)) \subseteq Range(outbox)
      BY <1>0, <2>1, TailRange
    <2>3. Range(Append(inbox[c], Head(outbox))) = Range(inbox[c]) \cup {Head(outbox)}
      BY <1>0, <2>2, AppendRange
    <2>4. \A d \in Clients : inbox'[d] = IF d = c THEN Append(inbox[c], Head(outbox)) ELSE inbox[d]
      BY <1>0, <2>1
    <2>5. \A d \in Clients : Range(inbox'[d]) \subseteq Range(inbox[d]) \cup Range(outbox)
      BY <2>2, <2>3, <2>4
    <2> QED
      BY <2>1, <2>2, <2>5 DEF PipeInv, WasTold
  <1>5. ASSUME NEW c \in Clients, Peer!Close(c) PROVE PipeInv'
    <2>1. Range(<<>>) = {}
      BY DEF Range
    <2>2. \A d \in Clients : inbox'[d] = IF d = c THEN <<>> ELSE inbox[d]
      BY <1>0, <1>5 DEF Peer!Close
    <2>3. \A d \in Clients : Range(inbox'[d]) \subseteq Range(inbox[d])
      BY <2>1, <2>2
    <2> QED
      BY <1>5, <2>3 DEF Peer!Close, PipeInv, WasTold
  <1>6. ASSUME NEW c \in Clients, NEW name, Peer!Reads(c, name) PROVE PipeInv'
    <2>1. Range(Tail(inbox[c])) \subseteq Range(inbox[c])
      BY <1>0, <1>6, TailRange DEF Peer!Reads
    <2>2. \A d \in Clients : inbox'[d] = IF d = c THEN Tail(inbox[c]) ELSE inbox[d]
      BY <1>0, <1>6 DEF Peer!Reads
    <2>3. \A d \in Clients : Range(inbox'[d]) \subseteq Range(inbox[d])
      BY <2>1, <2>2
    <2> QED
      BY <1>6, <2>3 DEF Peer!Reads, PipeInv, WasTold
  <1> QED
    BY <1>1, <1>2, <1>3, <1>4, <1>5, <1>6, WhatHappens DEF Quiet, Peer!Submit,
       Peer!ReadHealth, Peer!ReadReady, Peer!ReadEvents

(* A call goes on while its client is connected, and is about its own      *)
(* requests.                                                               *)
LEMMA CallStep ==
    ASSUME Peer!TypeOK, CallInv, [Peer!Next]_(Peer!vars)
    PROVE  CallInv'
  <1>0. /\ link \in [Clients -> {"new", "open", "attached", "closed"}]
        /\ call \in [Clients -> {Peer!Call(n, {}) : n \in {"idle", "health", "wait_for_ready"}}
                                \cup {Peer!Call("events", {r}) : r \in Requests}]
        /\ submitter \in [Requests -> {{}} \cup {{c} : c \in Clients}]
    BY DEF Peer!TypeOK
  <1>1. CASE UNCHANGED <<link, call, submitter>>
    BY <1>1 DEF CallInv, Peer!Open
  <1>2. ASSUME NEW c \in Clients, link' = [link EXCEPT ![c] = "open"] \/ Peer!Attach(c),
               UNCHANGED <<call, submitter>>
        PROVE  CallInv'
    <2>1. \A d \in Clients : d \in Peer!Open => d \in Peer!Open'
      BY <1>0, <1>2 DEF Peer!Open, Peer!Attach
    <2> QED
      BY <1>2, <2>1 DEF CallInv
  <1>3. ASSUME NEW c \in Clients, Peer!Close(c) PROVE CallInv'
    <2>1. call[c] = Peer!Idle /\ UNCHANGED <<call, submitter>>
      BY <1>3 DEF Peer!Close, Peer!Free
    <2>2. \A d \in Clients : d # c /\ d \in Peer!Open => d \in Peer!Open'
      BY <1>0, <1>3 DEF Peer!Open, Peer!Close
    <2> QED
      BY <2>1, <2>2 DEF CallInv
  <1>4. ASSUME NEW c \in Clients, NEW r \in Requests, Peer!Submit(c, r) PROVE CallInv'
    <2>1. \A q \in Requests : submitter'[q] = submitter[q] \/ (q = r /\ submitter[q] = {})
      BY <1>0, <1>4 DEF Peer!Submit
    <2>2. UNCHANGED <<link, call>>
      BY <1>4 DEF Peer!Submit
    <2>3. \A d \in Clients : \A q \in call[d].of : q \in Requests
      BY <1>0 DEF Peer!Call
    <2>4. \A d \in Clients : {d} # {}
      OBVIOUS
    <2> QED
      BY <2>1, <2>2, <2>3, <2>4 DEF CallInv, Peer!Open
  <1>5. ASSUME NEW c \in Clients, NEW name, call' = [call EXCEPT ![c] = Peer!Call(name, {})],
               c \in Peer!Open \/ call[c] # Peer!Idle, UNCHANGED <<link, submitter>>
        PROVE  CallInv'
    <2>1. Peer!Call(name, {}).of = {}
      BY DEF Peer!Call
    <2>2. c \in Peer!Open
      BY <1>5 DEF CallInv
    <2>3. \A d \in Clients : call'[d] = IF d = c THEN Peer!Call(name, {}) ELSE call[d]
      BY <1>0, <1>5
    <2> QED
      BY <1>5, <2>1, <2>2, <2>3 DEF CallInv, Peer!Open
  <1>6. ASSUME NEW c \in Clients, NEW r \in Requests, Peer!Resume(c, r) PROVE CallInv'
    <2>1. \A d \in Clients : call'[d] = IF d = c THEN Peer!Call("events", {r}) ELSE call[d]
      BY <1>0, <1>6 DEF Peer!Resume, Peer!Enter
    <2>2. c \in Peer!Open /\ submitter[r] = {c} /\ UNCHANGED <<link, submitter>>
      BY <1>6 DEF Peer!Resume, Peer!Free
    <2>3. Peer!Call("events", {r}).of = {r}
      BY DEF Peer!Call
    <2> QED
      BY <2>1, <2>2, <2>3 DEF CallInv, Peer!Open
  <1>7. ASSUME NEW c \in Clients,
               Peer!ReadHealth(c) \/ Peer!ReadReady(c) \/ Peer!ReadEvents(c) \/ Peer!Again(c)
        PROVE  /\ call' = call \/ call' = [call EXCEPT ![c] = Peer!Call("idle", {})]
               /\ call[c] # Peer!Idle /\ UNCHANGED <<link, submitter>>
    BY <1>7 DEF Peer!ReadHealth, Peer!ReadReady, Peer!ReadEvents, Peer!Again, Peer!Reads,
       Peer!Enter, Peer!Idle, Peer!Call
  <1>8. ASSUME NEW c \in Clients, Peer!Health(c) \/ Peer!WaitForReady(c)
        PROVE  /\ \E name : call' = [call EXCEPT ![c] = Peer!Call(name, {})]
               /\ c \in Peer!Open /\ UNCHANGED <<link, submitter>>
    BY <1>8 DEF Peer!Health, Peer!WaitForReady, Peer!Enter, Peer!Free
  <1> QED
    BY <1>1, <1>2, <1>3, <1>4, <1>5, <1>6, <1>7, <1>8 DEF Peer!Next, Peer!ClientNext,
       Peer!vars, Peer!pipes, Peer!Connect, Peer!ShutdownWorker, Peer!PollInVain,
       Peer!Attach, Peer!Flush, Peer!Handle, Peer!Work, Peer!Announce

(* When events() has yielded the answer, nothing about the request is left *)
(* on its way, and when the peer has not said it, it is outstanding.       *)
LEMMA AnsweredIsAll ==
    ASSUME Peer!TypeOK, ToldInv, BalanceInv, NEW r \in Requests \ disturbed,
           NEW c \in submitter[r]
    PROVE  /\ c \in Clients /\ submitter[r] = {c}
           /\ Peer!Answered(got[r]) =>
                 /\ EventsAbout(r, inbox[c]) = <<>>
                 /\ EventsAbout(r, outbox) = <<>>
                 /\ Peer!Answered(told[r])
  <1>1. c \in Clients /\ submitter[r] = {c}
    <2>1. submitter[r] \in {{}} \cup {{d} : d \in Clients}
      BY DEF Peer!TypeOK
    <2>2. PICK d \in Clients : submitter[r] = {d}
      BY <2>1
    <2> QED
      BY <2>2
  <1>2. /\ inbox[c] \in Seq(Peer!Events) /\ outbox \in Seq(Peer!Events)
        /\ got[r] \in Seq(Peer!Events)
    BY <1>1 DEF Peer!TypeOK
  <1> DEFINE h == EventsAbout(r, inbox[c])
             k == EventsAbout(r, outbox)
  <1>3. h \in Seq(Peer!Events) /\ k \in Seq(Peer!Events)
    BY <1>2, AboutType
  <1>4. told[r] = (got[r] \o h) \o k /\ EndsWithAnswer(r, told[r])
    BY DEF BalanceInv, Balanced, ToldInv
  <1> HIDE DEF h, k
  <1>5. ASSUME Peer!Answered(got[r])
        PROVE  h = <<>> /\ k = <<>> /\ Peer!Answered(told[r])
    <2>1. got[r] # <<>> /\ got[r][Len(got[r])].kind = "answer"
      BY <1>5 DEF Peer!Answered, Peer!Last
    <2>2. EndsWithAnswer(r, (got[r] \o h) \o k)
      BY <1>4
    <2>3. h = <<>> /\ k = <<>>
      BY <1>2, <1>3, <2>1, <2>2, NothingFollows
    <2>4. told[r] = got[r]
      BY <1>2, <1>4, <2>3
    <2> QED
      BY <1>5, <2>3, <2>4
  <1> QED
    BY <1>1, <1>5 DEF h, k

(* An undisturbed request whose next event a client reads is outstanding.  *)
LEMMA ReadIsOutstanding ==
    ASSUME Peer!TypeOK, ToldInv, BalanceInv, NEW r \in Requests \ disturbed,
           NEW c \in submitter[r], inbox[c] # <<>>, Head(inbox[c]).of = {r}
    PROVE  r \in Peer!Outstanding
  <1>1. c \in Clients /\ submitter[r] = {c} /\ inbox[c] \in Seq(Peer!Events)
    BY AnsweredIsAll DEF Peer!TypeOK
  <1>2. Head(inbox[c]) \in Range(inbox[c])
    BY <1>1, TailRange
  <1>3. EventsAbout(r, inbox[c]) # <<>>
    BY <1>1, <1>2, AboutType
  <1> QED
    BY <1>1, <1>3, AnsweredIsAll DEF Peer!Outstanding

(* Another client that connects, or another call, disturbs the request.    *)
LEMMA AloneStep ==
    ASSUME Peer!TypeOK, AskInv, ToldInv, CallInv, AloneInv, BalanceInv,
           [Peer!Next]_(Peer!vars)
    PROVE  AloneInv'
  <1>0. /\ link \in [Clients -> {"new", "open", "attached", "closed"}]
        /\ call \in [Clients -> {Peer!Call(n, {}) : n \in {"idle", "health", "wait_for_ready"}}
                                \cup {Peer!Call("events", {r}) : r \in Requests}]
        /\ submitter \in [Requests -> {{}} \cup {{c} : c \in Clients}]
        /\ got \in [Requests -> Seq(Peer!Events)]
    BY DEF Peer!TypeOK
  <1>1. CASE UNCHANGED <<link, call, submitter, got, disturbed>>
    BY <1>1 DEF AloneInv, Peer!Open, Peer!Outstanding, Peer!Answered, Peer!Last
  <1>2. CASE UNCHANGED <<submitter, got>> /\ Peer!Disturbing(Peer!Outstanding)
    <2>1. Peer!Outstanding' = Peer!Outstanding
      BY <1>2 DEF Peer!Outstanding, Peer!Answered, Peer!Last
    <2> QED
      BY <1>2, <2>1 DEF AloneInv, Peer!Disturbing
  <1>3. ASSUME NEW c \in Clients, Peer!Attach(c) PROVE AloneInv'
    <2>1. Peer!Open' = Peer!Open
      BY <1>0, <1>3 DEF Peer!Attach, Peer!Open
    <2> QED
      BY <1>3, <2>1 DEF Peer!Attach, AloneInv, Peer!Outstanding, Peer!Answered, Peer!Last
  <1>4. ASSUME NEW c \in Clients, call' = call \/ call' = [call EXCEPT ![c] = Peer!Idle],
               UNCHANGED <<link, submitter, disturbed>>, UNCHANGED got
        PROVE  AloneInv'
    <2>1. \A d \in Clients : call'[d] \in {call[d], Peer!Idle}
      BY <1>0, <1>4
    <2>2. Peer!Outstanding' = Peer!Outstanding /\ Peer!Open' = Peer!Open
      BY <1>4 DEF Peer!Outstanding, Peer!Answered, Peer!Last, Peer!Open
    <2> QED
      BY <1>0, <1>4, <2>1, <2>2 DEF AloneInv, Peer!Outstanding
  <1>5. ASSUME NEW c \in Clients, NEW r \in Requests, Peer!Resume(c, r) PROVE AloneInv'
    <2>1. Peer!Outstanding' = Peer!Outstanding /\ Peer!Open' = Peer!Open
      BY <1>5 DEF Peer!Resume, Peer!pipes, Peer!Outstanding, Peer!Answered, Peer!Last, Peer!Open
    <2>2. /\ disturbed' = disturbed \cup (Peer!Outstanding \ {r})
          /\ submitter[r] = {c} /\ submitter' = submitter
          /\ call'[c] = Peer!Call("events", {r})
      BY <1>0, <1>5 DEF Peer!Resume, Peer!Disturbing, Peer!Enter
    <2>3. \A q \in Peer!Outstanding' \ disturbed' : q = r /\ q \in Peer!Outstanding \ disturbed
      BY <2>1, <2>2
    <2>4. r \in Peer!Outstanding \ disturbed => Peer!Open' = {c}
      BY <2>1, <2>2 DEF AloneInv
    <2>5. ASSUME NEW q \in Peer!Outstanding' \ disturbed', NEW d \in submitter'[q]
          PROVE  Peer!Open' = {d} /\ call'[d] \in {Peer!Idle, Peer!Call("events", {q})}
      <3>1. q = r /\ d = c /\ Peer!Open' = {c}
        BY <2>2, <2>3, <2>4
      <3> QED
        BY <2>2, <3>1
    <2> QED
      BY <2>5 DEF AloneInv, Peer!Idle, Peer!Call
  <1>6. ASSUME NEW c \in Clients, NEW r \in Requests, Peer!Submit(c, r) PROVE AloneInv'
    <2>1. /\ c \in Peer!Open /\ call[c] = Peer!Idle
          /\ UNCHANGED <<link, call, got>>
          /\ disturbed' = disturbed \cup (IF Peer!Open = {c} THEN {} ELSE {r})
      BY <1>6 DEF Peer!Submit, Peer!Free, Peer!Disturbing
    <2>2. \A q \in Requests : submitter'[q] = IF q = r THEN {c} ELSE submitter[q]
      BY <1>0, <1>6 DEF Peer!Submit
    <2>3. Peer!Open' = Peer!Open
      BY <2>1 DEF Peer!Open
    <2>4. \A q \in Peer!Outstanding' : q \in Requests /\ (q # r => q \in Peer!Outstanding)
      BY <2>1, <2>2 DEF Peer!Outstanding, Peer!Answered, Peer!Last
    <2> QED
      BY <2>1, <2>2, <2>3, <2>4 DEF AloneInv
  <1>7. ASSUME NEW c \in Clients, Peer!ReadEvents(c) PROVE AloneInv'
    <2>1. Peer!Reads(c, "events")
      BY <1>7 DEF Peer!ReadEvents
    <2>2. CASE UNCHANGED <<call, got>>
      BY <1>1, <2>1, <2>2 DEF Peer!Reads
    <2>3. CASE ~Peer!Skips(Head(inbox[c]), call[c].of)
      <3>1. call' = [call EXCEPT ![c] = Peer!Idle]
        BY <1>7, <2>3 DEF Peer!ReadEvents, Peer!Enter, Peer!Idle
      <3>2. UNCHANGED <<link, submitter, disturbed>> /\ inbox[c] # <<>>
        BY <2>1 DEF Peer!Reads
      <3>3. \A q \in Requests : q \notin call[c].of => got'[q] = got[q]
        BY <1>7, <2>3 DEF Peer!ReadEvents
      <3>4. Head(inbox[c]).of = call[c].of
        BY <2>3 DEF Peer!Skips
      <3>5. PICK r \in Requests : call[c].of = {r}
        <4>1. /\ call[c].name = "events"
              /\ \/ call[c] \in {Peer!Call(n, {}) : n \in {"idle", "health", "wait_for_ready"}}
                 \/ call[c] \in {Peer!Call("events", {r}) : r \in Requests}
          BY <1>0, <2>1 DEF Peer!Reads
        <4>2. call[c] \notin {Peer!Call(n, {}) : n \in {"idle", "health", "wait_for_ready"}}
          BY <4>1 DEF Peer!Call
        <4>3. PICK r \in Requests : call[c] = Peer!Call("events", {r})
          BY <4>1, <4>2
        <4> QED
          BY <4>3 DEF Peer!Call
      <3>6. submitter[r] = {c}
        BY <2>1, <3>5 DEF CallInv, Peer!Reads, Peer!Idle, Peer!Call
      <3>7. r \notin disturbed => r \in Peer!Outstanding
        BY <3>2, <3>4, <3>5, <3>6, ReadIsOutstanding
      <3>8. \A q \in Peer!Outstanding' \ disturbed' : q \in Peer!Outstanding \ disturbed
        BY <3>2, <3>3, <3>5, <3>7 DEF Peer!Outstanding, Peer!Answered, Peer!Last
      <3>9. \A d \in Clients : call'[d] \in {call[d], Peer!Idle}
        BY <1>0, <3>1
      <3>10. Peer!Open' = Peer!Open
        BY <3>2 DEF Peer!Open
      <3>11. \A q \in Peer!Outstanding : submitter[q] \subseteq Clients
        BY <1>0 DEF Peer!Outstanding
      <3> QED
        BY <3>2, <3>8, <3>9, <3>10, <3>11 DEF AloneInv
    <2> QED
      BY <1>7, <2>2, <2>3 DEF Peer!ReadEvents
  <1>8. ASSUME NEW c \in Clients,
               Peer!Connect(c) \/ Peer!Close(c) \/ Peer!Health(c) \/ Peer!WaitForReady(c)
        PROVE  UNCHANGED <<submitter, got>> /\ Peer!Disturbing(Peer!Outstanding)
    BY <1>8 DEF Peer!Connect, Peer!Close, Peer!Health, Peer!WaitForReady, Peer!pipes
  <1>9. ASSUME NEW c \in Clients, Peer!ReadHealth(c) \/ Peer!ReadReady(c) \/ Peer!Again(c)
        PROVE  /\ call' = call \/ call' = [call EXCEPT ![c] = Peer!Idle]
               /\ UNCHANGED <<link, submitter, disturbed>> /\ UNCHANGED got
    BY <1>9 DEF Peer!ReadHealth, Peer!ReadReady, Peer!Again, Peer!Reads, Peer!Enter, Peer!Idle
  <1> QED
    BY <1>1, <1>2, <1>3, <1>4, <1>5, <1>6, <1>7, <1>8, <1>9 DEF Peer!Next,
       Peer!ClientNext, Peer!vars, Peer!pipes, Peer!ShutdownWorker, Peer!PollInVain,
       Peer!Flush, Peer!Handle, Peer!Work, Peer!Announce

(* The first item of a queue moves to the end of the one before it.        *)
LEMMA FirstMoves ==
    ASSUME NEW S, NEW g \in Seq(S), NEW h \in Seq(S), NEW x \in S
    PROVE  g \o (<<x>> \o h) = Append(g, x) \o h
  <1>1. <<x>> \in Seq(S)
    OBVIOUS
  <1>2. g \o (<<x>> \o h) = (g \o <<x>>) \o h
    BY <1>1, ConcatAssociative
  <1>3. g \o <<x>> = Append(g, x)
    BY AppendIsConcat
  <1> QED
    BY <1>2, <1>3

(* An event that is emitted is the last of its request that is on the way, *)
(* if nobody but its client can be sent it.                                *)
LEMMA EmittedAbout ==
    ASSUME Peer!TypeOK, NEW event \in Peer!Events, Peer!Emitted(event),
           NEW q \in Requests, NEW d \in Clients, NEW g \in Seq(Peer!Events),
           event.of = {q} => Peer!Open \subseteq {d}
    PROVE  (g \o EventsAbout(q, inbox'[d])) \o EventsAbout(q, outbox') =
              IF event.of = {q}
              THEN Append((g \o EventsAbout(q, inbox[d])) \o EventsAbout(q, outbox), event)
              ELSE (g \o EventsAbout(q, inbox[d])) \o EventsAbout(q, outbox)
  <1>1. inbox \in [Clients -> Seq(Peer!Events)] /\ outbox \in Seq(Peer!Events)
    BY DEF Peer!TypeOK
  <1> DEFINE h == EventsAbout(q, inbox[d])
             k == EventsAbout(q, outbox)
  <1>2. h \in Seq(Peer!Events) /\ k \in Seq(Peer!Events)
    BY <1>1, AboutType
  <1>3. g \o h \in Seq(Peer!Events)
    BY <1>2, ConcatProperties
  <1>4. CASE outbox' = Append(outbox, event) /\ inbox' = inbox
    <2>1. EventsAbout(q, outbox') = IF event.of = {q} THEN Append(k, event) ELSE k
      BY <1>1, <1>4, AboutAppend
    <2>2. EventsAbout(q, inbox'[d]) = h
      BY <1>4
    <2> HIDE DEF h, k
    <2>3. (g \o h) \o Append(k, event) = Append((g \o h) \o k, event)
      BY <1>2, <1>3, ConcatAppend
    <2> QED
      BY <2>1, <2>2, <2>3 DEF h, k
  <1>5. ASSUME NEW c \in Peer!Attached, outbox = <<>>, outbox' = <<>>,
               inbox' = [inbox EXCEPT ![c] = Append(inbox[c], event)]
        PROVE  (g \o EventsAbout(q, inbox'[d])) \o EventsAbout(q, outbox') =
                  IF event.of = {q} THEN Append((g \o h) \o k, event) ELSE (g \o h) \o k
    <2>1. c \in Clients /\ c \in Peer!Open
      BY DEF Peer!Attached, Peer!Open
    <2>2. inbox'[d] = IF d = c THEN Append(inbox[c], event) ELSE inbox[d]
      BY <1>1, <1>5
    <2>3. EventsAbout(q, Append(inbox[c], event)) =
             IF event.of = {q} THEN Append(EventsAbout(q, inbox[c]), event)
             ELSE EventsAbout(q, inbox[c])
      BY <1>1, <2>1, AboutAppend
    <2>4. EventsAbout(q, inbox'[d]) = IF event.of = {q} THEN Append(h, event) ELSE h
      BY <2>1, <2>2, <2>3
    <2>5. EventsAbout(q, outbox') = k /\ k = <<>>
      BY <1>5, OnlyOfEmpty DEF EventsAbout
    <2> HIDE DEF h, k
    <2>6. g \o Append(h, event) = Append(g \o h, event)
      BY <1>2, ConcatAppend
    <2>7. (g \o h) \o <<>> = g \o h /\ Append(g \o h, event) \in Seq(Peer!Events)
      BY <1>3
    <2>8. Append(g \o h, event) \o <<>> = Append(g \o h, event)
      BY <2>7
    <2> QED
      BY <2>4, <2>5, <2>6, <2>7, <2>8
  <1> QED
    BY <1>4, <1>5, EmittedGoes

(* What was said of a request is what its caller got, then what its inbox  *)
(* holds, then what has still to be dealt out: reading, dealing and        *)
(* speaking move events along and keep their order.                        *)
LEMMA BalanceStep ==
    ASSUME ClientInv, [Peer!Next]_(Peer!vars)
    PROVE  BalanceInv'
  <1>0. /\ inbox \in [Clients -> Seq(Peer!Events)] /\ outbox \in Seq(Peer!Events)
        /\ told \in [Requests -> Seq(Peer!JobEvents)]
        /\ got \in [Requests -> Seq(Peer!Events)]
        /\ submitter \in [Requests -> {{}} \cup {{c} : c \in Clients}]
    BY DEF ClientInv, Peer!TypeOK
  <1>1. ASSUME NEW r \in Requests, NEW event \in Peer!JobEvents, Speaks(r, event)
        PROVE  BalanceInv'
    <2>1. UNCHANGED <<submitter, got, disturbed>>
      BY <1>1 DEF Speaks
    <2> SUFFICES ASSUME NEW q \in Requests \ disturbed, NEW d \in submitter[q]
                 PROVE  Balanced(q, d)'
      BY <2>1 DEF BalanceInv
    <2>2. event \in Peer!Events /\ event.of = {r} /\ Peer!Emitted(event)
      BY <1>1, SaidIsEvent DEF Speaks
    <2>3. d \in Clients /\ submitter[q] = {d} /\ Balanced(q, d)
      BY AnsweredIsAll DEF ClientInv, BalanceInv
    <2>4. event.of = {q} => Peer!Open \subseteq {d}
      <3>1. SUFFICES ASSUME q = r PROVE Peer!Open \subseteq {d}
        BY <2>2
      <3>2. ~Peer!Answered(told[r]) /\ submitter[r] # {}
        BY <1>1 DEF Speaks
      <3>3. ~Peer!Answered(got[r])
        BY <3>1, <3>2, AnsweredIsAll DEF ClientInv
      <3> QED
        BY <2>3, <3>1, <3>2, <3>3 DEF ClientInv, AloneInv, Peer!Outstanding
    <2>5. (got[q] \o EventsAbout(q, inbox'[d])) \o EventsAbout(q, outbox') =
             IF event.of = {q} THEN Append(told[q], event) ELSE told[q]
      <3> DEFINE g == got[q]
      <3>1. g \in Seq(Peer!Events) /\ Peer!TypeOK /\ q \in Requests /\ d \in Clients
        BY <1>0, <2>3 DEF ClientInv
      <3> HIDE DEF g
      <3>2. (g \o EventsAbout(q, inbox'[d])) \o EventsAbout(q, outbox') =
              IF event.of = {q}
              THEN Append((g \o EventsAbout(q, inbox[d])) \o EventsAbout(q, outbox), event)
              ELSE (g \o EventsAbout(q, inbox[d])) \o EventsAbout(q, outbox)
        BY <2>2, <2>4, <3>1, EmittedAbout
      <3> QED
        BY <2>3, <3>2 DEF Balanced, g
    <2>6. told'[q] = IF event.of = {q} THEN Append(told[q], event) ELSE told[q]
      BY <1>0, <1>1, <2>2 DEF Speaks
    <2> QED
      BY <2>1, <2>5, <2>6 DEF Balanced
  <1>2. ASSUME NEW event \in Peer!Events, Reports(event) PROVE BalanceInv'
    <2>1. UNCHANGED <<submitter, told, got, disturbed>>
      BY <1>2 DEF Reports
    <2> SUFFICES ASSUME NEW q \in Requests \ disturbed, NEW d \in submitter[q]
                 PROVE  Balanced(q, d)'
      BY <2>1 DEF BalanceInv
    <2>2. event.of # {q} /\ Peer!Emitted(event)
      BY <1>2 DEF Reports
    <2>3. d \in Clients /\ Balanced(q, d)
      BY AnsweredIsAll DEF ClientInv, BalanceInv
    <2>4. (got[q] \o EventsAbout(q, inbox'[d])) \o EventsAbout(q, outbox') = told[q]
      BY <1>0, <2>2, <2>3, EmittedAbout DEF ClientInv, Balanced
    <2> QED
      BY <2>1, <2>4 DEF Balanced
  <1>3. CASE Quiet
    BY <1>3 DEF Quiet, ClientInv, BalanceInv, Balanced
  <1>4. ASSUME NEW c \in Clients, Peer!Flush(c) PROVE BalanceInv'
    <2>1. /\ outbox # <<>> /\ outbox' = Tail(outbox) /\ c \in Peer!Open
          /\ inbox' = [inbox EXCEPT ![c] = Append(inbox[c], Head(outbox))]
          /\ UNCHANGED <<submitter, told, got, disturbed>>
      BY <1>4 DEF Peer!Flush, Peer!Attached, Peer!Open
    <2> DEFINE x == Head(outbox)
    <2>2. x \in Peer!Events /\ Tail(outbox) \in Seq(Peer!Events) /\ x \in Range(outbox)
      BY <1>0, <2>1, TailRange
    <2> SUFFICES ASSUME NEW q \in Requests \ disturbed, NEW d \in submitter[q]
                 PROVE  Balanced(q, d)'
      BY <2>1 DEF BalanceInv
    <2>3. d \in Clients /\ submitter[q] = {d} /\ Balanced(q, d)
      BY AnsweredIsAll DEF ClientInv, BalanceInv
    <2> DEFINE h == EventsAbout(q, inbox[d])
               k == EventsAbout(q, outbox)
               l == EventsAbout(q, Tail(outbox))
    <2>4. k = (IF x.of = {q} THEN <<x>> ELSE <<>>) \o l
      BY <1>0, <2>1, AboutTail
    <2>5. h \in Seq(Peer!Events) /\ k \in Seq(Peer!Events) /\ l \in Seq(Peer!Events)
      BY <1>0, <2>2, <2>3, AboutType
    <2>6. inbox'[d] = IF d = c THEN Append(inbox[c], x) ELSE inbox[d]
      BY <1>0, <2>1, <2>3
    <2>7. EventsAbout(q, Append(inbox[d], x)) = IF x.of = {q} THEN Append(h, x) ELSE h
      BY <1>0, <2>2, <2>3, AboutAppend
    <2>8. x.of = {q} => d = c
      <3>1. SUFFICES ASSUME x.of = {q} PROVE d = c
        OBVIOUS
      <3>2. k # <<>>
        BY <1>0, <2>2, <3>1, AboutType
      <3>3. q \in Peer!Outstanding
        BY <2>3, <3>2, AnsweredIsAll DEF ClientInv, Peer!Outstanding
      <3>4. Peer!Open = {d}
        BY <2>3, <3>3 DEF ClientInv, AloneInv
      <3> QED
        BY <2>1, <3>4
    <2>9. EventsAbout(q, inbox'[d]) = IF x.of = {q} THEN Append(h, x) ELSE h
      BY <2>6, <2>7, <2>8
    <2>10. told[q] = (got[q] \o h) \o k
      BY <2>3 DEF Balanced
    <2> HIDE DEF h, k, l, x
    <2>11. got[q] \in Seq(Peer!Events) /\ got[q] \o h \in Seq(Peer!Events)
      BY <1>0, <2>5, ConcatProperties
    <2>12. CASE x.of = {q}
      <3> DEFINE g == got[q]
                 all == g \o h
      <3>1. g \in Seq(Peer!Events) /\ all \in Seq(Peer!Events)
        BY <2>11
      <3>2. told[q] = all \o k
        BY <2>10
      <3> HIDE DEF g, all
      <3>3. all \o (<<x>> \o l) = Append(all, x) \o l
        BY <2>2, <2>5, <3>1, FirstMoves
      <3>4. g \o Append(h, x) = Append(g \o h, x)
        BY <2>2, <2>5, <3>1, ConcatAppend
      <3>5. told[q] = (got[q] \o Append(h, x)) \o l
        BY <2>4, <2>12, <3>2, <3>3, <3>4 DEF g, all
      <3> QED
        BY <2>1, <2>9, <2>12, <3>5 DEF Balanced, l
    <2>13. CASE x.of # {q}
      <3>1. k = l
        BY <2>4, <2>5, <2>13
      <3> QED
        BY <2>1, <2>9, <2>10, <2>13, <3>1 DEF Balanced, l
    <2> QED
      BY <2>12, <2>13
  <1>5. ASSUME NEW c \in Clients, Peer!Close(c) PROVE BalanceInv'
    <2>1. /\ inbox' = [inbox EXCEPT ![c] = <<>>]
          /\ UNCHANGED <<outbox, submitter, told, got>>
          /\ disturbed' = disturbed \cup Peer!Outstanding
      BY <1>5 DEF Peer!Close, Peer!Disturbing
    <2> SUFFICES ASSUME NEW q \in Requests \ disturbed, q \notin Peer!Outstanding,
                        NEW d \in submitter[q]
                 PROVE  Balanced(q, d)'
      BY <2>1 DEF BalanceInv
    <2>2. d \in Clients /\ Balanced(q, d)
      BY AnsweredIsAll DEF ClientInv, BalanceInv
    <2>3. EventsAbout(q, inbox[d]) = <<>>
      BY AnsweredIsAll DEF ClientInv, Peer!Outstanding
    <2>4. inbox'[d] \in {<<>>, inbox[d]}
      BY <1>0, <2>1, <2>2
    <2>5. EventsAbout(q, inbox'[d]) = <<>>
      BY <2>3, <2>4, OnlyOfEmpty DEF EventsAbout
    <2> QED
      BY <2>1, <2>2, <2>3, <2>5 DEF Balanced
  <1>6. ASSUME NEW c \in Clients, NEW r \in Requests, Peer!Submit(c, r) PROVE BalanceInv'
    <2>1. /\ submitter[r] = {} /\ UNCHANGED <<inbox, outbox, told, got>>
          /\ disturbed \subseteq disturbed'
      BY <1>6 DEF Peer!Submit, Peer!Disturbing
    <2>2. \A q \in Requests : submitter'[q] = IF q = r THEN {c} ELSE submitter[q]
      BY <1>0, <1>6 DEF Peer!Submit
    <2>3. told[r] = <<>> /\ got[r] = <<>>
      BY <2>1 DEF ClientInv, ToldInv
    <2>4. EventsAbout(r, inbox[c]) = <<>> /\ EventsAbout(r, outbox) = <<>>
      <3>1. /\ \A x \in Range(inbox[c]) : x.of # {r}
            /\ \A x \in Range(outbox) : x.of # {r}
        BY <2>3 DEF ClientInv, PipeInv, WasTold
      <3> QED
        BY <1>0, <3>1, AboutType
    <2>5. Balanced(r, c)
      BY <2>3, <2>4 DEF Balanced
    <2> QED
      BY <2>1, <2>2, <2>5 DEF ClientInv, BalanceInv, Balanced
  <1>7. ASSUME NEW c \in Clients, NEW name, Peer!Reads(c, name),
               NEW q \in Requests \ disturbed, NEW d \in submitter[q],
               d # c \/ Head(inbox[c]).of # {q}
        PROVE  EventsAbout(q, inbox'[d]) = EventsAbout(q, inbox[d])
    <2>1. d \in Clients
      BY AnsweredIsAll DEF ClientInv
    <2>2. inbox[c] # <<>> /\ inbox'[d] = IF d = c THEN Tail(inbox[c]) ELSE inbox[d]
      BY <1>0, <1>7, <2>1 DEF Peer!Reads
    <2>3. CASE d = c
      <3>1. EventsAbout(q, inbox[c]) = <<>> \o EventsAbout(q, Tail(inbox[c]))
        BY <1>0, <1>7, <2>2, <2>3, AboutTail
      <3>2. EventsAbout(q, Tail(inbox[c])) \in Seq(Peer!Events)
        BY <1>0, <2>2, TailRange, AboutType
      <3> QED
        BY <2>2, <2>3, <3>1, <3>2
    <2> QED
      BY <2>2, <2>3
  <1>8. ASSUME NEW c \in Clients, Peer!ReadHealth(c) \/ Peer!ReadReady(c) PROVE BalanceInv'
    <2>1. PICK name \in {"health", "wait_for_ready"} : Peer!Reads(c, name)
      BY <1>8 DEF Peer!ReadHealth, Peer!ReadReady
    <2>2. /\ UNCHANGED <<outbox, submitter, told, disturbed>> /\ got' = got
          /\ call[c].name = name /\ inbox[c] # <<>>
      BY <1>8, <2>1 DEF Peer!ReadHealth, Peer!ReadReady, Peer!Reads
    <2> SUFFICES ASSUME NEW q \in Requests \ disturbed, NEW d \in submitter[q]
                 PROVE  Balanced(q, d)'
      BY <2>2 DEF BalanceInv
    <2>3. d # c \/ Head(inbox[c]).of # {q}
      <3>1. SUFFICES ASSUME d = c, Head(inbox[c]).of = {q} PROVE FALSE
        OBVIOUS
      <3>2. q \in Peer!Outstanding
        BY <2>2, <3>1, ReadIsOutstanding DEF ClientInv
      <3>3. call[c] \in {Peer!Idle, Peer!Call("events", {q})}
        BY <3>1, <3>2 DEF ClientInv, AloneInv
      <3> QED
        BY <2>2, <3>3 DEF Peer!Idle, Peer!Call
    <2>4. EventsAbout(q, inbox'[d]) = EventsAbout(q, inbox[d])
      BY <1>7, <2>1, <2>3
    <2> QED
      BY <2>2, <2>4 DEF ClientInv, BalanceInv, Balanced
  <1>9. ASSUME NEW c \in Clients, Peer!ReadEvents(c) PROVE BalanceInv'
    <2> DEFINE x == Head(inbox[c])
    <2>1. Peer!Reads(c, "events")
      BY <1>9 DEF Peer!ReadEvents
    <2>2. /\ UNCHANGED <<outbox, submitter, told, disturbed>>
          /\ call[c].name = "events" /\ inbox[c] # <<>>
      BY <2>1 DEF Peer!Reads
    <2>3. x \in Peer!Events
      BY <1>0, <2>2, TailRange
    <2>4. \A q \in call[c].of : submitter[q] = {c}
      BY <2>2 DEF ClientInv, CallInv, Peer!Idle, Peer!Call
    <2> SUFFICES ASSUME NEW q \in Requests \ disturbed, NEW d \in submitter[q]
                 PROVE  Balanced(q, d)'
      BY <2>2 DEF BalanceInv
    <2>5. submitter[q] = {d} /\ d \in Clients /\ Balanced(q, d)
      BY AnsweredIsAll DEF ClientInv, BalanceInv
    <2>6. got'[q] = IF ~Peer!Skips(x, call[c].of) /\ q \in call[c].of
                    THEN Append(got[q], x) ELSE got[q]
      BY <1>9 DEF Peer!ReadEvents
    <2>7. CASE d = c /\ x.of = {q}
      <3>1. q \in Peer!Outstanding
        BY <2>2, <2>7, ReadIsOutstanding DEF ClientInv
      <3>2. call[c] = Peer!Call("events", {q})
        <4>1. call[c] \in {Peer!Idle, Peer!Call("events", {q})}
          BY <2>7, <3>1 DEF ClientInv, AloneInv
        <4>2. Peer!Idle.name # "events"
          BY DEF Peer!Idle, Peer!Call
        <4> QED
          BY <2>2, <4>1, <4>2
      <3>3. call[c].of = {q}
        BY <3>2 DEF Peer!Call
      <3>4. x.kind \notin {"ready", "health"}
        BY <2>3, <2>7 DEF Peer!Events, Peer!JobEvents, Peer!Report
      <3>5. got'[q] = Append(got[q], x)
        BY <2>6, <2>7, <3>3, <3>4 DEF Peer!Skips
      <3> DEFINE h == EventsAbout(q, Tail(inbox[c]))
                 k == EventsAbout(q, outbox)
      <3>6. EventsAbout(q, inbox[c]) = <<x>> \o h
        BY <1>0, <2>2, <2>7, AboutTail
      <3>7. inbox'[d] = Tail(inbox[c])
        BY <1>0, <2>1, <2>5, <2>7 DEF Peer!Reads
      <3>8. h \in Seq(Peer!Events) /\ got[q] \in Seq(Peer!Events)
        BY <1>0, <2>2, TailRange, AboutType
      <3>9. told[q] = (got[q] \o (<<x>> \o h)) \o k
        BY <2>5, <2>7, <3>6 DEF Balanced
      <3> HIDE DEF h, k, x
      <3> DEFINE g == got[q]
      <3>10. g \in Seq(Peer!Events)
        BY <3>8
      <3> HIDE DEF g
      <3>11. g \o (<<x>> \o h) = Append(g, x) \o h
        BY <2>3, <3>8, <3>10, FirstMoves
      <3> QED
        BY <2>2, <3>5, <3>7, <3>9, <3>11 DEF Balanced, g, h, k
    <2>8. CASE d # c \/ x.of # {q}
      <3>1. EventsAbout(q, inbox'[d]) = EventsAbout(q, inbox[d])
        BY <1>7, <2>1, <2>8
      <3>2. got'[q] = got[q]
        <4>1. CASE d # c
          <5>1. q \notin call[c].of
            BY <2>4, <2>5, <4>1
          <5> QED
            BY <2>6, <5>1
        <4>2. CASE x.of # {q}
          <5>1. q \in call[c].of => call[c].of = {q}
            <6>1. \/ call[c] \in {Peer!Call(n, {}) : n \in {"idle", "health", "wait_for_ready"}}
                  \/ call[c] \in {Peer!Call("events", {r}) : r \in Requests}
              BY DEF ClientInv, Peer!TypeOK
            <6> QED
              BY <6>1 DEF Peer!Call
          <5> QED
            BY <2>6, <4>2, <5>1 DEF Peer!Skips
        <4> QED
          BY <2>8, <4>1, <4>2
      <3> QED
        BY <2>2, <2>5, <3>1, <3>2 DEF Balanced
    <2> QED
      BY <2>7, <2>8
  <1> QED
    BY <1>1, <1>2, <1>3, <1>4, <1>5, <1>6, <1>8, <1>9, WhatHappens DEF ClientInv

(* Every step keeps the conjuncts together.                                *)
LEMMA ClientStep ==
    ASSUME Peer!ClientAssumption, ClientInv, [Peer!Next]_(Peer!vars)
    PROVE  ClientInv'
  <1>1. Peer!TypeOK'
    BY ClientTypeStep DEF ClientInv
  <1>2. AskInv'
    BY AskStep DEF ClientInv
  <1>3. ToldInv'
    BY ToldStep DEF ClientInv
  <1>4. PipeInv'
    BY PipeStep DEF ClientInv
  <1>5. CallInv'
    BY CallStep DEF ClientInv
  <1>6. AloneInv'
    BY AloneStep DEF ClientInv
  <1>7. BalanceInv'
    BY BalanceStep
  <1> QED
    BY <1>1, <1>2, <1>3, <1>4, <1>5, <1>6, <1>7 DEF ClientInv

(* A caller that got the answer has got all that was said.                 *)
LEMMA ClientKeeps == ClientInv => Peer!ForecastIsComplete
  BY AboutIsEventsOf DEF ClientInv, BalanceInv, Balanced, Peer!ForecastIsComplete

-----------------------------------------------------------------------------
(* The layers of the backbone                                              *)

(* One step of the definition of AllRes                                    *)
HalvesAt(all, i) == all[i] = IF i = 1 THEN patches ELSE Swin!Halved(all[i - 1])
IsAllRes(all, m) ==
    all = [i \in 1 .. m |-> IF i = 1 THEN patches ELSE Swin!Halved(all[i - 1])]

(* The recursive function that get_encoder_specs computes exists.          *)
LEMMA AllResExists ==
    ASSUME NEW m \in Nat
    PROVE  \E all : IsAllRes(all, m)
  <1> DEFINE Bad == {n \in Nat : ~ \E all : IsAllRes(all, n)}
  <1>1. SUFFICES ASSUME Bad # {} PROVE FALSE
    OBVIOUS
  <1>2. Bad \in SUBSET Nat
    OBVIOUS
  <1> HIDE DEF Bad
  <1>3. PICK n \in Bad : \A k \in Nat : k < n => k \notin Bad
    BY <1>1, <1>2, SmallestNumber
  <1> USE DEF Bad
  <1>4. n # 0
    <2> DEFINE none == [i \in 1 .. 0 |-> patches]
    <2>1. IsAllRes(none, 0)
      BY DEF IsAllRes
    <2> QED
      BY <2>1, <1>3
  <1>5. n - 1 \in Nat /\ n - 1 < n
    BY <1>4
  <1>6. PICK all : IsAllRes(all, n - 1)
    BY <1>3, <1>5
  <1> DEFINE more == [i \in 1 .. n |->
                        IF i < n THEN all[i]
                        ELSE IF i = 1 THEN patches ELSE Swin!Halved(all[i - 1])]
  <1>7. IsAllRes(more, n)
    <2>1. \A i \in 1 .. n - 1 : more[i] = all[i]
      BY <1>5
    <2>2. \A i \in 1 .. n : i # 1 => i - 1 \in 1 .. n - 1
      BY <1>5
    <2>3. \A i \in 1 .. n - 1 : HalvesAt(all, i)
      BY <1>6 DEF IsAllRes, HalvesAt
    <2>4. \A i \in 1 .. n - 1 : HalvesAt(more, i)
      BY <2>1, <2>2, <2>3 DEF HalvesAt
    <2>5. HalvesAt(more, n)
      BY <1>4, <1>5, <2>1, <2>2 DEF HalvesAt
    <2>6. \A i \in 1 .. n : i \in 1 .. n - 1 \/ i = n
      BY <1>5
    <2>7. \A i \in 1 .. n : HalvesAt(more, i)
      BY <2>4, <2>5, <2>6
    <2>8. more = [i \in 1 .. n |-> more[i]]
      OBVIOUS
    <2> HIDE DEF more
    <2> QED
      BY <2>7, <2>8 DEF HalvesAt, IsAllRes
  <1> QED
    BY <1>3, <1>7

(* A halved image is one, and splitting leads back to the image that was   *)
(* halved, whether its sides were odd or even.                             *)
LEMMA HalvedAndSplit ==
    ASSUME NEW x \in Swin!Shapes
    PROVE  /\ Swin!Halved(x) \in Swin!Shapes
           /\ Swin!Split(Swin!Halved(x), <<0, x[2] % 2, x[3] % 2>>) = x
  <1>1. /\ x[1] \in Nat \ {0} /\ x[2] \in Nat \ {0} /\ x[3] \in Nat \ {0}
        /\ x = [i \in 1 .. 3 |-> x[i]]
    BY DEF Swin!Shapes, Swin!Axes
  <1>2. (x[2] + 1) \div 2 \in Nat \ {0} /\ (x[3] + 1) \div 2 \in Nat \ {0}
    BY <1>1
  <1>3. Swin!Halved(x) \in Swin!Shapes
    BY <1>1, <1>2 DEF Swin!Halved, Swin!Shapes, Swin!Axes
  <1>4. /\ 2 * ((x[2] + 1) \div 2) - (x[2] % 2) = x[2]
        /\ 2 * ((x[3] + 1) \div 2) - (x[3] % 2) = x[3]
    BY <1>1
  <1> DEFINE y == Swin!Split(Swin!Halved(x), <<0, x[2] % 2, x[3] % 2>>)
  <1>5. y = [i \in 1 .. 3 |-> <<x[1], 2 * ((x[2] + 1) \div 2), 2 * ((x[3] + 1) \div 2)>>[i]
                             - <<0, x[2] % 2, x[3] % 2>>[i]]
    BY DEF Swin!Split, Swin!Halved, Swin!Minus, Swin!Axes
  <1>6. y[1] = x[1] /\ y[2] = x[2] /\ y[3] = x[3]
    BY <1>1, <1>4, <1>5
  <1>7. y = [i \in 1 .. 3 |-> y[i]]
    BY <1>5
  <1> HIDE DEF y
  <1>8. \A i \in 1 .. 3 : y[i] = x[i]
    BY <1>6
  <1>9. y = x
    BY <1>1, <1>7, <1>8
  <1> QED
    BY <1>3, <1>9 DEF y

(* What the recursive definition of AllRes comes to                        *)
LEMMA AllResSteps ==
    ASSUME Swin!BackboneAssumption, patches \in Resolutions
    PROVE  /\ Swin!AllRes[1] = patches
           /\ \A i \in 1 .. Layers - 1 : Swin!AllRes[i + 1] = Swin!Halved(Swin!AllRes[i])
           /\ \A i \in 1 .. Layers : Swin!AllRes[i] \in Swin!Shapes
  <1>0. Layers \in Nat \ {0} /\ patches \in Swin!Shapes
    BY DEF Swin!BackboneAssumption
  <1>1. Swin!AllRes = CHOOSE all : IsAllRes(all, Layers)
    BY DEF Swin!AllRes, IsAllRes
  <1>2. IsAllRes(Swin!AllRes, Layers)
    BY <1>0, <1>1, AllResExists
  <1> DEFINE all == Swin!AllRes
  <1> HIDE DEF all
  <1>3. \A i \in 1 .. Layers : all[i] = IF i = 1 THEN patches ELSE Swin!Halved(all[i - 1])
    BY <1>2 DEF IsAllRes, all
  <1>4. all[1] = patches
    BY <1>0, <1>3
  <1>5. ASSUME NEW i \in 1 .. Layers - 1 PROVE all[i + 1] = Swin!Halved(all[i])
    <2>1. i + 1 \in 1 .. Layers /\ i + 1 # 1 /\ (i + 1) - 1 = i
      BY <1>0
    <2> QED
      BY <1>3, <2>1
  <1>6. \A i \in 1 .. Layers : all[i] \in Swin!Shapes
    <2> DEFINE Bad == {n \in Nat : n \in 1 .. Layers /\ all[n] \notin Swin!Shapes}
    <2>1. SUFFICES ASSUME Bad # {} PROVE FALSE
      BY <1>0
    <2>2. Bad \in SUBSET Nat
      OBVIOUS
    <2> HIDE DEF Bad
    <2>3. PICK n \in Bad : \A k \in Nat : k < n => k \notin Bad
      BY <2>1, <2>2, SmallestNumber
    <2> USE DEF Bad
    <2>4. n \in 1 .. Layers /\ n # 1
      BY <1>0, <1>4
    <2>5. n - 1 \in 1 .. Layers - 1 /\ n - 1 \in Nat /\ n - 1 < n
      BY <1>0, <2>4
    <2>6. all[n - 1] \in Swin!Shapes
      BY <1>0, <2>3, <2>5
    <2>7. all[n] = Swin!Halved(all[n - 1])
      BY <1>3, <2>4
    <2> QED
      BY <2>6, <2>7, HalvedAndSplit
  <1> QED
    BY <1>4, <1>5, <1>6 DEF all

(* The encoder leaves the image and the context of every level, and the    *)
(* decoder is at the image of its level.                                   *)
ContextOf(i) == IF stochastic THEN Swin!AllRes[i] ELSE <<>>
SwinInv ==
    /\ Swin!TypeOK
    /\ Len(skips) = IF layer < Layers THEN layer ELSE Layers
    /\ Len(saved) = Len(skips)
    /\ \A i \in 1 .. Len(skips) : skips[i] = Swin!AllRes[i] /\ saved[i] = ContextOf(i)
    /\ layer < 2 * Layers => /\ res = Swin!AllRes[Swin!Index]
                             /\ context = ContextOf(Swin!Index)
    /\ layer = 2 * Layers => res = patches

(* Before the first layer the tokens have the shape of the patches.        *)
LEMMA SwinInit == Swin!BackboneAssumption /\ Swin!Init => SwinInv
  <1> SUFFICES ASSUME Swin!BackboneAssumption, Swin!Init PROVE SwinInv
    OBVIOUS
  <1>1. Layers \in Nat \ {0} /\ patches \in Swin!Shapes /\ patches \in Resolutions
    BY DEF Swin!BackboneAssumption, Swin!Init
  <1>2. Swin!Index = 1
    BY <1>1 DEF Swin!Index, Swin!Encoders, Swin!Init
  <1>3. Swin!AllRes[1] = patches
    BY <1>1, AllResSteps
  <1>4. Len(<<>>) = 0 /\ \A S : <<>> \in Seq(S)
    OBVIOUS
  <1>5. Swin!TypeOK
    BY <1>1, <1>4 DEF Swin!Init, Swin!TypeOK
  <1> QED
    BY <1>1, <1>2, <1>3, <1>4, <1>5 DEF Swin!Init, SwinInv, ContextOf

(* AllRes does not change.                                                 *)
LEMMA AllResStays ==
    ASSUME UNCHANGED patches
    PROVE  Swin!AllRes' = Swin!AllRes
  BY DEF Swin!AllRes

(* An encoder layer leaves the shape of its level, a decoder layer returns *)
(* to the one of the level above: splitting undoes merging.                *)
LEMMA SwinStep ==
    ASSUME Swin!BackboneAssumption, SwinInv, [Swin!Next]_(Swin!vars)
    PROVE  SwinInv'
  <1>0. /\ Layers \in Nat \ {0} /\ layer \in 0 .. 2 * Layers /\ patches \in Resolutions
        /\ skips \in Seq(Swin!Shapes) /\ saved \in Seq(Swin!Shapes \cup {<<>>})
        /\ res \in Swin!Shapes /\ context \in Swin!Shapes \cup {<<>>}
    BY DEF Swin!BackboneAssumption, SwinInv, Swin!TypeOK
  <1> DEFINE all == Swin!AllRes
  <1>1. /\ all[1] = patches
        /\ \A i \in 1 .. Layers - 1 : all[i + 1] = Swin!Halved(all[i])
        /\ \A i \in 1 .. Layers : all[i] \in Swin!Shapes
    BY <1>0, AllResSteps
  <1>2. CASE UNCHANGED Swin!vars
    <2>1. Swin!AllRes' = Swin!AllRes
      BY <1>2, AllResStays DEF Swin!vars
    <2> QED
      BY <1>2, <2>1 DEF SwinInv, Swin!TypeOK, Swin!vars, ContextOf, Swin!Index, Swin!Encoders
  <1>3. CASE Swin!EncoderLayer
    <2>1. /\ layer < Layers /\ layer' = layer + 1
          /\ skips' = Append(skips, res) /\ saved' = Append(saved, context)
          /\ UNCHANGED <<stochastic, patches>>
      BY <1>3 DEF Swin!EncoderLayer, Swin!Encoders
    <2>2. Swin!AllRes' = all
      BY <2>1, AllResStays
    <2>3. Swin!Index = layer + 1
      BY <2>1 DEF Swin!Index, Swin!Encoders
    <2>4. Len(skips) = layer /\ Len(saved) = layer
          /\ res = all[layer + 1] /\ context = ContextOf(layer + 1)
      BY <1>0, <2>1, <2>3 DEF SwinInv
    <2>5. /\ skips' \in Seq(Swin!Shapes) /\ saved' \in Seq(Swin!Shapes \cup {<<>>})
          /\ Len(skips') = layer + 1 /\ Len(saved') = layer + 1
          /\ \A i \in 1 .. layer : skips'[i] = skips[i] /\ saved'[i] = saved[i]
          /\ skips'[layer + 1] = res /\ saved'[layer + 1] = context
      BY <1>0, <2>1, <2>4, AppendProperties
    <2>6. \A i \in 1 .. layer + 1 : i \in 1 .. layer \/ i = layer + 1
      BY <1>0
    <2>7. \A i \in 1 .. Len(skips') : skips'[i] = all[i] /\ saved'[i] = ContextOf(i)
      BY <2>4, <2>5, <2>6 DEF SwinInv
    <2>8. \A i : ContextOf(i)' = ContextOf(i)
      BY <2>1, <2>2 DEF ContextOf
    <2> HIDE DEF all
    <2>9. CASE layer + 1 < Layers
      <3>1. res' = Swin!Halved(res) /\
            context' = IF stochastic THEN Swin!Halved(context) ELSE context
        BY <1>3, <2>3, <2>9 DEF Swin!EncoderLayer
      <3>2. layer + 1 \in 1 .. Layers - 1 /\ (layer + 1) + 1 \in 1 .. Layers
        BY <1>0, <2>9
      <3>3. Swin!Index' = (layer + 1) + 1 /\ layer' < 2 * Layers /\ layer' # 2 * Layers
        BY <1>0, <2>1, <2>9 DEF Swin!Index, Swin!Encoders
      <3>4. res' = all[(layer + 1) + 1]
        BY <1>1, <2>4, <3>1, <3>2
      <3>5. context' = ContextOf((layer + 1) + 1)
        BY <1>1, <2>4, <3>1, <3>2 DEF ContextOf, all
      <3>6. res' \in Swin!Shapes /\ context' \in Swin!Shapes \cup {<<>>}
        BY <1>1, <3>2, <3>4, <3>5 DEF ContextOf, all
      <3>7. Swin!TypeOK'
        BY <1>0, <2>1, <2>5, <2>9, <3>6 DEF SwinInv, Swin!TypeOK
      <3> QED
        BY <1>0, <2>1, <2>2, <2>5, <2>7, <2>8, <2>9, <3>3, <3>4, <3>5, <3>7 DEF SwinInv
    <2>10. CASE layer + 1 = Layers
      <3>1. UNCHANGED <<res, context>>
        BY <1>0, <1>3, <2>3, <2>10 DEF Swin!EncoderLayer
      <3>2. Swin!Index' = layer + 1 /\ layer' < 2 * Layers /\ layer' # 2 * Layers
        BY <1>0, <2>1, <2>10 DEF Swin!Index, Swin!Encoders
      <3>3. Swin!TypeOK'
        BY <1>0, <2>1, <2>5, <2>10, <3>1 DEF SwinInv, Swin!TypeOK
      <3> QED
        BY <1>0, <2>1, <2>2, <2>4, <2>5, <2>7, <2>8, <2>10, <3>1, <3>2, <3>3 DEF SwinInv
    <2> QED
      BY <1>0, <2>1, <2>9, <2>10
  <1>4. CASE Swin!DecoderLayer
    <2>1. /\ layer \in Layers .. 2 * Layers - 1 /\ layer' = layer + 1
          /\ UNCHANGED <<stochastic, patches, skips, saved>>
      BY <1>4 DEF Swin!DecoderLayer
    <2>2. Swin!AllRes' = all
      BY <2>1, AllResStays
    <2>3. Swin!Index = 2 * Layers - layer /\ Swin!Index \in 1 .. Layers
      BY <1>0, <2>1 DEF Swin!Index, Swin!Encoders
    <2> DEFINE i == 2 * Layers - layer
    <2>4. Len(skips) = Layers /\ Len(saved) = Layers /\ res = all[i]
      BY <1>0, <2>1, <2>3 DEF SwinInv
    <2>5. \A j : ContextOf(j)' = ContextOf(j)
      BY <2>1, <2>2 DEF ContextOf
    <2>6. layer' \in Layers .. 2 * Layers /\ ~(layer' < Layers) /\ layer' \in 0 .. 2 * Layers
      BY <1>0, <2>1
    <2>7. \A j \in 1 .. Layers : skips[j] = all[j] /\ saved[j] = ContextOf(j)
      BY <2>4 DEF SwinInv
    <2>8. \A j \in 1 .. Layers : ContextOf(j) \in Swin!Shapes \cup {<<>>}
      BY <1>1 DEF ContextOf
    <2> HIDE DEF all
    <2>9. CASE i > 1
      <3>1. i - 1 \in 1 .. Layers - 1 /\ i - 1 \in 1 .. Layers /\ (i - 1) + 1 = i
        BY <1>0, <2>3, <2>9
      <3>2. all[i - 1] \in Swin!Shapes /\ all[i] = Swin!Halved(all[i - 1])
        BY <1>1, <3>1
      <3>3. Swin!PaddedOuts(all, i - 1) = <<0, all[i - 1][2] % 2, all[i - 1][3] % 2>>
        BY <3>1 DEF Swin!PaddedOuts
      <3>4. res' = Swin!Split(res, Swin!PaddedOuts(all, i - 1)) /\ context' = saved[i - 1]
        BY <1>4, <2>3, <2>9 DEF Swin!DecoderLayer, all
      <3>5. res' = all[i - 1]
        BY <2>4, <3>2, <3>3, <3>4, HalvedAndSplit
      <3>6. Swin!Index' = i - 1 /\ layer' # 2 * Layers
        BY <1>0, <2>1, <2>9 DEF Swin!Index, Swin!Encoders
      <3>7. context' = ContextOf(i - 1) /\ context' \in Swin!Shapes \cup {<<>>}
        BY <2>7, <2>8, <3>1, <3>4
      <3>8. Swin!TypeOK'
        BY <1>0, <2>1, <2>6, <3>2, <3>5, <3>7 DEF SwinInv, Swin!TypeOK
      <3> HIDE DEF i
      <3> QED
        BY <1>0, <2>1, <2>2, <2>4, <2>5, <2>6, <2>7, <3>5, <3>6, <3>7, <3>8 DEF SwinInv
    <2>10. CASE i = 1
      <3>1. res' = res /\ context' = saved[Layers] /\ layer' = 2 * Layers
        BY <1>0, <1>4, <2>1, <2>3, <2>10 DEF Swin!DecoderLayer
      <3>2. context' \in Swin!Shapes \cup {<<>>}
        BY <1>0, <2>7, <2>8, <3>1
      <3>3. res' = patches
        BY <1>1, <2>4, <2>10, <3>1
      <3>4. Swin!TypeOK'
        BY <1>0, <2>1, <2>6, <3>1, <3>2 DEF SwinInv, Swin!TypeOK
      <3> QED
        BY <1>0, <2>1, <2>2, <2>4, <2>5, <2>6, <2>7, <3>1, <3>3, <3>4 DEF SwinInv
    <2> QED
      BY <2>3, <2>9, <2>10
  <1> QED
    BY <1>2, <1>3, <1>4 DEF Swin!Next

(* What is left on a level is what the decoder layer of that level meets.  *)
LEMMA SwinKeeps ==
    ASSUME Swin!BackboneAssumption, SwinInv
    PROVE  Swin!LayersMeet
  <1>1. ASSUME layer >= Layers, layer < 2 * Layers
        PROVE  res = skips[Swin!Index] /\ context \in {<<>>, res}
    <2>1. Swin!Index \in 1 .. Layers /\ Len(skips) = Layers
      BY <1>1 DEF Swin!BackboneAssumption, SwinInv, Swin!TypeOK, Swin!Index, Swin!Encoders
    <2> QED
      BY <1>1, <2>1 DEF SwinInv, ContextOf
  <1> QED
    BY <1>1 DEF SwinInv, Swin!LayersMeet

-----------------------------------------------------------------------------
(* Windows of the backbone: quotients and remainders                       *)

(* What division by b leaves is less than b,                               *)
LEMMA DivMod ==
    ASSUME NEW a \in Int, NEW b \in Nat \ {0}
    PROVE  /\ a \div b \in Int /\ a % b \in 0 .. b - 1
           /\ a = b * (a \div b) + (a % b)
  OBVIOUS

(* and no other quotient and remainder make the same number.               *)
LEMMA DivUnique ==
    ASSUME NEW b \in Nat \ {0}, NEW q \in Int, NEW r \in 0 .. b - 1
    PROVE  (b * q + r) \div b = q /\ (b * q + r) % b = r
  OBVIOUS

(* Multiples of b are b apart.                                             *)
LEMMA TimesLess ==
    ASSUME NEW b \in Nat \ {0}, NEW x \in Int, NEW y \in Int, x < y
    PROVE  b * x + b <= b * y
  OBVIOUS

(* Products of integers are integers, in either order.                     *)
LEMMA TimesInt ==
    ASSUME NEW b \in Int, NEW x \in Int
    PROVE  b * x \in Int /\ b * x = x * b
  OBVIOUS

(* A positive multiple is no less.                                         *)
LEMMA TimesNat ==
    ASSUME NEW b \in Nat \ {0}, NEW x \in Nat
    PROVE  b * x \in Nat /\ b * x >= x
  OBVIOUS

(* What is within c blocks of b is in one of them, at a place of it,       *)
LEMMA DivWithin ==
    ASSUME NEW b \in Nat \ {0}, NEW c \in Nat \ {0}, NEW n \in 0 .. b * c - 1
    PROVE  n \div b \in 0 .. c - 1 /\ n % b \in 0 .. b - 1 /\ n = b * (n \div b) + (n % b)
  <1> DEFINE q == n \div b
             r == n % b
  <1>0. b * c \in Int
    BY TimesInt
  <1>1. q \in Int /\ r \in 0 .. b - 1 /\ n = b * q + r
    BY <1>0, DivMod
  <1>2. b * q \in Int /\ b * (-1) = -b /\ b * 0 = 0
    BY <1>1, TimesInt
  <1> HIDE DEF q, r
  <1>3. ~(q < 0)
    <2> SUFFICES ASSUME q < 0 PROVE FALSE
      OBVIOUS
    <2>1. b * q + b <= b * 0
      BY <1>1, TimesLess
    <2> QED
      BY <1>0, <1>1, <1>2, <2>1
  <1>4. ~(c - 1 < q)
    <2> SUFFICES ASSUME c - 1 < q PROVE FALSE
      OBVIOUS
    <2>1. b * (c - 1) + b <= b * q
      BY <1>1, TimesLess
    <2>2. b * (c - 1) + b = b * c
      OBVIOUS
    <2> QED
      BY <1>0, <1>1, <1>2, <2>1, <2>2
  <1>5. q \in 0 .. c - 1
    BY <1>1, <1>3, <1>4
  <1> QED
    BY <1>1, <1>5 DEF q, r

(* and a place of a block is within the blocks.                            *)
LEMMA BlockWithin ==
    ASSUME NEW b \in Nat \ {0}, NEW c \in Nat \ {0}, NEW q \in 0 .. c - 1, NEW r \in 0 .. b - 1
    PROVE  /\ b * q + r \in 0 .. b * c - 1
           /\ (b * q + r) \div b = q /\ (b * q + r) % b = r
  <1>1. b * q \in Nat /\ b * c \in Int
    BY TimesNat, TimesInt
  <1>2. b * q + b <= b * c
    BY TimesLess
  <1> QED
    BY <1>1, <1>2, DivUnique

(* Place <<x, y, z>> of a shape <<a, b, c>> has a number of its own.       *)
Counted(a, b, c, x, y, z) ==
    LET n == (x * b + y) * c + z
    IN  /\ n \in 0 .. a * b * c - 1
        /\ n \div (b * c) = x /\ (n \div c) % b = y /\ n % c = z

(* It is one of the numbers of the shape.                                  *)
LEMMA NumberWithin ==
    ASSUME NEW a \in Nat \ {0}, NEW b \in Nat \ {0}, NEW c \in Nat \ {0},
           NEW x \in 0 .. a - 1, NEW y \in 0 .. b - 1, NEW z \in 0 .. c - 1
    PROVE  Counted(a, b, c, x, y, z)
  <1> DEFINE m == b * x + y
             n == c * m + z
             d == b * c
             e1 == c * y + z
  <1>1. m \in 0 .. b * a - 1 /\ m % b = y
    BY BlockWithin
  <1>2. b * a \in Nat \ {0}
    BY TimesNat
  <1> HIDE DEF m
  <1>3. n \in 0 .. c * (b * a) - 1 /\ n \div c = m /\ n % c = z
    BY <1>1, <1>2, BlockWithin
  <1>4. e1 \in 0 .. c * b - 1 /\ d = c * b /\ d \in Nat \ {0}
    BY BlockWithin, TimesNat, TimesInt
  <1>5. n = d * x + e1
    BY DEF m
  <1> HIDE DEF d, e1, n
  <1>6. n \div d = x
    BY <1>4, <1>5, DivUnique
  <1>7. (x * b + y) * c + z = n /\ a * b * c = c * (b * a)
    BY DEF n, m
  <1> QED
    BY <1>1, <1>3, <1>6, <1>7 DEF d, Counted

(* A number within a shape <<a, b, c>> is that of a place.                 *)
LEMMA PlaceWithin ==
    ASSUME NEW a \in Nat \ {0}, NEW b \in Nat \ {0}, NEW c \in Nat \ {0},
           NEW n \in 0 .. a * b * c - 1
    PROVE  /\ n \div (b * c) \in 0 .. a - 1
           /\ (n \div c) % b \in 0 .. b - 1
           /\ n % c \in 0 .. c - 1
  <1> DEFINE d == b * c
  <1>1. d \in Nat \ {0}
    BY TimesNat
  <1>2. a * b * c = d * a
    OBVIOUS
  <1>3. a * b * c \in Int /\ n \in Int
    BY TimesInt
  <1> HIDE DEF d
  <1>4. n \div d \in 0 .. a - 1
    BY <1>1, <1>2, DivWithin
  <1>5. n \div c \in Int /\ n % c \in 0 .. c - 1
    BY <1>3, DivMod
  <1>6. (n \div c) % b \in 0 .. b - 1
    BY <1>5, DivMod
  <1> QED
    BY <1>4, <1>5, <1>6 DEF d

(* Rolling by s and back; rolling is no matter of one round more.          *)
LEMMA RollBack ==
    ASSUME NEW n \in Nat \ {0}, NEW s \in Int, NEW p \in 0 .. n - 1
    PROVE  /\ (p - s) % n \in 0 .. n - 1
           /\ (((p - s) % n) + s) % n = p
           /\ ((p - s) + n) % n = (p - s) % n
  <1> DEFINE q == (p - s) \div n
             r == (p - s) % n
  <1>0. p - s \in Int
    OBVIOUS
  <1>1. q \in Int /\ r \in 0 .. n - 1 /\ p - s = n * q + r
    BY <1>0, DivMod
  <1> HIDE DEF q, r
  <1>2. r + s = n * (-q) + p /\ (p - s) + n = n * (q + 1) + r
    BY <1>1
  <1>3. (r + s) % n = p
    <2>1. PICK m \in Int : m = -q
      BY <1>1
    <2>2. (n * m + p) % n = p
      BY DivUnique
    <2>3. r + s = n * m + p
      BY <1>2, <2>1
    <2> QED
      BY <2>2, <2>3
  <1>4. ((p - s) + n) % n = r
    <2>1. PICK m \in Int : m = q + 1
      BY <1>1
    <2>2. (n * m + r) % n = r
      BY <1>1, DivUnique
    <2>3. (p - s) + n = n * m + r
      BY <1>2, <2>1
    <2> QED
      BY <2>2, <2>3
  <1> QED
    BY <1>1, <1>3, <1>4 DEF r

(* Padding to blocks of w adds less than w, and makes whole blocks.        *)
LEMMA PadToBlocks ==
    ASSUME NEW w \in Nat \ {0}, NEW s \in Nat \ {0}
    PROVE  /\ (-s) % w \in 0 .. w - 1
           /\ (s + ((-s) % w)) \div w \in Nat \ {0}
           /\ s + ((-s) % w) = w * ((s + ((-s) % w)) \div w)
  <1> DEFINE q == (-s) \div w
             r == (-s) % w
             t == s + r
  <1>1. q \in Int /\ r \in 0 .. w - 1 /\ -s = w * q + r
    BY DivMod
  <1> HIDE DEF q, r
  <1>2. t = w * (-q) + 0
    BY <1>1
  <1>3. t \div w = -q
    BY <1>1, <1>2, DivUnique
  <1>4. w * q \in Int /\ w * (-q) = -(w * q) /\ t > 0 /\ w * 0 = 0 /\ w * q < 0
    BY <1>1
  <1>5. q < 0
    <2> SUFFICES ASSUME 0 < q PROVE FALSE
      BY <1>1, <1>4
    <2>1. w * 0 + w <= w * q
      BY <1>1, TimesLess
    <2> QED
      BY <1>4, <2>1
  <1>6. t \div w \in Nat \ {0} /\ t = w * (t \div w)
    BY <1>1, <1>2, <1>3, <1>4, <1>5
  <1> QED
    BY <1>1, <1>6 DEF r

-----------------------------------------------------------------------------
Offsets == [Swin!Axes -> Int]

(* Places are the offsets that lie inside of a shape.                      *)
LEMMA PlacesAreInside ==
    ASSUME NEW shape \in Swin!Shapes, NEW p \in Offsets
    PROVE  p \in Swin!Places(shape) <=> Swin!Inside(p, shape)
  <1>1. p = <<p[1], p[2], p[3]>>
    BY DEF Offsets, Swin!Axes
  <1> QED
    BY <1>1 DEF Swin!Places, Swin!Inside, Swin!Axes, Offsets

(* So a place is an offset.                                                *)
LEMMA PlacesAreOffsets ==
    ASSUME NEW shape \in Swin!Shapes, NEW p \in Swin!Places(shape)
    PROVE  p \in Offsets /\ Swin!Inside(p, shape)
  <1>1. PICK x \in 0 .. shape[1] - 1, y \in 0 .. shape[2] - 1, z \in 0 .. shape[3] - 1 :
            p = <<x, y, z>>
    BY DEF Swin!Places
  <1>2. p \in [1 .. 3 -> Int]
    BY <1>1 DEF Swin!Shapes, Swin!Axes
  <1> QED
    BY <1>1, <1>2 DEF Offsets, Swin!Axes, Swin!Inside

(* Offsets that are the same on each axis are the same.                    *)
LEMMA SameOffsets ==
    ASSUME NEW p \in Offsets, NEW q \in Offsets, \A i \in Swin!Axes : p[i] = q[i]
    PROVE  p = q
  BY DEF Offsets

(* Offsets are added and multiplied axis by axis,                          *)
LEMMA OffsetsType ==
    ASSUME NEW a \in Offsets, NEW b \in Offsets
    PROVE  /\ Swin!Plus(a, b) \in Offsets /\ Swin!Minus(a, b) \in Offsets
           /\ Swin!Times(a, b) \in Offsets
           /\ \A i \in Swin!Axes : /\ Swin!Plus(a, b)[i] = a[i] + b[i]
                                   /\ Swin!Minus(a, b)[i] = a[i] - b[i]
                                   /\ Swin!Times(a, b)[i] = a[i] * b[i]
  BY DEF Offsets, Swin!Plus, Swin!Minus, Swin!Times

(* and divided by a shape, what is left being inside of it.                *)
LEMMA DivisionType ==
    ASSUME NEW a \in Offsets, NEW b \in Swin!Shapes
    PROVE  /\ b \in Offsets
           /\ Swin!Quotient(a, b) \in Offsets /\ Swin!Remainder(a, b) \in Offsets
           /\ \A i \in Swin!Axes : /\ Swin!Quotient(a, b)[i] = a[i] \div b[i]
                                   /\ Swin!Remainder(a, b)[i] = a[i] % b[i]
           /\ Swin!Inside(Swin!Remainder(a, b), b)
  <1>1. b \in Offsets
    BY DEF Offsets, Swin!Shapes
  <1>2. \A i \in Swin!Axes : /\ a[i] \in Int /\ b[i] \in Nat \ {0}
                             /\ a[i] \div b[i] \in Int /\ a[i] % b[i] \in 0 .. b[i] - 1
    <2> TAKE i \in Swin!Axes
    <2>1. a[i] \in Int /\ b[i] \in Nat \ {0}
      BY DEF Offsets, Swin!Shapes
    <2> QED
      BY <2>1, DivMod
  <1> QED
    BY <1>1, <1>2 DEF Offsets, Swin!Quotient, Swin!Remainder, Swin!Inside

(* Each number has a place,                                                *)
LEMMA PlaceOfNumber ==
    ASSUME NEW shape \in Swin!Shapes, NEW n \in 0 .. Swin!Volume(shape) - 1
    PROVE  Swin!Place(n, shape) \in Swin!Places(shape)
  <1>1. shape[1] \in Nat \ {0} /\ shape[2] \in Nat \ {0} /\ shape[3] \in Nat \ {0}
    BY DEF Swin!Shapes, Swin!Axes
  <1>2. n \in 0 .. shape[1] * shape[2] * shape[3] - 1
    BY DEF Swin!Volume
  <1>3. /\ n \div (shape[2] * shape[3]) \in 0 .. shape[1] - 1
        /\ (n \div shape[3]) % shape[2] \in 0 .. shape[2] - 1
        /\ n % shape[3] \in 0 .. shape[3] - 1
    BY <1>1, <1>2, PlaceWithin
  <1> QED
    BY <1>3 DEF Swin!Place, Swin!Places

(* and each place a number, which leads back to it.                        *)
LEMMA NumberOfPlace ==
    ASSUME NEW shape \in Swin!Shapes, NEW p \in Swin!Places(shape)
    PROVE  /\ Swin!Number(p, shape) \in 0 .. Swin!Volume(shape) - 1
           /\ Swin!Place(Swin!Number(p, shape), shape) = p
  <1>1. shape[1] \in Nat \ {0} /\ shape[2] \in Nat \ {0} /\ shape[3] \in Nat \ {0}
    BY DEF Swin!Shapes, Swin!Axes
  <1>2. PICK x \in 0 .. shape[1] - 1, y \in 0 .. shape[2] - 1, z \in 0 .. shape[3] - 1 :
            p = <<x, y, z>>
    BY DEF Swin!Places
  <1> DEFINE n == (x * shape[2] + y) * shape[3] + z
  <1>3. /\ n \in 0 .. shape[1] * shape[2] * shape[3] - 1
        /\ n \div (shape[2] * shape[3]) = x
        /\ (n \div shape[3]) % shape[2] = y
        /\ n % shape[3] = z
    <2>1. PICK a \in Nat \ {0}, b \in Nat \ {0}, c \in Nat \ {0} :
              a = shape[1] /\ b = shape[2] /\ c = shape[3]
      BY <1>1
    <2>2. x \in 0 .. a - 1 /\ y \in 0 .. b - 1 /\ z \in 0 .. c - 1
      BY <1>2, <2>1
    <2>3. Counted(a, b, c, x, y, z)
      BY <2>2, NumberWithin
    <2>4. Counted(shape[1], shape[2], shape[3], x, y, z)
      BY <2>1, <2>3
    <2> QED
      BY <2>4 DEF Counted
  <1>4. Swin!Number(p, shape) = n
    BY <1>2 DEF Swin!Number
  <1> HIDE DEF n
  <1>5. Swin!Place(n, shape) = <<x, y, z>>
    <2>1. Swin!Place(n, shape) = <<n \div (shape[2] * shape[3]), (n \div shape[3]) % shape[2],
                                  n % shape[3]>>
      BY DEF Swin!Place
    <2> QED
      BY <1>3, <2>1, Zenon
  <1>6. n \in 0 .. Swin!Volume(shape) - 1
    BY <1>3 DEF Swin!Volume
  <1> QED
    BY <1>2, <1>4, <1>5, <1>6

(* The windows of an image: their size, how many there are along each      *)
(* axis, and what they cover, which is the image and its padding.          *)
LEMMA WindowFacts ==
    ASSUME NEW shape \in Swin!Shapes, NEW shifted \in BOOLEAN, Window \in Swin!Shapes
    PROVE  LET ws == Swin!WindowOf(shape)
               pad == Swin!PadOf(shape, ws)
               ss == Swin!ShiftOf(shape, shifted)
           IN /\ ws \in Swin!Shapes
              /\ Swin!WindowCounts(shape) \in Swin!Shapes
              /\ Swin!PaddedShape(shape) \in Swin!Shapes
              /\ \A i \in Swin!Axes :
                    Swin!PaddedShape(shape)[i] = ws[i] * Swin!WindowCounts(shape)[i]
              /\ Swin!Minus(Swin!PaddedShape(shape), pad) = shape
              /\ Swin!Front(pad) \in Offsets /\ ss \in Offsets
              /\ \A i \in Swin!Axes :
                    /\ Swin!Front(pad)[i] >= 0
                    /\ shape[i] + Swin!Front(pad)[i] <= Swin!PaddedShape(shape)[i]
  <1> DEFINE ws == Swin!WindowOf(shape)
             pad == Swin!PadOf(shape, ws)
             ss == Swin!ShiftOf(shape, shifted)
             big == Swin!PaddedShape(shape)
             counts == Swin!WindowCounts(shape)
             front == Swin!Front(pad)
  <1>1. ws \in Swin!Shapes
    BY DEF Swin!WindowOf, Swin!Shapes
  <1> HIDE DEF ws
  <1>2. pad = [i \in Swin!Axes |-> (-shape[i]) % ws[i]]
    BY DEF Swin!PadOf
  <1>3. big = [i \in Swin!Axes |-> shape[i] + pad[i]]
    BY DEF Swin!PaddedShape, Swin!Plus, ws
  <1>4. counts = [i \in Swin!Axes |-> big[i] \div ws[i]]
    BY DEF Swin!WindowCounts, Swin!Quotient, ws
  <1>5. front = [i \in Swin!Axes |-> pad[i] \div 2]
    BY DEF Swin!Front
  <1>6. ss \in Offsets
    <2>1. \A i \in Swin!Axes : Window[i] \in Nat /\ Window[i] \div 2 \in Int
      BY DEF Swin!Shapes
    <2> QED
      BY <2>1 DEF Swin!ShiftOf, Offsets
  <1> HIDE DEF pad, big, counts, front, ss
  <1>7. \A i \in Swin!Axes :
            /\ shape[i] \in Nat \ {0} /\ pad[i] \in Nat
            /\ big[i] = shape[i] + pad[i] /\ big[i] = ws[i] * counts[i]
            /\ counts[i] \in Nat \ {0}
    <2> TAKE i \in Swin!Axes
    <2>1. PICK w \in Nat \ {0}, x \in Nat \ {0} : w = ws[i] /\ x = shape[i]
      BY <1>1 DEF Swin!Shapes
    <2>2. /\ (-x) % w \in 0 .. w - 1
          /\ (x + ((-x) % w)) \div w \in Nat \ {0}
          /\ x + ((-x) % w) = w * ((x + ((-x) % w)) \div w)
      BY PadToBlocks
    <2>3. pad[i] = (-x) % w /\ big[i] = x + pad[i] /\ counts[i] = big[i] \div w
      BY <1>2, <1>3, <1>4, <2>1
    <2>4. big[i] = w * counts[i] /\ counts[i] \in Nat \ {0} /\ pad[i] \in Nat
      BY <2>2, <2>3
    <2> QED
      BY <2>1, <2>3, <2>4
  <1>8. \A i \in Swin!Axes : front[i] \in Nat /\ front[i] <= pad[i]
    BY <1>5, <1>7
  <1>9. big \in Swin!Shapes /\ counts \in Swin!Shapes /\ front \in Offsets
    BY <1>3, <1>4, <1>5, <1>7, <1>8 DEF Swin!Shapes, Offsets
  <1>10. Swin!Minus(big, pad) = shape
    <2>1. Swin!Minus(big, pad) = [i \in Swin!Axes |-> big[i] - pad[i]]
      BY DEF Swin!Minus
    <2>2. \A i \in Swin!Axes : big[i] - pad[i] = shape[i]
      BY <1>7
    <2> QED
      BY <2>1, <2>2 DEF Swin!Shapes
  <1> QED
    BY <1>1, <1>6, <1>7, <1>8, <1>9, <1>10 DEF ws, pad, big, counts, front, ss

(* A place is in one window, at one place of it.                           *)
Covers(ws, counts, big) ==
    /\ ws \in Swin!Shapes /\ counts \in Swin!Shapes /\ big \in Swin!Shapes
    /\ \A i \in Swin!Axes : big[i] = ws[i] * counts[i]

(* A place of a window is a place of the image.                            *)
LEMMA PlaceInWindow ==
    ASSUME NEW ws, NEW counts, NEW big, Covers(ws, counts, big),
           NEW c \in Swin!Places(counts), NEW r \in Swin!Places(ws)
    PROVE  Swin!Plus(Swin!Times(c, ws), r) \in Swin!Places(big)
  <1>1. c \in Offsets /\ r \in Offsets /\ Swin!Inside(c, counts) /\ Swin!Inside(r, ws)
    BY PlacesAreOffsets DEF Covers
  <1>2. ws \in Offsets
    BY <1>1, DivisionType DEF Covers
  <1> DEFINE p == Swin!Plus(Swin!Times(c, ws), r)
  <1>3. Swin!Times(c, ws) \in Offsets /\ \A i \in Swin!Axes : Swin!Times(c, ws)[i] = c[i] * ws[i]
    BY <1>1, <1>2, OffsetsType
  <1>4. p \in Offsets /\ \A i \in Swin!Axes : p[i] = c[i] * ws[i] + r[i]
    BY <1>1, <1>3, OffsetsType
  <1> HIDE DEF p
  <1>5. \A i \in Swin!Axes : p[i] \in 0 .. big[i] - 1
    <2> TAKE i \in Swin!Axes
    <2>1. PICK b \in Nat \ {0}, n \in Nat \ {0} : b = ws[i] /\ n = counts[i]
      BY DEF Covers, Swin!Shapes
    <2>2. PICK q \in 0 .. n - 1, m \in 0 .. b - 1 : q = c[i] /\ m = r[i]
      BY <1>1, <2>1 DEF Swin!Inside
    <2>3. b * q + m \in 0 .. b * n - 1
      BY BlockWithin
    <2>4. big[i] = b * n /\ p[i] = b * q + m
      BY <1>4, <2>1, <2>2 DEF Covers
    <2> QED
      BY <2>3, <2>4
  <1>6. p \in Swin!Places(big)
    BY <1>4, <1>5, PlacesAreInside DEF Covers, Swin!Inside
  <1> QED
    BY <1>6 DEF p

(* So each place is in a window.                                           *)
LEMMA WindowOfPlace ==
    ASSUME NEW ws, NEW counts, NEW big, Covers(ws, counts, big), NEW p \in Swin!Places(big)
    PROVE  /\ Swin!Quotient(p, ws) \in Swin!Places(counts)
           /\ Swin!Remainder(p, ws) \in Swin!Places(ws)
           /\ Swin!Plus(Swin!Times(Swin!Quotient(p, ws), ws), Swin!Remainder(p, ws)) = p
  <1> DEFINE c == Swin!Quotient(p, ws)
             r == Swin!Remainder(p, ws)
  <1>1. p \in Offsets /\ Swin!Inside(p, big)
    BY PlacesAreOffsets DEF Covers
  <1>2. /\ ws \in Offsets /\ c \in Offsets /\ r \in Offsets
        /\ \A i \in Swin!Axes : c[i] = p[i] \div ws[i] /\ r[i] = p[i] % ws[i]
    BY <1>1, DivisionType DEF Covers
  <1> HIDE DEF c, r
  <1>3. \A i \in Swin!Axes : /\ c[i] \in 0 .. counts[i] - 1 /\ r[i] \in 0 .. ws[i] - 1
                             /\ p[i] = c[i] * ws[i] + r[i]
    <2> TAKE i \in Swin!Axes
    <2>1. PICK b \in Nat \ {0}, n \in Nat \ {0} : b = ws[i] /\ n = counts[i]
      BY DEF Covers, Swin!Shapes
    <2>2. PICK m \in 0 .. b * n - 1 : m = p[i]
      BY <1>1, <2>1 DEF Swin!Inside, Covers
    <2>3. m \div b \in 0 .. n - 1 /\ m % b \in 0 .. b - 1 /\ m = b * (m \div b) + (m % b)
      BY DivWithin
    <2>4. c[i] = m \div b /\ r[i] = m % b
      BY <1>2, <2>1, <2>2
    <2>5. c[i] \in 0 .. n - 1 /\ r[i] \in 0 .. b - 1 /\ m = b * c[i] + r[i]
      BY <2>3, <2>4
    <2>6. b * c[i] = c[i] * b
      BY <2>5, TimesInt
    <2> QED
      BY <2>1, <2>2, <2>5, <2>6
  <1>4. c \in Swin!Places(counts) /\ r \in Swin!Places(ws)
    BY <1>2, <1>3, PlacesAreInside DEF Covers, Swin!Inside
  <1>5. Swin!Times(c, ws) \in Offsets /\ \A i \in Swin!Axes : Swin!Times(c, ws)[i] = c[i] * ws[i]
    BY <1>2, OffsetsType
  <1>6. /\ Swin!Plus(Swin!Times(c, ws), r) \in Offsets
        /\ \A i \in Swin!Axes : Swin!Plus(Swin!Times(c, ws), r)[i] = c[i] * ws[i] + r[i]
    BY <1>2, <1>5, OffsetsType
  <1>7. Swin!Plus(Swin!Times(c, ws), r) = p
    BY <1>1, <1>3, <1>6, SameOffsets
  <1> QED
    BY <1>4, <1>7 DEF c, r

(* Where the token at a place of a window comes from.                      *)
TokenAt(shape, shifted, p) ==
    LET q == Swin!Minus(p, Swin!Front(Swin!PadOf(shape, Swin!WindowOf(shape))))
    IN IF Swin!Inside(q, shape)
       THEN Swin!Remainder(Swin!Plus(q, Swin!ShiftOf(shape, shifted)), shape)
       ELSE Swin!NoToken
PlaceAt(shape, k, n) ==
    LET ws == Swin!WindowOf(shape)
    IN Swin!Plus(Swin!Times(Swin!Place(k, Swin!WindowCounts(shape)), ws), Swin!Place(n, ws))

(* The place of a window is one of the padded image.                       *)
LEMMA PlaceAtIsInside ==
    ASSUME NEW shape \in Swin!Shapes, Window \in Swin!Shapes,
           NEW k \in 0 .. Swin!Volume(Swin!WindowCounts(shape)) - 1,
           NEW n \in 0 .. Swin!Volume(Swin!WindowOf(shape)) - 1
    PROVE  /\ PlaceAt(shape, k, n) \in Swin!Places(Swin!PaddedShape(shape))
           /\ PlaceAt(shape, k, n) \in Offsets
  <1> DEFINE ws == Swin!WindowOf(shape)
             big == Swin!PaddedShape(shape)
             counts == Swin!WindowCounts(shape)
             c == Swin!Place(k, counts)
             r == Swin!Place(n, ws)
  <1>1. /\ ws \in Swin!Shapes /\ counts \in Swin!Shapes /\ big \in Swin!Shapes
        /\ Covers(ws, counts, big)
    BY WindowFacts, TRUE \in BOOLEAN DEF Covers
  <1>2. c \in Swin!Places(counts) /\ r \in Swin!Places(ws)
    BY <1>1, PlaceOfNumber
  <1> HIDE DEF c, r
  <1>3. Swin!Plus(Swin!Times(c, ws), r) \in Swin!Places(big)
    BY <1>1, <1>2, PlaceInWindow
  <1>4. PlaceAt(shape, k, n) = Swin!Plus(Swin!Times(c, ws), r)
    BY DEF PlaceAt, c, r
  <1> QED
    BY <1>1, <1>3, <1>4, PlacesAreOffsets

(* A partition of an image with padding has each token of the image at the *)
(* place of a window that is its own.                                      *)
Held(image, value, shape, p) ==
    LET q == Swin!Minus(p, Swin!Front(Swin!PadOf(shape, Swin!WindowOf(shape))))
    IN IF Swin!Inside(q, shape) THEN image[q] ELSE value

(* That is what padding and partitioning make of an image.                 *)
LEMMA PartitionHolds ==
    ASSUME NEW shape \in Swin!Shapes, Window \in Swin!Shapes, NEW image, NEW value
    PROVE  LET ws == Swin!WindowOf(shape)
           IN Swin!Partition(Swin!Padded(image, shape, Swin!PadOf(shape, ws), value),
                             Swin!PaddedShape(shape), ws)
              = [k \in 0 .. Swin!Volume(Swin!WindowCounts(shape)) - 1 |->
                    [n \in 0 .. Swin!Volume(ws) - 1 |->
                        Held(image, value, shape, PlaceAt(shape, k, n))]]
  <1> DEFINE ws == Swin!WindowOf(shape)
             pad == Swin!PadOf(shape, ws)
             big == Swin!PaddedShape(shape)
             counts == Swin!WindowCounts(shape)
             padded == Swin!Padded(image, shape, pad, value)
  <1>2. big = Swin!Plus(shape, pad) /\ counts = Swin!Quotient(big, ws)
    BY DEF Swin!PaddedShape, Swin!WindowCounts
  <1>3. ASSUME NEW p \in Swin!Places(big) PROVE padded[p] = Held(image, value, shape, p)
    BY <1>2 DEF Swin!Padded, Held
  <1> HIDE DEF padded
  <1>4. ASSUME NEW k \in 0 .. Swin!Volume(counts) - 1, NEW n \in 0 .. Swin!Volume(ws) - 1
        PROVE  PlaceAt(shape, k, n) \in Swin!Places(big)
    BY PlaceAtIsInside
  <1>5. Swin!Partition(padded, big, ws) =
           [k \in 0 .. Swin!Volume(counts) - 1 |->
               [n \in 0 .. Swin!Volume(ws) - 1 |-> padded[PlaceAt(shape, k, n)]]]
    BY <1>2 DEF Swin!Partition, PlaceAt
  <1> QED
    BY <1>3, <1>4, <1>5 DEF padded

(* The kernel of the partition takes each token from where rolling,        *)
(* padding and partitioning would.                                         *)
LEMMA PartitionAgrees ==
    ASSUME NEW shape \in Swin!Shapes, NEW shifted \in BOOLEAN, Window \in Swin!Shapes
    PROVE  /\ Swin!ToWindows(shape, shifted) =
                 [k \in 0 .. Swin!Volume(Swin!WindowCounts(shape)) - 1 |->
                    [n \in 0 .. Swin!Volume(Swin!WindowOf(shape)) - 1 |->
                        TokenAt(shape, shifted, PlaceAt(shape, k, n))]]
           /\ Swin!FusedPartition(shape, shifted) = Swin!ToWindows(shape, shifted)
  <1> DEFINE ws == Swin!WindowOf(shape)
             ss == Swin!ShiftOf(shape, shifted)
             counts == Swin!WindowCounts(shape)
             rolled == Swin!Rolled(Swin!Image(shape), shape, ss)
  <1>1. ss \in Offsets
    BY WindowFacts
  <1>2. ASSUME NEW q \in Offsets, Swin!Inside(q, shape)
        PROVE  rolled[q] = Swin!Remainder(Swin!Plus(q, ss), shape)
    <2>1. q \in Swin!Places(shape)
      BY <1>2, PlacesAreInside
    <2>2. Swin!Plus(q, ss) \in Offsets
      BY <1>1, <1>2, OffsetsType
    <2> DEFINE t == Swin!Remainder(Swin!Plus(q, ss), shape)
    <2>3. t \in Offsets /\ Swin!Inside(t, shape)
      BY <2>2, DivisionType
    <2> HIDE DEF t
    <2>4. t \in Swin!Places(shape)
      BY <2>3, PlacesAreInside
    <2>5. Swin!Image(shape)[t] = t
      BY <2>4 DEF Swin!Image
    <2>6. rolled[q] = Swin!Image(shape)[t]
      BY <2>1 DEF Swin!Rolled, t
    <2> QED
      BY <2>5, <2>6 DEF t
  <1> HIDE DEF rolled
  <1>3. ASSUME NEW k \in 0 .. Swin!Volume(counts) - 1, NEW n \in 0 .. Swin!Volume(ws) - 1
        PROVE  Held(rolled, Swin!NoToken, shape, PlaceAt(shape, k, n))
               = TokenAt(shape, shifted, PlaceAt(shape, k, n))
    <2> DEFINE q == Swin!Minus(PlaceAt(shape, k, n), Swin!Front(Swin!PadOf(shape, ws)))
    <2>1. q \in Offsets
      <3>1. Swin!Front(Swin!PadOf(shape, ws)) \in Offsets
        BY WindowFacts
      <3> QED
        BY <3>1, PlaceAtIsInside, OffsetsType
    <2>2. Held(rolled, Swin!NoToken, shape, PlaceAt(shape, k, n))
          = IF Swin!Inside(q, shape) THEN rolled[q] ELSE Swin!NoToken
      BY DEF Held
    <2>3. TokenAt(shape, shifted, PlaceAt(shape, k, n))
          = IF Swin!Inside(q, shape) THEN Swin!Remainder(Swin!Plus(q, ss), shape)
            ELSE Swin!NoToken
      BY DEF TokenAt
    <2> HIDE DEF q
    <2> QED
      BY <1>2, <2>1, <2>2, <2>3
  <1>4. Swin!ToWindows(shape, shifted) =
           [k \in 0 .. Swin!Volume(counts) - 1 |->
               [n \in 0 .. Swin!Volume(ws) - 1 |->
                   Held(rolled, Swin!NoToken, shape, PlaceAt(shape, k, n))]]
    BY PartitionHolds DEF Swin!ToWindows, rolled
  <1>5. Swin!FusedPartition(shape, shifted) =
           [k \in 0 .. Swin!Volume(counts) - 1 |->
               [n \in 0 .. Swin!Volume(ws) - 1 |-> TokenAt(shape, shifted, PlaceAt(shape, k, n))]]
    BY DEF Swin!FusedPartition, TokenAt, PlaceAt
  <1> QED
    BY <1>3, <1>4, <1>5

(* In the windows, the token of a place of the rolled and padded image is  *)
(* found by the number of its window and the number of its place there.    *)
LEMMA WindowsHold ==
    ASSUME NEW shape \in Swin!Shapes, NEW shifted \in BOOLEAN, Window \in Swin!Shapes,
           NEW p \in Swin!Places(Swin!PaddedShape(shape))
    PROVE  LET ws == Swin!WindowOf(shape)
               counts == Swin!WindowCounts(shape)
           IN Swin!ToWindows(shape, shifted)[Swin!Number(Swin!Quotient(p, ws), counts)]
                                            [Swin!Number(Swin!Remainder(p, ws), ws)]
              = TokenAt(shape, shifted, p)
  <1> DEFINE ws == Swin!WindowOf(shape)
             big == Swin!PaddedShape(shape)
             counts == Swin!WindowCounts(shape)
             c == Swin!Quotient(p, ws)
             r == Swin!Remainder(p, ws)
             k == Swin!Number(c, counts)
             n == Swin!Number(r, ws)
  <1>1. ws \in Swin!Shapes /\ counts \in Swin!Shapes /\ Covers(ws, counts, big)
    BY WindowFacts DEF Covers
  <1>2. /\ c \in Swin!Places(counts) /\ r \in Swin!Places(ws)
        /\ Swin!Plus(Swin!Times(c, ws), r) = p
    BY <1>1, WindowOfPlace
  <1> HIDE DEF c, r
  <1>3. /\ k \in 0 .. Swin!Volume(counts) - 1 /\ Swin!Place(k, counts) = c
        /\ n \in 0 .. Swin!Volume(ws) - 1 /\ Swin!Place(n, ws) = r
    BY <1>1, <1>2, NumberOfPlace
  <1> HIDE DEF k, n
  <1>4. PlaceAt(shape, k, n) = p
    BY <1>2, <1>3 DEF PlaceAt
  <1>5. Swin!ToWindows(shape, shifted)[k][n] = TokenAt(shape, shifted, PlaceAt(shape, k, n))
    <2> DEFINE row(i) == [m \in 0 .. Swin!Volume(ws) - 1 |->
                              TokenAt(shape, shifted, PlaceAt(shape, i, m))]
    <2>1. Swin!ToWindows(shape, shifted) = [i \in 0 .. Swin!Volume(counts) - 1 |-> row(i)]
      BY PartitionAgrees
    <2>2. row(k)[n] = TokenAt(shape, shifted, PlaceAt(shape, k, n))
      BY <1>3
    <2> HIDE DEF row
    <2> QED
      BY <1>3, <2>1, <2>2
  <1> QED
    BY <1>4, <1>5 DEF c, r, k, n

(* Rolling a place back and padding it leads to where its token went.      *)
LEMMA TokenReturns ==
    ASSUME NEW shape \in Swin!Shapes, NEW shifted \in BOOLEAN, Window \in Swin!Shapes,
           NEW p \in Swin!Places(shape)
    PROVE  LET pad == Swin!PadOf(shape, Swin!WindowOf(shape))
               ss == Swin!ShiftOf(shape, shifted)
               q == Swin!Remainder(Swin!Minus(p, ss), shape)
               t == Swin!Plus(q, Swin!Front(pad))
           IN /\ q \in Swin!Places(shape)
              /\ Swin!Remainder(Swin!Plus(Swin!Minus(p, ss), shape), shape) = q
              /\ t \in Swin!Places(Swin!PaddedShape(shape))
              /\ TokenAt(shape, shifted, t) = p
  <1> DEFINE pad == Swin!PadOf(shape, Swin!WindowOf(shape))
             ss == Swin!ShiftOf(shape, shifted)
             big == Swin!PaddedShape(shape)
             front == Swin!Front(pad)
             q == Swin!Remainder(Swin!Minus(p, ss), shape)
             u == Swin!Remainder(Swin!Plus(Swin!Minus(p, ss), shape), shape)
             t == Swin!Plus(q, front)
             v == Swin!Remainder(Swin!Plus(q, ss), shape)
  <1>1. /\ ss \in Offsets /\ front \in Offsets /\ big \in Swin!Shapes
        /\ \A i \in Swin!Axes : front[i] >= 0 /\ shape[i] + front[i] <= big[i]
    BY WindowFacts
  <1> HIDE DEF ss, front, big
  <1>2. p \in Offsets /\ Swin!Inside(p, shape) /\ shape \in Offsets
    BY PlacesAreOffsets DEF Offsets, Swin!Shapes
  <1>3. /\ Swin!Minus(p, ss) \in Offsets
        /\ \A i \in Swin!Axes : Swin!Minus(p, ss)[i] = p[i] - ss[i]
    BY <1>1, <1>2, OffsetsType
  <1>4. /\ q \in Offsets /\ Swin!Inside(q, shape)
        /\ \A i \in Swin!Axes : q[i] = (p[i] - ss[i]) % shape[i]
    BY <1>3, DivisionType
  <1>5. /\ u \in Offsets
        /\ \A i \in Swin!Axes : u[i] = ((p[i] - ss[i]) + shape[i]) % shape[i]
    <2>1. /\ Swin!Plus(Swin!Minus(p, ss), shape) \in Offsets
          /\ \A i \in Swin!Axes :
                Swin!Plus(Swin!Minus(p, ss), shape)[i] = (p[i] - ss[i]) + shape[i]
      BY <1>2, <1>3, OffsetsType
    <2> QED
      BY <2>1, DivisionType
  <1> HIDE DEF q, u
  <1>6. v \in Offsets /\ \A i \in Swin!Axes : v[i] = (q[i] + ss[i]) % shape[i]
    <2>1. /\ Swin!Plus(q, ss) \in Offsets
          /\ \A i \in Swin!Axes : Swin!Plus(q, ss)[i] = q[i] + ss[i]
      BY <1>1, <1>4, OffsetsType
    <2> QED
      BY <2>1, DivisionType
  <1>7. t \in Offsets /\ \A i \in Swin!Axes : t[i] = q[i] + front[i]
    BY <1>1, <1>4, OffsetsType
  <1> HIDE DEF t, v
  <1>8. \A i \in Swin!Axes : u[i] = q[i] /\ v[i] = p[i]
    <2> TAKE i \in Swin!Axes
    <2>1. PICK n \in Nat \ {0}, s \in Int : n = shape[i] /\ s = ss[i]
      BY <1>1 DEF Swin!Shapes, Offsets
    <2>2. PICK x \in 0 .. n - 1 : x = p[i]
      BY <1>2, <2>1 DEF Swin!Inside
    <2>3. (((x - s) % n) + s) % n = x /\ ((x - s) + n) % n = (x - s) % n
      BY RollBack
    <2>4. q[i] = (x - s) % n /\ u[i] = ((x - s) + n) % n
      BY <1>4, <1>5, <2>1, <2>2
    <2>5. v[i] = (((x - s) % n) + s) % n
      BY <1>6, <2>1, <2>4
    <2> QED
      BY <2>2, <2>3, <2>4, <2>5
  <1>9. u = q /\ v = p
    BY <1>2, <1>4, <1>5, <1>6, <1>8, SameOffsets
  <1>10. q \in Swin!Places(shape)
    BY <1>4, PlacesAreInside
  <1>11. t \in Swin!Places(big)
    <2>1. \A i \in Swin!Axes : t[i] \in 0 .. big[i] - 1
      BY <1>1, <1>4, <1>7 DEF Swin!Inside, Swin!Shapes, Offsets
    <2> QED
      BY <1>1, <1>7, <2>1, PlacesAreInside DEF Swin!Inside
  <1>12. Swin!Minus(t, front) = q
    <2>1. /\ Swin!Minus(t, front) \in Offsets
          /\ \A i \in Swin!Axes : Swin!Minus(t, front)[i] = t[i] - front[i]
      BY <1>1, <1>7, OffsetsType
    <2>2. \A i \in Swin!Axes : t[i] - front[i] = q[i]
      BY <1>1, <1>4, <1>7 DEF Offsets
    <2> QED
      BY <1>4, <2>1, <2>2, SameOffsets
  <1>13. TokenAt(shape, shifted, t) = p
    <2>1. TokenAt(shape, shifted, t) =
             IF Swin!Inside(Swin!Minus(t, front), shape)
             THEN Swin!Remainder(Swin!Plus(Swin!Minus(t, front), ss), shape)
             ELSE Swin!NoToken
      BY DEF TokenAt, front, ss
    <2> QED
      BY <1>4, <1>9, <1>12, <2>1 DEF v
  <1> QED
    BY <1>9, <1>10, <1>11, <1>13 DEF q, u, t, ss, front, big

(* Attention returns every token to its place, by either way.              *)
LEMMA TokensReturn ==
    ASSUME NEW shape \in Swin!Shapes, NEW shifted \in BOOLEAN, Window \in Swin!Shapes
    PROVE  LET windows == Swin!ToWindows(shape, shifted)
           IN /\ Swin!FromWindows(windows, shape, shifted) = Swin!Image(shape)
              /\ Swin!FusedMerge(windows, shape, shifted) = Swin!Image(shape)
  <1> DEFINE windows == Swin!ToWindows(shape, shifted)
             ws == Swin!WindowOf(shape)
             pad == Swin!PadOf(shape, ws)
             ss == Swin!ShiftOf(shape, shifted)
             big == Swin!PaddedShape(shape)
             counts == Swin!WindowCounts(shape)
             front == Swin!Front(pad)
             q(p) == Swin!Remainder(Swin!Minus(p, ss), shape)
             t(p) == Swin!Plus(q(p), front)
             found(x) == windows[Swin!Number(Swin!Quotient(x, ws), counts)]
                                [Swin!Number(Swin!Remainder(x, ws), ws)]
             reversed == Swin!Reversed(windows, ws, big)
             cropped == Swin!Cropped(reversed, big, pad)
  <1>1. Swin!Minus(big, pad) = shape /\ counts = Swin!Quotient(big, ws)
    BY WindowFacts DEF Swin!WindowCounts
  <1>2. ASSUME NEW p \in Swin!Places(shape)
        PROVE  /\ q(p) \in Swin!Places(shape)
               /\ Swin!Remainder(Swin!Plus(Swin!Minus(p, ss), shape), shape) = q(p)
               /\ t(p) \in Swin!Places(big)
               /\ found(t(p)) = p
    <2>1. /\ q(p) \in Swin!Places(shape)
          /\ Swin!Remainder(Swin!Plus(Swin!Minus(p, ss), shape), shape) = q(p)
          /\ t(p) \in Swin!Places(big)
          /\ TokenAt(shape, shifted, t(p)) = p
      BY TokenReturns
    <2> HIDE DEF t
    <2>2. found(t(p)) = TokenAt(shape, shifted, t(p))
      BY <2>1, WindowsHold
    <2> QED
      BY <2>1, <2>2
  <1>3. reversed = [x \in Swin!Places(big) |-> found(x)]
    BY <1>1 DEF Swin!Reversed
  <1>4. cropped = [p \in Swin!Places(shape) |-> reversed[Swin!Plus(p, front)]]
    BY <1>1 DEF Swin!Cropped
  <1>5. Swin!FromWindows(windows, shape, shifted) = [p \in Swin!Places(shape) |-> cropped[q(p)]]
    BY DEF Swin!FromWindows, Swin!RolledBack
  <1>6. Swin!FusedMerge(windows, shape, shifted) =
           [p \in Swin!Places(shape) |->
               found(Swin!Plus(Swin!Remainder(Swin!Plus(Swin!Minus(p, ss), shape), shape), front))]
    BY DEF Swin!FusedMerge
  <1>7. Swin!Image(shape) = [p \in Swin!Places(shape) |-> p]
    BY DEF Swin!Image
  <1> HIDE DEF windows, ws, pad, ss, big, counts, front, q, found, reversed, cropped
  <1>8. ASSUME NEW p \in Swin!Places(shape)
        PROVE  /\ cropped[q(p)] = p
               /\ found(Swin!Plus(Swin!Remainder(Swin!Plus(Swin!Minus(p, ss), shape), shape), front))
                  = p
    <2>1. /\ q(p) \in Swin!Places(shape)
          /\ Swin!Remainder(Swin!Plus(Swin!Minus(p, ss), shape), shape) = q(p)
          /\ Swin!Plus(q(p), front) \in Swin!Places(big)
          /\ found(Swin!Plus(q(p), front)) = p
      BY <1>2
    <2>2. cropped[q(p)] = reversed[Swin!Plus(q(p), front)]
      BY <1>4, <2>1
    <2>3. reversed[Swin!Plus(q(p), front)] = p
      BY <1>3, <2>1
    <2> QED
      BY <2>1, <2>2, <2>3
  <1>9. Swin!FromWindows(windows, shape, shifted) = Swin!Image(shape)
    BY <1>5, <1>7, <1>8
  <1>10. Swin!FusedMerge(windows, shape, shifted) = Swin!Image(shape)
    BY <1>6, <1>7, <1>8
  <1> QED
    BY <1>9, <1>10 DEF windows

(* So the layouts agree on every image.                                    *)
LEMMA LayoutsKeep == Window \in Swin!Shapes /\ res \in Swin!Shapes => Swin!LayoutsAgree
  <1> SUFFICES ASSUME Window \in Swin!Shapes, res \in Swin!Shapes PROVE Swin!LayoutsAgree
    OBVIOUS
  <1> SUFFICES ASSUME NEW shifted \in BOOLEAN
               PROVE  LET windows == Swin!ToWindows(res, shifted)
                      IN /\ Swin!FusedPartition(res, shifted) = windows
                         /\ Swin!FromWindows(windows, res, shifted) = Swin!Image(res)
                         /\ Swin!FusedMerge(windows, res, shifted) = Swin!Image(res)
    BY DEF Swin!LayoutsAgree
  <1>1. PICK shape \in Swin!Shapes : shape = res
    OBVIOUS
  <1> QED
    BY <1>1, PartitionAgrees, TokensReturn

-----------------------------------------------------------------------------
(* The mask, on one axis of n places with windows of w and a shift of s    *)

Rolls(n, s, q) == (q + s) % n
Slice(n, w, s, q) == Swin!SliceOf(q, n, w, s)
Apart(n, s, q, v) == Swin!Distance(Rolls(n, s, q), Rolls(n, s, v))

(* A token that is rolled over the edge begins anew.                       *)
LEMMA RollsBy ==
    ASSUME NEW n \in Nat \ {0}, NEW s \in 0 .. n - 1, NEW q \in 0 .. n - 1
    PROVE  /\ Rolls(n, s, q) \in 0 .. n - 1
           /\ Rolls(n, s, q) = IF q >= n - s THEN (q + s) - n ELSE q + s
  <1>1. CASE q >= n - s
    <2>1. PICK r \in 0 .. n - 1 : r = (q + s) - n
      BY <1>1
    <2>2. (n * 1 + r) % n = r
      BY DivUnique
    <2>3. n * 1 + r = q + s
      BY <2>1
    <2> QED
      BY <1>1, <2>1, <2>2, <2>3 DEF Rolls
  <1>2. CASE ~(q >= n - s)
    <2>1. PICK r \in 0 .. n - 1 : r = q + s
      BY <1>2
    <2>2. (n * 0 + r) % n = r
      BY DivUnique
    <2>3. n * 0 + r = q + s
      BY <2>1
    <2> QED
      BY <1>2, <2>1, <2>2, <2>3 DEF Rolls
  <1> QED
    BY <1>1, <1>2

(* Places of a window that are in one slice are near each other, and those *)
(* of any slices are on an axis that closes to a circle.                   *)
NearOnAxis(n, w, s, q, v) ==
    /\ Slice(n, w, s, q) = Slice(n, w, s, v) => Apart(n, s, q, v) < w
    /\ Swin!Around(Rolls(n, s, q), Rolls(n, s, v), n) < w

(* Rolling takes both of a slice along, or leaves both.                    *)
LEMMA NearAxis ==
    ASSUME NEW n \in Nat \ {0}, NEW w \in Nat \ {0}, NEW s \in 0 .. n - 1,
           NEW q \in 0 .. n - 1, NEW v \in 0 .. n - 1, q - v < w, v - q < w
    PROVE  NearOnAxis(n, w, s, q, v)
  <1>q. /\ Rolls(n, s, q) \in 0 .. n - 1
        /\ Rolls(n, s, q) = IF q >= n - s THEN (q + s) - n ELSE q + s
    BY RollsBy
  <1>v. /\ Rolls(n, s, v) \in 0 .. n - 1
        /\ Rolls(n, s, v) = IF v >= n - s THEN (v + s) - n ELSE v + s
    BY RollsBy
  <1>1. /\ Rolls(n, s, q) \in 0 .. n - 1 /\ Rolls(n, s, v) \in 0 .. n - 1
        /\ Rolls(n, s, q) = IF q >= n - s THEN (q + s) - n ELSE q + s
        /\ Rolls(n, s, v) = IF v >= n - s THEN (v + s) - n ELSE v + s
    BY <1>q, <1>v
  <1>2. PICK x \in 0 .. n - 1 : x = Rolls(n, s, q)
    BY <1>1
  <1>y. PICK y \in 0 .. n - 1 : y = Rolls(n, s, v)
    BY <1>1
  <1>3. ASSUME Slice(n, w, s, q) = Slice(n, w, s, v) PROVE x - y < w /\ y - x < w
    <2>1. s = 0 \/ (q >= n - s <=> v >= n - s)
      BY <1>3 DEF Slice, Swin!SliceOf
    <2> QED
      BY <1>1, <1>2, <1>y, <2>1
  <1>4. x - y \in {q - v, (q - v) + n, (q - v) - n}
    BY <1>1, <1>2, <1>y
  <1>5. x \in 0 .. n - 1 /\ y \in 0 .. n - 1
    BY <1>1, <1>2, <1>y
  <1>6. Swin!Around(x, y, n) < w
    BY <1>4, <1>5 DEF Swin!Around, Swin!Distance
  <1> QED
    BY <1>2, <1>y, <1>3, <1>6 DEF NearOnAxis, Apart, Swin!Distance

(* Where the last window begins where the slices do, near places of a      *)
(* window are in one slice, and the first slice has windows of its own.    *)
OneSliceOnAxis(n, w, s, q, v) ==
    /\ Apart(n, s, q, v) < w => Slice(n, w, s, q) = Slice(n, w, s, v)
    /\ Slice(n, w, s, q) = 0 <=> Slice(n, w, s, v) = 0

(* Else one of them would have gone to the other end.                      *)
LEMMA OneSlice ==
    ASSUME NEW n \in Nat \ {0}, NEW w \in Nat \ {0}, NEW s \in 0 .. n - 1,
           NEW q \in 0 .. n - 1, NEW v \in 0 .. n - 1, q - v < w, v - q < w,
           s = 0 \/ (2 * w <= n /\ s < w), q >= n - w <=> v >= n - w
    PROVE  OneSliceOnAxis(n, w, s, q, v)
  <1>q. /\ Rolls(n, s, q) \in 0 .. n - 1
        /\ Rolls(n, s, q) = IF q >= n - s THEN (q + s) - n ELSE q + s
    BY RollsBy
  <1>v. /\ Rolls(n, s, v) \in 0 .. n - 1
        /\ Rolls(n, s, v) = IF v >= n - s THEN (v + s) - n ELSE v + s
    BY RollsBy
  <1>1. /\ Rolls(n, s, q) \in 0 .. n - 1 /\ Rolls(n, s, v) \in 0 .. n - 1
        /\ Rolls(n, s, q) = IF q >= n - s THEN (q + s) - n ELSE q + s
        /\ Rolls(n, s, v) = IF v >= n - s THEN (v + s) - n ELSE v + s
    BY <1>q, <1>v
  <1>2. PICK x \in 0 .. n - 1 : x = Rolls(n, s, q)
    BY <1>1
  <1>y. PICK y \in 0 .. n - 1 : y = Rolls(n, s, v)
    BY <1>1
  <1>3. ASSUME x - y < w, y - x < w PROVE Slice(n, w, s, q) = Slice(n, w, s, v)
    <2>1. CASE s = 0
      BY <2>1 DEF Slice, Swin!SliceOf
    <2>2. CASE s # 0
      <3>1. q >= n - s <=> v >= n - s
        BY <1>1, <1>2, <1>y, <1>3, <2>2
      <3> QED
        BY <2>2, <3>1 DEF Slice, Swin!SliceOf
    <2> QED
      BY <2>1, <2>2
  <1>4. Slice(n, w, s, q) = 0 <=> Slice(n, w, s, v) = 0
    BY DEF Slice, Swin!SliceOf
  <1>5. Apart(n, s, q, v) < w => x - y < w /\ y - x < w
    BY <1>2, <1>y DEF Apart, Swin!Distance
  <1> QED
    BY <1>3, <1>4, <1>5 DEF OneSliceOnAxis

(* The group of a place whose slices are x, y, z                           *)
MergedOf(g) ==
    IF \E m \in Swin!MergeGroups : m[1] = g
    THEN (CHOOSE m \in Swin!MergeGroups : m[1] = g)[2]
    ELSE g

(* The slices 1 and 2 of the last axis are merged.                         *)
LEMMA MergedGroup ==
    ASSUME NEW x \in 0 .. 2, NEW y \in 0 .. 2, NEW z \in 0 .. 2
    PROVE  MergedOf((x * 3 + y) * 3 + z) = 9 * x + 3 * y + (IF z = 0 THEN 0 ELSE 2)
  <1> DEFINE g == (x * 3 + y) * 3 + z
  <1>1. CASE z = 1
    <2>1. <<3 * y + 1 + 9 * x, 3 * y + 2 + 9 * x>> \in Swin!MergeGroups
      <3>1. 3 * y \in {0, 3, 6}
        OBVIOUS
      <3> QED
        BY <3>1 DEF Swin!MergeGroups
    <2>2. \A m \in Swin!MergeGroups : m[2] = m[1] + 1
      BY DEF Swin!MergeGroups
    <2>3. g = 3 * y + 1 + 9 * x
      BY <1>1
    <2> HIDE DEF g
    <2>4. \E m \in Swin!MergeGroups : m[1] = g
      BY <2>1, <2>3
    <2>5. MergedOf(g) = g + 1
      BY <2>2, <2>4 DEF MergedOf
    <2> QED
      BY <1>1, <2>3, <2>5 DEF g
  <1>2. CASE z # 1
    <2>1. \A m \in Swin!MergeGroups : m[1] # g
      <3> SUFFICES ASSUME NEW h \in {0, 3, 6}, NEW c \in 0 .. 2 PROVE h + 1 + 9 * c # g
        BY DEF Swin!MergeGroups
      <3> QED
        BY <1>2
    <2>2. MergedOf(g) = g
      BY <2>1 DEF MergedOf
    <2> QED
      BY <1>2, <2>2
  <1> QED
    BY <1>1, <1>2

-----------------------------------------------------------------------------
(* The mask                                                                *)

GroupOf(shape, p) ==
    MergedOf(Swin!Number([i \in Swin!Axes |->
                              Slice(shape[i], Swin!WindowOf(shape)[i],
                                    Swin!ShiftOf(shape, TRUE)[i], p[i])], <<3, 3, 3>>))
GroupsOf(shape) == [p \in Swin!Places(shape) |-> GroupOf(shape, p)]

(* The groups of the mask, window by window.                               *)
LEMMA GroupsHold ==
    ASSUME NEW shape \in Swin!Shapes, Window \in Swin!Shapes
    PROVE  Swin!Groups(shape)
           = [k \in 0 .. Swin!Volume(Swin!WindowCounts(shape)) - 1 |->
                 [n \in 0 .. Swin!Volume(Swin!WindowOf(shape)) - 1 |->
                     Held(GroupsOf(shape), 27, shape, PlaceAt(shape, k, n))]]
  <1>1. Swin!Groups(shape) =
            Swin!Partition(Swin!Padded(GroupsOf(shape), shape,
                                       Swin!PadOf(shape, Swin!WindowOf(shape)), 27),
                           Swin!PaddedShape(shape), Swin!WindowOf(shape))
    BY DEF Swin!Groups, GroupsOf, GroupOf, MergedOf, Slice
  <1> QED
    BY <1>1, PartitionHolds

(* A group stands for the slices of two axes, and for whether the third is *)
(* the first of its axis.                                                  *)
LEMMA GroupIs ==
    ASSUME NEW shape \in Swin!Shapes, NEW p
    PROVE  LET sl(i) == Slice(shape[i], Swin!WindowOf(shape)[i], Swin!ShiftOf(shape, TRUE)[i], p[i])
           IN /\ \A i \in Swin!Axes : sl(i) \in 0 .. 2
              /\ GroupOf(shape, p) = 9 * sl(1) + 3 * sl(2) + (IF sl(3) = 0 THEN 0 ELSE 2)
  <1> DEFINE sl(i) == Slice(shape[i], Swin!WindowOf(shape)[i], Swin!ShiftOf(shape, TRUE)[i], p[i])
  <1>1. \A i \in Swin!Axes : sl(i) \in 0 .. 2
    BY DEF Slice, Swin!SliceOf
  <1>2. GroupOf(shape, p) = MergedOf((sl(1) * 3 + sl(2)) * 3 + sl(3))
    BY DEF GroupOf, Swin!Number, Swin!Axes
  <1> HIDE DEF sl
  <1>3. sl(1) \in 0 .. 2 /\ sl(2) \in 0 .. 2 /\ sl(3) \in 0 .. 2
    BY <1>1 DEF Swin!Axes
  <1> QED
    BY <1>1, <1>2, <1>3, MergedGroup DEF sl

(* The shift on each axis                                                  *)
LEMMA ShiftFacts ==
    ASSUME NEW shape \in Swin!Shapes, Window \in Swin!Shapes, NEW i \in Swin!Axes
    PROVE  LET w == Swin!WindowOf(shape)[i]
               s == Swin!ShiftOf(shape, TRUE)[i]
           IN /\ w \in Nat \ {0} /\ shape[i] \in Nat \ {0} /\ w <= shape[i]
              /\ s \in 0 .. shape[i] - 1 /\ s < w
              /\ s = 0 \/ w < shape[i]
  <1>1. PICK n \in Nat \ {0}, v \in Nat \ {0} : n = shape[i] /\ v = Window[i]
    BY DEF Swin!Shapes
  <1>2. Swin!WindowOf(shape)[i] = IF n <= v THEN n ELSE v
    BY <1>1 DEF Swin!WindowOf, Swin!Narrow
  <1>3. Swin!ShiftOf(shape, TRUE)[i] = IF n <= v THEN 0 ELSE v \div 2
    BY <1>1 DEF Swin!ShiftOf, Swin!Narrow
  <1>4. v \div 2 \in Nat /\ v \div 2 < v
    OBVIOUS
  <1> DEFINE w == Swin!WindowOf(shape)[i]
             s == Swin!ShiftOf(shape, TRUE)[i]
  <1> HIDE DEF w, s
  <1>5. w = (IF n <= v THEN n ELSE v) /\ s = (IF n <= v THEN 0 ELSE v \div 2)
    BY <1>2, <1>3 DEF w, s
  <1>6. w \in Nat \ {0} /\ w <= n /\ s \in 0 .. n - 1 /\ s < w /\ (s = 0 \/ w < n)
    <2>1. CASE n <= v
      BY <1>5, <2>1
    <2>2. CASE ~(n <= v)
      BY <1>4, <1>5, <2>2
    <2> QED
      BY <2>1, <2>2
  <1> QED
    BY <1>1, <1>6 DEF w, s

(* Two places of a window are less than its size apart, and both or none   *)
(* are in the last window of an axis.                                      *)
InOneWindow(big, ws, p, q, i) ==
    /\ p[i] \in Int /\ q[i] \in Int
    /\ p[i] - q[i] < ws[i] /\ q[i] - p[i] < ws[i]
    /\ p[i] >= big[i] - ws[i] <=> q[i] >= big[i] - ws[i]

(* The last block begins b before the end.                                 *)
LEMMA LastBlock ==
    ASSUME NEW b \in Nat \ {0}, NEW n \in Nat \ {0}, NEW q \in 0 .. n - 1, NEW r \in 0 .. b - 1
    PROVE  b * q + r >= b * n - b <=> q = n - 1
  <1>1. b * q \in Int /\ b * n \in Int /\ b * (n - 1) = b * n - b
    BY TimesInt
  <1>2. q < n - 1 => b * q + b <= b * (n - 1)
    BY TimesLess
  <1> QED
    BY <1>1, <1>2

(* They have the window's corner in common.                                *)
LEMMA SameWindow ==
    ASSUME NEW shape \in Swin!Shapes, Window \in Swin!Shapes,
           NEW k \in 0 .. Swin!Volume(Swin!WindowCounts(shape)) - 1,
           NEW n \in 0 .. Swin!Volume(Swin!WindowOf(shape)) - 1,
           NEW m \in 0 .. Swin!Volume(Swin!WindowOf(shape)) - 1, NEW i \in Swin!Axes
    PROVE  InOneWindow(Swin!PaddedShape(shape), Swin!WindowOf(shape),
                       PlaceAt(shape, k, n), PlaceAt(shape, k, m), i)
  <1> DEFINE ws == Swin!WindowOf(shape)
             big == Swin!PaddedShape(shape)
             counts == Swin!WindowCounts(shape)
             c == Swin!Place(k, counts)
             r == Swin!Place(n, ws)
             t == Swin!Place(m, ws)
             p == Swin!Plus(Swin!Times(c, ws), r)
             q == Swin!Plus(Swin!Times(c, ws), t)
  <1>1. /\ ws \in Swin!Shapes /\ counts \in Swin!Shapes
        /\ \A j \in Swin!Axes : big[j] = ws[j] * counts[j]
    BY WindowFacts, TRUE \in BOOLEAN
  <1>2. PlaceAt(shape, k, n) = p /\ PlaceAt(shape, k, m) = q
    BY DEF PlaceAt
  <1>3. c \in Swin!Places(counts) /\ r \in Swin!Places(ws) /\ t \in Swin!Places(ws)
    BY <1>1, PlaceOfNumber
  <1> HIDE DEF c, r, t
  <1>4. /\ c \in Offsets /\ r \in Offsets /\ t \in Offsets /\ ws \in Offsets
        /\ Swin!Inside(c, counts) /\ Swin!Inside(r, ws) /\ Swin!Inside(t, ws)
    BY <1>1, <1>3, PlacesAreOffsets, DivisionType
  <1>5. Swin!Times(c, ws) \in Offsets /\ Swin!Times(c, ws)[i] = c[i] * ws[i]
    BY <1>4, OffsetsType
  <1>6. p[i] = c[i] * ws[i] + r[i] /\ q[i] = c[i] * ws[i] + t[i]
    BY <1>4, <1>5, OffsetsType
  <1> HIDE DEF ws, big, counts, p, q
  <1>7. PICK b \in Nat \ {0}, d \in Nat \ {0} : b = ws[i] /\ d = counts[i]
    BY <1>1 DEF Swin!Shapes
  <1>8. PICK x \in 0 .. d - 1, y \in 0 .. b - 1, z \in 0 .. b - 1 :
            x = c[i] /\ y = r[i] /\ z = t[i]
    BY <1>4, <1>7 DEF Swin!Inside
  <1>9. b * x + y >= b * d - b <=> x = d - 1
    BY LastBlock
  <1>10. b * x + z >= b * d - b <=> x = d - 1
    BY LastBlock
  <1>11. b * x \in Int /\ b * x = x * b
    BY TimesInt
  <1>12. p[i] = b * x + y /\ q[i] = b * x + z /\ big[i] = b * d
    BY <1>1, <1>6, <1>7, <1>8, <1>11
  <1>13. InOneWindow(big, ws, p, q, i)
    BY <1>7, <1>9, <1>10, <1>11, <1>12 DEF InOneWindow
  <1> QED
    BY <1>2, <1>13 DEF ws, big

(* Two tokens of a window of a shifted block                               *)
Tokens(shape, a, b, q, v) ==
    /\ q \in Swin!Places(shape) /\ v \in Swin!Places(shape)
    /\ a = Swin!Remainder(Swin!Plus(q, Swin!ShiftOf(shape, TRUE)), shape)
    /\ b = Swin!Remainder(Swin!Plus(v, Swin!ShiftOf(shape, TRUE)), shape)
    /\ \A i \in Swin!Axes : q[i] - v[i] < Swin!WindowOf(shape)[i]
                            /\ v[i] - q[i] < Swin!WindowOf(shape)[i]
Aligned(shape, q, v) ==
    \A i \in Swin!Axes :
        /\ \E c \in Nat : shape[i] = Swin!WindowOf(shape)[i] * c
        /\ q[i] >= shape[i] - Swin!WindowOf(shape)[i]
           <=> v[i] >= shape[i] - Swin!WindowOf(shape)[i]

(* On each axis they are where the shift rolled them.                      *)
Rolled(shape, a, b, q, v, i) ==
    LET n == shape[i]
        w == Swin!WindowOf(shape)[i]
        s == Swin!ShiftOf(shape, TRUE)[i]
    IN /\ a[i] = Rolls(n, s, q[i]) /\ b[i] = Rolls(n, s, v[i])
       /\ NearOnAxis(n, w, s, q[i], v[i])
       /\ Aligned(shape, q, v) => OneSliceOnAxis(n, w, s, q[i], v[i])

(* An axis at a time, they are near, and of one slice if windows fit.      *)
LEMMA TokensRoll ==
    ASSUME NEW shape \in Swin!Shapes, Window \in Swin!Shapes,
           NEW a, NEW b, NEW q, NEW v, Tokens(shape, a, b, q, v), NEW i \in Swin!Axes
    PROVE  Rolled(shape, a, b, q, v, i)
  <1> DEFINE ss == Swin!ShiftOf(shape, TRUE)
  <1>1. ss \in Offsets
    BY WindowFacts, TRUE \in BOOLEAN
  <1>2. /\ q \in Offsets /\ Swin!Inside(q, shape)
        /\ v \in Offsets /\ Swin!Inside(v, shape)
    BY PlacesAreOffsets DEF Tokens
  <1>3. /\ Swin!Plus(q, ss) \in Offsets /\ Swin!Plus(q, ss)[i] = q[i] + ss[i]
        /\ Swin!Plus(v, ss) \in Offsets /\ Swin!Plus(v, ss)[i] = v[i] + ss[i]
    <2> HIDE DEF ss
    <2>1. Swin!Plus(q, ss) \in Offsets /\ Swin!Plus(q, ss)[i] = q[i] + ss[i]
      BY <1>1, <1>2, OffsetsType
    <2>2. Swin!Plus(v, ss) \in Offsets /\ Swin!Plus(v, ss)[i] = v[i] + ss[i]
      BY <1>1, <1>2, OffsetsType
    <2> QED
      BY <2>1, <2>2
  <1>4. /\ Swin!Remainder(Swin!Plus(q, ss), shape)[i] = Swin!Plus(q, ss)[i] % shape[i]
        /\ Swin!Remainder(Swin!Plus(v, ss), shape)[i] = Swin!Plus(v, ss)[i] % shape[i]
    BY <1>3, DivisionType
  <1>5. a[i] = Rolls(shape[i], ss[i], q[i]) /\ b[i] = Rolls(shape[i], ss[i], v[i])
    BY <1>3, <1>4 DEF Tokens, Rolls
  <1> HIDE DEF ss
  <1>f. /\ Swin!WindowOf(shape)[i] \in Nat \ {0} /\ shape[i] \in Nat \ {0}
        /\ ss[i] \in 0 .. shape[i] - 1 /\ ss[i] < Swin!WindowOf(shape)[i]
        /\ ss[i] = 0 \/ Swin!WindowOf(shape)[i] < shape[i]
    BY ShiftFacts DEF ss
  <1>n. PICK n \in Nat \ {0} : n = shape[i]
    BY <1>f
  <1>w. PICK w \in Nat \ {0} : w = Swin!WindowOf(shape)[i]
    BY <1>f
  <1>s. PICK s \in 0 .. n - 1 : s = ss[i]
    BY <1>f, <1>n
  <1>6. /\ n = shape[i] /\ w = Swin!WindowOf(shape)[i] /\ s = ss[i]
        /\ s < w /\ (s = 0 \/ w < n)
    BY <1>f, <1>n, <1>w, <1>s
  <1>7. PICK x \in 0 .. n - 1, y \in 0 .. n - 1 : x = q[i] /\ y = v[i]
    BY <1>2, <1>6 DEF Swin!Inside
  <1>8. x - y < w /\ y - x < w
    BY <1>6, <1>7 DEF Tokens
  <1>9. NearOnAxis(n, w, s, x, y)
    BY <1>6, <1>8, NearAxis
  <1>10. ASSUME Aligned(shape, q, v) PROVE OneSliceOnAxis(n, w, s, x, y)
    <2>1. PICK c \in Nat : n = w * c
      BY <1>6, <1>10 DEF Aligned
    <2>2. x >= n - w <=> y >= n - w
      BY <1>6, <1>7, <1>10 DEF Aligned
    <2>3. s = 0 \/ 2 * w <= n
      <3>1. CASE s # 0
        <4>1. w < n
          BY <1>6, <3>1
        <4>2. c # 0 /\ c # 1
          BY <2>1, <4>1
        <4>3. w * 1 + w <= w * c
          BY <4>2, TimesLess
        <4> QED
          BY <2>1, <4>3
      <3> QED
        BY <3>1
    <2> QED
      BY <1>6, <1>8, <2>2, <2>3, OneSlice
  <1> QED
    BY <1>5, <1>6, <1>7, <1>9, <1>10 DEF ss, Rolled

(* Tokens of one group are near each other, and near ones are of one group *)
(* where the windows fit the image.                                        *)
LEMMA TokensAttend ==
    ASSUME Window \in Swin!Shapes, res \in Swin!Shapes,
           NEW a, NEW b, NEW q, NEW v, Tokens(res, a, b, q, v)
    PROVE  /\ GroupOf(res, q) = GroupOf(res, v) => Swin!Near(a, b)
           /\ Aligned(res, q, v) /\ Swin!Near(a, b) => GroupOf(res, q) = GroupOf(res, v)
  <1> DEFINE n(i) == res[i]
             w(i) == Swin!WindowOf(res)[i]
             s(i) == Swin!ShiftOf(res, TRUE)[i]
             sq(i) == Slice(n(i), w(i), s(i), q[i])
             sv(i) == Slice(n(i), w(i), s(i), v[i])
  <1>1. \A i \in Swin!Axes :
            /\ a[i] = Rolls(n(i), s(i), q[i]) /\ b[i] = Rolls(n(i), s(i), v[i])
            /\ NearOnAxis(n(i), w(i), s(i), q[i], v[i])
            /\ Aligned(res, q, v) => OneSliceOnAxis(n(i), w(i), s(i), q[i], v[i])
    <2>1. \A i \in Swin!Axes : Rolled(res, a, b, q, v, i)
      BY TokensRoll
    <2> QED
      BY <2>1 DEF Rolled
  <1>2. /\ \A i \in Swin!Axes : sq(i) \in 0 .. 2 /\ sv(i) \in 0 .. 2
        /\ GroupOf(res, q) = 9 * sq(1) + 3 * sq(2) + (IF sq(3) = 0 THEN 0 ELSE 2)
        /\ GroupOf(res, v) = 9 * sv(1) + 3 * sv(2) + (IF sv(3) = 0 THEN 0 ELSE 2)
    BY GroupIs
  <1>3. Swin!Near(a, b) <=> /\ Swin!Distance(a[1], b[1]) < w(1)
                            /\ Swin!Distance(a[2], b[2]) < w(2)
                            /\ Swin!Around(a[3], b[3], n(3)) < w(3)
    BY DEF Swin!Near
  <1>4. \A i \in Swin!Axes :
            /\ sq(i) = sv(i) => Swin!Distance(a[i], b[i]) < w(i)
            /\ Swin!Around(a[i], b[i], n(i)) < w(i)
            /\ Aligned(res, q, v) =>
                   /\ Swin!Distance(a[i], b[i]) < w(i) => sq(i) = sv(i)
                   /\ sq(i) = 0 <=> sv(i) = 0
    BY <1>1 DEF NearOnAxis, OneSliceOnAxis, Apart
  <1> HIDE DEF n, w, s, sq, sv
  <1>5. /\ sq(1) \in 0 .. 2 /\ sv(1) \in 0 .. 2 /\ sq(2) \in 0 .. 2 /\ sv(2) \in 0 .. 2
        /\ sq(3) \in 0 .. 2 /\ sv(3) \in 0 .. 2
    BY <1>2 DEF Swin!Axes
  <1>6. GroupOf(res, q) = GroupOf(res, v)
        <=> sq(1) = sv(1) /\ sq(2) = sv(2) /\ (sq(3) = 0 <=> sv(3) = 0)
    BY <1>2, <1>5
  <1>7. 1 \in Swin!Axes /\ 2 \in Swin!Axes /\ 3 \in Swin!Axes
    BY DEF Swin!Axes
  <1> QED
    BY <1>3, <1>4, <1>6, <1>7

(* So the mask follows the globe on every image.                           *)
LEMMA MaskKeeps == Window \in Swin!Shapes /\ res \in Swin!Shapes => Swin!MaskFollowsTheGlobe
  <1> SUFFICES ASSUME Window \in Swin!Shapes, res \in Swin!Shapes
               PROVE  Swin!MaskFollowsTheGlobe
    OBVIOUS
  <1> DEFINE ws == Swin!WindowOf(res)
             big == Swin!PaddedShape(res)
             counts == Swin!WindowCounts(res)
             ss == Swin!ShiftOf(res, TRUE)
             front == Swin!Front(Swin!PadOf(res, ws))
             windows == Swin!ToWindows(res, TRUE)
             groups == Swin!Groups(res)
             row(k) == [n \in 0 .. Swin!Volume(ws) - 1 |-> TokenAt(res, TRUE, PlaceAt(res, k, n))]
             column(k) == [n \in 0 .. Swin!Volume(ws) - 1 |->
                               Held(GroupsOf(res), 27, res, PlaceAt(res, k, n))]
             Attend(a, b, g, h) ==
                 IF Swin!NoToken \in {a, b} THEN g = h <=> a = b
                 ELSE /\ g = h => Swin!Near(a, b)
                      /\ Swin!Near(a, b) /\ big = res => g = h
  <1>1. windows = [k \in 0 .. Swin!Volume(counts) - 1 |-> row(k)]
    BY PartitionAgrees, TRUE \in BOOLEAN
  <1>2. groups = [k \in 0 .. Swin!Volume(counts) - 1 |-> column(k)]
    BY GroupsHold
  <1>3. ASSUME NEW k \in 0 .. Swin!Volume(counts) - 1,
               NEW n \in 0 .. Swin!Volume(ws) - 1, NEW m \in 0 .. Swin!Volume(ws) - 1
        PROVE  Attend(TokenAt(res, TRUE, PlaceAt(res, k, n)), TokenAt(res, TRUE, PlaceAt(res, k, m)),
                      Held(GroupsOf(res), 27, res, PlaceAt(res, k, n)),
                      Held(GroupsOf(res), 27, res, PlaceAt(res, k, m)))
    <2> DEFINE p == PlaceAt(res, k, n)
               o == PlaceAt(res, k, m)
               q == Swin!Minus(p, front)
               v == Swin!Minus(o, front)
               a == TokenAt(res, TRUE, p)
               b == TokenAt(res, TRUE, o)
               g == Held(GroupsOf(res), 27, res, p)
               h == Held(GroupsOf(res), 27, res, o)
               from(x) == Swin!Remainder(Swin!Plus(x, ss), res)
    <2>1. /\ front \in Offsets /\ ss \in Offsets
          /\ ws \in Swin!Shapes /\ counts \in Swin!Shapes /\ big \in Swin!Shapes
          /\ \A i \in Swin!Axes : big[i] = ws[i] * counts[i]
          /\ \A i \in Swin!Axes : front[i] >= 0 /\ res[i] + front[i] <= big[i]
      BY WindowFacts, TRUE \in BOOLEAN
    <2>2. p \in Offsets /\ o \in Offsets
      BY PlaceAtIsInside
    <2>3. \A i \in Swin!Axes : InOneWindow(big, ws, p, o, i)
      BY SameWindow
    <2>4. /\ a = IF Swin!Inside(q, res) THEN from(q) ELSE Swin!NoToken
          /\ b = IF Swin!Inside(v, res) THEN from(v) ELSE Swin!NoToken
      BY DEF TokenAt
    <2>5. /\ g = IF Swin!Inside(q, res) THEN GroupsOf(res)[q] ELSE 27
          /\ h = IF Swin!Inside(v, res) THEN GroupsOf(res)[v] ELSE 27
      BY DEF Held
    <2> HIDE DEF p, o
    <2>6. /\ q \in Offsets /\ v \in Offsets
          /\ \A i \in Swin!Axes : q[i] = p[i] - front[i] /\ v[i] = o[i] - front[i]
      BY <2>1, <2>2, OffsetsType
    <2> HIDE DEF q, v, a, b, g, h, front, ss, ws, big, counts
    <2>7. ASSUME NEW x \in Offsets, Swin!Inside(x, res)
          PROVE  /\ x \in Swin!Places(res)
                 /\ GroupsOf(res)[x] = GroupOf(res, x) /\ GroupOf(res, x) # 27
                 /\ from(x) # Swin!NoToken
      <3>1. x \in Swin!Places(res)
        BY <2>7, PlacesAreInside
      <3>2. GroupsOf(res)[x] = GroupOf(res, x)
        BY <3>1 DEF GroupsOf
      <3>3. GroupOf(res, x) # 27
        <4> DEFINE sl(i) == Slice(res[i], Swin!WindowOf(res)[i], Swin!ShiftOf(res, TRUE)[i], x[i])
        <4>1. /\ \A i \in Swin!Axes : sl(i) \in 0 .. 2
              /\ GroupOf(res, x) = 9 * sl(1) + 3 * sl(2) + (IF sl(3) = 0 THEN 0 ELSE 2)
          BY GroupIs
        <4> HIDE DEF sl
        <4>2. sl(1) \in 0 .. 2 /\ sl(2) \in 0 .. 2
          BY <4>1 DEF Swin!Axes
        <4> QED
          BY <4>1, <4>2
      <3>4. from(x) # Swin!NoToken
        <4>1. Swin!Plus(x, ss) \in Offsets
          BY <2>1, OffsetsType
        <4>2. from(x) \in Offsets
          BY <4>1, DivisionType
        <4>3. Swin!NoToken \notin Offsets
          BY DEF Swin!NoToken, Offsets, Swin!Axes
        <4> QED
          BY <4>2, <4>3
      <3> QED
        BY <3>1, <3>2, <3>3, <3>4
    <2>8. ASSUME ~Swin!Inside(q, res) \/ ~Swin!Inside(v, res) PROVE Attend(a, b, g, h)
      <3>1. Swin!NoToken \in {a, b}
        BY <2>4, <2>8
      <3>2. g = h <=> a = b
        BY <2>4, <2>5, <2>6, <2>7, <2>8
      <3> QED
        BY <3>1, <3>2
    <2>9. ASSUME Swin!Inside(q, res), Swin!Inside(v, res) PROVE Attend(a, b, g, h)
      <3>1. /\ q \in Swin!Places(res) /\ v \in Swin!Places(res)
            /\ a = from(q) /\ b = from(v) /\ g = GroupOf(res, q) /\ h = GroupOf(res, v)
            /\ a # Swin!NoToken /\ b # Swin!NoToken
        BY <2>4, <2>5, <2>6, <2>7, <2>9
      <3>2. \A i \in Swin!Axes : q[i] - v[i] < ws[i] /\ v[i] - q[i] < ws[i]
        <4> TAKE i \in Swin!Axes
        <4>1. p[i] \in Int /\ o[i] \in Int /\ p[i] - o[i] < ws[i] /\ o[i] - p[i] < ws[i]
          BY <2>3 DEF InOneWindow
        <4>2. q[i] = p[i] - front[i] /\ v[i] = o[i] - front[i] /\ front[i] \in Int
          BY <2>1, <2>6 DEF Offsets
        <4>3. q[i] - v[i] = p[i] - o[i] /\ v[i] - q[i] = o[i] - p[i]
          BY <4>1, <4>2
        <4> QED
          BY <4>1, <4>3
      <3>3. Tokens(res, a, b, q, v)
        BY <3>1, <3>2 DEF Tokens, ss, ws
      <3>4. ASSUME big = res PROVE Aligned(res, q, v)
        <4> SUFFICES ASSUME NEW i \in Swin!Axes
                     PROVE  /\ \E c \in Nat : res[i] = ws[i] * c
                            /\ q[i] >= res[i] - ws[i] <=> v[i] >= res[i] - ws[i]
          BY DEF Aligned, ws
        <4>1. res[i] = ws[i] * counts[i] /\ counts[i] \in Nat
          BY <2>1, <3>4 DEF Swin!Shapes
        <4>2. front[i] = 0
          <5>1. front[i] >= 0 /\ res[i] + front[i] <= res[i] /\ front[i] \in Int /\ res[i] \in Nat
            BY <2>1, <3>4 DEF Offsets, Swin!Shapes
          <5> QED
            BY <5>1
        <4>3. /\ p[i] \in Int /\ o[i] \in Int
              /\ p[i] >= res[i] - ws[i] <=> o[i] >= res[i] - ws[i]
          BY <2>3, <3>4 DEF InOneWindow
        <4>4. q[i] = p[i] /\ v[i] = o[i]
          BY <2>6, <4>2, <4>3
        <4> QED
          BY <4>1, <4>3, <4>4
      <3>5. /\ g = h => Swin!Near(a, b)
            /\ Swin!Near(a, b) /\ big = res => g = h
        BY <3>1, <3>3, <3>4, TokensAttend
      <3> QED
        BY <3>1, <3>5
    <2>10. Attend(a, b, g, h)
      BY <2>8, <2>9
    <2> QED
      BY <2>10 DEF a, b, g, h, p, o
  <1> HIDE DEF Attend
  <1>4. ASSUME NEW k \in DOMAIN windows, NEW n \in DOMAIN windows[k], NEW m \in DOMAIN windows[k]
        PROVE  Attend(windows[k][n], windows[k][m], groups[k][n], groups[k][m])
    <2>1. k \in 0 .. Swin!Volume(counts) - 1 /\ windows[k] = row(k) /\ groups[k] = column(k)
      BY <1>1, <1>2
    <2>2. n \in 0 .. Swin!Volume(ws) - 1 /\ m \in 0 .. Swin!Volume(ws) - 1
      BY <2>1
    <2>3. /\ row(k)[n] = TokenAt(res, TRUE, PlaceAt(res, k, n))
          /\ row(k)[m] = TokenAt(res, TRUE, PlaceAt(res, k, m))
          /\ column(k)[n] = Held(GroupsOf(res), 27, res, PlaceAt(res, k, n))
          /\ column(k)[m] = Held(GroupsOf(res), 27, res, PlaceAt(res, k, m))
      BY <2>2
    <2> HIDE DEF row, column, windows, groups
    <2> QED
      BY <1>3, <2>1, <2>2, <2>3
  <1> QED
    BY <1>4 DEF Swin!MaskFollowsTheGlobe, Attend

-----------------------------------------------------------------------------
(* The staged rollout: what each stream will find in place                 *)

(* What a stream will find in place when it has done all that it was given *)
(* so far (`known`), what the host has waited for (`host`), and which      *)
(* tensors were or will be written (`made`): an assertion about the host's *)
(* place in the program.                                                   *)
Assertions ==
    [known : [Staged!Streams -> SUBSET Staged!Tensors],
     host : SUBSET Staged!Tensors, made : SUBSET Staged!Tensors]

Instructions ==
    [do : {"launch"}, on : Staged!Streams, reads : SUBSET Staged!Tensors,
     writes : Staged!Tensors]
    \cup [do : {"wait"}, on : Staged!Streams, for : Staged!Streams]
    \cup [do : {"join"}, on : Staged!Streams]

(* The one that is exempt: nothing orders what it reads *)
Races(p, t) == p.spatial /\ t[1] = "halfEast"

(* An instruction leads from one assertion to another, or to a weaker one. *)
LaunchFollows(p, i, a, b) ==
    /\ i.reads \subseteq a.known[i.on] \cup a.host \/ Races(p, i.writes)
    /\ i.writes[1] = "batch" \/ \A r \in i.reads : r[2] = i.writes[2]
    /\ i.writes \notin a.made
    /\ b.known[i.on] \subseteq (a.known[i.on] \cup a.host) \cup {i.writes}
    /\ \A x \in Staged!Streams \ {i.on} : b.known[x] \subseteq a.known[x]
    /\ b.host \subseteq a.host
    /\ a.made \cup {i.writes} \subseteq b.made
WaitFollows(i, a, b) ==
    /\ b.known[i.on] \subseteq (a.known[i.on] \cup a.host) \cup a.known[i.for]
    /\ \A x \in Staged!Streams \ {i.on} : b.known[x] \subseteq a.known[x]
    /\ b.host \subseteq a.host
    /\ a.made \subseteq b.made
JoinFollows(i, a, b) ==
    /\ \A x \in Staged!Streams : b.known[x] \subseteq a.known[x]
    /\ b.host \subseteq a.host \cup a.known[i.on]
    /\ a.made \subseteq b.made
Follows(p, i, a, b) ==
    /\ i.do = "launch" => LaunchFollows(p, i, a, b)
    /\ i.do = "wait" => WaitFollows(i, a, b)
    /\ i.do = "join" => JoinFollows(i, a, b)

IsOutline(p, program, f) ==
    /\ f \in [0 .. Len(program) -> Assertions]
    /\ \A n \in 1 .. Len(program) : Follows(p, program[n], f[n - 1], f[n])
Leads(p, program, a, b) ==
    /\ program \in Seq(Instructions)
    /\ \E f : /\ IsOutline(p, program, f)
              /\ f[0] = a
              /\ f[Len(program)] = b

(* Tensors that are there, and right but for what races *)
InPlace(t) ==
    \/ tensor[t] = "right"
    \/ /\ plan.spatial
       /\ tensor[t] = "wrong"
       /\ "wrong" \in {tensor[<<"halfEast", t[2]>>], tensor[<<"batch", t[2]>>]}

Items == [reads : SUBSET Staged!Tensors, writes : SUBSET Staged!Tensors,
          for : Staged!Streams, until : Nat]

(* `kn` has what each stream finds in place after each piece of its work.  *)
KnownBefore(kn, x, m, t) == m > 1 /\ t \in kn[x][m - 1]
ItemInv(kn, a, x, m, item) ==
    /\ \A t \in kn[x][m] : \/ t \in item.writes
                           \/ InPlace(t)
                           \/ KnownBefore(kn, x, m, t)
                           \/ item.until > 0 /\ t \in kn[item.for][item.until]
    /\ item.until <= Len(kn[item.for])
    /\ \A t \in item.writes :
          /\ tensor[t] = "none"
          /\ t \in a.made
          /\ \A r \in item.reads :
                /\ t[1] = "batch" \/ r[2] = t[2]
                /\ Races(plan, t) \/ InPlace(r) \/ KnownBefore(kn, x, m, r)
WorkInv(kn, a) ==
    \A x \in Staged!Streams :
        /\ Len(kn[x]) = ended[x] + Len(work[x])
        /\ \A m \in 1 .. ended[x] : \A t \in kn[x][m] : InPlace(t)
        /\ \A n \in 1 .. Len(work[x]) : ItemInv(kn, a, x, ended[x] + n, work[x][n])
OneWriter ==
    \A x, y \in Staged!Streams : \A n \in 1 .. Len(work[x]) : \A m \in 1 .. Len(work[y]) :
        work[x][n].writes \cap work[y][m].writes # {} => x = y /\ n = m
HostInv(kn, a) ==
    /\ \A t \in a.host : InPlace(t)
    /\ \A x \in Staged!Streams : \A t \in a.known[x] :
          InPlace(t) \/ (Len(kn[x]) > 0 /\ t \in kn[x][Len(kn[x])])
    /\ \A t \in Staged!Tensors : tensor[t] # "none" => t \in a.made /\ InPlace(t)

StagedTypes ==
    /\ plan \in Plans
    /\ at \in 1 .. Len(Staged!Program(plan)) + 1
    /\ ended \in [Staged!Streams -> Nat]
    /\ work \in [Staged!Streams -> Seq(Items)]
    /\ tensor \in [Staged!Tensors -> {"none", "right", "wrong"}]
Meets(kn, a) == WorkInv(kn, a) /\ OneWriter /\ HostInv(kn, a)
StagedInv ==
    /\ StagedTypes
    /\ \E f : /\ IsOutline(plan, Staged!Program(plan), f)
              /\ \E kn \in [Staged!Streams -> Seq(SUBSET Staged!Tensors)] : Meets(kn, f[at - 1])

-----------------------------------------------------------------------------
(* Assertions of the rollout *)

Before(s) == {t \in Staged!Tensors : t[2] < s}
Asserted(s, facts, host, roles) ==
    [known |-> [x \in Staged!Streams |-> {t \in Staged!Tensors : t[2] = s /\ <<x, t[1]>> \in facts}],
     host |-> {t \in Staged!Tensors : t[2] = s /\ t[1] \in host},
     made |-> Before(s) \cup {t \in Staged!Tensors : t[2] = s /\ t[1] \in roles}]

(* What is known of a step's tensors is an assertion.                      *)
LEMMA AssertedType ==
    ASSUME NEW s, NEW facts, NEW host, NEW roles
    PROVE  Asserted(s, facts, host, roles) \in Assertions
  BY DEF Asserted, Assertions, Before

(* No instructions lead nowhere,                                           *)
LEMMA LeadsNowhere ==
    ASSUME NEW p, NEW a \in Assertions
    PROVE  Leads(p, <<>>, a, a)
  <1> DEFINE f == [n \in 0 .. 0 |-> a]
  <1>1. IsOutline(p, <<>>, f) /\ f[0] = a
    BY DEF IsOutline
  <1>2. <<>> \in Seq(Instructions) /\ Len(<<>>) = 0
    OBVIOUS
  <1> HIDE DEF f
  <1> QED
    BY <1>1, <1>2 DEF Leads

(* one leads where it says,                                                *)
LEMMA LeadsOne ==
    ASSUME NEW p, NEW a \in Assertions, NEW b \in Assertions, NEW i \in Instructions,
           Follows(p, i, a, b)
    PROVE  Leads(p, <<i>>, a, b)
  <1> DEFINE f == [n \in 0 .. 1 |-> IF n = 0 THEN a ELSE b]
  <1>1. Len(<<i>>) = 1 /\ <<i>>[1] = i /\ <<i>> \in Seq(Instructions)
    OBVIOUS
  <1>2. f \in [0 .. 1 -> Assertions] /\ f[0] = a /\ f[1] = b
    OBVIOUS
  <1> HIDE DEF f
  <1>3. \A n \in 1 .. 1 : n = 1 /\ n - 1 = 0
    OBVIOUS
  <1>4. IsOutline(p, <<i>>, f)
    BY <1>1, <1>2, <1>3 DEF IsOutline
  <1> QED
    BY <1>1, <1>2, <1>4 DEF Leads

(* and what is said after a sequence goes on from where that has led.      *)
LEMMA LeadsOn ==
    ASSUME NEW p, NEW P, NEW Q, NEW a, NEW b, NEW c,
           Leads(p, P, a, b), Leads(p, Q, b, c)
    PROVE  Leads(p, P \o Q, a, c)
  <1>1. PICK f : IsOutline(p, P, f) /\ f[0] = a /\ f[Len(P)] = b
    BY DEF Leads
  <1>2. PICK g : IsOutline(p, Q, g) /\ g[0] = b /\ g[Len(Q)] = c
    BY DEF Leads
  <1>3. P \in Seq(Instructions) /\ Q \in Seq(Instructions)
    BY DEF Leads
  <1>4. Len(P) \in Nat /\ Len(Q) \in Nat
    BY <1>3, LenProperties
  <1>5. /\ P \o Q \in Seq(Instructions)
        /\ Len(P \o Q) = Len(P) + Len(Q)
        /\ \A n \in 1 .. Len(P) + Len(Q) :
              (P \o Q)[n] = IF n <= Len(P) THEN P[n] ELSE Q[n - Len(P)]
    BY <1>3, ConcatProperties
  <1> DEFINE h == [n \in 0 .. Len(P) + Len(Q) |-> IF n <= Len(P) THEN f[n] ELSE g[n - Len(P)]]
  <1>6. /\ f \in [0 .. Len(P) -> Assertions]
        /\ g \in [0 .. Len(Q) -> Assertions]
    BY <1>1, <1>2 DEF IsOutline
  <1>7. h \in [0 .. Len(P) + Len(Q) -> Assertions]
    BY <1>4, <1>6
  <1>8. \A n \in 0 .. Len(P) : h[n] = f[n]
    BY <1>4
  <1>9. \A n \in 0 .. Len(Q) : h[Len(P) + n] = g[n]
    BY <1>1, <1>2, <1>4
  <1> HIDE DEF h
  <1>10. ASSUME NEW n \in 1 .. Len(P) + Len(Q)
         PROVE  Follows(p, (P \o Q)[n], h[n - 1], h[n])
    <2>1. CASE n <= Len(P)
      <3>1. n \in 1 .. Len(P) /\ (P \o Q)[n] = P[n]
        BY <1>4, <1>5, <2>1
      <3>2. h[n] = f[n] /\ h[n - 1] = f[n - 1]
        BY <1>4, <1>8, <2>1
      <3> QED
        BY <1>1, <3>1, <3>2 DEF IsOutline
    <2>2. CASE n > Len(P)
      <3> DEFINE k == n - Len(P)
      <3>1. k \in 1 .. Len(Q) /\ n = Len(P) + k /\ n - 1 = Len(P) + (k - 1) /\ k - 1 \in 0 .. Len(Q)
        BY <1>4, <2>2
      <3>2. (P \o Q)[n] = Q[k] /\ ~(n <= Len(P))
        BY <1>4, <1>5, <2>2
      <3> HIDE DEF k
      <3>3. h[n] = g[k] /\ h[n - 1] = g[k - 1]
        BY <1>9, <3>1, <1>4
      <3> QED
        BY <1>2, <3>1, <3>2, <3>3 DEF IsOutline
    <2> QED
      BY <1>4, <2>1, <2>2
  <1>11. IsOutline(p, P \o Q, h)
    BY <1>5, <1>7, <1>10 DEF IsOutline
  <1>12. h[0] = a /\ h[Len(P) + Len(Q)] = c
    BY <1>1, <1>2, <1>4, <1>8, <1>9
  <1> QED
    BY <1>5, <1>11, <1>12 DEF Leads

(* The recursive function that lays sequences one after the other exists.  *)
LaidOut(seqs, flat, i) == flat[i] = IF i = 1 THEN seqs[i] ELSE flat[i - 1] \o seqs[i]
IsFlat(seqs, flat, m) ==
    flat = [i \in 1 .. m |-> IF i = 1 THEN seqs[i] ELSE flat[i - 1] \o seqs[i]]

(* It does for every length: the least that it did not for would be one    *)
(* longer than one it does for.                                            *)
LEMMA FlatExists ==
    ASSUME NEW seqs, NEW m \in Nat
    PROVE  \E flat : IsFlat(seqs, flat, m)
  <1> DEFINE Bad == {n \in Nat : ~ \E flat : IsFlat(seqs, flat, n)}
  <1>1. SUFFICES ASSUME Bad # {} PROVE FALSE
    OBVIOUS
  <1>2. Bad \in SUBSET Nat
    OBVIOUS
  <1> HIDE DEF Bad
  <1>3. PICK n \in Bad : \A k \in Nat : k < n => k \notin Bad
    BY <1>1, <1>2, SmallestNumber
  <1> USE DEF Bad
  <1>4. n # 0
    <2> DEFINE none == [i \in 1 .. 0 |-> <<>>]
    <2>1. IsFlat(seqs, none, 0)
      BY DEF IsFlat
    <2> QED
      BY <2>1, <1>3
  <1>5. n - 1 \in Nat /\ n - 1 < n
    BY <1>4
  <1>6. PICK flat : IsFlat(seqs, flat, n - 1)
    BY <1>3, <1>5
  <1> DEFINE more == [i \in 1 .. n |->
                        IF i < n THEN flat[i]
                        ELSE IF i = 1 THEN seqs[i] ELSE flat[i - 1] \o seqs[i]]
  <1>7. IsFlat(seqs, more, n)
    <2>1. \A i \in 1 .. n - 1 : more[i] = flat[i]
      BY <1>5
    <2>2. \A i \in 1 .. n : i # 1 => i - 1 \in 1 .. n - 1
      BY <1>5
    <2>3. \A i \in 1 .. n - 1 : LaidOut(seqs, flat, i)
      BY <1>6 DEF IsFlat, LaidOut
    <2>4. \A i \in 1 .. n - 1 : LaidOut(seqs, more, i)
      BY <2>1, <2>2, <2>3 DEF LaidOut
    <2>5. LaidOut(seqs, more, n)
      BY <1>4, <1>5, <2>1, <2>2 DEF LaidOut
    <2>6. \A i \in 1 .. n : i \in 1 .. n - 1 \/ i = n
      BY <1>5
    <2>7. \A i \in 1 .. n : LaidOut(seqs, more, i)
      BY <2>4, <2>5, <2>6
    <2>8. more = [i \in 1 .. n |-> more[i]]
      OBVIOUS
    <2> HIDE DEF more
    <2> QED
      BY <2>7, <2>8 DEF LaidOut, IsFlat
  <1> QED
    BY <1>3, <1>7

(* Sequences that lead each from where the one before it has led lead, one *)
(* after the other, from the first place to the last.                      *)
LEMMA LeadsThrough ==
    ASSUME NEW p, NEW seqs \in Seq(Seq(Instructions)), NEW m \in Nat, m = Len(seqs),
           NEW state, \A i \in 0 .. m : state[i] \in Assertions,
           \A i \in 1 .. m : Leads(p, seqs[i], state[i - 1], state[i])
    PROVE  Leads(p, Staged!FlattenSeq(seqs), state[0], state[m])
  <1>1. Len(seqs) = m
    OBVIOUS
  <1>2. CASE m = 0
    <2>1. seqs = <<>>
      BY <1>2, EmptySeq
    <2>2. Staged!FlattenSeq(seqs) = <<>>
      BY <1>1, <1>2, <2>1 DEF Staged!FlattenSeq
    <2> QED
      BY <1>2, <2>2, LeadsNowhere
  <1>3. CASE m # 0
    <2> DEFINE flat == CHOOSE g : IsFlat(seqs, g, m)
    <2>1. IsFlat(seqs, flat, m)
      BY FlatExists
    <2>2. Staged!FlattenSeq(seqs) = flat[m]
      BY <1>1, <1>3 DEF Staged!FlattenSeq, IsFlat
    <2> HIDE DEF flat
    <2>3. \A i \in 1 .. m : LaidOut(seqs, flat, i)
      BY <2>1 DEF IsFlat, LaidOut
    <2> DEFINE Bad == {n \in Nat : n \in 1 .. m /\ ~Leads(p, flat[n], state[0], state[n])}
    <2>4. SUFFICES ASSUME Bad # {} PROVE FALSE
      BY <1>3, <2>2
    <2>5. Bad \in SUBSET Nat
      OBVIOUS
    <2> HIDE DEF Bad
    <2>6. PICK n \in Bad : \A k \in Nat : k < n => k \notin Bad
      BY <2>4, <2>5, SmallestNumber
    <2> USE DEF Bad
    <2>7. n \in 1 .. m /\ n - 1 \in Nat /\ n - 1 < n
      BY <2>6
    <2>8. CASE n = 1
      <3>1. flat[n] = seqs[1]
        BY <2>3, <2>7, <2>8 DEF LaidOut
      <3> QED
        BY <2>6, <2>7, <2>8, <3>1
    <2>9. CASE n # 1
      <3>1. flat[n] = flat[n - 1] \o seqs[n]
        BY <2>3, <2>7, <2>9 DEF LaidOut
      <3>2. n - 1 \in 1 .. m
        BY <2>7, <2>9
      <3>3. Leads(p, flat[n - 1], state[0], state[n - 1])
        BY <2>6, <2>7, <3>2
      <3>4. Leads(p, seqs[n], state[n - 1], state[n])
        BY <2>7
      <3> QED
        BY <2>6, <3>1, <3>3, <3>4, LeadsOn
    <2> QED
      BY <2>8, <2>9
  <1> QED
    BY <1>2, <1>3

-----------------------------------------------------------------------------
(* Rules for the instructions of a step                                    *)

(* Work may be launched on a stream where it reads what the stream or the  *)
(* host knows to be in place, or is what races; its result is then known   *)
(* to the stream, and so is what the host knew.                            *)
LEMMA LaunchRule ==
    ASSUME NEW p, NEW s \in 1 .. RolloutSteps, NEW x \in Staged!Streams,
           NEW reads \in SUBSET Staged!Tensors, NEW w \in Staged!Roles,
           NEW facts, NEW host, NEW roles, NEW facts2, NEW host2, NEW roles2,
           \A r \in reads : r[2] = s,
           \/ \A r \in reads : <<x, r[1]>> \in facts \/ r[1] \in host
           \/ p.spatial /\ w = "halfEast",
           w \notin roles,
           \A y \in Staged!Streams : \A v \in Staged!Roles :
              <<y, v>> \in facts2 => <<y, v>> \in facts \/ (y = x /\ (v = w \/ v \in host)),
           host2 \subseteq host, roles \cup {w} \subseteq roles2
    PROVE  Leads(p, Staged!Launch(x, reads, <<w, s>>),
                 Asserted(s, facts, host, roles), Asserted(s, facts2, host2, roles2))
  <1> DEFINE a == Asserted(s, facts, host, roles)
             b == Asserted(s, facts2, host2, roles2)
             i == [do |-> "launch", on |-> x, reads |-> reads, writes |-> <<w, s>>]
  <1>1. a \in Assertions /\ b \in Assertions
    BY AssertedType
  <1>2. <<w, s>> \in Staged!Tensors /\ i \in Instructions
    BY DEF Staged!Tensors, Instructions
  <1>3. \A t \in Staged!Tensors : t = <<t[1], t[2]>> /\ t[1] \in Staged!Roles /\ t[2] \in 1 .. RolloutSteps
    BY DEF Staged!Tensors
  <1>4. /\ a.host = {t \in Staged!Tensors : t[2] = s /\ t[1] \in host}
        /\ b.host = {t \in Staged!Tensors : t[2] = s /\ t[1] \in host2}
        /\ \A y \in Staged!Streams :
              /\ a.known[y] = {t \in Staged!Tensors : t[2] = s /\ <<y, t[1]>> \in facts}
              /\ b.known[y] = {t \in Staged!Tensors : t[2] = s /\ <<y, t[1]>> \in facts2}
        /\ a.made = Before(s) \cup {t \in Staged!Tensors : t[2] = s /\ t[1] \in roles}
        /\ b.made = Before(s) \cup {t \in Staged!Tensors : t[2] = s /\ t[1] \in roles2}
    BY DEF Asserted
  <1> HIDE DEF a, b
  <1>5. LaunchFollows(p, i, a, b)
    <2>1. reads \subseteq a.known[x] \cup a.host \/ Races(p, <<w, s>>)
      <3>1. CASE \A r \in reads : <<x, r[1]>> \in facts \/ r[1] \in host
        <4>1. ASSUME NEW r \in reads PROVE r \in a.known[x] \cup a.host
          <5>1. r \in Staged!Tensors /\ r[2] = s
            OBVIOUS
          <5>2. <<x, r[1]>> \in facts \/ r[1] \in host
            BY <3>1
          <5> QED
            BY <1>4, <5>1, <5>2
        <4> QED
          BY <4>1
      <3>2. CASE p.spatial /\ w = "halfEast"
        BY <3>2 DEF Races
      <3> QED
        BY <3>1, <3>2
    <2>2. <<w, s>> \notin a.made
      BY <1>4 DEF Before
    <2>3. b.known[x] \subseteq (a.known[x] \cup a.host) \cup {<<w, s>>}
      <3>1. ASSUME NEW t \in b.known[x] PROVE t \in (a.known[x] \cup a.host) \cup {<<w, s>>}
        <4>1. t \in Staged!Tensors /\ t[2] = s /\ <<x, t[1]>> \in facts2 /\ t[1] \in Staged!Roles
          BY <1>3, <1>4
        <4>2. <<x, t[1]>> \in facts \/ t[1] = w \/ t[1] \in host
          BY <4>1
        <4> QED
          BY <1>3, <1>4, <4>1, <4>2
      <3> QED
        BY <3>1
    <2>4. ASSUME NEW y \in Staged!Streams \ {x}, NEW t \in b.known[y]
          PROVE  t \in a.known[y]
      <3>1. t \in Staged!Tensors /\ t[2] = s /\ <<y, t[1]>> \in facts2 /\ t[1] \in Staged!Roles
        BY <1>3, <1>4
      <3> QED
        BY <1>4, <3>1
    <2>5. b.host \subseteq a.host
      BY <1>4
    <2>6. a.made \cup {<<w, s>>} \subseteq b.made
      BY <1>2, <1>4
    <2> QED
      BY <2>1, <2>2, <2>3, <2>4, <2>5, <2>6 DEF LaunchFollows
  <1>6. Follows(p, i, a, b)
    BY <1>5 DEF Follows
  <1> HIDE DEF i
  <1>7. Leads(p, <<i>>, a, b)
    BY <1>1, <1>2, <1>6, LeadsOne
  <1> QED
    BY <1>7 DEF a, b, i, Staged!Launch

(* A stream that waits for another knows what that one did.                *)
LEMMA WaitRule ==
    ASSUME NEW p, NEW s \in 1 .. RolloutSteps, NEW x \in Staged!Streams,
           NEW other \in Staged!Streams,
           NEW facts, NEW host, NEW roles, NEW facts2,
           \A y \in Staged!Streams : \A v \in Staged!Roles :
              <<y, v>> \in facts2 =>
                  \/ <<y, v>> \in facts
                  \/ y = x /\ (<<other, v>> \in facts \/ v \in host)
    PROVE  Leads(p, Staged!Wait(x, other),
                 Asserted(s, facts, host, roles), Asserted(s, facts2, host, roles))
  <1> DEFINE a == Asserted(s, facts, host, roles)
             b == Asserted(s, facts2, host, roles)
             i == [do |-> "wait", on |-> x, for |-> other]
  <1>1. a \in Assertions /\ b \in Assertions
    BY AssertedType
  <1>2. i \in Instructions
    BY DEF Instructions
  <1>3. \A t \in Staged!Tensors : t = <<t[1], t[2]>> /\ t[1] \in Staged!Roles /\ t[2] \in 1 .. RolloutSteps
    BY DEF Staged!Tensors
  <1>4. /\ a.host = {t \in Staged!Tensors : t[2] = s /\ t[1] \in host}
        /\ b.host = a.host
        /\ \A y \in Staged!Streams :
              /\ a.known[y] = {t \in Staged!Tensors : t[2] = s /\ <<y, t[1]>> \in facts}
              /\ b.known[y] = {t \in Staged!Tensors : t[2] = s /\ <<y, t[1]>> \in facts2}
        /\ a.made = b.made
    BY DEF Asserted
  <1> HIDE DEF a, b
  <1>5. WaitFollows(i, a, b)
    <2>1. ASSUME NEW t \in b.known[x]
          PROVE  t \in (a.known[x] \cup a.host) \cup a.known[other]
      <3>1. t \in Staged!Tensors /\ t[2] = s /\ <<x, t[1]>> \in facts2 /\ t[1] \in Staged!Roles
        BY <1>3, <1>4
      <3>2. <<x, t[1]>> \in facts \/ <<other, t[1]>> \in facts \/ t[1] \in host
        BY <3>1
      <3> QED
        BY <1>4, <3>1, <3>2
    <2>2. ASSUME NEW y \in Staged!Streams \ {x}, NEW t \in b.known[y]
          PROVE  t \in a.known[y]
      <3>1. t \in Staged!Tensors /\ t[2] = s /\ <<y, t[1]>> \in facts2 /\ t[1] \in Staged!Roles
        BY <1>3, <1>4
      <3> QED
        BY <1>4, <3>1
    <2> QED
      BY <1>4, <2>1, <2>2 DEF WaitFollows
  <1>6. Follows(p, i, a, b)
    BY <1>5 DEF Follows
  <1> HIDE DEF i
  <1>7. Leads(p, <<i>>, a, b)
    BY <1>1, <1>2, <1>6, LeadsOne
  <1> QED
    BY <1>7 DEF a, b, i, Staged!Wait

(* A host that waits for a stream knows what that one did.                 *)
LEMMA JoinRule ==
    ASSUME NEW p, NEW s \in 1 .. RolloutSteps, NEW x \in Staged!Streams,
           NEW facts, NEW host, NEW roles, NEW facts2, NEW host2,
           facts2 \subseteq facts,
           \A v \in Staged!Roles : v \in host2 => v \in host \/ <<x, v>> \in facts
    PROVE  Leads(p, Staged!Join(x),
                 Asserted(s, facts, host, roles), Asserted(s, facts2, host2, roles))
  <1> DEFINE a == Asserted(s, facts, host, roles)
             b == Asserted(s, facts2, host2, roles)
             i == [do |-> "join", on |-> x]
  <1>1. a \in Assertions /\ b \in Assertions
    BY AssertedType
  <1>2. i \in Instructions
    BY DEF Instructions
  <1>3. \A t \in Staged!Tensors : t = <<t[1], t[2]>> /\ t[1] \in Staged!Roles /\ t[2] \in 1 .. RolloutSteps
    BY DEF Staged!Tensors
  <1>4. /\ a.host = {t \in Staged!Tensors : t[2] = s /\ t[1] \in host}
        /\ b.host = {t \in Staged!Tensors : t[2] = s /\ t[1] \in host2}
        /\ \A y \in Staged!Streams :
              /\ a.known[y] = {t \in Staged!Tensors : t[2] = s /\ <<y, t[1]>> \in facts}
              /\ b.known[y] = {t \in Staged!Tensors : t[2] = s /\ <<y, t[1]>> \in facts2}
        /\ a.made = b.made
    BY DEF Asserted
  <1> HIDE DEF a, b
  <1>5. JoinFollows(i, a, b)
    <2>1. b.host \subseteq a.host \cup a.known[x]
      BY <1>3, <1>4
    <2>2. \A y \in Staged!Streams : b.known[y] \subseteq a.known[y]
      BY <1>4
    <2> QED
      BY <1>4, <2>1, <2>2 DEF JoinFollows
  <1>6. Follows(p, i, a, b)
    BY <1>5 DEF Follows
  <1> HIDE DEF i
  <1>7. Leads(p, <<i>>, a, b)
    BY <1>1, <1>2, <1>6, LeadsOne
  <1> QED
    BY <1>7 DEF a, b, i, Staged!Join

(* A copy is there for the stream that it was made for.                    *)
LEMMA CopyRule ==
    ASSUME NEW p, NEW s \in 1 .. RolloutSteps, NEW from \in Staged!Streams,
           NEW to \in Staged!Streams, NEW v \in Staged!Roles, NEW w \in Staged!Roles,
           NEW facts, NEW host, NEW roles, NEW facts2, NEW roles2,
           <<from, v>> \in facts \/ v \in host, w \notin roles,
           facts2 \subseteq facts \cup {<<to, w>>},
           roles \cup {w} \subseteq roles2
    PROVE  Leads(p, Staged!Copy(from, to, <<v, s>>, <<w, s>>),
                 Asserted(s, facts, host, roles), Asserted(s, facts2, host, roles2))
  <1> DEFINE made == facts \cup {<<from, w>>}
  <1>1. Leads(p, Staged!Wait(from, to), Asserted(s, facts, host, roles),
              Asserted(s, facts, host, roles))
    BY WaitRule
  <1>2. {<<v, s>>} \in SUBSET Staged!Tensors
    BY DEF Staged!Tensors
  <1>3. Leads(p, Staged!Launch(from, {<<v, s>>}, <<w, s>>), Asserted(s, facts, host, roles),
              Asserted(s, made, host, roles2))
    <2>1. \A r \in {<<v, s>>} : r[2] = s /\ (<<from, r[1]>> \in facts \/ r[1] \in host)
      OBVIOUS
    <2>2. \A y \in Staged!Streams : \A u \in Staged!Roles :
              <<y, u>> \in made => <<y, u>> \in facts \/ (y = from /\ (u = w \/ u \in host))
      OBVIOUS
    <2> HIDE DEF made
    <2> QED
      BY <1>2, <2>1, <2>2, LaunchRule
  <1>4. Leads(p, Staged!Wait(to, from), Asserted(s, made, host, roles2),
              Asserted(s, facts2, host, roles2))
    <2>1. \A y \in Staged!Streams : \A u \in Staged!Roles :
              <<y, u>> \in facts2 =>
                  \/ <<y, u>> \in made
                  \/ y = to /\ (<<from, u>> \in made \/ u \in host)
      OBVIOUS
    <2> HIDE DEF made
    <2> QED
      BY <2>1, WaitRule
  <1> QED
    BY <1>1, <1>3, <1>4, LeadsOn DEF Staged!Copy

(* Nothing is done where the condition does not hold.                      *)
LEMMA WhenRule ==
    ASSUME NEW p, NEW condition \in BOOLEAN, NEW P, NEW a \in Assertions, NEW b,
           condition => Leads(p, P, a, b), ~condition => b = a
    PROVE  Leads(p, Staged!When(condition, P), a, b)
  <1>1. CASE condition
    BY <1>1 DEF Staged!When
  <1>2. CASE ~condition
    BY <1>2, LeadsNowhere DEF Staged!When
  <1> QED
    BY <1>1, <1>2

(* Work that reads one or two tensors of its step                          *)
LEMMA WorkRule ==
    ASSUME NEW p, NEW s \in 1 .. RolloutSteps, NEW x \in Staged!Streams,
           NEW u \in Staged!Roles, NEW v \in Staged!Roles, NEW w \in Staged!Roles,
           NEW facts, NEW host, NEW roles, NEW facts2, NEW roles2,
           \/ /\ <<x, u>> \in facts \/ u \in host
              /\ <<x, v>> \in facts \/ v \in host
           \/ p.spatial /\ w = "halfEast",
           w \notin roles, facts2 \subseteq facts \cup {<<x, w>>}, roles \cup {w} \subseteq roles2
    PROVE  Leads(p, Staged!Launch(x, {<<u, s>>, <<v, s>>}, <<w, s>>),
                 Asserted(s, facts, host, roles), Asserted(s, facts2, host, roles2))
  <1> DEFINE reads == {<<u, s>>, <<v, s>>}
  <1>1. reads \in SUBSET Staged!Tensors
    BY DEF Staged!Tensors
  <1>2. \A r \in reads : r[2] = s /\ (r[1] = u \/ r[1] = v)
    OBVIOUS
  <1>3. \A y \in Staged!Streams : \A r \in Staged!Roles :
            <<y, r>> \in facts2 => <<y, r>> \in facts \/ (y = x /\ (r = w \/ r \in host))
    OBVIOUS
  <1>4. \/ \A r \in reads : <<x, r[1]>> \in facts \/ r[1] \in host
        \/ p.spatial /\ w = "halfEast"
    BY <1>2
  <1>5. host \subseteq host /\ roles \cup {w} \subseteq roles2
    OBVIOUS
  <1> HIDE DEF reads
  <1>6. Leads(p, Staged!Launch(x, reads, <<w, s>>), Asserted(s, facts, host, roles),
              Asserted(s, facts2, host, roles2))
    BY <1>1, <1>2, <1>3, <1>4, <1>5, LaunchRule
  <1> QED
    BY <1>6 DEF reads

(* The streams a plan runs its stages on are streams, and stages on the    *)
(* same device share one.                                                  *)
LEMMA StreamsOfPlan ==
    ASSUME NEW p \in Plans
    PROVE  /\ Staged!Main(p.encoder) \in Staged!Streams
           /\ Staged!Main(p.backbone) \in Staged!Streams
           /\ Staged!Main(p.decoder) \in Staged!Streams
           /\ Staged!Side(p.encoder) \in Staged!Streams
           /\ Staged!Side(p.backbone) \in Staged!Streams
           /\ Staged!Egress(p) \in Staged!Streams
  <1>1. /\ p.encoder \in {p[stage] : stage \in Staged!Stages}
        /\ p.backbone \in {p[stage] : stage \in Staged!Stages}
        /\ p.decoder \in {p[stage] : stage \in Staged!Stages}
    BY DEF Staged!Stages
  <1>2. /\ p.encoder \in Staged!Devices
        /\ p.backbone \in Staged!Devices
        /\ p.decoder \in Staged!Devices
    BY <1>1 DEF Staged!Devices
  <1> QED
    BY <1>2 DEF Staged!Streams, Staged!Main, Staged!Side, Staged!Egress

(* Where the stages of a step leave things *)
AtStep(p, s) ==
    Asserted(s, {<<Staged!Main(p.encoder), "batch">>}, {}, {"batch"})
Encoded(p, s) ==
    Asserted(s, {<<Staged!Main(p.encoder), "batch">>, <<Staged!Main(p.encoder), "latent">>},
             {}, {"batch", "latent"})
Deep(p, s) ==
    Asserted(s, {<<Staged!Main(p.encoder), "batch">>, <<Staged!Main(p.backbone), "deep">>},
             {}, {"batch", "latent", "arrived", "deep"})
Predicted(p, s) ==
    Asserted(s, {<<Staged!Main(p.encoder), "batch">>, <<Staged!Main(p.encoder), "result">>},
             {}, Staged!Roles \ {"owned"})
Exported(p, s) ==
    Asserted(s, {<<Staged!Main(p.encoder), "batch">>, <<Staged!Main(p.encoder), "result">>},
             {}, Staged!Roles)

(* The encoder makes the latent image of the batch (staged_rollout.py),    *)
LEMMA EncoderRule ==
    ASSUME NEW p \in Plans, NEW s \in 1 .. RolloutSteps
    PROVE  Leads(p, Staged!EncoderStage(p, s), AtStep(p, s), Encoded(p, s))
  <1> DEFINE Me == Staged!Main(p.encoder)
  <1>1. Me \in Staged!Streams
    BY StreamsOfPlan
  <1> HIDE DEF Me
  <1>2. {<<"batch", s>>} \in SUBSET Staged!Tensors /\ "latent" \in Staged!Roles
    BY DEF Staged!Tensors, Staged!Roles
  <1>3. \A r \in {<<"batch", s>>} : r[2] = s /\ <<Me, r[1]>> \in {<<Me, "batch">>}
    OBVIOUS
  <1>4. Leads(p, Staged!Launch(Me, {<<"batch", s>>}, <<"latent", s>>),
              Asserted(s, {<<Me, "batch">>}, {}, {"batch"}),
              Asserted(s, {<<Me, "batch">>, <<Me, "latent">>}, {}, {"batch", "latent"}))
    BY <1>1, <1>2, <1>3, LaunchRule
  <1> QED
    BY <1>4 DEF Me, Staged!EncoderStage, AtStep, Encoded

(* the backbone what the decoder starts from, after a copy if it has a     *)
(* device of its own,                                                      *)
LEMMA BackboneRule ==
    ASSUME NEW p \in Plans, NEW s \in 1 .. RolloutSteps
    PROVE  Leads(p, Staged!BackboneStage(p, s), Encoded(p, s), Deep(p, s))
  <1> DEFINE Me == Staged!Main(p.encoder)
             Mb == Staged!Main(p.backbone)
             apart == p.backbone # p.encoder
             x == IF p.backbone = p.encoder THEN "latent" ELSE "arrived"
             facts == {<<Me, "batch">>, <<Mb, x>>}
             roles == IF apart THEN {"batch", "latent", "arrived"} ELSE {"batch", "latent"}
  <1>1. Me \in Staged!Streams /\ Mb \in Staged!Streams /\ (~apart => Me = Mb)
    BY StreamsOfPlan
  <1>2. <<x, s>> = IF p.backbone = p.encoder THEN <<"latent", s>> ELSE <<"arrived", s>>
    OBVIOUS
  <1>3. x \in Staged!Roles /\ "latent" \in Staged!Roles /\ "deep" \in Staged!Roles
    BY DEF Staged!Roles
  <1>4. Encoded(p, s) = Asserted(s, {<<Me, "batch">>, <<Me, "latent">>}, {}, {"batch", "latent"})
    BY DEF Encoded
  <1>5. Deep(p, s) = Asserted(s, {<<Me, "batch">>, <<Mb, "deep">>}, {},
                              {"batch", "latent", "arrived", "deep"})
    BY DEF Deep
  <1>6. apart => x = "arrived"
    OBVIOUS
  <1>7. ~apart => x = "latent"
    OBVIOUS
  <1>8. Staged!BackboneStage(p, s) =
           Staged!When(apart, Staged!Copy(Me, Mb, <<"latent", s>>, <<x, s>>))
           \o Staged!Launch(Mb, {<<x, s>>}, <<"deep", s>>)
    BY <1>2 DEF Staged!BackboneStage
  <1> HIDE DEF Me, Mb
  <1>9. Leads(p, Staged!When(apart, Staged!Copy(Me, Mb, <<"latent", s>>, <<x, s>>)),
              Asserted(s, {<<Me, "batch">>, <<Me, "latent">>}, {}, {"batch", "latent"}),
              Asserted(s, facts, {}, roles))
    <2>1. ASSUME apart
          PROVE  Leads(p, Staged!Copy(Me, Mb, <<"latent", s>>, <<x, s>>),
                    Asserted(s, {<<Me, "batch">>, <<Me, "latent">>}, {}, {"batch", "latent"}),
                    Asserted(s, facts, {}, roles))
      <3>1. facts \subseteq {<<Me, "batch">>, <<Me, "latent">>} \cup {<<Mb, x>>}
        OBVIOUS
      <3>2. {"batch", "latent"} \cup {x} \subseteq roles /\ x \notin {"batch", "latent"}
        BY <2>1
      <3> HIDE DEF facts, roles, x
      <3> QED
        BY <1>1, <1>3, <3>1, <3>2, CopyRule
    <2>2. ~apart => facts = {<<Me, "batch">>, <<Me, "latent">>} /\ roles = {"batch", "latent"}
      BY <1>1
    <2> HIDE DEF facts, roles, x, apart
    <2>3. apart \in BOOLEAN
      BY DEF apart
    <2> QED
      BY <2>1, <2>2, <2>3, WhenRule, AssertedType
  <1>10. Leads(p, Staged!Launch(Mb, {<<x, s>>}, <<"deep", s>>), Asserted(s, facts, {}, roles),
               Asserted(s, {<<Me, "batch">>, <<Mb, "deep">>}, {},
                        {"batch", "latent", "arrived", "deep"}))
    <2>1. {<<x, s>>} \in SUBSET Staged!Tensors
      BY <1>3 DEF Staged!Tensors
    <2> DEFINE reads == {<<x, s>>}
               facts2 == {<<Me, "batch">>, <<Mb, "deep">>}
               roles2 == {"batch", "latent", "arrived", "deep"}
    <2>2. /\ \A r \in reads : r[2] = s
          /\ \A r \in reads : <<Mb, r[1]>> \in facts \/ r[1] \in {}
      OBVIOUS
    <2>3. "deep" \notin roles /\ roles \cup {"deep"} \subseteq roles2
      OBVIOUS
    <2>4. \A y \in Staged!Streams : \A u \in Staged!Roles :
              <<y, u>> \in facts2 =>
                  <<y, u>> \in facts \/ (y = Mb /\ (u = "deep" \/ u \in {}))
      OBVIOUS
    <2>5. reads \in SUBSET Staged!Tensors /\ {} \subseteq {}
      BY <2>1
    <2> HIDE DEF facts, roles, x, reads, facts2, roles2
    <2>6. Leads(p, Staged!Launch(Mb, reads, <<"deep", s>>), Asserted(s, facts, {}, roles),
                Asserted(s, facts2, {}, roles2))
      BY <1>1, <1>3, <2>2, <2>3, <2>4, <2>5, LaunchRule
    <2> QED
      BY <2>6 DEF reads, facts2, roles2
  <1> HIDE DEF apart, x, facts, roles
  <1> QED
    BY <1>4, <1>5, <1>8, <1>9, <1>10, LeadsOn

(* a decoder on one device the prediction, with a copy of all that it      *)
(* reads,                                                                  *)
LEMMA UnifiedRule ==
    ASSUME NEW p \in Plans, NEW s \in 1 .. RolloutSteps
    PROVE  Leads(p, Staged!UnifiedDecoder(p, s), Deep(p, s), Predicted(p, s))
  <1> DEFINE Me == Staged!Main(p.encoder)
             Mb == Staged!Main(p.backbone)
             Md == Staged!Main(p.decoder)
             moved == p.decoder # p.backbone
             away == p.decoder # p.encoder
             x == IF p.decoder = p.backbone THEN "deep" ELSE "local"
             batch == IF p.decoder = p.encoder THEN "batch" ELSE "history"
             facts0 == {<<Me, "batch">>, <<Mb, "deep">>}
             facts1 == {<<Me, "batch">>, <<Md, x>>}
             facts2 == {<<Me, "batch">>, <<Md, x>>, <<Md, batch>>}
             facts3 == {<<Me, "batch">>, <<Md, "decoded">>}
             facts4 == {<<Me, "batch">>, <<Me, "result">>}
             roles0 == {"batch", "latent", "arrived", "deep"}
             roles1 == IF moved THEN roles0 \cup {"local"} ELSE roles0
             roles2 == IF away THEN roles1 \cup {"history"} ELSE roles1
             roles3 == Staged!Roles \ {"owned", "result"}
             roles4 == Staged!Roles \ {"owned"}
             First == Staged!When(moved, Staged!Copy(Mb, Md, <<"deep", s>>, <<x, s>>))
             Second == Staged!When(away, Staged!Copy(Me, Md, <<"batch", s>>, <<batch, s>>))
             Third == Staged!Launch(Md, {<<x, s>>, <<batch, s>>}, <<"decoded", s>>)
             Fourth == IF p.decoder = p.encoder
                       THEN Staged!Launch(Me, {<<"decoded", s>>}, <<"result", s>>)
                       ELSE Staged!Copy(Md, Me, <<"decoded", s>>, <<"result", s>>)
  <1>1. /\ Me \in Staged!Streams /\ Mb \in Staged!Streams /\ Md \in Staged!Streams
        /\ (~moved => Md = Mb) /\ (~away => Md = Me)
    BY StreamsOfPlan
  <1>2. /\ <<x, s>> = IF p.decoder = p.backbone THEN <<"deep", s>> ELSE <<"local", s>>
        /\ <<batch, s>> = IF p.decoder = p.encoder THEN <<"batch", s>> ELSE <<"history", s>>
    OBVIOUS
  <1>3. /\ x \in Staged!Roles /\ batch \in Staged!Roles
        /\ {"batch", "deep", "decoded", "result"} \subseteq Staged!Roles
    BY DEF Staged!Roles
  <1>4. /\ (moved => x = "local") /\ (~moved => x = "deep")
        /\ (away => batch = "history") /\ (~away => batch = "batch")
    OBVIOUS
  <1>5. Deep(p, s) = Asserted(s, facts0, {}, roles0)
    BY DEF Deep
  <1>6. Predicted(p, s) = Asserted(s, facts4, {}, roles4)
    BY DEF Predicted
  <1>7. Staged!UnifiedDecoder(p, s) = ((First \o Second) \o Third) \o Fourth
    BY <1>2 DEF Staged!UnifiedDecoder
  <1>8. moved \in BOOLEAN /\ away \in BOOLEAN /\ (away <=> ~(p.decoder = p.encoder))
    OBVIOUS
  <1> HIDE DEF Me, Mb, Md, moved, away, x, batch
  <1>9. Leads(p, First, Asserted(s, facts0, {}, roles0), Asserted(s, facts1, {}, roles1))
    <2>1. ASSUME moved
          PROVE  Leads(p, Staged!Copy(Mb, Md, <<"deep", s>>, <<x, s>>),
                       Asserted(s, facts0, {}, roles0), Asserted(s, facts1, {}, roles1))
      <3>1. facts1 \subseteq facts0 \cup {<<Md, x>>} /\ <<Mb, "deep">> \in facts0
        OBVIOUS
      <3>2. roles0 \cup {x} \subseteq roles1 /\ x \notin roles0
        BY <1>4, <2>1
      <3> HIDE DEF facts0, facts1, roles0, roles1
      <3> QED
        BY <1>1, <1>3, <3>1, <3>2, CopyRule
    <2>2. ~moved => facts1 = facts0 /\ roles1 = roles0
      BY <1>1, <1>4
    <2> HIDE DEF facts0, facts1, roles0, roles1
    <2> QED
      BY <1>8, <2>1, <2>2, WhenRule, AssertedType
  <1>10. Leads(p, Second, Asserted(s, facts1, {}, roles1), Asserted(s, facts2, {}, roles2))
    <2>1. ASSUME away
          PROVE  Leads(p, Staged!Copy(Me, Md, <<"batch", s>>, <<batch, s>>),
                       Asserted(s, facts1, {}, roles1), Asserted(s, facts2, {}, roles2))
      <3>1. facts2 \subseteq facts1 \cup {<<Md, batch>>} /\ <<Me, "batch">> \in facts1
        OBVIOUS
      <3>2. roles1 \cup {batch} \subseteq roles2 /\ batch \notin roles1
        BY <1>4, <2>1
      <3> HIDE DEF facts1, facts2, roles1, roles2
      <3> QED
        BY <1>1, <1>3, <3>1, <3>2, CopyRule
    <2>2. ~away => facts2 = facts1 /\ roles2 = roles1
      BY <1>1, <1>4
    <2> HIDE DEF facts1, facts2, roles1, roles2
    <2> QED
      BY <1>8, <2>1, <2>2, WhenRule, AssertedType
  <1>11. Leads(p, Third, Asserted(s, facts2, {}, roles2), Asserted(s, facts3, {}, roles3))
    <2>1. facts3 \subseteq facts2 \cup {<<Md, "decoded">>}
      OBVIOUS
    <2>2. <<Md, x>> \in facts2 /\ <<Md, batch>> \in facts2
      OBVIOUS
    <2>3. "decoded" \notin roles2 /\ roles2 \cup {"decoded"} \subseteq roles3
      BY DEF Staged!Roles
    <2> HIDE DEF facts2, facts3, roles2, roles3, x, batch
    <2> QED
      BY <1>1, <1>3, <2>1, <2>2, <2>3, WorkRule
  <1>12. Leads(p, Fourth, Asserted(s, facts3, {}, roles3), Asserted(s, facts4, {}, roles4))
    <2>1. "result" \notin roles3 /\ roles3 \cup {"result"} \subseteq roles4
      BY <1>3
    <2>2. CASE away
      <3>1. facts4 \subseteq facts3 \cup {<<Me, "result">>} /\ <<Md, "decoded">> \in facts3
        OBVIOUS
      <3>2. Fourth = Staged!Copy(Md, Me, <<"decoded", s>>, <<"result", s>>)
        BY <1>8, <2>2
      <3> HIDE DEF facts3, facts4, roles3, roles4, Fourth
      <3> QED
        BY <1>1, <1>3, <2>1, <3>1, <3>2, CopyRule
    <2>3. CASE ~away
      <3>1. {<<"decoded", s>>} \in SUBSET Staged!Tensors
        BY <1>3 DEF Staged!Tensors
      <3>2. \A r \in {<<"decoded", s>>} : r[2] = s /\ <<Me, r[1]>> \in facts3
        BY <1>1, <2>3
      <3>3. \A y \in Staged!Streams : \A u \in Staged!Roles :
                <<y, u>> \in facts4 => <<y, u>> \in facts3 \/ (y = Me /\ u = "result")
        OBVIOUS
      <3>4. Fourth = Staged!Launch(Me, {<<"decoded", s>>}, <<"result", s>>)
        BY <1>8, <2>3
      <3> HIDE DEF facts3, facts4, roles3, roles4, Fourth
      <3> QED
        BY <1>1, <1>3, <2>1, <3>1, <3>2, <3>3, <3>4, LaunchRule
    <2> QED
      BY <2>2, <2>3
  <1> HIDE DEF First, Second, Third, Fourth, facts0, facts1, facts2, facts3, facts4,
               roles0, roles1, roles2, roles3, roles4
  <1> QED
    BY <1>5, <1>6, <1>7, <1>9, <1>10, <1>11, <1>12, LeadsOn

(* Waiting for the copy of the levels does no harm, done or not.           *)
LEMMA ColdRule ==
    ASSUME NEW p, NEW s \in 1 .. RolloutSteps, NEW x \in Staged!Streams,
           NEW facts, NEW host, NEW roles
    PROVE  Leads(p, Staged!ColdLevels(s, x), Asserted(s, facts, host, roles),
                 Asserted(s, facts, host, roles))
  <1>1. Leads(p, Staged!Join(x), Asserted(s, facts, host, roles),
              Asserted(s, facts, host, roles))
    BY JoinRule
  <1>2. (s = 1) \in BOOLEAN
    OBVIOUS
  <1> QED
    BY <1>1, <1>2, WhenRule, AssertedType DEF Staged!ColdLevels

(* and one in two halves does too: all but the east half reads what is     *)
(* ordered before it.                                                      *)
LEMMA SplitRule ==
    ASSUME NEW p \in Plans, p.spatial, NEW s \in 1 .. RolloutSteps
    PROVE  Leads(p, Staged!SplitDecoder(p, s), Deep(p, s), Predicted(p, s))
  <1> DEFINE Me == Staged!Main(p.encoder)
             Mb == Staged!Main(p.backbone)
             Se == Staged!Side(p.encoder)
             Sb == Staged!Side(p.backbone)
             batch == <<Me, "batch">>
             F0 == {batch, <<Mb, "deep">>}
             R0 == {"batch", "latent", "arrived", "deep"}
             F1 == {batch, <<Mb, "deep">>, <<Mb, "west">>}
             R1 == R0 \cup {"west"}
             F2 == {batch, <<Mb, "west">>}
             R2 == R1 \cup {"east"}
             F3 == {batch, <<Se, "local">>}
             R3 == R2 \cup {"local"}
             F4 == {batch, <<Se, "halfWest">>}
             R4 == R3 \cup {"halfWest"}
             F5 == {batch, <<Se, "halfWest">>, <<Sb, "halfEast">>}
             R5 == R4 \cup {"halfEast"}
             H == {"halfWest", "halfEast"}
             F6 == {batch}
             F7 == {batch, <<Me, "eastHere">>}
             R7 == R5 \cup {"eastHere"}
             F8 == {batch, <<Me, "decoded">>}
             R8 == R7 \cup {"decoded"}
             F9 == {batch, <<Me, "result">>}
             R9 == Staged!Roles \ {"owned"}
             L(y, u, v, w) == Staged!Launch(y, {<<u, s>>, <<v, s>>}, <<w, s>>)
             A(f, h, r) == Asserted(s, f, h, r)
  <1>1. /\ Me \in Staged!Streams /\ Mb \in Staged!Streams
        /\ Se \in Staged!Streams /\ Sb \in Staged!Streams
    BY StreamsOfPlan
  <1>2. /\ "batch" \in Staged!Roles /\ "deep" \in Staged!Roles /\ "west" \in Staged!Roles
        /\ "east" \in Staged!Roles /\ "local" \in Staged!Roles /\ "halfWest" \in Staged!Roles
        /\ "halfEast" \in Staged!Roles /\ "eastHere" \in Staged!Roles
        /\ "decoded" \in Staged!Roles /\ "result" \in Staged!Roles
    BY DEF Staged!Roles
  <1>3. /\ Deep(p, s) = A(F0, {}, R0)
        /\ Predicted(p, s) = Asserted(s, F9, {}, Staged!Roles \ {"owned"})
    BY DEF Deep, Predicted
  <1>4. /\ "west" \notin R0 /\ "east" \notin R1 /\ "local" \notin R2 /\ "halfWest" \notin R3
        /\ "halfEast" \notin R4 /\ "eastHere" \notin R5 /\ "decoded" \notin R7
        /\ "result" \notin R8
    OBVIOUS
  <1>5. R8 \cup {"result"} \subseteq R9
    BY DEF Staged!Roles
  <1>6. /\ F1 \subseteq F0 \cup {<<Mb, "west">>} /\ <<Mb, "deep">> \in F0
        /\ F2 \subseteq F1 \cup {<<Mb, "east">>} /\ <<Mb, "deep">> \in F1
        /\ F3 \subseteq F2 \cup {<<Se, "local">>} /\ <<Mb, "west">> \in F2
        /\ F4 \subseteq F3 \cup {<<Se, "halfWest">>} /\ <<Se, "local">> \in F3
        /\ F5 \subseteq F4 \cup {<<Sb, "halfEast">>}
        /\ F6 \subseteq F5 /\ <<Se, "halfWest">> \in F5 /\ <<Sb, "halfEast">> \in F5
        /\ F7 \subseteq F6 \cup {<<Me, "eastHere">>} /\ "halfEast" \in H /\ "halfWest" \in H
        /\ F8 \subseteq F7 \cup {<<Me, "decoded">>} /\ <<Me, "eastHere">> \in F7
        /\ F9 \subseteq F8 \cup {<<Me, "result">>} /\ <<Me, "decoded">> \in F8
        /\ <<Me, "batch">> \in F8
    OBVIOUS
  <1>7. \A v \in H : v = "halfWest" \/ v = "halfEast"
    OBVIOUS
  <1>8. Staged!SplitDecoder(p, s) =
            ((((((((((L(Mb, "deep", "deep", "west")
            \o L(Mb, "deep", "deep", "east"))
            \o Staged!Copy(Mb, Se, <<"west", s>>, <<"local", s>>))
            \o Staged!ColdLevels(s, Se))
            \o L(Se, "local", "local", "halfWest"))
            \o Staged!ColdLevels(s, Sb))
            \o L(Sb, "east", "east", "halfEast"))
            \o (Staged!Join(Se) \o Staged!Join(Sb)))
            \o Staged!Copy(Mb, Me, <<"halfEast", s>>, <<"eastHere", s>>))
            \o L(Me, "halfWest", "eastHere", "decoded"))
            \o Staged!Join(Me))
            \o L(Me, "decoded", "batch", "result")
    BY DEF Staged!SplitDecoder, Staged!HalvesReady
  <1> HIDE DEF Me, Mb, Se, Sb, F0, F1, F2, F3, F4, F5, F6, F7, F8, F9,
               R0, R1, R2, R3, R4, R5, R7, R8, R9, H
  <1>9. Leads(p, L(Mb, "deep", "deep", "west"), A(F0, {}, R0), A(F1, {}, R1))
    BY <1>1, <1>2, <1>4, <1>6, WorkRule DEF R1
  <1>10. Leads(p, L(Mb, "deep", "deep", "east"), A(F1, {}, R1), A(F2, {}, R2))
    BY <1>1, <1>2, <1>4, <1>6, WorkRule DEF R2
  <1>11. Leads(p, Staged!Copy(Mb, Se, <<"west", s>>, <<"local", s>>), A(F2, {}, R2), A(F3, {}, R3))
    BY <1>1, <1>2, <1>4, <1>6, CopyRule DEF R3
  <1>12. Leads(p, Staged!ColdLevels(s, Se), A(F3, {}, R3), A(F3, {}, R3))
    BY <1>1, ColdRule
  <1>13. Leads(p, L(Se, "local", "local", "halfWest"), A(F3, {}, R3), A(F4, {}, R4))
    BY <1>1, <1>2, <1>4, <1>6, WorkRule DEF R4
  <1>14. Leads(p, Staged!ColdLevels(s, Sb), A(F4, {}, R4), A(F4, {}, R4))
    BY <1>1, ColdRule
  <1>15. Leads(p, L(Sb, "east", "east", "halfEast"), A(F4, {}, R4), A(F5, {}, R5))
    BY <1>1, <1>2, <1>4, <1>6, WorkRule DEF R5
  <1>16. Leads(p, Staged!Join(Se), A(F5, {}, R5), A(F5, {"halfWest"}, R5))
    BY <1>1, <1>6, JoinRule
  <1>17. Leads(p, Staged!Join(Sb), A(F5, {"halfWest"}, R5), A(F6, H, R5))
    BY <1>1, <1>6, <1>7, JoinRule
  <1>18. Leads(p, Staged!Copy(Mb, Me, <<"halfEast", s>>, <<"eastHere", s>>),
               A(F6, H, R5), A(F7, H, R7))
    BY <1>1, <1>2, <1>4, <1>6, CopyRule DEF R7
  <1>19. Leads(p, L(Me, "halfWest", "eastHere", "decoded"), A(F7, H, R7), A(F8, H, R8))
    BY <1>1, <1>2, <1>4, <1>6, WorkRule DEF R8
  <1>20. Leads(p, Staged!Join(Me), A(F8, H, R8), A(F8, {}, R8))
    BY <1>1, JoinRule
  <1>21. Leads(p, L(Me, "decoded", "batch", "result"), A(F8, {}, R8), A(F9, {}, R9))
    BY <1>1, <1>2, <1>4, <1>5, <1>6, WorkRule
  <1> HIDE DEF A, L
  <1>22. Leads(p, ((((L(Mb, "deep", "deep", "west") \o L(Mb, "deep", "deep", "east"))
                    \o Staged!Copy(Mb, Se, <<"west", s>>, <<"local", s>>))
                    \o Staged!ColdLevels(s, Se))
                    \o L(Se, "local", "local", "halfWest"))
                    \o Staged!ColdLevels(s, Sb), A(F0, {}, R0), A(F4, {}, R4))
    BY <1>9, <1>10, <1>11, <1>12, <1>13, <1>14, LeadsOn
  <1>23. Leads(p, Staged!Join(Se) \o Staged!Join(Sb), A(F5, {}, R5), A(F6, H, R5))
    BY <1>16, <1>17, LeadsOn
  <1>24. Leads(p, Staged!SplitDecoder(p, s), A(F0, {}, R0), A(F9, {}, R9))
    BY <1>8, <1>22, <1>15, <1>23, <1>18, <1>19, <1>20, <1>21, LeadsOn
  <1> QED
    BY <1>3, <1>24 DEF A, R9

(* The export's copy waits for the prediction, and the host for the copy;  *)
LEMMA EgressRule ==
    ASSUME NEW p \in Plans, NEW s \in 1 .. RolloutSteps
    PROVE  Leads(p, Staged!EgressCopy(p, s), Predicted(p, s), Exported(p, s))
  <1> DEFINE Me == Staged!Main(p.encoder)
             Eg == Staged!Egress(p)
             F == {<<Me, "batch">>, <<Me, "result">>}
             G == F \cup {<<Eg, "result">>}
             R == Staged!Roles \ {"owned"}
  <1>1. Me \in Staged!Streams /\ Eg \in Staged!Streams
    BY StreamsOfPlan
  <1>2. "owned" \in Staged!Roles /\ "result" \in Staged!Roles
    BY DEF Staged!Roles
  <1>3. R \cup {"owned"} = Staged!Roles /\ "owned" \notin R
    BY <1>2
  <1>4. Predicted(p, s) = Asserted(s, F, {}, R) /\ Exported(p, s) = Asserted(s, F, {}, Staged!Roles)
    BY DEF Predicted, Exported
  <1>5. Staged!EgressCopy(p, s) =
           (Staged!Wait(Eg, Me) \o Staged!Launch(Eg, {<<"result", s>>, <<"result", s>>}, <<"owned", s>>))
           \o Staged!Join(Eg)
    BY DEF Staged!EgressCopy
  <1>6. /\ <<Me, "result">> \in F /\ <<Eg, "result">> \in G
        /\ F \subseteq G \cup {<<Eg, "owned">>} /\ F \subseteq F
        /\ \A y \in Staged!Streams : \A v \in Staged!Roles :
              <<y, v>> \in G => <<y, v>> \in F \/ (y = Eg /\ <<Me, v>> \in F)
    OBVIOUS
  <1> HIDE DEF Me, Eg, F, G, R
  <1>7. Leads(p, Staged!Wait(Eg, Me), Asserted(s, F, {}, R), Asserted(s, G, {}, R))
    BY <1>1, <1>6, WaitRule
  <1>8. Leads(p, Staged!Launch(Eg, {<<"result", s>>, <<"result", s>>}, <<"owned", s>>),
              Asserted(s, G, {}, R), Asserted(s, F, {}, R \cup {"owned"}))
    BY <1>1, <1>2, <1>3, <1>6, WorkRule
  <1>9. Leads(p, Staged!Join(Eg), Asserted(s, F, {}, Staged!Roles), Asserted(s, F, {}, Staged!Roles))
    BY <1>1, <1>6, JoinRule
  <1> QED
    BY <1>3, <1>4, <1>5, <1>7, <1>8, <1>9, LeadsOn

(* the next batch is made of the last one and the prediction.              *)
LEMMA AdvanceRule ==
    ASSUME RolloutSteps \in Nat, NEW p \in Plans, NEW s \in 1 .. RolloutSteps, s < RolloutSteps
    PROVE  Leads(p, Staged!Advance(p, s), Exported(p, s), AtStep(p, s + 1))
  <1> DEFINE Me == Staged!Main(p.encoder)
             a == Exported(p, s)
             b == AtStep(p, s + 1)
             i == [do |-> "launch", on |-> Me, reads |-> {<<"batch", s>>, <<"result", s>>},
                   writes |-> <<"batch", s + 1>>]
  <1>1. Me \in Staged!Streams /\ s \in Nat /\ s + 1 \in 1 .. RolloutSteps
    BY StreamsOfPlan
  <1>2. a \in Assertions /\ b \in Assertions
    BY AssertedType DEF Exported, AtStep
  <1>3. /\ i \in Instructions
        /\ <<"batch", s>> \in Staged!Tensors /\ <<"result", s>> \in Staged!Tensors
        /\ <<"batch", s + 1>> \in Staged!Tensors
    BY <1>1 DEF Instructions, Staged!Tensors, Staged!Roles
  <1>4. \A t \in Staged!Tensors : /\ t = <<t[1], t[2]>>
                                  /\ t[1] \in Staged!Roles /\ t[2] \in 1 .. RolloutSteps
    BY DEF Staged!Tensors
  <1>5. /\ a.host = {} /\ b.host = {}
        /\ a.known[Me] = {t \in Staged!Tensors :
               t[2] = s /\ <<Me, t[1]>> \in {<<Me, "batch">>, <<Me, "result">>}}
        /\ \A x \in Staged!Streams : b.known[x] =
               {t \in Staged!Tensors : t[2] = s + 1 /\ <<x, t[1]>> \in {<<Me, "batch">>}}
        /\ a.made = Before(s) \cup {t \in Staged!Tensors : t[2] = s /\ t[1] \in Staged!Roles}
        /\ b.made = Before(s + 1) \cup {t \in Staged!Tensors : t[2] = s + 1 /\ t[1] \in {"batch"}}
    BY <1>1 DEF Exported, AtStep, Asserted
  <1>6. Staged!Advance(p, s) = <<i>>
    BY DEF Staged!Advance, Staged!When, Staged!Launch
  <1> HIDE DEF Me, a, b
  <1>7. LaunchFollows(p, i, a, b)
    <2>1. {<<"batch", s>>, <<"result", s>>} \subseteq a.known[Me]
      BY <1>3, <1>5
    <2>2. <<"batch", s + 1>> \notin a.made
      BY <1>1, <1>5 DEF Before
    <2>3. \A t \in b.known[Me] : t = <<"batch", s + 1>>
      BY <1>1, <1>4, <1>5
    <2>4. \A x \in Staged!Streams \ {Me} : b.known[x] = {}
      BY <1>5
    <2>5. \A t \in a.made : t \in Before(s + 1)
      BY <1>1, <1>4, <1>5 DEF Before
    <2>6. <<"batch", s + 1>> \in b.made
      BY <1>3, <1>5
    <2> QED
      BY <1>5, <2>1, <2>2, <2>3, <2>4, <2>5, <2>6 DEF LaunchFollows
  <1>8. Follows(p, i, a, b)
    BY <1>7 DEF Follows
  <1> HIDE DEF i
  <1> QED
    BY <1>2, <1>3, <1>6, <1>8, LeadsOne DEF a, b

(* A step leads from its batch to the next one's, or to the end.           *)
AfterStep(p, n) ==
    IF n > 0 /\ n = RolloutSteps THEN Exported(p, n) ELSE AtStep(p, n + 1)

(* So every step leads from its batch to the next one's,                   *)
LEMMA StepRule ==
    ASSUME Staged!StagedAssumption, NEW p \in Plans, NEW s \in 1 .. RolloutSteps
    PROVE  Leads(p, Staged!EncoderStage(p, s) \o Staged!BackboneStage(p, s)
                    \o Staged!DecoderStage(p, s) \o Staged!EgressCopy(p, s)
                    \o Staged!Advance(p, s), AfterStep(p, s - 1), AfterStep(p, s))
  <1>1. RolloutSteps \in Nat /\ s - 1 # RolloutSteps /\ (s - 1) + 1 = s
    BY DEF Staged!StagedAssumption
  <1>2. AfterStep(p, s - 1) = AtStep(p, s)
    BY <1>1 DEF AfterStep
  <1>3. Leads(p, Staged!DecoderStage(p, s), Deep(p, s), Predicted(p, s))
    <2>1. CASE p.spatial
      BY <2>1, SplitRule DEF Staged!DecoderStage
    <2>2. CASE ~p.spatial
      BY <2>2, UnifiedRule DEF Staged!DecoderStage
    <2> QED
      BY <2>1, <2>2
  <1>4. Leads(p, Staged!Advance(p, s), Exported(p, s), AfterStep(p, s))
    <2>1. CASE s < RolloutSteps
      <3>1. AfterStep(p, s) = AtStep(p, s + 1)
        BY <1>1, <2>1 DEF AfterStep
      <3> QED
        BY <1>1, <2>1, <3>1, AdvanceRule
    <2>2. CASE ~(s < RolloutSteps)
      <3>1. s = RolloutSteps /\ s > 0
        BY <1>1, <2>2
      <3>2. AfterStep(p, s) = Exported(p, s) /\ Exported(p, s) \in Assertions
        BY <3>1, AssertedType DEF AfterStep, Exported
      <3>3. Staged!Advance(p, s) = <<>>
        BY <2>2 DEF Staged!Advance, Staged!When
      <3> QED
        BY <3>2, <3>3, LeadsNowhere
    <2> QED
      BY <2>1, <2>2
  <1> QED
    BY <1>2, <1>3, <1>4, EncoderRule, BackboneRule, EgressRule, LeadsOn

(* and the program from the first batch to the last export.                *)
LEMMA ProgramRule ==
    ASSUME Staged!StagedAssumption, NEW p \in Plans
    PROVE  Leads(p, Staged!Program(p), AtStep(p, 1), AfterStep(p, RolloutSteps))
  <1> DEFINE seqs == [s \in 1 .. RolloutSteps |->
                         Staged!EncoderStage(p, s) \o Staged!BackboneStage(p, s)
                         \o Staged!DecoderStage(p, s) \o Staged!EgressCopy(p, s)
                         \o Staged!Advance(p, s)]
             state == [n \in 0 .. RolloutSteps |-> AfterStep(p, n)]
  <1>1. RolloutSteps \in Nat
    BY DEF Staged!StagedAssumption
  <1>2. Staged!Program(p) = Staged!FlattenSeq(seqs)
    BY DEF Staged!Program
  <1>3. \A s \in 1 .. RolloutSteps : Leads(p, seqs[s], AfterStep(p, s - 1), AfterStep(p, s))
    BY StepRule
  <1>4. \A s \in 1 .. RolloutSteps : seqs[s] \in Seq(Instructions)
    BY <1>3 DEF Leads
  <1>5. \A n \in 0 .. RolloutSteps : state[n] = AfterStep(p, n)
    OBVIOUS
  <1>6. \A n \in 0 .. RolloutSteps : AfterStep(p, n) \in Assertions
    BY AssertedType DEF AfterStep, AtStep, Exported
  <1>7. DOMAIN seqs = 1 .. RolloutSteps /\ seqs = [s \in 1 .. RolloutSteps |-> seqs[s]]
    OBVIOUS
  <1> HIDE DEF seqs, state
  <1>8. seqs \in [1 .. RolloutSteps -> Seq(Instructions)]
    BY <1>4, <1>7
  <1>9. seqs \in Seq(Seq(Instructions))
    BY <1>1, <1>8, SeqDef
  <1>10. Len(seqs) = RolloutSteps
    BY <1>1, <1>7, <1>9, LenProperties
  <1>11. \A s \in 1 .. RolloutSteps : s - 1 \in 0 .. RolloutSteps /\ s \in 0 .. RolloutSteps
    BY <1>1
  <1>12. \A s \in 1 .. RolloutSteps : Leads(p, seqs[s], state[s - 1], state[s])
    BY <1>3, <1>5, <1>11
  <1>13. Leads(p, Staged!FlattenSeq(seqs), state[0], state[RolloutSteps])
    BY <1>1, <1>5, <1>6, <1>9, <1>10, <1>12, LeadsThrough
  <1>14. state[0] = AtStep(p, 1) /\ state[RolloutSteps] = AfterStep(p, RolloutSteps)
    BY <1>1, <1>5 DEF AfterStep
  <1> QED
    BY <1>2, <1>13, <1>14

-----------------------------------------------------------------------------
(* The host                                                                *)

SameTensors == UNCHANGED <<plan, tensor>>
Extends(kn, more) ==
    \A y \in Staged!Streams :
        /\ Len(kn[y]) <= Len(more[y])
        /\ \A j \in 1 .. Len(kn[y]) : more[y][j] = kn[y][j]

(* What is in place stays so as long as nothing is written,                *)
LEMMA InPlaceStays ==
    ASSUME SameTensors
    PROVE  \A t : InPlace(t)' <=> InPlace(t)
  BY DEF SameTensors, InPlace

(* and what is said of a piece of work goes on holding when others follow  *)
(* it.                                                                     *)
LEMMA ItemStays ==
    ASSUME NEW kn \in [Staged!Streams -> Seq(SUBSET Staged!Tensors)],
           NEW more \in [Staged!Streams -> Seq(SUBSET Staged!Tensors)], Extends(kn, more),
           NEW a, NEW b, a.made \subseteq b.made, SameTensors,
           NEW y \in Staged!Streams, NEW m \in 1 .. Len(kn[y]), NEW item \in Items,
           ItemInv(kn, a, y, m, item)
    PROVE  ItemInv(more, b, y, m, item)'
  <1>1. /\ Len(kn[y]) \in Nat /\ Len(kn[item.for]) \in Nat /\ Len(more[item.for]) \in Nat
        /\ item.for \in Staged!Streams /\ item.until \in Nat
    BY LenProperties DEF Items
  <1>2. more[y][m] = kn[y][m]
    BY DEF Extends
  <1>3. m > 1 => more[y][m - 1] = kn[y][m - 1]
    BY <1>1 DEF Extends
  <1>4. \A t : KnownBefore(kn, y, m, t) => KnownBefore(more, y, m, t)
    BY <1>3 DEF KnownBefore
  <1>5. item.until <= Len(kn[item.for]) /\ Len(kn[item.for]) <= Len(more[item.for])
    <2>1. item.until <= Len(kn[item.for])
      BY DEF ItemInv
    <2>2. Len(kn[item.for]) <= Len(more[item.for])
      BY <1>1 DEF Extends
    <2> QED
      BY <2>1, <2>2
  <1>6. item.until > 0 => more[item.for][item.until] = kn[item.for][item.until]
    <2>1. PICK z \in Staged!Streams : z = item.for
      BY <1>1
    <2>2. item.until > 0 => item.until \in 1 .. Len(kn[z])
      BY <1>1, <1>5, <2>1
    <2> QED
      BY <2>1, <2>2 DEF Extends
  <1>7. \A t : InPlace(t)' <=> InPlace(t)
    BY InPlaceStays
  <1>8. \A t \in more[y][m] : \/ t \in item.writes
                              \/ InPlace(t)'
                              \/ KnownBefore(more, y, m, t)
                              \/ item.until > 0 /\ t \in more[item.for][item.until]
    BY <1>2, <1>4, <1>6, <1>7 DEF ItemInv
  <1>9. item.until <= Len(more[item.for])
    BY <1>1, <1>5
  <1>10. \A t \in item.writes :
            /\ tensor'[t] = "none"
            /\ t \in b.made
            /\ \A r \in item.reads :
                  /\ t[1] = "batch" \/ r[2] = t[2]
                  /\ Races(plan', t) \/ InPlace(r)' \/ KnownBefore(more, y, m, r)
    BY <1>4, <1>7 DEF ItemInv, SameTensors
  <1>11. \A t : KnownBefore(more, y, m, t)' <=> KnownBefore(more, y, m, t)
    BY DEF KnownBefore
  <1> QED
    BY <1>8, <1>9, <1>10, <1>11 DEF ItemInv, Races

(* The assertion after an instruction claims no more than what was claimed *)
(* before it and what the item it appends to x's work brings.              *)
Enqueues(kn, a, b, x, item) ==
    /\ b.host \subseteq a.host /\ a.made \subseteq b.made
    /\ \A y \in Staged!Streams \ {x} : b.known[y] \subseteq a.known[y]
    /\ item.until <= Len(kn[item.for])
    /\ \A t \in b.known[x] :
          \/ t \in item.writes
          \/ t \in a.host
          \/ t \in a.known[x]
          \/ item.until = Len(kn[item.for]) /\ t \in a.known[item.for]
    /\ \A t \in item.writes :
          /\ t \in b.made \ a.made /\ t \in Staged!Tensors
          /\ item.writes = {t}
          /\ \A r \in item.reads :
                /\ t[1] = "batch" \/ r[2] = t[2]
                /\ Races(plan, t) \/ r \in a.known[x] \/ r \in a.host

(* Work that is appended, with what its stream will know after it          *)
LEMMA EnqueueKeeps ==
    ASSUME StagedTypes, NEW kn \in [Staged!Streams -> Seq(SUBSET Staged!Tensors)],
           NEW a \in Assertions, NEW b \in Assertions, Meets(kn, a),
           NEW x \in Staged!Streams, NEW item \in Items,
           work' = [work EXCEPT ![x] = Append(@, item)],
           UNCHANGED <<plan, ended, tensor>>, Enqueues(kn, a, b, x, item)
    PROVE  \E more \in [Staged!Streams -> Seq(SUBSET Staged!Tensors)] : Meets(more, b)'
  <1> USE DEF Enqueues
  <1> DEFINE more == [kn EXCEPT ![x] = Append(@, b.known[x])]
             new == Len(kn[x]) + 1
  <1>0. /\ work \in [Staged!Streams -> Seq(Items)] /\ ended \in [Staged!Streams -> Nat]
        /\ \A y \in Staged!Streams : /\ Len(kn[y]) \in Nat /\ Len(work[y]) \in Nat
                                     /\ ended[y] \in Nat /\ kn[y] \in Seq(SUBSET Staged!Tensors)
                                     /\ work[y] \in Seq(Items)
    BY LenProperties DEF StagedTypes
  <1>1. b.known[x] \in SUBSET Staged!Tensors
    BY DEF Assertions
  <1>2. /\ Append(kn[x], b.known[x]) \in Seq(SUBSET Staged!Tensors)
        /\ Len(Append(kn[x], b.known[x])) = new
        /\ \A j \in 1 .. Len(kn[x]) : Append(kn[x], b.known[x])[j] = kn[x][j]
        /\ Append(kn[x], b.known[x])[new] = b.known[x]
    BY <1>0, <1>1, AppendProperties
  <1>3. /\ more \in [Staged!Streams -> Seq(SUBSET Staged!Tensors)]
        /\ more[x] = Append(kn[x], b.known[x])
        /\ \A y \in Staged!Streams \ {x} : more[y] = kn[y]
    BY <1>2
  <1> HIDE DEF more
  <1>4. Extends(kn, more)
    <2>1. Len(kn[x]) <= Len(more[x]) /\ \A j \in 1 .. Len(kn[x]) : more[x][j] = kn[x][j]
      BY <1>0, <1>2, <1>3
    <2>2. ASSUME NEW y \in Staged!Streams \ {x}
          PROVE  Len(kn[y]) <= Len(more[y]) /\ \A j \in 1 .. Len(kn[y]) : more[y][j] = kn[y][j]
      <3>1. more[y] = kn[y] /\ Len(kn[y]) \in Nat
        BY <1>0, <1>3
      <3> QED
        BY <3>1
    <2> QED
      BY <2>1, <2>2 DEF Extends
  <1>5. /\ work'[x] = Append(work[x], item)
        /\ \A y \in Staged!Streams \ {x} : work'[y] = work[y]
    BY <1>0
  <1>6. /\ Len(work'[x]) = Len(work[x]) + 1
        /\ \A n \in 1 .. Len(work[x]) : work'[x][n] = work[x][n]
        /\ work'[x][Len(work[x]) + 1] = item
    BY <1>0, <1>5, AppendProperties
  <1>7. SameTensors
    BY DEF SameTensors
  <1>8. WorkInv(kn, a) /\ OneWriter /\ HostInv(kn, a)
    BY DEF Meets
  <1>9. \A y \in Staged!Streams : \A n \in 1 .. Len(work[y]) :
            work[y][n] \in Items /\ ItemInv(kn, a, y, ended[y] + n, work[y][n])
    BY <1>0, <1>8, ElementOfSeq DEF WorkInv
  <1>10. \A y \in Staged!Streams : Len(kn[y]) = ended[y] + Len(work[y])
    BY <1>8 DEF WorkInv
  <1>11. ASSUME NEW y \in Staged!Streams, NEW n \in 1 .. Len(work[y])
         PROVE  ItemInv(more, b, y, ended[y] + n, work[y][n])'
    <2>1. ended[y] + n \in 1 .. Len(kn[y])
      <3>1. Len(kn[y]) = ended[y] + Len(work[y]) /\ ended[y] \in Nat /\ Len(work[y]) \in Nat
        BY <1>0, <1>10
      <3>2. n \in Nat /\ 1 <= n /\ n <= Len(work[y])
        BY <3>1
      <3> QED
        BY <3>1, <3>2
    <2>2. PICK m \in 1 .. Len(kn[y]), one \in Items : m = ended[y] + n /\ one = work[y][n]
      BY <1>9, <2>1
    <2>3. ItemInv(kn, a, y, m, one)
      BY <1>9, <2>2
    <2>4. ItemInv(more, b, y, m, one)'
      BY <1>3, <1>4, <1>7, <2>3, ItemStays
    <2>5. work'[y][n] = one /\ ended'[y] + n = m
      BY <1>5, <1>6, <2>2
    <2> QED
      BY <2>4, <2>5
  <1>12. ended'[x] + (Len(work[x]) + 1) = new
    BY <1>0, <1>10
  <1>13. ASSUME NEW t, t \in a.host PROVE InPlace(t)'
    BY <1>7, <1>8, <1>13, InPlaceStays DEF HostInv
  <1>14. ASSUME NEW t, NEW y \in Staged!Streams, t \in a.known[y]
         PROVE  InPlace(t)' \/ (Len(kn[y]) > 0 /\ t \in kn[y][Len(kn[y])])
    BY <1>7, <1>8, <1>14, InPlaceStays DEF HostInv
  <1>15. ASSUME NEW t, t \in a.known[x]
         PROVE  InPlace(t)' \/ KnownBefore(more, x, new, t)
    <2>1. Len(kn[x]) > 0 /\ t \in kn[x][Len(kn[x])] => KnownBefore(more, x, new, t)
      BY <1>0, <1>2, <1>3 DEF KnownBefore
    <2> QED
      BY <1>14, <1>15, <2>1
  <1>16. more[x][new] = b.known[x] /\ Len(more[x]) = new
    BY <1>2, <1>3
  <1>17. item.for \in Staged!Streams /\ item.until \in Nat
    BY DEF Items
  <1>18. ItemInv(more, b, x, new, item)'
    <2>1. ASSUME NEW t \in b.known[x]
          PROVE  \/ t \in item.writes
                 \/ InPlace(t)'
                 \/ KnownBefore(more, x, new, t)
                 \/ item.until > 0 /\ t \in more[item.for][item.until]
      <3>1. CASE item.until = Len(kn[item.for]) /\ t \in a.known[item.for]
        <4>1. InPlace(t)' \/ (item.until > 0 /\ t \in kn[item.for][item.until])
          BY <1>14, <1>17, <3>1
        <4>2. item.until > 0 => more[item.for][item.until] = kn[item.for][item.until]
          <5>1. PICK z \in Staged!Streams : z = item.for
            BY <1>17
          <5>2. item.until > 0 => item.until \in 1 .. Len(kn[z])
            BY <1>0, <1>17, <3>1, <5>1
          <5> QED
            BY <1>4, <5>1, <5>2 DEF Extends
        <4> QED
          BY <4>1, <4>2
      <3> QED
        BY <1>13, <1>15, <3>1
    <2>2. item.until <= Len(more[item.for])
      <3>1. PICK z \in Staged!Streams : z = item.for
        BY <1>17
      <3>2. Len(kn[z]) <= Len(more[z]) /\ Len(kn[z]) \in Nat /\ Len(more[z]) \in Nat
        BY <1>0, <1>3, <1>4, LenProperties DEF Extends
      <3>3. item.until <= Len(kn[z])
        BY <3>1
      <3>4. item.until <= Len(more[z])
        BY <1>17, <3>2, <3>3
      <3> QED
        BY <3>1, <3>4
    <2>3. ASSUME NEW t \in item.writes
          PROVE  /\ tensor'[t] = "none"
                 /\ t \in b.made
                 /\ \A r \in item.reads :
                       /\ t[1] = "batch" \/ r[2] = t[2]
                       /\ Races(plan', t) \/ InPlace(r)' \/ KnownBefore(more, x, new, r)
      <3>1. tensor[t] = "none"
        BY <1>8 DEF HostInv
      <3> QED
        BY <1>13, <1>15, <3>1
    <2>4. \A t : KnownBefore(more, x, new, t)' <=> KnownBefore(more, x, new, t)
      BY DEF KnownBefore
    <2> QED
      BY <1>16, <2>1, <2>2, <2>3, <2>4 DEF ItemInv, Races
  <1>19. WorkInv(more, b)'
    <2>1. ASSUME NEW y \in Staged!Streams
          PROVE  /\ Len(more[y]) = ended'[y] + Len(work'[y])
                 /\ \A m \in 1 .. ended'[y] : \A t \in more[y][m] : InPlace(t)'
      <3>1. Len(more[y]) = ended'[y] + Len(work'[y])
        <4>1. ended'[y] = ended[y] /\ Len(kn[y]) = ended[y] + Len(work[y])
          BY <1>10
        <4>2. CASE y = x
          <5>1. Len(more[x]) = Len(kn[x]) + 1 /\ Len(work'[x]) = Len(work[x]) + 1
            BY <1>6, <1>16
          <5> QED
            BY <1>0, <4>1, <4>2, <5>1
        <4>3. CASE y # x
          BY <1>3, <1>5, <4>1, <4>3
        <4> QED
          BY <4>2, <4>3
      <3>2. ASSUME NEW m \in 1 .. ended[y], NEW t \in more[y][m] PROVE InPlace(t)'
        <4>1. m \in 1 .. Len(kn[y])
          BY <1>0, <1>10
        <4>2. more[y][m] = kn[y][m]
          BY <1>4, <4>1 DEF Extends
        <4>3. InPlace(t)
          BY <1>8, <4>2 DEF WorkInv
        <4> QED
          BY <1>7, <4>3, InPlaceStays
      <3> QED
        BY <3>1, <3>2
    <2>2. ASSUME NEW y \in Staged!Streams, NEW n \in 1 .. Len(work'[y])
          PROVE  ItemInv(more, b, y, ended[y] + n, work[y][n])'
      <3>1. CASE y = x /\ n = Len(work[x]) + 1
        BY <1>6, <1>12, <1>18, <3>1
      <3>2. CASE ~(y = x /\ n = Len(work[x]) + 1)
        <4>1. n \in 1 .. Len(work[y])
          BY <1>0, <1>5, <1>6, <3>2
        <4>2. ended'[y] = ended[y] /\ work'[y][n] = work[y][n]
          BY <1>5, <1>6, <4>1
        <4> QED
          BY <1>11, <4>1, <4>2
      <3> QED
        BY <3>1, <3>2
    <2> QED
      BY <2>1, <2>2 DEF WorkInv
  <1>20. OneWriter'
    <2>1. ASSUME NEW y \in Staged!Streams, NEW n \in 1 .. Len(work[y])
          PROVE  work[y][n].writes \cap item.writes = {}
      <3>1. work[y][n].writes \subseteq a.made
        BY <1>9 DEF ItemInv
      <3> QED
        BY <3>1
    <2>2. ASSUME NEW y \in Staged!Streams, NEW z \in Staged!Streams,
                 NEW n \in 1 .. Len(work'[y]), NEW m \in 1 .. Len(work'[z]),
                 work'[y][n].writes \cap work'[z][m].writes # {}
          PROVE  y = z /\ n = m
      <3>1. \/ n \in 1 .. Len(work[y]) /\ work'[y][n] = work[y][n]
            \/ y = x /\ n = Len(work[x]) + 1 /\ work'[y][n] = item
        BY <1>0, <1>5, <1>6
      <3>2. \/ m \in 1 .. Len(work[z]) /\ work'[z][m] = work[z][m]
            \/ z = x /\ m = Len(work[x]) + 1 /\ work'[z][m] = item
        BY <1>0, <1>5, <1>6
      <3> QED
        BY <1>8, <2>1, <2>2, <3>1, <3>2 DEF OneWriter
    <2> QED
      BY <2>2 DEF OneWriter
  <1>21. HostInv(more, b)'
    <2>1. \A t \in b.host : InPlace(t)'
      BY <1>13
    <2>2. ASSUME NEW y \in Staged!Streams, NEW t \in b.known[y]
          PROVE  InPlace(t)' \/ (Len(more[y]) > 0 /\ t \in more[y][Len(more[y])])
      <3>1. CASE y = x
        BY <1>0, <1>16, <3>1
      <3>2. CASE y # x
        BY <1>3, <1>14, <3>2
      <3> QED
        BY <3>1, <3>2
    <2>3. ASSUME NEW t \in Staged!Tensors, tensor'[t] # "none"
          PROVE  t \in b.made /\ InPlace(t)'
      BY <1>7, <1>8, <2>3, InPlaceStays DEF HostInv
    <2> QED
      BY <2>1, <2>2, <2>3 DEF HostInv
  <1> QED
    BY <1>3, <1>19, <1>20, <1>21 DEF Meets

(* Each instruction of the host leads from one assertion to the next.      *)
LEMMA HostStep ==
    ASSUME StagedTypes, NEW kn \in [Staged!Streams -> Seq(SUBSET Staged!Tensors)],
           NEW a \in Assertions, NEW b \in Assertions, Meets(kn, a),
           Staged!Program(plan) \in Seq(Instructions), Staged!Host,
           Follows(plan, Staged!Program(plan)[at], a, b)
    PROVE  /\ StagedTypes'
           /\ \E more \in [Staged!Streams -> Seq(SUBSET Staged!Tensors)] : Meets(more, b)'
  <1>1. PICK P : P = Staged!Program(plan)
    OBVIOUS
  <1>2. PICK i : i = P[at]
    OBVIOUS
  <1>3. /\ Len(P) \in Nat /\ at \in 1 .. Len(P) /\ i \in Instructions
        /\ Follows(plan, i, a, b)
    <2>1. Len(P) \in Nat /\ at \in 1 .. Len(P)
      BY <1>1, LenProperties DEF StagedTypes, Staged!Host
    <2> QED
      BY <1>1, <1>2, <2>1, ElementOfSeq
  <1>4. /\ plan' = plan /\ ended' = ended /\ tensor' = tensor /\ at' = at + 1
        /\ (i.do = "join" => work[i.on] = <<>> /\ work' = work)
        /\ (i.do # "join" => Staged!Enqueue(i))
    BY <1>1, <1>2 DEF Staged!Host
  <1>5. at' \in 1 .. Len(Staged!Program(plan')) + 1
    BY <1>1, <1>3, <1>4
  <1>6. /\ work \in [Staged!Streams -> Seq(Items)] /\ ended \in [Staged!Streams -> Nat]
        /\ \A y \in Staged!Streams : /\ Len(kn[y]) \in Nat /\ Len(work[y]) \in Nat
                                     /\ ended[y] \in Nat /\ work[y] \in Seq(Items)
                                     /\ Len(kn[y]) = ended[y] + Len(work[y])
    BY LenProperties DEF StagedTypes, Meets, WorkInv
  <1>7. i.on \in Staged!Streams
    BY <1>3 DEF Instructions
  <1>8. ASSUME NEW item \in Items, work' = [work EXCEPT ![i.on] = Append(@, item)]
        PROVE  StagedTypes'
    <2>1. Append(work[i.on], item) \in Seq(Items)
      BY <1>6, <1>7, AppendProperties
    <2>2. work' \in [Staged!Streams -> Seq(Items)]
      BY <1>6, <1>7, <1>8, <2>1
    <2> QED
      BY <1>4, <1>5, <2>2 DEF StagedTypes
  <1>9. CASE i.do = "launch"
    <2>1. /\ i.reads \in SUBSET Staged!Tensors /\ i.writes \in Staged!Tensors
          /\ LaunchFollows(plan, i, a, b)
      BY <1>3, <1>9 DEF Instructions, Follows
    <2> DEFINE item == [reads |-> i.reads, writes |-> {i.writes}, for |-> i.on, until |-> 0]
    <2>2. item \in Items /\ work' = [work EXCEPT ![i.on] = Append(@, item)]
      BY <1>4, <1>7, <1>9, <2>1 DEF Items, Staged!Enqueue
    <2>3. PICK it \in Items : it = item
      BY <2>2
    <2>4. /\ it.reads = i.reads /\ it.writes = {i.writes} /\ it.for = i.on /\ it.until = 0
          /\ work' = [work EXCEPT ![i.on] = Append(@, it)]
      BY <2>2, <2>3
    <2> HIDE DEF item
    <2>5. /\ it.until <= Len(kn[it.for])
          /\ \A t \in b.known[i.on] :
                \/ t \in it.writes
                \/ t \in a.host
                \/ t \in a.known[i.on]
                \/ it.until = Len(kn[it.for]) /\ t \in a.known[it.for]
      BY <1>6, <1>7, <2>1, <2>4 DEF LaunchFollows
    <2>6. \A t \in it.writes :
              /\ t \in b.made \ a.made /\ t \in Staged!Tensors
              /\ it.writes = {t}
              /\ \A r \in it.reads :
                    /\ t[1] = "batch" \/ r[2] = t[2]
                    /\ Races(plan, t) \/ r \in a.known[i.on] \/ r \in a.host
      BY <2>1, <2>4 DEF LaunchFollows
    <2>7. /\ b.host \subseteq a.host /\ a.made \subseteq b.made
          /\ \A y \in Staged!Streams \ {i.on} : b.known[y] \subseteq a.known[y]
      BY <2>1 DEF LaunchFollows
    <2>8. /\ UNCHANGED <<plan, ended, tensor>> /\ it \in Items
          /\ work' = [work EXCEPT ![i.on] = Append(@, it)]
      BY <1>4, <2>3, <2>4
    <2>9. Enqueues(kn, a, b, i.on, it)
      BY <2>5, <2>6, <2>7 DEF Enqueues
    <2>10. \E more \in [Staged!Streams -> Seq(SUBSET Staged!Tensors)] : Meets(more, b)'
      BY <1>7, <2>8, <2>9, EnqueueKeeps
    <2> QED
      BY <1>8, <2>8, <2>10
  <1>10. CASE i.do = "wait"
    <2>1. i.for \in Staged!Streams /\ WaitFollows(i, a, b)
      BY <1>3, <1>10 DEF Instructions, Follows
    <2> DEFINE item == [reads |-> {}, writes |-> {}, for |-> i.for,
                        until |-> ended[i.for] + Len(work[i.for])]
    <2>2. /\ item \in Items /\ item.until = Len(kn[item.for])
          /\ item.for = i.for /\ item.writes = {}
      BY <1>6, <2>1 DEF Items
    <2>3. work' = [work EXCEPT ![i.on] = Append(@, item)]
      BY <1>4, <1>10 DEF Staged!Enqueue
    <2>4. PICK it \in Items : it = item
      BY <2>2
    <2>5. /\ it.until <= Len(kn[it.for])
          /\ it.writes = {}
          /\ \A t \in b.known[i.on] :
                \/ t \in it.writes
                \/ t \in a.host
                \/ t \in a.known[i.on]
                \/ it.until = Len(kn[it.for]) /\ t \in a.known[it.for]
      BY <1>6, <2>1, <2>2, <2>4 DEF WaitFollows
    <2>6. /\ b.host \subseteq a.host /\ a.made \subseteq b.made
          /\ \A y \in Staged!Streams \ {i.on} : b.known[y] \subseteq a.known[y]
      BY <2>1 DEF WaitFollows
    <2>7. work' = [work EXCEPT ![i.on] = Append(@, it)]
      BY <2>3, <2>4
    <2> HIDE DEF item
    <2>8. \A t \in it.writes :
              /\ t \in b.made \ a.made /\ t \in Staged!Tensors
              /\ it.writes = {t}
              /\ \A r \in it.reads :
                    /\ t[1] = "batch" \/ r[2] = t[2]
                    /\ Races(plan, t) \/ r \in a.known[i.on] \/ r \in a.host
      BY <2>5
    <2>9. UNCHANGED <<plan, ended, tensor>> /\ it \in Items
      BY <1>4, <2>4
    <2>10. Enqueues(kn, a, b, i.on, it)
      BY <2>5, <2>6, <2>8 DEF Enqueues
    <2>11. \E more \in [Staged!Streams -> Seq(SUBSET Staged!Tensors)] : Meets(more, b)'
      BY <1>7, <2>7, <2>9, <2>10, EnqueueKeeps
    <2> QED
      BY <1>8, <2>7, <2>9, <2>11
  <1>11. CASE i.do = "join"
    <2>1. JoinFollows(i, a, b)
      BY <1>3, <1>11 DEF Follows
    <2>2. SameTensors /\ work[i.on] = <<>> /\ work' = work
      BY <1>4, <1>11 DEF SameTensors
    <2>3. StagedTypes'
      BY <1>4, <1>5, <2>2 DEF StagedTypes
    <2>4. WorkInv(kn, a) /\ OneWriter /\ HostInv(kn, a)
      BY DEF Meets
    <2>5. Extends(kn, kn)
      BY <1>6 DEF Extends
    <2>6. WorkInv(kn, b)'
      <3>1. ASSUME NEW y \in Staged!Streams, NEW n \in 1 .. Len(work[y])
            PROVE  ItemInv(kn, b, y, ended[y] + n, work[y][n])'
        <4>1. ended[y] + n \in 1 .. Len(kn[y]) /\ work[y][n] \in Items
          BY <1>6, ElementOfSeq
        <4>2. PICK m \in 1 .. Len(kn[y]), one \in Items : m = ended[y] + n /\ one = work[y][n]
          BY <4>1
        <4>3. ItemInv(kn, a, y, m, one)
          BY <2>4, <4>2 DEF WorkInv
        <4>4. ItemInv(kn, b, y, m, one)'
          BY <2>1, <2>2, <2>5, <4>3, ItemStays DEF JoinFollows
        <4>5. ended'[y] + n = m /\ work'[y][n] = one
          BY <1>4, <2>2, <4>2
        <4> QED
          BY <4>4, <4>5
      <3>2. \A y \in Staged!Streams :
               /\ Len(kn[y]) = ended'[y] + Len(work'[y])
               /\ \A m \in 1 .. ended'[y] : \A t \in kn[y][m] : InPlace(t)'
        BY <1>4, <2>2, <2>4, InPlaceStays DEF WorkInv
      <3> QED
        BY <2>2, <3>1, <3>2 DEF WorkInv
    <2>7. OneWriter'
      BY <2>2, <2>4 DEF OneWriter
    <2>8. HostInv(kn, b)'
      <3>1. \A t \in a.known[i.on] : InPlace(t)
        <4>1. PICK x \in Staged!Streams : x = i.on
          BY <1>7
        <4>2. Len(work[x]) = 0
          BY <2>2, <4>1
        <4>3. Len(kn[x]) = ended[x] /\ ended[x] \in Nat
          BY <1>6, <4>2
        <4>4. Len(kn[x]) > 0 => \A t \in kn[x][Len(kn[x])] : InPlace(t)
          BY <2>4, <4>3 DEF WorkInv
        <4> QED
          BY <2>4, <4>1, <4>4 DEF HostInv
      <3>2. \A t \in b.host : InPlace(t)'
        BY <2>1, <2>2, <2>4, <3>1, InPlaceStays DEF HostInv, JoinFollows
      <3>3. \A y \in Staged!Streams : \A t \in b.known[y] :
               InPlace(t)' \/ (Len(kn[y]) > 0 /\ t \in kn[y][Len(kn[y])])
        BY <2>1, <2>2, <2>4, InPlaceStays DEF HostInv, JoinFollows
      <3>4. \A t \in Staged!Tensors : tensor'[t] # "none" => t \in b.made /\ InPlace(t)'
        BY <1>4, <2>1, <2>2, <2>4, InPlaceStays DEF HostInv, JoinFollows
      <3> QED
        BY <3>2, <3>3, <3>4 DEF HostInv
    <2> QED
      BY <2>3, <2>6, <2>7, <2>8 DEF Meets
  <1> QED
    BY <1>3, <1>9, <1>10, <1>11 DEF Instructions

-----------------------------------------------------------------------------
(* The streams                                                             *)

(* A stream that does the next of its work keeps the invariant: what the   *)
(* piece reads is in place, so that what it writes is.                     *)
LEMMA StreamStep ==
    ASSUME StagedTypes, NEW kn \in [Staged!Streams -> Seq(SUBSET Staged!Tensors)],
           NEW a \in Assertions, Meets(kn, a),
           NEW x \in Staged!Streams, Staged!Stream(x)
    PROVE  StagedTypes' /\ Meets(kn, a)'
  <1>1. /\ work \in [Staged!Streams -> Seq(Items)] /\ ended \in [Staged!Streams -> Nat]
        /\ tensor \in [Staged!Tensors -> {"none", "right", "wrong"}]
        /\ \A y \in Staged!Streams : /\ Len(kn[y]) \in Nat /\ Len(work[y]) \in Nat
                                     /\ ended[y] \in Nat /\ work[y] \in Seq(Items)
                                     /\ kn[y] \in Seq(SUBSET Staged!Tensors)
                                     /\ Len(kn[y]) = ended[y] + Len(work[y])
    BY LenProperties DEF StagedTypes, Meets, WorkInv
  <1>2. WorkInv(kn, a) /\ OneWriter /\ HostInv(kn, a)
    BY DEF Meets
  <1>3. /\ work[x] # <<>>
        /\ Len(work[x]) > 0
        /\ Head(work[x]) = work[x][1]
        /\ Tail(work[x]) \in Seq(Items)
        /\ Len(Tail(work[x])) = Len(work[x]) - 1
        /\ \A n \in 1 .. Len(work[x]) - 1 : Tail(work[x])[n] = work[x][n + 1]
    BY <1>1, HeadTailProperties, EmptySeq DEF Staged!Stream
  <1>4. PICK item \in Items : item = work[x][1]
    BY <1>1, <1>3, ElementOfSeq
  <1>5. PICK m \in Nat : m = ended[x] + 1
    BY <1>1
  <1>6. /\ ended[item.for] >= item.until
        /\ tensor' = [t \in Staged!Tensors |->
              IF t \notin item.writes THEN tensor[t]
              ELSE IF \A r \in item.reads : tensor[r] = "right" THEN "right"
              ELSE "wrong"]
        /\ work' = [work EXCEPT ![x] = Tail(@)]
        /\ ended' = [ended EXCEPT ![x] = @ + 1]
        /\ plan' = plan /\ at' = at
    BY <1>3, <1>4 DEF Staged!Stream
  <1>7. item.for \in Staged!Streams /\ item.until \in Nat /\ item.writes \subseteq Staged!Tensors
        /\ item.reads \subseteq Staged!Tensors
    BY DEF Items
  <1>8. ItemInv(kn, a, x, m, item)
    <2>1. 1 \in 1 .. Len(work[x])
      BY <1>1, <1>3
    <2> QED
      BY <1>2, <1>4, <1>5, <2>1 DEF WorkInv
  <1>9. \A t \in Staged!Tensors :
           /\ t \in item.writes => tensor[t] = "none"
           /\ t \notin item.writes => tensor'[t] = tensor[t]
           /\ t \in item.writes => \/ tensor'[t] = "right"
                                   \/ /\ tensor'[t] = "wrong"
                                      /\ \E r \in item.reads : tensor[r] # "right"
    BY <1>6, <1>8 DEF ItemInv
  <1>10. \A t \in Staged!Tensors : /\ <<"halfEast", t[2]>> \in Staged!Tensors
                                   /\ <<"batch", t[2]>> \in Staged!Tensors
                                   /\ t = <<t[1], t[2]>>
    BY DEF Staged!Tensors, Staged!Roles
  <1>11. ASSUME NEW t \in Staged!Tensors, InPlace(t) PROVE InPlace(t)'
    BY <1>6, <1>9, <1>10, <1>11 DEF InPlace
  <1>12. \A y \in Staged!Streams : \A n \in 1 .. Len(kn[y]) : kn[y][n] \subseteq Staged!Tensors
    BY <1>1, ElementOfSeq
  <1>13. \A y \in Staged!Streams : \A n \in 1 .. ended[y] :
            n \in 1 .. Len(kn[y]) /\ \A t \in kn[y][n] : t \in Staged!Tensors /\ InPlace(t)
    BY <1>1, <1>2, <1>12 DEF WorkInv
  <1>14. \A t : KnownBefore(kn, x, m, t) => InPlace(t)
    <2>1. m > 1 => m - 1 \in 1 .. ended[x]
      BY <1>1, <1>5
    <2> QED
      BY <1>13, <2>1 DEF KnownBefore
  <1>15. ASSUME NEW t \in item.writes PROVE InPlace(t)'
    <2>1. t \in Staged!Tensors
      BY <1>7
    <2>2. CASE tensor'[t] = "right"
      BY <2>2 DEF InPlace
    <2>3. CASE tensor'[t] # "right"
      <3>1. PICK r \in item.reads : tensor[r] # "right"
        BY <1>9, <2>1, <2>3
      <3>2. tensor'[t] = "wrong" /\ r \in Staged!Tensors
        BY <1>7, <1>9, <2>1, <2>3
      <3>3. /\ t[1] = "batch" \/ r[2] = t[2]
            /\ Races(plan, t) \/ InPlace(r)
        BY <1>8, <1>14 DEF ItemInv
      <3>4. CASE Races(plan, t)
        <4>1. t = <<"halfEast", t[2]>> /\ plan'.spatial
          BY <1>6, <1>10, <2>1, <3>4 DEF Races
        <4>2. tensor'[<<"halfEast", t[2]>>] = "wrong"
          BY <3>2, <4>1
        <4> QED
          BY <3>2, <4>1, <4>2 DEF InPlace
      <3>5. CASE InPlace(r) /\ t[1] = "batch"
        <4>1. t = <<"batch", t[2]>>
          BY <1>10, <2>1, <3>5
        <4>2. plan'.spatial
          BY <1>6, <3>1, <3>5 DEF InPlace
        <4>3. tensor'[<<"batch", t[2]>>] = "wrong"
          BY <3>2, <4>1
        <4> QED
          BY <3>2, <4>2, <4>3 DEF InPlace
      <3>6. CASE InPlace(r) /\ r[2] = t[2]
        <4>1. plan'.spatial /\ "wrong" \in {tensor[<<"halfEast", t[2]>>], tensor[<<"batch", t[2]>>]}
          BY <1>6, <3>1, <3>6 DEF InPlace
        <4>2. "wrong" \in {tensor'[<<"halfEast", t[2]>>], tensor'[<<"batch", t[2]>>]}
          BY <1>9, <1>10, <2>1, <4>1
        <4> QED
          BY <3>2, <4>1, <4>2 DEF InPlace
      <3> QED
        BY <3>3, <3>4, <3>5, <3>6
    <2> QED
      BY <2>2, <2>3
  <1>16. StagedTypes'
    <2>1. work' \in [Staged!Streams -> Seq(Items)]
      BY <1>1, <1>3, <1>6
    <2>2. ended' \in [Staged!Streams -> Nat]
      BY <1>1, <1>6
    <2>3. tensor' \in [Staged!Tensors -> {"none", "right", "wrong"}]
      BY <1>1, <1>6
    <2>4. plan' \in Plans /\ at' \in 1 .. Len(Staged!Program(plan')) + 1
      BY <1>6 DEF StagedTypes
    <2> QED
      BY <2>1, <2>2, <2>3, <2>4 DEF StagedTypes
  <1>17. \A y \in Staged!Streams :
            \/ y # x /\ work'[y] = work[y] /\ ended'[y] = ended[y]
            \/ y = x /\ work'[y] = Tail(work[x]) /\ ended'[y] = m
    BY <1>1, <1>5, <1>6
  (* What is the nth of a stream's work now was its kth before.            *)
  <1>18. ASSUME NEW y \in Staged!Streams, NEW n \in 1 .. Len(work'[y])
         PROVE  \E k \in 1 .. Len(work[y]) :
                   /\ work'[y][n] = work[y][k]
                   /\ ended'[y] + n = ended[y] + k
                   /\ y = x => k = n + 1
                   /\ y # x => k = n
    <2>1. CASE y = x
      <3>1. n \in 1 .. Len(work[x]) - 1
        BY <1>3, <1>17, <2>1
      <3>2. n + 1 \in 1 .. Len(work[x])
        BY <1>1, <3>1
      <3>3. work'[y] = Tail(work[x]) /\ ended'[y] = ended[x] + 1
        BY <1>5, <1>17, <2>1
      <3>4. work'[y][n] = work[x][n + 1]
        BY <1>3, <3>1, <3>3
      <3>5. n \in Int /\ ended[x] \in Int
        BY <1>1, <3>1
      <3>6. ended'[y] + n = ended[x] + (n + 1)
        <4>1. PICK e \in Int, k \in Int : e = ended[x] /\ k = n
          BY <3>5
        <4>2. (e + 1) + k = e + (k + 1)
          OBVIOUS
        <4> QED
          BY <3>3, <4>1, <4>2
      <3> QED
        BY <2>1, <3>2, <3>4, <3>6
    <2>2. CASE y # x
      BY <1>17, <2>2
    <2> QED
      BY <2>1, <2>2
  <1>19. WorkInv(kn, a)'
    <2>1. ASSUME NEW y \in Staged!Streams PROVE Len(kn[y]) = ended'[y] + Len(work'[y])
      <3>1. Len(kn[y]) = ended[y] + Len(work[y]) /\ ended[y] \in Nat /\ Len(work[y]) \in Nat
        BY <1>1
      <3>2. CASE y = x
        <4>1. ended'[y] = ended[y] + 1 /\ Len(work'[y]) = Len(work[y]) - 1
          BY <1>3, <1>5, <1>17, <3>2
        <4>2. PICK e \in Nat, l \in Nat : e = ended[y] /\ l = Len(work[y])
          BY <3>1
        <4>3. e + l = (e + 1) + (l - 1)
          OBVIOUS
        <4> QED
          BY <3>1, <4>1, <4>2, <4>3
      <3>3. CASE y # x
        BY <1>17, <3>1, <3>3
      <3> QED
        BY <3>2, <3>3
    <2>2. ASSUME NEW y \in Staged!Streams, NEW k \in 1 .. ended'[y], NEW t \in kn[y][k]
          PROVE  InPlace(t)'
      <3>1. CASE k \in 1 .. ended[y]
        BY <1>11, <1>13, <3>1
      <3>2. CASE k \notin 1 .. ended[y]
        <4>1. y = x /\ k = m
          BY <1>1, <1>5, <1>17, <3>2
        <4>2. \/ t \in item.writes
              \/ InPlace(t)
              \/ KnownBefore(kn, x, m, t)
              \/ item.until > 0 /\ t \in kn[item.for][item.until]
          BY <1>8, <4>1 DEF ItemInv
        <4>3. item.until > 0 => item.until \in 1 .. ended[item.for]
          BY <1>1, <1>6, <1>7
        <4>4. t \in item.writes \/ InPlace(t)
          BY <1>7, <1>13, <1>14, <4>2, <4>3
        <4>5. t \in Staged!Tensors
          <5>1. m \in 1 .. Len(kn[x])
            BY <1>1, <1>3, <1>5
          <5> QED
            BY <1>12, <4>1, <5>1
        <4> QED
          BY <1>11, <1>15, <4>4, <4>5
      <3> QED
        BY <3>1, <3>2
    <2>3. ASSUME NEW y \in Staged!Streams, NEW n \in 1 .. Len(work'[y])
          PROVE  ItemInv(kn, a, y, ended[y] + n, work[y][n])'
      <3>1. PICK k \in 1 .. Len(work[y]) :
                   /\ work'[y][n] = work[y][k]
                   /\ ended'[y] + n = ended[y] + k
                   /\ y = x => k = n + 1
                   /\ y # x => k = n
        BY <1>18
      <3>2. PICK one \in Items : one = work[y][k]
        BY <1>1, ElementOfSeq
      <3>3. PICK j \in 1 .. Len(kn[y]) : j = ended[y] + k
        BY <1>1
      <3>4. ItemInv(kn, a, y, j, one)
        BY <1>2, <3>2, <3>3 DEF WorkInv
      <3>5. one.writes \cap item.writes = {}
        <4>1. 1 \in 1 .. Len(work[x])
          BY <1>1, <1>3
        <4>2. ~(y = x /\ k = 1)
          <5>1. n \in Nat /\ n >= 1
            OBVIOUS
          <5> QED
            BY <3>1, <5>1
        <4> QED
          BY <1>2, <1>4, <3>2, <4>1, <4>2 DEF OneWriter
      <3>6. one.writes \subseteq Staged!Tensors /\ one.reads \subseteq Staged!Tensors
        BY DEF Items
      <3>7. ASSUME NEW t \in kn[y][j]
            PROVE  \/ t \in one.writes
                   \/ InPlace(t)'
                   \/ KnownBefore(kn, y, j, t)
                   \/ one.until > 0 /\ t \in kn[one.for][one.until]
        <4>1. t \in Staged!Tensors
          BY <1>12
        <4> QED
          BY <1>11, <3>4, <4>1 DEF ItemInv
      <3>8. ASSUME NEW t \in one.writes
            PROVE  /\ tensor'[t] = "none"
                   /\ t \in a.made
                   /\ \A r \in one.reads :
                         /\ t[1] = "batch" \/ r[2] = t[2]
                         /\ Races(plan', t) \/ InPlace(r)' \/ KnownBefore(kn, y, j, r)
        <4>1. tensor[t] = "none" /\ t \notin item.writes /\ t \in Staged!Tensors
          BY <3>4, <3>5, <3>6 DEF ItemInv
        <4> QED
          BY <1>6, <1>9, <1>11, <3>4, <3>6, <4>1 DEF ItemInv
      <3>9. \A t : KnownBefore(kn, y, j, t)' <=> KnownBefore(kn, y, j, t)
        BY DEF KnownBefore
      <3>10. ItemInv(kn, a, y, j, one)'
        BY <3>4, <3>7, <3>8, <3>9 DEF ItemInv, Races
      <3>11. work'[y][n] = one /\ ended'[y] + n = j
        BY <3>1, <3>2, <3>3
      <3> QED
        BY <3>10, <3>11
    <2> QED
      BY <2>1, <2>2, <2>3 DEF WorkInv
  <1>20. OneWriter'
    <2>1. ASSUME NEW y \in Staged!Streams, NEW z \in Staged!Streams,
                 NEW n \in 1 .. Len(work'[y]), NEW l \in 1 .. Len(work'[z]),
                 work'[y][n].writes \cap work'[z][l].writes # {}
          PROVE  y = z /\ n = l
      <3>1. PICK k \in 1 .. Len(work[y]) : /\ work'[y][n] = work[y][k]
                                           /\ y = x => k = n + 1
                                           /\ y # x => k = n
        BY <1>18
      <3>2. PICK h \in 1 .. Len(work[z]) : /\ work'[z][l] = work[z][h]
                                           /\ z = x => h = l + 1
                                           /\ z # x => h = l
        BY <1>18
      <3>3. y = z /\ k = h
        BY <1>2, <2>1, <3>1, <3>2 DEF OneWriter
      <3>4. n \in Nat /\ l \in Nat
        OBVIOUS
      <3> QED
        BY <3>1, <3>2, <3>3, <3>4
    <2> QED
      BY <2>1 DEF OneWriter
  <1>21. HostInv(kn, a)'
    <2>1. a.host \subseteq Staged!Tensors
          /\ \A y \in Staged!Streams : a.known[y] \subseteq Staged!Tensors
      BY DEF Assertions
    <2>2. \A t \in a.host : InPlace(t)'
      BY <1>2, <1>11, <2>1 DEF HostInv
    <2>3. \A y \in Staged!Streams : \A t \in a.known[y] :
             InPlace(t)' \/ (Len(kn[y]) > 0 /\ t \in kn[y][Len(kn[y])])
      BY <1>2, <1>11, <2>1 DEF HostInv
    <2>4. ASSUME NEW t \in Staged!Tensors, tensor'[t] # "none"
          PROVE  t \in a.made /\ InPlace(t)'
      <3>1. CASE t \in item.writes
        BY <1>8, <1>15, <3>1 DEF ItemInv
      <3>2. CASE t \notin item.writes
        BY <1>2, <1>9, <1>11, <2>4, <3>2 DEF HostInv
      <3> QED
        BY <3>1, <3>2
    <2> QED
      BY <2>2, <2>3, <2>4 DEF HostInv
  <1> QED
    BY <1>16, <1>19, <1>20, <1>21 DEF Meets

-----------------------------------------------------------------------------
(* The rollout                                                             *)

(* The invariant holds at the start, with the outline that ProgramRule     *)
(* gives,                                                                  *)
LEMMA StagedInit ==
    ASSUME Staged!StagedAssumption, Staged!Init
    PROVE  StagedInv
  <1>1. plan \in Plans /\ at = 1
    BY DEF Staged!Init
  <1>2. PICK P : P = Staged!Program(plan)
    OBVIOUS
  <1>3. PICK f : IsOutline(plan, P, f) /\ f[0] = AtStep(plan, 1)
    BY <1>1, <1>2, ProgramRule DEF Leads
  <1>4. Len(P) \in Nat
    BY <1>1, <1>2, ProgramRule, LenProperties DEF Leads
  <1> DEFINE kn == [x \in Staged!Streams |-> <<>>]
  <1>5. kn \in [Staged!Streams -> Seq(SUBSET Staged!Tensors)]
    OBVIOUS
  <1>6. \A x \in Staged!Streams : work[x] = <<>> /\ ended[x] = 0 /\ kn[x] = <<>>
    BY DEF Staged!Init
  <1>7. \A t \in Staged!Tensors : tensor[t] = IF t = <<"batch", 1>> THEN "right" ELSE "none"
    BY DEF Staged!Init
  <1>8. StagedTypes
    <2>1. work \in [Staged!Streams -> Seq(Items)] /\ ended \in [Staged!Streams -> Nat]
      BY DEF Staged!Init
    <2>2. tensor \in [Staged!Tensors -> {"none", "right", "wrong"}]
      BY DEF Staged!Init
    <2>3. at \in 1 .. Len(P) + 1
      BY <1>1, <1>4
    <2> QED
      BY <1>1, <1>2, <2>1, <2>2, <2>3 DEF StagedTypes
  <1> HIDE DEF kn
  <1> DEFINE a == AtStep(plan, 1)
  <1>9. Len(<<>>) = 0
    OBVIOUS
  <1>10. WorkInv(kn, a) /\ OneWriter
    BY <1>6, <1>9 DEF WorkInv, OneWriter
  <1>11. HostInv(kn, a)
    <2>1. /\ a.host = {}
          /\ \A x \in Staged!Streams : \A t \in a.known[x] :
                t \in Staged!Tensors /\ t[2] = 1 /\ t[1] = "batch"
          /\ \A t \in Staged!Tensors : t[2] = 1 /\ t[1] = "batch" => t \in a.made
      BY DEF AtStep, Asserted
    <2>2. \A t \in Staged!Tensors : t[2] = 1 /\ t[1] = "batch" <=> t = <<"batch", 1>>
      BY DEF Staged!Tensors
    <2> HIDE DEF a
    <2>3. \A x \in Staged!Streams : \A t \in a.known[x] : InPlace(t)
      BY <1>7, <2>1, <2>2 DEF InPlace
    <2>4. \A t \in Staged!Tensors : tensor[t] # "none" => t \in a.made /\ InPlace(t)
      BY <1>7, <2>1, <2>2 DEF InPlace
    <2> QED
      BY <2>1, <2>3, <2>4 DEF HostInv
  <1>12. Meets(kn, f[at - 1])
    BY <1>1, <1>3, <1>10, <1>11 DEF Meets
  <1> QED
    BY <1>2, <1>3, <1>5, <1>8, <1>12 DEF StagedInv

(* and every step of the host or of a stream keeps it.                     *)
LEMMA StagedStep ==
    ASSUME Staged!StagedAssumption, StagedInv, [Staged!Next]_(Staged!vars)
    PROVE  StagedInv'
  <1>1. StagedTypes /\ plan \in Plans
    BY DEF StagedInv, StagedTypes
  <1>2. PICK P : P = Staged!Program(plan)
    OBVIOUS
  <1>3. P \in Seq(Instructions) /\ Len(P) \in Nat
    BY <1>1, <1>2, ProgramRule, LenProperties DEF Leads
  <1>4a. PICK f : /\ IsOutline(plan, P, f)
                  /\ \E kn \in [Staged!Streams -> Seq(SUBSET Staged!Tensors)] :
                        Meets(kn, f[at - 1])
    BY <1>2 DEF StagedInv
  <1>4. PICK kn \in [Staged!Streams -> Seq(SUBSET Staged!Tensors)] :
           IsOutline(plan, P, f) /\ Meets(kn, f[at - 1])
    BY <1>4a
  <1>5. PICK n : n = at
    OBVIOUS
  <1>6. n \in 1 .. Len(P) + 1 /\ n - 1 \in 0 .. Len(P)
    BY <1>1, <1>2, <1>3, <1>5 DEF StagedTypes
  <1>7. f[n - 1] \in Assertions /\ Meets(kn, f[n - 1])
    BY <1>4, <1>5, <1>6 DEF IsOutline
  <1>8. plan' = plan => Staged!Program(plan') = P
    BY <1>2
  <1>9. ASSUME plan' = plan, at' = at, StagedTypes', Meets(kn, f[n - 1])'
        PROVE  StagedInv'
    BY <1>2, <1>4, <1>5, <1>8, <1>9 DEF StagedInv
  <1>10. CASE Staged!Host
    <2>1. n \in 1 .. Len(P) /\ plan' = plan /\ at' = n + 1
      BY <1>2, <1>5, <1>6, <1>10 DEF Staged!Host
    <2>2. f[n] \in Assertions /\ Follows(plan, P[n], f[n - 1], f[n])
      BY <1>4, <2>1 DEF IsOutline
    <2>3. /\ StagedTypes'
          /\ \E more \in [Staged!Streams -> Seq(SUBSET Staged!Tensors)] : Meets(more, f[n])'
      BY <1>1, <1>2, <1>3, <1>5, <1>7, <1>10, <2>2, HostStep
    <2>4. PICK more \in [Staged!Streams -> Seq(SUBSET Staged!Tensors)] : Meets(more, f[n])'
      BY <2>3
    <2>5. at' - 1 = n
      BY <2>1
    <2> QED
      BY <1>2, <1>4, <1>8, <2>1, <2>3, <2>4, <2>5 DEF StagedInv
  <1>11. ASSUME NEW x \in Staged!Streams, Staged!Stream(x) PROVE StagedInv'
    <2>1. StagedTypes' /\ Meets(kn, f[n - 1])'
      BY <1>1, <1>7, <1>11, StreamStep
    <2>2. plan' = plan /\ at' = at
      BY <1>11 DEF Staged!Stream
    <2> QED
      BY <1>9, <2>1, <2>2
  <1>12. CASE UNCHANGED Staged!vars
    <2>1. plan' = plan /\ at' = at /\ ended' = ended /\ work' = work /\ tensor' = tensor
      BY <1>12 DEF Staged!vars
    <2>2. StagedTypes'
      BY <1>1, <2>1 DEF StagedTypes
    <2>3. PICK a : a = f[n - 1]
      OBVIOUS
    <2>4. Meets(kn, a)
      BY <1>7, <2>3
    <2>5. Meets(kn, a)'
      <3>1. WorkInv(kn, a) /\ OneWriter /\ HostInv(kn, a)
        BY <2>4 DEF Meets
      <3>2. \A t : InPlace(t)' <=> InPlace(t)
        BY <2>1 DEF InPlace
      <3>3. HostInv(kn, a)'
        BY <2>1, <3>1, <3>2 DEF HostInv
      <3>4. OneWriter'
        BY <2>1, <3>1 DEF OneWriter
      <3>5. ASSUME NEW x, NEW m, NEW item
            PROVE  ItemInv(kn, a, x, m, item)' <=> ItemInv(kn, a, x, m, item)
        BY <2>1, <3>2 DEF ItemInv, KnownBefore, Races
      <3>6. WorkInv(kn, a)'
        BY <2>1, <3>1, <3>2, <3>5 DEF WorkInv
      <3> QED
        BY <3>3, <3>4, <3>6 DEF Meets
    <2>6. Meets(kn, f[n - 1])'
      BY <2>3, <2>5
    <2> QED
      BY <1>9, <2>1, <2>2, <2>6
  <1> QED
    BY <1>10, <1>11, <1>12 DEF Staged!Next

(* What is exported is in place, if it is there at all.                    *)
LEMMA StagedKeeps ==
    ASSUME StagedInv
    PROVE  Staged!UnifiedExportsItsSteps /\ Staged!OnlyTheEastHalfRaces
  <1>1. \A t \in Staged!Tensors : tensor[t] # "none" => InPlace(t)
    BY DEF StagedInv, Meets, HostInv
  <1>2. \A s \in 1 .. RolloutSteps : <<"owned", s>> \in Staged!Tensors
    BY DEF Staged!Tensors, Staged!Roles
  <1>3. ASSUME NEW s \in 1 .. RolloutSteps, tensor[<<"owned", s>>] = "wrong"
        PROVE  /\ plan.spatial
               /\ "wrong" \in {tensor[<<"halfEast", s>>], tensor[<<"batch", s>>]}
    BY <1>1, <1>2, <1>3 DEF InPlace
  <1> QED
    BY <1>3 DEF Staged!UnifiedExportsItsSteps, Staged!OnlyTheEastHalfRaces

-----------------------------------------------------------------------------
(* The cache and the engine are the ones that were reasoned about.         *)
C == INSTANCE CacheProofs
E == INSTANCE EngineProofs

(* The cache of the node is the one that CacheProofs is about.             *)
LEMMA SameCache ==
    /\ Cache!CacheAssumption => C!CacheAssumption
    /\ Cache!Init => C!Init
    /\ [Cache!Next]_(Cache!vars) => [C!Next]_(C!vars)
    /\ C!TypeOK => Cache!TypeOK
  <1>1. Cache!Batch = C!Batch /\ Cache!Labels = C!Labels
    BY DEF Cache!Batch, C!Batch, Cache!Labels, C!Labels
  <1>2. Cache!CacheAssumption => C!CacheAssumption
    BY <1>1 DEF Cache!CacheAssumption, C!CacheAssumption
  <1>3. C!TypeOK => Cache!TypeOK
    BY <1>1 DEF Cache!TypeOK, C!TypeOK
  <1>4. Cache!Init => C!Init
    BY <1>1 DEF Cache!Init, C!Init, Cache!Storable, C!Storable
  <1>5. [Cache!Next]_(Cache!vars) => [C!Next]_(C!vars)
    BY DEF
      Cache!inputVars, C!inputVars, Cache!diskVars, C!diskVars, Cache!procVars,
      C!procVars, Cache!vars, C!vars, Cache!File, C!File, Cache!Current,
      C!Current, Cache!Go, C!Go, Cache!Return, C!Return, Cache!Ask, C!Ask,
      Cache!Hit, C!Hit, Cache!LookUp, C!LookUp, Cache!Load, C!Load, Cache!Build,
      C!Build, Cache!Stamp, C!Stamp, Cache!BeginSave, C!BeginSave, Cache!Saved,
      C!Saved, Cache!EndSave, C!EndSave, Cache!SaveMeta, C!SaveMeta,
      Cache!SaveFails, C!SaveFails, Cache!Moved, C!Moved, Cache!RenamePt,
      C!RenamePt, Cache!RenameMeta, C!RenameMeta, Cache!CleanUp, C!CleanUp,
      Cache!Change, C!Change, Cache!Crash, C!Crash, Cache!Step, C!Step,
      Cache!Writing, C!Writing, Cache!At, C!At, Cache!Meant, C!Meant,
      Cache!Clash, C!Clash, Cache!Halved, C!Halved, Cache!Mended, C!Mended,
      Cache!Watch, C!Watch, Cache!Next, C!Next
  <1> QED
    BY <1>2, <1>3, <1>4, <1>5

(* The engine of the node is the one that EngineProofs is about, with the  *)
(* same variables and constants.                                           *)
LEMMA SameEngine ==
    /\ Engine!EngineAssumption => E!EngineAssumption
    /\ Engine!Init => E!Init
    /\ [Engine!Next]_(Engine!vars) => [E!Next]_(E!vars)
    /\ E!TypeOK => Engine!TypeOK
    /\ E!FlagsAreTrue => Engine!FlagsAreTrue
    /\ E!AppliesItsLayer => Engine!AppliesItsLayer
  <1>1. Engine!EngineAssumption => E!EngineAssumption
    BY DEF Engine!EngineAssumption, E!EngineAssumption, Engine!Modes, E!Modes,
       Engine!Scopes, E!Scopes
  <1>2. Engine!Init => E!Init
    BY DEF Engine!Init, E!Init, Engine!Models, E!Models
  <1>3. E!TypeOK => Engine!TypeOK
    BY DEF Engine!TypeOK, E!TypeOK, Engine!Models, E!Models, Engine!Stream, E!Stream,
       Engine!Forward, E!Forward
  <1>4. E!FlagsAreTrue => Engine!FlagsAreTrue
    BY DEF Engine!FlagsAreTrue, E!FlagsAreTrue
  <1>5. E!AppliesItsLayer => Engine!AppliesItsLayer
    BY DEF Engine!AppliesItsLayer, E!AppliesItsLayer, Engine!LayerFor, E!LayerFor
  <1>6. [Engine!Next]_(Engine!vars) => [E!Next]_(E!vars)
    BY DEF
      Engine!Models, E!Models, Engine!gpuVars, E!gpuVars, Engine!vars, E!vars,
      Engine!LayerFor, E!LayerFor, Engine!CanReplay, E!CanReplay, Engine!Runs,
      E!Runs, Engine!Acquired, E!Acquired, Engine!Settled, E!Settled, Engine!Release,
      E!Release, Engine!Install, E!Install, Engine!Captured, E!Captured, Engine!Load,
      E!Load, Engine!PrepareResident, E!PrepareResident, Engine!PrepareAnew,
      E!PrepareAnew, Engine!WarmUp, E!WarmUp, Engine!Predict, E!Predict,
      Engine!ReleaseGpu, E!ReleaseGpu, Engine!Close, E!Close, Engine!RolloutStream,
      E!RolloutStream, Engine!Over, E!Over, Engine!Begin, E!Begin, Engine!BeginFails,
      E!BeginFails, Engine!Advance, E!Advance, Engine!AdvanceFails, E!AdvanceFails,
      Engine!EndStream, E!EndStream, Engine!Rollout, E!Rollout, Engine!Next, E!Next
  <1> QED
    BY <1>1, <1>2, <1>3, <1>4, <1>5, <1>6

-----------------------------------------------------------------------------
(* The parts side by side                                                  *)

(* A step of the node is one of every part, or leaves it alone.            *)
LEMMA NodeStep ==
    ASSUME [NodeNext]_nodeVars
    PROVE  /\ [Next]_vars
           /\ [Cache!Next]_(Cache!vars)
           /\ [Engine!Next]_(Engine!vars)
           /\ [Swin!Next]_(Swin!vars)
           /\ [Down!Next]_(Down!vars)
           /\ [Peer!Next]_(Peer!vars)
           /\ [Staged!Next]_(Staged!vars)
  <1> USE DEF NodeNext, nodeVars, cacheVars, stagedVars, engineVars, backboneVars,
          reclaimVars, clientVars
  <1>1. [Next]_vars
    BY DEF vars
  <1>2. [Cache!Next]_(Cache!vars)
    BY DEF Cache!vars, Cache!inputVars, Cache!diskVars, Cache!procVars
  <1>3. [Engine!Next]_(Engine!vars)
    BY DEF Engine!vars, Engine!gpuVars
  <1>4. [Swin!Next]_(Swin!vars)
    BY DEF Swin!vars
  <1>5. [Down!Next]_(Down!vars)
    BY DEF Down!vars, Down!ownerVars, Down!cleanupVars, Down!scanVars
  <1>6. [Peer!Next]_(Peer!vars)
    BY DEF Peer!vars, Peer!pipes
  <1>7. [Staged!Next]_(Staged!vars)
    BY DEF Staged!vars
  <1> QED
    BY <1>1, <1>2, <1>3, <1>4, <1>5, <1>6, <1>7

(* Whoever has brought processes down may rely on it: when                 *)
(* shutdown_scheduler_subprocesses has returned without an error they are  *)
(* gone and reaped, when cleanup_stale_scheduler_processes has, none it    *)
(* found goes on running (processes.py:69-207).  For any number of         *)
(* processes, whether they lead a group or not, and whatever they, the     *)
(* other program and the supervisor do meanwhile.                          *)
THEOREM NodeStoppedAreDown == NodeSpec => []StoppedAreDown
  <1>1. NodeInit => DownInv
    BY DownInit DEF NodeInit
  <1>2. DownInv /\ [NodeNext]_nodeVars => DownInv'
    BY NodeStep, DownStep, NodeAssumption DEF NodeAssumption
  <1>3. DownInv => StoppedAreDown
    BY DownKeeps DEF StoppedAreDown
  <1> QED
    BY <1>1, <1>2, <1>3, PTL DEF NodeSpec

(* forecast() loses no event, doubles none and changes no order, for any   *)
(* number of clients, requests and events, as long as the request's client *)
(* is the only one that is connected and asks for nothing else             *)
(* (client.py:145-160).                                                    *)
THEOREM NodeForecastIsComplete == NodeSpec => []ForecastIsComplete
  <1>1. NodeInit => ClientInv
    BY ClientInit, NodeAssumption DEF NodeInit
  <1>2. ClientInv /\ [NodeNext]_nodeVars => ClientInv'
    BY NodeStep, ClientStep, NodeAssumption
  <1>3. ClientInv => ForecastIsComplete
    BY ClientKeeps DEF ForecastIsComplete
  <1> QED
    BY <1>1, <1>2, <1>3, PTL DEF NodeSpec

(* Every decoder layer of the backbone meets the image that the encoder    *)
(* layer of its level left, and the backbone ends with the shape it began  *)
(* with: for every number of layers and every height and width, odd or     *)
(* even on any level (swin3d.py, PatchMerging3D and PatchSplitting3D).     *)
THEOREM NodeLayersMeet == NodeSpec => []LayersMeet
  <1>1. NodeInit => SwinInv
    BY SwinInit, NodeAssumption DEF NodeInit
  <1>2. SwinInv /\ [NodeNext]_nodeVars => SwinInv'
    BY NodeStep, SwinStep, NodeAssumption
  <1>3. SwinInv => LayersMeet
    BY SwinKeeps, NodeAssumption DEF LayersMeet
  <1> QED
    BY <1>1, <1>2, <1>3, PTL DEF NodeSpec

(* Also where an image has to be padded, and for windows of any size, the  *)
(* fused kernels and the reference take each token to the same window and  *)
(* back to its place.  (triton_swin3d_layout.py)                           *)
THEOREM NodeLayoutsAgree == NodeSpec => []LayoutsAgree
  <1>1. NodeInit => SwinInv
    BY SwinInit, NodeAssumption DEF NodeAssumption, NodeInit
  <1>2. SwinInv /\ [NodeNext]_nodeVars => SwinInv'
    BY NodeStep, SwinStep, NodeAssumption DEF NodeAssumption
  <1>3. SwinInv => LayoutsAgree
    BY LayoutsKeep, NodeAssumption
    DEF NodeAssumption, Swin!BackboneAssumption, SwinInv, Swin!TypeOK, LayoutsAgree
  <1> QED
    BY <1>1, <1>2, <1>3, PTL DEF NodeSpec

(* In a shifted block, tokens of a window that may attend to each other    *)
(* are near each other on the globe, perhaps over its seam, never over a   *)
(* pole; and where no padding is needed, near tokens of a window may.      *)
(* (swin3d.py)                                                             *)
THEOREM NodeMaskFollowsTheGlobe == NodeSpec => []MaskFollowsTheGlobe
  <1>1. NodeInit => SwinInv
    BY SwinInit, NodeAssumption DEF NodeAssumption, NodeInit
  <1>2. SwinInv /\ [NodeNext]_nodeVars => SwinInv'
    BY NodeStep, SwinStep, NodeAssumption DEF NodeAssumption
  <1>3. SwinInv => MaskFollowsTheGlobe
    BY MaskKeeps, NodeAssumption
    DEF NodeAssumption, Swin!BackboneAssumption, SwinInv, Swin!TypeOK, MaskFollowsTheGlobe
  <1> QED
    BY <1>1, <1>2, <1>3, PTL DEF NodeSpec

(* What CacheProofs proves of the cache holds of the node's: no lookup     *)
(* returns another batch than the one asked for, unless its entry was      *)
(* spoilt by a clash of batches or by a store broken off between its two   *)
(* renames (docs/tutorial.md:324).                                         *)
THEOREM NodeReplaysExactBatch == NodeSpec => UnspoiltReplaysExactBatch
  <1>1. C!CacheAssumption
    BY NodeAssumption, SameCache
  <1>2. NodeInit => C!CacheInv
    BY <1>1, SameCache, C!CacheInit DEF NodeInit
  <1>3. C!CacheInv /\ [NodeNext]_nodeVars => C!CacheInv'
    BY <1>1, NodeStep, SameCache, C!CacheStep
  <1>4. C!CacheInv /\ [NodeNext]_nodeVars =>
            [\A p \in Procs : Cache!Replayed(p) /\ Cache!File(p) \notin spoilt =>
                 answer'[p] = asked[p]]_(Cache!vars)
    <2> SUFFICES ASSUME C!CacheInv, [NodeNext]_nodeVars
                 PROVE  [\A p \in Procs : Cache!Replayed(p) /\ Cache!File(p) \notin spoilt =>
                             answer'[p] = asked[p]]_(Cache!vars)
      OBVIOUS
    <2>1. [\A p \in Procs : C!Replayed(p) /\ C!File(p) \notin spoilt =>
               answer'[p] = asked[p]]_(C!vars)
      BY <1>1, NodeStep, SameCache, C!ReplayStep
    <2>2. Cache!vars = C!vars /\ Cache!Batch = C!Batch
      BY DEF Cache!vars, C!vars, Cache!inputVars, C!inputVars, Cache!diskVars, C!diskVars,
             Cache!procVars, C!procVars, Cache!Batch, C!Batch
    <2>3. \A p \in Procs : Cache!File(p) = C!File(p) /\ (Cache!Replayed(p) <=> C!Replayed(p))
      BY <2>2 DEF Cache!File, C!File, Cache!Replayed, C!Replayed
    <2> QED
      BY <2>1, <2>2, <2>3 DEF Cache!vars, C!vars, Cache!inputVars, C!inputVars,
             Cache!diskVars, C!diskVars, Cache!procVars, C!procVars
  <1> QED
    BY <1>2, <1>3, <1>4, PTL
    DEF NodeSpec, UnspoiltReplaysExactBatch, Cache!UnspoiltReplaysExactBatch

(* What EngineProofs proves of the engine: its flags say what is so        *)
(* (test_engine_resident_model.py),                                        *)
THEOREM NodeFlagsAreTrue == NodeSpec => []FlagsAreTrue
  <1>1. E!EngineAssumption
    BY NodeAssumption, SameEngine
  <1>2. NodeInit => E!TypedInv /\ E!FlagsAreTrue
    BY <1>1, SameEngine, E!TypedInit DEF NodeInit, E!Init, E!FlagsAreTrue
  <1>3. E!TypedInv /\ E!FlagsAreTrue /\ [NodeNext]_nodeVars => E!TypedInv' /\ E!FlagsAreTrue'
    BY <1>1, NodeStep, SameEngine, E!TypedStep, E!FlagsStep
  <1>4. E!FlagsAreTrue => FlagsAreTrue
    BY SameEngine DEF FlagsAreTrue
  <1> QED
    BY <1>2, <1>3, <1>4, PTL DEF NodeSpec

(* and a replay applies the layer of its rollout step, with the settings   *)
(* that cuda_graph.py:194 is about.                                        *)
THEOREM NodeAppliesItsLayer ==
    ASSUME E!ReplaySuits
    PROVE  NodeSpec => []AppliesItsLayer
  <1>1. E!EngineAssumption
    BY NodeAssumption, SameEngine
  <1>2. NodeInit => E!TypedInv /\ E!FlagsAreTrue /\ E!LayerInv
    BY <1>1, SameEngine, E!TypedInit, E!LayerInit DEF NodeInit, E!Init, E!FlagsAreTrue
  <1>3. E!TypedInv /\ E!FlagsAreTrue /\ [NodeNext]_nodeVars => E!TypedInv' /\ E!FlagsAreTrue'
    BY <1>1, NodeStep, SameEngine, E!TypedStep, E!FlagsStep
  <1>4. E!TypedInv /\ E!FlagsAreTrue /\ E!LayerInv /\ [NodeNext]_nodeVars => E!LayerInv'
    BY <1>1, NodeStep, SameEngine, E!LayerStep
  <1>5. E!LayerInv => AppliesItsLayer
    BY SameEngine DEF AppliesItsLayer, E!LayerInv
  <1> QED
    BY <1>2, <1>3, <1>4, <1>5, PTL DEF NodeSpec

(* What the staged rollout exports for a step is the prediction of that    *)
(* step, whatever the order the devices' streams get to their work in,     *)
(* where the decoder is on one device (staged_rollout.py); for any number  *)
(* of steps and every plan of devices, shared or not.                      *)
THEOREM NodeUnifiedExportsItsSteps == NodeSpec => []UnifiedExportsItsSteps
  <1>1. NodeInit => StagedInv
    BY StagedInit, NodeAssumption DEF NodeInit, NodeAssumption
  <1>2. StagedInv /\ [NodeNext]_nodeVars => StagedInv'
    BY NodeStep, StagedStep, NodeAssumption DEF NodeAssumption
  <1>3. StagedInv => UnifiedExportsItsSteps
    BY StagedKeeps DEF UnifiedExportsItsSteps
  <1> QED
    BY <1>1, <1>2, <1>3, PTL DEF NodeSpec

(* Where the decoder is split over two devices an export may be wrong, but *)
(* only because the east half read before its crop was there, or because   *)
(* the batch was made of a prediction that did: nothing else in the        *)
(* rollout is out of order (staged_rollout.py, the split decoder).         *)
THEOREM NodeOnlyTheEastHalfRaces == NodeSpec => []OnlyTheEastHalfRaces
  <1>1. NodeInit => StagedInv
    BY StagedInit, NodeAssumption DEF NodeInit, NodeAssumption
  <1>2. StagedInv /\ [NodeNext]_nodeVars => StagedInv'
    BY NodeStep, StagedStep, NodeAssumption DEF NodeAssumption
  <1>3. StagedInv => OnlyTheEastHalfRaces
    BY StagedKeeps DEF OnlyTheEastHalfRaces
  <1> QED
    BY <1>1, <1>2, <1>3, PTL DEF NodeSpec

(* Every part goes through the states it has.                              *)
TypesInv ==
    /\ BaseInv
    /\ C!CacheInv
    /\ StagedInv
    /\ E!TypedInv
    /\ SwinInv
    /\ DownInv
    /\ ClientInv

(* Whatever interleavings, crashes and failures a part is exposed to, its  *)
(* variables keep the values that its code knows of: labels, lengths and   *)
(* shapes in range, for any values of the constants.                       *)
THEOREM NodeTypeCorrect == NodeSpec => []NodeTypeOK
  <1>1. C!CacheAssumption /\ E!EngineAssumption
    BY NodeAssumption, SameCache, SameEngine DEF NodeAssumption
  <1>2. NodeInit => TypesInv
    <2>1. SUFFICES ASSUME NodeInit PROVE TypesInv
      OBVIOUS
    <2>2. /\ Init /\ Cache!Init /\ Staged!Init /\ Engine!Init /\ Swin!Init /\ Down!Init
          /\ Peer!Init
      BY <2>1 DEF NodeInit
    <2>3. BaseInv
      BY <2>2, BaseInit
    <2>4. C!CacheInv
      BY <1>1, <2>2, SameCache, C!CacheInit
    <2>5. StagedInv
      BY <2>2, StagedInit, NodeAssumption DEF NodeAssumption
    <2>6. E!TypedInv
      BY <1>1, <2>2, SameEngine, E!TypedInit
    <2>7. SwinInv
      BY <2>2, SwinInit, NodeAssumption
    <2>8. DownInv
      BY <2>2, DownInit
    <2>9. ClientInv
      BY <2>2, ClientInit, NodeAssumption
    <2> QED
      BY <2>3, <2>4, <2>5, <2>6, <2>7, <2>8, <2>9 DEF TypesInv
  <1>3. TypesInv /\ [NodeNext]_nodeVars => TypesInv'
    <2>1. SUFFICES ASSUME TypesInv, [NodeNext]_nodeVars PROVE TypesInv'
      OBVIOUS
    <2>2. /\ [Next]_vars /\ [Cache!Next]_(Cache!vars) /\ [Engine!Next]_(Engine!vars)
          /\ [Swin!Next]_(Swin!vars) /\ [Down!Next]_(Down!vars) /\ [Peer!Next]_(Peer!vars)
          /\ [Staged!Next]_(Staged!vars)
      BY <2>1, NodeStep
    <2>3. BaseInv'
      BY <2>1, <2>2, BaseStep DEF TypesInv
    <2>4. C!CacheInv'
      BY <1>1, <2>1, <2>2, SameCache, C!CacheStep DEF TypesInv
    <2>5. StagedInv'
      BY <2>1, <2>2, StagedStep, NodeAssumption DEF NodeAssumption, TypesInv
    <2>6. E!TypedInv'
      BY <1>1, <2>1, <2>2, SameEngine, E!TypedStep DEF TypesInv
    <2>7. SwinInv'
      BY <2>1, <2>2, SwinStep, NodeAssumption DEF TypesInv
    <2>8. DownInv'
      BY <2>1, <2>2, DownStep, NodeAssumption DEF NodeAssumption, TypesInv
    <2>9. ClientInv'
      BY <2>1, <2>2, ClientStep, NodeAssumption DEF TypesInv
    <2> QED
      BY <2>3, <2>4, <2>5, <2>6, <2>7, <2>8, <2>9 DEF TypesInv
  <1>4. TypesInv => NodeTypeOK
    <2>1. SUFFICES ASSUME TypesInv PROVE NodeTypeOK
      OBVIOUS
    <2>2. TypeOK
      BY <2>1 DEF TypesInv, BaseInv
    <2>3. Cache!TypeOK
      BY <2>1, SameCache DEF TypesInv, C!CacheInv
    <2>4. Staged!TypeOK
      BY <2>1 DEF TypesInv, StagedInv, StagedTypes, Staged!TypeOK
    <2>5. Engine!TypeOK
      BY <2>1, SameEngine DEF TypesInv, E!TypedInv
    <2>6. Swin!TypeOK
      BY <2>1 DEF TypesInv, SwinInv
    <2>7. Down!TypeOK
      BY <2>1 DEF TypesInv, DownInv
    <2>8. Peer!TypeOK
      BY <2>1 DEF TypesInv, ClientInv
    <2> QED
      BY <2>2, <2>3, <2>4, <2>5, <2>6, <2>7, <2>8 DEF NodeTypeOK
  <1> QED
    BY <1>2, <1>3, <1>4, PTL DEF NodeSpec
=============================================================================
