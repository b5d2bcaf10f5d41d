-------------------------------- MODULE Client --------------------------------
(***************************************************************************)
(* ForecastClient of scheduler/client.py: clients that submit jobs to one  *)
(* peer, a worker or a coordinator, and read what it says of them.  A peer *)
(* sends each event to one of the clients that are connected, whosever job *)
(* it is about, and a client reads all that is sent to it in one order,    *)
(* whichever of its calls is asking.                                       *)
(*                                                                         *)
(* The peer is abstract, and may stop at any time: Worker and Coordinator  *)
(* have the detail.  events() is a generator: a caller may resume the ones *)
(* it holds in any order.                                                  *)
(***************************************************************************)
EXTENDS Queues, SequencesExt, FiniteSets

CONSTANTS
    Clients,
    Requests,    \* a request_id each
    MaxProgress, \* bound: events of a request before its answer
    MaxExtra,    \* bound: commands and reports that are not about a request
    MaxParties   \* bound: clients and requests together

ClientAssumption == MaxExtra \in Nat /\ {"health", "shutdown"} \cap Requests = {}

VARIABLES
    link,      \* of a client: its sockets
    call,      \* of a client: the call it is in
    commands,  \* on the way from a client
    inbox,     \* on the way to a client
    outbox,    \* _pending_events of the peer
    extra,     \* how many commands and reports were not about a request
    submitter, \* of a request
    told,      \* history: the events emitted about a request
    got,       \* what events() has yielded of it
    disturbed  \* history: requests whose caller did something else meanwhile

pipes == <<commands, inbox, outbox>>
vars == <<link, call, pipes, extra, submitter, told, got, disturbed>>

(* The answer is "completed" or "failed", progress what comes before it; a *)
(* report ("ready", "health") is about no request                          *)
JobEvents == [kind : {"progress", "answer"}, of : {{r} : r \in Requests}]
Report(kind) == [kind |-> kind, of |-> {}]
Events == JobEvents \cup {Report("ready"), Report("health")}
Call(name, r) == [name |-> name, of |-> r]
Idle == Call("idle", {})

TypeOK ==
    /\ link \in [Clients -> {"new", "open", "attached", "closed"}]
    /\ call \in [Clients -> {Call(n, {}) : n \in {"idle", "health", "wait_for_ready"}}
                            \cup {Call("events", {r}) : r \in Requests}]
    /\ commands \in [Clients -> Seq({"health", "shutdown"} \cup Requests)]
    /\ inbox \in [Clients -> Seq(Events)]
    /\ outbox \in Seq(Events)
    /\ extra \in 0 .. MaxExtra
    /\ submitter \in [Requests -> {{}} \cup {{c} : c \in Clients}]
    /\ told \in [Requests -> Seq(JobEvents)]
    /\ got \in [Requests -> Seq(Events)]
    /\ disturbed \subseteq Requests

Init ==
    /\ link = [c \in Clients |-> "new"]
    /\ call = [c \in Clients |-> Idle]
    /\ commands = [c \in Clients |-> <<>>]
    /\ inbox = [c \in Clients |-> <<>>]
    /\ outbox = <<>>
    /\ extra = 0
    /\ submitter = [r \in Requests |-> {}]
    /\ told = [r \in Requests |-> <<>>]
    /\ got = told
    /\ disturbed = {}

Extra == extra < MaxExtra /\ extra' = extra + 1
Parties == Cardinality({c \in Clients : link[c] # "new"})
           + Cardinality({r \in Requests : submitter[r] # {}})
Answered(events) == events # <<>> /\ Last(events).kind = "answer"

-----------------------------------------------------------------------------
(* The peer                                                                *)

(* The clients whose event connection it has accepted *)
Attached == {c \in Clients : link[c] = "attached"}

(* _emit: sent as far as there is anybody to send it to.  The limits of    *)
(* the pipes, a thousand events, are not reached.                          *)
Emitted(event) ==
    IF Attached = {} \/ outbox # <<>>
    THEN outbox' = Append(outbox, event) /\ UNCHANGED inbox
    ELSE /\ \E c \in Attached : inbox' = [inbox EXCEPT ![c] = Append(@, event)]
         /\ UNCHANGED outbox

Says(r) ==
    \E event \in [kind : {"progress", "answer"}, of : {{r}}] :
        /\ event.kind = "progress" => Len(told[r]) < MaxProgress
        /\ told' = [told EXCEPT ![r] = Append(@, event)]
        /\ Emitted(event)

Handle(c) ==
    /\ commands[c] # <<>>
    /\ commands' = [commands EXCEPT ![c] = Tail(@)]
    /\ LET command == Head(commands[c])
       IN  \/ command = "health" /\ Emitted(Report("health")) /\ UNCHANGED told
           \/ command = "shutdown" /\ UNCHANGED <<inbox, outbox, told>>
           \/ command \in Requests /\ Says(command)
    /\ UNCHANGED <<link, call, extra, submitter, got, disturbed>>

Work(r) ==
    /\ told[r] # <<>> /\ ~Answered(told[r])
    /\ Says(r)
    /\ UNCHANGED <<link, call, commands, extra, submitter, got, disturbed>>

(* A worker drops it if there is nobody to hear it, a coordinator does not *)
Announce ==
    /\ Extra
    /\ \/ Emitted(Report("ready"))
       \/ Attached = {} /\ UNCHANGED <<outbox, inbox>>
    /\ UNCHANGED <<link, call, commands, submitter, told, got, disturbed>>

Attach(c) ==
    /\ link[c] = "open"
    /\ link' = [link EXCEPT ![c] = "attached"]
    /\ UNCHANGED <<call, pipes, extra, submitter, told, got, disturbed>>

(* What was held back goes out *)
Flush(c) ==
    /\ outbox # <<>>
    /\ c \in Attached
    /\ inbox' = [inbox EXCEPT ![c] = Append(@, Head(outbox))]
    /\ outbox' = Tail(outbox)
    /\ UNCHANGED <<link, call, commands, extra, submitter, told, got, disturbed>>

-----------------------------------------------------------------------------
(* The calls of a client                                                   *)

Open == {c \in Clients : link[c] \in {"open", "attached"}}
Free(c) == c \in Open /\ call[c] = Idle
Outstanding == {r \in Requests : submitter[r] # {} /\ ~Answered(got[r])}

Send(c, command) == commands' = [commands EXCEPT ![c] = Append(@, command)]
Enter(c, name, r) == call' = [call EXCEPT ![c] = Call(name, r)]
Disturbing(requests) == disturbed' = disturbed \cup requests

Connect(c) ==
    /\ link[c] = "new"
    /\ Parties < MaxParties
    /\ link' = [link EXCEPT ![c] = "open"]
    /\ Disturbing(Outstanding)
    /\ UNCHANGED <<call, pipes, extra, submitter, told, got>>

(* With linger=0 what is not yet sent need not be sent *)
Close(c) ==
    /\ Free(c)
    /\ link' = [link EXCEPT ![c] = "closed"]
    /\ inbox' = [inbox EXCEPT ![c] = <<>>]
    /\ \E n \in 0 .. Len(commands[c]) :
          commands' = [commands EXCEPT ![c] = SubSeq(@, 1, n)]
    /\ Disturbing(Outstanding)
    /\ UNCHANGED <<call, outbox, extra, submitter, told, got>>

Submit(c, r) ==
    /\ Free(c)
    /\ submitter[r] = {}
    /\ Parties < MaxParties
    /\ submitter' = [submitter EXCEPT ![r] = {c}]
    /\ Send(c, r)
    /\ Disturbing(IF Open = {c} THEN {} ELSE {r})
    /\ UNCHANGED <<link, call, inbox, outbox, extra, told, got>>

ShutdownWorker(c) ==
    /\ Free(c)
    /\ Extra
    /\ Send(c, "shutdown")
    /\ UNCHANGED <<link, call, inbox, outbox, submitter, told, got, disturbed>>

Health(c) ==
    /\ Free(c)
    /\ Extra
    /\ Send(c, "health")
    /\ Enter(c, "health", {})
    /\ Disturbing(Outstanding)
    /\ UNCHANGED <<link, inbox, outbox, submitter, told, got>>

WaitForReady(c) ==
    /\ Free(c)
    /\ Enter(c, "wait_for_ready", {})
    /\ Disturbing(Outstanding)
    /\ UNCHANGED <<link, pipes, extra, submitter, told, got>>

(* next() of events(r) *)
Resume(c, r) ==
    /\ Free(c)
    /\ submitter[r] = {c}
    /\ Enter(c, "events", {r})
    /\ Disturbing(Outstanding \ {r})
    /\ UNCHANGED <<link, pipes, extra, submitter, told, got>>

-----------------------------------------------------------------------------
(* Reading                                                                 *)

Reads(c, name) ==
    /\ call[c].name = name
    /\ inbox[c] # <<>>
    /\ inbox' = [inbox EXCEPT ![c] = Tail(@)]
    /\ UNCHANGED <<link, commands, outbox, extra, submitter, told, disturbed>>

(* Any other event is dropped.  The deadline is looked at after each. *)
ReadHealth(c) ==
    /\ Reads(c, "health")
    /\ \/ Enter(c, "idle", {})
       \/ Head(inbox[c]).kind # "health" /\ UNCHANGED call
    /\ UNCHANGED got

(* A report need not say "ready", or not with the weights loaded *)
ReadReady(c) ==
    /\ Reads(c, "wait_for_ready")
    /\ Enter(c, "idle", {}) \/ UNCHANGED call
    /\ UNCHANGED got

(* It polls in vain, asks, and polls again when nothing comes in a second *)
PollInVain(c) ==
    /\ call[c].name = "wait_for_ready"
    /\ inbox[c] = <<>>
    /\ Extra
    /\ Send(c, "health")
    /\ UNCHANGED <<link, call, inbox, outbox, submitter, told, got, disturbed>>

(* Mutant: what has no request_id is taken for an event of this request *)
SkipsOthersOnly(event, wanted) == event.kind = "ready" \/ event.of \notin {{}, wanted}

(* A report, or an event of another request, is dropped *)
Skips(event, wanted) == event.kind \in {"ready", "health"} \/ event.of # wanted

ReadEvents(c) ==
    /\ Reads(c, "events")
    /\ LET event == Head(inbox[c])
           wanted == call[c].of
       IN  IF Skips(event, wanted)
           THEN UNCHANGED <<call, got>>
           ELSE /\ Enter(c, "idle", {})
                /\ got' = [r \in Requests |->
                              IF r \in wanted THEN Append(got[r], event) ELSE got[r]]

(* RCVTIMEO passes, or the deadline of wait_for_ready *)
Again(c) ==
    /\ call[c] # Idle
    /\ inbox[c] = <<>>
    /\ Enter(c, "idle", {})
    /\ UNCHANGED <<link, pipes, extra, submitter, told, got, disturbed>>

-----------------------------------------------------------------------------

ClientNext(c) ==
    \/ Connect(c) \/ Close(c) \/ ShutdownWorker(c) \/ Health(c) \/ WaitForReady(c)
    \/ \E r \in Requests : Submit(c, r) \/ Resume(c, r)
    \/ ReadHealth(c) \/ ReadReady(c) \/ PollInVain(c) \/ ReadEvents(c) \/ Again(c)

Next ==
    \/ \E c \in Clients : ClientNext(c) \/ Handle(c) \/ Attach(c) \/ Flush(c)
    \/ \E r \in Requests : Work(r)
    \/ Announce

Spec == Init /\ [][Next]_vars

-----------------------------------------------------------------------------
(* Properties                                                              *)

EventsOf(r, events) == Only(events, {x \in Events : x.of = {r}})

(* forecast() promises all events of its request and nothing else, in      *)
(* order, up to the answer: while a request is outstanding, and as long    *)
(* as no second client is connected and its own one is neither closed nor  *)
(* asked for anything else, what events() has yielded, what lies in the    *)
(* client's pipe and what the peer holds back is what the peer has said of *)
(* it, whatever reports come in between and however often a receive timed  *)
(* out.  (client.py:145-160)                                               *)
ForecastIsComplete ==
    \A r \in Requests \ disturbed : \A c \in submitter[r] :
        told[r] = got[r] \o EventsOf(r, inbox[c]) \o EventsOf(r, outbox)
=============================================================================
