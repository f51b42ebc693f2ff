--------------------------- MODULE RemoteComponent ---------------------------
(***************************************************************************)
(* Remote HAL components (hal/grpc/remote_component_registry.cc and        *)
(* remote_component_rpc.cc).  A RunComponent stream creates a proxy or     *)
(* attaches to one that an earlier stream left behind, activates it with   *)
(* its outputs, and then sends updates and receives deltas of its inputs.  *)
(*                                                                         *)
(* The registry is touched by tasks of the one HAL worker only; the        *)
(* streams' reactors run on gRPC's threads and meet it through the         *)
(* worker's bounded queue.  A task and the gated calls it makes are one    *)
(* action: nothing else sees the registry, so what another thread does to  *)
(* a reactor in between could as well have been done before the task.      *)
(*                                                                         *)
(* A component has one client-owned output with a disconnect value, some   *)
(* server-readable inputs and the managed online pin.                      *)
(***************************************************************************)
EXTENDS Naturals, Sequences, SequencesExt, FiniteSets

CONSTANTS MaxStreams,     \* the RunComponent streams, numbered as clients open them
          Names,          \* component names
          MaxInputs,      \* the server-readable pins of a component, numbered as
                          \* they first change
          MaxLevel,       \* bound on what HAL drives a pin to, counting up from 0
          MaxTicks,       \* bound on the timer's tasks in the queue
          MaxOthers,      \* bound on the detachments of other components in the queue
          MaxProxies,     \* bound on the proxies ever created
          MaxGeneration,  \* bound on the attachments of one proxy
          MaxUpdates,     \* bound on the updates a client sends
          MaxItems,       \* max_remote_hal_items
          MaxComponents,  \* limit_ of component_admission
          MaxAtShutdown,  \* bound on the streams opened when the service is shut down
          HalCapacity,    \* capacity_ of the HAL worker
          HalReserve      \* cleanup_reserve_ of the HAL worker

ASSUME RemoteAssumption ==
    /\ {MaxStreams, MaxInputs, MaxLevel, MaxTicks, MaxOthers, MaxProxies, MaxGeneration, MaxUpdates,
        MaxItems, MaxComponents, MaxAtShutdown} \subseteq Nat
    /\ HalCapacity \in Nat \ {0} /\ HalReserve \in 0..HalCapacity

VARIABLES proxies,    \* proxies, by proxy id
          created,    \* ghost: proxy ids given out so far
          retained,   \* retained_item_count
          components,   \* component_admission's count
          input,      \* the input pins of each proxy, driven by HAL (external)
          halQueue,   \* the HAL worker's queue
          halOpen,    \* the HAL worker accepts ordinary tasks
          rpc,        \* the Reactor of each stream
          client,     \* what each client knows (external)
          closing     \* HalServiceImpl::shutdown: where it is, whom it has to call

remoteVars == <<proxies, created, retained, components, input, halQueue, halOpen,
                rpc, client, closing>>
registryVars == <<proxies, created, retained, components>>

Clients == 1..MaxStreams
Inputs == 1..MaxInputs

NoId == 0            \* an empty proxy_id_
Disconnected == "disconnect value"
Nobody == 0   \* no callbacks
Items == MaxInputs + 2   \* proxy.items: with the output and online

NoWrite == [kind |-> "none"]

NoClient == [generation |-> 0, sent |-> 0, view |-> [p \in Inputs |-> 0]]

-----------------------------------------------------------------------------
(* ComponentOutbox *)

\* The newer values, and the older ones of pins the newer delta does not name.
Merged(old, new) == [p \in DOMAIN old \cup DOMAIN new |-> IF p \in DOMAIN new THEN new[p] ELSE old[p]]

\* Mutant: the newer delta takes the older one's place.
PushDeltaNewest(box, delta) ==
    IF box # <<>> /\ Last(box).kind = "delta"
    THEN [box EXCEPT ![Len(box)] = delta]
    ELSE Append(box, delta)

\* push_delta: a delta is merged into one that is last in the queue.
PushDelta(box, delta) ==
    IF box # <<>> /\ Last(box).kind = "delta"
    THEN [box EXCEPT ![Len(box)].levels = Merged(@, delta.levels)]
    ELSE Append(box, delta)

-----------------------------------------------------------------------------
(* The reactor's own operations, as functions of its state *)

NoRpc == [gate |-> "none", reading |-> FALSE, id |-> NoId,
          generation |-> 0, writing |-> NoWrite, outbox |-> <<>>, resume |-> FALSE,
          finishAfter |-> FALSE, detachRequested |-> FALSE, terminal |-> FALSE]

\* finish_if_ready: Finish is called once no write is outstanding.
RpcFinished(x) ==
    IF x.terminal /\ x.writing = NoWrite THEN [x EXCEPT !.gate = "Finishing"] ELSE x

\* request_finish.
RpcFinish(x) ==
    RpcFinished([x EXCEPT !.outbox = <<>>, !.resume = FALSE, !.terminal = TRUE])

\* offer_delta.
OfferDelta(x, delta) ==
    IF x.terminal THEN x
    ELSE IF x.writing # NoWrite THEN [x EXCEPT !.outbox = PushDelta(@, delta)]
    ELSE [x EXCEPT !.writing = delta]

\* offer_response.
OfferResponse(x, response) ==
    IF x.terminal THEN x
    ELSE IF x.writing # NoWrite THEN [x EXCEPT !.outbox = Append(@, response)]
    ELSE [x EXCEPT !.writing = response]

\* OnWriteDone(true) of a stream that is not ending.
AfterWrite(x) ==
    LET y == [x EXCEPT !.writing = NoWrite, !.resume = @ \/ x.writing.kind # "delta"] IN
    IF y.outbox # <<>> THEN [y EXCEPT !.writing = Head(y.outbox), !.outbox = Tail(@)]
    ELSE IF y.finishAfter THEN RpcFinish(y)
    ELSE [y EXCEPT !.reading = @ \/ y.resume, !.resume = FALSE]

\* detach_transport asks once, and only for a stream that has a proxy.
WantsDetach(x) == ~x.detachRequested /\ x.id # NoId

DetachTask(x) == [op |-> "detach", id |-> x.id, generation |-> x.generation]

-----------------------------------------------------------------------------
(* The HAL worker's queue *)

IsOrdinary(task) == task.op \in {"consume", "tick"}

AdmitsOrdinary ==
    /\ halOpen /\ Len(halQueue) < HalCapacity
    /\ Cardinality({i \in DOMAIN halQueue : IsOrdinary(halQueue[i])}) < HalCapacity - HalReserve

AdmitsCleanup == Len(halQueue) < HalCapacity

\* What submit_cleanup leaves in the queue; its refusal is not looked at.
WithCleanup(task) == IF AdmitsCleanup THEN Append(halQueue, task) ELSE halQueue

RemoteInit ==
    /\ proxies = <<>>
    /\ created = 0
    /\ retained = 0
    /\ components = 0
    /\ input = [i \in 1..MaxProxies |-> [p \in Inputs |-> 0]]
    /\ halQueue = <<>>
    /\ halOpen = TRUE
    /\ rpc = [s \in Clients |-> NoRpc]
    /\ client = [s \in Clients |-> NoClient]
    /\ closing = [at |-> "open", left |-> {}]

-----------------------------------------------------------------------------
(* The registry *)

\* apply_disconnect, and the attachment given up.
DisconnectProxy(p) ==
    [p EXCEPT !.online = FALSE, !.active = FALSE, !.output = Disconnected,
              !.attached = FALSE, !.owner = Nobody]

\* Mutant: the generation of the attachment is not compared.
IsAttachedAnyGeneration(id, generation) == id \in DOMAIN proxies /\ proxies[id].attached

\* The proxy is there, attached, and still in the attachment meant.
IsAttached(id, generation) ==
    /\ id \in DOMAIN proxies
    /\ proxies[id].attached /\ proxies[id].generation = generation

Rejected == [ok |-> FALSE]

\* encode_snapshot: the client is told the input, which becomes item.previous.
AttachedMessage(id, generation) ==
    [kind |-> "attached", generation |-> generation, levels |-> input[id]]

\* A result with a response, and what becomes of the proxy.
Accepted(id, p, response, close) ==
    [ok |-> TRUE, id |-> id, proxy |-> p, response |-> response, close |-> close]

Ack == [kind |-> "ack"]   \* active, update_ack, heartbeat_ack or closed

\* create: a new proxy, attached and not yet active.
CreateProxy(s, name) ==
    Accepted(created + 1,
        [name |-> name, attached |-> TRUE, active |-> FALSE, generation |-> 1,
         sequence |-> 0, late |-> FALSE, owner |-> s, online |-> FALSE,
         output |-> Disconnected, previous |-> input[created + 1]],
        AttachedMessage(created + 1, 1), FALSE)

\* Why create refuses before it has taken anything: the name, or the budget.
CreateRefused(name) ==
    \/ \E i \in DOMAIN proxies : proxies[i].name = name
    \/ retained + Items > MaxItems
    \/ components >= MaxComponents
    \/ ~halOpen    \* component_admission has been stopped

\* attach: the proxy's next generation begins.
AttachProxy(s, id) ==
    LET g == proxies[id].generation + 1 IN
    Accepted(id, [proxies[id] EXCEPT !.attached = TRUE, !.active = FALSE,
                    !.generation = g, !.sequence = 0, !.late = FALSE,
                    !.owner = s, !.online = FALSE, !.previous = input[id]],
             AttachedMessage(id, g), FALSE)

\* consume of a message that is not the stream's first.  decode_values checks
\* what component->write checks, so the writes that follow do not fail.
Consumed(task) ==
    LET p == proxies[task.id]
        m == task.message IN
    CASE ~IsAttached(task.id, task.generation) -> Rejected
      [] m.kind = "activate" ->
           IF p.active \/ m.generation # p.generation THEN Rejected
           ELSE Accepted(task.id, [p EXCEPT !.output = task.stream, !.online = TRUE,
                                            !.active = TRUE, !.late = FALSE],
                         Ack, FALSE)
      [] m.kind = "update" ->
           IF ~p.active \/ m.generation # p.generation \/ m.sequence # p.sequence + 1
           THEN Rejected
           ELSE Accepted(task.id, [p EXCEPT !.output = task.stream, !.late = FALSE,
                                            !.sequence = m.sequence],
                         Ack, FALSE)
      [] m.kind = "heartbeat" ->
           IF m.generation # p.generation THEN Rejected
           ELSE Accepted(task.id, [p EXCEPT !.late = FALSE], Ack, FALSE)
      [] m.kind \in {"detach", "destroy"} ->
           IF m.generation # p.generation THEN Rejected
           ELSE Accepted(task.id, DisconnectProxy(p), Ack, TRUE)
      [] OTHER -> Rejected

\* consume: what the task may be answered.
Outcomes(task) ==
    LET m == task.message IN
    IF task.id # NoId
    THEN {IF m.kind \in {"create", "attach"} THEN Rejected ELSE Consumed(task)}
    ELSE CASE m.kind = "create" ->
                IF CreateRefused(m.name) THEN {Rejected}
                ELSE {CreateProxy(task.stream, m.name),
                      Rejected}  \* a HAL call throws; what was taken is given back
           [] m.kind = "attach" ->
                {IF m.id \notin DOMAIN proxies THEN Rejected
                 ELSE IF proxies[m.id].attached THEN Rejected
                 ELSE AttachProxy(task.stream, m.id)}
           [] OTHER -> {Rejected}

Destroys(task) == task.message.kind = "destroy"

\* The worker's gated call, and what the reactor's detach_transport queues.
\* A stream that is finishing does not hear of it, and its attachment is undone.
Deliver(task, r) ==
    LET s == task.stream
        x == rpc[s]
        attachment == [x EXCEPT !.id = r.id, !.generation = r.proxy.generation]
        answered == OfferResponse(attachment, r.response) IN
    IF x.gate # "Open"
    THEN /\ halQueue' = Tail(halQueue)
         /\ UNCHANGED rpc
    ELSE IF ~r.ok
    THEN /\ rpc' = [rpc EXCEPT ![s] =
                      RpcFinish([x EXCEPT !.detachRequested = @ \/ x.id # NoId])]
         /\ halQueue' = IF WantsDetach(x) /\ Len(Tail(halQueue)) < HalCapacity
                        THEN Append(Tail(halQueue), DetachTask(x)) ELSE Tail(halQueue)
    ELSE /\ rpc' = [rpc EXCEPT ![s] =
                      IF r.close THEN [answered EXCEPT !.detachRequested = TRUE,
                                                       !.finishAfter = TRUE]
                      ELSE answered]
         /\ halQueue' = Tail(halQueue)

\* A result whose stream is finishing detaches the proxy at once.
Kept(task, r) == IF rpc[task.stream].gate = "Open" THEN r.proxy ELSE DisconnectProxy(r.proxy)

RunConsume ==
    /\ halQueue # <<>> /\ Head(halQueue).op = "consume"
    /\ LET task == Head(halQueue) IN
       \E r \in Outcomes(task) :
          /\ Deliver(task, r)
          /\ \/ /\ ~r.ok
                /\ UNCHANGED registryVars
             \/ /\ r.ok /\ Destroys(task)
                /\ proxies' = [i \in DOMAIN proxies \ {r.id} |-> proxies[i]]
                /\ retained' = retained - Items
                /\ components' = components - 1
                /\ UNCHANGED created
             \/ /\ r.ok /\ r.id = created + 1
                /\ proxies' = [i \in DOMAIN proxies \cup {r.id} |->
                                 IF i = r.id THEN Kept(task, r) ELSE proxies[i]]
                /\ created' = r.id
                /\ retained' = retained + Items
                /\ components' = components + 1
             \/ /\ r.ok /\ ~Destroys(task) /\ r.id # created + 1
                /\ proxies' = [proxies EXCEPT ![r.id] = Kept(task, r)]
                /\ UNCHANGED <<created, retained, components>>
    /\ UNCHANGED <<input, halOpen, client, closing>>

\* detach: ignored unless the proxy is still in that attachment.
RunDetach ==
    /\ halQueue # <<>> /\ Head(halQueue).op = "detach"
    /\ LET task == Head(halQueue) IN
       proxies' = IF IsAttached(task.id, task.generation)
                  THEN [proxies EXCEPT ![task.id] = DisconnectProxy(@)] ELSE proxies
    /\ halQueue' = Tail(halQueue)
    /\ UNCHANGED <<created, retained, components, input, halOpen, rpc, client, closing>>

\* Mutant: only an activated attachment has to be heard.
TimesOutIfActive(p) == p.attached /\ p.active /\ p.late

TimesOut(p) == p.attached /\ p.late

\* sample: a silent attachment is ended, an active one is read.
Sampled(id, p) ==
    IF TimesOut(p) THEN DisconnectProxy(p)
    ELSE IF p.attached /\ p.active THEN [p EXCEPT !.previous = input[id]]
    ELSE p

\* heartbeat_timeout of the stream that owned the attachment.
TimedOut(x, generation) ==
    IF x.gate # "Open" \/ x.generation # generation THEN x
    ELSE RpcFinish([x EXCEPT !.detachRequested = TRUE])

\* What the tick's callbacks do to a reactor.
Ticked(s) ==
    LET x == rpc[s]
        mine == {i \in DOMAIN proxies : proxies[i].attached /\ proxies[i].owner = s}
        changed == {i \in mine : proxies[i].active /\ proxies[i].previous # input[i]} IN
    IF \E i \in mine : TimesOut(proxies[i])
    THEN TimedOut(x, proxies[CHOOSE i \in mine : TimesOut(proxies[i])].generation)
    ELSE IF changed # {} /\ x.gate = "Open"
    THEN LET i == CHOOSE j \in changed : TRUE IN
         OfferDelta(x, [kind |-> "delta",
                        levels |-> [p \in {q \in Inputs : proxies[i].previous[q] # input[i][q]} |->
                                      input[i][p]]])
    ELSE x

RunTick ==
    /\ halQueue # <<>> /\ Head(halQueue).op = "tick"
    /\ proxies' = [i \in DOMAIN proxies |-> Sampled(i, proxies[i])]
    /\ rpc' = [s \in Clients |-> Ticked(s)]
    /\ halQueue' = Tail(halQueue)
    /\ UNCHANGED <<created, retained, components, input, halOpen, client, closing>>

\* The registry's shutdown.
RunDestroy ==
    /\ halQueue # <<>> /\ Head(halQueue).op = "destroy"
    /\ proxies' = <<>>
    /\ retained' = 0
    /\ components' = components - Cardinality(DOMAIN proxies)
    /\ halQueue' = Tail(halQueue)
    /\ closing' = [closing EXCEPT !.at = "closed"]
    /\ UNCHANGED <<created, input, halOpen, rpc, client>>

\* The detachment of a component that the model does not follow.
RunOther ==
    /\ halQueue # <<>> /\ Head(halQueue).op = "other"
    /\ halQueue' = Tail(halQueue)
    /\ UNCHANGED <<registryVars, input, halOpen, rpc, client, closing>>

WorkerRuns == RunConsume \/ RunDetach \/ RunTick \/ RunOther \/ RunDestroy

-----------------------------------------------------------------------------
(* A stream's life *)

\* RunComponent: registration, stream admission, and the first StartRead.
OpenRpc(s) ==
    /\ rpc[s].gate = "none" /\ closing.at = "open"
    /\ halOpen \/ s <= MaxAtShutdown
    /\ \A t \in 1..(s - 1) : rpc[t].gate # "none"
    /\ rpc' = [rpc EXCEPT ![s] = [NoRpc EXCEPT !.gate = "Open", !.reading = TRUE]]
    /\ UNCHANGED <<registryVars, input, halQueue, halOpen, client, closing>>

\* What a client may send next: "bad" is a first message of another kind, and
\* later ones are refused when they come too soon, twice or too late.
Messages(s) ==
    LET c == client[s] IN
    IF c.generation = 0
    THEN {[kind |-> "create", name |-> n] : n \in {m \in Names : created < MaxProxies}}
         \cup {[kind |-> "attach", id |-> i] :
                 i \in {j \in 1..created : j \in DOMAIN proxies
                                             => proxies[j].generation < MaxGeneration}}
         \cup {[kind |-> "bad"]}
    ELSE {[kind |-> k, generation |-> c.generation] :
             k \in {"activate", "heartbeat", "detach", "destroy"}}
         \cup {[kind |-> "update", generation |-> c.generation, sequence |-> c.sent + 1] :
                 n \in {m \in {1} : c.sent < MaxUpdates}}

\* OnReadDone(true): the message is queued with the attachment the stream has
\* now, or the stream ends because the queue is full.
ReadDone(s) ==
    /\ rpc[s].gate = "Open" /\ rpc[s].reading
    /\ LET x == [rpc[s] EXCEPT !.reading = FALSE] IN
       \E m \in Messages(s) :
          /\ client' = [client EXCEPT ![s].sent = IF m.kind = "update" THEN @ + 1 ELSE @]
          /\ \/ /\ rpc[s].terminal
                /\ rpc' = [rpc EXCEPT ![s].reading = FALSE]
                /\ UNCHANGED halQueue
             \/ /\ ~rpc[s].terminal /\ AdmitsOrdinary
                /\ halQueue' = Append(halQueue, [op |-> "consume", stream |-> s, id |-> x.id,
                                                 generation |-> x.generation, message |-> m])
                /\ rpc' = [rpc EXCEPT ![s] = x]
             \/ /\ ~rpc[s].terminal /\ ~AdmitsOrdinary
                /\ rpc' = [rpc EXCEPT ![s] = RpcFinish(x)]
                /\ UNCHANGED halQueue
    /\ UNCHANGED <<registryVars, input, halOpen, closing>>

\* detach_transport followed by request_finish.
EndTransport(s) ==
    /\ rpc' = [rpc EXCEPT ![s] = RpcFinish([@ EXCEPT !.detachRequested = @ \/ rpc[s].id # NoId])]
    /\ halQueue' = IF WantsDetach(rpc[s]) THEN WithCleanup(DetachTask(rpc[s])) ELSE halQueue

\* OnReadDone(false), and OnCancel.
Cancelled(s) ==
    /\ rpc[s].gate = "Open"
    /\ EndTransport(s)
    /\ rpc[s].terminal => rpc' # rpc
    /\ UNCHANGED <<registryVars, input, halOpen, client, closing>>

\* tick: the first message has not come within five seconds.  A stream that
\* reads and has no proxy has received none.
FirstMessageTimeout(s) ==
    /\ rpc[s].gate = "Open" /\ rpc[s].reading /\ rpc[s].id = NoId
    /\ rpc' = [rpc EXCEPT ![s] = RpcFinish(@)]
    /\ UNCHANGED <<registryVars, input, halQueue, halOpen, client, closing>>

\* What the client has after reading a message.
ClientReads(c, message) ==
    CASE message.kind = "attached" ->
           [generation |-> message.generation, sent |-> 0, view |-> message.levels]
      [] message.kind = "delta" -> [c EXCEPT !.view = Merged(@, message.levels)]
      [] OTHER -> c

\* OnWriteDone(true).
RpcWriteDone(s) ==
    /\ rpc[s].gate = "Open" /\ rpc[s].writing # NoWrite
    /\ client' = [client EXCEPT ![s] = ClientReads(@, rpc[s].writing)]
    /\ rpc' = [rpc EXCEPT ![s] =
                 IF @.terminal THEN RpcFinished([@ EXCEPT !.writing = NoWrite])
                 ELSE AfterWrite(@)]
    /\ UNCHANGED <<registryVars, input, halQueue, halOpen, closing>>

\* OnWriteDone(false): the stream ends, and OnDone gives up the attachment.
RpcWriteFailed(s) ==
    /\ rpc[s].gate = "Open" /\ rpc[s].writing # NoWrite
    /\ rpc' = [rpc EXCEPT ![s] = RpcFinished([@ EXCEPT !.writing = NoWrite, !.terminal = TRUE])]
    /\ UNCHANGED <<registryVars, input, halQueue, halOpen, client, closing>>

\* OnDone.
RpcDone(s) ==
    /\ rpc[s].gate = "Finishing"
    /\ rpc' = [rpc EXCEPT ![s] = [NoRpc EXCEPT !.gate = "Done", !.terminal = TRUE]]
    /\ halQueue' = IF WantsDetach(rpc[s]) THEN WithCleanup(DetachTask(rpc[s])) ELSE halQueue
    /\ client' = [client EXCEPT ![s] = NoClient]
    /\ UNCHANGED <<registryVars, input, halOpen, closing>>

-----------------------------------------------------------------------------
(* The timer, HAL and time *)

\* timer_loop submits a tick, unless the queue refuses it.  One that finds no
\* component attached does nothing.
SubmitTick ==
    /\ closing.at \in {"open", "calling"} /\ AdmitsOrdinary
    /\ \E i \in DOMAIN proxies : proxies[i].attached
    /\ Cardinality({i \in DOMAIN halQueue : halQueue[i].op = "tick"}) < MaxTicks
    /\ halQueue' = Append(halQueue, [op |-> "tick"])
    /\ UNCHANGED <<registryVars, input, halOpen, rpc, client, closing>>

\* A stream that the model does not follow detaches its component, and takes the
\* last place in the queue.
OtherDetaches ==
    /\ closing.at = "open" /\ DOMAIN proxies # {}
    /\ AdmitsCleanup /\ Len(halQueue) + 1 = HalCapacity
    /\ Cardinality({i \in DOMAIN halQueue : halQueue[i].op = "other"}) < MaxOthers
    /\ halQueue' = Append(halQueue, [op |-> "other"])
    /\ UNCHANGED <<registryVars, input, halOpen, rpc, client, closing>>

\* HAL drives an input pin.
InputChanges ==
    \E i \in DOMAIN proxies, p \in Inputs :
        /\ input[i][p] < MaxLevel
        /\ \A q \in 1..(p - 1) : input[i][q] > 0
        /\ input' = [input EXCEPT ![i][p] = @ + 1]
        /\ UNCHANGED <<registryVars, halQueue, halOpen, rpc, client, closing>>

\* heartbeat_timeout passes since the attachment was last heard.
HeartbeatLate(i) ==
    /\ i \in DOMAIN proxies /\ proxies[i].attached /\ ~proxies[i].late
    /\ proxies' = [proxies EXCEPT ![i].late = TRUE]
    /\ UNCHANGED <<created, retained, components, input, halQueue, halOpen, rpc, client, closing>>

-----------------------------------------------------------------------------
(* Shutdown: stop_admission of the worker, then HalServiceImpl::shutdown *)

StopHalAdmission ==
    /\ halOpen
    /\ \A s \in Clients : s > MaxAtShutdown => rpc[s].gate = "none"
    /\ halOpen' = FALSE
    /\ UNCHANGED <<registryVars, input, halQueue, rpc, client, closing>>

\* callbacks_.shutdown copies the registered callbacks ...
ShutdownRpcs ==
    /\ ~halOpen /\ closing.at = "open"
    /\ closing' = [at |-> "calling", left |-> {s \in Clients : rpc[s].gate \in {"Open", "Finishing"}}]
    /\ UNCHANGED <<registryVars, input, halQueue, halOpen, rpc, client>>

\* ... and calls them.
ShutdownRpc(s) ==
    /\ s \in closing.left
    /\ closing' = [closing EXCEPT !.left = @ \ {s}]
    /\ IF rpc[s].gate = "Open" THEN EndTransport(s) ELSE UNCHANGED <<rpc, halQueue>>
    /\ UNCHANGED <<registryVars, input, halOpen, client>>

\* The timer is joined and the registry's shutdown queued; when the queue
\* refuses it, the queue is drained first.
QueueDestroy ==
    /\ closing.at = "calling" /\ closing.left = {}
    /\ AdmitsCleanup
    /\ halQueue' = Append(halQueue, [op |-> "destroy"])
    /\ closing' = [closing EXCEPT !.at = "waiting"]
    /\ UNCHANGED <<registryVars, input, halOpen, rpc, client>>

RpcStep(s) ==
    \/ OpenRpc(s) \/ ReadDone(s) \/ Cancelled(s) \/ FirstMessageTimeout(s)
    \/ RpcWriteDone(s) \/ RpcWriteFailed(s) \/ RpcDone(s) \/ ShutdownRpc(s)

RemoteNext ==
    \/ WorkerRuns \/ SubmitTick \/ OtherDetaches \/ InputChanges
    \/ \E i \in 1..MaxProxies : HeartbeatLate(i)
    \/ \E s \in Clients : RpcStep(s)
    \/ StopHalAdmission \/ ShutdownRpcs \/ QueueDestroy

\* The worker runs what is queued, the timer ticks, time passes and a shutdown goes
\* on once it has begun; clients, HAL and gRPC owe nothing.
RemoteFairness ==
    /\ WF_remoteVars(WorkerRuns)
    /\ WF_remoteVars(SubmitTick)
    /\ WF_remoteVars(\E i \in 1..MaxProxies : HeartbeatLate(i))
    /\ WF_remoteVars(ShutdownRpcs \/ QueueDestroy \/ \E s \in Clients : ShutdownRpc(s))

RemoteSpec == RemoteInit /\ [][RemoteNext]_remoteVars /\ RemoteFairness

-----------------------------------------------------------------------------
(* Properties *)

\* An attachment is its stream's own: a proxy is online exactly while it is
\* active, its output is the disconnect value unless the stream that holds the
\* attachment has set it, and a stream that has not given up its attachment still
\* holds the proxy in that generation, whatever tasks of earlier streams ran
\* since.  "attachment generation checks prevent queued work from a prior stream
\* from mutating a reattached proxy" (docs/native-grpc-architecture.md).
OwnOutputs ==
    /\ \A i \in DOMAIN proxies :
        LET p == proxies[i] IN
        /\ p.online <=> p.active
        /\ p.active => p.attached
        /\ IF p.active THEN p.output = p.owner ELSE p.output = Disconnected
    /\ \A s \in Clients :
        LET x == rpc[s] IN
        (x.gate = "Open" /\ x.id # NoId /\ ~x.detachRequested) =>
            /\ IsAttached(x.id, x.generation)
            /\ proxies[x.id].owner = s

\* Nothing sampled is lost between the registry and the client: the level the
\* client holds, with what is being written and what waits in the outbox applied
\* to it, is item.previous.
DeltasAddUp ==
    \A i \in DOMAIN proxies :
        proxies[i].attached =>
        LET p == proxies[i]
            x == rpc[p.owner]
            coming == SelectSeq(<<x.writing>> \o x.outbox,
                                LAMBDA m : m.kind \in {"attached", "delta"}) IN
        ~x.terminal /\ x.id = i /\ x.generation = p.generation =>
            p.previous = FoldLeft(LAMBDA view, m : Merged(view, m.levels),
                                  client[p.owner].view, coming)

\* A proxy that is attached to a stream that has ended.
Stranded ==
    \E i \in DOMAIN proxies, s \in Clients :
        proxies[i].attached /\ proxies[i].owner = s /\ rpc[s].gate = "Done"

\* A proxy does not stay attached to a stream that has ended, even when the
\* queue refused the detachment: the heartbeat ends it.
DeadStreamLetsGo == Stranded ~> ~Stranded
===============================================================================
