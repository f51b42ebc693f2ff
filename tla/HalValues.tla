------------------------------ MODULE HalValues ------------------------------
(***************************************************************************)
(* HAL value subscriptions: HalValueTelemetry (hal/value_telemetry.cc),    *)
(* the calls and the sampling that run on the HAL worker (service_hal.cc)  *)
(* and the WebSocket sessions on the telemetry server's thread.  The two   *)
(* threads meet in the telemetry's mutex; every section under it is an     *)
(* action, and waking the sessions afterwards is another.                  *)
(*                                                                         *)
(* An item of HAL is absent or has a type and a value.  The time until an  *)
(* unattached subscription expires may be over at any look at the clock.   *)
(***************************************************************************)
EXTENDS Naturals, Sequences, SequencesExt, FiniteSets, FiniteSetsExt

CONSTANTS HalItems,        \* the items of HAL
          HalStates,       \* what an item can be: Absent, or a type and a value
          Requests,        \* the item lists and periods that clients ask for
          MaxSubscriptions, \* bound on the subscriptions created
          TelemetryCapacity, \* capacity_
          MaxSamplesPerSecond, \* kMaxSamplesPerSecond
          MaxRevision,     \* bound on the updates of a subscription
          MaxHalChanges,   \* bound on what HAL does
          Sockets          \* the WebSocket connections

VARIABLES halItem,    \* HAL (external): each item, and how often it changed
          subs,       \* states_, by subscription
          lastSub,    \* ghost: the subscriptions created so far
          halWorker,  \* the task the HAL worker is in
          socket,     \* the session of each connection
          view        \* what each client has put together (external)

valueVars == <<halItem, subs, lastSub, halWorker, socket, view>>

Absent == [type |-> "absent", value |-> 0]
NoSub == [exists |-> FALSE]
NoSnapshot == [kind |-> "none"]
IdleWorker == [at |-> "idle"]
NoSocket == [at |-> "none", id |-> 0, subscribed |-> FALSE, posted |-> 0, write |-> NoSnapshot,
             revision |-> 0, values |-> <<>>, dirty |-> FALSE, closing |-> FALSE]
NoView == [revision |-> 0, slots |-> {}]

ValueInit ==
    /\ halItem = [state |-> [i \in HalItems |-> CHOOSE h \in HalStates : h # Absent], changes |-> 0]
    /\ subs = [id \in 1..MaxSubscriptions |-> NoSub]
    /\ lastSub = 0
    /\ halWorker = IdleWorker
    /\ socket = [s \in Sockets |-> NoSocket]
    /\ view = [s \in Sockets |-> NoView]

\* HAL moves on: items change, appear, disappear and come back with another type.
HalChanges(i, h) ==
    /\ halItem.changes < MaxHalChanges /\ halItem.state[i] # h
    /\ halItem' = [state |-> [halItem.state EXCEPT ![i] = h], changes |-> halItem.changes + 1]
    /\ UNCHANGED <<subs, lastSub, halWorker, socket, view>>

-----------------------------------------------------------------------------
(* HalValueTelemetry *)

Live == {id \in DOMAIN subs : subs[id].exists}

\* expire_locked, when the time of these unattached subscriptions is over.
Expired(late) == [id \in DOMAIN subs |-> IF id \in late THEN NoSub ELSE subs[id]]
Unattached == {id \in Live : ~subs[id].attached}

\* The rate that a sample period stands for, rounded up.
SampleRate(period) == (1000 + period - 1) \div period

\* within_sampling_budget_locked: each item costs its fastest sample period.
WithinBudget(others, request) ==
    LET asked == {<<i, request.period>> : i \in Range(request.items)} \cup
                 UNION {{<<b.item, subs[id].period>> : b \in Range(subs[id].slots)} : id \in others}
        rate(i) == SampleRate(Min({a[2] : a \in {b \in asked : b[1] = i}})) IN
    MapThenSumSet(rate, {a[1] : a \in asked}) <= MaxSamplesPerSecond

\* The slot that a list of slots has for an item of a type.
Prior(slots, item, type) == {k \in DOMAIN slots : slots[k].item = item /\ slots[k].type = type}

\* create and update: an item keeps its slot and value if its type is the same.
Bound(slots, nextSlot, items, type) ==
    FoldLeft(LAMBDA acc, i :
                LET prior == Prior(slots, i, type[i]) IN
                IF prior # {} THEN [acc EXCEPT !.slots = Append(@, slots[Min(prior)])]
                ELSE [slots |-> Append(acc.slots, [slot |-> acc.next, item |-> i, type |-> type[i],
                                                   value |-> Absent]),
                      next |-> acc.next + 1],
             [slots |-> <<>>, next |-> nextSlot], items)

\* resolve_subscription_items: the type HAL has, or else the one the subscription had.
TypeOf(slots) ==
    [i \in HalItems |->
        LET known == {k \in DOMAIN slots : slots[k].item = i} IN
        IF halItem.state[i] # Absent THEN halItem.state[i].type
        ELSE IF known # {} THEN slots[Min(known)].type ELSE "unknown"]

Resolvable(slots, items) == \A i \in Range(items) : TypeOf(slots)[i] # "unknown"

\* do_create_value_subscription.
CreateSubscription(request, late) ==
    /\ halWorker = IdleWorker /\ lastSub < MaxSubscriptions
    /\ request.items # <<>> /\ Resolvable(<<>>, request.items)
    /\ late \subseteq Unattached
    /\ LET others == Live \ late
           bound == Bound(<<>>, 0, request.items, TypeOf(<<>>))
           admitted == /\ Cardinality(others) < TelemetryCapacity
                       /\ WithinBudget(others, request)
           new == [exists |-> TRUE, revision |-> 1, nextSlot |-> bound.next, attached |-> FALSE,
                   sampled |-> FALSE, slots |-> bound.slots, period |-> request.period] IN
       /\ lastSub' = IF admitted THEN lastSub + 1 ELSE lastSub
       /\ subs' = IF admitted THEN [Expired(late) EXCEPT ![lastSub + 1] = new] ELSE Expired(late)
    /\ UNCHANGED <<halItem, halWorker, socket, view>>

\* do_update_value_subscription: the revision must be the one the client expects.
UpdateSubscription(id, request) ==
    /\ halWorker = IdleWorker
    /\ id \in Live /\ subs[id].revision < MaxRevision
    /\ Resolvable(subs[id].slots, request.items)
    /\ WithinBudget(Live \ {id}, request)
    /\ LET bound == Bound(subs[id].slots, subs[id].nextSlot, request.items, TypeOf(subs[id].slots)) IN
       subs' = [subs EXCEPT ![id].slots = bound.slots, ![id].nextSlot = bound.next,
                            ![id].sampled = bound.slots = <<>>, ![id].period = request.period,
                            ![id].revision = @ + 1]
    /\ halWorker' = [at |-> "wake", id |-> id]
    /\ UNCHANGED <<halItem, lastSub, socket, view>>

\* do_delete_value_subscription: erase.
DeleteSubscription(id) ==
    /\ halWorker = IdleWorker /\ id \in Live
    /\ subs' = [subs EXCEPT ![id] = NoSub]
    /\ halWorker' = [at |-> "wake", id |-> id]
    /\ UNCHANGED <<halItem, lastSub, socket, view>>

\* sample_telemetry: what is due is noted ...
SampleDue(id, late) ==
    /\ halWorker = IdleWorker
    /\ late \subseteq Unattached
    /\ id \in Live /\ subs[id].attached /\ subs[id].slots # <<>>
    /\ subs' = Expired(late)
    /\ halWorker' = [at |-> "sample", id |-> id, revision |-> subs[id].revision,
                     slots |-> subs[id].slots]
    /\ UNCHANGED <<halItem, lastSub, socket, view>>

\* What is published for a slot: the value, if it has the slot's type.
Read(slot) ==
    LET h == halItem.state[slot.item] IN
    [slot EXCEPT !.value = IF h.type = slot.type THEN h ELSE Absent]

\* ... and HAL's values are read and published, to the same revision only.
PublishSample ==
    /\ halWorker.at = "sample"
    /\ LET id == halWorker.id
           read == [k \in DOMAIN halWorker.slots |-> Read(halWorker.slots[k])]
           fits == subs[id].exists /\ subs[id].revision = halWorker.revision
           changed == fits /\ (~subs[id].sampled \/ subs[id].slots # read) IN
       /\ subs' = IF changed THEN [subs EXCEPT ![id].slots = read, ![id].sampled = TRUE] ELSE subs
       /\ halWorker' = IF changed THEN [at |-> "wake", id |-> id] ELSE IdleWorker
    /\ UNCHANGED <<halItem, lastSub, socket, view>>

\* wakes.publish: the subscribed session is posted a wake.
WakeSockets ==
    /\ halWorker.at = "wake"
    /\ socket' = [s \in Sockets |->
                    IF socket[s].subscribed /\ socket[s].id = halWorker.id
                    THEN [socket[s] EXCEPT !.posted = @ + 1] ELSE socket[s]]
    /\ halWorker' = IdleWorker
    /\ UNCHANGED <<halItem, subs, lastSub, view>>

-----------------------------------------------------------------------------
(* The sessions, on the telemetry server's thread *)

\* fail: the session gives its subscription back.
FailSocket(s) ==
    /\ socket' = [socket EXCEPT ![s] = [NoSocket EXCEPT !.at = "closed"]]
    /\ subs' = IF socket[s].id \in Live THEN [subs EXCEPT ![socket[s].id].attached = FALSE] ELSE subs
    /\ view' = [view EXCEPT ![s] = NoView]

\* claim succeeds for a subscription that no session has.
Claimable(id) == subs[id].exists /\ ~subs[id].attached

\* on_upgrade_request.
ClaimSubscription(s, id, late) ==
    /\ socket[s].at = "none"
    /\ late \subseteq Unattached
    /\ LET left == Expired(late) IN
       IF id \notin late /\ Claimable(id)
       THEN /\ subs' = [left EXCEPT ![id].attached = TRUE]
            /\ socket' = [socket EXCEPT ![s].at = "claimed", ![s].id = id]
       ELSE /\ subs' = left
            /\ socket' = [socket EXCEPT ![s].at = "closed"]
    /\ UNCHANGED <<halItem, lastSub, halWorker, view>>

\* on_accept subscribes, if the subscription is still there ...
SubscribeSocket(s) ==
    /\ socket[s].at = "claimed"
    /\ socket' = [socket EXCEPT ![s].at = "accepted", ![s].subscribed = socket[s].id \in Live]
    /\ UNCHANGED <<halItem, subs, lastSub, halWorker, view>>

\* Which slots of the subscription differ from what was sent last.
ChangedSlots(x, slots) ==
    {k \in DOMAIN slots : k > Len(x.values) \/ slots[k].value # x.values[k]}

\* send_hal, with something to send: a replacement for a new revision.
Offered(x) ==
    LET sub == subs[x.id]
        replacement == x.revision # sub.revision
        sent == IF replacement THEN DOMAIN sub.slots ELSE ChangedSlots(x, sub.slots) IN
    IF ~sub.sampled \/ (~replacement /\ sent = {}) THEN x
    ELSE [x EXCEPT !.write =
            [kind |-> IF replacement THEN "replacement" ELSE "delta", revision |-> sub.revision,
             values |-> [k \in DOMAIN sub.slots |-> sub.slots[k].value],
             entries |-> {<<sub.slots[k].slot, sub.slots[k].value>> : k \in sent}]]

\* send_hal: a session whose subscription is gone ends.
SendHal(s, x) ==
    IF x.id \in Live
    THEN socket' = [socket EXCEPT ![s] = Offered(x)] /\ UNCHANGED <<subs, view>>
    ELSE FailSocket(s)

\* ... and sends what there is.
FirstSend(s) ==
    /\ socket[s].at = "accepted"
    /\ SendHal(s, [socket[s] EXCEPT !.at = "open"])
    /\ UNCHANGED <<halItem, lastSub, halWorker>>

\* Mutant: a wake that comes during a write is forgotten.
WakeHalForgetful(s) ==
    /\ socket[s].at = "open" /\ socket[s].posted > 0
    /\ LET x == [socket[s] EXCEPT !.posted = @ - 1] IN
       IF x.write # NoSnapshot
       THEN socket' = [socket EXCEPT ![s] = x] /\ UNCHANGED <<subs, view>>
       ELSE SendHal(s, x)
    /\ UNCHANGED <<halItem, lastSub, halWorker>>

\* wake_hal.
WakeHal(s) ==
    /\ socket[s].at = "open" /\ socket[s].posted > 0
    /\ LET x == [socket[s] EXCEPT !.posted = @ - 1] IN
       IF x.write # NoSnapshot
       THEN socket' = [socket EXCEPT ![s] = [x EXCEPT !.dirty = TRUE]] /\ UNCHANGED <<subs, view>>
       ELSE SendHal(s, x)
    /\ UNCHANGED <<halItem, lastSub, halWorker>>

\* What a client does with a frame (external).
Seen(old, frame) ==
    [revision |-> frame.revision,
     slots |-> IF frame.kind = "replacement" THEN frame.entries
               ELSE frame.entries \cup {e \in old.slots : \A f \in frame.entries : f[1] # e[1]}]

\* on_write: what was sent is noted, and a wake that came meanwhile is served.
HalWritten(s) ==
    /\ socket[s].at = "open" /\ socket[s].write # NoSnapshot
    /\ LET frame == socket[s].write
           x == [socket[s] EXCEPT !.revision = frame.revision, !.values = frame.values,
                                  !.write = NoSnapshot]
           seen == [view EXCEPT ![s] = Seen(@, frame)] IN
       IF x.closing \/ ~x.dirty
       THEN socket' = [socket EXCEPT ![s] = x] /\ view' = seen /\ UNCHANGED subs
       ELSE IF x.id \in Live
       THEN /\ socket' = [socket EXCEPT ![s] = Offered([x EXCEPT !.dirty = FALSE])]
            /\ view' = seen /\ UNCHANGED subs
       ELSE FailSocket(s)
    /\ UNCHANGED <<halItem, lastSub, halWorker>>

\* on_read: a client that sends something is turned away.
SocketSpeaks(s) ==
    /\ socket[s].at = "open" /\ ~socket[s].closing
    /\ socket' = [socket EXCEPT ![s].closing = TRUE]
    /\ UNCHANGED <<halItem, subs, lastSub, halWorker, view>>

\* The connection ends, by the client, an error, a deadline or the server.
SocketFails(s) ==
    /\ socket[s].at \in {"claimed", "accepted", "open"}
    /\ FailSocket(s)
    /\ UNCHANGED <<halItem, lastSub, halWorker>>

Late == SUBSET Unattached

WorkerCall ==
    \/ \E r \in Requests, late \in Late : CreateSubscription(r, late)
    \/ \E id \in DOMAIN subs :
          \/ \E r \in Requests : UpdateSubscription(id, r)
          \/ \E late \in Late : SampleDue(id, late)
          \/ DeleteSubscription(id)
    \/ PublishSample \/ WakeSockets

SocketStep(s) ==
    \/ \E id \in DOMAIN subs, late \in Late : ClaimSubscription(s, id, late)
    \/ SubscribeSocket(s) \/ FirstSend(s) \/ WakeHal(s) \/ HalWritten(s) \/ SocketSpeaks(s)
    \/ SocketFails(s)

ValueNext ==
    \/ \E i \in HalItems, h \in HalStates : HalChanges(i, h)
    \/ WorkerCall
    \/ \E s \in Sockets : SocketStep(s)

ValueSpec == ValueInit /\ [][ValueNext]_valueVars

-----------------------------------------------------------------------------
(* Properties *)

\* Whatever updates, samples, writes and wakes cross, a session that waits with no
\* wake on its way has a subscription, and its client has put together exactly
\* what the subscription holds, in its latest revision.
ViewIsCurrent ==
    \A s \in Sockets :
        /\ socket[s].at = "open" /\ socket[s].write = NoSnapshot /\ socket[s].posted = 0
        /\ ~socket[s].closing /\ halWorker.at # "wake"
        => /\ socket[s].id \in Live
           /\ LET sub == subs[socket[s].id] IN
              sub.sampled =>
                 view[s] = [revision |-> sub.revision,
                            slots |-> {<<b.slot, b.value>> : b \in Range(sub.slots)}]
===============================================================================
