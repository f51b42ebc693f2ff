---------------------------- MODULE TopologyWatch ----------------------------
(***************************************************************************)
(* WatchTopology (hal/grpc/service_hal.cc): the HAL worker takes a         *)
(* snapshot of HAL's structure at every topology period and for            *)
(* GetTopology, numbers the snapshots that differ and offers the new ones  *)
(* to the streams.  A TopologyReactor writes one at a time and keeps the   *)
(* newest that came meanwhile.                                             *)
(*                                                                         *)
(* A snapshot is its sequence number.  A call through a reactor's          *)
(* LifetimeGate is one action; the offer that ends the constructor does    *)
(* not go through the gate, and is split where the worker's can come in    *)
(* between.                                                                *)
(***************************************************************************)
EXTENDS Naturals

CONSTANTS Watches,      \* the streams that clients open
          MaxTopology   \* bound on the changes of HAL's structure

ASSUME TopologyAssumption == MaxTopology \in Nat

VARIABLES structure,     \* HAL's structure (external), counted
          snapshot,      \* topology_snapshot_ and the structure it was taken of
          lastPublished, \* last_published_topology_
          published,     \* ghost: the newest snapshot ever published
          offering,      \* the worker in topology_wakes_.publish
          topologyHub,   \* topology_wakes_ is open
          watch,         \* the TopologyReactor of each stream
          shown          \* the newest snapshot each client has (external)

topologyVars == <<structure, snapshot, lastPublished, published, offering, topologyHub, watch, shown>>
reactorVars == <<watch, shown>>

NotOffering == [at |-> "idle", sequence |-> 0, left |-> {}]
NoWatch == [at |-> "none", after |-> 0, writing |-> 0, inFlight |-> FALSE, pending |-> 0,
            cached |-> 0, overtaken |-> FALSE, subscribed |-> FALSE, terminal |-> FALSE,
            gate |-> "Open"]

\* The constructor takes the first snapshot.
TopologyInit ==
    /\ structure = 1
    /\ snapshot = [sequence |-> 1, of |-> 1]
    /\ lastPublished = 0 /\ published = 0
    /\ offering = NotOffering
    /\ topologyHub = TRUE
    /\ watch = [w \in Watches |-> NoWatch]
    /\ shown = [w \in Watches |-> 0]

\* Components come and go, signals are linked (external).
StructureChanges ==
    /\ structure < MaxTopology
    /\ structure' = structure + 1
    /\ UNCHANGED <<snapshot, lastPublished, published, offering, topologyHub, reactorVars>>

-----------------------------------------------------------------------------
(* The HAL worker *)

\* refresh_topology_snapshot: a snapshot that differs gets the next number.
Refreshed ==
    [sequence |-> IF snapshot.of = structure THEN snapshot.sequence ELSE snapshot.sequence + 1,
     of |-> structure]

\* GetTopology.
GetTopology ==
    /\ offering.at = "idle"
    /\ snapshot' = Refreshed
    /\ UNCHANGED <<structure, lastPublished, published, offering, topologyHub, reactorVars>>

\* Mutant: only a snapshot that is new with this refresh is published.
RefreshTopologyIfNew ==
    /\ offering.at = "idle"
    /\ snapshot' = Refreshed
    /\ IF Refreshed.sequence > snapshot.sequence
       THEN /\ lastPublished' = Refreshed.sequence
            /\ offering' = [offering EXCEPT !.at = "publish", !.sequence = Refreshed.sequence]
            /\ published' = Refreshed.sequence
       ELSE /\ published' = Refreshed.sequence
            /\ UNCHANGED <<lastPublished, offering>>
    /\ UNCHANGED <<structure, topologyHub, reactorVars>>

\* The timer's task: a snapshot newer than the last one published is published.
RefreshTopology ==
    /\ offering.at = "idle"
    /\ snapshot' = Refreshed
    /\ IF Refreshed.sequence > lastPublished
       THEN /\ lastPublished' = Refreshed.sequence
            /\ offering' = [offering EXCEPT !.at = "publish", !.sequence = Refreshed.sequence]
            /\ published' = Refreshed.sequence
       ELSE UNCHANGED <<lastPublished, offering, published>>
    /\ UNCHANGED <<structure, topologyHub, reactorVars>>

\* HAL cannot be read: the next snapshot is published in any case.
RefreshFails ==
    /\ offering.at = "idle"
    /\ lastPublished' = 0
    /\ UNCHANGED <<structure, snapshot, published, offering, topologyHub, reactorVars>>

\* topology_wakes_.publish copies the callbacks ...
CopyWatches ==
    /\ offering.at = "publish"
    /\ offering' = [offering EXCEPT !.at = "offer",
                      !.left = {w \in Watches : topologyHub /\ watch[w].subscribed}]
    /\ UNCHANGED <<structure, snapshot, lastPublished, published, topologyHub, reactorVars>>

OffersDone ==
    /\ offering.at = "offer" /\ offering.left = {}
    /\ offering' = NotOffering
    /\ UNCHANGED <<structure, snapshot, lastPublished, published, topologyHub, reactorVars>>

-----------------------------------------------------------------------------
(* The reactor's own operations, as functions of its state *)

\* finish_if_ready: Finish is called once no write is outstanding.
WatchFinished(x) ==
    IF x.terminal /\ ~x.inFlight THEN [x EXCEPT !.gate = "Finishing", !.subscribed = FALSE] ELSE x

\* request_finish.
WatchFinish(x) == WatchFinished([x EXCEPT !.terminal = TRUE, !.subscribed = FALSE, !.pending = 0])

\* start_write: the message is set before the write is started, or is not.
StartTopology(x, sequence) ==
    IF sequence = x.after THEN x
    ELSE [x EXCEPT !.writing = sequence, !.inFlight = ~x.terminal \/ @]

\* offer, during a write: the newest is kept.
Pending(x, sequence) ==
    IF sequence > x.writing /\ (x.pending = 0 \/ sequence > x.pending)
    THEN [x EXCEPT !.pending = sequence] ELSE x

\* Whether offer has anything to do.
Offerable(x, sequence) == sequence # x.after /\ ~x.terminal /\ x.gate = "Open"

\* offer.
Offer(x, sequence) ==
    IF ~Offerable(x, sequence) THEN x
    ELSE IF x.inFlight THEN Pending(x, sequence)
    ELSE StartTopology(x, sequence)

\* ... and offers the snapshot to each.
OfferTopology(w) ==
    /\ offering.at = "offer" /\ w \in offering.left
    /\ offering' = [offering EXCEPT !.left = @ \ {w}]
    /\ watch' = [watch EXCEPT ![w] = IF @.gate = "Open" THEN Offer(@, offering.sequence) ELSE @]
    /\ UNCHANGED <<structure, snapshot, lastPublished, published, topologyHub, shown>>

-----------------------------------------------------------------------------
(* A stream's life *)

OpenWatch(w) ==
    /\ watch[w].at = "none" /\ topologyHub
    /\ watch' = [watch EXCEPT ![w].at = "subscribe"]
    /\ UNCHANGED <<structure, snapshot, lastPublished, published, offering, topologyHub, shown>>

\* No registration, or no place for another stream.
OpenWatchRefused(w) ==
    /\ watch[w].at = "none"
    /\ watch' = [watch EXCEPT ![w] = WatchFinish([@ EXCEPT !.at = "built"])]
    /\ UNCHANGED <<structure, snapshot, lastPublished, published, offering, topologyHub, shown>>

SubscribeWatch(w) ==
    /\ watch[w].at = "subscribe"
    /\ watch' = [watch EXCEPT ![w].at = "cached", ![w].subscribed = topologyHub]
    /\ UNCHANGED <<structure, snapshot, lastPublished, published, offering, topologyHub, shown>>

\* cached_topology_snapshot.
ReadCached(w) ==
    /\ watch[w].at = "cached"
    /\ watch' = [watch EXCEPT ![w].at = "offer", ![w].cached = snapshot.sequence]
    /\ UNCHANGED <<structure, snapshot, lastPublished, published, offering, topologyHub, shown>>

\* The constructor's offer looks at the reactor ...
FirstOffer(w) ==
    /\ watch[w].at = "offer"
    /\ LET x == watch[w] IN
       watch' = [watch EXCEPT ![w] =
                   IF ~Offerable(x, x.cached) THEN [x EXCEPT !.at = "built"]
                   ELSE IF x.inFlight THEN [Pending(x, x.cached) EXCEPT !.at = "built"]
                   ELSE [x EXCEPT !.at = "start"]]
    /\ UNCHANGED <<structure, snapshot, lastPublished, published, offering, topologyHub, shown>>

\* ... and starts a write.  The worker may have started one since: its message,
\* which gRPC only holds a pointer to until the stream is bound, is overwritten.
FirstStart(w) ==
    /\ watch[w].at = "start"
    /\ LET x == watch[w] IN
       watch' = [watch EXCEPT ![w] =
                   [StartTopology(x, x.cached) EXCEPT !.at = "built", !.overtaken = x.inFlight]]
    /\ UNCHANGED <<structure, snapshot, lastPublished, published, offering, topologyHub, shown>>

\* OnWriteDone(true).
TopologyWritten(w) ==
    /\ watch[w].at = "built" /\ watch[w].gate = "Open" /\ watch[w].inFlight
    /\ shown' = [shown EXCEPT ![w] = watch[w].writing]
    /\ LET x == [watch[w] EXCEPT !.inFlight = FALSE]
           y == [x EXCEPT !.after = x.writing, !.pending = 0] IN
       watch' = [watch EXCEPT ![w] =
                   IF x.terminal THEN WatchFinished(x)
                   ELSE IF x.pending # 0 THEN StartTopology(y, x.pending) ELSE y]
    /\ UNCHANGED <<structure, snapshot, lastPublished, published, offering, topologyHub>>

\* OnWriteDone(false).
TopologyWriteFailed(w) ==
    /\ watch[w].at = "built" /\ watch[w].gate = "Open" /\ watch[w].inFlight
    /\ watch' = [watch EXCEPT ![w] =
                   WatchFinished([@ EXCEPT !.inFlight = FALSE, !.terminal = TRUE])]
    /\ UNCHANGED <<structure, snapshot, lastPublished, published, offering, topologyHub, shown>>

\* OnCancel, or the shutdown of the service, once the hub is closed.
EndWatch(w) ==
    /\ watch[w].at = "built" /\ watch[w].gate = "Open" /\ ~watch[w].terminal
    /\ watch' = [watch EXCEPT ![w] = WatchFinish(@)]
    /\ UNCHANGED <<structure, snapshot, lastPublished, published, offering, topologyHub, shown>>

\* OnDone.
WatchDone(w) ==
    /\ watch[w].at = "built" /\ watch[w].gate = "Finishing"
    /\ watch' = [watch EXCEPT ![w].gate = "Done"]
    /\ UNCHANGED <<structure, snapshot, lastPublished, published, offering, topologyHub, shown>>

\* shutdown closes the hub first.
CloseTopologyHub ==
    /\ topologyHub
    /\ topologyHub' = FALSE
    /\ watch' = [w \in Watches |-> [watch[w] EXCEPT !.subscribed = FALSE]]
    /\ UNCHANGED <<structure, snapshot, lastPublished, published, offering, shown>>

WatchStep(w) ==
    \/ OpenWatch(w) \/ OpenWatchRefused(w) \/ SubscribeWatch(w) \/ ReadCached(w) \/ FirstOffer(w)
    \/ FirstStart(w) \/ OfferTopology(w) \/ TopologyWritten(w) \/ TopologyWriteFailed(w)
    \/ EndWatch(w) \/ WatchDone(w)

TopologyNext ==
    \/ StructureChanges \/ GetTopology \/ RefreshTopology \/ RefreshFails \/ CopyWatches
    \/ OffersDone \/ CloseTopologyHub
    \/ \E w \in Watches : WatchStep(w)

TopologySpec == TopologyInit /\ [][TopologyNext]_topologyVars

-----------------------------------------------------------------------------
(* Properties *)

\* A stream that is open and writes nothing has shown its client the newest
\* published snapshot, or is about to be offered it.  The exception is real: a
\* constructor whose ungated offer was overtaken by the worker's puts an older
\* snapshot in the place of the newer one.
TopologyCatchesUp ==
    \A w \in Watches :
        /\ watch[w].at = "built" /\ watch[w].gate = "Open" /\ ~watch[w].inFlight /\ topologyHub
        => \/ shown[w] >= published
           \/ offering.at = "publish"
           \/ offering.at = "offer" /\ w \in offering.left
           \/ watch[w].overtaken /\ shown[w] = watch[w].cached
===============================================================================
