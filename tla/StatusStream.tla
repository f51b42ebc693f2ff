----------------------------- MODULE StatusStream -----------------------------
(***************************************************************************)
(* WatchStatus (machine/grpc/service.cc): the polling thread turns status    *)
(* snapshots into a numbered history of deltas, and a reactor per stream     *)
(* sends each client a snapshot, a replay or a delta, one write at a time.   *)
(*                                                                           *)
(* The threads are the poller, the pool that runs wake() (its queue may      *)
(* refuse), gRPC's callbacks, the thread that constructs a reactor and the   *)
(* one that shuts the service down.  A call made through a reactor's         *)
(* LifetimeGate holds the gate, so it is one action.                         *)
(***************************************************************************)
EXTENDS Naturals, Sequences, SequencesExt

CONSTANTS Streams,       \* the streams that clients open
          Units,         \* the units of a status that a delta replaces whole
          Values,        \* what a unit can hold, an absent array item included
          ReplayCapacity,\* replay_capacity_
          MaxSequence,   \* bound on the sequence numbers explored
          Afters         \* what clients pass as after_sequence

ASSUME StatusAssumption ==
    /\ ReplayCapacity \in Nat \ {0}
    /\ MaxSequence \in Nat
    /\ Afters \subseteq Nat

VARIABLES available,   \* status_available_
          history,     \* history_; its last entry is latest_
          published,   \* ghost: the status of every sequence number so far
          poll,        \* where the poller is
          hubClosed,   \* status_wakes_ is closed
          registry,    \* callbacks_: shutting_down, and whom it has yet to call
          reactor,     \* the StatusReactor of each stream
          view         \* what each client has pieced together (external)

statusVars == <<available, history, published, poll, hubClosed, registry, reactor, view>>
streamVars == <<reactor, view>>

Statuses == [Units -> Values]

-----------------------------------------------------------------------------
(* make_status_delta, and what a client does with its result *)

\* The units that differ, with their new values; no unit is std::nullopt.
Delta(old, new) == [u \in {v \in Units : old[v] # new[v]} |-> new[u]]

NoDelta == [u \in {} |-> u]

Patched(status, delta) ==
    [u \in Units |-> IF u \in DOMAIN delta THEN delta[u] ELSE status[u]]

\* The event a client reads, applied to what it has.
Received(had, event) ==
    CASE event.kind = "snapshot" -> <<event.sequence, event.status>>
      [] event.kind = "delta"    -> <<event.sequence, Patched(had[2], event.delta)>>
      [] event.kind = "replay"   ->
           <<event.sequence, FoldLeft(Patched, event.status, event.deltas)>>

-----------------------------------------------------------------------------
(* The service's state *)

Sample(n, status, delta) == [sequence |-> n, status |-> status, delta |-> delta]

Nothing == [sequence |-> 0]   \* a null StatusSamplePtr

NoReactor ==
    [at |-> "none", after |-> 0, subscribed |-> FALSE, scheduled |-> FALSE,
     previous |-> Nothing, writing |-> Nothing, event |-> Nothing,
     terminal |-> FALSE, gate |-> "Open"]

Deleted == [NoReactor EXCEPT !.at = "built", !.terminal = TRUE, !.gate = "Done"]

StatusInit ==
    /\ available = FALSE
    /\ history = <<>>
    /\ published = <<>>
    /\ poll = [at |-> "idle"]
    /\ hubClosed = FALSE
    /\ registry = [shuttingDown |-> FALSE, left |-> {}]
    /\ reactor = [r \in Streams |-> NoReactor]
    /\ view = [r \in Streams |-> <<>>]

-----------------------------------------------------------------------------
(* The poller *)

\* poll_status returned Updated: the status counts as available before it is
\* observed.
PollUpdated ==
    /\ poll.at = "idle"
    /\ Len(published) < MaxSequence
    /\ \E s \in Statuses :
          poll' = [at |-> "observe", fresh |-> s, recovered |-> ~available]
    /\ available' = TRUE
    /\ UNCHANGED <<history, published, hubClosed, registry, streamVars>>

\* poll_status returned Stale or Disconnected: mark_status_unavailable, which
\* wakes the streams the first time.
PollUnavailable ==
    /\ poll.at = "idle"
    /\ available
    /\ available' = FALSE
    /\ poll' = [at |-> "publish"]
    /\ UNCHANGED <<history, published, hubClosed, registry, streamVars>>

\* After an outage nothing older is retained.
Rebased(h, sample) == <<sample>>

Trimmed(h) ==
    IF Len(h) > ReplayCapacity THEN SubSeq(h, Len(h) - ReplayCapacity + 1, Len(h)) ELSE h

\* observe_status, under status_mutex_: the first sample, a rebase after an
\* outage, a delta, or nothing new.
Observe ==
    /\ poll.at = "observe"
    /\ LET n == Len(published) + 1
           delta == Delta(Last(history).status, poll.fresh)
           plain == Sample(n, poll.fresh, NoDelta)
           fresh == Append(published, poll.fresh) IN
       \/ /\ history = <<>>
          /\ history' = <<plain>>
          /\ published' = fresh
          /\ poll' = [at |-> "publish"]
       \/ /\ history # <<>> /\ poll.recovered
          /\ history' = Rebased(history, plain)
          /\ published' = fresh
          /\ poll' = [at |-> "publish"]
       \/ /\ history # <<>> /\ ~poll.recovered /\ delta # NoDelta
          /\ history' = Trimmed(Append(history, Sample(n, poll.fresh, delta)))
          /\ published' = fresh
          /\ poll' = [at |-> "publish"]
       \/ /\ history # <<>> /\ ~poll.recovered /\ delta = NoDelta
          /\ poll' = [at |-> "idle"]
          /\ UNCHANGED <<history, published>>
    /\ UNCHANGED <<available, hubClosed, registry, streamVars>>

\* status_wakes_.publish: copy the callbacks, then call them unlocked.
PublishWake ==
    /\ poll.at = "publish"
    /\ poll' = [at |-> "waking",
                left |-> {r \in Streams : ~hubClosed /\ reactor[r].subscribed}]
    /\ UNCHANGED <<available, history, published, hubClosed, registry, streamVars>>

-----------------------------------------------------------------------------
(* A reactor's own operations, as functions of its state *)

\* Mutant: the gate does not look at its state.
AlwaysGated(r) == reactor[r].at # "none"

\* gate_->invoke: nothing happens once the gate is not open.
Gated(r) == reactor[r].gate = "Open" /\ reactor[r].at # "none"

\* Mutant: Finish does not wait for the outstanding write.
FinishedAtOnce(x) ==
    IF x.terminal
    THEN [x EXCEPT !.gate = "Finishing", !.subscribed = FALSE] ELSE x

\* finish_if_ready: Finish is called once no write is outstanding.
Finished(x) ==
    IF x.terminal /\ x.writing = Nothing
    THEN [x EXCEPT !.gate = "Finishing", !.subscribed = FALSE] ELSE x

\* request_finish; the first terminal status stays.
RequestFinish(x) == Finished([x EXCEPT !.terminal = TRUE, !.subscribed = FALSE])

\* schedule_wake: at most one wake() is queued; a full queue ends the stream.
Scheduled(x) ==
    IF x.terminal \/ x.gate # "Open" \/ x.scheduled THEN {x}
    ELSE {[x EXCEPT !.scheduled = TRUE], RequestFinish(x)}

-----------------------------------------------------------------------------
(* The stream's life *)

\* Mutant: the constructor does not look at what register_callback returned.
OpenUnregistered(r, a) ==
    /\ reactor[r].at = "none"
    /\ reactor' = [reactor EXCEPT ![r] = [NoReactor EXCEPT !.at = "subscribe", !.after = a]]
    /\ UNCHANGED <<available, history, published, poll, hubClosed, registry, view>>

\* WatchStatus: admission and registration.
Open(r, a) ==
    /\ reactor[r].at = "none" /\ ~registry.shuttingDown
    /\ reactor' = [reactor EXCEPT ![r] = [NoReactor EXCEPT !.at = "subscribe", !.after = a]]
    /\ UNCHANGED <<available, history, published, poll, hubClosed, registry, view>>

\* The service is shutting down, or stream_admission_ has no place left.
OpenRefused(r) ==
    /\ reactor[r].at = "none"
    /\ reactor' = [reactor EXCEPT ![r] = RequestFinish([NoReactor EXCEPT !.at = "built"])]
    /\ UNCHANGED <<available, history, published, poll, hubClosed, registry, view>>

\* Mutant: the subscription is dropped where the code keeps it.
SubscribeNever(r) ==
    /\ reactor[r].at = "subscribe"
    /\ reactor' = [reactor EXCEPT ![r] = [@ EXCEPT !.at = "wake"]]
    /\ UNCHANGED <<available, history, published, poll, hubClosed, registry, view>>

Subscribe(r) ==
    /\ reactor[r].at = "subscribe"
    /\ reactor' = [reactor EXCEPT ![r] =
                     [@ EXCEPT !.at = "wake", !.subscribed = ~hubClosed]]
    /\ UNCHANGED <<available, history, published, poll, hubClosed, registry, view>>

\* The constructor's schedule_wake.
FirstWake(r) ==
    /\ reactor[r].at = "wake"
    /\ \E x \in Scheduled(reactor[r]) :
          reactor' = [reactor EXCEPT ![r] = [x EXCEPT !.at = "built"]]
    /\ UNCHANGED <<available, history, published, poll, hubClosed, registry, view>>

\* The poller calls a copied callback, which may have been unsubscribed since.
WakeCallback(r) ==
    /\ poll.at = "waking" /\ r \in poll.left
    /\ poll' = [poll EXCEPT !.left = @ \ {r}]
    /\ IF Gated(r)
       THEN \E x \in Scheduled(reactor[r]) : reactor' = [reactor EXCEPT ![r] = x]
       ELSE UNCHANGED reactor
    /\ UNCHANGED <<available, history, published, hubClosed, registry, view>>

PollDone ==
    /\ poll.at = "waking" /\ poll.left = {}
    /\ poll' = [at |-> "idle"]
    /\ UNCHANGED <<available, history, published, hubClosed, registry, streamVars>>

\* select_status_history: is the anchor retained, and from where.
AnchorRetained(anchor) == \E i \in DOMAIN history : history[i].sequence = anchor

\* The first event: a replay from the client's sequence, or a snapshot.
FirstEvent(x) ==
    LET latest == Last(history) IN
    IF x.after # 0 /\ AnchorRetained(x.after)
    THEN LET from == CHOOSE i \in DOMAIN history : history[i].sequence = x.after IN
         [kind |-> "replay", sequence |-> latest.sequence,
          status |-> history[from].status,
          deltas |-> [i \in 1..(Len(history) - from) |-> history[from + i].delta]]
    ELSE [kind |-> "snapshot", sequence |-> latest.sequence, status |-> latest.status]

\* Mutant: the retained delta is sent whatever the client has.
LaterEventLastDelta(x) ==
    LET latest == Last(history) IN
    IF ~AnchorRetained(x.previous.sequence)
    THEN [kind |-> "snapshot", sequence |-> latest.sequence, status |-> latest.status]
    ELSE [kind |-> "delta", sequence |-> latest.sequence, delta |-> latest.delta]

\* A later event: a delta from what the client has, or a snapshot when that
\* sample is no longer retained.
LaterEvent(x) ==
    LET latest == Last(history) IN
    IF ~AnchorRetained(x.previous.sequence)
    THEN [kind |-> "snapshot", sequence |-> latest.sequence, status |-> latest.status]
    ELSE [kind |-> "delta", sequence |-> latest.sequence,
          delta |-> IF x.previous.sequence + 1 = latest.sequence THEN latest.delta
                    ELSE Delta(x.previous.status, latest.status)]

\* Nothing is sent when the client is at the latest sample, or has its status.
NothingNew(x) ==
    /\ x.previous # Nothing
    /\ \/ Last(history).sequence = x.previous.sequence
       \/ LET e == LaterEvent(x) IN e.kind = "delta" /\ e.delta = NoDelta

\* wake().
Woken(x) ==
    IF x.writing # Nothing \/ x.terminal THEN x
    ELSE IF ~available \/ history = <<>> THEN RequestFinish(x)
    ELSE IF NothingNew(x) THEN x
    ELSE [x EXCEPT !.writing = Last(history),
                   !.event = IF x.previous = Nothing THEN FirstEvent(x) ELSE LaterEvent(x)]

\* A worker runs the queued wake.
RunWake(r) ==
    /\ Gated(r) /\ reactor[r].scheduled
    /\ reactor' = [reactor EXCEPT ![r] = Woken([@ EXCEPT !.scheduled = FALSE])]
    /\ UNCHANGED <<available, history, published, poll, hubClosed, registry, view>>

\* OnWriteDone(true): the event has gone to the client, which applies it.
WriteDone(r) ==
    /\ Gated(r) /\ reactor[r].at = "built" /\ reactor[r].writing # Nothing
    /\ LET x == [reactor[r] EXCEPT !.writing = Nothing, !.event = Nothing]
           y == [x EXCEPT !.previous = reactor[r].writing] IN
       \E z \in IF x.terminal THEN {Finished(x)} ELSE Scheduled(y) :
          reactor' = [reactor EXCEPT ![r] = z]
    /\ view' = [view EXCEPT ![r] = Received(@, reactor[r].event)]
    /\ UNCHANGED <<available, history, published, poll, hubClosed, registry>>

\* OnWriteDone(false).
WriteFailed(r) ==
    /\ Gated(r) /\ reactor[r].at = "built" /\ reactor[r].writing # Nothing
    /\ reactor' = [reactor EXCEPT ![r] =
          Finished([@ EXCEPT !.writing = Nothing, !.event = Nothing, !.terminal = TRUE])]
    /\ UNCHANGED <<available, history, published, poll, hubClosed, registry, view>>

\* OnCancel; it changes nothing when the stream is ending already.
Cancel(r) ==
    /\ Gated(r) /\ reactor[r].at = "built" /\ ~reactor[r].terminal
    /\ reactor' = [reactor EXCEPT ![r] = RequestFinish(@)]
    /\ UNCHANGED <<available, history, published, poll, hubClosed, registry, view>>

\* OnDone, after Finish and once gRPC has the reactor: it is deleted.
Done(r) ==
    /\ reactor[r].gate = "Finishing" /\ reactor[r].at = "built"
    /\ reactor' = [reactor EXCEPT ![r] = Deleted]
    /\ UNCHANGED <<available, history, published, poll, hubClosed, registry, view>>

-----------------------------------------------------------------------------
(* shutdown() *)

\* status_wakes_.close.
CloseHub ==
    /\ ~hubClosed
    /\ hubClosed' = TRUE
    /\ UNCHANGED <<available, history, published, poll, registry, streamVars>>

\* callbacks_.shutdown: copy the callbacks of the registered reactors ...
ShutdownRegistry ==
    /\ hubClosed /\ ~registry.shuttingDown
    /\ registry' = [shuttingDown |-> TRUE,
                    left |-> {r \in Streams : /\ reactor[r].at # "none"
                                              /\ reactor[r].gate # "Done"}]
    /\ UNCHANGED <<available, history, published, poll, hubClosed, streamVars>>

\* ... and call them unlocked.
ShutdownCallback(r) ==
    /\ r \in registry.left
    /\ registry' = [registry EXCEPT !.left = @ \ {r}]
    /\ reactor' = [reactor EXCEPT ![r] = IF Gated(r) THEN RequestFinish(@) ELSE @]
    /\ UNCHANGED <<available, history, published, poll, hubClosed, view>>

PollerStep ==
    PollUpdated \/ PollUnavailable \/ Observe \/ PublishWake \/ PollDone
      \/ \E r \in Streams : WakeCallback(r)

ReactorStep(r) ==
    \/ \E a \in Afters : Open(r, a)
    \/ OpenRefused(r) \/ Subscribe(r) \/ FirstWake(r) \/ RunWake(r)
    \/ WriteDone(r) \/ WriteFailed(r) \/ Cancel(r) \/ Done(r)

StatusNext ==
    \/ PollerStep
    \/ \E r \in Streams : ReactorStep(r) \/ ShutdownCallback(r)
    \/ CloseHub \/ ShutdownRegistry

StatusSpec == StatusInit /\ [][StatusNext]_statusVars

-----------------------------------------------------------------------------
(* Properties *)

\* A client's reconstruction is always the status published under its sequence
\* number, and only moves forward: "applying a delta sequence to its starting
\* snapshot must produce exactly the same status as a fresh snapshot at the final
\* sequence", across coalesced samples, trimming, outages and replays.
ImplementsContract == INSTANCE StatusContract
WatchIsFaithful == ImplementsContract!ContractSpec

\* gRPC's rule for write streams, and no stream left hanging: Finish has been
\* called exactly when the stream is to end and no write is outstanding.
FinishAfterWrite ==
    \A r \in Streams :
        reactor[r].gate # "Open" <=> reactor[r].terminal /\ reactor[r].writing = Nothing

\* A reactor is not touched after OnDone has deleted it, by any callback that was
\* copied, queued or about to be called.
UntouchedAfterDone ==
    [][\A r \in Streams : reactor[r].gate = "Done" => reactor'[r] = reactor[r]]_statusVars

\* A stream that waits: nothing is being written, queued or constructed for it.
Idle(r) ==
    /\ reactor[r].at = "built" /\ reactor[r].gate = "Open"
    /\ ~reactor[r].scheduled /\ reactor[r].writing = Nothing

\* No wakeup is lost between polls, writes and the queue: a stream that waits has
\* sent the latest status and the status is available, or the poller is about to
\* wake it, unless the service is shutting down.
WakeIsComing ==
    \A r \in Streams :
        Idle(r) /\ ~hubClosed =>
            \/ available /\ NothingNew(reactor[r])
            \/ poll.at = "publish"
            \/ poll.at = "waking" /\ r \in poll.left

\* Once the registry has called everyone, every stream is ending, the ones that
\* were being constructed included.
ShutdownReachesAll ==
    registry.shuttingDown =>
        \A r \in Streams : reactor[r].at = "none" \/ r \in registry.left \/ reactor[r].terminal
===============================================================================
