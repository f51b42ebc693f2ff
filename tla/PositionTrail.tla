---------------------------- MODULE PositionTrail ----------------------------
(***************************************************************************)
(* Position telemetry: the history of tool positions (position/history.cc, *)
(* position/telemetry.cc), its writers in machine/grpc/service.cc (the     *)
(* polling thread, ConfigurePositionHistory and ClearPositionHistory) and  *)
(* a WebSocket session that follows it (telemetry_websocket_server.cc).    *)
(*                                                                         *)
(* A position is a number on one axis: moving on in the same direction is  *)
(* the collinear case, turning back is not.  A writer changes the history  *)
(* under its mutex and wakes the sessions after that, so the two are two   *)
(* actions.                                                                *)
(***************************************************************************)
EXTENDS Integers, Sequences, SequencesExt

CONSTANTS Moves,         \* how far the machine moves between two samples
          Motions,       \* its motion types
          Capacities,    \* the capacities that clients configure, 0 for none given
          MaxAppends,    \* bound on the samples appended
          MaxConfigs,    \* bound on the configurations
          MaxGenerations, \* bound on the generations that calls and outages begin
          InitialCapacity

ASSUME PositionAssumption ==
    /\ Moves \subseteq Int /\ Capacities \subseteq Nat
    /\ MaxAppends \in Nat /\ MaxConfigs \in Nat /\ MaxGenerations \in Nat
    /\ InitialCapacity \in Nat \ {0}

VARIABLES positions,   \* PositionHistory
          config,      \* position_enabled_, position_config_generation_, reader flag
          disables,    \* ghost: how often the history was disabled
          statusOk,    \* status_available_
          sampling,    \* the polling thread
          configurer,  \* a ConfigurePositionHistory call, holding position_mutex_
          clearer,     \* a ClearPositionHistory call
          viewer,      \* the WebSocket session
          trail        \* the client's copy of the history (external)

positionVars == <<positions, config, disables, statusOk, sampling, configurer, clearer, viewer, trail>>

NoPositions == [kind |-> "none"]
NoViewer == [at |-> "none", frame |-> NoPositions, cursor |-> 0, generation |-> 0,
             wake |-> FALSE, closing |-> FALSE]

PositionInit ==
    /\ positions = [entries |-> <<>>, next |-> 0, generation |-> 1, capacity |-> InitialCapacity]
    /\ config = [enabled |-> TRUE, generation |-> 0, reader |-> FALSE]
    /\ disables = 0
    /\ statusOk = TRUE
    /\ sampling = [at |-> "idle"]
    /\ configurer = [at |-> "idle", disable |-> FALSE]
    /\ clearer = "idle"
    /\ viewer = NoViewer
    /\ trail = <<>>

-----------------------------------------------------------------------------
(* PositionHistory *)

Samples(entries) == [i \in DOMAIN entries |-> entries[i].sample]

\* changed, with the axes' epsilon below the distance of two points.
Changed(a, b) == a.point # b.point \/ a.motion # b.motion

\* collinear: the direction of the last two moves, or one of them is none.
Collinear(current, previous, penultimate) ==
    LET step == current.point - previous.point
        before == previous.point - penultimate.point IN
    step = 0 \/ before = 0 \/ (step > 0 <=> before > 0)

\* The sample continues the move that the last two entries describe.
Continues(entries, sample) ==
    /\ Len(entries) >= 2
    /\ LET back == Last(entries).sample
           penultimate == entries[Len(entries) - 1].sample IN
       /\ sample.motion = back.motion /\ sample.motion = penultimate.motion
       /\ Collinear(sample, back, penultimate)

\* configure: at least one sample, the newest ones stay.
Configured(h, capacity) ==
    LET room == IF capacity = 0 THEN 1 ELSE capacity
        dropped == IF Len(h.entries) > room THEN Len(h.entries) - room ELSE 0 IN
    [h EXCEPT !.capacity = room, !.generation = @ + 1,
              !.entries = SubSeq(@, dropped + 1, Len(@))]

\* clear.
Cleared(h) == [h EXCEPT !.entries = <<>>, !.generation = @ + 1]

\* A replaced entry remembers where its chain of replacements began.
Root(entry) == IF entry.root = -1 THEN entry.sequence ELSE entry.root

\* Mutant: the chain begins with the entry that was replaced last.
AppendedShortChain(h, sample, ghost) ==
    LET entries ==
          IF Continues(h.entries, sample)
          THEN [h.entries EXCEPT ![Len(h.entries)] =
                  [sequence |-> h.next, sample |-> sample, root |-> @.sequence, polled |-> ghost]]
          ELSE Append(h.entries, [sequence |-> h.next, sample |-> sample, root |-> -1,
                                  polled |-> ghost])
        full == Len(entries) > h.capacity IN
    [h EXCEPT !.entries = IF full THEN Tail(entries) ELSE entries,
              !.next = @ + 1,
              !.generation = IF full THEN @ + 1 ELSE @]

\* append: a collinear sample takes the last one's place, and a dropped prefix
\* begins a new generation.
Appended(h, sample, ghost) ==
    LET entries ==
          IF Continues(h.entries, sample)
          THEN [h.entries EXCEPT ![Len(h.entries)] =
                  [sequence |-> h.next, sample |-> sample, root |-> Root(@), polled |-> ghost]]
          ELSE Append(h.entries, [sequence |-> h.next, sample |-> sample, root |-> -1,
                                  polled |-> ghost])
        full == Len(entries) > h.capacity IN
    [h EXCEPT !.entries = IF full THEN Tail(entries) ELSE entries,
              !.next = @ + 1,
              !.generation = IF full THEN @ + 1 ELSE @]

\* snapshot.
Replacement(h) ==
    [kind |-> "replacement", next |-> h.next, generation |-> h.generation, drop |-> 0,
     samples |-> Samples(h.entries)]

\* since, for a reader at the cursor of a generation.
Since(h, cursor, generation) ==
    LET changed == generation # 0 /\ generation # h.generation
        rolled == IF h.entries = <<>> THEN cursor # h.next ELSE cursor < h.entries[1].sequence
        fresh == SelectSeq(h.entries, LAMBDA e : e.sequence >= cursor) IN
    IF changed \/ rolled THEN Replacement(h)
    ELSE [kind |-> "delta", next |-> h.next, generation |-> h.generation,
          drop |-> IF fresh # <<>> /\ fresh[1].root # -1 /\ fresh[1].root < cursor THEN 1 ELSE 0,
          samples |-> Samples(fresh)]

-----------------------------------------------------------------------------
(* The session *)

\* wakes_.publish: queue_position_wake.
PositionWoken == viewer' = [viewer EXCEPT !.wake = @ \/ viewer.at \in {"subscribed", "open"}]

\* on_accept subscribes ...
SubscribeViewer ==
    /\ viewer.at = "none"
    /\ viewer' = [viewer EXCEPT !.at = "subscribed"]
    /\ UNCHANGED <<positions, config, disables, statusOk, sampling, configurer, clearer, trail>>

\* ... and sends the first frame, a replacement.
FirstFrame ==
    /\ viewer.at = "subscribed"
    /\ viewer' = [viewer EXCEPT !.at = "open", !.frame = Replacement(positions)]
    /\ UNCHANGED <<positions, config, disables, statusOk, sampling, configurer, clearer, trail>>

\* on_position_delivery and send_next, each period of the delivery timer.
DeliverPositions ==
    /\ viewer.at = "open" /\ ~viewer.closing
    /\ viewer.frame = NoPositions /\ viewer.wake
    /\ LET batch == Since(positions, viewer.cursor, viewer.generation) IN
       viewer' = [viewer EXCEPT !.wake = FALSE,
                    !.frame = IF batch.kind = "delta" /\ batch.samples = <<>> THEN @ ELSE batch]
    /\ UNCHANGED <<positions, config, disables, statusOk, sampling, configurer, clearer, trail>>

\* What a client does with a frame (external).
Applied(old, frame) ==
    IF frame.kind = "replacement" THEN frame.samples
    ELSE SubSeq(old, 1, Len(old) - frame.drop) \o frame.samples

\* fail: the subscription ends with the session.
ViewerGone == viewer' = [NoViewer EXCEPT !.at = "closed"] /\ trail' = <<>>

\* on_write: the cursor moves with the frame.
PositionWritten ==
    /\ viewer.at = "open" /\ viewer.frame # NoPositions
    /\ IF viewer.closing THEN ViewerGone
       ELSE /\ trail' = Applied(trail, viewer.frame)
            /\ viewer' = [viewer EXCEPT !.frame = NoPositions, !.cursor = viewer.frame.next,
                                        !.generation = viewer.frame.generation]
    /\ UNCHANGED <<positions, config, disables, statusOk, sampling, configurer, clearer>>

\* on_read: a client that sends something is turned away, after the write.
ViewerSpeaks ==
    /\ viewer.at = "open" /\ ~viewer.closing
    /\ IF viewer.frame = NoPositions THEN ViewerGone
       ELSE viewer' = [viewer EXCEPT !.closing = TRUE] /\ UNCHANGED trail
    /\ UNCHANGED <<positions, config, disables, statusOk, sampling, configurer, clearer>>

\* The connection broke, the write deadline passed, or the server stops.
ViewerFails ==
    /\ viewer.at \in {"subscribed", "open"}
    /\ ViewerGone
    /\ UNCHANGED <<positions, config, disables, statusOk, sampling, configurer, clearer>>

-----------------------------------------------------------------------------
(* The polling thread *)

\* The configuration is read.  What is due, and what comes of it, is for the clock
\* and LinuxCNC to say: the actions that follow.
BeginPoll ==
    /\ sampling.at = "idle" /\ configurer.at = "idle"
    /\ sampling' = [at |-> "sampling", generation |-> config.generation, ghost |-> disables]
    /\ UNCHANGED <<positions, config, disables, statusOk, configurer, clearer, viewer, trail>>

\* The status is back: what was recorded before the outage goes.
StatusRecovers ==
    /\ sampling.at = "sampling" /\ ~statusOk
    /\ statusOk' = TRUE
    /\ positions' = Cleared(positions)
    /\ sampling' = [sampling EXCEPT !.at = "wakeRecovered"]
    /\ UNCHANGED <<config, disables, configurer, clearer, viewer, trail>>

WakeRecovered ==
    /\ sampling.at = "wakeRecovered"
    /\ PositionWoken
    /\ sampling' = [sampling EXCEPT !.at = "sampled"]
    /\ UNCHANGED <<positions, config, disables, statusOk, configurer, clearer, trail>>

\* Mutant: a poll that began before a change of the configuration counts.
CurrentIfEnabled == config.enabled

\* Whether the configuration is still the one the poll began with.
Current == config.enabled /\ config.generation = sampling.generation

\* Where the machine was when it was last recorded.
LastPoint == IF positions.entries = <<>> THEN 0 ELSE Last(positions.entries).sample.point

\* The sample is appended if the position was due, under position_mutex_.
AppendSample(sample) ==
    /\ sampling.at \in {"sampling", "sampled"} /\ configurer.at = "idle"
    /\ positions.next < MaxAppends
    /\ LET append == Current
           new == positions.entries = <<>> \/ Changed(Last(positions.entries).sample, sample) IN
       /\ config' = [config EXCEPT !.reader = @ \/ append]
       /\ IF append /\ new
          THEN /\ positions' = Appended(positions, sample, sampling.ghost)
               /\ sampling' = [at |-> "wake"]
          ELSE UNCHANGED positions /\ sampling' = [at |-> "idle"]
    /\ UNCHANGED <<disables, statusOk, configurer, clearer, viewer, trail>>

WakeAppended ==
    /\ sampling.at = "wake"
    /\ PositionWoken
    /\ sampling' = [at |-> "idle"]
    /\ UNCHANGED <<positions, config, disables, statusOk, configurer, clearer, trail>>

\* Nothing was due, or there was nothing new.
NothingDue ==
    /\ sampling.at \in {"sampling", "sampled"}
    /\ sampling' = [at |-> "idle"]
    /\ UNCHANGED <<positions, config, disables, statusOk, configurer, clearer, viewer, trail>>

\* Status polling failed: the history goes with the status.
StatusLost ==
    /\ sampling.at = "sampling" /\ positions.generation < MaxGenerations
    /\ statusOk' = FALSE
    /\ positions' = IF statusOk THEN Cleared(positions) ELSE positions
    /\ sampling' = [at |-> IF statusOk THEN "wake" ELSE "idle"]
    /\ UNCHANGED <<config, disables, configurer, clearer, viewer, trail>>

\* Only the position's own reader failed.
ReaderLost ==
    /\ sampling.at = "sampling" /\ configurer.at = "idle"
    /\ positions.generation < MaxGenerations
    /\ config' = [config EXCEPT !.reader = FALSE]
    /\ positions' = IF config.reader THEN Cleared(positions) ELSE positions
    /\ sampling' = [at |-> IF config.reader THEN "wake" ELSE "idle"]
    /\ UNCHANGED <<disables, statusOk, configurer, clearer, viewer, trail>>

-----------------------------------------------------------------------------
(* The calls *)

\* configure_position: an optional switch, an optional capacity.
ConfigurePosition(switch, capacity) ==
    /\ configurer.at = "idle" /\ config.generation < MaxConfigs
    /\ positions.generation < MaxGenerations \/ (capacity = 0 /\ switch # "off")
    /\ config' = [enabled |-> IF switch = "keep" THEN config.enabled ELSE switch = "on",
                  generation |-> config.generation + 1,
                  reader |-> config.reader /\ switch # "off"]
    /\ disables' = IF switch = "off" THEN disables + 1 ELSE disables
    /\ positions' = IF capacity > 0 THEN Configured(positions, capacity) ELSE positions
    /\ configurer' = [at |-> IF capacity > 0 THEN "wake" ELSE IF switch = "off" THEN "clear" ELSE "idle",
                      disable |-> switch = "off"]
    /\ UNCHANGED <<statusOk, sampling, clearer, viewer, trail>>

WakeConfigured ==
    /\ configurer.at = "wake"
    /\ PositionWoken
    /\ configurer' = [configurer EXCEPT !.at = IF configurer.disable THEN "clear" ELSE "idle"]
    /\ UNCHANGED <<positions, config, disables, statusOk, sampling, clearer, trail>>

\* A disabled history is emptied.
ClearDisabled ==
    /\ configurer.at = "clear"
    /\ positions' = Cleared(positions)
    /\ configurer' = [at |-> "wake", disable |-> FALSE]
    /\ UNCHANGED <<config, disables, statusOk, sampling, clearer, viewer, trail>>

\* ClearPositionHistory.
ClearPositions ==
    /\ clearer = "idle" /\ positions.generation < MaxGenerations
    /\ positions' = Cleared(positions)
    /\ clearer' = "wake"
    /\ UNCHANGED <<config, disables, statusOk, sampling, configurer, viewer, trail>>

WakeCleared ==
    /\ clearer = "wake"
    /\ PositionWoken
    /\ clearer' = "idle"
    /\ UNCHANGED <<positions, config, disables, statusOk, sampling, configurer, trail>>

ViewerStep ==
    \/ SubscribeViewer \/ FirstFrame \/ DeliverPositions \/ PositionWritten
    \/ ViewerSpeaks \/ ViewerFails

PollStep ==
    \/ \E d \in Moves, m \in Motions : AppendSample([point |-> LastPoint + d, motion |-> m])
    \/ BeginPoll \/ StatusRecovers \/ WakeRecovered \/ WakeAppended \/ NothingDue \/ StatusLost \/ ReaderLost

CallerStep ==
    \/ \E s \in {"keep", "on", "off"}, c \in Capacities : ConfigurePosition(s, c)
    \/ WakeConfigured \/ ClearDisabled \/ ClearPositions \/ WakeCleared

PositionNext == ViewerStep \/ PollStep \/ CallerStep

PositionSpec == PositionInit /\ [][PositionNext]_positionVars

-----------------------------------------------------------------------------
(* Properties *)

\* A poll that started before a disable cannot repopulate the history after the
\* disable cleared it, not even when the history has been enabled again since.
NothingFromBeforeDisable ==
    configurer.at = "idle" =>
        /\ ~config.enabled => positions.entries = <<>>
        /\ \A i \in DOMAIN positions.entries : positions.entries[i].polled = disables

\* The client's copy, put together from replacements, appended samples and
\* replaced tails, is the history itself whenever the session waits with no wake
\* pending and no writer is about to wake it.
TrailIsHistory ==
    /\ viewer.at = "open" /\ viewer.frame = NoPositions /\ ~viewer.wake
    /\ configurer.at # "wake" /\ clearer # "wake" /\ sampling.at \notin {"wake", "wakeRecovered"}
    => trail = Samples(positions.entries)
===============================================================================
