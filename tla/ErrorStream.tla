----------------------------- MODULE ErrorStream -----------------------------
(***************************************************************************)
(* WatchErrors (machine/grpc/service.cc): the polling thread publishes     *)
(* each operator message into a SequencedRing and wakes the streams; an    *)
(* ErrorReactor sends its client one message at a time, the oldest after   *)
(* its cursor, and gives up when the ring has dropped what comes next.     *)
(*                                                                         *)
(* A message is its sequence number.  A call made through a reactor's      *)
(* LifetimeGate is one action.                                             *)
(***************************************************************************)
EXTENDS Naturals, Sequences

CONSTANTS Watchers,         \* the streams that clients open
          RingCapacity,     \* capacity_ of errors_
          MaxErrors,        \* bound on the messages published
          AfterSequences,   \* what clients pass as after_sequence
          SequenceModulus   \* 2^64: where a std::uint64_t wraps

ASSUME ErrorAssumption ==
    /\ RingCapacity \in Nat \ {0}
    /\ MaxErrors \in Nat /\ SequenceModulus \in Nat
    /\ MaxErrors + 1 < SequenceModulus
    /\ AfterSequences \subseteq 0..(SequenceModulus - 1)

VARIABLES ring,      \* entries_
          nextError, \* next_sequence_
          waking,    \* the poller: "idle", "publish", or the watchers it has to wake
          errorHub,  \* error_wakes_ is open
          shutdowns, \* callbacks_: "open", or whom its shutdown has yet to call
          watcher,   \* the ErrorReactor of each stream
          got        \* what each client has read (external)

errorVars == <<ring, nextError, waking, errorHub, shutdowns, watcher, got>>

NoWatcher == [at |-> "none", cursor |-> 0, writing |-> 0, subscribed |-> FALSE,
              terminal |-> FALSE, gate |-> "Open"]

ErrorInit ==
    /\ ring = <<>>
    /\ nextError = 1
    /\ waking = [at |-> "idle", left |-> {}]
    /\ errorHub = TRUE
    /\ shutdowns = [at |-> "open", left |-> {}]
    /\ watcher = [w \in Watchers |-> NoWatcher]
    /\ got = [w \in Watchers |-> <<>>]

-----------------------------------------------------------------------------
(* SequencedRing *)

\* publish: the oldest entry makes room.
Published(entries, e) ==
    IF Len(entries) < RingCapacity THEN Append(entries, e) ELSE Append(Tail(entries), e)

\* Mutant: one message short of behind still counts as behind nothing.
BehindLate(cursor) ==
    ring # <<>> /\ cursor # 0 /\ ((cursor + 1) % SequenceModulus) + 1 < ring[1]

\* after: the message that follows the cursor is no longer retained.
Behind(cursor) ==
    ring # <<>> /\ cursor # 0 /\ (cursor + 1) % SequenceModulus < ring[1]

\* after: what follows the cursor.
Following(cursor) == {i \in DOMAIN ring : ring[i] > cursor}

\* entries.front().
NextEntry(cursor) == ring[CHOOSE i \in Following(cursor) : \A j \in Following(cursor) : i <= j]

-----------------------------------------------------------------------------
(* The reactor's own operations, as functions of its state *)

\* finish_if_ready: Finish is called once no write is outstanding.
ErrorFinished(x) ==
    IF x.terminal /\ x.writing = 0
    THEN [x EXCEPT !.gate = "Finishing", !.subscribed = FALSE] ELSE x

\* request_finish.
ErrorFinish(x) == ErrorFinished([x EXCEPT !.terminal = TRUE, !.subscribed = FALSE])

\* wake.
ErrorWoken(x) ==
    IF x.writing # 0 \/ x.terminal \/ x.gate # "Open" THEN x
    ELSE IF Behind(x.cursor) THEN ErrorFinish(x)
    ELSE IF Following(x.cursor) = {} THEN x
    ELSE [x EXCEPT !.writing = NextEntry(x.cursor)]

-----------------------------------------------------------------------------
(* The poller *)

\* poll_error returned a message: errors_.publish ...
PublishError ==
    /\ waking.at = "idle" /\ nextError <= MaxErrors
    /\ ring' = Published(ring, nextError)
    /\ nextError' = nextError + 1
    /\ waking' = [waking EXCEPT !.at = "publish"]
    /\ UNCHANGED <<errorHub, shutdowns, watcher, got>>

\* ... and error_wakes_.publish, which copies the callbacks ...
CopyErrorWakes ==
    /\ waking.at = "publish"
    /\ waking' = [at |-> "wake", left |-> {w \in Watchers : errorHub /\ watcher[w].subscribed}]
    /\ UNCHANGED <<ring, nextError, errorHub, shutdowns, watcher, got>>

\* ... and calls them.
WakeWatcher(w) ==
    /\ waking.at = "wake" /\ w \in waking.left
    /\ waking' = [waking EXCEPT !.left = @ \ {w}]
    /\ watcher' = [watcher EXCEPT ![w] = IF @.gate = "Open" THEN ErrorWoken(@) ELSE @]
    /\ UNCHANGED <<ring, nextError, errorHub, shutdowns, got>>

WakesDone ==
    /\ waking.at = "wake" /\ waking.left = {}
    /\ waking' = [waking EXCEPT !.at = "idle"]
    /\ UNCHANGED <<ring, nextError, errorHub, shutdowns, watcher, got>>

-----------------------------------------------------------------------------
(* A stream's life *)

\* The constructor, up to its cursor.
OpenWatcher(w, after) ==
    /\ watcher[w].at = "none" /\ shutdowns.at = "open"
    /\ watcher' = [watcher EXCEPT ![w] = [NoWatcher EXCEPT !.at = "subscribe", !.cursor = after]]
    /\ UNCHANGED <<ring, nextError, waking, errorHub, shutdowns, got>>

\* The service is shutting down, or there is no place for another stream.
OpenWatcherRefused(w) ==
    /\ watcher[w].at = "none"
    /\ watcher' = [watcher EXCEPT ![w] = ErrorFinish([NoWatcher EXCEPT !.at = "built"])]
    /\ UNCHANGED <<ring, nextError, waking, errorHub, shutdowns, got>>

SubscribeWatcher(w) ==
    /\ watcher[w].at = "subscribe"
    /\ watcher' = [watcher EXCEPT ![w].at = "wake",
                                  ![w].subscribed = errorHub]
    /\ UNCHANGED <<ring, nextError, waking, errorHub, shutdowns, got>>

\* Mutant: the constructor waits for the next message.
FirstErrorWakeLater(w) ==
    /\ watcher[w].at = "wake"
    /\ watcher' = [watcher EXCEPT ![w].at = "built"]
    /\ UNCHANGED <<ring, nextError, waking, errorHub, shutdowns, got>>

\* The constructor's wake.
FirstErrorWake(w) ==
    /\ watcher[w].at = "wake"
    /\ watcher' = [watcher EXCEPT ![w] =
                     [(IF @.gate = "Open" THEN ErrorWoken(@) ELSE @) EXCEPT !.at = "built"]]
    /\ UNCHANGED <<ring, nextError, waking, errorHub, shutdowns, got>>

\* OnWriteDone(true): the cursor moves, and the next message is looked for.
ErrorWriteDone(w) ==
    /\ watcher[w].at = "built" /\ watcher[w].gate = "Open" /\ watcher[w].writing # 0
    /\ LET x == [watcher[w] EXCEPT !.writing = 0]
           y == [x EXCEPT !.cursor = watcher[w].writing] IN
       watcher' = [watcher EXCEPT ![w] = IF x.terminal THEN ErrorFinished(x) ELSE ErrorWoken(y)]
    /\ got' = [got EXCEPT ![w] = Append(@, watcher[w].writing)]
    /\ UNCHANGED <<ring, nextError, waking, errorHub, shutdowns>>

\* OnWriteDone(false).
ErrorWriteFailed(w) ==
    /\ watcher[w].at = "built" /\ watcher[w].gate = "Open" /\ watcher[w].writing # 0
    /\ watcher' = [watcher EXCEPT ![w] =
                     ErrorFinished([@ EXCEPT !.writing = 0, !.terminal = TRUE])]
    /\ UNCHANGED <<ring, nextError, waking, errorHub, shutdowns, got>>

\* OnCancel.
CancelWatcher(w) ==
    /\ watcher[w].at = "built" /\ watcher[w].gate = "Open" /\ ~watcher[w].terminal
    /\ watcher' = [watcher EXCEPT ![w] = ErrorFinish(@)]
    /\ UNCHANGED <<ring, nextError, waking, errorHub, shutdowns, got>>

\* OnDone.
WatcherDone(w) ==
    /\ watcher[w].at = "built" /\ watcher[w].gate = "Finishing"
    /\ watcher' = [watcher EXCEPT ![w].gate = "Done"]
    /\ UNCHANGED <<ring, nextError, waking, errorHub, shutdowns, got>>

-----------------------------------------------------------------------------
(* shutdown: error_wakes_.close, then callbacks_.shutdown *)

CloseErrorHub ==
    /\ errorHub
    /\ errorHub' = FALSE
    /\ UNCHANGED <<ring, nextError, waking, shutdowns, watcher, got>>

ShutdownWatchers ==
    /\ ~errorHub /\ shutdowns.at = "open"
    /\ shutdowns' = [at |-> "call",
                     left |-> {w \in Watchers : watcher[w].at # "none" /\ watcher[w].gate # "Done"}]
    /\ UNCHANGED <<ring, nextError, waking, errorHub, watcher, got>>

ShutdownWatcher(w) ==
    /\ w \in shutdowns.left
    /\ shutdowns' = [shutdowns EXCEPT !.left = @ \ {w}]
    /\ watcher' = [watcher EXCEPT ![w] = IF @.gate = "Open" THEN ErrorFinish(@) ELSE @]
    /\ UNCHANGED <<ring, nextError, waking, errorHub, got>>

WatcherStep(w) ==
    \/ \E a \in AfterSequences : OpenWatcher(w, a)
    \/ OpenWatcherRefused(w) \/ SubscribeWatcher(w) \/ FirstErrorWake(w) \/ WakeWatcher(w)
    \/ ErrorWriteDone(w) \/ ErrorWriteFailed(w) \/ CancelWatcher(w) \/ WatcherDone(w)
    \/ ShutdownWatcher(w)

ErrorNext ==
    \/ PublishError \/ CopyErrorWakes \/ WakesDone \/ CloseErrorHub \/ ShutdownWatchers
    \/ \E w \in Watchers : WatcherStep(w)

ErrorSpec == ErrorInit /\ [][ErrorNext]_errorVars

-----------------------------------------------------------------------------
(* Properties *)

\* What a client reads has no gap and no repetition, however slow it is and
\* whatever the ring drops meanwhile: a reader that fell behind is ended instead.
ErrorsInSequence ==
    \A w \in Watchers : \A i \in 1..(Len(got[w]) - 1) : got[w][i + 1] = got[w][i] + 1

\* No wake is lost: a stream that waits has sent every message, or the poller is
\* about to wake it, unless the service is shutting down.
ErrorWakeIsComing ==
    \A w \in Watchers :
        /\ watcher[w].at = "built" /\ watcher[w].gate = "Open" /\ watcher[w].writing = 0
        /\ errorHub
        => \/ Following(watcher[w].cursor) = {} /\ ~Behind(watcher[w].cursor)
           \/ waking.at = "publish"
           \/ waking.at = "wake" /\ w \in waking.left
===============================================================================
