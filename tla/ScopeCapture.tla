----------------------------- MODULE ScopeCapture -----------------------------
(***************************************************************************)
(* The HAL scope: the controller over scope_rt's shared memory and its     *)
(* frame queue (scope/controller.cc), the ScopeService calls on their one  *)
(* worker (scope/grpc/service_controller.cc), the attachment               *)
(* (scope/telemetry.cc) and the WebSocket session that takes and           *)
(* acknowledges frames (telemetry_websocket_server.cc).                    *)
(*                                                                         *)
(* scope_rt is external: it samples the record in real time and shares     *)
(* control->state with the daemon without a lock.  A sample is its place   *)
(* in the acquisition it belongs to; channels and values are left out, and *)
(* so is the trigger: it may come with any sample.  The buffer holds a     *)
(* whole number of samples, and offsets count samples.  Time is counted in *)
(* ticks of the scope thread.                                              *)
(***************************************************************************)
EXTENDS Integers, Sequences, TLC

CONSTANTS RecLen,       \* control->rec_len
          PreTrigger,   \* the pre_trigger of the configurations
          MaxAcquisitions, \* bound: acquisitions started
          MaxFrames,    \* bound: frames published
          MaxSamples    \* bound: samples of one acquisition

VARIABLES control,   \* linuxcnc_scope_shm_control_t
          ctl,       \* LinuxCncScopeControllerState
          delta,     \* its delta_ fields
          frames,    \* ScopeFrameQueue
          scopeLink, \* ScopeTelemetry::State
          viewing,   \* the WebSocket session
          saw        \* what its client has made of the frames

scopeVars == <<control, ctl, delta, frames, scopeLink, viewing, saw>>

NoFrame == [gen |-> 0, kind |-> "none"]
EmptyQueue == [inFlight |-> NoFrame, pending |-> NoFrame, delivered |-> FALSE, skipped |-> 0]
NoDelta == [init |-> FALSE, start |-> 0, samples |-> 0, sequence |-> 0, age |-> 0]
NotViewing == [at |-> "none", writing |-> NoFrame, wakes |-> 0, crossed |-> FALSE]
SawNothing == [of |-> 0, sequence |-> 0, upTo |-> 0, fooled |-> FALSE]

ScopeInit ==
    /\ control = [state |-> "idle", samples |-> 0, start |-> 0, pre |-> 0,
                  linked |-> FALSE, of |-> 0, taken |-> 0]
    /\ ctl = [up |-> FALSE, at |-> "free", mode |-> "single", running |-> FALSE,
              configured |-> FALSE, started |-> 0]
    /\ delta = NoDelta
    /\ frames = EmptyQueue @@ [next |-> 1]
    /\ scopeLink = [attached |-> FALSE, listening |-> FALSE]
    /\ viewing = NotViewing
    /\ saw = SawNothing

\* state_mutex is free; ctl.at tells who holds it across steps.
Free == ctl.at = "free"

-----------------------------------------------------------------------------
(* scope_rt *)

Tick(c) ==
    /\ control.linked
    /\ control' = c
    /\ delta' = [delta EXCEPT !.age = IF delta.init /\ @ < RecLen THEN @ + 1 ELSE @]
    /\ UNCHANGED <<ctl, frames, scopeLink, viewing, saw>>

RtReset ==
    /\ control.state = "reset"
    /\ Tick([control EXCEPT !.state = "idle", !.samples = 0, !.start = 0])

RtInit ==
    /\ control.state = "init"
    /\ Tick([control EXCEPT !.state = IF control.pre = 0 THEN "wait" ELSE "pre", !.samples = 0,
               !.start = 0, !.of = ctl.started, !.taken = 0])

RtSample ==
    /\ control.state \in {"pre", "post"} /\ control.taken < MaxSamples
    /\ LET n == control.samples + 1
       IN  Tick([control EXCEPT !.samples = n, !.taken = @ + 1,
                   !.state = CASE control.state = "pre" -> IF n >= control.pre THEN "wait" ELSE "pre"
                               [] OTHER -> IF n >= RecLen THEN "done" ELSE "post"])

\* Waiting for the trigger, which force_trig brings about, each sample displaces
\* the oldest one.
RtWait ==
    /\ control.state = "wait" /\ control.taken < MaxSamples
    /\ control.samples > 0
    /\ Tick([control EXCEPT !.start = (@ + 1) % RecLen, !.taken = @ + 1])

RtTrigger ==
    /\ control.state = "wait" /\ control.taken < MaxSamples
    /\ LET n == control.samples + 1
       IN  Tick([control EXCEPT !.samples = n, !.taken = @ + 1,
                   !.state = IF n >= RecLen THEN "done" ELSE "post"])

RtIdle ==
    /\ control.state \in {"idle", "done"}
    /\ Tick(control)

-----------------------------------------------------------------------------
(* ScopeFrameQueue *)

\* publish, then the listener, outside the queue's lock: the hub's subscribers
\* post a wake to the session's executor.
Publish(f) ==
    LET g == f @@ [gen |-> frames.next, skipped |-> 0] IN
    /\ frames.next <= MaxFrames
    /\ frames' =
         IF frames.inFlight # NoFrame
         THEN [frames EXCEPT !.next = @ + 1, !.pending = g,
                 !.skipped = IF frames.pending # NoFrame THEN @ + 1 ELSE @]
         ELSE [frames EXCEPT !.next = @ + 1, !.inFlight = g, !.delivered = FALSE]
    /\ viewing' = IF scopeLink.listening /\ viewing.at = "open"
                  THEN [viewing EXCEPT !.wakes = @ + 1] ELSE viewing

\* clear, and release: the same fields for a controller with one owner.
ClearedFrames == EmptyQueue @@ [next |-> frames.next]

\* A clear that the client cannot know of.
ClearFrames ==
    /\ frames' = ClearedFrames
    /\ viewing' = [viewing EXCEPT !.crossed = @ \/ viewing.writing # NoFrame]

\* acknowledge: the pending frame is promoted, as delivered.
Acknowledged(gen) ==
    IF frames.inFlight = NoFrame \/ frames.inFlight.gen # gen THEN frames
    ELSE IF frames.pending = NoFrame
    THEN [frames EXCEPT !.inFlight = NoFrame, !.delivered = FALSE]
    ELSE [frames EXCEPT !.inFlight = [frames.pending EXCEPT !.skipped = frames.skipped],
                        !.pending = NoFrame, !.delivered = TRUE, !.skipped = 0]

-----------------------------------------------------------------------------
(* The poller *)

\* copy_capture_unlocked and the rest of poll_once in the modes run and single.
PollCapture ==
    /\ Free /\ ctl.up /\ ctl.running /\ ctl.mode \in {"run", "single"} /\ control.state = "done"
    /\ Publish([kind |-> "capture", of |-> control.of, samples |-> control.samples])
    /\ \/ /\ ctl.mode = "run" /\ ctl.started < MaxAcquisitions
          /\ control' = [control EXCEPT !.state = "init"]
          /\ ctl' = [ctl EXCEPT !.started = @ + 1]
       \/ /\ ctl.mode = "single"
          /\ ctl' = [ctl EXCEPT !.running = FALSE]
          /\ UNCHANGED control
    /\ UNCHANGED <<delta, scopeLink, saw>>

\* Mutant: a record that has become shorter is not noticed.
NewSamplesNoShrink ==
    LET n == control.samples
        moved == (control.start - delta.start + RecLen) % RecLen
        reset == ~delta.init \/ delta.age >= RecLen
        count == IF reset THEN n ELSE IF n > delta.samples THEN n - delta.samples ELSE moved
    IN  IF count > n \/ count >= RecLen THEN [reset |-> TRUE, count |-> n]
        ELSE [reset |-> reset, count |-> count]

\* copy_delta_unlocked: how many samples are new since the last snapshot, or a
\* replacement when that cannot be told.
NewSamples ==
    LET n == control.samples
        moved == (control.start - delta.start + RecLen) % RecLen
        reset == ~delta.init \/ n < delta.samples \/ delta.age >= RecLen
        count == IF reset THEN n ELSE IF n > delta.samples THEN n - delta.samples ELSE moved
    IN  IF count > n \/ count >= RecLen THEN [reset |-> TRUE, count |-> n]
        ELSE [reset |-> reset, count |-> count]

\* poll_once in the mode roll, up to its look at control->state.
PollRoll ==
    /\ Free /\ ctl.up /\ ctl.running /\ ctl.mode = "roll"
    /\ IF control.samples = 0 THEN UNCHANGED <<delta, frames, viewing>>
       ELSE LET new == NewSamples
                sequence == IF new.count = 0 THEN delta.sequence
                            ELSE IF new.reset THEN control.samples ELSE delta.sequence + new.count
            IN  /\ delta' = [init |-> TRUE, start |-> control.start, samples |-> control.samples,
                             sequence |-> sequence, age |-> 0]
                /\ IF new.count = 0 THEN UNCHANGED <<frames, viewing>>
                   ELSE Publish([kind |-> "roll", of |-> control.of, samples |-> new.count,
                                 sequence |-> sequence, reset |-> new.reset, upTo |-> control.taken,
                                 turned |-> control.samples > delta.samples /\ control.start # delta.start])
    /\ ctl' = [ctl EXCEPT !.at = "polling"]
    /\ UNCHANGED <<control, scopeLink, saw>>

\* The rest of it: a full record is started again.
PollRollEnd ==
    /\ ctl.at = "polling"
    /\ IF control.state = "done" /\ ctl.started < MaxAcquisitions
       THEN /\ control' = [control EXCEPT !.state = "init"]
            /\ ctl' = [ctl EXCEPT !.at = "free", !.started = @ + 1]
       ELSE ctl' = [ctl EXCEPT !.at = "free"] /\ UNCHANGED control
    /\ UNCHANGED <<delta, frames, scopeLink, viewing, saw>>

\* An exception while a frame is made.
PollFails ==
    /\ Free /\ ctl.up /\ ctl.running /\ delta.init
    /\ delta' = [NoDelta EXCEPT !.sequence = delta.sequence]
    /\ UNCHANGED <<control, ctl, frames, scopeLink, viewing, saw>>

-----------------------------------------------------------------------------
(* The ScopeService calls *)

\* ensure_controller: the first call of any kind makes the controller, acquires
\* it and registers it.
EnsureController ==
    /\ ~ctl.up
    /\ ctl' = [ctl EXCEPT !.up = TRUE]
    /\ UNCHANGED <<control, delta, frames, scopeLink, viewing, saw>>

\* configure: an acquisition is reset and given 250 ms to become idle.
BeginConfigure ==
    /\ Free /\ ctl.up
    /\ ctl' = [ctl EXCEPT !.at = "resetting"]
    /\ control' = IF control.state # "idle" THEN [control EXCEPT !.state = "reset"] ELSE control
    /\ UNCHANGED <<delta, frames, scopeLink, viewing, saw>>

\* It did not: the sampling function is unlinked and the state is forced.
ForceIdle ==
    /\ ctl.at = "resetting" /\ control.state # "idle"
    /\ control' = [control EXCEPT !.linked = FALSE, !.start = 0, !.samples = 0,
                                  !.state = "idle"]
    /\ UNCHANGED <<ctl, delta, frames, scopeLink, viewing, saw>>

\* The old thread does not let go, or the new one cannot be had.
LinkFails ==
    /\ ctl.at = "resetting" /\ control.state = "idle"
    /\ ctl' = [ctl EXCEPT !.at = "free"]
    /\ \E linked \in {control.linked, FALSE} : control' = [control EXCEPT !.linked = linked]
    /\ UNCHANGED <<delta, frames, scopeLink, viewing, saw>>

EndConfigure ==
    /\ ctl.at = "resetting" /\ control.state = "idle"
    /\ control' = [control EXCEPT !.linked = TRUE, !.pre = PreTrigger]
    /\ ctl' = [ctl EXCEPT !.at = "free", !.configured = TRUE, !.running = FALSE]
    /\ delta' = NoDelta
    /\ ClearFrames
    /\ UNCHANGED <<scopeLink, saw>>

\* run.
RunScope(mode) ==
    /\ Free /\ ctl.up /\ ctl.configured /\ control.state \in {"idle", "done"}
    /\ ctl.started < MaxAcquisitions
    /\ control' = [control EXCEPT !.state = "init", !.pre = IF mode = "roll" THEN RecLen - 1 ELSE PreTrigger]
    /\ ctl' = [ctl EXCEPT !.mode = mode, !.running = TRUE, !.started = @ + 1]
    /\ delta' = NoDelta
    /\ UNCHANGED <<frames, scopeLink, viewing, saw>>

StopScope ==
    /\ Free /\ ctl.up
    /\ ctl' = [ctl EXCEPT !.running = FALSE]
    /\ delta' = [NoDelta EXCEPT !.sequence = delta.sequence]
    /\ control' = [control EXCEPT !.state = "reset"]
    /\ ClearFrames
    /\ UNCHANGED <<scopeLink, saw>>

\* The calls run one at a time, on the service's worker.
ScopeCall ==
    \/ EnsureController \/ BeginConfigure \/ ForceIdle \/ LinkFails \/ EndConfigure
    \/ (\E mode \in {"run", "single", "roll"} : RunScope(mode)) \/ StopScope

-----------------------------------------------------------------------------
(* The attachment and its session, on the I/O thread *)

\* claim, by the upgrade request: one session at a time.
ClaimScope ==
    /\ ctl.up /\ viewing.at = "none" /\ ~scopeLink.attached
    /\ scopeLink' = [attached |-> TRUE, listening |-> TRUE]
    /\ viewing' = [NotViewing EXCEPT !.at = "claimed"]
    /\ saw' = SawNothing
    /\ UNCHANGED <<control, ctl, delta, frames>>

\* The client's part: a roll frame continues what it has when no frame was
\* skipped and the sequence follows; fooled records one that does not.
Reads(c, f) ==
    LET follows == c.of # 0 /\ f.skipped = 0 /\ f.sequence - f.samples = c.sequence IN
    CASE f.kind = "capture" -> c
      [] f.kind = "roll" /\ f.reset ->
           [c EXCEPT !.of = f.of, !.sequence = f.sequence, !.upTo = f.upTo]
      [] f.kind = "roll" /\ ~f.reset ->
           [c EXCEPT !.of = IF follows THEN @ ELSE 0, !.sequence = f.sequence, !.upTo = f.upTo,
              !.fooled = @ \/ (follows /\ ~f.turned /\ (f.of # c.of \/ f.upTo - f.samples # c.upTo))]

\* next: the frame in flight that was not handed out yet.
Takeable == frames.inFlight # NoFrame /\ ~frames.delivered

\* A frame goes to the session.
Hands(v, f) == [v EXCEPT !.writing = f, !.crossed = FALSE]

\* wake_scope.
Woke(v) ==
    IF v.writing # NoFrame \/ ~Takeable
    THEN viewing' = v /\ UNCHANGED frames
    ELSE /\ viewing' = Hands(v, frames.inFlight)
         /\ frames' = [frames EXCEPT !.delivered = TRUE]

\* on_accept: subscribe, then look for a frame.
AcceptScope ==
    /\ viewing.at = "claimed"
    /\ Woke([viewing EXCEPT !.at = "open"])
    /\ UNCHANGED <<control, ctl, delta, scopeLink, saw>>

WakeScope ==
    /\ viewing.at = "open" /\ viewing.wakes > 0
    /\ Woke([viewing EXCEPT !.wakes = @ - 1])
    /\ UNCHANGED <<control, ctl, delta, scopeLink, saw>>

\* Mutant: the next frame waits for a wake.
ScopeWrittenOnly ==
    /\ viewing.at = "open" /\ viewing.writing # NoFrame
    /\ saw' = Reads(saw, viewing.writing)
    /\ frames' = Acknowledged(viewing.writing.gen)
    /\ viewing' = [viewing EXCEPT !.writing = NoFrame]
    /\ UNCHANGED <<control, ctl, delta, scopeLink>>

\* on_write: the acknowledgement may bring the next frame.
ScopeWritten ==
    /\ viewing.at = "open" /\ viewing.writing # NoFrame
    /\ saw' = Reads(saw, viewing.writing)
    /\ LET q == Acknowledged(viewing.writing.gen) IN
       /\ frames' = q
       /\ viewing' = IF q # frames /\ q.inFlight # NoFrame THEN Hands(viewing, q.inFlight)
                     ELSE [viewing EXCEPT !.writing = NoFrame]
    /\ UNCHANGED <<control, ctl, delta, scopeLink>>

\* fail, and ScopeTelemetry::release: the peer went away or spoke, or a write
\* failed or met its deadline.
FailScope ==
    /\ viewing.at # "none"
    /\ viewing' = NotViewing
    /\ scopeLink' = [attached |-> FALSE, listening |-> FALSE]
    /\ frames' = ClearedFrames
    /\ saw' = SawNothing
    /\ UNCHANGED <<control, ctl, delta>>

\* ~ScopeServiceImpl, after the sessions are gone: revoke, release and teardown,
\* which waits for scope_rt like configure.
DestroyScope ==
    /\ Free /\ ctl.up /\ viewing.at = "none"
    /\ ctl' = [ctl EXCEPT !.at = "destroyed", !.running = FALSE, !.configured = FALSE]
    /\ delta' = [NoDelta EXCEPT !.sequence = delta.sequence]
    /\ control' \in {[control EXCEPT !.state = "idle", !.samples = 0, !.start = 0, !.linked = linked] :
                     linked \in {control.linked, FALSE}}
    /\ frames' = ClearedFrames
    /\ UNCHANGED <<scopeLink, viewing, saw>>

-----------------------------------------------------------------------------

ScopeNext ==
    \/ RtReset \/ RtInit \/ RtSample \/ RtWait \/ RtTrigger \/ RtIdle
    \/ PollCapture \/ PollRoll \/ PollRollEnd \/ PollFails
    \/ ScopeCall
    \/ ClaimScope \/ AcceptScope \/ WakeScope \/ ScopeWritten \/ FailScope
    \/ DestroyScope

ScopeSpec == ScopeInit /\ [][ScopeNext]_scopeVars

-----------------------------------------------------------------------------

\* A client that appends roll frames while none was skipped and the sequence
\* follows is never missing a sample.
RollIsSeamless == ~saw.fooled

\* A session that is writing nothing and has no wake to come leaves no frame
\* behind, except one published after the queue was cleared under a write: its
\* wake came during the write, and the acknowledgement of the cleared frame does
\* not bring it.  The next frame does.
ScopeKeepsUp ==
    viewing.at = "open" /\ viewing.writing = NoFrame /\ viewing.wakes = 0 =>
      \/ frames.inFlight = NoFrame
      \/ ~frames.delivered /\ viewing.crossed

=============================================================================
