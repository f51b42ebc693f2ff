----------------------------- MODULE NmlCommands -----------------------------
(***************************************************************************)
(* The path of a command through the NML adapter (linuxcnc/nml_adapter.cc):*)
(* the action NmlAdapter::submit hands to the command coordinator, the     *)
(* command channel, LinuxCNC, the status channel the service's polling     *)
(* thread reads, and the CommandCompletionTracker that turns what it reads *)
(* into the verdict of a deferred ticket.                                  *)
(*                                                                         *)
(* The worker and the polling thread share the tracker's mutex and nothing *)
(* else.  LinuxCNC is external: it takes the commands of the channel in    *)
(* order, echoes the serial number of the last one it took, may take a new *)
(* one before the last is done, and publishes its status again and again.  *)
(***************************************************************************)
EXTENDS CommandCoordinator, Integers

CONSTANTS
    OpenCommands,     \* the program opens among the commands
    Faults,           \* what may go wrong: a subset of AllFaults
    SerialModulus,    \* NML serial numbers are taken modulo this power of two
    FirstSerial,      \* the serial number of the first command written
    ChannelCapacity,  \* messages the command channel holds
    ForeignWrites,    \* bound: commands other LinuxCNC clients may write
    Witnessed         \* the commands whose outcome is recorded (history only)

AllFaults == {"cancel", "prepare", "write", "disconnect", "timeout", "shutdown"}

ASSUME OpenAssumption == OpenCommands \subseteq Commands \ SafetyCommands
ASSUME FaultAssumption == Faults \subseteq AllFaults
(* Comparing serial numbers is sound while fewer messages than half the    *)
(* modulus are under way; the instances choose it so, as 32 bits do.       *)
ASSUME SerialAssumption ==
    /\ SerialModulus \in Nat /\ SerialModulus > 1
    /\ FirstSerial \in 0 .. SerialModulus - 1
    /\ ChannelCapacity \in Nat \ {0}
    /\ ForeignWrites \in Nat

NoSerial == -1

VARIABLES
    halting,     \* the service's stopping_
    cancelled,   \* where a command was when its stop token fired in time, or "no"
    stage,       \* how far the worker is in NmlAdapter::submit's action
    serial,      \* the serial number of each command's own message
    nextSerial,  \* the serial number the channel gives next
    foreign,     \* how many messages other clients wrote
    inbox,       \* the command channel
    status,      \* LinuxCNC: the echoed serial number and RCS status
    unread,      \* is there a status the polling thread has not read?
    outcome,     \* what LinuxCNC did with each command (history)
    passed,      \* those after which it took another one (history)
    pending,     \* the tracker's pending_
    observed,    \* those of them tracked before the last observation
    latest,      \* the tracker's latest_
    healthy,     \* the tracker's channel_healthy_
    expired,     \* tracked commands whose deadline has passed
    poller,      \* the polling thread
    peeked,      \* the status it copied from the channel
    finishing    \* what it took from the tracker and still has to call

linuxcncVars == <<nextSerial, foreign, inbox, status, unread, outcome, passed>>
trackerVars == <<pending, observed, latest, healthy, expired>>
pollerVars == <<poller, peeked, finishing>>
nmlVars == <<halting, cancelled, stage, serial, linuxcncVars, trackerVars, pollerVars>>
allNmlVars == <<coordinatorVars, nmlVars>>

NmlInit ==
    /\ CoordinatorInit
    /\ halting = FALSE
    /\ cancelled = [c \in Commands |-> "no"]
    /\ stage = "idle"
    /\ serial = [c \in Commands |-> NoSerial]
    /\ nextSerial = FirstSerial
    /\ foreign = 0
    /\ inbox = <<>>
    /\ status = [echo |-> (FirstSerial - 1) % SerialModulus, rcs |-> "DONE"]
    /\ unread = TRUE
    /\ outcome = [c \in Commands |-> "none"]
    /\ passed = {}
    /\ pending = <<>>
    /\ observed = {}
    /\ latest = status
    /\ healthy = FALSE
    /\ expired = {}
    /\ poller = "top"
    /\ peeked = status
    /\ finishing = <<>>

-----------------------------------------------------------------------------
(* detail::nml_serial_after: the difference of two serial numbers, as a    *)
(* signed integer of their width, is positive.                             *)
SerialGreater(l, r) == l > r  \* mutant: no wrap-around
SerialAfter(l, r) == (l - r) % SerialModulus \in 1 .. (SerialModulus \div 2) - 1

(* CommandCompletionTracker::resolve.  An answer counts only if the status *)
(* was observed after the command was tracked (isObserved).                *)
Answer(c, snapshot) ==
    CASE SerialAfter(snapshot.echo, serial[c]) -> "Completed"
      [] snapshot.echo = serial[c] /\ snapshot.rcs = "DONE" -> "Completed"
      [] snapshot.echo = serial[c] /\ snapshot.rcs = "ERROR" -> "Rejected"
      [] OTHER -> "Pending"

ResolveObservedOnly(c, snapshot, isObserved) ==  \* mutant: no deadline
    IF isObserved                                 \* before an observation
    THEN IF Answer(c, snapshot) = "Pending" /\ c \in expired
         THEN "TimedOut" ELSE Answer(c, snapshot)
    ELSE "Pending"
Resolve(c, snapshot, isObserved) ==
    IF isObserved /\ Answer(c, snapshot) # "Pending"
    THEN Answer(c, snapshot)
    ELSE IF c \in expired THEN "TimedOut" ELSE "Pending"

(* collect_ready: the pending commands that are resolved, in order, and    *)
(* those that stay.                                                        *)
Collect(snapshot, seen) ==
    LET resolved(c) == Resolve(c, snapshot, c \in seen) # "Pending"
        ready == SelectSeq(pending, resolved)
        open(c) == ~resolved(c)
    IN /\ finishing' =
            [i \in 1 .. Len(ready) |->
               [cmd |-> ready[i], how |-> Resolve(ready[i], snapshot, ready[i] \in seen)]]
       /\ pending' = SelectSeq(pending, open)
       /\ observed' = {c \in seen : open(c)}
       /\ expired' = {c \in expired : open(c)}

-----------------------------------------------------------------------------
(* Clients.                                                                *)
NmlSubmit(c) ==
    /\ Submit(c)
    /\ UNCHANGED nmlVars

(* OnCancel: the stop token of an unanswered request fires.  Its command   *)
(* is waiting, or taken; once the worker has looked at the token nobody    *)
(* reads it again, and it makes no difference that it fired.               *)
WhereIs(c) ==
    CASE c \in Waiting \/ ticket[c] = "Unsubmitted" -> "waiting"
      [] c = running /\ stage = "start" -> "taken"
      [] OTHER -> "no"

Cancel(c) ==
    /\ "cancel" \in Faults
    /\ ticket[c] \in {"Queued", "Accepted"}
    /\ cancelled[c] = "no"
    /\ cancelled' = [cancelled EXCEPT ![c] = WhereIs(c)]
    /\ UNCHANGED <<coordinatorVars, halting, stage, serial, linuxcncVars, trackerVars, pollerVars>>

(* The first half of MachineServiceImpl::shutdown: the registry stops      *)
(* every request, and those still to come.                                 *)
StopRequests ==
    cancelled' = [c \in Commands |->
                    IF cancelled[c] # "no" THEN cancelled[c] ELSE WhereIs(c)]

ServiceShutdown ==
    /\ "shutdown" \in Faults
    /\ ~halting
    /\ halting' = TRUE
    /\ StopRequests
    /\ UNCHANGED <<coordinatorVars, stage, serial, linuxcncVars, trackerVars, pollerVars>>

(* ~NmlAdapter: the coordinator is shut down once the polling thread has   *)
(* been joined.                                                            *)
NmlShutdown ==
    /\ poller = "stopped"
    /\ Shutdown
    /\ UNCHANGED nmlVars

-----------------------------------------------------------------------------
(* The worker: the action given to submit_with_context.                    *)
NmlTake ==
    /\ Take
    /\ stage' = "start"
    /\ UNCHANGED <<halting, cancelled, serial, linuxcncVars, trackerVars, pollerVars>>

NmlExit ==
    /\ Exit
    /\ UNCHANGED nmlVars

(* A request cancelled while it was queued is dropped; a safety command    *)
(* never is.                                                               *)
DroppedNever == FALSE  \* mutant: the stop token is not checked
Dropped == running \notin SafetyCommands /\ cancelled[running] # "no"

(* Every error before acceptance ends in the handler that rolls back and   *)
(* rethrows: a dropped request, a failed preparation, a failed write.      *)
NmlThrow ==
    /\ \/ stage = "start" /\ (Dropped \/ "prepare" \in Faults)
       \/ stage \in {"close", "write"}
            /\ ("write" \in Faults \/ Len(inbox) = ChannelCapacity)
    /\ Throw
    /\ stage' = "idle"
    /\ UNCHANGED <<halting, cancelled, serial, linuxcncVars, trackerVars, pollerVars>>

Prepare ==
    /\ stage = "start"
    /\ ~Dropped
    /\ ~Busy("worker")
    /\ stage' = IF running \in OpenCommands THEN "close" ELSE "write"
    /\ UNCHANGED <<coordinatorVars, halting, cancelled, serial, linuxcncVars, trackerVars, pollerVars>>

(* write_command.  A program open first closes the program that is open.   *)
Send(c) ==
    /\ Len(inbox) < ChannelCapacity
    /\ inbox' = Append(inbox, [cmd |-> c, serial |-> nextSerial])
    /\ nextSerial' = (nextSerial + 1) % SerialModulus
    /\ UNCHANGED <<status, unread, outcome, passed>>

WriteClose ==
    /\ stage = "close"
    /\ Send(NoCommand)
    /\ stage' = "write"
    /\ UNCHANGED <<coordinatorVars, halting, cancelled, serial, foreign, trackerVars, pollerVars>>

Write ==
    /\ stage = "write"
    /\ Send(running)
    /\ serial' = [serial EXCEPT ![running] = nextSerial]
    /\ stage' = "accept"
    /\ UNCHANGED <<coordinatorVars, halting, cancelled, foreign, trackerVars, pollerVars>>

NmlAccept ==
    /\ stage = "accept"
    /\ MarkAccepted
    /\ stage' = "defer"
    /\ UNCHANGED <<halting, cancelled, serial, linuxcncVars, trackerVars, pollerVars>>

NmlDefer ==
    /\ stage = "defer"
    /\ DeferCompletion
    /\ stage' = "track"
    /\ UNCHANGED <<halting, cancelled, serial, linuxcncVars, trackerVars, pollerVars>>

(* CommandCompletionTracker::track.  Nothing was observed since, so only   *)
(* an unhealthy channel or a deadline can resolve the command here.        *)
TrackOrFail ==
    IF healthy /\ Resolve(running, latest, FALSE) = "Pending"
    THEN /\ pending' = Append(pending, running)
         /\ stage' = "return"
    ELSE /\ stage' = "fail"
         /\ UNCHANGED pending

Track ==
    /\ stage = "track"
    /\ TrackOrFail
    /\ UNCHANGED <<coordinatorVars, halting, cancelled, serial, linuxcncVars, observed,
                   latest, healthy, expired, pollerVars>>

FailNow ==
    /\ stage = "fail"
    /\ Settle("worker", running, "Failed")
    /\ stage' = "return"
    /\ expired' = expired \ {running}
    /\ UNCHANGED <<halting, cancelled, serial, linuxcncVars, pending, observed,
                   latest, healthy, pollerVars>>

NmlReturn ==
    /\ stage = "return"
    /\ Return
    /\ stage' = "idle"
    /\ UNCHANGED <<halting, cancelled, serial, linuxcncVars, trackerVars, pollerVars>>

-----------------------------------------------------------------------------
(* The polling thread.  It looks at stopping_ at the top of its loop, so   *)
(* one more poll may follow the shutdown.                                  *)
PollLoopForEver ==  \* mutant: stopping_ is not looked at
    /\ poller = "top"
    /\ finishing = <<>>
    /\ ~Busy("multiplexer")
    /\ poller' = "polling"
    /\ UNCHANGED <<coordinatorVars, halting, cancelled, stage, serial, linuxcncVars,
                   trackerVars, peeked, finishing>>
PollLoop ==
    /\ poller = "top"
    /\ finishing = <<>>
    /\ ~Busy("multiplexer")
    /\ poller' = IF halting THEN "stopped" ELSE "polling"
    /\ UNCHANGED <<coordinatorVars, halting, cancelled, stage, serial, linuxcncVars,
                   trackerVars, peeked, finishing>>

(* The status is copied out of the channel before the tracker is locked.   *)
Peek ==
    /\ poller = "polling"
    /\ unread
    /\ unread' = FALSE
    /\ peeked' = status
    /\ poller' = "peeked"
    /\ UNCHANGED <<coordinatorVars, halting, cancelled, stage, serial, nextSerial, foreign,
                   inbox, status, outcome, passed, trackerVars, finishing>>

(* CommandCompletionTracker::observe.                                      *)
ObserveStatus ==
    /\ poller = "peeked"
    /\ latest' = peeked
    /\ healthy' = TRUE
    /\ Collect(peeked, Members(pending))
    /\ poller' = "top"
    /\ UNCHANGED <<coordinatorVars, halting, cancelled, stage, serial, linuxcncVars, peeked>>

(* tick: no new status; deadlines may have passed.                         *)
Tick ==
    /\ poller = "polling"
    /\ ~unread
    /\ Collect(latest, observed)
    /\ poller' = "top"
    /\ UNCHANGED <<coordinatorVars, halting, cancelled, stage, serial, linuxcncVars,
                   latest, healthy, peeked>>

(* channel_failed: everything pending fails.                               *)
FailPendingTwice ==  \* mutant: pending_ is copied, not swapped
    /\ finishing' = [i \in 1 .. Len(pending) |->
                       [cmd |-> pending[i], how |-> "Unavailable"]]
    /\ UNCHANGED <<pending, observed, expired>>
FailPending ==
    /\ finishing' = [i \in 1 .. Len(pending) |->
                       [cmd |-> pending[i], how |-> "Unavailable"]]
    /\ pending' = <<>> /\ observed' = {} /\ expired' = {}

Disconnect ==
    /\ "disconnect" \in Faults
    /\ poller = "polling"
    /\ FailPending
    /\ healthy' = FALSE
    /\ poller' = "top"
    /\ UNCHANGED <<coordinatorVars, halting, cancelled, stage, serial, linuxcncVars,
                   latest, peeked>>

(* finish: the callbacks handed to track, in order.                        *)
Verdict(how) == IF how = "Completed" THEN "Completed" ELSE "Failed"

Finish ==
    /\ finishing # <<>>
    /\ Settle("multiplexer", Head(finishing).cmd, Verdict(Head(finishing).how))
    /\ finishing' = Tail(finishing)
    /\ UNCHANGED <<halting, cancelled, stage, serial, linuxcncVars, trackerVars, poller, peeked>>

-----------------------------------------------------------------------------
(* Time, LinuxCNC and its other clients.                                   *)
Expire(c) ==
    /\ "timeout" \in Faults
    /\ c \notin expired
    /\ \/ stage = "track" /\ c = running
       \/ c \in Members(pending)
    /\ expired' = expired \cup {c}
    /\ UNCHANGED <<coordinatorVars, halting, cancelled, stage, serial, linuxcncVars,
                   pending, observed, latest, healthy, pollerVars>>

ForeignWrite ==
    /\ foreign < ForeignWrites
    /\ Send(NoCommand)
    /\ foreign' = foreign + 1
    /\ UNCHANGED <<coordinatorVars, halting, cancelled, stage, serial, trackerVars, pollerVars>>

Receive ==
    /\ inbox # <<>>
    /\ status' = [echo |-> Head(inbox).serial, rcs |-> "EXEC"]
    /\ outcome' = [c \in Commands |->
                     IF c \in Witnessed /\ c = Head(inbox).cmd THEN "EXEC" ELSE outcome[c]]
    /\ passed' = passed \cup {c \in Commands : outcome[c] # "none"}
    /\ inbox' = Tail(inbox)
    /\ unread' = TRUE
    /\ UNCHANGED <<coordinatorVars, halting, cancelled, stage, serial, nextSerial, foreign,
                   trackerVars, pollerVars>>

Conclude(result) ==
    /\ status.rcs = "EXEC"
    /\ status' = [status EXCEPT !.rcs = result]
    /\ outcome' = [c \in Commands |->
                     IF c \in Witnessed /\ serial[c] = status.echo THEN result ELSE outcome[c]]
    /\ unread' = TRUE
    /\ UNCHANGED <<coordinatorVars, halting, cancelled, stage, serial, nextSerial, foreign,
                   inbox, passed, trackerVars, pollerVars>>

Publish ==
    /\ ~unread
    /\ unread' = TRUE
    /\ UNCHANGED <<coordinatorVars, halting, cancelled, stage, serial, nextSerial, foreign,
                   inbox, status, outcome, passed, trackerVars, pollerVars>>

-----------------------------------------------------------------------------
NmlObserve(o, c, p) == Observe(o, c, p) /\ UNCHANGED nmlVars
NmlCall(o) == Call(o) /\ UNCHANGED nmlVars

WorkerStep ==
    \/ NmlTake \/ NmlExit \/ NmlThrow \/ Prepare \/ WriteClose \/ Write
    \/ NmlAccept \/ NmlDefer \/ Track \/ FailNow \/ NmlReturn
PollerStep ==
    \/ PollLoop \/ Peek \/ ObserveStatus \/ Tick \/ Disconnect \/ Finish
LinuxCNCStep ==
    \/ ForeignWrite
    \/ Receive
    \/ \E r \in {"DONE", "ERROR"} : Conclude(r)
    \/ Publish

NmlNext ==
    \/ \E c \in Commands : NmlSubmit(c) \/ Cancel(c) \/ Expire(c)
    \/ \E o \in Observers, c \in Commands, p \in Policies : NmlObserve(o, c, p)
    \/ \E o \in Observers : NmlCall(o)
    \/ ServiceShutdown
    \/ NmlShutdown
    \/ WorkerStep
    \/ PollerStep
    \/ LinuxCNCStep

NmlSpec == NmlInit /\ [][NmlNext]_allNmlVars

(* The worker and the polling thread are threads of the process and are    *)
(* scheduled; the polling thread polls periodically.  A prepare or a write *)
(* either succeeds or throws.                                              *)
DaemonFairness ==
    /\ WF_allNmlVars(WorkerStep)
    /\ WF_allNmlVars(PollerStep)
    /\ \A o \in Observers : WF_allNmlVars(NmlCall(o))

(* LinuxCNC's task loop: it takes commands, ends them and keeps publishing.*)
LinuxCNCFairness ==
    /\ WF_allNmlVars(Receive)
    /\ WF_allNmlVars(\E r \in {"DONE", "ERROR"} : Conclude(r))
    /\ WF_allNmlVars(Publish)

(* Deadlines pass, with a completion timeout configured.                   *)
ClockFairness == \A c \in Commands : WF_allNmlVars(Expire(c))

FairNmlSpec == NmlSpec /\ DaemonFairness

-----------------------------------------------------------------------------
(* A verdict has a ground in what LinuxCNC did, however late the status is *)
(* read and wherever the serial numbers wrap: a command completes only if  *)
(* LinuxCNC finished it or went on to a later one, and is rejected only if *)
(* LinuxCNC reported an error for it.                                      *)
VerdictHasGround ==
    /\ \A i \in 1 .. Len(finishing) :
         LET c == finishing[i].cmd IN
         /\ finishing[i].how = "Completed" =>
              outcome[c] = "DONE" \/ c \in passed
         /\ finishing[i].how = "Rejected" => outcome[c] = "ERROR"
    /\ \A c \in Commands :
         ticket[c] = "Completed" =>
              outcome[c] = "DONE" \/ c \in passed

(* Who can still settle the ticket of a command that LinuxCNC accepted.    *)
Owners(c) ==
    (IF c = running /\ stage \in {"accept", "defer", "track", "fail"} THEN 1 ELSE 0)
    + Len(SelectSeq(pending, LAMBDA d : d = c))
    + Len(SelectSeq(finishing, LAMBDA f : f.cmd = c))

(* The completion callbacks of a command are called exactly once, although *)
(* the worker, an observation, a timeout and a failing channel may all     *)
(* decide its fate: a written command whose ticket is open has one owner,  *)
(* and a settled one has none.                                             *)
OneOwner ==
    \A c \in Commands :
        /\ serial[c] # NoSerial /\ ticket[c] \notin Terminal => Owners(c) = 1
        /\ ticket[c] \in Terminal => Owners(c) = 0

(* A request cancelled while it was queued, by its client or by the        *)
(* shutdown of the service, never reaches LinuxCNC.                        *)
CancelledIsNeverSent ==
    \A c \in Commands \ SafetyCommands :
        cancelled[c] = "waiting" => serial[c] = NoSerial

(* When the worker has exited, the only open tickets are those of commands *)
(* that LinuxCNC accepted and that go on without the daemon.               *)
OnlyAcceptedSurviveExit ==
    worker = "exited" =>
        \A c \in Commands :
            ticket[c] \in {"Queued", "Accepted"} =>
                ticket[c] = "Accepted" /\ serial[c] # NoSerial

(* As long as the polling thread runs, every submitted command gets a      *)
(* verdict, if LinuxCNC keeps answering (no deadline need pass) or if      *)
(* deadlines pass (LinuxCNC may be silent).                                *)
EveryCommandSettles ==
    LinuxCNCFairness \/ ClockFairness =>
        \A c \in Commands :
            ticket[c] = "Queued" ~> (ticket[c] \in Terminal \/ poller = "stopped")

(* The shutdown of the service ends: the polling thread is joined.         *)
PollingStops == halting ~> poller = "stopped"

=============================================================================
