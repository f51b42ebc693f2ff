------------------------- MODULE NmlCommands_proofs -------------------------
(***************************************************************************)
(* Proofs about the path of a command through the NML adapter, for any     *)
(* commands, faults, serial numbers and channel: the adapter drives the    *)
(* coordinator by the coordinator's own steps, a request cancelled while   *)
(* it was queued is never written, and an exited worker leaves no ticket   *)
(* open but those of commands that LinuxCNC has been sent.                 *)
(***************************************************************************)
EXTENDS NmlCommands, CommandCoordinator_proofs

BeforeWrite == {"start", "close", "write"}
AfterWrite == {"accept", "defer", "track", "fail", "return"}
AfterAccept == {"defer", "track", "fail", "return"}

NmlTypes ==
    /\ serial \in [Commands -> Int]
    /\ nextSerial \in 0 .. SerialModulus - 1
    /\ cancelled \in [Commands -> {"no", "waiting", "taken"}]
    /\ stage \in {"idle"} \cup BeforeWrite \cup AfterWrite
    /\ stage = "idle" <=> worker # "running"

(* What the stage of the worker says about the command it runs.            *)
StageMeans ==
    /\ stage \in AfterWrite => serial[running] # NoSerial
    /\ stage \in AfterAccept => ticket[running] # "Queued"

(* What has been sent: nothing that waits, everything that was accepted or *)
(* deferred.                                                               *)
SentMeans ==
    /\ \A c \in Commands :
         /\ ticket[c] = "Unsubmitted" \/ c \in Waiting => serial[c] = NoSerial
         /\ ticket[c] = "Accepted" => serial[c] # NoSerial
    /\ \A c \in deferred : serial[c] # NoSerial /\ ticket[c] # "Queued"

(* A request cancelled in the queue gets as far as the check of its stop   *)
(* token.                                                                  *)
CancelledStops ==
    \A c \in Commands \ SafetyCommands :
        cancelled[c] = "waiting" =>
            serial[c] = NoSerial /\ (c = running => stage = "start")

ExitedIsEmpty == worker = "exited" => stopping /\ queue = <<>> /\ safetyQueue = <<>>

NmlInductive ==
    /\ InductiveInvariant
    /\ NmlTypes
    /\ StageMeans
    /\ SentMeans
    /\ CancelledStops
    /\ ExitedIsEmpty

-----------------------------------------------------------------------------
(* The adapter, the tracker, LinuxCNC and the clients move the coordinator *)
(* only by steps of the coordinator: what is proved of it holds here.      *)
LEMMA NmlStepIsCoordinatorStep ==
    ASSUME TypeOK, NmlNext
    PROVE  [CoordinatorNext]_coordinatorVars
<1>1. CASE \E c \in Commands : NmlSubmit(c) \/ Cancel(c) \/ Expire(c)
  BY <1>1 DEF CoordinatorNext, NmlSubmit, Cancel, Expire
<1>2. CASE \E o \in Observers, c \in Commands, p \in Policies : NmlObserve(o, c, p)
  BY <1>2 DEF CoordinatorNext, NmlObserve
<1>3. CASE \E o \in Observers : NmlCall(o)
  BY <1>3 DEF CoordinatorNext, NmlCall
<1>4. CASE ServiceShutdown \/ NmlShutdown
  BY <1>4 DEF CoordinatorNext, ServiceShutdown, NmlShutdown
<1>5. CASE WorkerStep
  <2>1. CASE FailNow
    <3>1. Settle("worker", running, "Failed") /\ running \in Commands
      BY <2>1 DEF FailNow, Settle, TypeOK
    <3> QED
      BY <3>1 DEF CoordinatorNext, Threads, Terminal
  <2>2. CASE ~FailNow
    BY <1>5, <2>2 DEF WorkerStep, CoordinatorNext, NmlTake, NmlExit, NmlThrow, Prepare,
                      WriteClose, Write, NmlAccept, NmlDefer, Track, NmlReturn
  <2> QED
    BY <2>1, <2>2
<1>6. CASE PollerStep
  <2>1. CASE Finish
    <3>1. PICK c, h : Settle("multiplexer", c, Verdict(h))
      BY <2>1 DEF Finish
    <3>2. c \in Commands /\ Verdict(h) \in Terminal
      BY <3>1 DEF Settle, TypeOK, Verdict, Terminal
    <3> QED
      BY <3>1, <3>2 DEF CoordinatorNext, Threads
  <2>2. CASE ~Finish
    BY <1>6, <2>2 DEF PollerStep, PollLoop, Peek, ObserveStatus, Tick, Disconnect
  <2> QED
    BY <2>1, <2>2
<1>7. CASE LinuxCNCStep
  BY <1>7 DEF LinuxCNCStep, ForeignWrite, Receive, Conclude, Publish
<1> QED
  BY <1>1, <1>2, <1>3, <1>4, <1>5, <1>6, <1>7 DEF NmlNext

(* transition() moves one ticket, never back to Queued, and to Accepted    *)
(* only when asked to.                                                     *)
LEMMA TransitionMoves ==
    ASSUME TypeOK, NEW t, NEW c \in Commands, NEW s \in {"Accepted"} \cup Terminal,
           Transition(t, c, s)
    PROVE  /\ \A d \in Commands : d # c => ticket'[d] = ticket[d]
           /\ ticket'[c] # "Queued"
           /\ ticket'[c] = "Unsubmitted" => ticket[c] = "Unsubmitted"
           /\ ticket'[c] = "Accepted" => s = "Accepted" \/ ticket[c] = "Accepted"
BY DEF Transition, Absorbed, TypeOK, Terminal

(* The part of the invariant this module adds to the coordinator's.        *)
NmlOwn == NmlTypes /\ StageMeans /\ SentMeans /\ CancelledStops /\ ExitedIsEmpty

(* A step that touches neither the coordinator nor the worker's action.    *)
LEMMA QuietStep ==
    ASSUME NmlOwn, UNCHANGED <<coordinatorVars, stage, serial, cancelled>>,
           nextSerial' \in 0 .. SerialModulus - 1
    PROVE  NmlOwn'
BY DEF NmlOwn, NmlTypes, StageMeans, SentMeans, CancelledStops, ExitedIsEmpty, Waiting, Members,
       coordinatorVars

(* A step that settles or accepts the ticket of a command that was sent.   *)
LEMMA SettleStep ==
    ASSUME TypeOK, NmlOwn, NEW t, NEW c \in Commands, NEW s \in {"Accepted"} \cup Terminal,
           Transition(t, c, s), serial[c] # NoSerial,
           UNCHANGED <<queueVars, worker, running, deferred, serial, nextSerial, cancelled>>
    PROVE  SentMeans' /\ ExitedIsEmpty' /\ (running = c => ticket'[running'] # "Queued")
<1>1. /\ \A d \in Commands : d # c => ticket'[d] = ticket[d]
      /\ ticket'[c] # "Queued"
      /\ ticket'[c] = "Unsubmitted" => ticket[c] = "Unsubmitted"
      /\ ticket'[c] = "Accepted" => s = "Accepted" \/ ticket[c] = "Accepted"
  BY TransitionMoves
<1>2. Waiting' = Waiting
  BY DEF Waiting, Members, queueVars
<1>3. deferred \subseteq Commands
  BY DEF TypeOK
<1> QED
  BY <1>1, <1>2, <1>3 DEF NmlOwn, SentMeans, ExitedIsEmpty, queueVars

(* The steps of clients and of the shutdown.                               *)
LEMMA ClientStepKeeps ==
    ASSUME InductiveInvariant, NmlOwn, NEW c \in Commands,
           NmlSubmit(c) \/ Cancel(c) \/ Expire(c)
    PROVE  NmlOwn'
<1> USE DEF NmlOwn
<1>1. CASE NmlSubmit(c)
  <2>1. /\ Submit(c) /\ UNCHANGED <<stage, serial, nextSerial, cancelled>>
        /\ ticket[c] = "Unsubmitted" /\ ~stopping
        /\ ticket' = [ticket EXCEPT ![c] = "Queued"]
        /\ UNCHANGED <<stopping, worker, running, deferred>>
    BY <1>1 DEF NmlSubmit, Submit, nmlVars, linuxcncVars
  <2>2. Waiting' \subseteq Waiting \cup {c}
    <3>1. /\ queue \in Seq(Commands \ SafetyCommands)
          /\ safetyQueue \in Seq(SafetyCommands)
      BY DEF InductiveInvariant, TypeOK
    <3>2. CASE c \in SafetyCommands
      <4>1. safetyQueue' = Append(safetyQueue, c) /\ queue' = queue
        BY <2>1, <3>2 DEF Submit, Enqueue
      <4>2. Members(safetyQueue') = Members(safetyQueue) \cup {c}
        BY <3>1, <3>2, <4>1, MembersAppend
      <4> QED
        BY <4>1, <4>2 DEF Waiting
    <3>3. CASE c \notin SafetyCommands
      <4>1. queue' = Append(queue, c) /\ safetyQueue' = safetyQueue
        BY <2>1, <3>3 DEF Submit, Enqueue
      <4>2. Members(queue') = Members(queue) \cup {c}
        BY <3>1, <3>3, <4>1, MembersAppend
      <4> QED
        BY <4>1, <4>2 DEF Waiting
    <3> QED
      BY <3>2, <3>3
  <2>3. /\ ticket \in [Commands -> TicketState] /\ deferred \subseteq Commands
        /\ c \notin deferred /\ c # running
    BY <2>1, NoCommandAssumption DEF InductiveInvariant, TypeOK, Bookkeeping
  <2>4. NmlTypes' /\ CancelledStops' /\ ExitedIsEmpty'
    BY <2>1 DEF NmlTypes, CancelledStops, ExitedIsEmpty
  <2>5. StageMeans'
    <3>1. stage \in AfterAccept => running \in Commands
      BY DEF NmlTypes, InductiveInvariant, Bookkeeping, TypeOK, AfterAccept
    <3> QED
      BY <2>1, <2>3, <3>1 DEF StageMeans
  <2>6. SentMeans'
    BY <2>1, <2>2, <2>3 DEF SentMeans
  <2> QED
    BY <2>4, <2>5, <2>6
<1>2. CASE Cancel(c)
  <2>1. /\ cancelled' = [cancelled EXCEPT ![c] = WhereIs(c)]
        /\ UNCHANGED <<coordinatorVars, stage, serial, nextSerial>>
    BY <1>2 DEF Cancel, linuxcncVars
  <2>2. NmlTypes' /\ StageMeans' /\ SentMeans' /\ ExitedIsEmpty'
    BY <2>1 DEF NmlTypes, StageMeans, SentMeans, ExitedIsEmpty, WhereIs, coordinatorVars,
                Waiting, Members
  <2>3. WhereIs(c) = "waiting" => serial[c] = NoSerial /\ c # running
    BY NoCommandAssumption DEF WhereIs, SentMeans, InductiveInvariant, Bookkeeping
  <2>4. CancelledStops'
    BY <2>1, <2>3 DEF CancelledStops, NmlTypes, coordinatorVars
  <2> QED
    BY <2>2, <2>4
<1>3. CASE Expire(c)
  BY <1>3, QuietStep DEF Expire, linuxcncVars, NmlTypes
<1> QED
  BY <1>1, <1>2, <1>3

(* shutdown() stops every request at the place it has reached.             *)
LEMMA ServiceShutdownKeeps ==
    ASSUME InductiveInvariant, NmlOwn, ServiceShutdown
    PROVE  NmlOwn'
<1> USE DEF NmlOwn
<1>1. /\ cancelled' = [c \in Commands |->
                         IF cancelled[c] # "no" THEN cancelled[c] ELSE WhereIs(c)]
      /\ UNCHANGED <<coordinatorVars, stage, serial, nextSerial>>
  BY DEF ServiceShutdown, StopRequests, linuxcncVars
<1>2. NmlTypes' /\ StageMeans' /\ SentMeans' /\ ExitedIsEmpty'
  BY <1>1 DEF NmlTypes, StageMeans, SentMeans, ExitedIsEmpty, WhereIs, coordinatorVars,
              Waiting, Members
<1>3. \A c \in Commands : WhereIs(c) = "waiting" => serial[c] = NoSerial /\ c # running
  BY NoCommandAssumption DEF WhereIs, SentMeans, InductiveInvariant, Bookkeeping
<1>4. CancelledStops'
  BY <1>1, <1>3 DEF CancelledStops, coordinatorVars
<1> QED
  BY <1>2, <1>4

(* The worker's action: its checks, its writes, and what it tells the      *)
(* coordinator.                                                            *)
LEMMA WorkerStepKeeps ==
    ASSUME InductiveInvariant, NmlOwn, WorkerStep
    PROVE  NmlOwn'
<1> USE DEF NmlOwn, BeforeWrite, AfterWrite, AfterAccept
<1>1. /\ TypeOK
      /\ deferred \subseteq Commands
      /\ worker = "running" => running \in Commands
      /\ worker # "running" => running \notin Commands
      /\ Waiting \subseteq Commands
      /\ running \notin Waiting
  BY NoCommandAssumption, WaitingAreCommands DEF InductiveInvariant, TypeOK, Bookkeeping
<1>2. CASE NmlTake
  <2>1. /\ Take /\ stage' = "start" /\ worker' = "running"
        /\ UNCHANGED <<stopping, ticket, deferred, serial, nextSerial, cancelled>>
    BY <1>2 DEF NmlTake, Take, linuxcncVars
  <2>2. running' \in Waiting /\ Waiting' = Waiting \ {running'}
    BY <2>1, TakeTakesTheFirst
  <2> QED
    BY <1>1, <2>1, <2>2 DEF NmlTypes, StageMeans, SentMeans, CancelledStops, ExitedIsEmpty
<1>3. CASE NmlExit
  <2>1. /\ worker = "waiting" /\ worker' = "exited" /\ Done
        /\ UNCHANGED <<queue, safetyQueue, stopping, ticket, running, deferred,
                       stage, serial, nextSerial, cancelled>>
    BY <1>3 DEF NmlExit, Exit, queueVars, nmlVars, linuxcncVars
  <2> QED
    BY <2>1 DEF NmlTypes, StageMeans, SentMeans, CancelledStops, ExitedIsEmpty, Done,
                Waiting, Members
<1>4. CASE NmlThrow
  <2>1. /\ Transition("worker", running, "Failed") /\ worker = "running"
        /\ worker' = "waiting" /\ running' = NoCommand /\ stage' = "idle"
        /\ UNCHANGED <<queue, safetyQueue, stopping, deferred, serial, nextSerial, cancelled>>
    BY <1>4 DEF NmlThrow, Throw, queueVars, linuxcncVars
  <2>2. /\ \A d \in Commands : d # running => ticket'[d] = ticket[d]
        /\ ticket'[running] # "Queued"
        /\ ticket'[running] = "Unsubmitted" => ticket[running] = "Unsubmitted"
        /\ ticket'[running] = "Accepted" => ticket[running] = "Accepted"
    BY <1>1, <2>1, TransitionMoves DEF Terminal
  <2>3. Waiting' = Waiting
    BY <2>1 DEF Waiting, Members
  <2>4. NmlTypes' /\ StageMeans' /\ ExitedIsEmpty'
    BY <2>1 DEF NmlTypes, StageMeans, ExitedIsEmpty
  <2>5. SentMeans'
    BY <1>1, <2>1, <2>2, <2>3 DEF SentMeans
  <2>6. CancelledStops'
    BY <2>1, NoCommandAssumption DEF CancelledStops
  <2> QED
    BY <2>4, <2>5, <2>6
<1>5. CASE Prepare
  <2>1. /\ stage = "start" /\ stage' \in {"close", "write"} /\ ~Dropped
        /\ UNCHANGED <<coordinatorVars, serial, nextSerial, cancelled>>
    BY <1>5 DEF Prepare, linuxcncVars
  <2>2. NmlTypes' /\ StageMeans' /\ SentMeans' /\ ExitedIsEmpty'
    BY <2>1 DEF NmlTypes, StageMeans, SentMeans, ExitedIsEmpty, coordinatorVars, Waiting, Members
  <2>3. CancelledStops'
    BY <2>1 DEF CancelledStops, Dropped, coordinatorVars
  <2> QED
    BY <2>2, <2>3
<1>6. nextSerial # NoSerial /\ (nextSerial + 1) % SerialModulus \in 0 .. SerialModulus - 1
  BY SerialAssumption DEF NmlTypes, NoSerial
<1>7. CASE WriteClose
  <2>1. /\ stage = "close" /\ stage' = "write"
        /\ nextSerial' = (nextSerial + 1) % SerialModulus
        /\ UNCHANGED <<coordinatorVars, serial, cancelled>>
    BY <1>7 DEF WriteClose, Send
  <2>2. NmlTypes' /\ StageMeans' /\ SentMeans' /\ ExitedIsEmpty'
    BY <1>6, <2>1 DEF NmlTypes, StageMeans, SentMeans, ExitedIsEmpty, coordinatorVars, Waiting,
                      Members
  <2>3. CancelledStops'
    BY <2>1 DEF CancelledStops, coordinatorVars
  <2> QED
    BY <2>2, <2>3
<1>8. CASE Write
  <2>1. /\ stage = "write" /\ stage' = "accept" /\ worker = "running"
        /\ nextSerial' = (nextSerial + 1) % SerialModulus
        /\ serial' = [serial EXCEPT ![running] = nextSerial]
        /\ UNCHANGED <<coordinatorVars, cancelled>>
    BY <1>8 DEF Write, Send, NmlTypes
  <2>2. NmlTypes' /\ StageMeans' /\ ExitedIsEmpty'
    BY <1>1, <1>6, <2>1 DEF NmlTypes, StageMeans, ExitedIsEmpty, coordinatorVars
  <2>3. Waiting' = Waiting /\ ticket[running] # "Unsubmitted"
    BY <1>1, <2>1, NoCommandAssumption DEF coordinatorVars, Waiting, Members, InductiveInvariant,
                                           Bookkeeping
  <2>4. SentMeans'
    BY <1>1, <1>6, <2>1, <2>3 DEF SentMeans, NmlTypes, coordinatorVars
  <2>5. CancelledStops'
    BY <1>1, <2>1 DEF CancelledStops, NmlTypes, coordinatorVars
  <2> QED
    BY <2>2, <2>4, <2>5
<1>9. CASE NmlAccept
  <2>1. /\ stage = "accept" /\ stage' = "defer" /\ worker = "running"
        /\ Transition("worker", running, "Accepted")
        /\ UNCHANGED <<queueVars, worker, running, deferred, serial, nextSerial, cancelled>>
    BY <1>9 DEF NmlAccept, MarkAccepted, linuxcncVars
  <2>2. serial[running] # NoSerial
    BY <2>1 DEF StageMeans
  <2>3. SentMeans' /\ ExitedIsEmpty' /\ ticket'[running'] # "Queued"
    BY <1>1, <2>1, <2>2, SettleStep
  <2>4. NmlTypes' /\ StageMeans' /\ CancelledStops'
    BY <2>1, <2>2, <2>3 DEF NmlTypes, StageMeans, CancelledStops
  <2> QED
    BY <2>3, <2>4
<1>10. CASE NmlDefer
  <2>1. /\ stage = "defer" /\ stage' = "track" /\ worker = "running"
        /\ deferred' = deferred \cup {running}
        /\ UNCHANGED <<queue, safetyQueue, stopping, ticket, worker, running, serial, nextSerial,
                       cancelled>>
    BY <1>10 DEF NmlDefer, DeferCompletion, queueVars, linuxcncVars
  <2>2. Waiting' = Waiting
    BY <2>1 DEF Waiting, Members
  <2> QED
    BY <2>1, <2>2 DEF NmlTypes, StageMeans, SentMeans, CancelledStops, ExitedIsEmpty
<1>11. CASE Track
  <2>1. /\ stage = "track" /\ stage' \in {"return", "fail"}
        /\ UNCHANGED <<coordinatorVars, serial, nextSerial, cancelled>>
    BY <1>11 DEF Track, TrackOrFail, linuxcncVars
  <2> QED
    BY <2>1 DEF NmlTypes, StageMeans, SentMeans, CancelledStops, ExitedIsEmpty, coordinatorVars,
                Waiting, Members
<1>12. CASE FailNow
  <2>1. /\ stage = "fail" /\ stage' = "return" /\ running \in deferred
        /\ Transition("worker", running, "Failed")
        /\ UNCHANGED <<queueVars, worker, running, deferred, serial, nextSerial, cancelled>>
    BY <1>12 DEF FailNow, Settle, linuxcncVars
  <2>2. serial[running] # NoSerial
    BY <2>1 DEF StageMeans
  <2>3. SentMeans' /\ ExitedIsEmpty' /\ ticket'[running'] # "Queued"
    BY <1>1, <2>1, <2>2, SettleStep DEF Terminal
  <2>4. NmlTypes' /\ StageMeans' /\ CancelledStops'
    BY <2>1, <2>2, <2>3 DEF NmlTypes, StageMeans, CancelledStops
  <2> QED
    BY <2>3, <2>4
<1>13. CASE NmlReturn
  <2>1. /\ stage = "return" /\ stage' = "idle" /\ worker = "running" /\ worker' = "waiting"
        /\ running' = NoCommand
        /\ \/ ticket' = ticket
           \/ Transition("worker", running, "Completed")
        /\ UNCHANGED <<queue, safetyQueue, stopping, deferred, serial, nextSerial, cancelled>>
    BY <1>13 DEF NmlReturn, Return, queueVars, linuxcncVars
  <2>2. /\ \A d \in Commands : d # running => ticket'[d] = ticket[d]
        /\ ticket'[running] # "Queued"
        /\ ticket'[running] = "Unsubmitted" => ticket[running] = "Unsubmitted"
        /\ ticket'[running] = "Accepted" => ticket[running] = "Accepted"
    BY <1>1, <2>1, TransitionMoves DEF Terminal, StageMeans
  <2>3. Waiting' = Waiting
    BY <2>1 DEF Waiting, Members
  <2>4. NmlTypes' /\ StageMeans' /\ ExitedIsEmpty'
    BY <2>1 DEF NmlTypes, StageMeans, ExitedIsEmpty
  <2>5. SentMeans'
    BY <1>1, <2>1, <2>2, <2>3 DEF SentMeans
  <2>6. CancelledStops'
    BY <2>1, NoCommandAssumption DEF CancelledStops
  <2> QED
    BY <2>4, <2>5, <2>6
<1> QED
  BY <1>2, <1>3, <1>4, <1>5, <1>7, <1>8, <1>9, <1>10, <1>11, <1>12, <1>13 DEF WorkerStep

(* The polling thread and LinuxCNC settle tickets and touch nothing else.  *)
LEMMA OtherStepKeeps ==
    ASSUME InductiveInvariant, NmlOwn, PollerStep \/ LinuxCNCStep
    PROVE  NmlOwn'
<1>1. CASE Finish
  <2>1. PICK c, h :
          /\ c \in deferred /\ Transition("multiplexer", c, Verdict(h))
          /\ UNCHANGED <<queueVars, worker, running, deferred, stage, serial, nextSerial, cancelled>>
    BY <1>1 DEF Finish, Settle, linuxcncVars
  <2>2. c \in Commands /\ TypeOK /\ Verdict(h) \in Terminal /\ serial[c] # NoSerial
    BY <2>1 DEF InductiveInvariant, TypeOK, Verdict, Terminal, NmlOwn, SentMeans
  <2>3. /\ SentMeans' /\ ExitedIsEmpty'
        /\ running = c => ticket'[running'] # "Queued"
    BY <2>1, <2>2, SettleStep
  <2>4. running # c /\ running \in Commands => ticket'[running] = ticket[running]
    BY <2>1, <2>2, TransitionMoves
  <2>5. stage \in AfterAccept => running \in Commands
    BY DEF NmlOwn, NmlTypes, AfterAccept, InductiveInvariant, TypeOK, Bookkeeping
  <2>6. NmlTypes' /\ StageMeans' /\ CancelledStops'
    BY <2>1, <2>3, <2>4, <2>5 DEF NmlOwn, NmlTypes, StageMeans, CancelledStops
  <2> QED
    BY <2>3, <2>6 DEF NmlOwn
<1>2. CASE PollerStep /\ ~Finish
  <2>1. UNCHANGED <<coordinatorVars, stage, serial, nextSerial, cancelled>>
    BY <1>2 DEF PollerStep, PollLoop, Peek, ObserveStatus, Tick, Disconnect, linuxcncVars
  <2> QED
    BY <2>1, QuietStep DEF NmlOwn, NmlTypes
<1>3. CASE LinuxCNCStep
  <2>1. /\ UNCHANGED <<coordinatorVars, stage, serial, cancelled>>
        /\ nextSerial' \in {nextSerial, (nextSerial + 1) % SerialModulus}
    BY <1>3 DEF LinuxCNCStep, ForeignWrite, Send, Receive, Conclude, Publish
  <2>2. nextSerial' \in 0 .. SerialModulus - 1
    BY <2>1, SerialAssumption DEF NmlOwn, NmlTypes
  <2> QED
    BY <2>1, <2>2, QuietStep
<1> QED
  BY <1>1, <1>2, <1>3

LEMMA NmlInitEstablishes == NmlInit => NmlInductive
<1> SUFFICES ASSUME NmlInit PROVE NmlInductive
  OBVIOUS
<1>1. InductiveInvariant
  BY InitEstablishes DEF NmlInit
<1>2. /\ serial = [c \in Commands |-> NoSerial] /\ nextSerial = FirstSerial
      /\ cancelled = [c \in Commands |-> "no"] /\ stage = "idle" /\ worker = "waiting"
      /\ ticket = [c \in Commands |-> "Unsubmitted"] /\ deferred = {}
  BY DEF NmlInit, CoordinatorInit
<1>3. NmlTypes
  BY <1>2, SerialAssumption DEF NmlTypes, NoSerial
<1> QED
  BY <1>1, <1>2, <1>3 DEF NmlInductive, StageMeans, AfterWrite, AfterAccept, SentMeans,
                          CancelledStops, ExitedIsEmpty

LEMMA NmlNextPreserves == NmlInductive /\ [NmlNext]_allNmlVars => NmlInductive'
<1> SUFFICES ASSUME NmlInductive, [NmlNext]_allNmlVars PROVE NmlInductive'
  OBVIOUS
<1>1. InductiveInvariant /\ NmlOwn /\ TypeOK
  BY DEF NmlInductive, NmlOwn, InductiveInvariant
<1>2. [CoordinatorNext]_coordinatorVars
  BY <1>1, NmlStepIsCoordinatorStep DEF allNmlVars
<1>3. InductiveInvariant'
  BY <1>1, <1>2, NextPreserves
<1>4. NmlOwn'
  <2>1. CASE \E c \in Commands : NmlSubmit(c) \/ Cancel(c) \/ Expire(c)
    BY <1>1, <2>1, ClientStepKeeps
  <2>2. CASE \/ \E o \in Observers, c \in Commands, p \in Policies : NmlObserve(o, c, p)
             \/ \E o \in Observers : NmlCall(o)
             \/ NmlShutdown
    <3>1. /\ UNCHANGED <<queue, safetyQueue, ticket, worker, running, deferred,
                         stage, serial, nextSerial, cancelled>>
          /\ stopping' \in {stopping, TRUE}
      BY <2>2 DEF NmlObserve, Observe, NmlCall, Call, NmlShutdown, Shutdown, queueVars, nmlVars,
                  linuxcncVars
    <3>2. Waiting' = Waiting
      BY <3>1 DEF Waiting, Members
    <3>3. NmlTypes' /\ StageMeans' /\ CancelledStops' /\ ExitedIsEmpty'
      BY <1>1, <3>1 DEF NmlOwn, NmlTypes, StageMeans, CancelledStops, ExitedIsEmpty
    <3>4. SentMeans'
      BY <1>1, <3>1, <3>2 DEF NmlOwn, SentMeans
    <3> QED
      BY <3>3, <3>4 DEF NmlOwn
  <2>3. CASE ServiceShutdown
    BY <1>1, <2>3, ServiceShutdownKeeps
  <2>4. CASE WorkerStep
    BY <1>1, <2>4, WorkerStepKeeps
  <2>5. CASE PollerStep \/ LinuxCNCStep
    BY <1>1, <2>5, OtherStepKeeps
  <2>6. CASE UNCHANGED allNmlVars
    <3>1. UNCHANGED <<coordinatorVars, stage, serial, nextSerial, cancelled>>
      BY <2>6 DEF allNmlVars, nmlVars, linuxcncVars
    <3> QED
      BY <1>1, <3>1, QuietStep DEF NmlOwn, NmlTypes
  <2> QED
    BY <2>1, <2>2, <2>3, <2>4, <2>5, <2>6 DEF NmlNext
<1> QED
  BY <1>3, <1>4 DEF NmlInductive, NmlOwn

(* Every reachable state of the adapter satisfies the inductive invariant. *)
THEOREM NmlInvariant == NmlSpec => []NmlInductive
<1>1. NmlInit => NmlInductive
  BY NmlInitEstablishes
<1>2. NmlInductive /\ [NmlNext]_allNmlVars => NmlInductive'
  BY NmlNextPreserves
<1> QED
  BY <1>1, <1>2, PTL DEF NmlSpec

(* NmlAdapter::submit, whatever LinuxCNC, the deadlines and the channel do, *)
(* never writes a request whose stop token fired while it was queued.      *)
THEOREM NmlDropsCancelled == NmlSpec => []CancelledIsNeverSent
<1>1. NmlInductive => CancelledIsNeverSent
  BY DEF NmlInductive, CancelledStops, CancelledIsNeverSent
<1> QED
  BY <1>1, NmlInvariant, PTL

(* ~NmlAdapter joins a worker that has drained its queues: the only open   *)
(* tickets belong to commands LinuxCNC was sent.                           *)
THEOREM NmlExitLeavesOnlySent == NmlSpec => []OnlyAcceptedSurviveExit
<1>1. NmlInductive => OnlyAcceptedSurviveExit
  <2> SUFFICES ASSUME NmlInductive, worker = "exited", NEW c \in Commands,
                      ticket[c] \in {"Queued", "Accepted"}
               PROVE  ticket[c] = "Accepted" /\ serial[c] # NoSerial
    BY DEF OnlyAcceptedSurviveExit
  <2>1. running = NoCommand /\ c # running
    BY NoCommandAssumption DEF NmlInductive, InductiveInvariant, Bookkeeping
  <2>2. queue = <<>> /\ safetyQueue = <<>>
    BY DEF NmlInductive, ExitedIsEmpty
  <2>3. Waiting = {}
    BY <2>2 DEF Waiting, Members
  <2>4. c \in deferred
    BY <2>1, <2>3 DEF NmlInductive, InductiveInvariant, NoStrandedTicket
  <2> QED
    BY <2>4 DEF NmlInductive, SentMeans
<1> QED
  BY <1>1, NmlInvariant, PTL

(* The coordinator inside the adapter is the coordinator of its own        *)
(* module: its invariant and its contract hold of the composed system.     *)
THEOREM NmlImplementsCoordinator == NmlSpec => CoordinatorSpec
<1>1. NmlInit => CoordinatorInit
  BY DEF NmlInit
<1>2. NmlInductive /\ [NmlNext]_allNmlVars => [CoordinatorNext]_coordinatorVars
  BY NmlStepIsCoordinatorStep DEF NmlInductive, InductiveInvariant, allNmlVars
<1> QED
  BY <1>1, <1>2, NmlInvariant, PTL DEF NmlSpec, CoordinatorSpec

(* Commands that reach LinuxCNC through the adapter keep the contract of   *)
(* the coordinator: safety first, submission order, final verdicts.        *)
THEOREM NmlImplementsContract == NmlSpec => ImplementsContract
BY NmlImplementsCoordinator, CoordinatorImplementsContract, PTL

=============================================================================
