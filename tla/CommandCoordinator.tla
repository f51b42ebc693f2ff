------------------------- MODULE CommandCoordinator -------------------------
(***************************************************************************)
(* The daemon's command coordinator (command_coordinator.hpp / .cc): two   *)
(* bounded queues drained by one worker thread, and one ticket per command *)
(* whose one-shot observers are notified when it reaches the state they    *)
(* wait for.  A command either finishes inside the worker, or defers its   *)
(* completion, in which case another thread (the status multiplexer)       *)
(* settles the ticket later through the callbacks it was handed.           *)
(*                                                                         *)
(* One step is one critical section.  transition() moves the observers it  *)
(* releases out of the ticket under the ticket's lock and calls them after *)
(* unlocking, so a released observer is "due" until its thread calls it.   *)
(***************************************************************************)
EXTENDS Naturals, Sequences

CONSTANTS
    Commands,         \* the commands that may be submitted, each at most once
    SafetyCommands,   \* those submitted with CommandPriority::Safety
    Observers,        \* the observers that may be registered on tickets
    Capacity,         \* capacity_ of the normal queue
    SafetyCapacity    \* safety_capacity_ of the safety queue

(* Both capacities are at least 1: the constructor replaces 0 by 1.        *)
ASSUME SafetyAssumption == SafetyCommands \subseteq Commands
ASSUME CapacityAssumption ==
    Capacity \in Nat \ {0} /\ SafetyCapacity \in Nat \ {0}

NoCommand == "no command"
ASSUME NoCommandAssumption == NoCommand \notin Commands

VARIABLES
    queue,         \* queue_: the normal commands waiting
    safetyQueue,   \* safety_queue_
    stopping,      \* stopping_
    nextSequence,  \* next_sequence_
    ticket,        \* CommandResult.state of every command's ticket
    sequence,      \* CommandResult.sequence, 0 before the submission
    worker,        \* what the worker thread is doing
    running,       \* the command it took, NoCommand between two
    deferred,      \* commands whose action called defer_completion
    observer       \* every observer's registration

queueVars == <<queue, safetyQueue, stopping, nextSequence, sequence>>
coordinatorVars ==
    <<queue, safetyQueue, stopping, nextSequence, ticket, sequence, worker,
      running, deferred, observer>>

Terminal == {"Completed", "Failed"}
CommandState == {"Queued", "Accepted"} \cup Terminal
TicketState == CommandState \cup {"Unsubmitted"}
Policies == {"Accepted", "Completed"}
(* The threads that call observers; the client thread calls its own when  *)
(* observe() finds the ticket ready.                                       *)
Threads == {"worker", "multiplexer", "client"}

(* An observer is registered once.  "due": released, its thread is about   *)
(* to call it with the state `seen'.                                       *)
ObserverState ==
    [phase: {"idle", "registered", "due", "called"},
     on: Commands \cup {NoCommand}, policy: Policies,
     seen: TicketState, by: Threads]
IdleObserver ==
    [phase |-> "idle", on |-> NoCommand, policy |-> "Completed",
     seen |-> "Unsubmitted", by |-> "client"]

CoordinatorInit ==
    /\ queue = <<>>
    /\ safetyQueue = <<>>
    /\ stopping = FALSE
    /\ nextSequence = 1
    /\ ticket = [c \in Commands |-> "Unsubmitted"]
    /\ sequence = [c \in Commands |-> 0]
    /\ worker = "waiting"
    /\ running = NoCommand
    /\ deferred = {}
    /\ observer = [o \in Observers |-> IdleObserver]

Members(q) == {q[i] : i \in 1..Len(q)}

-----------------------------------------------------------------------------
(* Does a ticket in state s satisfy a wait with this policy?               *)
Ready(policy, s) == s \in Terminal \/ (policy = "Accepted" /\ s = "Accepted")

(* A thread that released observers calls them before it does anything     *)
(* else.                                                                   *)
Busy(t) == \E o \in Observers : observer[o].phase = "due" /\ observer[o].by = t

(* transition(): a settled ticket never changes, and only a queued one can *)
(* become Accepted.                                                        *)
Absorbed(c, s) ==
    ticket[c] \in Terminal \/ (s = "Accepted" /\ ticket[c] # "Queued")

Released(c, s) ==
    {o \in Observers : /\ observer[o].phase = "registered"
                       /\ observer[o].on = c
                       /\ Ready(observer[o].policy, s)}

Transition(t, c, s) ==
    IF Absorbed(c, s)
    THEN UNCHANGED <<ticket, observer>>
    ELSE /\ ticket' = [ticket EXCEPT ![c] = s]
         /\ observer' =
              [o \in Observers |->
                 IF o \in Released(c, s)
                 THEN [observer[o] EXCEPT !.phase = "due", !.seen = s, !.by = t]
                 ELSE observer[o]]

(* The queue a command enters, bounded by that queue's capacity.           *)
Enqueue(c) ==
    IF c \in SafetyCommands
    THEN /\ Len(safetyQueue) < SafetyCapacity
         /\ safetyQueue' = Append(safetyQueue, c)
         /\ UNCHANGED queue
    ELSE /\ Len(queue) < Capacity
         /\ queue' = Append(queue, c)
         /\ UNCHANGED safetyQueue

(* submit() and submit_with_context().  A full queue or a stopping         *)
(* coordinator refuses the command and changes nothing.                    *)
Submit(c) ==
    /\ ticket[c] = "Unsubmitted"
    /\ ~stopping
    /\ Enqueue(c)
    /\ sequence' = [sequence EXCEPT ![c] = nextSequence]
    /\ nextSequence' = nextSequence + 1
    /\ ticket' = [ticket EXCEPT ![c] = "Queued"]
    /\ UNCHANGED <<stopping, worker, running, deferred, observer>>

(* CommandTicket::observe().                                               *)
ObserveUnchecked(o, c, policy) ==  \* mutant: registers on a ready ticket too
    /\ observer[o].phase = "idle"
    /\ ticket[c] # "Unsubmitted"
    /\ observer' = [observer EXCEPT ![o] =
                      [phase |-> "registered", on |-> c, policy |-> policy,
                       seen |-> "Unsubmitted", by |-> "client"]]
    /\ UNCHANGED <<queueVars, ticket, worker, running, deferred>>
Observe(o, c, policy) ==
    /\ observer[o].phase = "idle"
    /\ ticket[c] # "Unsubmitted"
    /\ observer' =
         [observer EXCEPT ![o] =
            IF Ready(policy, ticket[c])
            THEN [phase |-> "due", on |-> c, policy |-> policy,
                  seen |-> ticket[c], by |-> "client"]
            ELSE [phase |-> "registered", on |-> c, policy |-> policy,
                  seen |-> "Unsubmitted", by |-> "client"]]
    /\ UNCHANGED <<queueVars, ticket, worker, running, deferred>>

CallUnlessDeferred(o) ==  \* mutant: the multiplexer drops what it releases
    /\ observer[o].phase = "due"
    /\ observer[o].by # "multiplexer"
    /\ observer' = [observer EXCEPT ![o].phase = "called"]
    /\ UNCHANGED <<queueVars, ticket, worker, running, deferred>>
Call(o) ==
    /\ observer[o].phase = "due"
    /\ observer' = [observer EXCEPT ![o].phase = "called"]
    /\ UNCHANGED <<queueVars, ticket, worker, running, deferred>>

(* The part of run() under the queue's lock: safety commands first, and    *)
(* an exit only once both queues are empty.                                *)
DequeueNormalFirst ==  \* mutant: the normal queue is served first
    IF queue # <<>>
    THEN /\ running' = Head(queue)
         /\ queue' = Tail(queue)
         /\ UNCHANGED safetyQueue
    ELSE /\ safetyQueue # <<>>
         /\ running' = Head(safetyQueue)
         /\ safetyQueue' = Tail(safetyQueue)
         /\ UNCHANGED queue
Dequeue ==
    IF safetyQueue # <<>>
    THEN /\ running' = Head(safetyQueue)
         /\ safetyQueue' = Tail(safetyQueue)
         /\ UNCHANGED queue
    ELSE /\ queue # <<>>
         /\ running' = Head(queue)
         /\ queue' = Tail(queue)
         /\ UNCHANGED safetyQueue

Take ==
    /\ worker = "waiting"
    /\ ~Busy("worker")
    /\ Dequeue
    /\ worker' = "running"
    /\ UNCHANGED <<stopping, nextSequence, ticket, sequence, deferred, observer>>

(* The condition under which run() leaves its loop.                        *)
DoneWhenStopping == stopping  \* mutant: what is still queued is dropped
DoneNever == FALSE  \* mutant: shutdown() does not wake the worker
Done == stopping /\ queue = <<>> /\ safetyQueue = <<>>

Exit ==
    /\ worker = "waiting"
    /\ ~Busy("worker")
    /\ Done
    /\ worker' = "exited"
    /\ UNCHANGED <<queueVars, ticket, running, deferred, observer>>

(* What the command's action may do with its context: mark_accepted,       *)
(* defer_completion, return, or throw.                                     *)
MarkAccepted ==
    /\ worker = "running"
    /\ ~Busy("worker")
    /\ Transition("worker", running, "Accepted")
    /\ UNCHANGED <<queueVars, worker, running, deferred>>

DeferCompletion ==
    /\ worker = "running"
    /\ ~Busy("worker")
    /\ deferred' = deferred \cup {running}
    /\ UNCHANGED <<queueVars, ticket, worker, running, observer>>

Return ==
    /\ worker = "running"
    /\ ~Busy("worker")
    /\ IF running \in deferred
       THEN UNCHANGED <<ticket, observer>>
       ELSE Transition("worker", running, "Completed")
    /\ worker' = "waiting"
    /\ running' = NoCommand
    /\ UNCHANGED <<queueVars, deferred>>

Throw ==
    /\ worker = "running"
    /\ ~Busy("worker")
    /\ Transition("worker", running, "Failed")
    /\ worker' = "waiting"
    /\ running' = NoCommand
    /\ UNCHANGED <<queueVars, deferred>>

(* mark_completed / mark_failed on a deferred ticket, from whichever       *)
(* thread holds the callbacks; nothing stops it from doing so twice.       *)
Settle(t, c, s) ==
    /\ t # "client"
    /\ c \in deferred
    /\ t = "worker" => worker = "running" /\ running = c
    /\ ~Busy(t)
    /\ Transition(t, c, s)
    /\ UNCHANGED <<queueVars, worker, running, deferred>>

Shutdown ==
    /\ ~stopping
    /\ stopping' = TRUE
    /\ UNCHANGED <<queue, safetyQueue, nextSequence, sequence, ticket, worker,
                   running, deferred, observer>>

CoordinatorNext ==
    \/ \E c \in Commands : Submit(c)
    \/ \E o \in Observers, c \in Commands, p \in Policies : Observe(o, c, p)
    \/ \E o \in Observers : Call(o)
    \/ Take
    \/ Exit
    \/ MarkAccepted
    \/ DeferCompletion
    \/ Return
    \/ Throw
    \/ \E t \in Threads, c \in Commands, s \in Terminal : Settle(t, c, s)
    \/ Shutdown

CoordinatorSpec == CoordinatorInit /\ [][CoordinatorNext]_coordinatorVars

(* The worker thread and the threads that hold callbacks are scheduled,    *)
(* an action ends, and a deferred ticket is settled by the thread that     *)
(* took it over (NmlCommands shows under which conditions it is).          *)
CoordinatorFairness ==
    /\ WF_coordinatorVars(Take)
    /\ WF_coordinatorVars(Exit)
    /\ WF_coordinatorVars(Return \/ Throw)
    /\ \A o \in Observers : WF_coordinatorVars(Call(o))
    /\ \A c \in Commands :
         WF_coordinatorVars(\E s \in Terminal : Settle("multiplexer", c, s))

FairCoordinatorSpec == CoordinatorSpec /\ CoordinatorFairness

-----------------------------------------------------------------------------
Waiting == Members(queue) \cup Members(safetyQueue)
SameClass(c, d) == (c \in SafetyCommands) <=> (d \in SafetyCommands)

TypeOK ==
    /\ queue \in Seq(Commands \ SafetyCommands) /\ Len(queue) <= Capacity
    /\ safetyQueue \in Seq(SafetyCommands) /\ Len(safetyQueue) <= SafetyCapacity
    /\ stopping \in BOOLEAN
    /\ nextSequence \in Nat \ {0}
    /\ ticket \in [Commands -> TicketState]
    /\ sequence \in [Commands -> Nat]
    /\ worker \in {"waiting", "running", "exited"}
    /\ running \in Commands \cup {NoCommand}
    /\ deferred \in SUBSET Commands
    /\ observer \in [Observers -> ObserverState]

(* observe() and transition() lock the ticket separately; whichever runs   *)
(* first, no observer is left registered on a ticket that already          *)
(* satisfies it: the client it answers would wait for ever.                *)
NoLostNotification ==
    \A o \in Observers :
        observer[o].phase = "registered" =>
            ~Ready(observer[o].policy, ticket[observer[o].on])

(* The worker, the multiplexer and a client reading a settled ticket never *)
(* report different verdicts: whoever was told Completed or Failed was     *)
(* told what the ticket still says.                                        *)
ObserversAgree ==
    \A o \in Observers :
        observer[o].seen \in Terminal => ticket[observer[o].on] = observer[o].seen

(* An unsettled ticket always has someone left to settle it: its command   *)
(* is in a queue, in the worker's hands, or its callbacks were handed over *)
(* by defer_completion.  When the worker exits after shutdown() only       *)
(* deferred tickets can be open.                                           *)
NoStrandedTicket ==
    \A c \in Commands :
        ticket[c] \in {"Queued", "Accepted"} =>
            c \in Waiting \/ c = running \/ c \in deferred

(* Commands of one class leave their queue in the order in which they were *)
(* submitted: whatever is no longer waiting is older than what is.         *)
FifoPerClass ==
    \A c \in Waiting, d \in Commands :
        (SameClass(c, d) /\ sequence[d] # 0 /\ d \notin Waiting)
            => sequence[d] < sequence[c]

(* A settled ticket keeps its verdict: a late mark_accepted, a second      *)
(* settlement or the worker's own completion cannot overwrite it.          *)
VerdictIsFinal ==
    [][\A c \in Commands : ticket[c] \in Terminal => ticket'[c] = ticket[c]]_coordinatorVars

(* The contract of the coordinator, on the coordinator's own state.        *)
Contract ==
    INSTANCE CommandContract WITH
        state <- ticket,
        order <- sequence,
        waiting <- Waiting,
        watch <- [o \in Observers |-> [on |-> observer[o].on,
                                       policy |-> observer[o].policy]],
        told <- [o \in Observers |-> observer[o].seen]

(* Queues, worker, locks and late callbacks together behave as the         *)
(* contract: safety commands first, submission order within a class, and   *)
(* one notification per observer, at the first state that satisfies it.    *)
ImplementsContract == Contract!Spec

(* Every registered observer is called: its ticket is settled, whether the *)
(* worker settles it or defers it, and shutdown() drops nothing queued.    *)
EveryObserverIsCalled ==
    \A o \in Observers :
        observer[o].phase = "registered" ~> observer[o].phase = "called"

(* shutdown()'s join returns: the worker drains both queues and exits.     *)
ShutdownFinishes == stopping ~> worker = "exited"

=============================================================================
