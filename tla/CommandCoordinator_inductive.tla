--------------------- MODULE CommandCoordinator_inductive ---------------------
(***************************************************************************)
(* The inductive invariant behind the command coordinator's theorems.      *)
(***************************************************************************)
EXTENDS CommandCoordinator

(* What each ticket's state says about where its command is.               *)
Bookkeeping ==
    /\ \A c \in Commands :
         /\ sequence[c] < nextSequence
         /\ ticket[c] = "Unsubmitted" <=> sequence[c] = 0
    /\ \A c \in Waiting :
         ticket[c] = "Queued" /\ c \notin deferred /\ c # running
    /\ \A c \in deferred : ticket[c] # "Unsubmitted"
    /\ worker = "running" <=> running # NoCommand
    /\ running # NoCommand => ticket[running] # "Unsubmitted"

Increasing(q) ==
    \A i, j \in 1..Len(q) : i < j => sequence[q[i]] < sequence[q[j]]

QueuesIncreasing == Increasing(queue) /\ Increasing(safetyQueue)

ObserversSane ==
    \A o \in Observers :
        /\ observer[o].phase = "idle" => observer[o] = IdleObserver
        /\ observer[o].phase # "idle" =>
             observer[o].on \in Commands /\ ticket[observer[o].on] # "Unsubmitted"
        /\ observer[o].phase = "registered" => observer[o].seen = "Unsubmitted"
        /\ observer[o].phase \in {"due", "called"} =>
             observer[o].seen # "Unsubmitted"

(* Every reachable state of the coordinator, and enough to prove each step:*)
(* sequence numbers grow along both queues, a waiting command is untouched *)
(* by the worker, and an observer not yet released has seen nothing.       *)
InductiveInvariant ==
    /\ TypeOK
    /\ Bookkeeping
    /\ QueuesIncreasing
    /\ ObserversSane
    /\ NoLostNotification
    /\ ObserversAgree
    /\ NoStrandedTicket
    /\ FifoPerClass

=============================================================================
