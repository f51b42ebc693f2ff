--------------------------- MODULE CommandContract ---------------------------
(***************************************************************************)
(* What the command coordinator promises its callers, without queues,      *)
(* threads or locks: the oldest command of the most urgent class starts    *)
(* next, a ticket only moves forward, and an observer is told exactly once *)
(* at the first state of the ticket that satisfies it.                     *)
(***************************************************************************)
EXTENDS Naturals

CONSTANTS Commands, SafetyCommands, Observers

VARIABLES
    state,     \* the public state of every ticket
    order,     \* the order of submission, 0 before it
    waiting,   \* the commands not started yet
    watch,     \* the ticket and policy every observer waits on
    told       \* the state every observer was told

contractVars == <<state, order, waiting, watch, told>>

Settled == {"Completed", "Failed"}
Satisfied(policy, s) ==
    s \in Settled \/ (policy = "Accepted" /\ s = "Accepted")
NotWatching == [on |-> "no command", policy |-> "Completed"]
NotTold == "Unsubmitted"

Init ==
    /\ state = [c \in Commands |-> "Unsubmitted"]
    /\ order = [c \in Commands |-> 0]
    /\ waiting = {}
    /\ watch = [o \in Observers |-> NotWatching]
    /\ told = [o \in Observers |-> NotTold]

Submit(c) ==
    /\ state[c] = "Unsubmitted"
    /\ state' = [state EXCEPT ![c] = "Queued"]
    /\ order' = [order EXCEPT ![c] = order'[c]]
    /\ order'[c] \in Nat
    /\ \A d \in Commands : order[d] < order'[c]
    /\ waiting' = waiting \cup {c}
    /\ UNCHANGED <<watch, told>>

(* A safety command precedes every normal one; within a class the older    *)
(* command precedes the newer.                                             *)
Precedes(c, d) ==
    \/ c \in SafetyCommands /\ d \notin SafetyCommands
    \/ ((c \in SafetyCommands) <=> (d \in SafetyCommands)) /\ order[c] < order[d]

Start(c) ==
    /\ c \in waiting
    /\ \A d \in waiting \ {c} : Precedes(c, d)
    /\ waiting' = waiting \ {c}
    /\ UNCHANGED <<state, order, watch, told>>

(* Only a started command's ticket advances, and never backwards.          *)
Advance(c, s) ==
    /\ c \notin waiting
    /\ \/ state[c] = "Queued" /\ s \in {"Accepted"} \cup Settled
       \/ state[c] = "Accepted" /\ s \in Settled
    /\ state' = [state EXCEPT ![c] = s]
    /\ told' = [o \in Observers |->
                  IF /\ watch[o].on = c
                     /\ told[o] = NotTold
                     /\ Satisfied(watch[o].policy, s)
                  THEN s ELSE told[o]]
    /\ UNCHANGED <<order, waiting, watch>>

Watch(o, c, policy) ==
    /\ watch[o] = NotWatching
    /\ state[c] # "Unsubmitted"
    /\ watch' = [watch EXCEPT ![o] = [on |-> c, policy |-> policy]]
    /\ told' = [told EXCEPT ![o] =
                  IF Satisfied(policy, state[c]) THEN state[c] ELSE NotTold]
    /\ UNCHANGED <<state, order, waiting>>

Next ==
    \/ \E c \in Commands : Submit(c) \/ Start(c)
    \/ \E c \in Commands, s \in {"Accepted"} \cup Settled : Advance(c, s)
    \/ \E o \in Observers, c \in Commands, p \in {"Accepted", "Completed"} :
         Watch(o, c, p)

Spec == Init /\ [][Next]_contractVars

=============================================================================
