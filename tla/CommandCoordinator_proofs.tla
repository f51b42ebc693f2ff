---------------------- MODULE CommandCoordinator_proofs ----------------------
(***************************************************************************)
(* Proofs that the command coordinator keeps its invariants and implements *)
(* its contract, for any commands, observers and capacities.               *)
(***************************************************************************)
EXTENDS CommandCoordinator_inductive, TLAPS

(* A queue after push_back holds what it held and the new command.         *)
LEMMA MembersAppend ==
    ASSUME NEW S, NEW q \in Seq(S), NEW c \in S
    PROVE  /\ Append(q, c) \in Seq(S)
           /\ Len(Append(q, c)) = Len(q) + 1
           /\ \A i \in 1..Len(q) : Append(q, c)[i] = q[i]
           /\ Append(q, c)[Len(q) + 1] = c
           /\ Members(Append(q, c)) = Members(q) \cup {c}
<1>1. /\ Append(q, c) \in Seq(S)
      /\ Len(Append(q, c)) = Len(q) + 1
      /\ Len(q) \in Nat
      /\ \A i \in 1..Len(q) : Append(q, c)[i] = q[i]
      /\ Append(q, c)[Len(q) + 1] = c
  OBVIOUS
<1>2. 1..(Len(q) + 1) = (1..Len(q)) \cup {Len(q) + 1}
  BY <1>1
<1> QED
  BY <1>1, <1>2 DEF Members

(* pop_front() removes the front element and shifts the others.            *)
LEMMA MembersTail ==
    ASSUME NEW S, NEW q \in Seq(S), q # <<>>
    PROVE  /\ Head(q) \in S
           /\ Tail(q) \in Seq(S)
           /\ Len(q) \in Nat
           /\ Len(q) >= 1
           /\ Head(q) = q[1]
           /\ Len(Tail(q)) = Len(q) - 1
           /\ \A i \in 1..Len(Tail(q)) : Tail(q)[i] = q[i + 1]
           /\ Members(q) = Members(Tail(q)) \cup {Head(q)}
<1>1. /\ Head(q) \in S
      /\ Tail(q) \in Seq(S)
      /\ Len(q) \in Nat
      /\ Len(q) >= 1
      /\ Head(q) = q[1]
      /\ Len(Tail(q)) = Len(q) - 1
      /\ \A i \in 1..Len(Tail(q)) : Tail(q)[i] = q[i + 1]
  OBVIOUS
<1>2. Members(Tail(q)) \cup {Head(q)} \subseteq Members(q)
  BY <1>1 DEF Members
<1>3. ASSUME NEW i \in 1..Len(q)
      PROVE  q[i] \in Members(Tail(q)) \cup {Head(q)}
  <2>1. CASE i = 1
    BY <1>1, <2>1
  <2>2. CASE i # 1
    <3>1. i - 1 \in 1..Len(Tail(q)) /\ Tail(q)[i - 1] = q[i]
      BY <1>1, <2>2
    <3> QED
      BY <3>1 DEF Members
  <2> QED
    BY <2>1, <2>2
<1> QED
  BY <1>1, <1>2, <1>3 DEF Members

(* The front of a queue in submission order is older than the rest.        *)
LEMMA HeadIsOldest ==
    ASSUME TypeOK, NEW S, S \subseteq Commands, NEW q \in Seq(S), q # <<>>, Increasing(q)
    PROVE  /\ \A d \in Members(Tail(q)) : sequence[Head(q)] < sequence[d]
           /\ Head(q) \notin Members(Tail(q))
           /\ Increasing(Tail(q))
<1>1. /\ Head(q) \in S
      /\ Tail(q) \in Seq(S)
      /\ Len(q) \in Nat
      /\ Len(q) >= 1
      /\ Head(q) = q[1]
      /\ Len(Tail(q)) = Len(q) - 1
      /\ \A i \in 1..Len(Tail(q)) : Tail(q)[i] = q[i + 1]
  BY MembersTail
<1>2. ASSUME NEW d \in Members(Tail(q))
      PROVE  sequence[Head(q)] < sequence[d]
  <2>1. PICK i \in 1..Len(Tail(q)) : d = Tail(q)[i]
    BY DEF Members
  <2>2. 1 \in 1..Len(q) /\ i + 1 \in 1..Len(q) /\ 1 < i + 1 /\ d = q[i + 1]
    BY <1>1, <2>1
  <2> QED
    BY <1>1, <2>2 DEF Increasing
<1>3. Head(q) \notin Members(Tail(q))
  <2>1. sequence[Head(q)] \in Nat
    BY <1>1 DEF TypeOK
  <2> QED
    BY <1>2, <2>1
<1>4. Increasing(Tail(q))
  <2> SUFFICES ASSUME NEW i \in 1..Len(Tail(q)), NEW j \in 1..Len(Tail(q)), i < j
               PROVE  sequence[Tail(q)[i]] < sequence[Tail(q)[j]]
    BY DEF Increasing
  <2>1. i + 1 \in 1..Len(q) /\ j + 1 \in 1..Len(q) /\ i + 1 < j + 1
    BY <1>1
  <2> QED
    BY <1>1, <2>1 DEF Increasing
<1> QED
  BY <1>2, <1>3, <1>4

(* The queues hold commands of their own class.                            *)
LEMMA WaitingAreCommands ==
    ASSUME TypeOK
    PROVE  /\ Members(queue) \subseteq Commands \ SafetyCommands
           /\ Members(safetyQueue) \subseteq SafetyCommands
           /\ Waiting \subseteq Commands
<1>1. ASSUME NEW S, NEW q \in Seq(S) PROVE Members(q) \subseteq S
  BY <1>1 DEF Members
<1>2. queue \in Seq(Commands \ SafetyCommands) /\ safetyQueue \in Seq(SafetyCommands)
  BY DEF TypeOK
<1> QED
  BY <1>1, <1>2, SafetyAssumption DEF Waiting

(* transition() on a started command's ticket: it moves forward or not at  *)
(* all, and it releases exactly the observers its new state satisfies.     *)
LEMMA TransitionKeepsObservers ==
    ASSUME TypeOK, ObserversSane, NoLostNotification, ObserversAgree,
           NEW t \in Threads, NEW c \in Commands,
           NEW s \in {"Accepted"} \cup Terminal,
           ticket[c] # "Unsubmitted",
           Transition(t, c, s)
    PROVE  /\ ticket' \in [Commands -> TicketState]
           /\ observer' \in [Observers -> ObserverState]
           /\ \A d \in Commands : d # c => ticket'[d] = ticket[d]
           /\ ticket'[c] # "Unsubmitted"
           /\ ticket[c] \in Terminal => ticket'[c] = ticket[c]
           /\ s \in Terminal => ticket'[c] \in Terminal
           /\ ObserversSane'
           /\ NoLostNotification'
           /\ ObserversAgree'
<1> USE DEF Terminal, TicketState, CommandState
<1>1. CASE Absorbed(c, s)
  <2>1. ticket' = ticket /\ observer' = observer
    BY <1>1 DEF Transition
  <2>2. s \in Terminal => ticket[c] \in Terminal
    BY <1>1 DEF Absorbed
  <2> QED
    BY <2>1, <2>2 DEF TypeOK, ObserversSane, NoLostNotification, ObserversAgree
<1>2. CASE ~Absorbed(c, s)
  <2>1. /\ ticket' = [ticket EXCEPT ![c] = s]
        /\ observer' =
             [o \in Observers |->
                IF o \in Released(c, s)
                THEN [observer[o] EXCEPT !.phase = "due", !.seen = s, !.by = t]
                ELSE observer[o]]
    BY <1>2 DEF Transition
  <2>2. ticket[c] \notin Terminal
    BY <1>2 DEF Absorbed
  <2>3. ticket' \in [Commands -> TicketState] /\ ticket'[c] = s
    BY <2>1 DEF TypeOK
  <2>4. \A d \in Commands : d # c => ticket'[d] = ticket[d]
    BY <2>1 DEF TypeOK
  <2>5. ASSUME NEW o \in Observers, o \in Released(c, s)
        PROVE  /\ observer'[o] \in ObserverState
               /\ observer'[o].phase = "due"
               /\ observer'[o].seen = s
               /\ observer'[o].on = c
    <3>1. observer[o] \in ObserverState /\ observer[o].on = c
      BY <2>5 DEF TypeOK, Released
    <3>2. observer'[o] = [observer[o] EXCEPT !.phase = "due", !.seen = s, !.by = t]
      BY <2>1, <2>5
    <3> QED
      BY <3>1, <3>2 DEF ObserverState
  <2>6. ASSUME NEW o \in Observers, o \notin Released(c, s)
        PROVE  observer'[o] = observer[o] /\ observer'[o] \in ObserverState
    BY <2>1, <2>6 DEF TypeOK
  <2>7. observer' \in [Observers -> ObserverState]
    BY <2>1, <2>5, <2>6
  <2>8. ObserversSane'
    <3> SUFFICES ASSUME NEW o \in Observers
                 PROVE  /\ observer'[o].phase = "idle" => observer'[o] = IdleObserver
                        /\ observer'[o].phase # "idle" =>
                             observer'[o].on \in Commands /\ ticket'[observer'[o].on] # "Unsubmitted"
                        /\ observer'[o].phase = "registered" => observer'[o].seen = "Unsubmitted"
                        /\ observer'[o].phase \in {"due", "called"} =>
                             observer'[o].seen # "Unsubmitted"
      BY DEF ObserversSane, IdleObserver
    <3>1. CASE o \in Released(c, s)
      BY <2>3, <2>5, <3>1
    <3>2. CASE o \notin Released(c, s)
      BY <2>3, <2>4, <2>6, <3>2 DEF ObserversSane
    <3> QED
      BY <3>1, <3>2
  <2>9. NoLostNotification'
    <3> SUFFICES ASSUME NEW o \in Observers, observer'[o].phase = "registered"
                 PROVE  ~Ready(observer'[o].policy, ticket'[observer'[o].on])
      BY DEF NoLostNotification, Ready
    <3>1. o \notin Released(c, s) /\ observer'[o] = observer[o]
      BY <2>5, <2>6
    <3>2. CASE observer[o].on = c
      BY <2>3, <3>1, <3>2 DEF Released
    <3>3. CASE observer[o].on # c
      <4>1. observer[o].on \in Commands
        BY <3>1 DEF ObserversSane
      <4> QED
        BY <2>4, <3>1, <3>3, <4>1 DEF NoLostNotification
    <3> QED
      BY <3>2, <3>3
  <2>10. ObserversAgree'
    <3> SUFFICES ASSUME NEW o \in Observers, observer'[o].seen \in Terminal
                 PROVE  ticket'[observer'[o].on] = observer'[o].seen
      BY DEF ObserversAgree
    <3>1. CASE o \in Released(c, s)
      BY <2>3, <2>5, <3>1
    <3>2. CASE o \notin Released(c, s)
      <4>1. observer'[o] = observer[o] /\ observer[o].phase # "idle"
        BY <2>6, <3>2 DEF ObserversSane, IdleObserver
      <4>2. observer[o].on \in Commands /\ ticket[observer[o].on] = observer[o].seen
        BY <4>1 DEF ObserversSane, ObserversAgree
      <4>3. observer[o].on # c
        BY <2>2, <4>1, <4>2
      <4> QED
        BY <2>4, <4>1, <4>2, <4>3
    <3> QED
      BY <3>1, <3>2
  <2> QED
    BY <2>2, <2>3, <2>4, <2>7, <2>8, <2>9, <2>10
<1> QED
  BY <1>1, <1>2

-----------------------------------------------------------------------------
(* The constructor's state satisfies the inductive invariant.              *)
LEMMA InitEstablishes == CoordinatorInit => InductiveInvariant
<1> SUFFICES ASSUME CoordinatorInit PROVE InductiveInvariant
  OBVIOUS
<1> USE DEF CoordinatorInit, Terminal, TicketState, CommandState
<1>1. Waiting = {}
  BY DEF Waiting, Members
<1>2. IdleObserver \in ObserverState
  BY DEF IdleObserver, ObserverState, Policies, Threads
<1>3. TypeOK
  <2>1. /\ queue \in Seq(Commands \ SafetyCommands) /\ Len(queue) = 0
        /\ safetyQueue \in Seq(SafetyCommands) /\ Len(safetyQueue) = 0
    OBVIOUS
  <2>2. observer \in [Observers -> ObserverState]
    BY <1>2
  <2>3. /\ ticket \in [Commands -> TicketState]
        /\ sequence \in [Commands -> Nat]
        /\ deferred \in SUBSET Commands
    OBVIOUS
  <2>4. Len(queue) <= Capacity /\ Len(safetyQueue) <= SafetyCapacity
    BY <2>1, CapacityAssumption
  <2>5. stopping \in BOOLEAN
    BY Zenon
  <2>6. /\ nextSequence \in Nat \ {0}
        /\ worker \in {"waiting", "running", "exited"}
        /\ running \in Commands \cup {NoCommand}
    OBVIOUS
  <2> QED
    BY <2>1, <2>2, <2>3, <2>4, <2>5, <2>6, Zenon DEF TypeOK
<1>4. Bookkeeping
  BY <1>1, <1>3 DEF Bookkeeping, TypeOK
<1>5. QueuesIncreasing
  BY DEF QueuesIncreasing, Increasing
<1>6. ObserversSane /\ NoLostNotification /\ ObserversAgree
  BY DEF ObserversSane, NoLostNotification, ObserversAgree, IdleObserver
<1>7. NoStrandedTicket /\ FifoPerClass
  BY <1>1 DEF NoStrandedTicket, FifoPerClass
<1> QED
  BY <1>3, <1>4, <1>5, <1>6, <1>7 DEF InductiveInvariant

(* A step that leaves queues, sequence numbers and worker alone and only   *)
(* runs transition() on a started command keeps the whole invariant.       *)
LEMMA TransitionPreserves ==
    ASSUME InductiveInvariant,
           NEW t \in Threads, NEW c \in Commands,
           NEW s \in {"Accepted"} \cup Terminal,
           ticket[c] # "Unsubmitted", c \notin Waiting,
           c = running \/ c \in deferred,
           Transition(t, c, s),
           UNCHANGED <<queueVars, worker, running, deferred>>
    PROVE  InductiveInvariant'
<1> USE DEF InductiveInvariant, queueVars
<1>1. /\ ticket' \in [Commands -> TicketState]
      /\ observer' \in [Observers -> ObserverState]
      /\ \A d \in Commands : d # c => ticket'[d] = ticket[d]
      /\ ticket'[c] # "Unsubmitted"
      /\ ObserversSane' /\ NoLostNotification' /\ ObserversAgree'
  BY TransitionKeepsObservers
<1>2. Waiting' = Waiting
  BY DEF Waiting
<1>3. TypeOK'
  BY <1>1 DEF TypeOK
<1>4. Bookkeeping'
  <2>1. \A d \in Commands : ticket'[d] = "Unsubmitted" <=> ticket[d] = "Unsubmitted"
    BY <1>1
  <2>2. \A d \in Waiting : d \in Commands /\ ticket'[d] = ticket[d]
    BY <1>1, WaitingAreCommands
  <2> QED
    BY <1>2, <2>1, <2>2, NoCommandAssumption DEF Bookkeeping, TypeOK
<1>5. QueuesIncreasing'
  BY DEF QueuesIncreasing, Increasing
<1>6. NoStrandedTicket'
  BY <1>1, <1>2 DEF NoStrandedTicket
<1>7. FifoPerClass'
  BY <1>2 DEF FifoPerClass
<1> QED
  BY <1>1, <1>3, <1>4, <1>5, <1>6, <1>7

(* Submitting appends a command newer than all others to its queue.        *)
LEMMA SubmitPreserves ==
    ASSUME InductiveInvariant, NEW c \in Commands, Submit(c)
    PROVE  InductiveInvariant'
<1> USE DEF InductiveInvariant, Terminal, TicketState, CommandState
<1>1. /\ ticket[c] = "Unsubmitted" /\ ticket' = [ticket EXCEPT ![c] = "Queued"]
      /\ sequence' = [sequence EXCEPT ![c] = nextSequence]
      /\ nextSequence' = nextSequence + 1
      /\ UNCHANGED <<stopping, worker, running, deferred, observer>>
  BY DEF Submit, Enqueue
<1>2. c \notin Waiting /\ c # running /\ c \notin deferred
  BY <1>1, NoCommandAssumption DEF Bookkeeping
<1>3. /\ queue' \in Seq(Commands \ SafetyCommands) /\ Len(queue') <= Capacity
      /\ safetyQueue' \in Seq(SafetyCommands) /\ Len(safetyQueue') <= SafetyCapacity
      /\ Waiting' = Waiting \cup {c}
  <2>0. /\ queue \in Seq(Commands \ SafetyCommands) /\ Len(queue) <= Capacity
        /\ safetyQueue \in Seq(SafetyCommands) /\ Len(safetyQueue) <= SafetyCapacity
        /\ Len(queue) \in Nat /\ Len(safetyQueue) \in Nat
    BY DEF TypeOK
  <2>1. CASE c \in SafetyCommands
    <3>1. /\ safetyQueue' = Append(safetyQueue, c) /\ queue' = queue
          /\ Len(safetyQueue) < SafetyCapacity
      BY <2>1 DEF Submit, Enqueue
    <3>2. /\ safetyQueue' \in Seq(SafetyCommands)
          /\ Len(safetyQueue') = Len(safetyQueue) + 1
          /\ Members(safetyQueue') = Members(safetyQueue) \cup {c}
      BY <2>0, <2>1, <3>1, MembersAppend
    <3> QED
      BY <2>0, <3>1, <3>2, CapacityAssumption DEF Waiting
  <2>2. CASE c \notin SafetyCommands
    <3>1. /\ queue' = Append(queue, c) /\ safetyQueue' = safetyQueue
          /\ Len(queue) < Capacity
      BY <2>2 DEF Submit, Enqueue
    <3>2. /\ queue' \in Seq(Commands \ SafetyCommands)
          /\ Len(queue') = Len(queue) + 1
          /\ Members(queue') = Members(queue) \cup {c}
      BY <2>0, <2>2, <3>1, MembersAppend
    <3> QED
      BY <2>0, <3>1, <3>2, CapacityAssumption DEF Waiting
  <2> QED
    BY <2>1, <2>2
<1>4. TypeOK'
  BY <1>1, <1>3 DEF TypeOK
<1>5. /\ sequence'[c] = nextSequence
      /\ \A d \in Commands : d # c => sequence'[d] = sequence[d]
      /\ ticket'[c] = "Queued"
      /\ \A d \in Commands : d # c => ticket'[d] = ticket[d]
      /\ nextSequence \in Nat \ {0} /\ nextSequence' = nextSequence + 1
  BY <1>1 DEF TypeOK
<1>6. \A d \in Waiting : d \in Commands /\ d # c
  BY <1>2, WaitingAreCommands
<1>7. Bookkeeping'
  <2>1. \A d \in Commands :
          sequence'[d] < nextSequence' /\ (ticket'[d] = "Unsubmitted" <=> sequence'[d] = 0)
    BY <1>5 DEF Bookkeeping, TypeOK
  <2>2. \A d \in Waiting' : ticket'[d] = "Queued" /\ d \notin deferred' /\ d # running'
    BY <1>1, <1>2, <1>3, <1>5, <1>6 DEF Bookkeeping
  <2>3. \A d \in deferred' : ticket'[d] # "Unsubmitted"
    BY <1>1, <1>5 DEF Bookkeeping, TypeOK
  <2>4. /\ worker' = "running" <=> running' # NoCommand
        /\ running' # NoCommand => ticket'[running'] # "Unsubmitted"
    BY <1>1, <1>5 DEF Bookkeeping, TypeOK
  <2> QED
    BY <2>1, <2>2, <2>3, <2>4 DEF Bookkeeping
<1>8. QueuesIncreasing'
  <2>1. ASSUME NEW S, S \subseteq Commands, NEW q \in Seq(S), Increasing(q),
               Members(q) \subseteq Waiting
        PROVE  /\ Increasing(q)'
               /\ c \in S => Increasing(Append(q, c))'
    <3>1. /\ Len(q) \in Nat
          /\ \A i \in 1..Len(q) : q[i] \in Members(q) /\ q[i] \in Waiting
      BY <2>1 DEF Members
    <3>2. \A i \in 1..Len(q) : q[i] \in Commands /\ sequence'[q[i]] = sequence[q[i]]
      BY <1>5, <1>6, <3>1
    <3>3. Increasing(q)'
      BY <2>1, <3>2 DEF Increasing
    <3>4. ASSUME c \in S PROVE Increasing(Append(q, c))'
      <4>1. /\ Len(Append(q, c)) = Len(q) + 1
            /\ \A i \in 1..Len(q) : Append(q, c)[i] = q[i]
            /\ Append(q, c)[Len(q) + 1] = c
        BY <3>4, MembersAppend
      <4> SUFFICES ASSUME NEW i \in 1..(Len(q) + 1), NEW j \in 1..(Len(q) + 1), i < j
                   PROVE  sequence'[Append(q, c)[i]] < sequence'[Append(q, c)[j]]
        BY <4>1 DEF Increasing
      <4>2. i \in 1..Len(q)
        BY <3>1
      <4>3. CASE j \in 1..Len(q)
        BY <2>1, <3>2, <4>1, <4>2, <4>3 DEF Increasing
      <4>4. CASE j = Len(q) + 1
        <5>1. sequence[q[i]] < nextSequence
          BY <3>2, <4>2 DEF Bookkeeping
        <5> QED
          BY <1>5, <3>2, <4>1, <4>2, <4>4, <5>1
      <4> QED
        BY <3>1, <4>3, <4>4
    <3> QED
      BY <3>3, <3>4
  <2>2. Members(queue) \subseteq Waiting /\ Members(safetyQueue) \subseteq Waiting
    BY DEF Waiting
  <2>3. Commands \ SafetyCommands \subseteq Commands /\ SafetyCommands \subseteq Commands
    BY SafetyAssumption
  <2>4. /\ Increasing(queue) /\ queue \in Seq(Commands \ SafetyCommands)
        /\ Increasing(safetyQueue) /\ safetyQueue \in Seq(SafetyCommands)
    BY DEF QueuesIncreasing, TypeOK
  <2>5. CASE c \in SafetyCommands
    <3>1. safetyQueue' = Append(safetyQueue, c) /\ queue' = queue
      BY <2>5 DEF Submit, Enqueue
    <3> QED
      BY <2>1, <2>2, <2>3, <2>4, <2>5, <3>1 DEF QueuesIncreasing, Increasing
  <2>6. CASE c \notin SafetyCommands
    <3>1. queue' = Append(queue, c) /\ safetyQueue' = safetyQueue
      BY <2>6 DEF Submit, Enqueue
    <3> QED
      BY <2>1, <2>2, <2>3, <2>4, <2>6, <3>1 DEF QueuesIncreasing, Increasing
  <2> QED
    BY <2>5, <2>6
<1>9. ObserversSane' /\ NoLostNotification' /\ ObserversAgree'
  <2>1. \A o \in Observers : observer[o].phase # "idle" => observer[o].on # c
    BY <1>1 DEF ObserversSane
  <2>2. \A o \in Observers : observer[o].seen \in Terminal => observer[o].phase # "idle"
    BY DEF ObserversSane, IdleObserver
  <2>3. ObserversSane'
    BY <1>1, <1>5, <2>1 DEF ObserversSane, IdleObserver
  <2>4. NoLostNotification'
    BY <1>1, <1>5, <2>1 DEF NoLostNotification, ObserversSane, Ready
  <2>5. ObserversAgree'
    BY <1>1, <1>5, <2>1, <2>2 DEF ObserversAgree, ObserversSane
  <2> QED
    BY <2>3, <2>4, <2>5
<1>10. NoStrandedTicket'
  BY <1>1, <1>3, <1>5 DEF NoStrandedTicket
<1>11. FifoPerClass'
  <2> SUFFICES ASSUME NEW e \in Waiting', NEW d \in Commands,
                      SameClass(e, d), sequence'[d] # 0, d \notin Waiting'
               PROVE  sequence'[d] < sequence'[e]
    BY DEF FifoPerClass, SameClass
  <2>1. d # c /\ d \notin Waiting /\ sequence'[d] = sequence[d]
    BY <1>3, <1>5
  <2>2. CASE e = c
    BY <1>5, <2>1, <2>2 DEF Bookkeeping
  <2>3. CASE e # c
    BY <1>3, <1>5, <1>6, <2>1, <2>3 DEF FifoPerClass
  <2> QED
    BY <2>2, <2>3
<1> QED
  BY <1>4, <1>7, <1>8, <1>9, <1>10, <1>11

(* The worker takes the oldest waiting command of the more urgent class.   *)
LEMMA TakeTakesTheFirst ==
    ASSUME InductiveInvariant, Take
    PROVE  /\ running' \in Waiting
           /\ Waiting' = Waiting \ {running'}
           /\ \A d \in Waiting' :
                \/ running' \in SafetyCommands /\ d \notin SafetyCommands
                \/ SameClass(running', d) /\ sequence[running'] < sequence[d]
           /\ \A d \in Waiting' : SameClass(running', d) => sequence[running'] < sequence[d]
           /\ queue' \in Seq(Commands \ SafetyCommands) /\ Len(queue') <= Capacity
           /\ safetyQueue' \in Seq(SafetyCommands) /\ Len(safetyQueue') <= SafetyCapacity
           /\ Increasing(queue') /\ Increasing(safetyQueue')
<1>1. /\ queue \in Seq(Commands \ SafetyCommands) /\ Len(queue) <= Capacity
      /\ safetyQueue \in Seq(SafetyCommands) /\ Len(safetyQueue) <= SafetyCapacity
      /\ Len(queue) \in Nat /\ Len(safetyQueue) \in Nat
      /\ Increasing(queue) /\ Increasing(safetyQueue)
      /\ TypeOK
  BY DEF InductiveInvariant, TypeOK, QueuesIncreasing
<1>2. /\ Members(queue) \subseteq Commands \ SafetyCommands
      /\ Members(safetyQueue) \subseteq SafetyCommands
  BY <1>1, WaitingAreCommands
<1>3. CASE safetyQueue # <<>>
  <2>1. /\ running' = Head(safetyQueue) /\ safetyQueue' = Tail(safetyQueue)
        /\ queue' = queue
    BY <1>3 DEF Take, Dequeue
  <2>2. /\ safetyQueue' \in Seq(SafetyCommands)
        /\ Len(safetyQueue') = Len(safetyQueue) - 1
        /\ Members(safetyQueue) = Members(safetyQueue') \cup {running'}
        /\ running' \in SafetyCommands
    BY <1>1, <1>3, <2>1, MembersTail
  <2>3. /\ \A d \in Members(safetyQueue') : sequence[running'] < sequence[d]
        /\ running' \notin Members(safetyQueue')
        /\ Increasing(safetyQueue')
    BY <1>1, <1>3, <2>1, HeadIsOldest, SafetyAssumption
  <2>4. Waiting' = Members(queue) \cup Members(safetyQueue')
    BY <2>1 DEF Waiting
  <2>5. Waiting' = Waiting \ {running'}
    BY <1>2, <2>2, <2>3, <2>4 DEF Waiting
  <2> QED
    BY <1>1, <1>2, <2>1, <2>2, <2>3, <2>4, <2>5, CapacityAssumption DEF Waiting, SameClass
<1>4. CASE safetyQueue = <<>>
  <2>1. /\ queue # <<>> /\ running' = Head(queue) /\ queue' = Tail(queue)
        /\ safetyQueue' = safetyQueue
    BY <1>4 DEF Take, Dequeue
  <2>2. /\ queue' \in Seq(Commands \ SafetyCommands)
        /\ Len(queue') = Len(queue) - 1
        /\ Members(queue) = Members(queue') \cup {running'}
        /\ running' \in Commands \ SafetyCommands
    BY <1>1, <2>1, MembersTail
  <2>3. /\ \A d \in Members(queue') : sequence[running'] < sequence[d]
        /\ running' \notin Members(queue')
        /\ Increasing(queue')
    BY <1>1, <2>1, HeadIsOldest
  <2>4. Members(safetyQueue) = {}
    BY <1>4 DEF Members
  <2>5. Waiting' = Members(queue') /\ Waiting = Members(queue)
    BY <2>1, <2>4 DEF Waiting
  <2> QED
    BY <1>1, <1>2, <2>1, <2>2, <2>3, <2>4, <2>5, CapacityAssumption DEF Waiting, SameClass
<1> QED
  BY <1>3, <1>4

(* Taking a command keeps the invariant: it moves from a queue to the      *)
(* worker, and it is older than what stays in its queue.                   *)
LEMMA TakePreserves ==
    ASSUME InductiveInvariant, Take
    PROVE  InductiveInvariant'
<1> USE DEF InductiveInvariant
<1>1. /\ worker = "waiting" /\ worker' = "running"
      /\ UNCHANGED <<stopping, nextSequence, ticket, sequence, deferred, observer>>
  BY DEF Take, Dequeue
<1>2. /\ running' \in Waiting
      /\ Waiting' = Waiting \ {running'}
      /\ \A d \in Waiting' : SameClass(running', d) => sequence[running'] < sequence[d]
      /\ queue' \in Seq(Commands \ SafetyCommands) /\ Len(queue') <= Capacity
      /\ safetyQueue' \in Seq(SafetyCommands) /\ Len(safetyQueue') <= SafetyCapacity
      /\ Increasing(queue') /\ Increasing(safetyQueue')
  BY TakeTakesTheFirst
<1>3. running' \in Commands /\ running' # NoCommand /\ running = NoCommand
  BY <1>1, <1>2, WaitingAreCommands, NoCommandAssumption DEF Bookkeeping
<1>4. TypeOK'
  BY <1>1, <1>2, <1>3 DEF TypeOK
<1>5. Bookkeeping'
  <2>1. ticket[running'] = "Queued"
    BY <1>2 DEF Bookkeeping
  <2>2. \A d \in Waiting' : ticket'[d] = "Queued" /\ d \notin deferred' /\ d # running'
    BY <1>1, <1>2 DEF Bookkeeping
  <2> QED
    BY <1>1, <1>3, <2>1, <2>2 DEF Bookkeeping
<1>6. QueuesIncreasing'
  BY <1>1, <1>2 DEF QueuesIncreasing, Increasing
<1>7. ObserversSane' /\ NoLostNotification' /\ ObserversAgree'
  BY <1>1 DEF ObserversSane, NoLostNotification, ObserversAgree
<1>8. NoStrandedTicket'
  BY <1>1, <1>2, <1>3, NoCommandAssumption DEF NoStrandedTicket
<1>9. FifoPerClass'
  <2> SUFFICES ASSUME NEW e \in Waiting', NEW d \in Commands,
                      SameClass(e, d), sequence[d] # 0, d \notin Waiting'
               PROVE  sequence[d] < sequence[e]
    BY <1>1 DEF FifoPerClass, SameClass
  <2>1. CASE d = running'
    BY <1>2, <2>1 DEF SameClass
  <2>2. CASE d # running'
    BY <1>2, <2>2 DEF FifoPerClass
  <2> QED
    BY <2>1, <2>2
<1> QED
  BY <1>4, <1>5, <1>6, <1>7, <1>8, <1>9

(* observe() registers an observer only on a ticket that does not satisfy  *)
(* it yet.                                                                 *)
LEMMA ObservePreserves ==
    ASSUME InductiveInvariant, NEW o \in Observers, NEW c \in Commands,
           NEW p \in Policies, Observe(o, c, p)
    PROVE  InductiveInvariant'
<1> USE DEF InductiveInvariant, Terminal, TicketState, CommandState
<1>1. /\ observer[o].phase = "idle" /\ ticket[c] # "Unsubmitted"
      /\ UNCHANGED <<queue, safetyQueue, stopping, nextSequence, sequence, ticket,
                     worker, running, deferred>>
  BY DEF Observe, queueVars
<1>2. /\ observer' \in [Observers -> ObserverState]
      /\ \A x \in Observers : x # o => observer'[x] = observer[x]
      /\ observer'[o].on = c /\ observer'[o].policy = p
      /\ \/ /\ Ready(p, ticket[c])
            /\ observer'[o].phase = "due" /\ observer'[o].seen = ticket[c]
         \/ /\ ~Ready(p, ticket[c])
            /\ observer'[o].phase = "registered" /\ observer'[o].seen = "Unsubmitted"
  <2> DEFINE due == [phase |-> "due", on |-> c, policy |-> p,
                     seen |-> ticket[c], by |-> "client"]
             registered == [phase |-> "registered", on |-> c, policy |-> p,
                            seen |-> "Unsubmitted", by |-> "client"]
  <2>1. due \in ObserverState /\ registered \in ObserverState
    BY DEF ObserverState, Threads, TypeOK
  <2>2. observer \in [Observers -> ObserverState]
    BY DEF TypeOK
  <2>3. observer' = [observer EXCEPT ![o] = IF Ready(p, ticket[c]) THEN due ELSE registered]
    BY DEF Observe
  <2> HIDE DEF due, registered
  <2>4. /\ observer' \in [Observers -> ObserverState]
        /\ \A x \in Observers : x # o => observer'[x] = observer[x]
        /\ observer'[o] = IF Ready(p, ticket[c]) THEN due ELSE registered
    BY <2>1, <2>2, <2>3
  <2> QED
    BY <2>4 DEF due, registered
<1>3. TypeOK'
  BY <1>1, <1>2 DEF TypeOK
<1>4. Waiting' = Waiting
  BY <1>1 DEF Waiting
<1>5. /\ Bookkeeping' /\ QueuesIncreasing' /\ NoStrandedTicket' /\ FifoPerClass'
  BY <1>1, <1>4 DEF Bookkeeping, QueuesIncreasing, Increasing, NoStrandedTicket, FifoPerClass
<1>6. ObserversSane' /\ NoLostNotification' /\ ObserversAgree'
  BY <1>1, <1>2 DEF ObserversSane, NoLostNotification, ObserversAgree, Ready
<1> QED
  BY <1>3, <1>5, <1>6

(* Calling a due observer changes only its phase.                          *)
LEMMA CallPreserves ==
    ASSUME InductiveInvariant, NEW o \in Observers, Call(o)
    PROVE  InductiveInvariant'
<1> USE DEF InductiveInvariant
<1>1. /\ observer[o].phase = "due"
      /\ UNCHANGED <<queue, safetyQueue, stopping, nextSequence, sequence, ticket,
                     worker, running, deferred>>
  BY DEF Call, queueVars
<1>2. /\ observer' \in [Observers -> ObserverState]
      /\ \A x \in Observers : x # o => observer'[x] = observer[x]
      /\ observer'[o].phase = "called"
      /\ observer'[o].on = observer[o].on
      /\ observer'[o].policy = observer[o].policy
      /\ observer'[o].seen = observer[o].seen
  BY DEF Call, TypeOK, ObserverState
<1>3. TypeOK'
  BY <1>1, <1>2 DEF TypeOK
<1>4. Waiting' = Waiting
  BY <1>1 DEF Waiting
<1>5. /\ Bookkeeping' /\ QueuesIncreasing' /\ NoStrandedTicket' /\ FifoPerClass'
  BY <1>1, <1>4 DEF Bookkeeping, QueuesIncreasing, Increasing, NoStrandedTicket, FifoPerClass
<1>6. ObserversSane' /\ NoLostNotification' /\ ObserversAgree'
  BY <1>1, <1>2 DEF ObserversSane, NoLostNotification, ObserversAgree, Ready
<1> QED
  BY <1>3, <1>5, <1>6

(* The action ends: its ticket is settled unless its completion was        *)
(* deferred, so the worker can forget the command.                         *)
LEMMA FinishPreserves ==
    ASSUME InductiveInvariant, Return \/ Throw
    PROVE  InductiveInvariant'
<1> USE DEF InductiveInvariant
<1>1. /\ worker = "running" /\ worker' = "waiting" /\ running' = NoCommand
      /\ UNCHANGED <<queue, safetyQueue, stopping, nextSequence, sequence, deferred>>
  BY DEF Return, Throw, queueVars
<1>2. /\ running \in Commands /\ ticket[running] # "Unsubmitted"
      /\ running \notin Waiting
  BY <1>1 DEF Bookkeeping, TypeOK
<1>3. /\ ticket' \in [Commands -> TicketState]
      /\ observer' \in [Observers -> ObserverState]
      /\ \A d \in Commands : d # running => ticket'[d] = ticket[d]
      /\ ticket'[running] # "Unsubmitted"
      /\ ticket'[running] \in Terminal \/ running \in deferred
      /\ ObserversSane' /\ NoLostNotification' /\ ObserversAgree'
  <2>1. CASE ticket' = ticket /\ observer' = observer /\ running \in deferred
    BY <1>2, <2>1 DEF TypeOK, ObserversSane, NoLostNotification, ObserversAgree
  <2>2. CASE Transition("worker", running, "Completed")
    BY <1>2, <2>2, TransitionKeepsObservers DEF Threads, Terminal
  <2>3. CASE Transition("worker", running, "Failed")
    BY <1>2, <2>3, TransitionKeepsObservers DEF Threads, Terminal
  <2> QED
    BY <2>1, <2>2, <2>3 DEF Return, Throw
<1>4. TypeOK'
  BY <1>1, <1>3 DEF TypeOK
<1>5. Waiting' = Waiting /\ Waiting \subseteq Commands
  BY <1>1, WaitingAreCommands DEF Waiting
<1>6. Bookkeeping'
  <2>1. \A d \in Commands : ticket'[d] = "Unsubmitted" <=> ticket[d] = "Unsubmitted"
    BY <1>2, <1>3
  <2>2. \A d \in Waiting : ticket'[d] = ticket[d] /\ d # running'
    BY <1>1, <1>2, <1>3, <1>5, NoCommandAssumption
  <2> QED
    BY <1>1, <1>5, <2>1, <2>2 DEF Bookkeeping, TypeOK
<1>7. QueuesIncreasing' /\ FifoPerClass'
  BY <1>1, <1>5 DEF QueuesIncreasing, Increasing, FifoPerClass
<1>8. NoStrandedTicket'
  BY <1>1, <1>3, <1>5 DEF NoStrandedTicket, Terminal
<1> QED
  BY <1>3, <1>4, <1>6, <1>7, <1>8

(* Every step of the coordinator keeps the inductive invariant.            *)
LEMMA NextPreserves ==
    InductiveInvariant /\ [CoordinatorNext]_coordinatorVars => InductiveInvariant'
<1> SUFFICES ASSUME InductiveInvariant, [CoordinatorNext]_coordinatorVars
             PROVE  InductiveInvariant'
  OBVIOUS
<1>1. CASE \E c \in Commands : Submit(c)
  BY <1>1, SubmitPreserves
<1>2. CASE \E o \in Observers, c \in Commands, p \in Policies : Observe(o, c, p)
  BY <1>2, ObservePreserves
<1>3. CASE \E o \in Observers : Call(o)
  BY <1>3, CallPreserves
<1>4. CASE Take
  BY <1>4, TakePreserves
<1>5. CASE Exit
  <2>1. /\ worker = "waiting" /\ worker' = "exited"
        /\ UNCHANGED <<queue, safetyQueue, stopping, nextSequence, sequence, ticket,
                       running, deferred, observer>>
    BY <1>5 DEF Exit, queueVars
  <2>2. TypeOK'
    BY <2>1 DEF InductiveInvariant, TypeOK
  <2>3. Waiting' = Waiting
    BY <2>1 DEF Waiting
  <2>4. Bookkeeping'
    BY <2>1, <2>3 DEF InductiveInvariant, Bookkeeping
  <2> QED
    BY <2>1, <2>2, <2>3, <2>4
       DEF InductiveInvariant, QueuesIncreasing, Increasing, ObserversSane,
           NoLostNotification, ObserversAgree, NoStrandedTicket, FifoPerClass
<1>6. CASE MarkAccepted
  <2>1. /\ running \in Commands /\ ticket[running] # "Unsubmitted"
        /\ running \notin Waiting
    BY <1>6 DEF MarkAccepted, InductiveInvariant, Bookkeeping, TypeOK
  <2>2. /\ Transition("worker", running, "Accepted")
        /\ UNCHANGED <<queueVars, worker, running, deferred>>
    BY <1>6 DEF MarkAccepted
  <2> QED
    BY <2>1, <2>2, TransitionPreserves DEF Threads
<1>7. CASE DeferCompletion
  <2>1. /\ worker = "running" /\ deferred' = deferred \cup {running}
        /\ UNCHANGED <<queue, safetyQueue, stopping, nextSequence, sequence, ticket,
                       worker, running, observer>>
    BY <1>7 DEF DeferCompletion, queueVars
  <2>2. /\ running \in Commands /\ ticket[running] # "Unsubmitted"
        /\ running \notin Waiting
    BY <2>1 DEF InductiveInvariant, Bookkeeping, TypeOK
  <2>3. TypeOK'
    BY <2>1, <2>2 DEF InductiveInvariant, TypeOK
  <2>4. Waiting' = Waiting
    BY <2>1 DEF Waiting
  <2>5. Bookkeeping'
    BY <2>1, <2>2, <2>4 DEF InductiveInvariant, Bookkeeping
  <2>6. QueuesIncreasing' /\ FifoPerClass' /\ NoStrandedTicket'
    BY <2>1, <2>4
       DEF InductiveInvariant, QueuesIncreasing, Increasing, NoStrandedTicket, FifoPerClass
  <2> QED
    BY <2>1, <2>3, <2>5, <2>6
       DEF InductiveInvariant, ObserversSane, NoLostNotification, ObserversAgree
<1>8. CASE Return \/ Throw
  BY <1>8, FinishPreserves
<1>9. CASE \E t \in Threads, c \in Commands, s \in Terminal : Settle(t, c, s)
  <2>1. PICK t \in Threads, c \in Commands, s \in Terminal : Settle(t, c, s)
    BY <1>9
  <2>2. /\ c \in deferred /\ Transition(t, c, s)
        /\ UNCHANGED <<queueVars, worker, running, deferred>>
    BY <2>1 DEF Settle
  <2>3. ticket[c] # "Unsubmitted" /\ c \notin Waiting
    BY <2>2 DEF InductiveInvariant, Bookkeeping
  <2> QED
    BY <2>2, <2>3, TransitionPreserves
<1>10. CASE Shutdown
  <2>1. /\ stopping' = TRUE
        /\ UNCHANGED <<queue, safetyQueue, nextSequence, sequence, ticket, worker,
                       running, deferred, observer>>
    BY <1>10 DEF Shutdown
  <2>2. stopping' \in BOOLEAN
    BY <2>1, Zenon
  <2>3. TypeOK'
    BY <2>1, <2>2 DEF InductiveInvariant, TypeOK
  <2>4. Waiting' = Waiting
    BY <2>1 DEF Waiting
  <2> QED
    BY <2>1, <2>3, <2>4
       DEF InductiveInvariant, Bookkeeping, QueuesIncreasing, Increasing, ObserversSane,
           NoLostNotification, ObserversAgree, NoStrandedTicket, FifoPerClass
<1>11. CASE UNCHANGED coordinatorVars
  <2>1. Waiting' = Waiting
    BY <1>11 DEF coordinatorVars, Waiting
  <2> QED
    BY <1>11, <2>1
       DEF coordinatorVars, InductiveInvariant, TypeOK, Bookkeeping, QueuesIncreasing,
           Increasing, ObserversSane, NoLostNotification, ObserversAgree,
           NoStrandedTicket, FifoPerClass
<1> QED
  BY <1>1, <1>2, <1>3, <1>4, <1>5, <1>6, <1>7, <1>8, <1>9, <1>10, <1>11
     DEF CoordinatorNext

-----------------------------------------------------------------------------
(* Every reachable state of the coordinator satisfies the inductive        *)
(* invariant, whatever the commands, observers and capacities.             *)
THEOREM CoordinatorInvariant == CoordinatorSpec => []InductiveInvariant
<1> QED
  BY InitEstablishes, NextPreserves, PTL DEF CoordinatorSpec

(* Types are kept and neither queue exceeds its capacity.                  *)
THEOREM CoordinatorTypeCorrect == CoordinatorSpec => []TypeOK
<1>1. InductiveInvariant => TypeOK
  BY DEF InductiveInvariant
<1> QED
  BY <1>1, CoordinatorInvariant, PTL

(* No interleaving of observe() with the transitions of two threads loses  *)
(* a notification.                                                         *)
THEOREM CoordinatorNotifies == CoordinatorSpec => []NoLostNotification
<1>1. InductiveInvariant => NoLostNotification
  BY DEF InductiveInvariant
<1> QED
  BY <1>1, CoordinatorInvariant, PTL

(* No two observers of a ticket are given different verdicts.              *)
THEOREM CoordinatorAgreement == CoordinatorSpec => []ObserversAgree
<1>1. InductiveInvariant => ObserversAgree
  BY DEF InductiveInvariant
<1> QED
  BY <1>1, CoordinatorInvariant, PTL

(* Every unsettled ticket has an owner left to settle it.                  *)
THEOREM CoordinatorStrandsNothing == CoordinatorSpec => []NoStrandedTicket
<1>1. InductiveInvariant => NoStrandedTicket
  BY DEF InductiveInvariant
<1> QED
  BY <1>1, CoordinatorInvariant, PTL

(* Commands of one class start in the order of their submission.           *)
THEOREM CoordinatorFifo == CoordinatorSpec => []FifoPerClass
<1>1. InductiveInvariant => FifoPerClass
  BY DEF InductiveInvariant
<1> QED
  BY <1>1, CoordinatorInvariant, PTL

-----------------------------------------------------------------------------
(* transition() on a started command is a step of the contract, or none.   *)
LEMMA TransitionIsAdvance ==
    ASSUME InductiveInvariant,
           NEW t \in Threads, NEW c \in Commands,
           NEW s \in {"Accepted"} \cup Terminal,
           ticket[c] # "Unsubmitted", c \notin Waiting,
           Transition(t, c, s), UNCHANGED <<sequence, queue, safetyQueue>>
    PROVE  [Contract!Next]_Contract!contractVars
<1>1. Waiting' = Waiting
  BY DEF Waiting
<1>2. CASE Absorbed(c, s)
  <2>1. ticket' = ticket /\ observer' = observer
    BY <1>2 DEF Transition
  <2> QED
    BY <1>1, <2>1 DEF Contract!contractVars
<1>3. CASE ~Absorbed(c, s)
  <2>1. /\ ticket' = [ticket EXCEPT ![c] = s]
        /\ observer' =
             [o \in Observers |->
                IF o \in Released(c, s)
                THEN [observer[o] EXCEPT !.phase = "due", !.seen = s, !.by = t]
                ELSE observer[o]]
    BY <1>3 DEF Transition
  <2>2. \/ ticket[c] = "Queued" /\ s \in {"Accepted"} \cup Contract!Settled
        \/ ticket[c] = "Accepted" /\ s \in Contract!Settled
    BY <1>3 DEF InductiveInvariant, TypeOK, TicketState, CommandState, Terminal, Absorbed,
                Contract!Settled
  <2>3. ASSUME NEW o \in Observers
        PROVE  /\ observer'[o].on = observer[o].on
               /\ observer'[o].policy = observer[o].policy
               /\ observer'[o].seen =
                    IF /\ observer[o].on = c
                       /\ observer[o].seen = "Unsubmitted"
                       /\ Contract!Satisfied(observer[o].policy, s)
                    THEN s ELSE observer[o].seen
    <3>1. observer[o] \in ObserverState
      BY DEF InductiveInvariant, TypeOK
    <3>2. o \in Released(c, s) <=> /\ observer[o].on = c
                                   /\ observer[o].seen = "Unsubmitted"
                                   /\ Contract!Satisfied(observer[o].policy, s)
      <4>1. Contract!Satisfied(observer[o].policy, s) <=> Ready(observer[o].policy, s)
        BY DEF Contract!Satisfied, Contract!Settled, Ready, Terminal
      <4>2. observer[o].seen = "Unsubmitted" /\ observer[o].on = c
              => observer[o].phase = "registered"
        <5>1. observer[o].phase \in {"idle", "registered", "due", "called"}
          BY <3>1 DEF ObserverState
        <5>2. /\ observer[o].phase = "idle" => observer[o] = IdleObserver
              /\ observer[o].phase \in {"due", "called"} =>
                   observer[o].seen # "Unsubmitted"
          BY DEF InductiveInvariant, ObserversSane
        <5>3. observer[o].phase = "idle" => observer[o].on # c
          BY <5>2, NoCommandAssumption DEF IdleObserver
        <5> QED
          BY <5>1, <5>2, <5>3
      <4>3. observer[o].phase = "registered" => observer[o].seen = "Unsubmitted"
        BY DEF InductiveInvariant, ObserversSane
      <4> QED
        BY <4>1, <4>2, <4>3 DEF Released
    <3>3. CASE o \in Released(c, s)
      <4>1. observer'[o] = [observer[o] EXCEPT !.phase = "due", !.seen = s, !.by = t]
        BY <2>1, <3>3
      <4> QED
        BY <3>1, <3>2, <3>3, <4>1 DEF ObserverState
    <3>4. CASE o \notin Released(c, s)
      BY <2>1, <3>2, <3>4
    <3> QED
      BY <3>3, <3>4
  <2>4. Contract!Advance(c, s)
    BY <1>1, <2>1, <2>2, <2>3 DEF Contract!Advance, Contract!NotTold
  <2>5. s \in {"Accepted"} \cup Contract!Settled
    BY DEF Terminal, Contract!Settled
  <2> QED
    BY <2>4, <2>5 DEF Contract!Next
<1> QED
  BY <1>2, <1>3

(* A step that leaves tickets, numbers, queues and what observers saw as   *)
(* they are is invisible to the contract.                                  *)
LEMMA InvisibleStep ==
    ASSUME UNCHANGED <<ticket, sequence, queue, safetyQueue, observer>>
    PROVE  [Contract!Next]_Contract!contractVars
<1>1. Waiting' = Waiting
  BY DEF Waiting
<1> QED
  BY <1>1 DEF Contract!contractVars

(* The coordinator implements its contract: the two deques and their       *)
(* worker are a priority order, and two threads' transitions with their    *)
(* delayed callbacks are one atomic notification per observer.             *)
THEOREM CoordinatorImplementsContract == CoordinatorSpec => ImplementsContract
<1>1. CoordinatorInit => Contract!Init
  <2> SUFFICES ASSUME CoordinatorInit PROVE Contract!Init
    OBVIOUS
  <2>1. Waiting = {}
    BY DEF CoordinatorInit, Waiting, Members
  <2> QED
    BY <2>1 DEF CoordinatorInit, Contract!Init, Contract!NotWatching, Contract!NotTold,
                IdleObserver, NoCommand
<1>2. ASSUME InductiveInvariant, [CoordinatorNext]_coordinatorVars
      PROVE  [Contract!Next]_Contract!contractVars
  <2> USE <1>2
  <2>1. ASSUME NEW c \in Commands, Submit(c) PROVE Contract!Next
    <3>1. Waiting' = Waiting \cup {c}
      <4>1. CASE c \in SafetyCommands
        <5>1. safetyQueue' = Append(safetyQueue, c) /\ queue' = queue
          BY <2>1, <4>1 DEF Submit, Enqueue
        <5>2. Members(safetyQueue') = Members(safetyQueue) \cup {c}
          BY <4>1, <5>1, MembersAppend DEF InductiveInvariant, TypeOK
        <5> QED
          BY <5>1, <5>2 DEF Waiting
      <4>2. CASE c \notin SafetyCommands
        <5>1. queue' = Append(queue, c) /\ safetyQueue' = safetyQueue
          BY <2>1, <4>2 DEF Submit, Enqueue
        <5>2. queue \in Seq(Commands \ SafetyCommands) /\ c \in Commands \ SafetyCommands
          BY <4>2 DEF InductiveInvariant, TypeOK
        <5>3. Members(queue') = Members(queue) \cup {c}
          BY <5>1, <5>2, MembersAppend
        <5> QED
          BY <5>1, <5>3 DEF Waiting
      <4> QED
        BY <4>1, <4>2
    <3>2. /\ sequence' = [sequence EXCEPT ![c] = sequence'[c]]
          /\ sequence'[c] \in Nat
          /\ \A d \in Commands : sequence[d] < sequence'[c]
      BY <2>1 DEF Submit, InductiveInvariant, TypeOK, Bookkeeping
    <3>3. /\ ticket[c] = "Unsubmitted" /\ ticket' = [ticket EXCEPT ![c] = "Queued"]
          /\ observer' = observer
      BY <2>1 DEF Submit, Enqueue
    <3>4. Contract!Submit(c)
      BY <3>1, <3>2, <3>3 DEF Contract!Submit
    <3> QED
      BY <3>4 DEF Contract!Next
  <2>2. ASSUME NEW o \in Observers, NEW c \in Commands, NEW p \in Policies,
               Observe(o, c, p)
        PROVE  Contract!Next
    <3>1. /\ observer[o] = IdleObserver /\ ticket[c] # "Unsubmitted"
          /\ UNCHANGED <<ticket, sequence, queue, safetyQueue>>
      BY <2>2 DEF Observe, queueVars, InductiveInvariant, ObserversSane
    <3>2. Waiting' = Waiting
      BY <3>1 DEF Waiting
    <3>3. /\ \A x \in Observers : x # o => observer'[x] = observer[x]
          /\ observer'[o].on = c /\ observer'[o].policy = p
          /\ observer'[o].seen =
               IF Ready(p, ticket[c]) THEN ticket[c] ELSE "Unsubmitted"
      <4>1. observer \in [Observers -> ObserverState]
        BY DEF InductiveInvariant, TypeOK
      <4> QED
        BY <2>2, <4>1 DEF Observe
    <3>4. Contract!Satisfied(p, ticket[c]) <=> Ready(p, ticket[c])
      BY DEF Contract!Satisfied, Contract!Settled, Ready, Terminal
    <3>5. [on |-> observer[o].on, policy |-> observer[o].policy] = Contract!NotWatching
      <4>1. IdleObserver.on = NoCommand /\ IdleObserver.policy = "Completed"
        BY DEF IdleObserver
      <4>2. observer[o].on = NoCommand /\ observer[o].policy = "Completed"
        BY <3>1, <4>1
      <4> QED
        BY <4>2 DEF Contract!NotWatching, NoCommand
    <3>6. Contract!Watch(o, c, p)
      BY <3>1, <3>2, <3>3, <3>4, <3>5 DEF Contract!Watch, Contract!NotTold
    <3> QED
      BY <3>6 DEF Contract!Next, Policies
  <2>3. ASSUME NEW o \in Observers, Call(o)
        PROVE  UNCHANGED Contract!contractVars
    <3>1. UNCHANGED <<ticket, sequence, queue, safetyQueue>>
      BY <2>3 DEF Call, queueVars
    <3>2. \A x \in Observers : /\ observer'[x].on = observer[x].on
                               /\ observer'[x].policy = observer[x].policy
                               /\ observer'[x].seen = observer[x].seen
      BY <2>3 DEF Call, InductiveInvariant, TypeOK, ObserverState
    <3>3. Waiting' = Waiting
      BY <3>1 DEF Waiting
    <3> QED
      BY <3>1, <3>2, <3>3 DEF Contract!contractVars
  <2>4. ASSUME Take PROVE Contract!Next
    <3>1. /\ running' \in Waiting
          /\ Waiting' = Waiting \ {running'}
          /\ \A d \in Waiting' :
               \/ running' \in SafetyCommands /\ d \notin SafetyCommands
               \/ SameClass(running', d) /\ sequence[running'] < sequence[d]
      BY <2>4, TakeTakesTheFirst
    <3>2. UNCHANGED <<ticket, sequence, observer>>
      BY <2>4 DEF Take, Dequeue
    <3>3. running' \in Commands
      BY <3>1, WaitingAreCommands DEF InductiveInvariant
    <3>4. Contract!Start(running')
      BY <3>1, <3>2 DEF Contract!Start, Contract!Precedes, SameClass
    <3> QED
      BY <3>3, <3>4 DEF Contract!Next
  <2>5. ASSUME MarkAccepted \/ Return \/ Throw
        PROVE  [Contract!Next]_Contract!contractVars
    <3>1. /\ running \in Commands /\ ticket[running] # "Unsubmitted"
          /\ running \notin Waiting
      BY <2>5 DEF MarkAccepted, Return, Throw, InductiveInvariant, Bookkeeping, TypeOK
    <3>2. UNCHANGED <<sequence, queue, safetyQueue>>
      BY <2>5 DEF MarkAccepted, Return, Throw, queueVars
    <3>3. CASE \E s \in {"Accepted"} \cup Terminal : Transition("worker", running, s)
      BY <3>1, <3>2, <3>3, TransitionIsAdvance DEF Threads
    <3>4. CASE UNCHANGED <<ticket, observer>>
      BY <3>2, <3>4, InvisibleStep
    <3> QED
      BY <2>5, <3>3, <3>4 DEF MarkAccepted, Return, Throw, Terminal
  <2>6. ASSUME NEW t \in Threads, NEW c \in Commands, NEW s \in Terminal, Settle(t, c, s)
        PROVE  [Contract!Next]_Contract!contractVars
    <3>1. /\ c \in deferred /\ Transition(t, c, s)
          /\ UNCHANGED <<sequence, queue, safetyQueue>>
      BY <2>6 DEF Settle, queueVars
    <3>2. ticket[c] # "Unsubmitted" /\ c \notin Waiting
      BY <3>1 DEF InductiveInvariant, Bookkeeping
    <3> QED
      BY <3>1, <3>2, TransitionIsAdvance
  <2>7. ASSUME Exit \/ DeferCompletion \/ Shutdown \/ UNCHANGED coordinatorVars
        PROVE  [Contract!Next]_Contract!contractVars
    BY <2>7, InvisibleStep DEF Exit, DeferCompletion, Shutdown, coordinatorVars, queueVars
  <2> QED
    BY <2>1, <2>2, <2>3, <2>4, <2>5, <2>6, <2>7 DEF CoordinatorNext
<1> QED
  BY <1>1, <1>2, CoordinatorInvariant, PTL
     DEF CoordinatorSpec, ImplementsContract, Contract!Spec

(* A settled ticket never changes again.                                   *)
THEOREM CoordinatorVerdictFinal == CoordinatorSpec => VerdictIsFinal
<1> DEFINE Keeps == \A c \in Commands : ticket[c] \in Terminal => ticket'[c] = ticket[c]
<1>1. ASSUME InductiveInvariant, [CoordinatorNext]_coordinatorVars
      PROVE  [Keeps]_coordinatorVars
  <2>1. ASSUME NEW t, NEW c \in Commands, NEW s, Transition(t, c, s) PROVE Keeps
    BY <1>1, <2>1 DEF Transition, Absorbed, InductiveInvariant, TypeOK
  <2>2. ASSUME NEW c \in Commands, Submit(c) PROVE Keeps
    BY <1>1, <2>2 DEF Submit, Terminal, InductiveInvariant, TypeOK
  <2>3. worker = "running" => running \in Commands
    BY <1>1 DEF InductiveInvariant, Bookkeeping, TypeOK
  <2>4. CASE UNCHANGED ticket
    BY <2>4
  <2>5. CASE MarkAccepted \/ Return \/ Throw
    BY <2>1, <2>3, <2>4, <2>5 DEF MarkAccepted, Return, Throw
  <2>6. CASE \E t \in Threads, c \in Commands, s \in Terminal : Settle(t, c, s)
    BY <2>1, <2>6 DEF Settle
  <2> QED
    BY <1>1, <2>2, <2>4, <2>5, <2>6
       DEF CoordinatorNext, Observe, Call, Take, Exit, DeferCompletion, Shutdown, coordinatorVars
<1> QED
  BY <1>1, CoordinatorInvariant, PTL DEF CoordinatorSpec, VerdictIsFinal
=============================================================================
