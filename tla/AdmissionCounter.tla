--------------------------- MODULE AdmissionCounter ---------------------------
(***************************************************************************)
(* AdmissionCounter (callback_runtime.hpp): the lock-free limit on streams, *)
(* uploads and remote components.  acquire() is four atomic accesses to two *)
(* words, so calls of several threads, and stop(), interleave between them. *)
(***************************************************************************)
EXTENDS Naturals, FiniteSets

CONSTANTS Callers,    \* threads that acquire and release
          Limit    \* capacity_

ASSUME AdmissionAssumption == Limit \in Nat /\ IsFiniteSet(Callers)

VARIABLES admitted,     \* active_
          admitting,  \* accepting_
          pc,         \* where each caller is in acquire(), or "held"
          current     \* each caller's local current

admissionVars == <<admitted, admitting, pc, current>>

AdmissionInit ==
    /\ admitted = 0
    /\ admitting = TRUE
    /\ pc = [c \in Callers |-> "idle"]
    /\ current = [c \in Callers |-> 0]

\* Callers whose increment is in active_.
Counted == {c \in Callers : pc[c] \in {"recheck", "held", "undo"}}

\* Callers that acquire() has told they are admitted.
Holders == {c \in Callers : pc[c] = "held"}

\* acquire(): the first accepting_.load(); a refused call changes nothing.
Acquire(c) ==
    /\ pc[c] = "idle"
    /\ admitting
    /\ pc' = [pc EXCEPT ![c] = "load"]
    /\ UNCHANGED <<admitted, admitting, current>>

\* current := active_, then the loop condition.
Reload(c) ==
    /\ current' = [current EXCEPT ![c] = admitted]
    /\ pc' = [pc EXCEPT ![c] = IF admitted < Limit THEN "cas" ELSE "idle"]
    /\ UNCHANGED <<admitted, admitting>>

Load(c) ==
    /\ pc[c] = "load"
    /\ Reload(c)

\* Mutant: a load, a test and a store where the code compares and exchanges.
StoreUnchecked(c) ==
    /\ pc[c] = "cas"
    /\ admitted' = current[c] + 1
    /\ pc' = [pc EXCEPT ![c] = "recheck"]
    /\ UNCHANGED <<admitting, current>>

\* compare_exchange_weak: a failure, a spurious one too, reloads current and
\* tests the loop condition again.
CompareExchange(c) ==
    /\ pc[c] = "cas"
    /\ \/ /\ admitted = current[c]
          /\ admitted' = admitted + 1
          /\ pc' = [pc EXCEPT ![c] = "recheck"]
          /\ UNCHANGED <<admitting, current>>
       \/ /\ admitted # current[c]
          /\ Reload(c)

\* The second accepting_.load(): a stop() that came after the first undoes the
\* admission.
Recheck(c) ==
    /\ pc[c] = "recheck"
    /\ pc' = [pc EXCEPT ![c] = IF admitting THEN "held" ELSE "undo"]
    /\ UNCHANGED <<admitted, admitting, current>>

\* release(): fetch_sub, then a store of 0 had the count been 0.  The two are one
\* step here; ActiveIsCounted shows that the store never happens.
Release(c) ==
    /\ pc[c] \in {"held", "undo"}
    /\ admitted' = IF admitted = 0 THEN 0 ELSE admitted - 1
    /\ pc' = [pc EXCEPT ![c] = "idle"]
    /\ UNCHANGED <<admitting, current>>

Stop ==
    /\ admitting
    /\ admitting' = FALSE
    /\ UNCHANGED <<admitted, pc, current>>

CallerStep(c) ==
    Acquire(c) \/ Load(c) \/ CompareExchange(c) \/ Recheck(c) \/ Release(c)

AdmissionNext == Stop \/ \E c \in Callers : CallerStep(c)

AdmissionSpec == AdmissionInit /\ [][AdmissionNext]_admissionVars

-----------------------------------------------------------------------------
(* Properties *)

\* The words and the callers' places have their types, and a loaded count that
\* passed the loop condition is below the limit.
AdmissionTypeOK ==
    /\ admitted \in Nat
    /\ admitting \in BOOLEAN
    /\ pc \in [Callers -> {"idle", "load", "cas", "recheck", "held", "undo"}]
    /\ current \in [Callers -> Nat]
    /\ \A c \in Callers : pc[c] = "cas" => current[c] < Limit

\* active_ is exactly the number of callers whose increment has not been given
\* back, whatever the interleaving: no place leaks and none is given back twice.
ActiveIsCounted == admitted = Cardinality(Counted)

\* No more callers than capacity_ are admitted at once.
WithinCapacity == Cardinality(Holders) <= Limit

\* Once stop() has returned no caller becomes admitted, the ones that passed the
\* first test before it included.
ClosedAfterStop == [][~admitting => Holders' \subseteq Holders]_admissionVars
===============================================================================
