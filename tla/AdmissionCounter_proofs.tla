------------------------ MODULE AdmissionCounter_proofs ------------------------
(***************************************************************************)
(* Safety of the admission counter for any set of callers and any limit.    *)
(***************************************************************************)
EXTENDS AdmissionCounter, FiniteSetTheorems, TLAPS

\* The counter counts, and never counts past the limit.
AdmissionInvariant ==
    /\ AdmissionTypeOK
    /\ ActiveIsCounted
    /\ admitted <= Limit

\* Counted is a finite set, so its cardinality is a natural number that grows and
\* shrinks with it by one.
LEMMA CountedFinite ==
    /\ IsFiniteSet(Counted)
    /\ Cardinality(Counted) \in Nat
<1>1. Counted \subseteq Callers
  BY DEF Counted
<1>2. IsFiniteSet(Counted)
  BY <1>1, FS_Subset, AdmissionAssumption DEF AdmissionAssumption
<1>. QED
  BY <1>2, FS_CardinalityType

\* The counter starts empty.
LEMMA AdmissionInitInvariant == AdmissionInit => AdmissionInvariant
<1>. SUFFICES ASSUME AdmissionInit PROVE AdmissionInvariant
  OBVIOUS
<1>1. AdmissionTypeOK /\ admitted <= Limit
  BY AdmissionAssumption DEF AdmissionAssumption, AdmissionInit, AdmissionTypeOK
<1>2. Counted = {}
  BY DEF AdmissionInit, Counted
<1>3. ActiveIsCounted
  BY <1>2, FS_EmptySet DEF AdmissionInit, ActiveIsCounted
<1>. QED
  BY <1>1, <1>3 DEF AdmissionInvariant

\* A step that neither counts nor uncounts a caller leaves the count right.
LEMMA SameCount ==
    ASSUME AdmissionInvariant, admitted' = admitted, Counted' = Counted
    PROVE  ActiveIsCounted' /\ (admitted <= Limit)'
BY AdmissionAssumption DEF AdmissionInvariant, ActiveIsCounted, AdmissionAssumption

\* Each access of acquire(), release() and stop() keeps the invariant.
LEMMA AdmissionStep ==
    AdmissionInvariant /\ [AdmissionNext]_admissionVars => AdmissionInvariant'
<1>. SUFFICES ASSUME AdmissionInvariant, [AdmissionNext]_admissionVars
              PROVE  AdmissionInvariant'
  OBVIOUS
<1>. USE AdmissionAssumption DEF AdmissionAssumption
<1>. USE DEF AdmissionTypeOK
<1>1. AdmissionTypeOK
  BY DEF AdmissionInvariant
<1>2. ASSUME NEW c \in Callers, Acquire(c)
      PROVE  AdmissionInvariant'
  <2>1. AdmissionTypeOK' /\ admitted' = admitted
    BY <1>1, <1>2 DEF Acquire
  <2>2. Counted' = Counted
    BY <1>1, <1>2 DEF Acquire, Counted
  <2>. QED
    BY <2>1, <2>2, SameCount DEF AdmissionInvariant
<1>3. ASSUME NEW c \in Callers, pc[c] \in {"load", "cas"}, Reload(c)
      PROVE  AdmissionInvariant'
  <2>1. AdmissionTypeOK' /\ admitted' = admitted
    BY <1>1, <1>3 DEF Reload
  <2>2. Counted' = Counted
    BY <1>1, <1>3 DEF Reload, Counted
  <2>. QED
    BY <2>1, <2>2, SameCount DEF AdmissionInvariant
<1>4. ASSUME NEW c \in Callers, pc[c] = "cas", admitted = current[c],
             admitted' = admitted + 1, pc' = [pc EXCEPT ![c] = "recheck"],
             UNCHANGED <<admitting, current>>
      PROVE  AdmissionInvariant'
  <2>1. AdmissionTypeOK'
    BY <1>1, <1>4
  <2>2. Counted' = Counted \cup {c} /\ c \notin Counted
    BY <1>1, <1>4 DEF Counted
  <2>3. Cardinality(Counted') = Cardinality(Counted) + 1
    BY <2>2, CountedFinite, FS_AddElement
  <2>4. ActiveIsCounted'
    BY <2>3, <1>4 DEF AdmissionInvariant, ActiveIsCounted
  <2>5. (admitted <= Limit)'
    BY <1>1, <1>4
  <2>. QED
    BY <2>1, <2>4, <2>5 DEF AdmissionInvariant
<1>5. ASSUME NEW c \in Callers, Recheck(c)
      PROVE  AdmissionInvariant'
  <2>1. AdmissionTypeOK' /\ admitted' = admitted
    BY <1>1, <1>5 DEF Recheck
  <2>2. Counted' = Counted
    BY <1>1, <1>5 DEF Recheck, Counted
  <2>. QED
    BY <2>1, <2>2, SameCount DEF AdmissionInvariant
<1>6. ASSUME NEW c \in Callers, Release(c)
      PROVE  AdmissionInvariant'
  <2>1. Counted' = Counted \ {c} /\ c \in Counted
    BY <1>1, <1>6 DEF Release, Counted
  <2>2. Cardinality(Counted') = Cardinality(Counted) - 1
    BY <2>1, CountedFinite, FS_RemoveElement
  <2>3. Cardinality(Counted) # 0
    BY <2>1, CountedFinite, FS_EmptySet
  <2>4. admitted # 0 /\ admitted' = admitted - 1
    BY <2>3, <1>6 DEF Release, AdmissionInvariant, ActiveIsCounted
  <2>5. AdmissionTypeOK' /\ (admitted <= Limit)'
    BY <1>1, <1>6, <2>4 DEF Release, AdmissionInvariant
  <2>6. ActiveIsCounted'
    BY <2>2, <2>4 DEF AdmissionInvariant, ActiveIsCounted
  <2>. QED
    BY <2>5, <2>6 DEF AdmissionInvariant
<1>7. CASE Stop
  <2>1. AdmissionTypeOK' /\ admitted' = admitted
    BY <1>1, <1>7 DEF Stop
  <2>2. Counted' = Counted
    BY <1>7 DEF Stop, Counted
  <2>. QED
    BY <2>1, <2>2, SameCount DEF AdmissionInvariant
<1>8. CASE UNCHANGED admissionVars
  <2>1. AdmissionTypeOK' /\ admitted' = admitted
    BY <1>1, <1>8 DEF admissionVars
  <2>2. Counted' = Counted
    BY <1>8 DEF admissionVars, Counted
  <2>. QED
    BY <2>1, <2>2, SameCount DEF AdmissionInvariant
<1>. QED
  BY <1>2, <1>3, <1>4, <1>5, <1>6, <1>7, <1>8
     DEF AdmissionNext, CallerStep, Load, CompareExchange

\* In every behaviour active_ is the number of callers whose increment has not
\* been given back, and never exceeds capacity_.
THEOREM AdmissionSafe == AdmissionSpec => []AdmissionInvariant
BY AdmissionInitInvariant, AdmissionStep, PTL DEF AdmissionSpec

\* active_ is exact for any number of threads and any limit.
THEOREM ActiveAlwaysCounted == AdmissionSpec => []ActiveIsCounted
<1>1. AdmissionInvariant => ActiveIsCounted
  BY DEF AdmissionInvariant
<1>. QED
  BY <1>1, AdmissionSafe, PTL

\* No more callers than capacity_ are ever admitted at once.
THEOREM CapacityRespected == AdmissionSpec => []WithinCapacity
<1>1. AdmissionInvariant => WithinCapacity
  <2>. SUFFICES ASSUME AdmissionInvariant PROVE WithinCapacity
    OBVIOUS
  <2>1. Holders \subseteq Counted
    BY DEF Holders, Counted
  <2>2. /\ Cardinality(Holders) \in Nat
        /\ Cardinality(Holders) <= Cardinality(Counted)
    BY <2>1, CountedFinite, FS_Subset, FS_CardinalityType
  <2>. QED
    BY <2>2, CountedFinite, AdmissionAssumption
       DEF AdmissionInvariant, ActiveIsCounted, WithinCapacity, AdmissionAssumption
<1>. QED
  BY <1>1, AdmissionSafe, PTL

\* After stop() no caller becomes admitted, whatever it had read before.
THEOREM NoneAdmittedAfterStop == AdmissionSpec => ClosedAfterStop
<1>1. AdmissionInvariant /\ [AdmissionNext]_admissionVars
        => [~admitting => Holders' \subseteq Holders]_admissionVars
  <2>. SUFFICES ASSUME AdmissionInvariant, AdmissionNext, ~admitting
                PROVE  Holders' \subseteq Holders
    BY DEF admissionVars
  <2>1. pc \in [Callers -> {"idle", "load", "cas", "recheck", "held", "undo"}]
    BY DEF AdmissionInvariant, AdmissionTypeOK
  <2>2. ASSUME NEW c \in Callers, CallerStep(c) PROVE Holders' \subseteq Holders
    BY <2>1, <2>2
       DEF CallerStep, Acquire, Load, CompareExchange, Reload, Recheck, Release,
           Holders
  <2>3. CASE Stop
    BY <2>3 DEF Stop
  <2>. QED
    BY <2>2, <2>3 DEF AdmissionNext
<1>. QED
  BY <1>1, AdmissionSafe, PTL DEF AdmissionSpec, ClosedAfterStop
===============================================================================
