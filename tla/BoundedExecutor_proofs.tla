------------------------ MODULE BoundedExecutor_proofs ------------------------
(***************************************************************************)
(* Safety of the bounded executor for any pool, task set, queue length and   *)
(* reserve.                                                                  *)
(***************************************************************************)
EXTENDS BoundedExecutor, FiniteSetTheorems, SequenceTheorems, TLAPS

-----------------------------------------------------------------------------
(* Counting the places of a queue *)

\* The places of a set of tasks in a queue form a finite set.
LEMMA PlacesFinite ==
    ASSUME NEW q \in Seq(Tasks), NEW S
    PROVE  /\ IsFiniteSet(Places(q, S))
           /\ Cardinality(Places(q, S)) \in Nat
<1>1. Len(q) \in Nat
  BY LenProperties
<1>2. IsFiniteSet(1..Len(q))
  BY <1>1, FS_Interval
<1>3. Places(q, S) \in SUBSET (1..Len(q))
  BY DEF Places
<1>4. IsFiniteSet(Places(q, S))
  BY <1>2, <1>3, FS_Subset
<1>. QED
  BY <1>4, FS_CardinalityType

\* A pushed task takes one more place of its own kind.
LEMMA PlacesAppend ==
    ASSUME NEW q \in Seq(Tasks), NEW t \in Tasks, NEW S
    PROVE  Cardinality(Places(Append(q, t), S))
             = Cardinality(Places(q, S)) + (IF t \in S THEN 1 ELSE 0)
<1>1. /\ Len(q) \in Nat
      /\ Len(Append(q, t)) = Len(q) + 1
      /\ \A i \in 1..Len(q) : Append(q, t)[i] = q[i]
      /\ Append(q, t)[Len(q) + 1] = t
  BY LenProperties, AppendProperties
<1>2. 1..(Len(q) + 1) = (1..Len(q)) \cup {Len(q) + 1}
  BY <1>1
<1>3. CASE t \in S
  <2>1. Places(Append(q, t), S) = Places(q, S) \cup {Len(q) + 1}
    BY <1>1, <1>2, <1>3 DEF Places
  <2>2. Len(q) + 1 \notin Places(q, S)
    BY <1>1 DEF Places
  <2>. QED
    BY <2>1, <2>2, <1>3, PlacesFinite, FS_AddElement
<1>4. CASE t \notin S
  <2>1. Places(Append(q, t), S) = Places(q, S)
    BY <1>1, <1>2, <1>4 DEF Places
  <2>. QED
    BY <2>1, <1>4, PlacesFinite
<1>. QED
  BY <1>3, <1>4

\* Taking the front task frees one place of its own kind.
LEMMA PlacesTail ==
    ASSUME NEW q \in Seq(Tasks), q # <<>>, NEW S
    PROVE  Cardinality(Places(Tail(q), S))
             = Cardinality(Places(q, S)) - (IF Head(q) \in S THEN 1 ELSE 0)
<1>. DEFINE rest == Places(q, S) \ {1}
<1>1. /\ Len(q) \in Nat \ {0}
      /\ Tail(q) \in Seq(Tasks)
      /\ Len(Tail(q)) = Len(q) - 1
      /\ \A i \in 1..Len(Tail(q)) : Tail(q)[i] = q[i + 1]
      /\ Head(q) = q[1]
  BY LenProperties, HeadTailProperties, EmptySeq
<1>2. IsFiniteSet(rest) /\ Cardinality(rest)
        = Cardinality(Places(q, S)) - (IF 1 \in Places(q, S) THEN 1 ELSE 0)
  BY PlacesFinite, FS_RemoveElement
<1>3. 1 \in Places(q, S) <=> Head(q) \in S
  BY <1>1 DEF Places
<1>4. ExistsBijection(rest, Places(Tail(q), S))
  <2>. DEFINE f == [i \in rest |-> i - 1]
  <2>1. ASSUME NEW i \in rest PROVE i - 1 \in Places(Tail(q), S)
    <3>1. i \in 2..Len(q) /\ q[i] \in S
      BY <1>1 DEF Places
    <3>2. i - 1 \in 1..Len(Tail(q)) /\ Tail(q)[i - 1] = q[(i - 1) + 1] /\ (i - 1) + 1 = i
      BY <3>1, <1>1
    <3>. QED
      BY <3>1, <3>2 DEF Places
  <2>2. ASSUME NEW j \in Places(Tail(q), S) PROVE j + 1 \in rest /\ f[j + 1] = j
    <3>1. j \in 1..Len(Tail(q)) /\ q[j + 1] \in S
      BY <1>1 DEF Places
    <3>2. j + 1 \in 1..Len(q) /\ j + 1 # 1 /\ (j + 1) - 1 = j
      BY <3>1, <1>1
    <3>. QED
      BY <3>1, <3>2 DEF Places
  <2>3. rest \subseteq Int
    BY <1>1 DEF Places
  <2>4. f \in Injection(rest, Places(Tail(q), S))
    BY <2>1, <2>3 DEF Injection, IsInjective
  <2>5. f \in Surjection(rest, Places(Tail(q), S))
    <3>1. f \in [rest -> Places(Tail(q), S)]
      BY <2>1
    <3>2. \A j \in Places(Tail(q), S) : \E i \in rest : f[i] = j
      BY <2>2
    <3>. HIDE DEF f
    <3>. QED
      BY <3>1, <3>2 DEF Surjection
  <2>. HIDE DEF f
  <2>. QED
    BY <2>4, <2>5 DEF ExistsBijection, Bijection
<1>. HIDE DEF rest
<1>5. Cardinality(Places(Tail(q), S)) = Cardinality(rest)
  BY <1>2, <1>4, FS_Bijection
<1>. QED
  BY <1>2, <1>3, <1>5

\* Every place of a queue holds an ordinary task or a cleanup.
LEMMA PlacesSplit ==
    ASSUME NEW q \in Seq(Tasks)
    PROVE  Len(q) = Cardinality(Places(q, Ordinary)) + Cardinality(Places(q, Cleanup))
<1>. DEFINE os == Places(q, Ordinary)
            cs == Places(q, Cleanup)
<1>1. /\ Len(q) \in Nat
      /\ \A i \in 1..Len(q) : q[i] \in Ordinary \cup Cleanup
  BY LenProperties, ElementOfSeq DEF Tasks
<1>2. os \cup cs = 1..Len(q)
  BY <1>1 DEF Places
<1>3. os \cap cs = {}
  BY ExecutorAssumption DEF ExecutorAssumption, Places
<1>4. /\ IsFiniteSet(os) /\ Cardinality(os) \in Nat
      /\ IsFiniteSet(cs) /\ Cardinality(cs) \in Nat
  BY PlacesFinite
<1>. HIDE DEF os, cs
<1>5. Cardinality(os \cup cs) = Len(q)
  <2>1. Cardinality(1..Len(q)) = Len(q)
    BY <1>1, FS_Interval
  <2>. QED
    BY <2>1, <1>2, Zenon
<1>6. Cardinality(os \cup cs) = Cardinality(os) + Cardinality(cs) - Cardinality(os \cap cs)
  BY <1>4, FS_Union
<1>7. Cardinality(os \cap cs) = 0
  BY <1>3, FS_EmptySet
<1>8. Len(q) = Cardinality(os) + Cardinality(cs)
  BY <1>1, <1>4, <1>5, <1>6, <1>7
<1>. QED
  BY <1>8 DEF os, cs

-----------------------------------------------------------------------------
(* The parts of the invariant *)

\* Workers are finitely many, so active_ can count the busy ones.
LEMMA BusyFinite == IsFiniteSet(Busy) /\ Cardinality(Busy) \in Nat
<1>1. Busy \in SUBSET Workers
  BY DEF Busy
<1>2. IsFiniteSet(Busy)
  BY <1>1, FS_Subset, ExecutorAssumption DEF ExecutorAssumption
<1>. QED
  BY <1>2, FS_CardinalityType

\* submit_impl keeps the queue and its count: an admitted ordinary task leaves
\* the reserve free, a cleanup only needs a place.
LEMMA PushCounts ==
    ASSUME ExecutorInvariant, NEW t \in Tasks, Push(t)
    PROVE  /\ queue' \in Seq(Tasks) /\ ordinaryQueued' \in Nat /\ QueueCounted'
           /\ task' \in [Tasks -> {"new", "refused", "queued", "running", "done"}]
<1>. USE ExecutorAssumption DEF ExecutorAssumption
<1>1. /\ queue \in Seq(Tasks) /\ Len(queue) \in Nat /\ ordinaryQueued \in Nat
      /\ ordinaryQueued = Cardinality(Places(queue, Ordinary))
      /\ ordinaryQueued <= Capacity - Reserve
      /\ Len(queue) <= Capacity
  BY LenProperties DEF ExecutorInvariant, ExecutorTypeOK, QueueCounted
<1>2. task' \in [Tasks -> {"new", "refused", "queued", "running", "done"}]
  BY DEF Push, ExecutorInvariant, ExecutorTypeOK
<1>3. CASE Admits(t)
  <2>1. queue' = Append(queue, t)
    BY <1>3 DEF Push
  <2>2. queue' \in Seq(Tasks) /\ Len(queue') = Len(queue) + 1
    BY <1>1, <2>1, AppendProperties
  <2>3. Cardinality(Places(queue', Ordinary))
          = Cardinality(Places(queue, Ordinary)) + (IF t \in Ordinary THEN 1 ELSE 0)
    BY <1>1, <2>1, PlacesAppend
  <2>4. Len(queue) < Capacity /\ (t \in Ordinary => ordinaryQueued < Capacity - Reserve)
    BY <1>3 DEF Admits
  <2>5. ordinaryQueued' = ordinaryQueued + (IF t \in Ordinary THEN 1 ELSE 0)
    BY <1>1, <1>3 DEF Push
  <2>6. ordinaryQueued' \in Nat /\ ordinaryQueued' <= Capacity - Reserve
    BY <1>1, <2>4, <2>5
  <2>7. ordinaryQueued' = Cardinality(Places(queue', Ordinary))
    BY <1>1, <2>3, <2>5
  <2>8. Len(queue') <= Capacity
    BY <1>1, <2>2, <2>4
  <2>9. QueueCounted'
    BY <2>6, <2>7, <2>8 DEF QueueCounted
  <2>. QED
    BY <1>2, <2>2, <2>6, <2>9
<1>4. CASE ~Admits(t)
  <2>1. queue' = queue /\ ordinaryQueued' = ordinaryQueued
    BY <1>4 DEF Push
  <2>2. QueueCounted'
    BY <2>1, <1>1 DEF QueueCounted, Places
  <2>. QED
    BY <1>1, <1>2, <2>1, <2>2
<1>. QED
  BY <1>3, <1>4

\* Taking the front task keeps the queue and its count.
LEMMA TakeCounts ==
    ASSUME ExecutorInvariant, NEW w \in Workers, Take(w)
    PROVE  /\ queue' \in Seq(Tasks) /\ ordinaryQueued' \in Nat /\ QueueCounted'
           /\ Head(queue) \in Tasks
<1>. USE ExecutorAssumption DEF ExecutorAssumption
<1>1. /\ queue \in Seq(Tasks) /\ Len(queue) \in Nat /\ ordinaryQueued \in Nat
      /\ ordinaryQueued = Cardinality(Places(queue, Ordinary))
      /\ ordinaryQueued <= Capacity - Reserve
      /\ Len(queue) <= Capacity
  BY LenProperties DEF ExecutorInvariant, ExecutorTypeOK, QueueCounted
<1>2. queue # <<>> /\ queue' = Tail(queue)
  BY DEF Take
<1>3. /\ Head(queue) \in Tasks
      /\ queue' \in Seq(Tasks) /\ Len(queue') = Len(queue) - 1
  BY <1>1, <1>2, HeadTailProperties
<1>4. Cardinality(Places(queue', Ordinary))
        = Cardinality(Places(queue, Ordinary)) - (IF Head(queue) \in Ordinary THEN 1 ELSE 0)
  BY <1>1, <1>2, PlacesTail
<1>5. ordinaryQueued' = ordinaryQueued - (IF Head(queue) \in Ordinary THEN 1 ELSE 0)
  BY <1>1 DEF Take, OrdinaryAfter
<1>6. Cardinality(Places(queue', Ordinary)) \in Nat
  BY <1>3, PlacesFinite
<1>7. ordinaryQueued' = Cardinality(Places(queue', Ordinary))
  BY <1>1, <1>4, <1>5
<1>8. ordinaryQueued' <= Capacity - Reserve /\ Len(queue') <= Capacity
  BY <1>1, <1>3, <1>5
<1>9. QueueCounted'
  BY <1>7, <1>8 DEF QueueCounted
<1>. QED
  BY <1>3, <1>6, <1>7, <1>9

\* A step that leaves the queue alone leaves its count right.
LEMMA SameQueue ==
    ASSUME ExecutorInvariant, queue' = queue, ordinaryQueued' = ordinaryQueued
    PROVE  queue' \in Seq(Tasks) /\ ordinaryQueued' \in Nat /\ QueueCounted'
BY DEF ExecutorInvariant, ExecutorTypeOK, QueueCounted, Places

\* A step that leaves the busy workers alone leaves active_ right.
LEMMA SameBusy ==
    ASSUME ExecutorInvariant, Busy' = Busy, active' = active
    PROVE  active' \in Nat /\ ActiveExact'
BY DEF ExecutorInvariant, ExecutorTypeOK, ActiveExact

\* An admitted task is found in the queue, and no other task moves.
LEMMA PushLocates ==
    ASSUME ExecutorInvariant, NEW t \in Tasks, Push(t), Busy' = Busy, running' = running
    PROVE  Located'
<1>1. queue \in Seq(Tasks) /\ Located
  BY DEF ExecutorInvariant, ExecutorTypeOK
<1>2. \A u \in Tasks : u # t => task'[u] = task[u]
  BY DEF Push, ExecutorInvariant, ExecutorTypeOK
<1>3. task'[t] \in {"queued", "refused"} /\ (task'[t] = "queued" => Admits(t))
  BY DEF Push, ExecutorInvariant, ExecutorTypeOK
<1>4. ASSUME NEW u \in Tasks, task'[u] = "queued"
      PROVE  \E i \in 1..Len(queue') : queue'[i] = u
  <2>1. CASE Admits(t)
    <3>1. queue' = Append(queue, t)
      BY <2>1 DEF Push
    <3>2. /\ Len(queue) \in Nat /\ Len(queue') = Len(queue) + 1
          /\ \A i \in 1..Len(queue) : queue'[i] = queue[i]
          /\ queue'[Len(queue) + 1] = t
      BY <1>1, <3>1, LenProperties, AppendProperties
    <3>3. CASE u = t
      BY <3>2, <3>3
    <3>4. CASE u # t
      <4>1. PICK i \in 1..Len(queue) : queue[i] = u
        BY <1>1, <1>2, <1>4, <3>4 DEF Located
      <4>. QED
        BY <3>2, <4>1
    <3>. QED
      BY <3>3, <3>4
  <2>2. CASE ~Admits(t)
    <3>1. queue' = queue /\ u # t
      BY <1>3, <1>4, <2>2 DEF Push
    <3>. QED
      BY <1>1, <1>2, <1>4, <3>1 DEF Located
  <2>. QED
    BY <2>1, <2>2
<1>5. ASSUME NEW u \in Tasks, task'[u] = "running"
      PROVE  \E w \in Busy' : running'[w] = u
  BY <1>1, <1>2, <1>3, <1>5 DEF Located
<1>. QED
  BY <1>4, <1>5 DEF Located

\* A fresh executor satisfies the invariant.
LEMMA ExecutorInitInvariant == ExecutorInit => ExecutorInvariant
<1>. SUFFICES ASSUME ExecutorInit PROVE ExecutorInvariant
  OBVIOUS
<1>. USE ExecutorAssumption DEF ExecutorAssumption, ExecutorInit
<1>1. ExecutorTypeOK
  BY EmptySeq DEF ExecutorTypeOK
<1>2. Places(queue, Ordinary) = {} /\ Len(queue) = 0
  BY EmptySeq DEF Places
<1>3. QueueCounted
  <2>1. Cardinality(Places(queue, Ordinary)) = 0
    BY <1>2, FS_EmptySet, Zenon
  <2>. QED
    BY <1>2, <2>1 DEF QueueCounted
<1>4. Busy = {}
  BY DEF Busy
<1>5. ActiveExact
  BY <1>4, FS_EmptySet DEF ActiveExact
<1>6. Located /\ Staged /\ NoLostWakeup
  BY DEF Located, Staged, NoLostWakeup
<1>. QED
  BY <1>1, <1>3, <1>5, <1>6 DEF ExecutorInvariant

\* Every critical section and every notification keeps the invariant.
LEMMA ExecutorStep ==
    ExecutorInvariant /\ [ExecutorNext]_executorVars => ExecutorInvariant'
<1>. SUFFICES ASSUME ExecutorInvariant, [ExecutorNext]_executorVars
              PROVE  ExecutorInvariant'
  OBVIOUS
<1>. USE ExecutorAssumption DEF ExecutorAssumption
<1>1. ExecutorTypeOK
  BY DEF ExecutorInvariant
<1>2. Located
  BY DEF ExecutorInvariant
<1>3. Staged
  BY DEF ExecutorInvariant
<1>4. NoLostWakeup
  BY DEF ExecutorInvariant
<1>5. ASSUME NEW t \in Tasks, Submit(t)
      PROVE  ExecutorInvariant'
  <2>1. Push(t) /\ UNCHANGED <<active, accepting, stopping, worker, running, drainer, closer>>
    BY <1>5 DEF Submit
  <2>2. /\ queue' \in Seq(Tasks) /\ ordinaryQueued' \in Nat /\ QueueCounted'
        /\ task' \in [Tasks -> {"new", "refused", "queued", "running", "done"}]
    BY <2>1, PushCounts
  <2>3. notifying' \subseteq Tasks
    BY <1>1, <1>5 DEF Submit, ExecutorTypeOK
  <2>4. ExecutorTypeOK'
    BY <1>1, <2>1, <2>2, <2>3 DEF ExecutorTypeOK
  <2>5. Busy' = Busy
    BY <2>1 DEF Busy
  <2>6. ActiveExact'
    BY <2>1, <2>5, SameBusy
  <2>7. Located'
    BY <2>1, <2>5, PushLocates
  <2>8. Staged'
    BY <1>3, <1>5, <2>1 DEF Submit, Push, Admits, Staged
  <2>9. NoLostWakeup'
    BY <1>4, <1>5, <2>1 DEF Submit, Push, NoLostWakeup
  <2>. QED
    BY <2>2, <2>4, <2>6, <2>7, <2>8, <2>9 DEF ExecutorInvariant
<1>6. ASSUME NEW t \in Tasks, SubmitNotify(t)
      PROVE  ExecutorInvariant'
  <2>1. /\ queue' = queue /\ ordinaryQueued' = ordinaryQueued
        /\ active' = active /\ task' = task /\ running' = running
    BY <1>6 DEF SubmitNotify
  <2>2. ExecutorTypeOK'
    BY <1>1, <1>6, <2>1 DEF SubmitNotify, ExecutorTypeOK, NotifyOne
  <2>3. Busy' = Busy
    BY <1>1, <1>6 DEF SubmitNotify, Busy, ExecutorTypeOK, NotifyOne
  <2>4. QueueCounted' /\ ActiveExact'
    BY <2>1, <2>3, SameQueue, SameBusy
  <2>5. Located'
    BY <1>2, <2>1, <2>3 DEF Located
  <2>6. Staged'
    BY <1>1, <1>3, <1>6, <2>1, <2>3 DEF SubmitNotify, Staged, ExecutorTypeOK, NotifyOne
  <2>7. NoLostWakeup'
    BY <1>1, <1>3, <1>4, <1>6, <2>1 DEF SubmitNotify, Staged, NoLostWakeup, ExecutorTypeOK, NotifyOne
  <2>. QED
    BY <2>2, <2>4, <2>5, <2>6, <2>7 DEF ExecutorInvariant
<1>7. ASSUME NEW w \in Workers, Sleep(w)
      PROVE  ExecutorInvariant'
  <2>1. /\ queue' = queue /\ ordinaryQueued' = ordinaryQueued
        /\ active' = active /\ task' = task /\ running' = running
    BY <1>7 DEF Sleep
  <2>2. ExecutorTypeOK'
    BY <1>1, <1>7, <2>1 DEF Sleep, ExecutorTypeOK
  <2>3. Busy' = Busy
    BY <1>1, <1>7 DEF Sleep, Busy, ExecutorTypeOK
  <2>4. QueueCounted' /\ ActiveExact'
    BY <2>1, <2>3, SameQueue, SameBusy
  <2>5. Located'
    BY <1>2, <2>1, <2>3 DEF Located
  <2>6. Staged'
    BY <1>1, <1>3, <1>7, <2>1, <2>3 DEF Sleep, Staged, ExecutorTypeOK
  <2>7. NoLostWakeup'
    BY <1>1, <1>3, <1>4, <1>7, <2>1 DEF Sleep, Staged, NoLostWakeup, ExecutorTypeOK
  <2>. QED
    BY <2>2, <2>4, <2>5, <2>6, <2>7 DEF ExecutorInvariant
<1>8. ASSUME NEW w \in Workers, Leave(w)
      PROVE  ExecutorInvariant'
  <2>1. /\ queue' = queue /\ ordinaryQueued' = ordinaryQueued
        /\ active' = active /\ task' = task /\ running' = running
    BY <1>8 DEF Leave
  <2>2. ExecutorTypeOK'
    BY <1>1, <1>8, <2>1 DEF Leave, ExecutorTypeOK
  <2>3. Busy' = Busy
    BY <1>1, <1>8 DEF Leave, Busy, ExecutorTypeOK
  <2>4. QueueCounted' /\ ActiveExact'
    BY <2>1, <2>3, SameQueue, SameBusy
  <2>5. Located'
    BY <1>2, <2>1, <2>3 DEF Located
  <2>6. Staged'
    BY <1>1, <1>3, <1>8, <2>1, <2>3 DEF Leave, Staged, ExecutorTypeOK
  <2>7. NoLostWakeup'
    BY <1>1, <1>3, <1>4, <1>8, <2>1 DEF Leave, Staged, NoLostWakeup, ExecutorTypeOK
  <2>. QED
    BY <2>2, <2>4, <2>5, <2>6, <2>7 DEF ExecutorInvariant
<1>9. ASSUME NEW w \in Workers, Take(w)
      PROVE  ExecutorInvariant'
  <2>1. /\ queue' \in Seq(Tasks) /\ ordinaryQueued' \in Nat /\ QueueCounted'
        /\ Head(queue) \in Tasks
    BY <1>9, TakeCounts
  <2>2. ExecutorTypeOK'
    BY <1>1, <1>9, <2>1 DEF Take, ExecutorTypeOK
  <2>3. Busy' = Busy \cup {w} /\ w \notin Busy
    BY <1>1, <1>9 DEF Take, Busy, ExecutorTypeOK
  <2>4. Cardinality(Busy') = Cardinality(Busy) + 1
    BY <2>3, BusyFinite, FS_AddElement
  <2>5. ActiveExact'
    BY <1>9, <2>4 DEF Take, ActiveExact, ExecutorInvariant
  <2>6. Located'
    <3>1. ASSUME NEW t \in Tasks, task'[t] = "queued"
          PROVE  \E i \in 1..Len(queue') : queue'[i] = t
      <4>1. task[t] = "queued" /\ t # Head(queue)
        BY <1>1, <1>9, <2>1, <3>1 DEF Take, ExecutorTypeOK
      <4>2. PICK i \in 1..Len(queue) : queue[i] = t
        BY <1>2, <4>1 DEF Located
      <4>3. /\ queue # <<>> /\ queue' = Tail(queue) /\ queue \in Seq(Tasks)
            /\ Head(queue) = queue[1]
        BY <1>1, <1>9 DEF Take, ExecutorTypeOK
      <4>4. /\ Len(queue) \in Nat /\ Len(Tail(queue)) = Len(queue) - 1
            /\ \A j \in 1..Len(Tail(queue)) : Tail(queue)[j] = queue[j + 1]
        BY <4>3, LenProperties, HeadTailProperties
      <4>5. i # 1
        BY <4>1, <4>2, <4>3
      <4>6. i - 1 \in 1..Len(Tail(queue)) /\ (i - 1) + 1 = i
        BY <4>2, <4>4, <4>5
      <4>. QED
        BY <4>2, <4>3, <4>4, <4>6
    <3>2. ASSUME NEW t \in Tasks, task'[t] = "running"
          PROVE  \E v \in Busy' : running'[v] = t
      <4>1. CASE t = Head(queue)
        BY <1>1, <1>9, <2>3, <4>1 DEF Take, ExecutorTypeOK
      <4>2. CASE t # Head(queue)
        <5>1. task[t] = "running"
          BY <1>1, <1>9, <2>1, <3>2, <4>2 DEF Take, ExecutorTypeOK
        <5>2. PICK v \in Busy : running[v] = t
          BY <1>2, <5>1 DEF Located
        <5>3. v # w /\ v \in Workers
          BY <2>3 DEF Busy
        <5>4. running'[v] = t
          BY <1>1, <1>9, <5>2, <5>3 DEF Take, ExecutorTypeOK
        <5>. QED
          BY <2>3, <5>2, <5>4
      <4>. QED
        BY <4>1, <4>2
    <3>. QED
      BY <3>1, <3>2 DEF Located
  <2>7. Staged'
    BY <1>1, <1>3, <1>9, <2>3 DEF Take, Staged, ExecutorTypeOK
  <2>8. NoLostWakeup'
    BY <1>1, <1>9 DEF Take, NoLostWakeup, ExecutorTypeOK
  <2>. QED
    BY <2>1, <2>2, <2>5, <2>6, <2>7, <2>8 DEF ExecutorInvariant
<1>10. ASSUME NEW w \in Workers, Finish(w)
       PROVE  ExecutorInvariant'
  <2>1. /\ queue' = queue /\ ordinaryQueued' = ordinaryQueued
        /\ active' = active - 1
        /\ UNCHANGED <<accepting, stopping, notifying, closer>>
    BY <1>10 DEF Finish
  <2>2. Busy' = Busy \ {w} /\ w \in Busy
    BY <1>1, <1>10 DEF Finish, Busy, ExecutorTypeOK
  <2>3. Cardinality(Busy') = Cardinality(Busy) - 1
    BY <2>2, BusyFinite, FS_RemoveElement
  <2>4. Cardinality(Busy) # 0
    BY <2>2, BusyFinite, FS_EmptySet
  <2>5. ActiveExact' /\ active' \in Nat
    BY <2>1, <2>3, <2>4, BusyFinite DEF ActiveExact, ExecutorInvariant
  <2>6. QueueCounted' /\ queue' \in Seq(Tasks) /\ ordinaryQueued' \in Nat
    BY <2>1, SameQueue
  <2>7. /\ task' \in [Tasks -> {"new", "refused", "queued", "running", "done"}]
        /\ running' \in [Workers -> Tasks \cup {NoTask}]
    BY <1>1, <1>10 DEF Finish, ExecutorTypeOK
  <2>8. /\ worker' \in [Workers -> {"check", "wait", "run", "notify", "exit"}]
        /\ drainer' \in {"idle", "check", "wait", "returned"}
    BY <1>1, <1>10 DEF Finish, ExecutorTypeOK
  <2>9. ExecutorTypeOK'
    BY <1>1, <2>1, <2>5, <2>6, <2>7, <2>8 DEF ExecutorTypeOK
  <2>10. Located'
    <3>1. ASSUME NEW t \in Tasks, task'[t] # "done" PROVE task'[t] = task[t] /\ t # running[w]
      BY <1>1, <1>10, <3>1 DEF Finish, ExecutorTypeOK
    <3>2. ASSUME NEW t \in Tasks, task'[t] = "queued"
          PROVE  \E i \in 1..Len(queue') : queue'[i] = t
      BY <1>2, <2>1, <3>1, <3>2 DEF Located
    <3>3. ASSUME NEW t \in Tasks, task'[t] = "running"
          PROVE  \E v \in Busy' : running'[v] = t
      <4>1. t # running[w] /\ task[t] = "running"
        BY <3>1, <3>3
      <4>2. PICK v \in Busy : running[v] = t
        BY <1>2, <4>1 DEF Located
      <4>3. v # w /\ v \in Workers
        BY <4>1, <4>2 DEF Busy
      <4>4. running'[v] = t
        BY <1>1, <1>10, <4>2, <4>3 DEF Finish, ExecutorTypeOK
      <4>. QED
        BY <2>2, <4>2, <4>3, <4>4
    <3>. QED
      BY <3>2, <3>3 DEF Located
  <2>11. Staged'
    <3>1. drainer' = "returned" => drainer = "returned"
      BY <1>10 DEF Finish
    <3>2. drainer = "idle" => drainer' = "idle"
      BY <1>10 DEF Finish
    <3>3. \A v \in Workers : worker'[v] = "exit" <=> worker[v] = "exit"
      BY <1>1, <1>10 DEF Finish, ExecutorTypeOK
    <3>. QED
      BY <1>3, <2>1, <2>2, <3>1, <3>2, <3>3 DEF Staged
  <2>12. NoLostWakeup'
    <3>1. worker'[w] = "check"
      BY <1>1, <1>10 DEF Finish, ExecutorTypeOK
    <3>. QED
      BY <3>1 DEF NoLostWakeup
  <2>. QED
    BY <2>5, <2>6, <2>9, <2>10, <2>11, <2>12 DEF ExecutorInvariant
<1>11. ASSUME NEW w \in Workers, NEW t \in Tasks, Spawn(w, t)
       PROVE  ExecutorInvariant'
  <2>1. Push(t) /\ UNCHANGED <<active, accepting, stopping, running, notifying, drainer, closer>>
    BY <1>11 DEF Spawn
  <2>2. /\ queue' \in Seq(Tasks) /\ ordinaryQueued' \in Nat /\ QueueCounted'
        /\ task' \in [Tasks -> {"new", "refused", "queued", "running", "done"}]
    BY <2>1, PushCounts
  <2>3. /\ worker' \in [Workers -> {"check", "wait", "run", "notify", "exit"}]
        /\ worker'[w] \in {"run", "notify"}
        /\ \A v \in Workers : worker'[v] = "exit" => worker[v] = "exit"
        /\ \A v \in Workers : worker[v] = "exit" => worker'[v] = "exit"
    BY <1>1, <1>11 DEF Spawn, ExecutorTypeOK
  <2>4. ExecutorTypeOK'
    BY <1>1, <2>1, <2>2, <2>3 DEF ExecutorTypeOK
  <2>5. Busy' = Busy /\ w \in Busy
    BY <1>1, <1>11 DEF Spawn, Busy, ExecutorTypeOK
  <2>6. ActiveExact'
    BY <2>1, <2>5, SameBusy
  <2>7. Located'
    BY <2>1, <2>5, PushLocates
  <2>8. Staged'
    <3>1. stopping => queue' = queue
      BY <2>1 DEF Push, Admits
    <3>. QED
      BY <1>3, <2>1, <2>3, <2>5, <3>1 DEF Staged
  <2>9. NoLostWakeup'
    BY <2>3 DEF NoLostWakeup
  <2>. QED
    BY <2>2, <2>4, <2>6, <2>7, <2>8, <2>9 DEF ExecutorInvariant
<1>12. ASSUME NEW w \in Workers, SpawnNotify(w)
      PROVE  ExecutorInvariant'
  <2>1. /\ queue' = queue /\ ordinaryQueued' = ordinaryQueued
        /\ active' = active /\ task' = task /\ running' = running
    BY <1>12 DEF SpawnNotify
  <2>2. ExecutorTypeOK'
    BY <1>1, <1>12, <2>1 DEF SpawnNotify, ExecutorTypeOK, NotifyOne
  <2>3. Busy' = Busy
    BY <1>1, <1>12 DEF SpawnNotify, Busy, ExecutorTypeOK, NotifyOne
  <2>4. QueueCounted' /\ ActiveExact'
    BY <2>1, <2>3, SameQueue, SameBusy
  <2>5. Located'
    BY <1>2, <2>1, <2>3 DEF Located
  <2>6. Staged'
    BY <1>1, <1>3, <1>12, <2>1, <2>3 DEF SpawnNotify, Staged, ExecutorTypeOK, NotifyOne
  <2>7. NoLostWakeup'
    BY <1>1, <1>3, <1>4, <1>12, <2>1 DEF SpawnNotify, Staged, NoLostWakeup, ExecutorTypeOK, NotifyOne
  <2>. QED
    BY <2>2, <2>4, <2>5, <2>6, <2>7 DEF ExecutorInvariant
<1>13. CASE StopAdmission
  <2>1. /\ queue' = queue /\ ordinaryQueued' = ordinaryQueued
        /\ active' = active /\ task' = task /\ running' = running
    BY <1>13 DEF StopAdmission
  <2>2. ExecutorTypeOK'
    BY <1>1, <1>13, <2>1 DEF StopAdmission, ExecutorTypeOK
  <2>3. Busy' = Busy
    BY <1>1, <1>13 DEF StopAdmission, Busy, ExecutorTypeOK
  <2>4. QueueCounted' /\ ActiveExact'
    BY <2>1, <2>3, SameQueue, SameBusy
  <2>5. Located'
    BY <1>2, <2>1, <2>3 DEF Located
  <2>6. Staged'
    BY <1>1, <1>3, <1>13, <2>1, <2>3 DEF StopAdmission, Staged, ExecutorTypeOK
  <2>7. NoLostWakeup'
    BY <1>1, <1>3, <1>4, <1>13, <2>1 DEF StopAdmission, Staged, NoLostWakeup, ExecutorTypeOK
  <2>. QED
    BY <2>2, <2>4, <2>5, <2>6, <2>7 DEF ExecutorInvariant
<1>14. CASE Drain
  <2>1. /\ queue' = queue /\ ordinaryQueued' = ordinaryQueued
        /\ active' = active /\ task' = task /\ running' = running
    BY <1>14 DEF Drain
  <2>2. ExecutorTypeOK'
    BY <1>1, <1>14, <2>1 DEF Drain, ExecutorTypeOK
  <2>3. Busy' = Busy
    BY <1>1, <1>14 DEF Drain, Busy, ExecutorTypeOK
  <2>4. QueueCounted' /\ ActiveExact'
    BY <2>1, <2>3, SameQueue, SameBusy
  <2>5. Located'
    BY <1>2, <2>1, <2>3 DEF Located
  <2>6. Staged'
    BY <1>1, <1>3, <1>14, <2>1, <2>3 DEF Drain, Staged, ExecutorTypeOK
  <2>7. NoLostWakeup'
    BY <1>1, <1>3, <1>4, <1>14, <2>1 DEF Drain, Staged, NoLostWakeup, ExecutorTypeOK
  <2>. QED
    BY <2>2, <2>4, <2>5, <2>6, <2>7 DEF ExecutorInvariant
<1>15. CASE Drained
  <2>1. /\ queue' = queue /\ ordinaryQueued' = ordinaryQueued
        /\ active' = active /\ task' = task /\ running' = running
    BY <1>15 DEF Drained
  <2>2. ExecutorTypeOK'
    BY <1>1, <1>15, <2>1 DEF Drained, ExecutorTypeOK
  <2>3. Busy' = Busy
    BY <1>1, <1>15 DEF Drained, Busy, ExecutorTypeOK
  <2>4. QueueCounted' /\ ActiveExact'
    BY <2>1, <2>3, SameQueue, SameBusy
  <2>5. Located'
    BY <1>2, <2>1, <2>3 DEF Located
  <2>6. Staged'
    <3>1. active = 0 => Busy = {}
      BY BusyFinite, FS_EmptySet DEF ExecutorInvariant, ActiveExact
    <3>. QED
      BY <1>1, <1>3, <1>15, <2>1, <2>3, <3>1 DEF Drained, Staged, ExecutorTypeOK
  <2>7. NoLostWakeup'
    BY <1>1, <1>3, <1>4, <1>15, <2>1 DEF Drained, Staged, NoLostWakeup, ExecutorTypeOK
  <2>. QED
    BY <2>2, <2>4, <2>5, <2>6, <2>7 DEF ExecutorInvariant
<1>16. CASE Shutdown
  <2>1. /\ queue' = queue /\ ordinaryQueued' = ordinaryQueued
        /\ active' = active /\ task' = task /\ running' = running
    BY <1>16 DEF Shutdown
  <2>2. ExecutorTypeOK'
    BY <1>1, <1>16, <2>1 DEF Shutdown, ExecutorTypeOK
  <2>3. Busy' = Busy
    BY <1>1, <1>16 DEF Shutdown, Busy, ExecutorTypeOK
  <2>4. QueueCounted' /\ ActiveExact'
    BY <2>1, <2>3, SameQueue, SameBusy
  <2>5. Located'
    BY <1>2, <2>1, <2>3 DEF Located
  <2>6. Staged'
    BY <1>1, <1>3, <1>16, <2>1, <2>3 DEF Shutdown, Staged, ExecutorTypeOK
  <2>7. NoLostWakeup'
    BY <1>1, <1>3, <1>4, <1>16, <2>1 DEF Shutdown, Staged, NoLostWakeup, ExecutorTypeOK
  <2>. QED
    BY <2>2, <2>4, <2>5, <2>6, <2>7 DEF ExecutorInvariant
<1>17. CASE ShutdownNotify
  <2>1. /\ queue' = queue /\ ordinaryQueued' = ordinaryQueued
        /\ active' = active /\ task' = task /\ running' = running
    BY <1>17 DEF ShutdownNotify
  <2>2. ExecutorTypeOK'
    BY <1>1, <1>17, <2>1 DEF ShutdownNotify, ExecutorTypeOK
  <2>3. Busy' = Busy
    BY <1>1, <1>17 DEF ShutdownNotify, Busy, ExecutorTypeOK
  <2>4. QueueCounted' /\ ActiveExact'
    BY <2>1, <2>3, SameQueue, SameBusy
  <2>5. Located'
    BY <1>2, <2>1, <2>3 DEF Located
  <2>6. Staged'
    BY <1>1, <1>3, <1>17, <2>1, <2>3 DEF ShutdownNotify, Staged, ExecutorTypeOK
  <2>7. NoLostWakeup'
    BY <1>1, <1>3, <1>4, <1>17, <2>1 DEF ShutdownNotify, Staged, NoLostWakeup, ExecutorTypeOK
  <2>. QED
    BY <2>2, <2>4, <2>5, <2>6, <2>7 DEF ExecutorInvariant
<1>18. CASE Join
  <2>1. /\ queue' = queue /\ ordinaryQueued' = ordinaryQueued
        /\ active' = active /\ task' = task /\ running' = running
    BY <1>18 DEF Join
  <2>2. ExecutorTypeOK'
    BY <1>1, <1>18, <2>1 DEF Join, ExecutorTypeOK
  <2>3. Busy' = Busy
    BY <1>1, <1>18 DEF Join, Busy, ExecutorTypeOK
  <2>4. QueueCounted' /\ ActiveExact'
    BY <2>1, <2>3, SameQueue, SameBusy
  <2>5. Located'
    BY <1>2, <2>1, <2>3 DEF Located
  <2>6. Staged'
    BY <1>1, <1>3, <1>18, <2>1, <2>3 DEF Join, Staged, ExecutorTypeOK
  <2>7. NoLostWakeup'
    BY <1>1, <1>3, <1>4, <1>18, <2>1 DEF Join, Staged, NoLostWakeup, ExecutorTypeOK
  <2>. QED
    BY <2>2, <2>4, <2>5, <2>6, <2>7 DEF ExecutorInvariant
<1>19. CASE UNCHANGED executorVars
  <2>1. /\ queue' = queue /\ ordinaryQueued' = ordinaryQueued
        /\ active' = active /\ task' = task /\ running' = running
    BY <1>19 DEF executorVars
  <2>2. ExecutorTypeOK'
    BY <1>1, <1>19, <2>1 DEF executorVars, ExecutorTypeOK
  <2>3. Busy' = Busy
    BY <1>1, <1>19 DEF executorVars, Busy, ExecutorTypeOK
  <2>4. QueueCounted' /\ ActiveExact'
    BY <2>1, <2>3, SameQueue, SameBusy
  <2>5. Located'
    BY <1>2, <2>1, <2>3 DEF Located
  <2>6. Staged'
    BY <1>1, <1>3, <1>19, <2>1, <2>3 DEF executorVars, Staged, ExecutorTypeOK
  <2>7. NoLostWakeup'
    BY <1>1, <1>3, <1>4, <1>19, <2>1 DEF executorVars, Staged, NoLostWakeup, ExecutorTypeOK
  <2>. QED
    BY <2>2, <2>4, <2>5, <2>6, <2>7 DEF ExecutorInvariant
<1>. QED
  BY <1>5, <1>6, <1>7, <1>8, <1>9, <1>10, <1>11, <1>12, <1>13, <1>14, <1>15, <1>16,
     <1>17, <1>18, <1>19
     DEF ExecutorNext, WorkerStep

-----------------------------------------------------------------------------
(* The theorems *)

\* The invariant holds in every behaviour of every executor.
THEOREM ExecutorSafe == ExecutorSpec => []ExecutorInvariant
BY ExecutorInitInvariant, ExecutorStep, PTL DEF ExecutorSpec

\* The reserve of cleanup places is never eaten by ordinary tasks.
THEOREM CleanupAlwaysHasRoom == ExecutorSpec => []CleanupHasRoom
<1>1. ExecutorInvariant => CleanupHasRoom
  <2>. SUFFICES ASSUME ExecutorInvariant PROVE CleanupHasRoom
    OBVIOUS
  <2>1. /\ queue \in Seq(Tasks)
        /\ ordinaryQueued = Cardinality(Places(queue, Ordinary))
        /\ ordinaryQueued <= Capacity - Reserve
        /\ Len(queue) <= Capacity
    BY DEF ExecutorInvariant, ExecutorTypeOK, QueueCounted
  <2>2. Len(queue) = Cardinality(Places(queue, Ordinary)) + Cardinality(Places(queue, Cleanup))
    BY <2>1, PlacesSplit
  <2>3. /\ Cardinality(Places(queue, Ordinary)) \in Nat
        /\ Cardinality(Places(queue, Cleanup)) \in Nat
    BY <2>1, PlacesFinite
  <2>. QED
    BY <2>1, <2>2, <2>3, ExecutorAssumption DEF CleanupHasRoom, ExecutorAssumption
<1>. QED
  BY <1>1, ExecutorSafe, PTL

\* Sharing one condition variable between workers and drain() loses no wakeup,
\* given that nobody submits from outside the pool while drain() waits.
THEOREM WakeupsNeverLost == ExecutorSpec => []NoLostWakeup
<1>1. ExecutorInvariant => NoLostWakeup
  BY DEF ExecutorInvariant
<1>. QED
  BY <1>1, ExecutorSafe, PTL

\* drain() returns only when the executor is idle, and it stays idle.
THEOREM DrainIsComplete == ExecutorSpec => []DrainedIsQuiet
<1>1. ExecutorInvariant => DrainedIsQuiet
  <2>. SUFFICES ASSUME ExecutorInvariant, drainer = "returned", NEW t \in Tasks
                PROVE  task[t] \notin {"queued", "running"}
    BY DEF DrainedIsQuiet
  <2>1. queue = <<>> /\ Busy = {}
    BY DEF ExecutorInvariant, Staged
  <2>2. 1..Len(queue) = {}
    BY <2>1, EmptySeq
  <2>. QED
    BY <2>1, <2>2 DEF ExecutorInvariant, Located
<1>. QED
  BY <1>1, ExecutorSafe, PTL

\* shutdown() returns only when every admitted task has run.
THEOREM ShutdownIsComplete == ExecutorSpec => []ClosedIsDone
<1>1. ExecutorInvariant => ClosedIsDone
  <2>. SUFFICES ASSUME ExecutorInvariant, closer = "closed", NEW t \in Tasks
                PROVE  task[t] \in {"new", "refused", "done"}
    BY DEF ClosedIsDone
  <2>1. \A w \in Workers : worker[w] = "exit"
    BY DEF ExecutorInvariant, Staged
  <2>2. queue = <<>> /\ Busy = {}
    BY <2>1, ExecutorAssumption DEF ExecutorInvariant, Staged, Busy, ExecutorAssumption
  <2>3. 1..Len(queue) = {}
    BY <2>2, EmptySeq
  <2>4. task[t] \notin {"queued", "running"}
    BY <2>2, <2>3 DEF ExecutorInvariant, Located
  <2>. QED
    BY <2>4 DEF ExecutorInvariant, ExecutorTypeOK
<1>. QED
  BY <1>1, ExecutorSafe, PTL
===============================================================================
