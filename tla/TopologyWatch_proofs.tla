------------------------ MODULE TopologyWatch_proofs ------------------------
(***************************************************************************)
(* Proof that a topology stream that writes nothing has shown the newest   *)
(* published snapshot, or is about to be offered it, for any number of     *)
(* streams and any number of changes.                                      *)
(***************************************************************************)
EXTENDS TopologyWatch, TLAPS

Building == {"subscribe", "cached", "offer", "start"}

WatchState ==
    [at: {"none", "built"} \cup Building, after: Nat, writing: Nat, inFlight: BOOLEAN,
     pending: Nat, cached: Nat, overtaken: BOOLEAN, subscribed: BOOLEAN, terminal: BOOLEAN,
     gate: {"Open", "Finishing", "Done"}]

TopologyTypes ==
    /\ structure \in Nat
    /\ snapshot \in [sequence: Nat \ {0}, of: Nat]
    /\ published \in Nat
    /\ offering \in [at: {"idle", "publish", "offer"}, sequence: Nat, left: SUBSET Watches]
    /\ topologyHub \in BOOLEAN
    /\ watch \in [Watches -> WatchState]
    /\ shown \in [Watches -> Nat]

(* One thread takes the snapshots and publishes them: the one it offers is *)
(* the newest there is.                                                    *)
NewestOffered ==
    /\ published <= snapshot.sequence
    /\ offering.at # "idle" =>
         offering.sequence = published /\ published = snapshot.sequence

(* What a reactor is about to write is newer than what it has written, and *)
(* nothing is newer than the snapshot.                                     *)
Ordered(w) ==
    LET x == watch[w] IN
    /\ x.after <= snapshot.sequence /\ x.writing <= snapshot.sequence
    /\ x.pending <= snapshot.sequence /\ x.cached <= snapshot.sequence
    /\ x.inFlight => x.writing > x.after
    /\ x.pending # 0 => x.pending > x.writing /\ (x.inFlight \/ x.terminal)
    /\ x.at \in {"offer", "start"} => x.cached > 0
    /\ x.at = "start" /\ x.inFlight => x.writing >= x.cached

(* A reactor's life: nothing is finished or written before it is built, and *)
(* a terminal one with no write has called Finish.                         *)
LifeIsOrdered(w) ==
    LET x == watch[w] IN
    /\ x.at # "built" => ~x.terminal /\ x.gate = "Open" /\ x.after = 0
    /\ x.at \in {"none", "subscribe"} => ~x.inFlight /\ ~x.subscribed /\ x.pending = 0
    /\ x.terminal /\ ~x.inFlight => x.gate # "Open"
    /\ x.gate # "Open" => x.terminal /\ ~x.inFlight
    /\ ~x.terminal => shown[w] = x.after
    /\ x.subscribed => topologyHub /\ ~x.terminal
    /\ topologyHub /\ ~x.terminal /\ x.at \notin {"none", "subscribe"} => x.subscribed
    /\ w \in offering.left => x.at \notin {"none", "subscribe"}

Owed(w) == offering.at = "publish" \/ (offering.at = "offer" /\ w \in offering.left)

(* Where the newest published snapshot is, for a stream that is heard; what *)
(* is pending is never older.                                              *)
Covered(w) ==
    LET x == watch[w] IN
    topologyHub /\ ~x.terminal =>
        /\ x.pending # 0 => x.pending >= published \/ Owed(w)
        /\ x.at \in {"offer", "start", "built"} =>
             \/ Owed(w)
             \/ x.at # "built" /\ x.cached >= published
             \/ x.inFlight /\ x.writing >= published
             \/ x.inFlight /\ x.pending >= published
             \/ x.at = "built" /\ x.inFlight /\ x.overtaken /\ x.writing = x.cached
             \/ x.at = "built" /\ ~x.inFlight /\ x.after >= published
             \/ x.at = "built" /\ ~x.inFlight /\ x.overtaken /\ x.after = x.cached

Kept(w) == Ordered(w) /\ LifeIsOrdered(w) /\ Covered(w)

TopologyInductive ==
    /\ TopologyTypes
    /\ NewestOffered
    /\ \A w \in Watches : Kept(w)

-----------------------------------------------------------------------------
(* A stream that a step leaves alone stays as it should be, when snapshots *)
(* only grow and it is not left out of a publication.                      *)
LEMMA Untouched ==
    ASSUME TopologyInductive, NEW w \in Watches,
           snapshot'.sequence \in Nat, snapshot'.sequence >= snapshot.sequence,
           watch'[w] = watch[w], shown'[w] = shown[w], topologyHub' = topologyHub,
           published' = published \/ Owed(w)',
           Owed(w) => Owed(w)', w \in offering'.left => w \in offering.left
    PROVE  Kept(w)'
<1>1. /\ watch[w] \in WatchState /\ snapshot.sequence \in Nat
      /\ Ordered(w) /\ LifeIsOrdered(w) /\ Covered(w)
  BY DEF TopologyInductive, TopologyTypes, Kept
<1>2. Ordered(w)'
  BY <1>1 DEF Ordered, WatchState
<1>3. LifeIsOrdered(w)'
  BY <1>1 DEF LifeIsOrdered
<1>4. Covered(w)'
  BY <1>1 DEF Covered
<1> QED
  BY <1>2, <1>3, <1>4 DEF Kept

(* The worker's steps: a new snapshot, a publication, the copy of the      *)
(* callbacks and its end.                                                  *)
LEMMA WorkerKeeps ==
    ASSUME TopologyInductive,
           StructureChanges \/ GetTopology \/ RefreshTopology \/ RefreshFails \/ CopyWatches
             \/ OffersDone
    PROVE  TopologyInductive'
<1> USE DEF TopologyInductive, TopologyTypes
<1>1. UNCHANGED <<watch, shown, topologyHub>>
  BY DEF StructureChanges, GetTopology, RefreshTopology, RefreshFails, CopyWatches, OffersDone,
         reactorVars
<1>2. /\ Refreshed \in [sequence: Nat \ {0}, of: Nat]
      /\ Refreshed.sequence >= snapshot.sequence
  BY DEF Refreshed
<1>3. CASE StructureChanges \/ GetTopology \/ RefreshFails
  <2>1. /\ structure' \in Nat /\ snapshot' \in [sequence: Nat \ {0}, of: Nat]
        /\ snapshot'.sequence >= snapshot.sequence
        /\ offering.at = "idle" \/ snapshot' = snapshot
        /\ UNCHANGED <<published, offering>>
    BY <1>2, <1>3 DEF StructureChanges, GetTopology, RefreshFails
  <2>2. NewestOffered'
    BY <2>1 DEF NewestOffered
  <2>3. \A w \in Watches : Kept(w)'
    BY <1>1, <2>1, Untouched DEF Owed
  <2> QED
    BY <1>1, <2>1, <2>2, <2>3
<1>4. CASE RefreshTopology
  <2>1. /\ offering.at = "idle" /\ snapshot' = Refreshed /\ structure' = structure
        /\ \/ UNCHANGED <<published, offering>>
           \/ /\ published' = Refreshed.sequence
              /\ offering' = [offering EXCEPT !.at = "publish", !.sequence = Refreshed.sequence]
    BY <1>4 DEF RefreshTopology
  <2>2. NewestOffered' /\ published' \in Nat
        /\ offering' \in [at: {"idle", "publish", "offer"}, sequence: Nat, left: SUBSET Watches]
    <3>1. CASE UNCHANGED <<published, offering>>
      BY <1>2, <2>1, <3>1 DEF NewestOffered
    <3>2. CASE /\ published' = Refreshed.sequence
               /\ offering' = [offering EXCEPT !.at = "publish", !.sequence = Refreshed.sequence]
      <4>1. Refreshed.sequence \in Nat
        BY <1>2
      <4>2. /\ offering' \in [at: {"idle", "publish", "offer"}, sequence: Nat,
                              left: SUBSET Watches]
            /\ offering'.sequence = Refreshed.sequence
        BY <3>2, <4>1
      <4>3. published' = Refreshed.sequence /\ snapshot'.sequence = Refreshed.sequence
        BY <2>1, <3>2
      <4> QED
        BY <4>1, <4>2, <4>3 DEF NewestOffered
    <3> QED
      BY <2>1, <3>1, <3>2
  <2>3. \A w \in Watches : ~Owed(w) /\ (published' = published \/ Owed(w)')
    BY <2>1 DEF Owed
  <2>4. \A w \in Watches : Kept(w)'
    BY <1>1, <1>2, <2>1, <2>3, Untouched
  <2> QED
    BY <1>1, <1>2, <2>1, <2>2, <2>4
<1>5. CASE CopyWatches
  <2>1. /\ offering.at = "publish"
        /\ offering' = [offering EXCEPT !.at = "offer",
                          !.left = {w \in Watches : topologyHub /\ watch[w].subscribed}]
        /\ UNCHANGED <<structure, snapshot, published>>
    BY <1>5 DEF CopyWatches
  <2>2. /\ NewestOffered'
        /\ offering' \in [at: {"idle", "publish", "offer"}, sequence: Nat, left: SUBSET Watches]
    BY <2>1 DEF NewestOffered
  <2>3. ASSUME NEW w \in Watches PROVE Kept(w)'
    <3>1. Ordered(w)' /\ LifeIsOrdered(w)'
      BY <1>1, <2>1 DEF Kept, Ordered, LifeIsOrdered
    <3>2. topologyHub /\ ~watch[w].terminal /\ watch[w].at \notin {"none", "subscribe"}
             => Owed(w)'
      BY <2>1 DEF Kept, LifeIsOrdered, Owed
    <3>3. watch[w].at \in {"none", "subscribe"} => watch[w].pending = 0
      BY DEF Kept, LifeIsOrdered
    <3>4. Covered(w)'
      BY <1>1, <3>2, <3>3 DEF Covered
    <3> QED
      BY <3>1, <3>4 DEF Kept
  <2> QED
    BY <1>1, <2>1, <2>2, <2>3
<1>6. CASE OffersDone
  <2>1. /\ offering.at = "offer" /\ offering.left = {} /\ offering' = NotOffering
        /\ UNCHANGED <<structure, snapshot, published>>
    BY <1>6 DEF OffersDone
  <2>2. /\ NewestOffered'
        /\ offering' \in [at: {"idle", "publish", "offer"}, sequence: Nat, left: SUBSET Watches]
    BY <2>1 DEF NewestOffered, NotOffering
  <2>3. \A w \in Watches : ~Owed(w) /\ w \notin offering'.left
    BY <2>1 DEF Owed, NotOffering
  <2>4. \A w \in Watches : Kept(w)'
    BY <1>1, <2>1, <2>3, Untouched
  <2> QED
    BY <1>1, <2>1, <2>2, <2>4
<1> QED
  BY <1>3, <1>4, <1>5, <1>6

(* shutdown closes the hub: nobody is subscribed any more.                 *)
LEMMA CloseKeeps ==
    ASSUME TopologyInductive, CloseTopologyHub
    PROVE  TopologyInductive'
<1> USE DEF TopologyInductive, TopologyTypes
<1>1. /\ topologyHub' = FALSE
      /\ watch' = [w \in Watches |-> [watch[w] EXCEPT !.subscribed = FALSE]]
      /\ UNCHANGED <<structure, snapshot, published, offering, shown>>
  BY DEF CloseTopologyHub
<1>2. ASSUME NEW w \in Watches PROVE watch'[w] \in WatchState /\ Kept(w)'
  <2>1. /\ watch'[w] = [watch[w] EXCEPT !.subscribed = FALSE]
        /\ watch[w] \in WatchState /\ Ordered(w) /\ LifeIsOrdered(w)
    BY <1>1 DEF Kept
  <2>2. watch'[w] \in WatchState /\ Ordered(w)' /\ LifeIsOrdered(w)'
    BY <1>1, <2>1 DEF WatchState, Ordered, LifeIsOrdered
  <2>3. Covered(w)'
    BY <1>1 DEF Covered
  <2> QED
    BY <2>2, <2>3 DEF Kept
<1>3. NewestOffered'
  BY <1>1 DEF NewestOffered
<1> QED
  BY <1>1, <1>2, <1>3

(* A step of one reactor concerns that reactor only.                       *)
LEMMA OneStream ==
    ASSUME TopologyInductive, NEW w \in Watches,
           watch' = [watch EXCEPT ![w] = watch'[w]], shown' = [shown EXCEPT ![w] = shown'[w]],
           watch'[w] \in WatchState, shown'[w] \in Nat,
           UNCHANGED <<structure, snapshot, published, topologyHub>>,
           offering' = offering \/ offering' = [offering EXCEPT !.left = @ \ {w}],
           Kept(w)'
    PROVE  TopologyInductive'
<1> USE DEF TopologyInductive, TopologyTypes
<1>1. /\ offering' \in [at: {"idle", "publish", "offer"}, sequence: Nat, left: SUBSET Watches]
      /\ offering'.at = offering.at /\ offering'.sequence = offering.sequence
      /\ \A v \in Watches : v # w => (v \in offering'.left <=> v \in offering.left)
  OBVIOUS
<1>2. NewestOffered'
  BY <1>1 DEF NewestOffered
<1>3. ASSUME NEW v \in Watches, v # w PROVE Kept(v)'
  <2>1. watch'[v] = watch[v] /\ shown'[v] = shown[v]
    BY <1>3
  <2>2. Owed(v) => Owed(v)'
    BY <1>1, <1>3 DEF Owed
  <2> QED
    BY <2>1, <2>2, Untouched
<1>4. watch' \in [Watches -> WatchState] /\ shown' \in [Watches -> Nat]
  OBVIOUS
<1> QED
  BY <1>1, <1>2, <1>3, <1>4

(* What offer does during a write: the newest stays or becomes pending.    *)
LEMMA PendingKeepsNewest ==
    ASSUME NEW x \in WatchState, NEW n \in Nat, x.inFlight,
           x.pending # 0 => x.pending > x.writing
    PROVE  /\ Pending(x, n) \in WatchState
           /\ Pending(x, n) = [x EXCEPT !.pending = Pending(x, n).pending]
           /\ Pending(x, n).pending \in {x.pending, n}
           /\ Pending(x, n).pending # 0 => Pending(x, n).pending > x.writing
           /\ Pending(x, n).pending >= x.pending
           /\ x.writing >= n \/ Pending(x, n).pending >= n
<1>1. CASE n > x.writing /\ (x.pending = 0 \/ n > x.pending)
  BY <1>1 DEF Pending, WatchState
<1>2. CASE ~(n > x.writing /\ (x.pending = 0 \/ n > x.pending))
  <2>1. Pending(x, n) = x /\ x = [x EXCEPT !.pending = x.pending]
    BY <1>2 DEF Pending, WatchState
  <2> QED
    BY <1>2, <2>1 DEF WatchState
<1> QED
  BY <1>1, <1>2

(* The steps before a reactor is built.                                    *)
LEMMA BuildKeeps ==
    ASSUME TopologyInductive, NEW w \in Watches,
           OpenWatch(w) \/ OpenWatchRefused(w) \/ SubscribeWatch(w) \/ ReadCached(w)
             \/ FirstOffer(w) \/ FirstStart(w)
    PROVE  TopologyInductive'
<1> DEFINE x == watch[w]
<1> DEFINE y == watch'[w]
<1>1. /\ x \in WatchState /\ snapshot.sequence \in Nat \ {0} /\ published \in Nat
      /\ Ordered(w) /\ LifeIsOrdered(w) /\ Covered(w)
      /\ published <= snapshot.sequence /\ watch \in [Watches -> WatchState]
      /\ shown \in [Watches -> Nat] /\ topologyHub \in BOOLEAN
  BY DEF TopologyInductive, TopologyTypes, Kept, NewestOffered
<1>2. /\ UNCHANGED <<structure, snapshot, published, offering, topologyHub, shown>>
      /\ Owed(w) <=> Owed(w)'
  BY DEF OpenWatch, OpenWatchRefused, SubscribeWatch, ReadCached, FirstOffer, FirstStart, Owed
<1>3. /\ watch' = [watch EXCEPT ![w] = y]
      /\ y \in WatchState /\ Kept(w)'
  <2>1. CASE OpenWatch(w)
    <3>1. x.at = "none" /\ watch' = [watch EXCEPT ![w].at = "subscribe"]
      BY <2>1 DEF OpenWatch
    <3>2. y = [x EXCEPT !.at = "subscribe"] /\ watch' = [watch EXCEPT ![w] = y]
      BY <1>1, <3>1
    <3>3. y \in WatchState
      BY <1>1, <3>2 DEF WatchState, Building
    <3> QED
      BY <1>1, <1>2, <3>1, <3>2, <3>3 DEF Kept, Ordered, LifeIsOrdered, Covered, WatchState
  <2>2. CASE OpenWatchRefused(w)
    <3>1. /\ x.at = "none"
          /\ watch' = [watch EXCEPT ![w] = WatchFinish([x EXCEPT !.at = "built"])]
      BY <2>2 DEF OpenWatchRefused
    <3>2. ~x.inFlight
      BY <1>1, <3>1 DEF LifeIsOrdered
    <3>3. /\ y = [x EXCEPT !.at = "built", !.terminal = TRUE, !.subscribed = FALSE, !.pending = 0,
                           !.gate = "Finishing"]
          /\ watch' = [watch EXCEPT ![w] = y]
      BY <1>1, <3>1, <3>2 DEF WatchFinish, WatchFinished, WatchState
    <3>4. y \in WatchState
      <4>1. "built" \in {"none", "built"} \cup Building /\ 0 \in Nat
        OBVIOUS
      <4> QED
        BY <1>1, <3>3, <4>1 DEF WatchState
    <3> QED
      BY <1>1, <1>2, <3>1, <3>3, <3>4 DEF Kept, Ordered, LifeIsOrdered, Covered, WatchState
  <2>3. CASE SubscribeWatch(w)
    <3>1. /\ x.at = "subscribe"
          /\ watch' = [watch EXCEPT ![w].at = "cached", ![w].subscribed = topologyHub]
      BY <2>3 DEF SubscribeWatch
    <3>2. /\ y = [x EXCEPT !.at = "cached", !.subscribed = topologyHub]
          /\ watch' = [watch EXCEPT ![w] = y]
      BY <1>1, <3>1
    <3>3. y \in WatchState
      BY <1>1, <3>2 DEF WatchState, Building
    <3> QED
      BY <1>1, <1>2, <3>1, <3>2, <3>3 DEF Kept, Ordered, LifeIsOrdered, Covered, WatchState
  <2>4. CASE ReadCached(w)
    <3>1. /\ x.at = "cached"
          /\ watch' = [watch EXCEPT ![w].at = "offer", ![w].cached = snapshot.sequence]
      BY <2>4 DEF ReadCached
    <3>2. /\ y = [x EXCEPT !.at = "offer", !.cached = snapshot.sequence]
          /\ watch' = [watch EXCEPT ![w] = y]
      BY <1>1, <3>1
    <3>3. y \in WatchState
      BY <1>1, <3>2 DEF WatchState, Building
    <3>4. Ordered(w)'
      BY <1>1, <1>2, <3>1, <3>2, <3>3 DEF Ordered, WatchState
    <3>5. LifeIsOrdered(w)'
      BY <1>1, <1>2, <3>1, <3>2, <3>3 DEF LifeIsOrdered, WatchState
    <3>6. Covered(w)'
      BY <1>1, <1>2, <3>2 DEF Covered, WatchState
    <3> QED
      BY <3>2, <3>3, <3>4, <3>5, <3>6 DEF Kept
  <2>5. CASE FirstOffer(w)
    <3>1. /\ x.at = "offer" /\ Offerable(x, x.cached)
      BY <1>1, <2>5 DEF FirstOffer, Offerable, Ordered, LifeIsOrdered, WatchState
    <3>2. CASE x.inFlight
      <4>1. watch' = [watch EXCEPT ![w] = [Pending(x, x.cached) EXCEPT !.at = "built"]]
        BY <2>5, <3>1, <3>2 DEF FirstOffer
      <4> DEFINE p == Pending(x, x.cached)
      <4>2. /\ p \in WatchState /\ p = [x EXCEPT !.pending = p.pending]
            /\ p.pending \in {x.pending, x.cached}
            /\ p.pending # 0 => p.pending > x.writing
            /\ p.pending >= x.pending
            /\ x.writing >= x.cached \/ p.pending >= x.cached
        <5>1. x.cached \in Nat /\ (x.pending # 0 => x.pending > x.writing)
          BY <1>1 DEF WatchState, Ordered
        <5> QED
          BY <1>1, <3>2, <5>1, PendingKeepsNewest
      <4> HIDE DEF p
      <4>3. /\ y = [p EXCEPT !.at = "built"] /\ watch' = [watch EXCEPT ![w] = y]
        BY <1>1, <4>1 DEF p
      <4>4. /\ y.at = "built" /\ y.pending = p.pending /\ y.after = x.after
            /\ y.writing = x.writing /\ y.inFlight = x.inFlight /\ y.cached = x.cached
            /\ y.subscribed = x.subscribed /\ y.terminal = x.terminal /\ y.gate = x.gate
            /\ y \in WatchState
        BY <1>1, <4>2, <4>3 DEF WatchState
      <4>5. Ordered(w)'
        BY <1>1, <1>2, <3>1, <3>2, <4>2, <4>4 DEF Ordered, WatchState
      <4>6. LifeIsOrdered(w)'
        BY <1>1, <1>2, <3>1, <3>2, <4>4 DEF LifeIsOrdered
      <4>7. Covered(w)'
        BY <1>1, <1>2, <3>1, <3>2, <4>2, <4>4 DEF Covered, WatchState
      <4> QED
        BY <4>3, <4>4, <4>5, <4>6, <4>7 DEF Kept
    <3>3. CASE ~x.inFlight
      <4>1. watch' = [watch EXCEPT ![w] = [x EXCEPT !.at = "start"]]
        BY <2>5, <3>1, <3>3 DEF FirstOffer
      <4>2. y = [x EXCEPT !.at = "start"] /\ watch' = [watch EXCEPT ![w] = y]
        BY <1>1, <4>1
      <4>3. y \in WatchState
        BY <1>1, <4>2 DEF WatchState, Building
      <4>4. Ordered(w)'
        BY <1>1, <1>2, <3>1, <3>3, <4>2 DEF Ordered, WatchState
      <4>5. LifeIsOrdered(w)'
        BY <1>1, <1>2, <3>1, <4>2 DEF LifeIsOrdered, WatchState
      <4>6. Covered(w)'
        BY <1>1, <1>2, <3>1, <3>3, <4>2 DEF Covered, WatchState
      <4> QED
        BY <4>2, <4>3, <4>4, <4>5, <4>6 DEF Kept
    <3> QED
      BY <3>2, <3>3
  <2>6. CASE FirstStart(w)
    <3>1. /\ x.at = "start" /\ ~x.terminal /\ x.after = 0 /\ x.cached > 0
          /\ watch' = [watch EXCEPT ![w] =
                         [StartTopology(x, x.cached) EXCEPT !.at = "built", !.overtaken = x.inFlight]]
      BY <1>1, <2>6 DEF FirstStart, LifeIsOrdered, Ordered
    <3>2. StartTopology(x, x.cached) = [x EXCEPT !.writing = x.cached, !.inFlight = TRUE]
      <4>1. x.cached # x.after /\ (~x.terminal \/ x.inFlight) = TRUE
        BY <1>1, <3>1 DEF WatchState
      <4> QED
        BY <4>1 DEF StartTopology
    <3>3. /\ y = [x EXCEPT !.writing = x.cached, !.inFlight = TRUE, !.at = "built",
                           !.overtaken = x.inFlight]
          /\ watch' = [watch EXCEPT ![w] = y]
      BY <1>1, <3>1, <3>2 DEF WatchState
    <3>4. /\ y.at = "built" /\ y.pending = x.pending /\ y.after = x.after
          /\ y.writing = x.cached /\ y.inFlight = TRUE /\ y.cached = x.cached
          /\ y.overtaken = x.inFlight
          /\ y.subscribed = x.subscribed /\ y.terminal = x.terminal /\ y.gate = x.gate
          /\ y \in WatchState
      BY <1>1, <3>3 DEF WatchState
    <3>5. Ordered(w)'
      BY <1>1, <1>2, <3>1, <3>4 DEF Ordered, WatchState
    <3>6. LifeIsOrdered(w)'
      BY <1>1, <1>2, <3>1, <3>4 DEF LifeIsOrdered, WatchState
    <3>7. Covered(w)'
      BY <1>1, <1>2, <3>1, <3>4 DEF Covered, WatchState
    <3> QED
      BY <3>3, <3>4, <3>5, <3>6, <3>7 DEF Kept
  <2> QED
    BY <2>1, <2>2, <2>3, <2>4, <2>5, <2>6
<1>4. shown' = [shown EXCEPT ![w] = shown'[w]] /\ shown'[w] \in Nat
  BY <1>1, <1>2
<1> HIDE DEF y
<1> QED
  BY <1>2, <1>3, <1>4, OneStream DEF y

(* An offer of the worker: the newest snapshot is written, waits or is     *)
(* already shown.                                                          *)
LEMMA OfferKeeps ==
    ASSUME TopologyInductive, NEW w \in Watches, OfferTopology(w)
    PROVE  TopologyInductive'
<1> DEFINE x == watch[w]
<1> DEFINE y == watch'[w]
<1> DEFINE n == offering.sequence
<1>1. /\ x \in WatchState /\ snapshot.sequence \in Nat \ {0} /\ published \in Nat
      /\ Ordered(w) /\ LifeIsOrdered(w) /\ Covered(w)
      /\ watch \in [Watches -> WatchState] /\ shown \in [Watches -> Nat]
      /\ offering \in [at: {"idle", "publish", "offer"}, sequence: Nat, left: SUBSET Watches]
      /\ topologyHub \in BOOLEAN
  BY DEF TopologyInductive, TopologyTypes, Kept
<1>2. /\ offering.at = "offer" /\ n = published /\ n = snapshot.sequence
      /\ offering' = [offering EXCEPT !.left = @ \ {w}]
      /\ watch' = [watch EXCEPT ![w] = IF x.gate = "Open" THEN Offer(x, n) ELSE x]
      /\ UNCHANGED <<structure, snapshot, published, topologyHub, shown>>
  BY DEF OfferTopology, TopologyInductive, NewestOffered
<1>3. /\ ~Owed(w)' /\ n \in Nat \ {0} /\ w \notin offering'.left
      /\ n = published' /\ n = snapshot'.sequence /\ n = snapshot.sequence
      /\ topologyHub' = topologyHub /\ shown'[w] = shown[w]
  BY <1>1, <1>2 DEF Owed
<1> HIDE DEF n
<1>4. /\ watch' = [watch EXCEPT ![w] = y]
      /\ y \in WatchState /\ Kept(w)'
  <2>1. CASE ~Offerable(x, n)
    <3>1. y = x /\ watch' = [watch EXCEPT ![w] = y]
      BY <1>1, <1>2, <2>1 DEF Offer
    <3>2. Ordered(w)' /\ LifeIsOrdered(w)'
      BY <1>1, <1>2, <3>1 DEF Ordered, LifeIsOrdered
    <3>3. n = x.after \/ x.terminal
      BY <1>1, <2>1 DEF Offerable, LifeIsOrdered
    <3>4. Covered(w)'
      <4>1. CASE x.terminal
        BY <1>2, <3>1, <4>1 DEF Covered
      <4>2. CASE ~x.terminal /\ n = x.after
        <5>1. x.at = "built" /\ ~x.inFlight /\ x.after >= published /\ x.pending = 0
          BY <1>1, <1>2, <1>3, <4>2 DEF LifeIsOrdered, Ordered, WatchState
        <5> QED
          BY <1>2, <3>1, <5>1 DEF Covered
      <4> QED
        BY <3>3, <4>1, <4>2
    <3> QED
      BY <1>1, <3>1, <3>2, <3>4 DEF Kept
  <2>2. CASE Offerable(x, n) /\ x.inFlight
    <3> DEFINE p == Pending(x, n)
    <3>1. /\ p \in WatchState /\ p = [x EXCEPT !.pending = p.pending]
          /\ p.pending \in {x.pending, n}
          /\ p.pending # 0 => p.pending > x.writing
          /\ x.writing >= n \/ p.pending >= n
      <4>1. n \in Nat /\ (x.pending # 0 => x.pending > x.writing)
        BY <1>1, <1>3 DEF Ordered
      <4> QED
        BY <1>1, <2>2, <4>1, PendingKeepsNewest
    <3>2. y = p /\ watch' = [watch EXCEPT ![w] = y]
      BY <1>1, <1>2, <2>2 DEF Offer, Offerable
    <3> HIDE DEF p
    <3>3. /\ y.at = x.at /\ y.pending = p.pending /\ y.after = x.after
          /\ y.writing = x.writing /\ y.inFlight = x.inFlight /\ y.cached = x.cached
          /\ y.subscribed = x.subscribed /\ y.terminal = x.terminal /\ y.gate = x.gate
          /\ y.overtaken = x.overtaken /\ y \in WatchState
      BY <1>1, <3>1, <3>2 DEF WatchState
    <3>4. Ordered(w)'
      BY <1>1, <1>3, <2>2, <3>1, <3>3 DEF Ordered, WatchState
    <3>5. LifeIsOrdered(w)'
      <4>1. x.at \notin {"none", "subscribe"}
        BY <1>1, <2>2 DEF LifeIsOrdered
      <4> QED
        BY <1>1, <1>2, <3>3, <4>1 DEF LifeIsOrdered
    <3>6. Covered(w)'
      <4>1. x.writing \in Nat /\ p.pending \in Nat /\ n \in Nat
        BY <1>1, <1>3, <3>1 DEF WatchState
      <4>2. (p.pending # 0 => p.pending >= n) /\ (x.writing >= n \/ p.pending >= n)
        BY <3>1, <4>1
      <4> QED
        BY <1>3, <2>2, <3>3, <4>2 DEF Covered
    <3> QED
      BY <3>2, <3>3, <3>4, <3>5, <3>6 DEF Kept
  <2>3. CASE Offerable(x, n) /\ ~x.inFlight
    <3>1. ~x.terminal /\ n # x.after /\ x.gate = "Open" /\ (~x.terminal \/ x.inFlight) = TRUE
      BY <1>1, <2>3 DEF Offerable, WatchState
    <3>2. StartTopology(x, n) = [x EXCEPT !.writing = n, !.inFlight = TRUE]
      BY <3>1 DEF StartTopology
    <3>3. /\ y = [x EXCEPT !.writing = n, !.inFlight = TRUE]
          /\ watch' = [watch EXCEPT ![w] = y]
      BY <1>1, <1>2, <2>3, <3>1, <3>2 DEF Offer
    <3>4. /\ y.at = x.at /\ y.pending = x.pending /\ y.after = x.after
          /\ y.writing = n /\ y.inFlight = TRUE /\ y.cached = x.cached
          /\ y.subscribed = x.subscribed /\ y.terminal = x.terminal /\ y.gate = x.gate
          /\ y.overtaken = x.overtaken /\ y \in WatchState
      BY <1>1, <1>3, <3>3 DEF WatchState
    <3>5. Ordered(w)'
      <4>1. /\ x.after <= n /\ x.writing <= n /\ x.cached <= n /\ x.pending = 0
            /\ x.at \in {"offer", "start"} => x.cached > 0
        BY <1>1, <1>3, <2>3, <3>1 DEF Ordered
      <4>2. x.after \in Nat /\ x.cached \in Nat /\ n \in Nat
        BY <1>1, <1>3 DEF WatchState
      <4>3. n > x.after
        BY <3>1, <4>1, <4>2
      <4> QED
        BY <1>3, <3>4, <4>1, <4>2, <4>3 DEF Ordered
    <3>6. x.at \notin {"none", "subscribe"}
      BY <1>1 DEF LifeIsOrdered, OfferTopology
    <3>7. LifeIsOrdered(w)'
      BY <1>1, <1>2, <3>1, <3>4, <3>6 DEF LifeIsOrdered
    <3>8. Covered(w)'
      <4>1. x.pending = 0 /\ n >= published'
        BY <1>1, <1>3, <2>3, <3>1 DEF Ordered
      <4> QED
        BY <3>4, <4>1 DEF Covered
    <3> QED
      BY <3>3, <3>4, <3>5, <3>7, <3>8 DEF Kept
  <2> QED
    BY <2>1, <2>2, <2>3
<1>5. shown' = [shown EXCEPT ![w] = shown'[w]] /\ shown'[w] \in Nat
  BY <1>1, <1>2
<1> HIDE DEF y
<1> QED
  BY <1>2, <1>4, <1>5, OneStream DEF y

(* OnWriteDone, with what was pending written next.                        *)
LEMMA WrittenKeeps ==
    ASSUME TopologyInductive, NEW w \in Watches, TopologyWritten(w)
    PROVE  TopologyInductive'
<1> DEFINE x == watch[w]
<1> DEFINE y == watch'[w]
<1>1. /\ x \in WatchState /\ snapshot.sequence \in Nat /\ published \in Nat
      /\ Ordered(w) /\ LifeIsOrdered(w) /\ Covered(w)
      /\ watch \in [Watches -> WatchState] /\ shown \in [Watches -> Nat]
  BY DEF TopologyInductive, TopologyTypes, Kept
<1>2. /\ x.at = "built" /\ x.gate = "Open" /\ x.inFlight
      /\ shown' = [shown EXCEPT ![w] = x.writing]
      /\ UNCHANGED <<structure, snapshot, published, offering, topologyHub>>
      /\ Owed(w) <=> Owed(w)'
  BY DEF TopologyWritten, Owed
<1>3. shown' = [shown EXCEPT ![w] = shown'[w]] /\ shown'[w] = x.writing /\ shown'[w] \in Nat
  BY <1>1, <1>2 DEF WatchState
<1>4. CASE x.terminal
  <2>1. watch' = [watch EXCEPT ![w] = WatchFinished([x EXCEPT !.inFlight = FALSE])]
    BY <1>1, <1>4 DEF TopologyWritten, WatchState
  <2>2. /\ y = [x EXCEPT !.inFlight = FALSE, !.gate = "Finishing", !.subscribed = FALSE]
        /\ watch' = [watch EXCEPT ![w] = y]
    BY <1>1, <1>4, <2>1 DEF WatchFinished, WatchState
  <2>3. /\ y.at = x.at /\ y.pending = x.pending /\ y.after = x.after
        /\ y.writing = x.writing /\ y.inFlight = FALSE /\ y.cached = x.cached
        /\ y.subscribed = FALSE /\ y.terminal = x.terminal /\ y.gate = "Finishing"
        /\ y \in WatchState
    BY <1>1, <2>2 DEF WatchState
  <2>4. Ordered(w)' /\ LifeIsOrdered(w)' /\ Covered(w)'
    BY <1>1, <1>2, <1>4, <2>3 DEF Ordered, LifeIsOrdered, Covered
  <2> HIDE DEF y
  <2> QED
    BY <1>2, <1>3, <2>2, <2>3, <2>4, OneStream DEF y, Kept
<1>5. CASE ~x.terminal /\ x.pending = 0
  <2>1. /\ y = [x EXCEPT !.inFlight = FALSE, !.after = x.writing, !.pending = 0]
        /\ watch' = [watch EXCEPT ![w] = y]
    BY <1>1, <1>5 DEF TopologyWritten, WatchState
  <2>2. /\ y.at = x.at /\ y.pending = 0 /\ y.after = x.writing
        /\ y.writing = x.writing /\ y.inFlight = FALSE /\ y.cached = x.cached
        /\ y.subscribed = x.subscribed /\ y.terminal = x.terminal /\ y.gate = x.gate
        /\ y.overtaken = x.overtaken /\ y \in WatchState
    <3>1. x.writing \in Nat /\ FALSE \in BOOLEAN /\ 0 \in Nat
      BY <1>1 DEF WatchState
    <3> QED
      BY <1>1, <2>1, <3>1 DEF WatchState
  <2>3. Ordered(w)' /\ LifeIsOrdered(w)'
    BY <1>1, <1>2, <1>3, <1>5, <2>2 DEF Ordered, LifeIsOrdered
  <2>4. x.writing > x.pending
    BY <1>1, <1>2, <1>5 DEF Ordered, WatchState
  <2>5. Covered(w)'
    BY <1>1, <1>2, <1>5, <2>2, <2>4 DEF Covered, WatchState
  <2> HIDE DEF y
  <2> QED
    BY <1>2, <1>3, <2>1, <2>2, <2>3, <2>5, OneStream DEF y, Kept
<1>6. CASE ~x.terminal /\ x.pending # 0
  <2> DEFINE z == [x EXCEPT !.inFlight = FALSE, !.after = x.writing, !.pending = 0]
  <2>1. watch' = [watch EXCEPT ![w] = StartTopology(z, x.pending)]
    BY <1>1, <1>6 DEF TopologyWritten, WatchState
  <2>2. /\ z.after = x.writing /\ ~z.terminal /\ x.pending > x.writing
        /\ x.writing \in Nat /\ x.pending \in Nat
    BY <1>1, <1>6 DEF WatchState, Ordered
  <2>3. (~z.terminal \/ z.inFlight) = TRUE /\ x.pending # z.after
    BY <2>2
  <2>4. StartTopology(z, x.pending) = [z EXCEPT !.writing = x.pending, !.inFlight = TRUE]
    BY <2>3 DEF StartTopology
  <2>5. /\ y = [x EXCEPT !.inFlight = TRUE, !.after = x.writing, !.pending = 0,
                         !.writing = x.pending]
        /\ watch' = [watch EXCEPT ![w] = y]
    BY <1>1, <2>1, <2>4 DEF WatchState
  <2>6. /\ y.at = x.at /\ y.pending = 0 /\ y.after = x.writing
        /\ y.writing = x.pending /\ y.inFlight = TRUE /\ y.cached = x.cached
        /\ y.subscribed = x.subscribed /\ y.terminal = x.terminal /\ y.gate = x.gate
        /\ y.overtaken = x.overtaken /\ y \in WatchState
    <3>1. TRUE \in BOOLEAN /\ 0 \in Nat
      OBVIOUS
    <3> QED
      BY <1>1, <2>2, <2>5, <3>1 DEF WatchState
  <2>7. Ordered(w)' /\ LifeIsOrdered(w)'
    BY <1>1, <1>2, <1>3, <1>6, <2>2, <2>6 DEF Ordered, LifeIsOrdered
  <2>8. Covered(w)'
    BY <1>1, <1>2, <1>6, <2>6 DEF Covered
  <2> HIDE DEF y
  <2> QED
    BY <1>2, <1>3, <2>5, <2>6, <2>7, <2>8, OneStream DEF y, Kept
<1> QED
  BY <1>4, <1>5, <1>6

(* The end of a stream: a failed write, a cancellation or a shutdown, and  *)
(* OnDone.                                                                 *)
LEMMA EndKeeps ==
    ASSUME TopologyInductive, NEW w \in Watches,
           TopologyWriteFailed(w) \/ EndWatch(w) \/ WatchDone(w)
    PROVE  TopologyInductive'
<1> DEFINE x == watch[w]
<1> DEFINE y == watch'[w]
<1>1. /\ x \in WatchState /\ snapshot.sequence \in Nat
      /\ Ordered(w) /\ LifeIsOrdered(w)
      /\ watch \in [Watches -> WatchState] /\ shown \in [Watches -> Nat]
  BY DEF TopologyInductive, TopologyTypes, Kept
<1>2. /\ x.at = "built"
      /\ UNCHANGED <<structure, snapshot, published, offering, topologyHub, shown>>
  BY DEF TopologyWriteFailed, EndWatch, WatchDone
<1>3. /\ watch' = [watch EXCEPT ![w] = y] /\ y \in WatchState
      /\ y.at = "built" /\ y.terminal /\ y.after = x.after /\ y.writing = x.writing
      /\ y.cached = x.cached /\ ~y.subscribed
      /\ y.inFlight => x.inFlight
      /\ y.pending \in {x.pending, 0}
      /\ y.inFlight <=> y.gate = "Open"
  <2>1. CASE TopologyWriteFailed(w)
    <3>1. watch' = [watch EXCEPT ![w] =
                      WatchFinished([x EXCEPT !.inFlight = FALSE, !.terminal = TRUE])]
      BY <2>1 DEF TopologyWriteFailed
    <3>2. /\ y = [x EXCEPT !.inFlight = FALSE, !.terminal = TRUE, !.gate = "Finishing",
                           !.subscribed = FALSE]
          /\ watch' = [watch EXCEPT ![w] = y]
      BY <1>1, <3>1 DEF WatchFinished, WatchState
    <3> QED
      BY <1>1, <1>2, <3>2 DEF WatchState
  <2>2. CASE EndWatch(w)
    <3> DEFINE z == [x EXCEPT !.terminal = TRUE, !.subscribed = FALSE, !.pending = 0]
    <3>1. watch' = [watch EXCEPT ![w] = WatchFinished(z)] /\ x.gate = "Open"
      BY <2>2 DEF EndWatch, WatchFinish
    <3>2. /\ z \in WatchState /\ z.terminal /\ z.inFlight = x.inFlight /\ z.at = x.at
          /\ z.after = x.after /\ z.writing = x.writing /\ z.cached = x.cached
          /\ ~z.subscribed /\ z.pending = 0 /\ z.gate = x.gate
      BY <1>1 DEF WatchState
    <3> HIDE DEF z
    <3>3. y = WatchFinished(z) /\ watch' = [watch EXCEPT ![w] = y]
      BY <1>1, <3>1
    <3>4. CASE x.inFlight
      <4>1. y = z
        BY <3>2, <3>3, <3>4 DEF WatchFinished
      <4> QED
        BY <1>2, <3>1, <3>2, <3>3, <3>4, <4>1
    <3>5. CASE ~x.inFlight
      <4>1. y = [z EXCEPT !.gate = "Finishing", !.subscribed = FALSE]
        BY <3>2, <3>3, <3>5 DEF WatchFinished
      <4> QED
        BY <1>2, <3>2, <3>3, <3>5, <4>1 DEF WatchState
    <3> QED
      BY <3>4, <3>5
  <2>3. CASE WatchDone(w)
    <3>1. /\ x.gate = "Finishing"
          /\ y = [x EXCEPT !.gate = "Done"] /\ watch' = [watch EXCEPT ![w] = y]
      BY <1>1, <2>3 DEF WatchDone
    <3>2. x.terminal /\ ~x.inFlight /\ ~x.subscribed
      BY <1>1, <3>1 DEF LifeIsOrdered
    <3> QED
      BY <1>1, <1>2, <3>1, <3>2 DEF WatchState
  <2> QED
    BY <2>1, <2>2, <2>3
<1>4. Ordered(w)'
  BY <1>1, <1>2, <1>3 DEF Ordered
<1>5. LifeIsOrdered(w)' /\ Covered(w)'
  BY <1>1, <1>2, <1>3 DEF LifeIsOrdered, Covered
<1>6. shown' = [shown EXCEPT ![w] = shown'[w]] /\ shown'[w] \in Nat
  BY <1>1, <1>2
<1> HIDE DEF y
<1> QED
  BY <1>2, <1>3, <1>4, <1>5, <1>6, OneStream DEF y, Kept

(* Every reachable state satisfies the inductive invariant.                *)
THEOREM TopologyInvariant == TopologySpec => []TopologyInductive
<1>1. TopologyInit => TopologyInductive
  <2> SUFFICES ASSUME TopologyInit PROVE TopologyInductive
    OBVIOUS
  <2>1. TopologyTypes
    BY DEF TopologyInit, TopologyTypes, NotOffering, NoWatch, WatchState
  <2>2. NewestOffered
    BY DEF TopologyInit, NewestOffered, NotOffering
  <2>3. ASSUME NEW w \in Watches PROVE Kept(w)
    <3>1. /\ watch[w] = NoWatch /\ shown[w] = 0 /\ snapshot.sequence = 1
          /\ offering = NotOffering
      BY DEF TopologyInit
    <3> QED
      BY <3>1 DEF Kept, Ordered, LifeIsOrdered, Covered, NoWatch, NotOffering
  <2> QED
    BY <2>1, <2>2, <2>3 DEF TopologyInductive
<1>2. TopologyInductive /\ [TopologyNext]_topologyVars => TopologyInductive'
  <2> SUFFICES ASSUME TopologyInductive, [TopologyNext]_topologyVars PROVE TopologyInductive'
    OBVIOUS
  <2>1. CASE UNCHANGED topologyVars
    BY <2>1 DEF TopologyInductive, TopologyTypes, NewestOffered, Kept, Ordered, LifeIsOrdered,
                Covered, Owed, topologyVars
  <2>2. CASE TopologyNext
    BY <2>2, WorkerKeeps, CloseKeeps, BuildKeeps, OfferKeeps, WrittenKeeps, EndKeeps
       DEF TopologyNext, WatchStep
  <2> QED
    BY <2>1, <2>2
<1> QED
  BY <1>1, <1>2, PTL DEF TopologySpec

(* WatchTopology, whatever the order of the worker, the reactors and the   *)
(* clients: an open stream that writes nothing has shown the newest        *)
(* published snapshot, or is about to be offered it, or its constructor    *)
(* was overtaken.                                                          *)
THEOREM TopologyStreamsCatchUp == TopologySpec => []TopologyCatchesUp
<1>1. TopologyInductive => TopologyCatchesUp
  <2> SUFFICES ASSUME TopologyInductive, NEW w \in Watches,
                      watch[w].at = "built", watch[w].gate = "Open", ~watch[w].inFlight,
                      topologyHub
               PROVE  \/ shown[w] >= published
                      \/ offering.at = "publish"
                      \/ offering.at = "offer" /\ w \in offering.left
                      \/ watch[w].overtaken /\ shown[w] = watch[w].cached
    BY DEF TopologyCatchesUp
  <2>1. ~watch[w].terminal /\ shown[w] = watch[w].after
    BY DEF TopologyInductive, Kept, LifeIsOrdered
  <2> QED
    BY <2>1 DEF TopologyInductive, Kept, Covered, Owed
<1> QED
  BY <1>1, TopologyInvariant, PTL

=============================================================================
