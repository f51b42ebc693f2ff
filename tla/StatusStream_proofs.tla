------------------------- MODULE StatusStream_proofs -------------------------
(***************************************************************************)
(* For any streams, statuses and replay capacity: Finish waits for the      *)
(* outstanding write, a deleted reactor is not touched, a shutdown reaches  *)
(* every stream and no wake of a stream is lost.                            *)
(***************************************************************************)
EXTENDS StatusStream, TLAPS

ReactorFields ==
    {"at", "after", "subscribed", "scheduled", "previous", "writing", "event",
     "terminal", "gate"}

Samples ==
    [sequence : Nat \ {0}, status : Statuses,
     delta : UNION {[D -> Values] : D \in SUBSET Units}]

PollStates ==
    [at : {"idle", "publish"}]
      \cup [at : {"observe"}, fresh : Statuses, recovered : BOOLEAN]
      \cup [at : {"waking"}, left : SUBSET Streams]

ServiceTypeOK ==
    /\ available \in BOOLEAN /\ hubClosed \in BOOLEAN
    /\ history \in Seq(Samples)
    /\ published \in Seq(Statuses)
    /\ poll \in PollStates
    /\ registry \in [shuttingDown : BOOLEAN, left : SUBSET Streams]

\* A reactor x: Finish has been called exactly when it ends and writes nothing,
\* and only a constructed one is ever deleted.
InLife(x) ==
    /\ DOMAIN x = ReactorFields
    /\ x.at \in {"none", "subscribe", "wake", "built"}
    /\ x.gate \in {"Open", "Finishing", "Done"}
    /\ x.subscribed \in BOOLEAN /\ x.scheduled \in BOOLEAN /\ x.terminal \in BOOLEAN
    /\ x.gate # "Open" <=> x.terminal /\ x.writing = Nothing
    /\ x.at = "none" => x.gate = "Open" /\ ~x.terminal
    /\ x.gate = "Done" => x.at = "built"

\* A stream that may have to be woken is subscribed.
Listening(x) ==
    x.at \in {"wake", "built"} /\ x.gate = "Open" /\ ~x.terminal => x.subscribed

\* Nothing is being written, queued or constructed for x.
Waiting(x) ==
    x.at = "built" /\ x.gate = "Open" /\ ~x.scheduled /\ x.writing = Nothing

StatusInvariant ==
    /\ ServiceTypeOK
    /\ reactor = [r \in Streams |-> reactor[r]]
    /\ \A r \in Streams : InLife(reactor[r])
    /\ ~hubClosed => \A r \in Streams : Listening(reactor[r])
    /\ WakeIsComing
    /\ ShutdownReachesAll

\* What a step may not do to a deleted reactor.
DeletedStay == \A r \in Streams : reactor[r].gate = "Done" => reactor'[r] = reactor[r]

-----------------------------------------------------------------------------
LEMMA SampleIsSomething == ASSUME NEW s \in Samples PROVE s # Nothing
  BY DEF Samples, Nothing

\* Ending an open stream: Finish is called at once unless a write is outstanding.
LEMMA RequestFinishKeeps ==
    ASSUME NEW x, InLife(x), x.gate = "Open", x.at # "none"
    PROVE  /\ InLife(RequestFinish(x)) /\ RequestFinish(x).terminal
           /\ RequestFinish(x).at = x.at
           /\ RequestFinish(x).gate # "Done"
           /\ RequestFinish(x).gate = "Open" => RequestFinish(x).writing # Nothing
           /\ ~Waiting(RequestFinish(x))
<1> DEFINE y == [x EXCEPT !.terminal = TRUE, !.subscribed = FALSE]
<1>1. /\ DOMAIN y = ReactorFields /\ y.at = x.at /\ y.gate = "Open" /\ y.subscribed = FALSE
      /\ y.scheduled = x.scheduled /\ y.terminal = TRUE /\ y.writing = x.writing
  BY DEF InLife, ReactorFields
<1>2. RequestFinish(x) = Finished(y)
  BY DEF RequestFinish
<1> HIDE DEF y
<1>3. CASE x.writing = Nothing
  <2> DEFINE z == [y EXCEPT !.gate = "Finishing", !.subscribed = FALSE]
  <2>1. Finished(y) = z
    BY <1>1, <1>3 DEF Finished
  <2>2. /\ DOMAIN z = ReactorFields /\ z.at = x.at /\ z.gate = "Finishing"
        /\ z.subscribed = FALSE /\ z.scheduled = x.scheduled /\ z.terminal = TRUE
        /\ z.writing = x.writing
    BY <1>1 DEF ReactorFields
  <2> HIDE DEF z
  <2> QED
    BY <1>2, <1>3, <2>1, <2>2 DEF InLife, Waiting
<1>4. CASE x.writing # Nothing
  <2>1. Finished(y) = y
    BY <1>1, <1>4 DEF Finished
  <2> QED
    BY <1>1, <1>2, <1>4, <2>1 DEF InLife, Waiting
<1> QED
  BY <1>3, <1>4

\* schedule_wake leaves no stream waiting.
LEMMA ScheduledKeeps ==
    ASSUME NEW x, InLife(x), x.at # "none", NEW y \in Scheduled(x)
    PROVE  /\ InLife(y) /\ y.at = x.at
           /\ x.terminal => y.terminal
           /\ Listening(x) => Listening(y)
           /\ y.gate = "Open" => y.scheduled \/ y.writing # Nothing
           /\ ~Waiting(y)
           /\ x.gate # "Open" => y = x
<1>1. CASE x.terminal \/ x.gate # "Open" \/ x.scheduled
  <2>1. y = x
    BY <1>1 DEF Scheduled
  <2> QED
    BY <1>1, <2>1 DEF InLife, Waiting
<1>2. CASE ~(x.terminal \/ x.gate # "Open" \/ x.scheduled)
  <2> DEFINE z == [x EXCEPT !.scheduled = TRUE]
  <2>1. y = z \/ y = RequestFinish(x)
    BY <1>2 DEF Scheduled
  <2>2. /\ DOMAIN z = ReactorFields /\ z.at = x.at /\ z.gate = x.gate
        /\ z.subscribed = x.subscribed /\ z.scheduled = TRUE /\ z.terminal = x.terminal
        /\ z.writing = x.writing
    BY DEF InLife, ReactorFields
  <2> HIDE DEF z
  <2>3. CASE y = z
    BY <1>2, <2>2, <2>3 DEF InLife, Waiting, Listening
  <2>4. CASE y = RequestFinish(x)
    BY <1>2, <2>4, RequestFinishKeeps DEF Listening
  <2> QED
    BY <2>1, <2>3, <2>4
<1> QED
  BY <1>1, <1>2

\* wake() leaves a stream waiting only when nothing is new.
LEMMA WokenKeeps ==
    ASSUME ServiceTypeOK, NEW x, InLife(x), x.at # "none", x.gate = "Open"
    PROVE  /\ InLife(Woken(x)) /\ Woken(x).at = x.at
           /\ x.terminal => Woken(x).terminal
           /\ Listening(x) => Listening(Woken(x))
           /\ Waiting(Woken(x)) => available /\ NothingNew(Woken(x))
<1>1. CASE x.writing # Nothing \/ x.terminal
  <2>1. Woken(x) = x
    BY <1>1 DEF Woken
  <2> QED
    BY <1>1, <2>1 DEF InLife, Waiting
<1>2. CASE ~(x.writing # Nothing \/ x.terminal) /\ (~available \/ history = <<>>)
  <2>1. Woken(x) = RequestFinish(x)
    BY <1>2 DEF Woken
  <2> QED
    BY <2>1, RequestFinishKeeps DEF Listening
<1>3. CASE /\ ~(x.writing # Nothing \/ x.terminal) /\ ~(~available \/ history = <<>>)
           /\ NothingNew(x)
  <2>1. Woken(x) = x
    BY <1>3 DEF Woken
  <2> QED
    BY <1>3, <2>1
<1>4. CASE /\ ~(x.writing # Nothing \/ x.terminal) /\ ~(~available \/ history = <<>>)
           /\ ~NothingNew(x)
  <2> DEFINE e == IF x.previous = Nothing THEN FirstEvent(x) ELSE LaterEvent(x)
             y == [x EXCEPT !.writing = Last(history), !.event = e]
  <2>1. Woken(x) = y
    BY <1>4 DEF Woken
  <2>2. Last(history) # Nothing
    <3>1. Last(history) \in Samples
      BY <1>4 DEF ServiceTypeOK, Last
    <3> QED
      BY <3>1, SampleIsSomething
  <2> HIDE DEF e
  <2>3. /\ DOMAIN y = ReactorFields /\ y.at = x.at /\ y.gate = x.gate
        /\ y.subscribed = x.subscribed /\ y.scheduled = x.scheduled
        /\ y.terminal = x.terminal /\ y.writing = Last(history)
    BY DEF InLife, ReactorFields
  <2> HIDE DEF y
  <2> QED
    BY <1>4, <2>1, <2>2, <2>3 DEF InLife, Waiting, Listening
<1> QED
  BY <1>1, <1>2, <1>3, <1>4

LEMMA NoReactorInLife ==
    /\ InLife(NoReactor) /\ NoReactor.at = "none" /\ NoReactor.gate = "Open"
    /\ NoReactor.terminal = FALSE /\ NoReactor.writing = Nothing
    /\ NoReactor.subscribed = FALSE /\ NoReactor.scheduled = FALSE
  BY DEF NoReactor, InLife, ReactorFields

LEMMA DeletedInLife ==
    InLife(Deleted) /\ Deleted.at = "built" /\ Deleted.gate = "Done" /\ Deleted.terminal
  BY DEF Deleted, NoReactor, InLife, ReactorFields

-----------------------------------------------------------------------------
\* What the invariant says of one stream.
LEMMA OneStreamFacts ==
    ASSUME StatusInvariant, NEW r \in Streams
    PROVE  /\ ServiceTypeOK /\ InLife(reactor[r])
           /\ ~hubClosed => Listening(reactor[r])
           /\ Waiting(reactor[r]) /\ ~hubClosed =>
                \/ available /\ NothingNew(reactor[r])
                \/ poll.at = "publish"
                \/ poll.at = "waking" /\ r \in poll.left
           /\ registry.shuttingDown =>
                reactor[r].at = "none" \/ r \in registry.left \/ reactor[r].terminal
  BY DEF StatusInvariant, WakeIsComing, Idle, Waiting, ShutdownReachesAll

\* A step of stream r that turns its reactor into y preserves the invariant if y is
\* in life and listens, waits only with a wake coming or nothing to be woken for,
\* and ends if the registry is done with it.
LEMMA OneStream ==
    ASSUME StatusInvariant, NEW r \in Streams, NEW y,
           reactor' = [reactor EXCEPT ![r] = y],
           UNCHANGED <<available, history, published, hubClosed>>,
           poll' \in PollStates, poll'.at = poll.at,
           poll.at = "waking" => poll.left \subseteq poll'.left \cup {r},
           registry' \in [shuttingDown : BOOLEAN, left : SUBSET Streams],
           registry'.shuttingDown = registry.shuttingDown,
           registry.left \subseteq registry'.left \cup {r},
           InLife(y), ~hubClosed => Listening(y),
           Waiting(y) /\ ~hubClosed => available /\ NothingNew(y),
           registry.shuttingDown =>
             y.at = "none" \/ r \in registry'.left \/ y.terminal,
           reactor[r].gate = "Done" => y = reactor[r]
    PROVE  StatusInvariant' /\ DeletedStay
<1>1. reactor = [s \in Streams |-> reactor[s]]
  BY DEF StatusInvariant
<1>2. /\ reactor' = [s \in Streams |-> reactor'[s]]
      /\ \A s \in Streams : reactor'[s] = IF s = r THEN y ELSE reactor[s]
  BY <1>1
<1>3. ServiceTypeOK'
  BY DEF StatusInvariant, ServiceTypeOK
<1>4. \A s \in Streams : InLife(reactor'[s])
  BY <1>2, OneStreamFacts
<1>5. ~hubClosed => \A s \in Streams : Listening(reactor'[s])
  BY <1>2, OneStreamFacts
<1>6. WakeIsComing'
  <2> SUFFICES ASSUME NEW s \in Streams, Waiting(reactor'[s]), ~hubClosed
               PROVE  \/ available /\ NothingNew(reactor'[s])
                      \/ poll'.at = "publish"
                      \/ poll'.at = "waking" /\ s \in poll'.left
    BY DEF WakeIsComing, Idle, Waiting, NothingNew, LaterEvent, AnchorRetained
  <2>1. CASE s = r
    BY <1>2, <2>1
  <2>2. CASE s # r
    BY <1>2, <2>2, OneStreamFacts
  <2> QED
    BY <2>1, <2>2
<1>7. ShutdownReachesAll'
  BY <1>2, OneStreamFacts DEF ShutdownReachesAll
<1>8. DeletedStay
  BY <1>2 DEF DeletedStay
<1>9. StatusInvariant'
  BY <1>2, <1>3, <1>4, <1>5, <1>6, <1>7 DEF StatusInvariant
<1> QED
  BY <1>8, <1>9

\* A step that changes no reactor preserves the invariant if the service stays
\* well-typed and every wake that was coming still is, or is not needed.
LEMMA NoStream ==
    ASSUME StatusInvariant, UNCHANGED reactor, ServiceTypeOK',
           hubClosed => hubClosed', WakeIsComing', ShutdownReachesAll'
    PROVE  StatusInvariant' /\ DeletedStay
  BY DEF StatusInvariant, DeletedStay

LEMMA StatusInitially == StatusInit => StatusInvariant
<1> SUFFICES ASSUME StatusInit PROVE StatusInvariant
  OBVIOUS
<1>1. poll \in PollStates
  BY DEF StatusInit, PollStates
<1>2. ServiceTypeOK
  <2>1. registry \in [shuttingDown : BOOLEAN, left : SUBSET Streams]
    BY DEF StatusInit
  <2>2. history \in Seq(Samples) /\ published \in Seq(Statuses)
    BY DEF StatusInit
  <2>3. available \in BOOLEAN /\ hubClosed \in BOOLEAN
    BY DEF StatusInit
  <2> QED
    BY <1>1, <2>1, <2>2, <2>3 DEF ServiceTypeOK
<1>3. \A r \in Streams : reactor[r] = NoReactor
  BY DEF StatusInit
<1>4. reactor = [r \in Streams |-> reactor[r]]
  BY DEF StatusInit
<1>5. WakeIsComing
  BY <1>3, NoReactorInLife DEF WakeIsComing, Idle
<1>6. ShutdownReachesAll
  BY DEF StatusInit, ShutdownReachesAll
<1> QED
  BY <1>2, <1>3, <1>4, <1>5, <1>6, NoReactorInLife DEF StatusInvariant, Listening

-----------------------------------------------------------------------------
\* The poller.

LEMMA PollStateKinds ==
    ASSUME poll \in PollStates
    PROVE  /\ poll.at = "waking" => poll.left \in SUBSET Streams
           /\ poll.at = "waking" => poll \in [at : {"waking"}, left : SUBSET Streams]
           /\ poll.at = "observe" => poll.fresh \in Statuses /\ poll.recovered \in BOOLEAN
  BY DEF PollStates

\* A new sample keeps the history a sequence of samples, trimmed or not.
LEMMA ObserveKeepsTypes ==
    ASSUME ServiceTypeOK, Observe
    PROVE  history' \in Seq(Samples) /\ published' \in Seq(Statuses) /\ poll' \in PollStates
<1> DEFINE n == Len(published) + 1
           delta == Delta(Last(history).status, poll.fresh)
           plain == Sample(n, poll.fresh, NoDelta)
           added == Sample(n, poll.fresh, delta)
           h == Append(history, added)
           Deltas == UNION {[D -> Values] : D \in SUBSET Units}
<1>1. /\ history \in Seq(Samples) /\ published \in Seq(Statuses)
      /\ poll.fresh \in Statuses /\ n \in Nat \ {0}
  BY PollStateKinds DEF ServiceTypeOK, Observe
<1>2. NoDelta \in Deltas
  <2>1. NoDelta \in [{} -> Values] /\ {} \in SUBSET Units
    BY DEF NoDelta
  <2> QED
    BY <2>1
<1>3. delta \in Deltas
  <2> DEFINE D == {v \in Units : Last(history).status[v] # poll.fresh[v]}
  <2>1. delta \in [D -> Values] /\ D \in SUBSET Units
    BY <1>1 DEF Delta, Statuses
  <2> QED
    BY <2>1
<1> HIDE DEF n, delta, Deltas
<1>4. plain \in Samples /\ added \in Samples
  BY <1>1, <1>2, <1>3 DEF Sample, Samples, Deltas
<1> HIDE DEF plain, added
<1>5. h \in Seq(Samples) /\ <<plain>> \in Seq(Samples) /\ Append(published, poll.fresh) \in Seq(Statuses)
  BY <1>1, <1>4
<1> HIDE DEF h
<1>6. Trimmed(h) \in Seq(Samples)
  <2>1. CASE Len(h) > ReplayCapacity
    <3>1. Len(h) \in Nat /\ ReplayCapacity \in Nat \ {0}
      BY <1>5, StatusAssumption
    <3>2. Len(h) - ReplayCapacity + 1 \in 1..Len(h) /\ Len(h) \in 1..Len(h)
      BY <2>1, <3>1
    <3>3. SubSeq(h, Len(h) - ReplayCapacity + 1, Len(h)) \in Seq(Samples)
      BY <1>5, <3>1, <3>2
    <3> QED
      BY <2>1, <3>3 DEF Trimmed
  <2>2. CASE ~(Len(h) > ReplayCapacity)
    BY <1>5, <2>2 DEF Trimmed
  <2> QED
    BY <2>1, <2>2
<1>7. \/ history' = <<plain>> \/ history' = Trimmed(h) \/ history' = history
  BY DEF Observe, Rebased, n, delta, plain, added, h
<1>8. published' = Append(published, poll.fresh) \/ published' = published
  BY DEF Observe
<1>9. poll' = [at |-> "publish"] \/ poll' = [at |-> "idle"]
  BY DEF Observe
<1>10. [at |-> "publish"] \in PollStates /\ [at |-> "idle"] \in PollStates
  BY DEF PollStates
<1> QED
  BY <1>1, <1>5, <1>6, <1>7, <1>8, <1>9, <1>10

LEMMA PollerPreserves ==
    ASSUME StatusInvariant,
           PollUpdated \/ PollUnavailable \/ Observe \/ PublishWake \/ PollDone
    PROVE  StatusInvariant' /\ DeletedStay
<1>1. ServiceTypeOK
  BY DEF StatusInvariant
<1>2. /\ UNCHANGED <<reactor, hubClosed, registry>>
      /\ ShutdownReachesAll'
  BY DEF PollUpdated, PollUnavailable, Observe, PublishWake, PollDone, streamVars,
         StatusInvariant, ShutdownReachesAll
<1>3. ASSUME available' \in BOOLEAN, history' \in Seq(Samples), published' \in Seq(Statuses),
             poll' \in PollStates
      PROVE  ServiceTypeOK'
  BY <1>1, <1>2, <1>3 DEF ServiceTypeOK
<1>4. ASSUME poll'.at = "publish" PROVE WakeIsComing'
  BY <1>4 DEF WakeIsComing
<1>5. ASSUME history' = history, available => available',
             \A r \in Streams : Waiting(reactor[r]) /\ ~hubClosed =>
               available /\ NothingNew(reactor[r])
      PROVE  WakeIsComing'
  BY <1>2, <1>5 DEF WakeIsComing, Idle, Waiting, NothingNew, LaterEvent, AnchorRetained
<1>6. CASE PollUpdated
  <2>1. /\ poll.at = "idle" /\ available' = TRUE /\ UNCHANGED <<history, published>>
        /\ \E s \in Statuses :
             poll' = [at |-> "observe", fresh |-> s, recovered |-> ~available]
    BY <1>6 DEF PollUpdated
  <2>2. poll' \in PollStates
    BY <1>1, <2>1 DEF PollStates, ServiceTypeOK
  <2>3. ServiceTypeOK'
    BY <1>1, <1>3, <2>1, <2>2 DEF ServiceTypeOK
  <2>4. WakeIsComing'
    BY <1>5, <2>1, OneStreamFacts
  <2> QED
    BY <1>2, <2>3, <2>4, NoStream
<1>7. CASE PollUnavailable
  <2>1. /\ available' = FALSE /\ UNCHANGED <<history, published>>
        /\ poll' = [at |-> "publish"]
    BY <1>7 DEF PollUnavailable
  <2>2. poll' \in PollStates /\ poll'.at = "publish"
    BY <2>1 DEF PollStates
  <2>3. ServiceTypeOK'
    BY <1>1, <1>3, <2>1, <2>2 DEF ServiceTypeOK
  <2> QED
    BY <1>2, <1>4, <2>2, <2>3, NoStream
<1>8. CASE Observe
  <2>1. ServiceTypeOK'
    BY <1>1, <1>3, <1>8, ObserveKeepsTypes DEF Observe, ServiceTypeOK
  <2>2. CASE poll' = [at |-> "publish"]
    BY <1>2, <1>4, <2>1, <2>2, NoStream
  <2>3. CASE poll' = [at |-> "idle"]
    <3>1. history' = history /\ available' = available /\ poll.at = "observe"
      BY <1>8, <2>3 DEF Observe
    <3>2. WakeIsComing'
      BY <1>5, <3>1, OneStreamFacts
    <3> QED
      BY <1>2, <2>1, <3>2, NoStream
  <2> QED
    BY <1>8, <2>2, <2>3 DEF Observe
<1>9. CASE PublishWake
  <2> DEFINE L == {r \in Streams : ~hubClosed /\ reactor[r].subscribed}
  <2>1. poll' = [at |-> "waking", left |-> L] /\ UNCHANGED <<available, history, published>>
    BY <1>9 DEF PublishWake
  <2>2. poll' \in PollStates /\ poll'.at = "waking" /\ poll'.left = L
    BY <2>1 DEF PollStates
  <2>3. ServiceTypeOK'
    BY <1>1, <1>3, <2>1, <2>2 DEF ServiceTypeOK
  <2>4. ASSUME NEW r \in Streams, Waiting(reactor[r]), ~hubClosed PROVE r \in L
    BY <2>4, OneStreamFacts DEF Listening, Waiting, InLife
  <2>5. WakeIsComing'
    BY <1>2, <2>2, <2>4 DEF WakeIsComing, Idle, Waiting
  <2> QED
    BY <1>2, <2>3, <2>5, NoStream
<1>10. CASE PollDone
  <2>1. /\ poll.at = "waking" /\ poll.left = {} /\ poll' = [at |-> "idle"]
        /\ UNCHANGED <<available, history, published>>
    BY <1>10 DEF PollDone
  <2>2. poll' \in PollStates
    BY <2>1 DEF PollStates
  <2>3. ServiceTypeOK'
    BY <1>1, <1>3, <2>1, <2>2 DEF ServiceTypeOK
  <2>4. WakeIsComing'
    BY <1>5, <2>1, OneStreamFacts
  <2> QED
    BY <1>2, <2>3, <2>4, NoStream
<1> QED
  BY <1>6, <1>7, <1>8, <1>9, <1>10

LEMMA WakeCallbackPreserves ==
    ASSUME StatusInvariant, NEW r \in Streams, WakeCallback(r)
    PROVE  StatusInvariant' /\ DeletedStay
<1> DEFINE x == reactor[r]
<1>1. /\ ServiceTypeOK /\ InLife(x) /\ (~hubClosed => Listening(x))
      /\ reactor = [s \in Streams |-> reactor[s]]
      /\ registry.shuttingDown => x.at = "none" \/ r \in registry.left \/ x.terminal
  BY OneStreamFacts DEF StatusInvariant
<1>2. /\ UNCHANGED <<available, history, published, hubClosed, registry>>
      /\ poll.at = "waking" /\ r \in poll.left /\ poll' = [poll EXCEPT !.left = @ \ {r}]
  BY DEF WakeCallback
<1>3. /\ poll' \in PollStates /\ poll'.at = poll.at /\ poll.left \subseteq poll'.left \cup {r}
  <2>1. poll \in [at : {"waking"}, left : SUBSET Streams]
    BY <1>1, <1>2, PollStateKinds DEF ServiceTypeOK
  <2>2. poll' \in [at : {"waking"}, left : SUBSET Streams] /\ poll'.left = poll.left \ {r}
    BY <1>2, <2>1
  <2> QED
    BY <2>1, <2>2 DEF PollStates
<1>4. registry' \in [shuttingDown : BOOLEAN, left : SUBSET Streams]
  BY <1>1, <1>2 DEF ServiceTypeOK
<1>5. CASE Gated(r)
  <2>1. PICK y \in Scheduled(x) : reactor' = [reactor EXCEPT ![r] = y]
    BY <1>5 DEF WakeCallback
  <2>2. /\ InLife(y) /\ y.at = x.at /\ (x.terminal => y.terminal)
        /\ (Listening(x) => Listening(y)) /\ ~Waiting(y) /\ x.gate = "Open"
    BY <1>1, <1>5, ScheduledKeeps DEF Gated
  <2> QED
    BY <1>1, <1>2, <1>3, <1>4, <2>1, <2>2, OneStream
<1>6. CASE ~Gated(r)
  <2>1. reactor' = [reactor EXCEPT ![r] = x]
    BY <1>1, <1>6 DEF WakeCallback
  <2>2. ~Waiting(x)
    BY <1>6 DEF Gated, Waiting
  <2> QED
    BY <1>1, <1>2, <1>3, <1>4, <2>1, <2>2, OneStream
<1> QED
  BY <1>5, <1>6

-----------------------------------------------------------------------------
\* A step of the reactor itself leaves the poller and the registry alone.
LEMMA ReactorAlone ==
    ASSUME StatusInvariant, NEW r \in Streams, NEW y,
           reactor' = [reactor EXCEPT ![r] = y],
           UNCHANGED <<available, history, published, poll, hubClosed, registry>>,
           InLife(y), ~hubClosed => Listening(y),
           Waiting(y) /\ ~hubClosed => available /\ NothingNew(y),
           registry.shuttingDown => y.terminal \/ reactor[r].at # "none",
           reactor[r].terminal => y.terminal,
           reactor[r].gate # "Done"
    PROVE  StatusInvariant' /\ DeletedStay
<1>1. ServiceTypeOK
  BY DEF StatusInvariant
<1>2. /\ poll' \in PollStates /\ poll'.at = poll.at
      /\ poll.at = "waking" => poll.left \subseteq poll'.left \cup {r}
      /\ registry' \in [shuttingDown : BOOLEAN, left : SUBSET Streams]
      /\ registry'.shuttingDown = registry.shuttingDown
      /\ registry.left \subseteq registry'.left \cup {r}
  BY <1>1 DEF ServiceTypeOK
<1>3. registry.shuttingDown => y.at = "none" \/ r \in registry'.left \/ y.terminal
  BY OneStreamFacts
<1> QED
  BY <1>2, <1>3, OneStream

\* The constructor.
LEMMA OpeningPreserves ==
    ASSUME StatusInvariant, NEW r \in Streams,
           \/ \E a \in Afters : Open(r, a)
           \/ OpenRefused(r) \/ Subscribe(r) \/ FirstWake(r)
    PROVE  StatusInvariant' /\ DeletedStay
<1> DEFINE x == reactor[r]
<1>1. InLife(x) /\ (~hubClosed => Listening(x)) /\ hubClosed \in BOOLEAN
  BY OneStreamFacts DEF ServiceTypeOK
<1>2. UNCHANGED <<available, history, published, poll, hubClosed, registry>>
  BY DEF Open, OpenRefused, Subscribe, FirstWake
<1>3. CASE \E a \in Afters : Open(r, a)
  <2>1. PICK a \in Afters : Open(r, a)
    BY <1>3
  <2> DEFINE y == [NoReactor EXCEPT !.at = "subscribe", !.after = a]
  <2>2. reactor' = [reactor EXCEPT ![r] = y] /\ x.at = "none" /\ ~registry.shuttingDown
    BY <2>1 DEF Open
  <2>3. /\ DOMAIN y = ReactorFields /\ y.at = "subscribe" /\ y.gate = "Open"
        /\ y.subscribed = FALSE /\ y.scheduled = FALSE /\ y.terminal = FALSE
        /\ y.writing = Nothing
    BY DEF NoReactor, ReactorFields
  <2> HIDE DEF y
  <2>4. InLife(y) /\ Listening(y) /\ ~Waiting(y)
    BY <2>3 DEF InLife, Listening, Waiting
  <2>5. x.gate # "Done" /\ ~x.terminal
    BY <1>1, <2>2 DEF InLife
  <2> QED
    BY <1>2, <2>2, <2>4, <2>5, ReactorAlone
<1>4. CASE OpenRefused(r)
  <2> DEFINE z == [NoReactor EXCEPT !.at = "built"]
             y == RequestFinish(z)
  <2>1. reactor' = [reactor EXCEPT ![r] = y] /\ x.at = "none"
    BY <1>4 DEF OpenRefused
  <2>2. /\ DOMAIN z = ReactorFields /\ z.at = "built" /\ z.gate = "Open"
        /\ z.subscribed = FALSE /\ z.scheduled = FALSE /\ z.terminal = FALSE
        /\ z.writing = Nothing
    BY DEF NoReactor, ReactorFields
  <2> HIDE DEF z
  <2>3. InLife(z)
    BY <2>2 DEF InLife
  <2>4. InLife(y) /\ y.terminal /\ ~Waiting(y)
    BY <2>2, <2>3, RequestFinishKeeps
  <2> HIDE DEF y
  <2>5. Listening(y) /\ x.gate # "Done"
    BY <1>1, <2>1, <2>4 DEF InLife, Listening
  <2> QED
    BY <1>2, <2>1, <2>4, <2>5, ReactorAlone
<1>5. CASE Subscribe(r)
  <2> DEFINE y == [x EXCEPT !.at = "wake", !.subscribed = ~hubClosed]
  <2>1. reactor' = [reactor EXCEPT ![r] = y] /\ x.at = "subscribe"
    BY <1>5 DEF Subscribe
  <2>2. /\ DOMAIN y = ReactorFields /\ y.at = "wake" /\ y.gate = x.gate
        /\ y.subscribed = ~hubClosed /\ y.scheduled = x.scheduled
        /\ y.terminal = x.terminal /\ y.writing = x.writing
    BY <1>1 DEF InLife, ReactorFields
  <2> HIDE DEF y
  <2>3. /\ InLife(y) /\ (~hubClosed => Listening(y)) /\ ~Waiting(y)
        /\ x.gate # "Done"
    BY <1>1, <2>1, <2>2 DEF InLife, Listening, Waiting
  <2> QED
    BY <1>2, <2>1, <2>2, <2>3, ReactorAlone
<1>6. CASE FirstWake(r)
  <2>1. PICK z \in Scheduled(x) : reactor' = [reactor EXCEPT ![r] = [z EXCEPT !.at = "built"]]
    BY <1>6 DEF FirstWake
  <2>2. x.at = "wake" /\ x.gate # "Done"
    BY <1>1, <1>6 DEF FirstWake, InLife
  <2>3. /\ InLife(z) /\ z.at = "wake" /\ (x.terminal => z.terminal)
        /\ (Listening(x) => Listening(z)) /\ (x.gate # "Open" => z = x)
    BY <1>1, <2>2, ScheduledKeeps
  <2>4. z.gate = "Open" => z.scheduled \/ z.writing # Nothing
    BY <1>1, <2>2, ScheduledKeeps
  <2> DEFINE y == [z EXCEPT !.at = "built"]
  <2>5. /\ DOMAIN y = ReactorFields /\ y.at = "built" /\ y.gate = z.gate
        /\ y.subscribed = z.subscribed /\ y.scheduled = z.scheduled
        /\ y.terminal = z.terminal /\ y.writing = z.writing
    BY <2>3 DEF InLife, ReactorFields
  <2>6. reactor' = [reactor EXCEPT ![r] = y]
    BY <2>1
  <2> HIDE DEF y
  <2>7. /\ InLife(y) /\ (~hubClosed => Listening(y)) /\ ~Waiting(y)
    BY <1>1, <2>3, <2>4, <2>5 DEF InLife, Listening, Waiting
  <2> QED
    BY <1>2, <2>2, <2>3, <2>5, <2>6, <2>7, ReactorAlone
<1> QED
  BY <1>3, <1>4, <1>5, <1>6

\* The reactor at work: wakes, writes, cancellation and deletion.
LEMMA WorkPreserves ==
    ASSUME StatusInvariant, NEW r \in Streams,
           RunWake(r) \/ WriteDone(r) \/ WriteFailed(r) \/ Cancel(r) \/ Done(r)
    PROVE  StatusInvariant' /\ DeletedStay
<1> DEFINE x == reactor[r]
<1>1. ServiceTypeOK /\ InLife(x) /\ (~hubClosed => Listening(x))
  BY OneStreamFacts
<1>2. UNCHANGED <<available, history, published, poll, hubClosed, registry>>
  BY DEF RunWake, WriteDone, WriteFailed, Cancel, Done
<1>3. x.gate # "Done" /\ x.at # "none"
  BY <1>1 DEF RunWake, WriteDone, WriteFailed, Cancel, Done, Gated, InLife
<1>4. ASSUME NEW y, reactor' = [reactor EXCEPT ![r] = y],
             InLife(y), ~hubClosed => Listening(y),
             Waiting(y) => available /\ NothingNew(y), x.terminal => y.terminal
      PROVE  StatusInvariant' /\ DeletedStay
  BY <1>2, <1>3, <1>4, ReactorAlone
<1>5. CASE RunWake(r)
  <2> DEFINE z == [x EXCEPT !.scheduled = FALSE]
  <2>1. reactor' = [reactor EXCEPT ![r] = Woken(z)] /\ x.gate = "Open"
    BY <1>5 DEF RunWake, Gated
  <2>2. /\ DOMAIN z = ReactorFields /\ z.at = x.at /\ z.gate = x.gate
        /\ z.subscribed = x.subscribed /\ z.scheduled = FALSE
        /\ z.terminal = x.terminal /\ z.writing = x.writing
    BY <1>1 DEF InLife, ReactorFields
  <2> HIDE DEF z
  <2>3. InLife(z) /\ (~hubClosed => Listening(z))
    BY <1>1, <2>2 DEF InLife, Listening
  <2> QED
    BY <1>1, <1>3, <1>4, <2>1, <2>2, <2>3, WokenKeeps
<1>6. CASE WriteDone(r)
  <2> DEFINE w == [x EXCEPT !.writing = Nothing, !.event = Nothing]
             y == [w EXCEPT !.previous = x.writing]
  <2>1. PICK z \in IF w.terminal THEN {Finished(w)} ELSE Scheduled(y) :
          reactor' = [reactor EXCEPT ![r] = z]
    BY <1>6 DEF WriteDone
  <2>2. x.gate = "Open" /\ x.at = "built" /\ x.writing # Nothing
    BY <1>6 DEF WriteDone, Gated
  <2>3. /\ DOMAIN w = ReactorFields /\ w.at = x.at /\ w.gate = x.gate
        /\ w.subscribed = x.subscribed /\ w.scheduled = x.scheduled
        /\ w.terminal = x.terminal /\ w.writing = Nothing
    BY <1>1 DEF InLife, ReactorFields
  <2>4. /\ DOMAIN y = ReactorFields /\ y.at = x.at /\ y.gate = x.gate
        /\ y.subscribed = x.subscribed /\ y.scheduled = x.scheduled
        /\ y.terminal = x.terminal /\ y.writing = Nothing
    BY <1>1 DEF InLife, ReactorFields
  <2> HIDE DEF w, y
  <2>5. CASE x.terminal
    <3> DEFINE v == [w EXCEPT !.gate = "Finishing", !.subscribed = FALSE]
    <3>1. z = v
      BY <2>1, <2>3, <2>5 DEF Finished
    <3>2. /\ DOMAIN v = ReactorFields /\ v.at = x.at /\ v.gate = "Finishing"
          /\ v.subscribed = FALSE /\ v.scheduled = x.scheduled
          /\ v.terminal = x.terminal /\ v.writing = Nothing
      BY <2>3 DEF ReactorFields
    <3> HIDE DEF v
    <3>3. InLife(v) /\ Listening(v) /\ ~Waiting(v) /\ v.terminal
      BY <1>1, <2>2, <2>5, <3>2 DEF InLife, Listening, Waiting
    <3> QED
      BY <1>4, <2>1, <3>1, <3>3
  <2>6. CASE ~x.terminal
    <3>1. InLife(y) /\ (~hubClosed => Listening(y))
      BY <1>1, <2>2, <2>4, <2>6 DEF InLife, Listening
    <3>2. z \in Scheduled(y)
      BY <2>1, <2>3, <2>6
    <3>3. InLife(z) /\ (~hubClosed => Listening(z)) /\ ~Waiting(z)
      BY <1>3, <2>4, <3>1, <3>2, ScheduledKeeps
    <3> QED
      BY <1>4, <2>1, <2>6, <3>3
  <2> QED
    BY <2>5, <2>6
<1>7. CASE WriteFailed(r)
  <2> DEFINE w == [x EXCEPT !.writing = Nothing, !.event = Nothing, !.terminal = TRUE]
             v == [w EXCEPT !.gate = "Finishing", !.subscribed = FALSE]
  <2>1. reactor' = [reactor EXCEPT ![r] = Finished(w)]
    BY <1>7 DEF WriteFailed
  <2>2. /\ DOMAIN w = ReactorFields /\ w.at = x.at /\ w.gate = x.gate
        /\ w.subscribed = x.subscribed /\ w.scheduled = x.scheduled
        /\ w.terminal = TRUE /\ w.writing = Nothing
    BY <1>1 DEF InLife, ReactorFields
  <2> HIDE DEF w
  <2>3. Finished(w) = v
    BY <2>2 DEF Finished
  <2>4. /\ DOMAIN v = ReactorFields /\ v.at = x.at /\ v.gate = "Finishing"
        /\ v.subscribed = FALSE /\ v.scheduled = x.scheduled
        /\ v.terminal = TRUE /\ v.writing = Nothing
    BY <2>2 DEF ReactorFields
  <2> HIDE DEF v
  <2>5. InLife(v) /\ Listening(v) /\ ~Waiting(v) /\ v.terminal
    BY <1>1, <1>3, <2>4 DEF InLife, Listening, Waiting
  <2> QED
    BY <1>4, <2>1, <2>3, <2>5
<1>8. CASE Cancel(r)
  <2>1. reactor' = [reactor EXCEPT ![r] = RequestFinish(x)] /\ x.gate = "Open"
    BY <1>8 DEF Cancel, Gated
  <2>2. InLife(RequestFinish(x)) /\ RequestFinish(x).terminal /\ ~Waiting(RequestFinish(x))
    BY <1>1, <1>3, <2>1, RequestFinishKeeps
  <2>3. Listening(RequestFinish(x))
    BY <2>2 DEF Listening
  <2> QED
    BY <1>4, <2>1, <2>2, <2>3
<1>9. CASE Done(r)
  <2>1. reactor' = [reactor EXCEPT ![r] = Deleted]
    BY <1>9 DEF Done
  <2>2. Listening(Deleted) /\ ~Waiting(Deleted)
    BY DeletedInLife DEF Listening, Waiting
  <2> QED
    BY <1>4, <2>1, <2>2, DeletedInLife
<1> QED
  BY <1>5, <1>6, <1>7, <1>8, <1>9

\* shutdown().
LEMMA CloseHubPreserves ==
    ASSUME StatusInvariant, CloseHub PROVE StatusInvariant' /\ DeletedStay
<1>1. hubClosed' = TRUE /\ UNCHANGED <<available, history, published, poll, registry, reactor>>
  BY DEF CloseHub, streamVars
<1>2. ServiceTypeOK'
  BY <1>1 DEF StatusInvariant, ServiceTypeOK
<1>3. WakeIsComing' /\ ShutdownReachesAll'
  BY <1>1 DEF WakeIsComing, StatusInvariant, ShutdownReachesAll
<1> QED
  BY <1>1, <1>2, <1>3, NoStream

LEMMA ShutdownRegistryPreserves ==
    ASSUME StatusInvariant, ShutdownRegistry PROVE StatusInvariant' /\ DeletedStay
<1> DEFINE L == {r \in Streams : reactor[r].at # "none" /\ reactor[r].gate # "Done"}
<1>1. /\ registry' = [shuttingDown |-> TRUE, left |-> L] /\ hubClosed
      /\ UNCHANGED <<available, history, published, poll, hubClosed, reactor>>
  BY DEF ShutdownRegistry, streamVars
<1>2. /\ registry' \in [shuttingDown : BOOLEAN, left : SUBSET Streams]
      /\ registry'.left = L
  BY <1>1
<1>3. ServiceTypeOK'
  BY <1>1, <1>2 DEF StatusInvariant, ServiceTypeOK
<1>4. WakeIsComing'
  BY <1>1 DEF WakeIsComing
<1>5. ASSUME NEW r \in Streams
      PROVE  reactor[r].at = "none" \/ r \in L \/ reactor[r].terminal
  BY OneStreamFacts DEF InLife
<1>6. ShutdownReachesAll'
  BY <1>1, <1>2, <1>5 DEF ShutdownReachesAll
<1> QED
  BY <1>1, <1>3, <1>4, <1>6, NoStream

LEMMA ShutdownCallbackPreserves ==
    ASSUME StatusInvariant, NEW r \in Streams, ShutdownCallback(r)
    PROVE  StatusInvariant' /\ DeletedStay
<1> DEFINE x == reactor[r]
           y == IF Gated(r) THEN RequestFinish(x) ELSE x
<1>1. /\ ServiceTypeOK /\ InLife(x) /\ (~hubClosed => Listening(x))
      /\ Waiting(x) => Gated(r)
  BY OneStreamFacts DEF Waiting, Gated
<1>2. /\ UNCHANGED <<available, history, published, hubClosed, poll>>
      /\ registry' = [registry EXCEPT !.left = @ \ {r}]
      /\ reactor' = [reactor EXCEPT ![r] = y]
  BY DEF ShutdownCallback
<1>3. /\ registry' \in [shuttingDown : BOOLEAN, left : SUBSET Streams]
      /\ registry'.shuttingDown = registry.shuttingDown
      /\ registry.left \subseteq registry'.left \cup {r}
  BY <1>1, <1>2 DEF ServiceTypeOK
<1>4. /\ poll' \in PollStates /\ poll'.at = poll.at
      /\ poll.at = "waking" => poll.left \subseteq poll'.left \cup {r}
  BY <1>1, <1>2 DEF ServiceTypeOK
<1>5. CASE Gated(r)
  <2>1. y = RequestFinish(x) /\ x.gate = "Open" /\ x.at # "none"
    BY <1>5 DEF Gated
  <2>2. InLife(y) /\ y.terminal /\ ~Waiting(y)
    BY <1>1, <2>1, RequestFinishKeeps
  <2> HIDE DEF y
  <2>3. Listening(y)
    BY <2>2 DEF Listening
  <2> QED
    BY <1>2, <1>3, <1>4, <2>1, <2>2, <2>3, OneStream
<1>6. CASE ~Gated(r)
  <2>1. y = x /\ (x.at = "none" \/ x.terminal)
    BY <1>1, <1>6 DEF Gated, InLife
  <2> HIDE DEF y
  <2> QED
    BY <1>1, <1>2, <1>3, <1>4, <1>6, <2>1, OneStream
<1> QED
  BY <1>5, <1>6

LEMMA StatusStepPreserves ==
    StatusInvariant /\ [StatusNext]_statusVars => StatusInvariant' /\ DeletedStay
<1> SUFFICES ASSUME StatusInvariant, [StatusNext]_statusVars
             PROVE  StatusInvariant' /\ DeletedStay
  OBVIOUS
<1>1. CASE PollerStep
  BY <1>1, PollerPreserves, WakeCallbackPreserves DEF PollerStep
<1>2. ASSUME NEW r \in Streams, ReactorStep(r) PROVE StatusInvariant' /\ DeletedStay
  BY <1>2, OpeningPreserves, WorkPreserves DEF ReactorStep
<1>3. CASE UNCHANGED statusVars
  <2>1. UNCHANGED <<available, history, published, poll, hubClosed, registry, reactor>>
    BY <1>3 DEF statusVars
  <2>2. ServiceTypeOK'
    BY <2>1 DEF StatusInvariant, ServiceTypeOK
  <2>3. WakeIsComing'
    BY <2>1 DEF StatusInvariant, WakeIsComing, Idle, NothingNew, LaterEvent, AnchorRetained
  <2>4. ShutdownReachesAll'
    BY <2>1 DEF StatusInvariant, ShutdownReachesAll
  <2> QED
    BY <2>1, <2>2, <2>3, <2>4, NoStream
<1> QED
  BY <1>1, <1>2, <1>3, ShutdownCallbackPreserves, CloseHubPreserves,
     ShutdownRegistryPreserves DEF StatusNext

-----------------------------------------------------------------------------
\* The inductive invariant of the status streams.
THEOREM StatusStreamInvariant == StatusSpec => []StatusInvariant
<1>1. StatusInvariant /\ [StatusNext]_statusVars => StatusInvariant'
  BY StatusStepPreserves
<1> QED
  BY <1>1, StatusInitially, PTL DEF StatusSpec

\* DeferredWriteFinish: Finish has been called exactly when a stream is to end and
\* none of its writes is outstanding.
THEOREM StatusFinishAfterWrite == StatusSpec => []FinishAfterWrite
<1>1. StatusInvariant => FinishAfterWrite
  BY DEF StatusInvariant, InLife, FinishAfterWrite
<1> QED
  BY <1>1, StatusStreamInvariant, PTL

\* wake_scheduled_, the writes and the hub lose no wake: a stream that waits has
\* nothing to send, or the poller is about to wake it.
THEOREM StatusWakesNeverLost == StatusSpec => []WakeIsComing
<1>1. StatusInvariant => WakeIsComing
  BY DEF StatusInvariant
<1> QED
  BY <1>1, StatusStreamInvariant, PTL

\* shutdown() ends every stream, whatever it is doing.
THEOREM StatusShutdownReachesAll == StatusSpec => []ShutdownReachesAll
<1>1. StatusInvariant => ShutdownReachesAll
  BY DEF StatusInvariant
<1> QED
  BY <1>1, StatusStreamInvariant, PTL

\* The LifetimeGate: no callback touches a reactor that OnDone has deleted.
THEOREM StatusUntouchedAfterDone == StatusSpec => UntouchedAfterDone
<1>1. StatusInvariant /\ [StatusNext]_statusVars =>
        [\A r \in Streams : reactor[r].gate = "Done" => reactor'[r] = reactor[r]]_statusVars
  BY StatusStepPreserves DEF DeletedStay
<1> QED
  BY <1>1, StatusStreamInvariant, PTL DEF StatusSpec, UntouchedAfterDone
===============================================================================
