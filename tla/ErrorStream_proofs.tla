------------------------- MODULE ErrorStream_proofs -------------------------
(***************************************************************************)
(* For any streams, any ring and any number of messages: what a client     *)
(* reads has no gap, and no wake of a stream is lost.                      *)
(***************************************************************************)
EXTENDS ErrorStream, TLAPS

WatcherRecord ==
    [at : {"none", "subscribe", "wake", "built"}, cursor : 0..(SequenceModulus - 1),
     writing : 0..MaxErrors, subscribed : BOOLEAN, terminal : BOOLEAN,
     gate : {"Open", "Finishing", "Done"}]

\* The ring holds the last messages, without a gap.
RingInvariant ==
    /\ nextError \in 1..(MaxErrors + 1)
    /\ ring \in Seq(Nat) /\ Len(ring) < nextError
    /\ \A i \in 1..Len(ring) : ring[i] = (nextError - Len(ring)) + (i - 1)

StreamTypeOK ==
    /\ watcher \in [Watchers -> WatcherRecord]
    /\ got \in [Watchers -> Seq(Nat)]
    /\ errorHub \in BOOLEAN
    /\ waking \in [at : {"idle", "publish", "wake"}, left : SUBSET Watchers]
    /\ shutdowns \in [at : {"open", "call"}, left : SUBSET Watchers]

\* Where a stream x stands whose client has read g: the message it writes, or else
\* its cursor, continues what was read; a stream that is ending writes no more.
InPlace(x, g) ==
    /\ x.at = "none" => g = <<>> /\ x.writing = 0 /\ ~x.subscribed
    /\ g # <<>> /\ ~x.terminal => x.cursor = g[Len(g)]
    /\ g # <<>> => g[Len(g)] \in 1..MaxErrors
    /\ g # <<>> /\ x.writing # 0 => x.writing = g[Len(g)] + 1
    /\ x.terminal /\ x.writing = 0 => x.gate # "Open"

\* A stream that waits is subscribed.
Listening(x) ==
    x.at \in {"wake", "built"} /\ x.gate = "Open" /\ ~x.terminal => x.subscribed

Quiet(x) == Following(x.cursor) = {} /\ ~Behind(x.cursor)

StreamInvariant ==
    /\ StreamTypeOK
    /\ \A w \in Watchers : InPlace(watcher[w], got[w])
    /\ errorHub => \A w \in Watchers : Listening(watcher[w])
    /\ \A w \in waking.left \cup shutdowns.left : watcher[w].at # "none"

ErrorInvariant ==
    RingInvariant /\ StreamInvariant /\ ErrorsInSequence /\ ErrorWakeIsComing

-----------------------------------------------------------------------------
LEMMA RemainderOfSmall ==
    ASSUME NEW a \in Nat, NEW m \in Nat, a < m PROVE a % m = a
  OBVIOUS

\* The entry a stream gets next follows its cursor, at once when the cursor is a
\* message and the ring still has the one after it.
LEMMA NextFollows ==
    ASSUME RingInvariant, NEW c \in 0..(SequenceModulus - 1), Following(c) # {}
    PROVE  /\ NextEntry(c) \in 1..MaxErrors /\ NextEntry(c) > c
           /\ c \in 1..MaxErrors /\ ~Behind(c) => NextEntry(c) = c + 1
<1>1. PICK len \in Nat, first \in Nat \ {0} :
        /\ nextError = first + len /\ first + len <= MaxErrors + 1
        /\ DOMAIN ring = 1..len /\ len = Len(ring)
        /\ \A i \in 1..len : ring[i] = first + (i - 1)
  <2> DEFINE l == Len(ring)
             f == nextError - l
  <2>1. l \in Nat /\ nextError \in Nat /\ l < nextError /\ nextError <= MaxErrors + 1
    BY ErrorAssumption DEF RingInvariant
  <2>2. \A i \in 1..l : ring[i] = f + (i - 1)
    BY DEF RingInvariant
  <2>3. DOMAIN ring = 1..l
    BY DEF RingInvariant
  <2> HIDE DEF l
  <2>4. f \in Nat \ {0} /\ nextError = f + l
    BY <2>1
  <2> QED
    BY <2>1, <2>2, <2>3, <2>4 DEF l
<1>2. c \in Nat /\ MaxErrors \in Nat /\ SequenceModulus \in Nat /\ MaxErrors + 1 < SequenceModulus
  BY ErrorAssumption
<1>3. \A j : j \in Following(c) <=> j \in 1..len /\ first + (j - 1) > c
  BY <1>1 DEF Following
<1>4. PICK m \in Following(c) : TRUE
  OBVIOUS
<1>5. m \in 1..len /\ first + (m - 1) > c
  BY <1>3, <1>4
<1>6. PICK k \in 1..len : /\ first + (k - 1) = IF first > c THEN first ELSE c + 1
                          /\ first > c => k = 1
                          /\ first <= c => k = (c - first) + 2
  <2>1. CASE first > c
    <3>1. 1 \in 1..len /\ first + (1 - 1) = first
      BY <1>1, <1>5
    <3> QED
      BY <1>1, <1>2, <2>1, <3>1
  <2>2. CASE first <= c
    <3>1. (c - first) + 2 \in 1..len /\ first + (((c - first) + 2) - 1) = c + 1
      BY <1>1, <1>2, <1>5, <2>2
    <3> QED
      BY <1>1, <1>2, <2>2, <3>1
  <2> QED
    BY <1>1, <1>2, <2>1, <2>2
<1>7. k \in Following(c)
  <2>1. first + (k - 1) > c
    BY <1>1, <1>2, <1>6
  <2> QED
    BY <1>3, <1>6, <2>1
<1>8. ASSUME NEW j \in Following(c) PROVE k <= j
  <2>1. j \in 1..len /\ first + (j - 1) > c
    BY <1>3
  <2> QED
    BY <1>1, <1>2, <1>6, <2>1
<1> DEFINE n == CHOOSE i \in Following(c) : \A j \in Following(c) : i <= j
<1>9. n \in Following(c) /\ \A j \in Following(c) : n <= j
  BY <1>7, <1>8
<1> HIDE DEF n
<1>10. n = k
  <2>1. n \in 1..len /\ n <= k /\ k <= n
    BY <1>3, <1>7, <1>8, <1>9
  <2> QED
    BY <1>1, <2>1
<1>11. NextEntry(c) = IF first > c THEN first ELSE c + 1
  BY <1>1, <1>6, <1>10 DEF NextEntry, n
<1>12. ASSUME c \in 1..MaxErrors, ~Behind(c) PROVE first <= c + 1
  <2>1. (c + 1) % SequenceModulus = c + 1
    BY <1>2, <1>12, RemainderOfSmall
  <2>2. 1 \in 1..len
    BY <1>1, <1>5
  <2>3. ring # <<>> /\ ring[1] = first
    BY <1>1, <2>2
  <2> QED
    BY <1>1, <1>2, <1>12, <2>1, <2>3 DEF Behind
<1>13. first <= MaxErrors /\ first + (k - 1) <= MaxErrors
  BY <1>1, <1>2, <1>6
<1> QED
  BY <1>1, <1>2, <1>6, <1>11, <1>12, <1>13

\* Ending a stream keeps it in place, and it waits no more.
LEMMA FinishKeeps ==
    ASSUME NEW x \in WatcherRecord, NEW g, InPlace(x, g), x.at # "none"
    PROVE  /\ ErrorFinish(x) \in WatcherRecord /\ InPlace(ErrorFinish(x), g)
           /\ ErrorFinish(x).terminal /\ ErrorFinish(x).at = x.at
           /\ ErrorFinish(x).writing = x.writing /\ ErrorFinish(x).cursor = x.cursor
  BY DEF ErrorFinish, ErrorFinished, WatcherRecord, InPlace

\* A wake keeps a stream in place, and leaves one that can wait with nothing due.
LEMMA WokenKeeps ==
    ASSUME RingInvariant, NEW x \in WatcherRecord, NEW g \in Seq(Nat), InPlace(x, g),
           x.at # "none"
    PROVE  /\ ErrorWoken(x) \in WatcherRecord /\ InPlace(ErrorWoken(x), g)
           /\ ErrorWoken(x).at = x.at
           /\ Listening(x) => Listening(ErrorWoken(x))
           /\ ErrorWoken(x).gate = "Open" /\ ErrorWoken(x).writing = 0
                => Quiet(ErrorWoken(x))
<1>1. CASE x.writing # 0 \/ x.terminal \/ x.gate # "Open"
  BY <1>1 DEF ErrorWoken, InPlace
<1>2. CASE x.writing = 0 /\ ~x.terminal /\ x.gate = "Open" /\ Behind(x.cursor)
  <2>1. ErrorWoken(x) = ErrorFinish(x)
    BY <1>2 DEF ErrorWoken
  <2>2. ErrorFinish(x).gate = "Finishing"
    BY <1>2 DEF ErrorFinish, ErrorFinished, WatcherRecord
  <2> QED
    BY <2>1, <2>2, FinishKeeps DEF Listening
<1>3. CASE /\ x.writing = 0 /\ ~x.terminal /\ x.gate = "Open" /\ ~Behind(x.cursor)
           /\ Following(x.cursor) = {}
  BY <1>3 DEF ErrorWoken, Quiet
<1>4. CASE /\ x.writing = 0 /\ ~x.terminal /\ x.gate = "Open" /\ ~Behind(x.cursor)
           /\ Following(x.cursor) # {}
  <2> DEFINE e == NextEntry(x.cursor)
             y == [x EXCEPT !.writing = e]
  <2>1. ErrorWoken(x) = y
    BY <1>4 DEF ErrorWoken
  <2>2. x.cursor \in 0..(SequenceModulus - 1)
    BY DEF WatcherRecord
  <2>3. e \in 1..MaxErrors /\ (x.cursor \in 1..MaxErrors => e = x.cursor + 1)
    BY <1>4, <2>2, NextFollows
  <2> HIDE DEF e
  <2>4. e \in 0..MaxErrors /\ e # 0
    BY <2>3, ErrorAssumption
  <2>5. y \in WatcherRecord
    BY <2>4 DEF WatcherRecord
  <2>6. /\ y.at = x.at /\ y.writing = e /\ y.cursor = x.cursor
        /\ y.terminal = x.terminal /\ y.gate = x.gate /\ y.subscribed = x.subscribed
    BY DEF WatcherRecord
  <2>7. InPlace(y, g)
    BY <1>4, <2>3, <2>4, <2>6 DEF InPlace
  <2> QED
    BY <2>1, <2>4, <2>5, <2>6, <2>7 DEF Listening
<1> QED
  BY <1>1, <1>2, <1>3, <1>4

-----------------------------------------------------------------------------
LEMMA NoWatcherIsRecord == NoWatcher \in WatcherRecord /\ 0 \in 0..MaxErrors
  BY ErrorAssumption DEF NoWatcher, WatcherRecord

LEMMA ErrorsInitially == ErrorInit => ErrorInvariant
<1> SUFFICES ASSUME ErrorInit PROVE ErrorInvariant
  OBVIOUS
<1>1. RingInvariant
  BY ErrorAssumption DEF ErrorInit, RingInvariant
<1>2. NoWatcher \in WatcherRecord
  BY NoWatcherIsRecord
<1>3. StreamTypeOK
  BY <1>2 DEF ErrorInit, StreamTypeOK
<1>4. StreamInvariant
  BY <1>3 DEF ErrorInit, StreamInvariant, InPlace, Listening, NoWatcher
<1>5. ErrorsInSequence
  BY DEF ErrorInit, ErrorsInSequence
<1>6. ErrorWakeIsComing
  BY DEF ErrorInit, ErrorWakeIsComing, NoWatcher
<1> QED
  BY <1>1, <1>4, <1>5, <1>6 DEF ErrorInvariant

\* The ring stays without a gap when a message is published.
LEMMA PublishPreserves ==
    ASSUME ErrorInvariant, PublishError PROVE ErrorInvariant'
<1>1. RingInvariant'
  <2> DEFINE l == Len(ring)
  <2>1. /\ ring \in Seq(Nat) /\ l \in Nat /\ l < nextError /\ nextError \in Nat
        /\ \A i \in 1..l : ring[i] = (nextError - l) + (i - 1)
    BY ErrorAssumption DEF ErrorInvariant, RingInvariant
  <2>2. nextError' = nextError + 1 /\ nextError' \in 1..(MaxErrors + 1)
    BY <2>1, ErrorAssumption DEF PublishError
  <2>3. CASE l < RingCapacity
    <3>1. ring' = Append(ring, nextError)
      BY <2>3 DEF PublishError, Published
    <3>2. ring' \in Seq(Nat) /\ Len(ring') = l + 1
      BY <2>1, <3>1
    <3>3. ASSUME NEW i \in 1..(l + 1) PROVE ring'[i] = (nextError - l) + (i - 1)
      BY <2>1, <3>1
    <3> QED
      BY <2>1, <2>2, <3>2, <3>3 DEF RingInvariant
  <2>4. CASE ~(l < RingCapacity)
    <3>1. l > 0 /\ ring # <<>>
      BY <2>1, <2>4, ErrorAssumption
    <3>2. ring' = Append(Tail(ring), nextError)
      BY <2>4 DEF PublishError, Published
    <3>3. /\ Tail(ring) \in Seq(Nat) /\ Len(Tail(ring)) = l - 1
          /\ \A i \in 1..(l - 1) : Tail(ring)[i] = ring[i + 1]
      BY <2>1, <3>1
    <3>4. ring' \in Seq(Nat) /\ Len(ring') = l
      BY <2>1, <3>1, <3>2, <3>3
    <3>5. ASSUME NEW i \in 1..l PROVE ring'[i] = (nextError - l) + i
      <4>1. CASE i = l
        BY <2>1, <3>1, <3>2, <3>3, <4>1
      <4>2. CASE i \in 1..(l - 1)
        <5>1. ring'[i] = ring[i + 1] /\ i + 1 \in 1..l
          BY <2>1, <3>1, <3>2, <3>3, <4>2
        <5> QED
          BY <2>1, <4>2, <5>1
      <4> QED
        BY <2>1, <4>1, <4>2
    <3> QED
      BY <2>1, <2>2, <3>4, <3>5 DEF RingInvariant
  <2> QED
    BY <2>3, <2>4
<1>2. /\ waking' = [waking EXCEPT !.at = "publish"]
      /\ UNCHANGED <<errorHub, shutdowns, watcher, got>>
  BY DEF PublishError
<1>3. waking' \in [at : {"idle", "publish", "wake"}, left : SUBSET Watchers]
      /\ waking'.left = waking.left /\ waking'.at = "publish"
  BY <1>2 DEF ErrorInvariant, StreamInvariant, StreamTypeOK
<1>4. StreamInvariant'
  BY <1>2, <1>3 DEF ErrorInvariant, StreamInvariant, StreamTypeOK
<1>5. ErrorsInSequence'
  BY <1>2 DEF ErrorInvariant, ErrorsInSequence
<1>6. ErrorWakeIsComing'
  BY <1>3 DEF ErrorWakeIsComing
<1> QED
  BY <1>1, <1>4, <1>5, <1>6 DEF ErrorInvariant

\* A step of one stream preserves the invariant if it leaves the stream in place,
\* and with a wake on its way if it can wait and something is due.
LEMMA OneStream ==
    ASSUME ErrorInvariant, NEW w \in Watchers, NEW y \in WatcherRecord, NEW g \in Seq(Nat),
           watcher' = [watcher EXCEPT ![w] = y],
           got' = [got EXCEPT ![w] = g],
           UNCHANGED <<ring, nextError, errorHub>>,
           waking' \in [at : {"idle", "publish", "wake"}, left : SUBSET Watchers],
           shutdowns' \in [at : {"open", "call"}, left : SUBSET Watchers],
           waking'.at = waking.at, waking'.left \subseteq waking.left,
           waking.left \subseteq waking'.left \cup {w},
           shutdowns'.left \subseteq shutdowns.left,
           y.at # "none", InPlace(y, g), errorHub => Listening(y),
           \A i \in 1..(Len(g) - 1) : g[i + 1] = g[i] + 1,
           y.at = "built" /\ y.gate = "Open" /\ y.writing = 0 /\ errorHub =>
             \/ Quiet(y) \/ waking.at = "publish"
             \/ waking.at = "wake" /\ w \in waking'.left
    PROVE  ErrorInvariant'
<1>1. watcher \in [Watchers -> WatcherRecord] /\ got \in [Watchers -> Seq(Nat)]
  BY DEF ErrorInvariant, StreamInvariant, StreamTypeOK
<1>2. \A v \in Watchers : /\ watcher'[v] = IF v = w THEN y ELSE watcher[v]
                          /\ got'[v] = IF v = w THEN g ELSE got[v]
  BY <1>1
<1>3. RingInvariant'
  BY DEF ErrorInvariant, RingInvariant
<1>4. StreamTypeOK'
  BY <1>1 DEF ErrorInvariant, StreamInvariant, StreamTypeOK
<1>5. \A v \in Watchers : InPlace(watcher'[v], got'[v])
  BY <1>2 DEF ErrorInvariant, StreamInvariant
<1>6. errorHub => \A v \in Watchers : Listening(watcher'[v])
  BY <1>2 DEF ErrorInvariant, StreamInvariant
<1>7. \A v \in waking'.left \cup shutdowns'.left : watcher'[v].at # "none"
  BY <1>2 DEF ErrorInvariant, StreamInvariant, StreamTypeOK
<1>8. StreamInvariant'
  BY <1>4, <1>5, <1>6, <1>7 DEF StreamInvariant
<1>9. ErrorsInSequence'
  BY <1>2 DEF ErrorInvariant, ErrorsInSequence
<1>10. ErrorWakeIsComing'
  <2> SUFFICES ASSUME NEW v \in Watchers, errorHub,
                      watcher'[v].at = "built" /\ watcher'[v].gate = "Open"
                        /\ watcher'[v].writing = 0
               PROVE  \/ Quiet(watcher'[v]) \/ waking.at = "publish"
                      \/ waking.at = "wake" /\ v \in waking'.left
    BY DEF ErrorWakeIsComing, Quiet, Following, Behind
  <2>1. CASE v = w
    BY <1>2, <2>1
  <2>2. CASE v # w
    BY <1>2, <2>2 DEF ErrorInvariant, ErrorWakeIsComing, Quiet
  <2> QED
    BY <2>1, <2>2
<1> QED
  BY <1>3, <1>8, <1>9, <1>10 DEF ErrorInvariant

\* What the invariant says of one stream.
LEMMA OneStreamFacts ==
    ASSUME ErrorInvariant, NEW w \in Watchers
    PROVE  /\ watcher \in [Watchers -> WatcherRecord] /\ watcher[w] \in WatcherRecord
           /\ got \in [Watchers -> Seq(Nat)] /\ got[w] \in Seq(Nat)
           /\ InPlace(watcher[w], got[w])
           /\ errorHub => Listening(watcher[w])
           /\ waking \in [at : {"idle", "publish", "wake"}, left : SUBSET Watchers]
           /\ shutdowns \in [at : {"open", "call"}, left : SUBSET Watchers]
           /\ \A i \in 1..(Len(got[w]) - 1) : got[w][i + 1] = got[w][i] + 1
           /\ w \in waking.left \cup shutdowns.left => watcher[w].at # "none"
           /\ RingInvariant
  BY DEF ErrorInvariant, StreamInvariant, StreamTypeOK, ErrorsInSequence

\* The constructor.
LEMMA OpeningPreserves ==
    ASSUME ErrorInvariant, NEW w \in Watchers,
           \/ \E a \in AfterSequences : OpenWatcher(w, a)
           \/ OpenWatcherRefused(w) \/ SubscribeWatcher(w) \/ FirstErrorWake(w)
    PROVE  ErrorInvariant'
<1> DEFINE x == watcher[w]
           g == got[w]
<1>1. /\ watcher \in [Watchers -> WatcherRecord] /\ x \in WatcherRecord
      /\ got \in [Watchers -> Seq(Nat)] /\ g \in Seq(Nat)
      /\ InPlace(x, g) /\ RingInvariant
      /\ \A i \in 1..(Len(g) - 1) : g[i + 1] = g[i] + 1
      /\ errorHub => Listening(x)
      /\ waking \in [at : {"idle", "publish", "wake"}, left : SUBSET Watchers]
      /\ shutdowns \in [at : {"open", "call"}, left : SUBSET Watchers]
  BY OneStreamFacts
<1>2. UNCHANGED <<ring, nextError, waking, errorHub, shutdowns>> /\ got' = [got EXCEPT ![w] = g]
  BY <1>1 DEF OpenWatcher, OpenWatcherRefused, SubscribeWatcher, FirstErrorWake
<1>3. ASSUME NEW y \in WatcherRecord, watcher' = [watcher EXCEPT ![w] = y],
             y.at # "none", InPlace(y, g), errorHub => Listening(y),
             y.at = "built" /\ y.gate = "Open" /\ y.writing = 0 => Quiet(y)
      PROVE  ErrorInvariant'
  BY <1>1, <1>2, <1>3, OneStream
<1>4. CASE \E a \in AfterSequences : OpenWatcher(w, a)
  <2>1. PICK a \in AfterSequences : OpenWatcher(w, a)
    BY <1>4
  <2> DEFINE y == [NoWatcher EXCEPT !.at = "subscribe", !.cursor = a]
  <2>2. watcher' = [watcher EXCEPT ![w] = y] /\ x.at = "none"
    BY <2>1 DEF OpenWatcher
  <2>3. y \in WatcherRecord
    <3>1. a \in 0..(SequenceModulus - 1)
      BY ErrorAssumption
    <3> QED
      BY <3>1, NoWatcherIsRecord DEF WatcherRecord
  <2>4. y.at = "subscribe" /\ y.writing = 0 /\ ~y.terminal /\ g = <<>>
    BY <1>1, <2>2 DEF NoWatcher, InPlace
  <2> HIDE DEF y
  <2> QED
    BY <1>3, <2>2, <2>3, <2>4 DEF InPlace, Listening
<1>5. CASE OpenWatcherRefused(w)
  <2> DEFINE z == [NoWatcher EXCEPT !.at = "built"]
  <2>1. watcher' = [watcher EXCEPT ![w] = ErrorFinish(z)] /\ x.at = "none"
    BY <1>5 DEF OpenWatcherRefused
  <2>2. z \in WatcherRecord /\ z.at = "built" /\ z.writing = 0 /\ ~z.terminal /\ g = <<>>
    <3>1. z \in WatcherRecord
      BY NoWatcherIsRecord DEF WatcherRecord
    <3> QED
      BY <1>1, <2>1, <3>1 DEF NoWatcher, InPlace
  <2>3. InPlace(z, g)
    BY <2>2 DEF InPlace
  <2> HIDE DEF z
  <2>4. /\ ErrorFinish(z) \in WatcherRecord /\ InPlace(ErrorFinish(z), g)
        /\ ErrorFinish(z).terminal /\ ErrorFinish(z).at = "built" /\ ErrorFinish(z).writing = 0
    BY <2>2, <2>3, FinishKeeps
  <2>5. ErrorFinish(z).gate # "Open"
    BY <2>4 DEF InPlace
  <2> QED
    BY <1>3, <2>1, <2>4, <2>5 DEF Listening
<1>6. CASE SubscribeWatcher(w)
  <2> DEFINE y == [x EXCEPT !.at = "wake", !.subscribed = errorHub]
  <2>1. watcher' = [watcher EXCEPT ![w] = y] /\ x.at = "subscribe"
    BY <1>1, <1>6 DEF SubscribeWatcher, WatcherRecord
  <2>2. errorHub \in BOOLEAN
    BY DEF ErrorInvariant, StreamInvariant, StreamTypeOK
  <2>3. y \in WatcherRecord
    BY <1>1, <2>2 DEF WatcherRecord
  <2>4. /\ y.at = "wake" /\ y.writing = x.writing /\ y.terminal = x.terminal
        /\ y.gate = x.gate /\ y.cursor = x.cursor
    BY <1>1 DEF WatcherRecord
  <2>5. errorHub => y.subscribed
    BY <1>1 DEF WatcherRecord
  <2> HIDE DEF y
  <2>6. InPlace(y, g)
    BY <1>1, <2>1, <2>4 DEF InPlace
  <2> QED
    BY <1>3, <2>1, <2>3, <2>4, <2>5, <2>6 DEF Listening
<1>7. CASE FirstErrorWake(w)
  <2> DEFINE z == IF x.gate = "Open" THEN ErrorWoken(x) ELSE x
             y == [z EXCEPT !.at = "built"]
  <2>1. watcher' = [watcher EXCEPT ![w] = y] /\ x.at = "wake"
    BY <1>7 DEF FirstErrorWake
  <2>2. /\ z \in WatcherRecord /\ InPlace(z, g) /\ z.at = "wake"
        /\ errorHub => Listening(z)
        /\ z.gate = "Open" /\ z.writing = 0 => Quiet(z)
    BY <1>1, <2>1, WokenKeeps
  <2> HIDE DEF z
  <2>3. y \in WatcherRecord
    BY <2>2 DEF WatcherRecord
  <2>4. /\ y.at = "built" /\ y.writing = z.writing /\ y.terminal = z.terminal
        /\ y.gate = z.gate /\ y.cursor = z.cursor /\ y.subscribed = z.subscribed
    BY <2>2 DEF WatcherRecord
  <2> HIDE DEF y
  <2>5. InPlace(y, g) /\ (errorHub => Listening(y))
    BY <2>2, <2>4 DEF InPlace, Listening
  <2>6. y.gate = "Open" /\ y.writing = 0 => Quiet(y)
    BY <2>2, <2>4 DEF Quiet
  <2> QED
    BY <1>3, <2>1, <2>3, <2>4, <2>5, <2>6
<1> QED
  BY <1>4, <1>5, <1>6, <1>7

LEMMA AppendFacts ==
    ASSUME NEW s \in Seq(Nat), NEW n \in Nat
    PROVE  /\ Append(s, n) \in Seq(Nat) /\ Len(Append(s, n)) = Len(s) + 1
           /\ Append(s, n)[Len(Append(s, n))] = n /\ Append(s, n) # <<>>
           /\ \A i \in 1..Len(s) : Append(s, n)[i] = s[i]
<1>1. /\ Append(s, n) \in Seq(Nat) /\ Len(Append(s, n)) = Len(s) + 1
      /\ Append(s, n)[Len(s) + 1] = n
  OBVIOUS
<1>2. Append(s, n) # <<>>
  BY <1>1
<1>3. \A i \in 1..Len(s) : Append(s, n)[i] = s[i]
  OBVIOUS
<1> QED
  BY <1>1, <1>2, <1>3

\* The completion of a write.
LEMMA WritePreserves ==
    ASSUME ErrorInvariant, NEW w \in Watchers, ErrorWriteDone(w) \/ ErrorWriteFailed(w)
    PROVE  ErrorInvariant'
<1> DEFINE x == watcher[w]
           g == got[w]
           e == x.writing
           x0 == [x EXCEPT !.writing = 0]
<1>1. /\ watcher \in [Watchers -> WatcherRecord] /\ x \in WatcherRecord
      /\ got \in [Watchers -> Seq(Nat)] /\ g \in Seq(Nat)
      /\ InPlace(x, g) /\ RingInvariant
      /\ \A i \in 1..(Len(g) - 1) : g[i + 1] = g[i] + 1
      /\ errorHub => Listening(x)
      /\ waking \in [at : {"idle", "publish", "wake"}, left : SUBSET Watchers]
      /\ shutdowns \in [at : {"open", "call"}, left : SUBSET Watchers]
  BY OneStreamFacts
<1>2. UNCHANGED <<ring, nextError, waking, errorHub, shutdowns>>
  BY DEF ErrorWriteDone, ErrorWriteFailed
<1>3. x.at = "built" /\ x.gate = "Open" /\ e \in 1..MaxErrors
  BY <1>1, ErrorAssumption DEF ErrorWriteDone, ErrorWriteFailed, WatcherRecord
<1>4. x0 \in WatcherRecord
  BY <1>1, NoWatcherIsRecord DEF WatcherRecord
<1>5. /\ x0.at = "built" /\ x0.writing = 0 /\ x0.gate = "Open" /\ x0.cursor = x.cursor
      /\ x0.terminal = x.terminal /\ x0.subscribed = x.subscribed
  BY <1>1, <1>3 DEF WatcherRecord
<1>6. CASE ErrorWriteDone(w)
  <2> DEFINE h == Append(g, e)
  <2>1. got' = [got EXCEPT ![w] = h]
    BY <1>6 DEF ErrorWriteDone
  <2>2. /\ h \in Seq(Nat) /\ Len(h) = Len(g) + 1 /\ h[Len(h)] = e /\ h # <<>>
        /\ \A i \in 1..Len(g) : h[i] = g[i]
    <3>1. e \in Nat
      BY <1>3
    <3> HIDE DEF e, g
    <3> QED
      BY <1>1, <3>1, AppendFacts
  <2>3. g # <<>> => e = g[Len(g)] + 1
    BY <1>1, <1>3 DEF InPlace
  <2>4. \A i \in 1..(Len(h) - 1) : h[i + 1] = h[i] + 1
    <3> SUFFICES ASSUME NEW i \in 1..(Len(h) - 1) PROVE h[i + 1] = h[i] + 1
      OBVIOUS
    <3> HIDE DEF h
    <3>1. CASE i = Len(g)
      BY <1>1, <2>2, <2>3, <3>1
    <3>2. CASE i # Len(g)
      <4>1. i \in 1..(Len(g) - 1) /\ i \in 1..Len(g) /\ i + 1 \in 1..Len(g)
        BY <1>1, <2>2, <3>2
      <4> QED
        BY <1>1, <2>2, <4>1
    <3> QED
      BY <3>1, <3>2
  <2> HIDE DEF h
  <2>5. ASSUME NEW y \in WatcherRecord, watcher' = [watcher EXCEPT ![w] = y],
               y.at # "none", InPlace(y, h), errorHub => Listening(y),
               y.gate = "Open" /\ y.writing = 0 => Quiet(y)
        PROVE  ErrorInvariant'
    BY <1>1, <1>2, <2>1, <2>2, <2>4, <2>5, OneStream
  <2>6. CASE x.terminal
    <3>1. watcher' = [watcher EXCEPT ![w] = ErrorFinished(x0)]
      BY <1>5, <1>6, <2>6 DEF ErrorWriteDone
    <3>2. ErrorFinished(x0) = [x0 EXCEPT !.gate = "Finishing", !.subscribed = FALSE]
      BY <1>5, <2>6 DEF ErrorFinished
    <3> HIDE DEF x0
    <3>3. ErrorFinished(x0) \in WatcherRecord
      BY <1>4, <3>2 DEF WatcherRecord
    <3>4. /\ ErrorFinished(x0).at = "built" /\ ErrorFinished(x0).gate = "Finishing"
          /\ ErrorFinished(x0).terminal /\ ErrorFinished(x0).writing = 0
      BY <1>4, <1>5, <2>6, <3>2 DEF WatcherRecord
    <3>5. InPlace(ErrorFinished(x0), h)
      BY <1>3, <2>2, <3>4 DEF InPlace
    <3> QED
      BY <2>5, <3>1, <3>3, <3>4, <3>5 DEF Listening
  <2>7. CASE ~x.terminal
    <3> DEFINE y == [x0 EXCEPT !.cursor = e]
    <3>1. watcher' = [watcher EXCEPT ![w] = ErrorWoken(y)]
      BY <1>5, <1>6, <2>7 DEF ErrorWriteDone
    <3>2. e \in 0..(SequenceModulus - 1)
      BY <1>3, ErrorAssumption
    <3> HIDE DEF x0, e
    <3>3. y \in WatcherRecord
      BY <1>4, <3>2 DEF WatcherRecord
    <3>4. /\ y.at = "built" /\ y.writing = 0 /\ y.gate = "Open" /\ y.cursor = e
          /\ y.terminal = x.terminal /\ y.subscribed = x.subscribed
      BY <1>4, <1>5 DEF WatcherRecord
    <3> HIDE DEF y
    <3>5. InPlace(y, h)
      BY <1>3, <2>2, <2>7, <3>4 DEF InPlace
    <3>6. errorHub => Listening(y)
      BY <1>1, <1>3, <3>4 DEF Listening
    <3>7. /\ ErrorWoken(y) \in WatcherRecord /\ InPlace(ErrorWoken(y), h)
          /\ ErrorWoken(y).at = y.at
          /\ Listening(y) => Listening(ErrorWoken(y))
          /\ ErrorWoken(y).gate = "Open" /\ ErrorWoken(y).writing = 0 => Quiet(ErrorWoken(y))
      BY <1>1, <2>2, <3>3, <3>4, <3>5, WokenKeeps
    <3> QED
      BY <2>5, <3>1, <3>4, <3>6, <3>7
  <2> QED
    BY <2>6, <2>7
<1>7. CASE ErrorWriteFailed(w)
  <2> DEFINE z == [x EXCEPT !.writing = 0, !.terminal = TRUE]
             y == [z EXCEPT !.gate = "Finishing", !.subscribed = FALSE]
  <2>1. z \in WatcherRecord /\ z.at = "built" /\ z.writing = 0 /\ z.terminal
    BY <1>1, <1>3, NoWatcherIsRecord DEF WatcherRecord
  <2>2. watcher' = [watcher EXCEPT ![w] = ErrorFinished(z)] /\ got' = [got EXCEPT ![w] = g]
    BY <1>1, <1>7 DEF ErrorWriteFailed
  <2> HIDE DEF z
  <2>3. ErrorFinished(z) = y
    BY <2>1 DEF ErrorFinished
  <2>4. y \in WatcherRecord
    BY <2>1 DEF WatcherRecord
  <2>5. y.at = "built" /\ y.gate = "Finishing" /\ y.terminal /\ y.writing = 0
    BY <2>1 DEF WatcherRecord
  <2> HIDE DEF y
  <2>6. InPlace(y, g)
    BY <1>1, <2>5 DEF InPlace
  <2>7. Listening(y)
    BY <2>5 DEF Listening
  <2> QED
    BY <1>1, <1>2, <2>2, <2>3, <2>4, <2>5, <2>6, <2>7, OneStream
<1> QED
  BY <1>6, <1>7

\* What the poller, gRPC and shutdown do to a stream that is built.
LEMMA CallbacksPreserve ==
    ASSUME ErrorInvariant, NEW w \in Watchers,
           WakeWatcher(w) \/ CancelWatcher(w) \/ WatcherDone(w) \/ ShutdownWatcher(w)
    PROVE  ErrorInvariant'
<1> DEFINE x == watcher[w]
           g == got[w]
<1>1. /\ watcher \in [Watchers -> WatcherRecord] /\ x \in WatcherRecord
      /\ got \in [Watchers -> Seq(Nat)] /\ g \in Seq(Nat)
      /\ InPlace(x, g) /\ RingInvariant
      /\ \A i \in 1..(Len(g) - 1) : g[i + 1] = g[i] + 1
      /\ errorHub => Listening(x)
      /\ waking \in [at : {"idle", "publish", "wake"}, left : SUBSET Watchers]
      /\ shutdowns \in [at : {"open", "call"}, left : SUBSET Watchers]
      /\ w \in waking.left \cup shutdowns.left => x.at # "none"
  BY OneStreamFacts
<1>2. UNCHANGED <<ring, nextError, errorHub>> /\ got' = [got EXCEPT ![w] = g]
  BY <1>1 DEF WakeWatcher, CancelWatcher, WatcherDone, ShutdownWatcher
<1>3. /\ waking' \in [at : {"idle", "publish", "wake"}, left : SUBSET Watchers]
      /\ waking'.at = waking.at /\ waking'.left \subseteq waking.left
      /\ waking.left \subseteq waking'.left \cup {w}
  BY <1>1 DEF WakeWatcher, CancelWatcher, WatcherDone, ShutdownWatcher
<1>4. /\ shutdowns' \in [at : {"open", "call"}, left : SUBSET Watchers]
      /\ shutdowns'.left \subseteq shutdowns.left
  BY <1>1 DEF WakeWatcher, CancelWatcher, WatcherDone, ShutdownWatcher
<1>5. ASSUME NEW y \in WatcherRecord, watcher' = [watcher EXCEPT ![w] = y],
             y.at # "none", InPlace(y, g), errorHub => Listening(y),
             y.at = "built" /\ y.gate = "Open" /\ y.writing = 0 => Quiet(y)
      PROVE  ErrorInvariant'
  BY <1>1, <1>2, <1>3, <1>4, <1>5, OneStream
<1>6. ASSUME x.at # "none", watcher' = [watcher EXCEPT ![w] = ErrorFinish(x)]
      PROVE  ErrorInvariant'
  <2>1. /\ ErrorFinish(x) \in WatcherRecord /\ InPlace(ErrorFinish(x), g)
        /\ ErrorFinish(x).terminal /\ ErrorFinish(x).at = x.at
    BY <1>1, <1>6, FinishKeeps
  <2>2. ErrorFinish(x).writing = 0 => ErrorFinish(x).gate # "Open"
    BY <2>1 DEF InPlace
  <2> QED
    BY <1>5, <1>6, <2>1, <2>2 DEF Listening
<1>7. ASSUME watcher' = [watcher EXCEPT ![w] = x], x.gate # "Open", x.at # "none"
      PROVE  ErrorInvariant'
  BY <1>1, <1>5, <1>7
<1>8. CASE WakeWatcher(w)
  <2>1. w \in waking.left /\ x.at # "none"
    BY <1>1, <1>8 DEF WakeWatcher
  <2>2. CASE x.gate = "Open"
    <3>1. watcher' = [watcher EXCEPT ![w] = ErrorWoken(x)]
      BY <1>8, <2>2 DEF WakeWatcher
    <3>2. /\ ErrorWoken(x) \in WatcherRecord /\ InPlace(ErrorWoken(x), g)
          /\ ErrorWoken(x).at = x.at
          /\ Listening(x) => Listening(ErrorWoken(x))
          /\ ErrorWoken(x).gate = "Open" /\ ErrorWoken(x).writing = 0 => Quiet(ErrorWoken(x))
      BY <1>1, <2>1, WokenKeeps
    <3> QED
      BY <1>1, <1>5, <2>1, <3>1, <3>2
  <2>3. CASE x.gate # "Open"
    <3>1. watcher' = [watcher EXCEPT ![w] = x]
      BY <1>8, <2>3 DEF WakeWatcher
    <3> QED
      BY <1>7, <2>1, <2>3, <3>1
  <2> QED
    BY <2>2, <2>3
<1>9. CASE CancelWatcher(w)
  BY <1>6, <1>9 DEF CancelWatcher
<1>10. CASE WatcherDone(w)
  <2> DEFINE y == [x EXCEPT !.gate = "Done"]
  <2>1. watcher' = [watcher EXCEPT ![w] = y] /\ x.at = "built"
    BY <1>10 DEF WatcherDone
  <2>2. y \in WatcherRecord
    BY <1>1 DEF WatcherRecord
  <2>3. /\ y.at = x.at /\ y.writing = x.writing /\ y.terminal = x.terminal
        /\ y.gate = "Done" /\ y.cursor = x.cursor /\ y.subscribed = x.subscribed
    BY <1>1 DEF WatcherRecord
  <2> HIDE DEF y
  <2>4. InPlace(y, g) /\ Listening(y)
    BY <1>1, <2>3 DEF InPlace, Listening
  <2> QED
    BY <1>5, <2>1, <2>2, <2>3, <2>4
<1>11. CASE ShutdownWatcher(w)
  <2>1. w \in shutdowns.left /\ x.at # "none"
    BY <1>1, <1>11 DEF ShutdownWatcher
  <2>2. CASE x.gate = "Open"
    BY <1>6, <1>11, <2>1, <2>2 DEF ShutdownWatcher
  <2>3. CASE x.gate # "Open"
    <3>1. watcher' = [watcher EXCEPT ![w] = x]
      BY <1>11, <2>3 DEF ShutdownWatcher
    <3> QED
      BY <1>7, <2>1, <2>3, <3>1
  <2> QED
    BY <2>2, <2>3
<1> QED
  BY <1>8, <1>9, <1>10, <1>11

\* What the poller and shutdown do around the streams.
LEMMA HubPreserves ==
    ASSUME ErrorInvariant, CopyErrorWakes \/ WakesDone \/ CloseErrorHub \/ ShutdownWatchers
    PROVE  ErrorInvariant'
<1>1. UNCHANGED <<ring, nextError, watcher, got>>
  BY DEF CopyErrorWakes, WakesDone, CloseErrorHub, ShutdownWatchers
<1>2. RingInvariant' /\ ErrorsInSequence'
  BY <1>1 DEF ErrorInvariant, RingInvariant, ErrorsInSequence
<1>3. StreamTypeOK /\ StreamInvariant
  BY DEF ErrorInvariant, StreamInvariant
<1>4. StreamTypeOK'
  <2>1. errorHub' \in BOOLEAN
    BY <1>3 DEF StreamTypeOK, CopyErrorWakes, WakesDone, CloseErrorHub, ShutdownWatchers
  <2>2. waking' \in [at : {"idle", "publish", "wake"}, left : SUBSET Watchers]
    BY <1>3 DEF StreamTypeOK, CopyErrorWakes, WakesDone, CloseErrorHub, ShutdownWatchers
  <2>3. shutdowns' \in [at : {"open", "call"}, left : SUBSET Watchers]
    BY <1>3 DEF StreamTypeOK, CopyErrorWakes, WakesDone, CloseErrorHub, ShutdownWatchers
  <2> QED
    BY <1>1, <1>3, <2>1, <2>2, <2>3 DEF StreamTypeOK
<1>5. \A w \in waking'.left \cup shutdowns'.left : watcher[w].at # "none"
  BY <1>3 DEF StreamTypeOK, StreamInvariant, InPlace, CopyErrorWakes, WakesDone, CloseErrorHub,
         ShutdownWatchers
<1>6. errorHub' => errorHub
  BY DEF CopyErrorWakes, WakesDone, CloseErrorHub, ShutdownWatchers
<1>7. StreamInvariant'
  BY <1>1, <1>3, <1>4, <1>5, <1>6 DEF StreamInvariant
<1>8. ErrorWakeIsComing'
  <2> SUFFICES ASSUME NEW w \in Watchers, errorHub',
                      watcher[w].at = "built" /\ watcher[w].gate = "Open"
                        /\ watcher[w].writing = 0
               PROVE  \/ Quiet(watcher[w]) \/ waking'.at = "publish"
                      \/ waking'.at = "wake" /\ w \in waking'.left
    BY <1>1 DEF ErrorWakeIsComing, Quiet, Following, Behind
  <2>1. \/ Quiet(watcher[w]) \/ waking.at = "publish"
        \/ waking.at = "wake" /\ w \in waking.left
    BY <1>6 DEF ErrorInvariant, ErrorWakeIsComing, Quiet
  <2>2. watcher[w].subscribed
    <3>1. InPlace(watcher[w], got[w]) /\ Listening(watcher[w])
      BY <1>3, <1>6 DEF StreamInvariant
    <3> QED
      BY <3>1 DEF InPlace, Listening
  <2>3. CASE CopyErrorWakes
    BY <1>6, <2>2, <2>3 DEF CopyErrorWakes
  <2>4. CASE WakesDone
    BY <2>1, <2>4 DEF WakesDone
  <2>5. CASE CloseErrorHub \/ ShutdownWatchers
    BY <2>1, <2>5 DEF CloseErrorHub, ShutdownWatchers
  <2> QED
    BY <2>3, <2>4, <2>5
<1> QED
  BY <1>2, <1>7, <1>8 DEF ErrorInvariant

LEMMA ErrorsPreserved == ErrorInvariant /\ [ErrorNext]_errorVars => ErrorInvariant'
<1> SUFFICES ASSUME ErrorInvariant, [ErrorNext]_errorVars PROVE ErrorInvariant'
  OBVIOUS
<1>1. CASE UNCHANGED errorVars
  BY <1>1 DEF errorVars, ErrorInvariant, RingInvariant, StreamInvariant, StreamTypeOK,
         ErrorsInSequence, ErrorWakeIsComing, Following, Behind
<1>2. CASE PublishError
  BY <1>2, PublishPreserves
<1>3. CASE CopyErrorWakes \/ WakesDone \/ CloseErrorHub \/ ShutdownWatchers
  BY <1>3, HubPreserves
<1>4. ASSUME NEW w \in Watchers, WatcherStep(w) PROVE ErrorInvariant'
  BY <1>4, OpeningPreserves, WritePreserves, CallbacksPreserve DEF WatcherStep
<1> QED
  BY <1>1, <1>2, <1>3, <1>4 DEF ErrorNext

\* For any ring and any streams: what a client of WatchErrors reads has no gap and
\* no repetition (SequencedRing::after, ErrorReactor::wake).
THEOREM ErrorsNeverSkip == ErrorSpec => []ErrorsInSequence
<1>1. ErrorInvariant => ErrorsInSequence
  BY DEF ErrorInvariant
<1> QED
  BY <1>1, ErrorsInitially, ErrorsPreserved, PTL DEF ErrorSpec

\* For any ring and any streams: a stream that waits has sent every message, or the
\* poller is about to wake it (ErrorReactor's constructor, SnapshotHub::publish).
THEOREM ErrorWakesNeverLost == ErrorSpec => []ErrorWakeIsComing
<1>1. ErrorInvariant => ErrorWakeIsComing
  BY DEF ErrorInvariant
<1> QED
  BY <1>1, ErrorsInitially, ErrorsPreserved, PTL DEF ErrorSpec
=============================================================================
