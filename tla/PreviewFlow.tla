----------------------------- MODULE PreviewFlow -----------------------------
(***************************************************************************)
(* Program previews: WebSocket sessions of the telemetry server            *)
(* (telemetry_websocket_server.cc) fed by the parser worker                *)
(* (gcode/parser.cc, gcode/canon_preview.cc).  The worker interprets a     *)
(* leased workspace and posts batches to the I/O thread; a PreviewFlow per *)
(* session, shared by the two threads, carries the stop request and the    *)
(* count of batches under way.                                             *)
(*                                                                         *)
(* The I/O thread runs one handler at a time, so a handler is an action,   *)
(* and the worker's steps are cut where it can meet the I/O thread.        *)
(* Operations are numbered in program order.  Their sizes decide where     *)
(* batches are cut, so any cut up to BatchSize may occur.                  *)
(***************************************************************************)
EXTENDS Naturals, Sequences, SequencesExt, FiniteSets

CONSTANTS Previews,      \* the preview connections that clients make
          MaxSessions,   \* kMaxSessions
          ParserQueue,   \* tasks that may wait for the parser worker
          BatchSize,     \* gcode_batch_size
          MaxOps,        \* bound: operations of a program
          MaxPosted      \* bound: posted handlers among which progress is reported

VARIABLES session,   \* Session, by connection
          flow,      \* its PreviewFlow
          posted,    \* handlers the worker has posted to the session's executor
          acceptor,  \* the listening socket is open
          parserTasks, \* the parser worker's queue
          parser,    \* the parser worker
          lease,     \* the workspace is pinned for this preview
          got        \* what the client has received

previewVars == <<session, flow, posted, acceptor, parserTasks, parser, lease, got>>

Nothing == [kind |-> "nothing", ops |-> <<>>]
Batch(ops) == [kind |-> "batch", ops |-> ops]
Progress == [kind |-> "progress", ops |-> <<>>]
Error == [kind |-> "error", ops |-> <<>>]
\* The summary carries the operation count.
Summary(count) == [kind |-> "summary", ops |-> <<count>>]
Terminal(m) == m.kind \in {"error", "summary"}

NoSession == [at |-> "none", writing |-> Nothing, queue |-> <<>>, spoke |-> FALSE, admitted |-> FALSE]
ParserIdle == [at |-> "idle", serving |-> "nobody", ops |-> <<>>, count |-> 0,
               batch |-> <<>>, after |-> "step"]

PreviewInit ==
    /\ session = [p \in Previews |-> NoSession]
    /\ flow = [p \in Previews |-> [stop |-> FALSE, outstanding |-> 0, locked |-> FALSE]]
    /\ posted = [p \in Previews |-> <<>>]
    /\ acceptor = TRUE
    /\ parserTasks = <<>>
    /\ parser = ParserIdle
    /\ lease = [p \in Previews |-> FALSE]
    /\ got = [p \in Previews |-> [ops |-> <<>>, end |-> Nothing]]

Connected == {p \in Previews : session[p].at \in {"upgrade", "open", "closing"}}

-----------------------------------------------------------------------------
(* The I/O thread *)

\* notify_all on the condition of the preview p.
Notified(p) ==
    IF parser.serving = p /\ parser.at = "asleep" THEN [parser EXCEPT !.at = "test"] ELSE parser

\* pump_preview.
Pumped(s) ==
    IF s.writing = Nothing /\ s.queue # <<>> /\ s.at # "closed"
    THEN [s EXCEPT !.writing = Head(s.queue), !.queue = Tail(s.queue)] ELSE s

\* The kernel completes an accept; its handler is queued.
PeerConnects(p) ==
    /\ acceptor /\ session[p].at = "none"
    /\ \A q \in Previews : session[q].at # "arrived"
    /\ session' = [session EXCEPT ![p].at = "arrived"]
    /\ UNCHANGED <<flow, posted, acceptor, parserTasks, parser, lease, got>>

\* accept's handler: a session, unless there are kMaxSessions, those of the
\* other routes included.
AcceptPeer(p) ==
    /\ session[p].at = "arrived"
    /\ \E others \in 0..MaxSessions :
         session' = [session EXCEPT ![p].at =
                       IF Cardinality(Connected) + others >= MaxSessions THEN "closed" ELSE "upgrade"]
    /\ UNCHANGED <<flow, posted, acceptor, parserTasks, parser, lease, got>>

\* on_upgrade_request, on_accept and start_preview.  The admission counter is
\* shared with the gRPC streams, so it may be exhausted at any time.
StartPreview(p) ==
    /\ session[p].at = "upgrade"
    /\ \E admitted \in BOOLEAN :
         IF admitted /\ Len(parserTasks) < ParserQueue
         THEN /\ session' = [session EXCEPT ![p].at = "open", ![p].admitted = TRUE]
              /\ parserTasks' = Append(parserTasks, p)
         ELSE /\ session' = [session EXCEPT ![p].at = "closing", ![p].admitted = admitted]
              /\ UNCHANGED parserTasks
    /\ UNCHANGED <<flow, posted, acceptor, parser, lease, got>>

\* Mutant: a batch is coalesced like progress.
EnqueuedLatest(s, m) ==
    Pumped(IF s.queue # <<>> /\ Last(s.queue).kind = m.kind
           THEN [s EXCEPT !.queue = Append(Front(s.queue), m)]
           ELSE [s EXCEPT !.queue = Append(@, m)])

\* enqueue_preview's handler: progress replaces progress that is still waiting.
Enqueued(s, m) ==
    Pumped(IF m.kind = "progress" /\ s.queue # <<>> /\ Last(s.queue).kind = "progress"
           THEN [s EXCEPT !.queue = Append(Front(s.queue), m)]
           ELSE [s EXCEPT !.queue = Append(@, m)])

RunPosted(p) ==
    /\ posted[p] # <<>>
    /\ posted' = [posted EXCEPT ![p] = Tail(@)]
    /\ session' = IF session[p].at = "closed" THEN session
                  ELSE [session EXCEPT ![p] = Enqueued(@, Head(posted[p]))]
    /\ UNCHANGED <<flow, acceptor, parserTasks, parser, lease, got>>

\* on_write: a written batch makes room, under the flow's mutex.
PreviewWritten(p) ==
    LET s == session[p] m == s.writing IN
    /\ m # Nothing
    /\ m.kind = "batch" => ~flow[p].locked
    /\ flow' = IF m.kind = "batch" THEN [flow EXCEPT ![p].outstanding = @ - 1] ELSE flow
    /\ parser' = IF m.kind = "batch" THEN Notified(p) ELSE parser
    /\ got' = [got EXCEPT ![p] = [ops |-> @.ops \o (IF m.kind = "batch" THEN m.ops ELSE <<>>),
                                  end |-> IF Terminal(m) THEN m ELSE @.end]]
    /\ session' = [session EXCEPT ![p] =
                     LET done == [s EXCEPT !.writing = Nothing]
                     IN  IF s.spoke \/ Terminal(m) THEN [done EXCEPT !.at = "closing"] ELSE Pumped(done)]
    /\ UNCHANGED <<posted, acceptor, parserTasks, lease>>

\* on_read: the client may not speak.
PreviewSpeaks(p) ==
    /\ session[p].at = "open" /\ ~session[p].spoke
    /\ session' = [session EXCEPT ![p].spoke = TRUE,
                     ![p].at = IF session[p].writing = Nothing THEN "closing" ELSE @]
    /\ UNCHANGED <<flow, posted, acceptor, parserTasks, parser, lease, got>>

\* fail, of the session itself.
Failed(s) == [s EXCEPT !.at = "closed", !.admitted = FALSE, !.queue = <<>>, !.writing = Nothing]

\* fail: the peer went away, a write failed or met its deadline, or a close is
\* done.  The stop request and the notification do not take the flow's mutex.
FailPreview(p) ==
    /\ p \in Connected
    /\ session' = [session EXCEPT ![p] = Failed(@)]
    /\ flow' = [flow EXCEPT ![p].stop = TRUE]
    /\ parser' = Notified(p)
    /\ UNCHANGED <<posted, acceptor, parserTasks, lease, got>>

\* TelemetryWebSocketServer::stop.  An accept whose handler is already queued
\* is not cancelled by it.
StopTelemetry ==
    /\ acceptor
    /\ acceptor' = FALSE
    /\ session' = [p \in Previews |-> IF p \in Connected THEN Failed(session[p]) ELSE session[p]]
    /\ flow' = [p \in Previews |-> IF p \in Connected THEN [flow[p] EXCEPT !.stop = TRUE] ELSE flow[p]]
    /\ parser' = IF parser.serving \in Connected THEN Notified(parser.serving) ELSE parser
    /\ UNCHANGED <<posted, parserTasks, lease, got>>

-----------------------------------------------------------------------------
(* The parser worker *)

Stopping == flow[parser.serving].stop

\* send: a session that is gone gets nothing.
Post(m) == posted' = [posted EXCEPT ![parser.serving] = Append(@, m)]

Goes(step) == parser' = [parser EXCEPT !.at = step]

\* The task starts: pin_entry leases the workspace, or its entry is missing.
TakePreview ==
    /\ parser.at = "idle" /\ parserTasks # <<>>
    /\ parserTasks' = Tail(parserTasks)
    /\ LET p == Head(parserTasks) IN
       \/ /\ lease' = [lease EXCEPT ![p] = TRUE]
          /\ parser' = [ParserIdle EXCEPT !.at = "step", !.serving = p]
          /\ UNCHANGED posted
       \/ /\ posted' = [posted EXCEPT ![p] = Append(@, Error)]
          /\ UNCHANGED <<lease, parser>>
    /\ UNCHANGED <<session, flow, acceptor, got>>

\* An interpreter step that records n operations.
Interpret(n) ==
    /\ parser.at = "step" /\ ~Stopping
    /\ parser.count + n <= MaxOps
    /\ LET ops == parser.ops \o [i \in 1..n |-> parser.count + i]
       IN  parser' = [parser EXCEPT !.ops = ops, !.count = @ + n,
                        !.at = IF Len(ops) >= BatchSize THEN "flush" ELSE "progress",
                        !.after = "progress"]
    /\ UNCHANGED <<session, flow, posted, acceptor, parserTasks, lease, got>>

\* The step or the flush throws.
ParserThrows ==
    /\ parser.at \in {"step", "flush"} /\ ~Stopping
    /\ Post(Error) /\ Goes("unpin")
    /\ UNCHANGED <<session, flow, acceptor, parserTasks, lease, got>>

ReportProgress ==
    /\ parser.at = "progress"
    /\ \/ ~Stopping /\ Len(posted[parser.serving]) < MaxPosted /\ Post(Progress)
       \/ UNCHANGED posted
    /\ Goes("step")
    /\ UNCHANGED <<session, flow, acceptor, parserTasks, lease, got>>

\* The loop ends: a stop request, or the end of the program and the final flush.
EndOfProgram ==
    /\ parser.at = "step"
    /\ parser' = IF Stopping THEN [parser EXCEPT !.at = "report"]
                 ELSE [parser EXCEPT !.at = "flush", !.after = "report"]
    /\ UNCHANGED <<session, flow, posted, acceptor, parserTasks, lease, got>>

\* flushBatch: the next batch, until the buffer is empty or a stop is requested.
CutBatch ==
    /\ parser.at = "flush"
    /\ IF parser.ops = <<>> \/ Stopping
       THEN Goes(parser.after)
       ELSE \E n \in 1..BatchSize :
              /\ n <= Len(parser.ops)
              /\ parser' = [parser EXCEPT !.at = "test", !.batch = SubSeq(parser.ops, 1, n),
                              !.ops = SubSeq(@, n + 1, Len(@))]
    /\ UNCHANGED <<session, flow, posted, acceptor, parserTasks, lease, got>>

\* At most two batches are under way.
Room(f) == f.outstanding < 2

\* send_batch: the wait's predicate, evaluated under the flow's mutex, which is
\* kept when the predicate is false.
TestRoom ==
    /\ parser.at = "test"
    /\ LET p == parser.serving IN
       \/ Stopping /\ Goes("flush") /\ UNCHANGED flow
       \/ ~Stopping /\ Room(flow[p])
            /\ flow' = [flow EXCEPT ![p].outstanding = @ + 1] /\ Goes("post")
       \/ ~Stopping /\ ~Room(flow[p])
            /\ flow' = [flow EXCEPT ![p].locked = TRUE] /\ Goes("full")
    /\ UNCHANGED <<session, posted, acceptor, parserTasks, lease, got>>

\* The wait releases the mutex and sleeps.
FallAsleep ==
    /\ parser.at = "full"
    /\ flow' = [flow EXCEPT ![parser.serving].locked = FALSE]
    /\ Goes("asleep")
    /\ UNCHANGED <<session, posted, acceptor, parserTasks, lease, got>>

\* A condition variable may wake on its own.
SpuriousWake ==
    /\ parser.at = "asleep"
    /\ Goes("test")
    /\ UNCHANGED <<session, flow, posted, acceptor, parserTasks, lease, got>>

PostBatch ==
    /\ parser.at = "post"
    /\ Post(Batch(parser.batch))
    /\ parser' = [parser EXCEPT !.at = "flush", !.batch = <<>>]
    /\ UNCHANGED <<session, flow, acceptor, parserTasks, lease, got>>

\* The last progress is reported even to a stopped session.
ReportAll ==
    /\ parser.at = "report"
    /\ Post(Progress) /\ Goes("result")
    /\ UNCHANGED <<session, flow, acceptor, parserTasks, lease, got>>

\* The result: no summary when it was cancelled.
EndPreview ==
    /\ parser.at = "result"
    /\ IF Stopping THEN UNCHANGED posted ELSE Post(Summary(parser.count))
    /\ Goes("unpin")
    /\ UNCHANGED <<session, flow, acceptor, parserTasks, lease, got>>

\* ~Lease.
Unpin ==
    /\ parser.at = "unpin"
    /\ lease' = [lease EXCEPT ![parser.serving] = FALSE]
    /\ parser' = ParserIdle
    /\ UNCHANGED <<session, flow, posted, acceptor, parserTasks, got>>

-----------------------------------------------------------------------------

ParserStep ==
    \/ TakePreview \/ (\E n \in 0..MaxOps : Interpret(n)) \/ ParserThrows
    \/ ReportProgress \/ EndOfProgram \/ CutBatch \/ TestRoom \/ FallAsleep
    \/ PostBatch \/ ReportAll \/ EndPreview \/ Unpin

PreviewNext ==
    \/ \E p \in Previews :
         \/ PeerConnects(p) \/ AcceptPeer(p) \/ StartPreview(p) \/ RunPosted(p)
         \/ PreviewWritten(p) \/ PreviewSpeaks(p) \/ FailPreview(p)
    \/ StopTelemetry
    \/ ParserStep \/ SpuriousWake

\* The I/O thread and the worker run; a write completes or meets
\* its deadline, and a close completes.  Clients owe nothing, and neither does
\* the condition variable.
PreviewFairness ==
    /\ WF_previewVars(ParserStep)
    /\ \A p \in Previews :
         /\ WF_previewVars(RunPosted(p))
         /\ WF_previewVars(PreviewWritten(p) \/ (session[p].writing # Nothing /\ FailPreview(p)))
         /\ WF_previewVars(session[p].at = "closing" /\ FailPreview(p))

PreviewSpec == PreviewInit /\ [][PreviewNext]_previewVars
FairPreviewSpec == PreviewSpec /\ PreviewFairness

-----------------------------------------------------------------------------

\* A client that reads a summary has read every operation the summary counts,
\* once each and in program order, and whatever it has read is a prefix of the
\* program: batches are never coalesced, reordered or dropped on the way
\* through the flow, the posted handlers and the session's queue.
SummaryIsComplete ==
    \A p \in Previews :
      /\ got[p].ops = [i \in 1..Len(got[p].ops) |-> i]
      /\ got[p].end.kind = "summary" => Len(got[p].ops) = got[p].end.ops[1]

\* Closing the connection stops the interpretation and releases the workspace
\* lease (README of the native server, "Cancelling or closing the WebSocket stops
\* interpretation at the next interpreter-step boundary, releases the workspace
\* lease").
CloseReleasesLease ==
    \A p \in Previews : (session[p].at = "closed") ~> ~lease[p]

=============================================================================
