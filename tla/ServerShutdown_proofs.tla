------------------------ MODULE ServerShutdown_proofs ------------------------
(***************************************************************************)
(* For any set of calls, what finalize relies on when it drains the        *)
(* executors and destroys the services.                                    *)
(***************************************************************************)
EXTENDS ServerShutdown, TLAPS

Walking == {"admission", "services", "callbacks", "server"}

Places == Walking \cup {"sigwait", "wait", "request", "wake", "join", "exited",
                        "drain", "reset", "finalized"}

Answers == {"none", "UNAVAILABLE", "RESOURCE_EXHAUSTED", "CANCELLED", "OK", "ERROR"}

CallRecord == [at : {"none", "submit", "built", "cancel"},
               gate : {"Open", "Finishing", "Done"}, stop : BOOLEAN, answer : Answers]

\* Where the two threads, the calls and the tasks can be.
ServerTypeOK ==
    /\ at \in [{"control", "owner"} -> Places]
    /\ requested \in BOOLEAN /\ alive \in BOOLEAN
    /\ grpc \in {"serving", "stopping", "down"}
    /\ call \in [Calls -> CallRecord]
    /\ work \in [Calls -> {"none", "queued", "running", "skipped", "done", "over"}]

\* One thread at most is on the shutdown edge, and it is the one that brings gRPC
\* down: when neither is on it any more, gRPC is down.
EdgeInvariant ==
    /\ at["control"] \notin {"wait", "join", "drain", "reset", "finalized"}
    /\ at["owner"] \notin {"sigwait", "exited"}
    /\ \A t \in {"control", "owner"} :
         /\ at[t] \in Walking => requested /\ grpc # "down"
         /\ at[t] = "wake" => grpc = "down"
    /\ ~(at["control"] \in Walking /\ at["owner"] \in Walking)
    /\ grpc = "down" => requested
    /\ requested => grpc = "down" \/ at["control"] \in Walking \/ at["owner"] \in Walking
    /\ at["control"] = "exited" => requested
    /\ at["owner"] = "join" => requested
    /\ at["owner"] \in {"drain", "reset", "finalized"} => grpc = "down"

\* With gRPC down every call is over, and nothing submits a task any more.
CallInvariant ==
    /\ \A c \in Calls : call[c].gate = "Done" => call[c].at \in {"built", "cancel"}
    /\ grpc = "down" => \A c \in Calls : CallOver(c)
    /\ at["owner"] \in {"reset", "finalized"} =>
         \A c \in Calls : work[c] \notin {"queued", "running", "skipped"}
    /\ ~alive => at["owner"] = "finalized"

ServerInvariant == ServerTypeOK /\ EdgeInvariant /\ CallInvariant

LEMMA ServerInitially == ServerInit => ServerInvariant
<1> SUFFICES ASSUME ServerInit PROVE ServerInvariant
  OBVIOUS
<1>1. ServerTypeOK
  <2>1. at \in [{"control", "owner"} -> Places]
    BY DEF ServerInit, Places, Walking
  <2>2. NoCall \in CallRecord
    BY DEF NoCall, CallRecord, Answers
  <2> QED
    BY <2>1, <2>2 DEF ServerInit, ServerTypeOK
<1>2. EdgeInvariant
  BY DEF ServerInit, EdgeInvariant, Walking
<1>3. CallInvariant
  BY DEF ServerInit, CallInvariant, NoCall
<1> QED
  BY <1>1, <1>2, <1>3 DEF ServerInvariant

\* An answer goes through the gate once: a call that is over stays over.
LEMMA AnsweredKeeps ==
    ASSUME NEW x \in CallRecord, NEW s \in Answers
    PROVE  /\ Answered(x, s) \in CallRecord
           /\ Answered(x, s).at = x.at
           /\ Answered(x, s).gate = "Done" <=> x.gate = "Done"
  BY DEF Answered, CallRecord

LEMMA ShutDownKeeps ==
    ASSUME NEW x \in CallRecord
    PROVE  /\ CallShutDown(x) \in CallRecord
           /\ CallShutDown(x).at = x.at
           /\ CallShutDown(x).gate = "Done" <=> x.gate = "Done"
<1> DEFINE y == [x EXCEPT !.stop = TRUE]
<1>1. y \in CallRecord /\ y.at = x.at /\ y.gate = x.gate
  BY DEF CallRecord
<1>2. "UNAVAILABLE" \in Answers
  BY DEF Answers
<1> HIDE DEF y
<1>3. /\ Answered(y, "UNAVAILABLE") \in CallRecord
      /\ Answered(y, "UNAVAILABLE").at = y.at
      /\ Answered(y, "UNAVAILABLE").gate = "Done" <=> y.gate = "Done"
  BY <1>1, <1>2, AnsweredKeeps
<1> QED
  BY <1>1, <1>3 DEF y, CallShutDown

\* What a step does to a call: one that is over stays over, and only one that is
\* still to submit its task is neither.
Steady(x, y) ==
    /\ y \in CallRecord
    /\ x.at # "none" => y.at # "none"
    /\ x.gate = "Done" => y.gate = "Done"
    /\ y.gate = "Done" => y.at \in {"built", "cancel"}

LEMMA CallStepIsSteady ==
    ASSUME ServerInvariant, NEW c \in Calls,
           OpenCall(c) \/ CancelCall(c) \/ CallStep(c) \/ WorkStep(c)
    PROVE  call' = [call EXCEPT ![c] = call'[c]] /\ Steady(call[c], call'[c])
<1> DEFINE x == call[c]
<1>1. call \in [Calls -> CallRecord] /\ x \in CallRecord
  BY DEF ServerInvariant, ServerTypeOK
<1>2. x.gate = "Done" => x.at \in {"built", "cancel"}
  BY DEF ServerInvariant, CallInvariant
<1>3. Answers = {"none", "UNAVAILABLE", "RESOURCE_EXHAUSTED", "CANCELLED", "OK", "ERROR"}
  BY DEF Answers
<1>4. ASSUME NEW y, call' = [call EXCEPT ![c] = y], Steady(x, y)
      PROVE  call' = [call EXCEPT ![c] = call'[c]] /\ Steady(call[c], call'[c])
  BY <1>1, <1>4
<1>5. CASE OpenCall(c)
  <2>1. CASE toCall.open
    <3>1. call' = [call EXCEPT ![c] = [x EXCEPT !.at = "submit"]] /\ x.at = "none"
      BY <1>1, <1>5, <2>1 DEF OpenCall
    <3>2. Steady(x, [x EXCEPT !.at = "submit"])
      BY <1>1, <1>2, <3>1 DEF Steady, CallRecord
    <3> QED
      BY <1>4, <3>1, <3>2
  <2>2. CASE ~toCall.open
    <3> DEFINE z == [x EXCEPT !.at = "built"]
    <3>1. call' = [call EXCEPT ![c] = CallShutDown(z)]
      BY <1>1, <1>5, <2>2 DEF OpenCall
    <3>2. z \in CallRecord /\ z.at = "built" /\ z.gate = x.gate
      BY <1>1 DEF CallRecord
    <3> HIDE DEF z
    <3>3. /\ CallShutDown(z) \in CallRecord /\ CallShutDown(z).at = z.at
          /\ CallShutDown(z).gate = "Done" <=> z.gate = "Done"
      BY <3>2, ShutDownKeeps
    <3>4. Steady(x, CallShutDown(z))
      BY <3>2, <3>3 DEF Steady
    <3> QED
      BY <1>4, <3>1, <3>4
  <2> QED
    BY <2>1, <2>2
<1>6. CASE SubmitCall(c)
  <2>1. call' = [call EXCEPT ![c] = [x EXCEPT !.at = "built"]]
    BY <1>1, <1>6 DEF SubmitCall
  <2>2. Steady(x, [x EXCEPT !.at = "built"])
    BY <1>1 DEF Steady, CallRecord
  <2> QED
    BY <1>4, <2>1, <2>2
<1>7. CASE SubmitRefused(c) \/ CancelledCall(c)
  <2> DEFINE z == [x EXCEPT !.at = "built"]
  <2>1. PICK s \in Answers : call' = [call EXCEPT ![c] = Answered(z, s)]
    BY <1>3, <1>7 DEF SubmitRefused, CancelledCall
  <2>2. z \in CallRecord /\ z.at = "built" /\ z.gate = x.gate
    BY <1>1 DEF CallRecord
  <2> HIDE DEF z
  <2>3. /\ Answered(z, s) \in CallRecord /\ Answered(z, s).at = z.at
        /\ Answered(z, s).gate = "Done" <=> z.gate = "Done"
    BY <2>2, AnsweredKeeps
  <2>4. Steady(x, Answered(z, s))
    BY <2>2, <2>3 DEF Steady
  <2> QED
    BY <1>4, <2>1, <2>4
<1>8. CASE CancelCall(c)
  <2>1. call' = [call EXCEPT ![c] = [x EXCEPT !.at = "cancel", !.stop = TRUE]]
    BY <1>1, <1>8 DEF CancelCall, CallRecord
  <2>2. Steady(x, [x EXCEPT !.at = "cancel", !.stop = TRUE])
    BY <1>1, <1>2 DEF Steady, CallRecord
  <2> QED
    BY <1>4, <2>1, <2>2
<1>9. CASE CallDone(c)
  <2>1. call' = [call EXCEPT ![c] = [x EXCEPT !.gate = "Done"]] /\ x.at = "built"
    BY <1>1, <1>9 DEF CallDone
  <2>2. Steady(x, [x EXCEPT !.gate = "Done"])
    BY <1>1, <2>1 DEF Steady, CallRecord
  <2> QED
    BY <1>4, <2>1, <2>2
<1>10. CASE StartWork(c)
  <2>1. call' = [call EXCEPT ![c] = x]
    BY <1>1, <1>10 DEF StartWork
  <2> QED
    BY <1>1, <1>2, <1>4, <2>1 DEF Steady
<1>11. CASE \E r \in {"OK", "ERROR", "CANCELLED"} : EndWork(c, r)
  <2>1. PICK s \in Answers : call' = [call EXCEPT ![c] = Answered(x, s)]
    BY <1>3, <1>11 DEF EndWork
  <2>2. /\ Answered(x, s) \in CallRecord /\ Answered(x, s).at = x.at
        /\ Answered(x, s).gate = "Done" <=> x.gate = "Done"
    BY <1>1, AnsweredKeeps
  <2>3. Steady(x, Answered(x, s))
    BY <1>2, <2>2 DEF Steady
  <2> QED
    BY <1>4, <2>1, <2>3
<1> QED
  BY <1>5, <1>6, <1>7, <1>8, <1>9, <1>10, <1>11 DEF CallStep, WorkStep

\* A call's own steps leave the threads and gRPC alone, and with gRPC down there is
\* no call left that could submit a task.
LEMMA CallStepsPreserve ==
    ASSUME ServerInvariant, NEW c \in Calls,
           OpenCall(c) \/ CancelCall(c) \/ CallStep(c) \/ WorkStep(c)
    PROVE  ServerInvariant'
<1> USE DEF ServerInvariant
<1>1. UNCHANGED <<at, requested, grpc, alive>>
  BY DEF OpenCall, CancelCall, CallStep, WorkStep, SubmitCall, SubmitRefused, CancelledCall,
         CallDone, StartWork, EndWork
<1>2. call' = [call EXCEPT ![c] = call'[c]] /\ Steady(call[c], call'[c])
  BY CallStepIsSteady
<1>3. work' \in [Calls -> {"none", "queued", "running", "skipped", "done", "over"}]
  BY DEF ServerTypeOK, OpenCall, CancelCall, CallStep, WorkStep, SubmitCall, SubmitRefused,
         CancelledCall, CallDone, StartWork, EndWork
<1>4. call \in [Calls -> CallRecord]
  BY DEF ServerTypeOK
<1>5. call' \in [Calls -> CallRecord]
  BY <1>2, <1>4 DEF Steady
<1>6. ServerTypeOK'
  BY <1>1, <1>3, <1>5 DEF ServerTypeOK
<1>7. EdgeInvariant'
  BY <1>1 DEF EdgeInvariant
<1>8. \A d \in Calls : call'[d].gate = "Done" => call'[d].at \in {"built", "cancel"}
  BY <1>2, <1>4 DEF Steady, CallInvariant
<1>9. grpc = "down" => \A d \in Calls : CallOver(d)'
  <2>1. CASE OpenCall(c)
    BY <2>1 DEF OpenCall
  <2>2. CASE ~OpenCall(c)
    <3>1. call[c].at = "none" => call'[c].at = "none" \/ call'[c].gate = "Done"
      <4>1. CASE \E r \in {"OK", "ERROR", "CANCELLED"} : EndWork(c, r)
        <5>1. PICK r \in {"OK", "ERROR", "CANCELLED"} : call' = [call EXCEPT ![c] = Answered(@, r)]
          BY <4>1 DEF EndWork
        <5>2. r \in Answers /\ call[c] \in CallRecord
          BY <1>4 DEF Answers
        <5> QED
          BY <1>4, <5>1, <5>2, AnsweredKeeps
      <4>2. CASE ~\E r \in {"OK", "ERROR", "CANCELLED"} : EndWork(c, r)
        BY <2>2, <4>2 DEF CancelCall, CallStep, WorkStep, SubmitCall, SubmitRefused,
               CancelledCall, CallDone, StartWork
      <4> QED
        BY <4>1, <4>2
    <3>2. CallOver(c) => CallOver(c)'
      BY <1>2, <3>1 DEF Steady, CallOver
    <3>3. \A d \in Calls : CallOver(d) => CallOver(d)'
      BY <1>2, <1>4, <3>2 DEF CallOver
    <3> QED
      BY <3>3 DEF CallInvariant
  <2> QED
    BY <2>1, <2>2
<1>10. at["owner"] \in {"reset", "finalized"} =>
        \A d \in Calls : work'[d] \notin {"queued", "running", "skipped"}
  BY DEF ServerTypeOK, EdgeInvariant, CallInvariant, OpenCall, CancelCall, CallStep, WorkStep,
         SubmitCall, SubmitRefused, CancelledCall, CallDone, StartWork, EndWork, CallOver
<1> QED
  BY <1>1, <1>6, <1>7, <1>8, <1>9, <1>10 DEF CallInvariant

\* The shutdown edge, walked by one thread.
LEMMA EdgePreserves ==
    ASSUME ServerInvariant, NEW t \in {"control", "owner"}, Edge(t)
    PROVE  ServerInvariant'
<1> USE DEF ServerInvariant
<1>1. ServerTypeOK'
  <2>1. at' \in [{"control", "owner"} -> Places]
    BY DEF ServerTypeOK, Edge, BeginShutdown, StopAdmissions, ShutdownRegistry, StopServer,
           ServerStopped, WakeControl, ShutdownCall, Returns, Places, Walking
  <2>2. requested' \in BOOLEAN /\ alive' \in BOOLEAN
    BY DEF ServerTypeOK, Edge, BeginShutdown, StopAdmissions, ShutdownRegistry, StopServer,
           ServerStopped, WakeControl, ShutdownCall
  <2>3. grpc' \in {"serving", "stopping", "down"} /\ work' = work
    BY DEF ServerTypeOK, Edge, BeginShutdown, StopAdmissions, ShutdownRegistry, StopServer,
           ServerStopped, WakeControl, ShutdownCall, callVars
  <2>4. call' \in [Calls -> CallRecord]
    BY ShutDownKeeps DEF ServerTypeOK, Edge, BeginShutdown, StopAdmissions, ShutdownRegistry,
           StopServer, ServerStopped, WakeControl, ShutdownCall, callVars
  <2> QED
    BY <2>1, <2>2, <2>3, <2>4 DEF ServerTypeOK
<1>2. EdgeInvariant'
  BY DEF ServerTypeOK, EdgeInvariant, Edge, BeginShutdown, StopAdmissions, ShutdownRegistry,
         StopServer, ServerStopped, WakeControl, ShutdownCall, Returns, callVars, Places, Walking
<1>3. CallInvariant'
  <2>1. CASE \E c \in Calls : ShutdownCall(t, c)
    BY <2>1 DEF ServerTypeOK, CallInvariant, ShutdownCall, CallOver, Answered, CallShutDown
  <2>2. CASE BeginShutdown(t) \/ StopAdmissions(t) \/ ShutdownRegistry(t) \/ StopServer(t)
             \/ ServerStopped(t) \/ WakeControl(t)
    BY <2>2 DEF ServerTypeOK, EdgeInvariant, CallInvariant, BeginShutdown, StopAdmissions,
         ShutdownRegistry, StopServer, ServerStopped, WakeControl, Returns, callVars, CallOver,
         Walking
  <2> QED
    BY <2>1, <2>2 DEF Edge
<1> QED
  BY <1>1, <1>2, <1>3

\* What the two threads do outside the edge.
LEMMA ThreadsPreserve ==
    ASSUME ServerInvariant,
           \/ Signal \/ SigwaitFails \/ WaitReturnsEarly \/ ControlWakes
           \/ WaitReturns \/ JoinControl \/ DrainExecutors \/ ResetServices
    PROVE  ServerInvariant'
<1> USE DEF ServerInvariant
<1>1. UNCHANGED <<requested, grpc, call, work>>
  BY DEF Signal, SigwaitFails, WaitReturnsEarly, ControlWakes, WaitReturns, JoinControl,
         DrainExecutors, ResetServices, callVars
<1>2. ServerTypeOK'
  <2>1. at' \in [{"control", "owner"} -> Places]
    BY DEF ServerTypeOK, Signal, SigwaitFails, WaitReturnsEarly, ControlWakes, WaitReturns,
         JoinControl, DrainExecutors, ResetServices, Places, Walking
  <2>2. alive' \in BOOLEAN
    BY DEF ServerTypeOK, Signal, SigwaitFails, WaitReturnsEarly, ControlWakes, WaitReturns,
         JoinControl, DrainExecutors, ResetServices
  <2> QED
    BY <1>1, <2>1, <2>2 DEF ServerTypeOK
<1>3. EdgeInvariant'
  BY <1>1 DEF ServerTypeOK, EdgeInvariant, Signal, SigwaitFails, WaitReturnsEarly, ControlWakes,
         WaitReturns, JoinControl, DrainExecutors, ResetServices, Places, Walking
<1>4. CallInvariant'
  BY <1>1 DEF ServerTypeOK, EdgeInvariant, CallInvariant, Signal, SigwaitFails,
         WaitReturnsEarly, ControlWakes, WaitReturns, JoinControl, DrainExecutors, ResetServices,
         CallOver
<1> QED
  BY <1>2, <1>3, <1>4

LEMMA ServerPreserved == ServerInvariant /\ [ServerNext]_serverVars => ServerInvariant'
<1> SUFFICES ASSUME ServerInvariant, [ServerNext]_serverVars PROVE ServerInvariant'
  OBVIOUS
<1>1. CASE UNCHANGED serverVars
  BY <1>1 DEF serverVars, ServerInvariant, ServerTypeOK, EdgeInvariant, CallInvariant, CallOver
<1>2. CASE \E c \in Calls : OpenCall(c) \/ CancelCall(c) \/ CallStep(c) \/ WorkStep(c)
  BY <1>2, CallStepsPreserve
<1>3. CASE Edge("owner") \/ Edge("control")
  BY <1>3, EdgePreserves
<1>4. CASE \/ Signal \/ SigwaitFails \/ WaitReturnsEarly \/ ControlWakes
           \/ WaitReturns \/ JoinControl \/ DrainExecutors \/ ResetServices
  BY <1>4, ThreadsPreserve
<1> QED
  BY <1>1, <1>2, <1>3, <1>4 DEF ServerNext, OwnerStep, ControlStep

\* Whichever thread walks the shutdown edge, and however signals, calls and tasks
\* interleave with it, finalize drains with gRPC down and destroys the services
\* with no task left to use them (runtime.cc, finalize).
THEOREM ServicesOutliveWork == ServerSpec => []NothingOutlivesServices
<1>1. ServerInvariant => NothingOutlivesServices
  BY DEF ServerInvariant, EdgeInvariant, CallInvariant, NothingOutlivesServices
<1> QED
  BY <1>1, ServerInitially, ServerPreserved, PTL DEF ServerSpec
=============================================================================
