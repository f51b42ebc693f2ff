---------------------------- MODULE ServerShutdown ----------------------------
(***************************************************************************)
(* The end of the daemon (grpc/server/runtime.cc) around its unary calls   *)
(* (grpc/server/unary_task_reactor.hpp).  The control thread waits for a   *)
(* signal and the owner for the gRPC server; whichever comes first walks   *)
(* the shutdown edge, and the owner then joins the control thread, drains  *)
(* the executors and destroys the services the tasks were using.           *)
(*                                                                         *)
(* The five services and the four executors go through the same steps side *)
(* by side, so one of each stands for all.  A call made through a          *)
(* reactor's LifetimeGate is one action.                                   *)
(***************************************************************************)
EXTENDS Naturals, FiniteSets

CONSTANT Calls   \* the unary calls that clients make

VARIABLES at,        \* where the control thread and the owner are
          signalled, \* a SIGTERM is pending
          requested, \* shutdown_requested_
          admits,    \* the executor admits ordinary tasks
          toCall,    \* registry: "open", or the callbacks its shutdown has yet to call
          grpc,      \* the gRPC server (external)
          call,      \* the UnaryTaskReactor of each call
          work,      \* its task
          alive      \* the service exists

serverVars == <<at, signalled, requested, admits, toCall, grpc, call, work, alive>>
callVars == <<call, work>>

NoCall == [at |-> "none", gate |-> "Open", stop |-> FALSE, answer |-> "none"]

ServerInit ==
    /\ at = [t \in {"control", "owner"} |-> IF t = "control" THEN "sigwait" ELSE "wait"]
    /\ signalled = FALSE /\ requested = FALSE
    /\ admits = TRUE
    /\ toCall = [open |-> TRUE, left |-> {}]
    /\ grpc = "serving"
    /\ call = [c \in Calls |-> NoCall]
    /\ work = [c \in Calls |-> "none"]
    /\ alive = TRUE

-----------------------------------------------------------------------------
(* A unary call *)

\* finish and complete: the first one through the gate answers.
Answered(x, status) ==
    IF x.gate = "Open" THEN [x EXCEPT !.gate = "Finishing", !.answer = status] ELSE x

\* shutdown.
CallShutDown(x) == Answered([x EXCEPT !.stop = TRUE], "UNAVAILABLE")

\* The constructor: without a registration the call is over.
OpenCall(c) ==
    /\ grpc = "serving" /\ call[c].at = "none"
    /\ call' = [call EXCEPT ![c] =
                  IF toCall.open THEN [@ EXCEPT !.at = "submit"]
                  ELSE CallShutDown([@ EXCEPT !.at = "built"])]
    /\ UNCHANGED <<at, signalled, requested, admits, toCall, grpc, work, alive>>

SubmitCall(c) ==
    /\ call[c].at = "submit" /\ admits
    /\ call' = [call EXCEPT ![c].at = "built"]
    /\ work' = [work EXCEPT ![c] = "queued"]
    /\ UNCHANGED <<at, signalled, requested, admits, toCall, grpc, alive>>

\* The queue is full or closed.
SubmitRefused(c) ==
    /\ call[c].at = "submit"
    /\ call' = [call EXCEPT ![c] = Answered([@ EXCEPT !.at = "built"], "RESOURCE_EXHAUSTED")]
    /\ UNCHANGED <<at, signalled, requested, admits, toCall, grpc, work, alive>>

\* A worker takes the task: the reactor is gone, or the call was stopped, or the
\* service's function is entered.
StartWork(c) ==
    /\ work[c] = "queued"
    /\ work' = [work EXCEPT ![c] =
                  IF call[c].gate = "Done" THEN "over"
                  ELSE IF call[c].stop THEN "skipped" ELSE "running"]
    /\ UNCHANGED <<at, signalled, requested, admits, toCall, grpc, call, alive>>

\* The function returns or throws, and the reactor completes.
EndWork(c, result) ==
    /\ work[c] \in {"running", "skipped"}
    /\ work[c] = "skipped" \/ call[c].stop => result = "CANCELLED"
    /\ work' = [work EXCEPT ![c] = IF result = "OK" THEN "done" ELSE "over"]
    /\ call' = [call EXCEPT ![c] = Answered(@, result)]
    /\ UNCHANGED <<at, signalled, requested, admits, toCall, grpc, alive>>

\* OnCancel asks for a stop ...
CancelCall(c) ==
    /\ call[c].at = "built" /\ call[c].gate = "Open"
    /\ call' = [call EXCEPT ![c].at = "cancel", ![c].stop = TRUE]
    /\ UNCHANGED <<at, signalled, requested, admits, toCall, grpc, work, alive>>

\* ... and answers.
CancelledCall(c) ==
    /\ call[c].at = "cancel"
    /\ call' = [call EXCEPT ![c] = Answered([@ EXCEPT !.at = "built"], "CANCELLED")]
    /\ UNCHANGED <<at, signalled, requested, admits, toCall, grpc, work, alive>>

\* OnDone.
CallDone(c) ==
    /\ call[c].at = "built" /\ call[c].gate = "Finishing"
    /\ call' = [call EXCEPT ![c].gate = "Done"]
    /\ UNCHANGED <<at, signalled, requested, admits, toCall, grpc, work, alive>>

CallOver(c) == call[c].at = "none" \/ call[c].gate = "Done"

-----------------------------------------------------------------------------
(* request_shutdown, by either thread *)

\* Where request_shutdown returns to.
Returns(t) == IF t = "control" THEN "exited" ELSE "join"

\* One thread walks the edge; for the other there is nothing to do.
BeginShutdown(t) ==
    /\ at[t] = "request"
    /\ requested' = TRUE
    /\ at' = [at EXCEPT ![t] = IF requested THEN Returns(t) ELSE "admission"]
    /\ UNCHANGED <<signalled, admits, toCall, grpc, callVars, alive>>

\* stop_admission of the executors.
StopAdmissions(t) ==
    /\ at[t] = "admission"
    /\ admits' = FALSE
    /\ at' = [at EXCEPT ![t] = "services"]
    /\ UNCHANGED <<signalled, requested, toCall, grpc, callVars, alive>>

\* A service's shutdown: its registry takes a snapshot of the callbacks ...
ShutdownRegistry(t) ==
    /\ at[t] = "services"
    /\ toCall' = [open |-> FALSE, left |-> {c \in Calls : ~CallOver(c)}]
    /\ at' = [at EXCEPT ![t] = "callbacks"]
    /\ UNCHANGED <<signalled, requested, admits, grpc, callVars, alive>>

\* ... and calls each.
ShutdownCall(t, c) ==
    /\ at[t] = "callbacks" /\ c \in toCall.left
    /\ toCall' = [toCall EXCEPT !.left = @ \ {c}]
    /\ call' = [call EXCEPT ![c] = IF @.gate = "Open" THEN CallShutDown(@) ELSE @]
    /\ UNCHANGED <<at, signalled, requested, admits, grpc, work, alive>>

\* server_->Shutdown: no new call comes in ...
StopServer(t) ==
    /\ at[t] = "callbacks" /\ toCall.left = {}
    /\ grpc' = "stopping"
    /\ at' = [at EXCEPT ![t] = "server"]
    /\ UNCHANGED <<signalled, requested, admits, toCall, callVars, alive>>

\* ... and it returns when the last one is over.
ServerStopped(t) ==
    /\ at[t] = "server" /\ \A c \in Calls : CallOver(c)
    /\ grpc' = "down"
    /\ at' = [at EXCEPT ![t] = "wake"]
    /\ UNCHANGED <<signalled, requested, admits, toCall, callVars, alive>>

\* Mutant: the control thread is left in sigwait.
WakeControlNever(t) ==
    /\ at[t] = "wake"
    /\ at' = [at EXCEPT ![t] = Returns(t)]
    /\ UNCHANGED <<signalled, requested, admits, toCall, grpc, callVars, alive>>

\* wake_control_thread: the owner sends the control thread a signal.
WakeControl(t) ==
    /\ at[t] = "wake"
    /\ signalled' = (signalled \/ t = "owner")
    /\ at' = [at EXCEPT ![t] = Returns(t)]
    /\ UNCHANGED <<requested, admits, toCall, grpc, callVars, alive>>

Edge(t) ==
    \/ BeginShutdown(t) \/ StopAdmissions(t) \/ ShutdownRegistry(t) \/ StopServer(t)
    \/ ServerStopped(t) \/ WakeControl(t) \/ \E c \in Calls : ShutdownCall(t, c)

-----------------------------------------------------------------------------
(* The two threads *)

\* SIGINT or SIGTERM is sent to the process (external).
Signal ==
    /\ ~signalled /\ at.control = "sigwait"
    /\ signalled' = TRUE
    /\ UNCHANGED <<at, requested, admits, toCall, grpc, callVars, alive>>

\* run_control_thread: sigwait returns.
ControlWakes ==
    /\ at.control = "sigwait" /\ signalled
    /\ signalled' = FALSE
    /\ at' = [at EXCEPT !.control = "request"]
    /\ UNCHANGED <<requested, admits, toCall, grpc, callVars, alive>>

\* sigwait fails, which ends the daemon too.
SigwaitFails ==
    /\ at.control = "sigwait"
    /\ at' = [at EXCEPT !.control = "request"]
    /\ UNCHANGED <<signalled, requested, admits, toCall, grpc, callVars, alive>>

\* server_->Wait returns: the server is down, ...
WaitReturns ==
    /\ at.owner = "wait" /\ grpc = "down"
    /\ at' = [at EXCEPT !.owner = "request"]
    /\ UNCHANGED <<signalled, requested, admits, toCall, grpc, callVars, alive>>

\* ... or it returns without a signal having been received.
WaitReturnsEarly ==
    /\ at.owner = "wait"
    /\ at' = [at EXCEPT !.owner = "request"]
    /\ UNCHANGED <<signalled, requested, admits, toCall, grpc, callVars, alive>>

\* Mutant: finalize relies on the edge having been requested.
JoinControlUnasked ==
    /\ at.owner = "join" /\ requested
    /\ at' = [at EXCEPT !.owner = "drain"]
    /\ UNCHANGED <<signalled, requested, admits, toCall, grpc, callVars, alive>>

\* join_control_thread.
JoinControl ==
    /\ at.owner = "join" /\ at.control = "exited"
    /\ at' = [at EXCEPT !.owner = "drain"]
    /\ UNCHANGED <<signalled, requested, admits, toCall, grpc, callVars, alive>>

\* drain of the executors: no task is queued or running.
DrainExecutors ==
    /\ at.owner = "drain"
    /\ \A c \in Calls : work[c] \notin {"queued", "running", "skipped"}
    /\ at' = [at EXCEPT !.owner = "reset"]
    /\ UNCHANGED <<signalled, requested, admits, toCall, grpc, callVars, alive>>

\* The services are destroyed, the executors shut down.
ResetServices ==
    /\ at.owner = "reset"
    /\ alive' = FALSE
    /\ at' = [at EXCEPT !.owner = "finalized"]
    /\ UNCHANGED <<signalled, requested, admits, toCall, grpc, callVars>>

OwnerStep == WaitReturns \/ JoinControl \/ DrainExecutors \/ ResetServices \/ Edge("owner")
ControlStep == ControlWakes \/ Edge("control")

CallStep(c) ==
    \/ SubmitCall(c) \/ SubmitRefused(c) \/ CancelledCall(c) \/ CallDone(c)

WorkStep(c) == StartWork(c) \/ \E r \in {"OK", "ERROR", "CANCELLED"} : EndWork(c, r)

ServerNext ==
    \/ Signal \/ SigwaitFails \/ WaitReturnsEarly \/ OwnerStep \/ ControlStep
    \/ \E c \in Calls : OpenCall(c) \/ CancelCall(c) \/ CallStep(c) \/ WorkStep(c)

\* The operating system schedules both threads, the pool's workers and gRPC's
\* threads, and the functions the tasks call return.
ServerFairness ==
    WF_serverVars(OwnerStep \/ ControlStep \/ \E c \in Calls : CallStep(c) \/ WorkStep(c))

ServerSpec == ServerInit /\ [][ServerNext]_serverVars /\ ServerFairness

-----------------------------------------------------------------------------
(* Properties *)

\* What finalize relies on: once it drains, no call is open or can come in that
\* would enqueue more work, and when the services are destroyed no task is left
\* that could use them.
NothingOutlivesServices ==
    /\ at.owner \in {"drain", "reset", "finalized"} =>
         grpc = "down" /\ \A c \in Calls : CallOver(c)
    /\ ~alive => \A c \in Calls : work[c] \notin {"queued", "running", "skipped"}

\* Whoever starts it, the shutdown comes to its end.
DaemonEnds == (signalled \/ requested) ~> (at.owner = "finalized")
===============================================================================
