-------------------------- MODULE MCCallbackRuntime --------------------------
(***************************************************************************)
(* The bounded executor, the shutdown of the daemon around its calls and   *)
(* the remote components, on small instances.  In each behaviour one of    *)
(* them runs and the others stay where they start; only the executor's     *)
(* workers go to sleep first, so that no step that fairness demands is     *)
(* enabled in a component that does not run.                               *)
(***************************************************************************)
EXTENDS BoundedExecutor, ServerShutdown, RemoteComponent

VARIABLE turn   \* the one that runs

runtimeVars == <<turn, executorVars, serverVars, remoteVars>>

RuntimeInit ==
    /\ turn \in {"executor", "server", "remote"}
    /\ ExecutorInit /\ ServerInit /\ RemoteInit

ExecutorTurn == IF turn = "executor" THEN ExecutorNext ELSE \E w \in Workers : Sleep(w)

Resting == \A w \in Workers : worker[w] = "wait"

RuntimeNext ==
    /\ UNCHANGED turn
    /\ \/ ExecutorTurn /\ UNCHANGED <<serverVars, remoteVars>>
       \/ turn = "server" /\ Resting /\ ServerNext /\ UNCHANGED <<executorVars, remoteVars>>
       \/ turn = "remote" /\ Resting /\ RemoteNext /\ UNCHANGED <<executorVars, serverVars>>

RuntimeSpec ==
    RuntimeInit /\ [][RuntimeNext]_runtimeVars /\ ExecutorFairness /\ ServerFairness /\ RemoteFairness
=============================================================================
