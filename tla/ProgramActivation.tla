-------------------------- MODULE ProgramActivation --------------------------
(***************************************************************************)
(* Opening and closing programs (machine/grpc/service.cc, program/         *)
(* workspace.cc, filesystem/directory_transaction.cc) on top of the NML    *)
(* command path.  LinuxCNC reads every program through one fixed symlink.  *)
(* An open pins the workspace it wants, stages a second link to it, and    *)
(* exchanges the two on the command worker just before the NML write; the  *)
(* exchange is made final, or undone, when the command is resolved.  Four  *)
(* threads meet here: the filesystem executor that submits opens, the      *)
(* command worker, the polling thread, and the pruner of expired           *)
(* workspaces.  A crash leaves the links and the workspaces.               *)
(***************************************************************************)
EXTENDS NmlCommands, FiniteSets

CONSTANTS
    Workspaces,    \* the workspaces published before
    WorkspaceOf,   \* the workspace each open asks for
    Expiring,      \* those that expire or are deleted during the run
    ClientsWait,   \* does a client wait until the request before is over?
    Crashes        \* bound: crashes of the daemon

CloseCommands == Commands \ OpenCommands

ASSUME WorkspaceAssumption ==
    /\ WorkspaceOf \in [OpenCommands -> Workspaces]
    /\ Expiring \subseteq Workspaces
    /\ ClientsWait \in BOOLEAN
    /\ Crashes \in Nat

Empty == "empty"    \* the link's target when no program is active
None == "none"
ASSUME TargetAssumption == Empty \notin Workspaces /\ None \notin Workspaces

VARIABLES
    request,    \* the open the filesystem executor is submitting
    opening,    \* WorkspaceActivation::opening
    active,     \* WorkspaceActivation::active
    stored,     \* the store's workspaces_, and their directories
    overdue,    \* workspaces past their expiry
    leases,     \* Workspace::leases
    recovered,  \* recovered_leases_
    orphans,    \* recovered_links_: opens whose staging link survived a crash
    link,       \* what the active link points to
    staging,    \* what each open's .next- link points to, or None
    txn,        \* the state of each open's DirectoryTransaction
    holders,    \* who still refers to an open's lease and transaction
    releases,   \* PendingWorkspaceLease::release
    dying,      \* the command whose queue item the worker is destroying
    retired,    \* opens whose tracker entry the polling thread must destroy
    callback,   \* where the polling thread is in a completion callback
    reconcile,  \* where it is in observe_status
    file,       \* LinuxCNC: the workspace whose program is open
    peekedFile, \* the file in the status the polling thread copied
    crashes

storeVars == <<stored, overdue, leases, recovered, orphans>>
linkVars == <<link, staging, txn>>
ownerVars == <<holders, releases, dying, retired>>
activationVars ==
    <<request, opening, active, storeVars, linkVars, ownerVars, callback,
      reconcile, file, peekedFile, crashes>>
programVars == <<allNmlVars, activationVars>>

ProgramInit ==
    /\ NmlInit
    /\ request = [cmd |-> NoCommand, at |-> "idle"]
    /\ opening = FALSE
    /\ active = None
    /\ stored = Workspaces
    /\ overdue = {}
    /\ leases = [w \in Workspaces |-> 0]
    /\ recovered = {}
    /\ orphans = {}
    /\ link = Empty
    /\ staging = [c \in OpenCommands |-> None]
    /\ txn = [c \in OpenCommands |-> "none"]
    /\ holders = [c \in OpenCommands |-> {}]
    /\ releases = [c \in OpenCommands |-> TRUE]
    /\ dying = NoCommand
    /\ retired = {}
    /\ callback = "none"
    /\ reconcile = "none"
    /\ file = None
    /\ peekedFile = None
    /\ crashes = 0

-----------------------------------------------------------------------------
(* The store.                                                              *)
Usable(w) == w \in stored /\ w \notin overdue

(* unpin_entry: refused when the workspace or its lease is gone.           *)
Unpinned(ls, w) ==
    IF w \in stored /\ ls[w] # 0 THEN [ls EXCEPT ![w] = @ - 1] ELSE ls

(* release_recovered_leases, on the lease counts.                          *)
WithoutRecovered ==
    [w \in Workspaces |->
       IF w \in recovered /\ w \in stored /\ leases[w] # 0
       THEN leases[w] - 1 ELSE leases[w]]

ReleaseRecovered ==
    /\ leases' = WithoutRecovered
    /\ recovered' = {}
    /\ orphans' = {}
    /\ staging' = [c \in OpenCommands |->
                     IF c \in orphans THEN None ELSE staging[c]]

-----------------------------------------------------------------------------
(* Transactions and leases.                                                *)
(* exchange_paths on the active link and an open's staging link.           *)
Exchanged(c) ==
    /\ link' = staging[c]
    /\ staging' = [staging EXCEPT ![c] = link]

(* DirectoryTransaction::rollback.                                         *)
Rollback(c) ==
    IF txn[c] = "committed"
    THEN Exchanged(c) /\ txn' = [txn EXCEPT ![c] = "closed"]
    ELSE UNCHANGED linkVars

(* ~PendingWorkspaceLease and ~DirectoryTransaction.                       *)
DestroyKeepsOpening(c) ==  \* mutant: `opening' stays set
    /\ leases' = IF releases[c] THEN Unpinned(leases, WorkspaceOf[c]) ELSE leases
    /\ IF txn[c] = "committed" THEN Exchanged(c) ELSE UNCHANGED <<link, staging>>
    /\ txn' = [txn EXCEPT ![c] = "closed"]
    /\ UNCHANGED opening
DestroyReleases(c) ==  \* mutant: `release' is not looked at
    /\ opening' = FALSE
    /\ leases' = Unpinned(leases, WorkspaceOf[c])
    /\ IF txn[c] = "committed" THEN Exchanged(c) ELSE UNCHANGED <<link, staging>>
    /\ txn' = [txn EXCEPT ![c] = "closed"]
Destroy(c) ==
    /\ opening' = FALSE
    /\ leases' = IF releases[c] THEN Unpinned(leases, WorkspaceOf[c]) ELSE leases
    /\ IF txn[c] = "committed" THEN Exchanged(c) ELSE UNCHANGED <<link, staging>>
    /\ txn' = [txn EXCEPT ![c] = "closed"]

(* A holder goes; the last one runs the destructors.                       *)
Drop(c, holder) ==
    /\ reconcile # "clear"
    /\ holders' = [holders EXCEPT ![c] = @ \ {holder}]
    /\ IF holders[c] \subseteq {holder}
       THEN Destroy(c)
       ELSE UNCHANGED <<opening, leases, linkVars>>

(* The cleanup of a closed transaction, on the filesystem executor.        *)
Cleanup(c) ==
    /\ request.at = "idle"
    /\ txn[c] = "closed" /\ staging[c] # None /\ c \notin orphans
    /\ staging' = [staging EXCEPT ![c] = None]
    /\ UNCHANGED <<allNmlVars, request, opening, active, storeVars, link, txn,
                   ownerVars, callback, reconcile, file, peekedFile, crashes>>

-----------------------------------------------------------------------------
(* Requests.  A client that waits starts nothing before the last request   *)
(* is answered and forgotten.                                              *)
Quiet ==
    /\ request.at = "idle"
    /\ dying = NoCommand /\ retired = {} /\ callback = "none"
    /\ finishing = <<>> /\ running = NoCommand
    /\ \A c \in Commands : ticket[c] \in Terminal \cup {"Unsubmitted"}

(* submit_command for a program open: one open at a time is admitted.      *)
MayOpen == ~opening

AdmitOpen(c) ==
    /\ ClientsWait => Quiet
    /\ request.at = "idle"
    /\ reconcile # "clear"
    /\ ticket[c] = "Unsubmitted" /\ txn[c] = "none" /\ ~halting
    /\ MayOpen
    /\ opening' = TRUE
    /\ request' = [cmd |-> c, at |-> "pin"]
    /\ UNCHANGED <<allNmlVars, active, storeVars, linkVars, ownerVars, callback,
                   reconcile, file, peekedFile, crashes>>

(* Before the command exists a request may fail for many reasons: the      *)
(* entry is missing, expired or unsafe, its path too long, no link can be  *)
(* made.                                                                   *)
GiveUp ==
    /\ reconcile # "clear"
    /\ opening' = FALSE
    /\ request' = [cmd |-> NoCommand, at |-> "idle"]

PinEntry ==
    /\ request.at = "pin"
    /\ LET w == WorkspaceOf[request.cmd] IN
       \/ /\ Usable(w)
          /\ leases' = [leases EXCEPT ![w] = @ + 1]
          /\ request' = [request EXCEPT !.at = "stage"]
          /\ UNCHANGED opening
       \/ GiveUp /\ UNCHANGED leases
    /\ UNCHANGED <<allNmlVars, active, stored, overdue, recovered, orphans,
                   linkVars, ownerVars, callback, reconcile, file, peekedFile, crashes>>

Stage ==
    /\ request.at = "stage"
    /\ LET c == request.cmd IN
       \/ /\ Usable(WorkspaceOf[c])
          /\ staging' = [staging EXCEPT ![c] = WorkspaceOf[c]]
          /\ txn' = [txn EXCEPT ![c] = "staged"]
          /\ holders' = [holders EXCEPT ![c] = {"item"}]
          /\ request' = [request EXCEPT !.at = "submit"]
          /\ UNCHANGED <<opening, leases>>
       \/ /\ GiveUp
          /\ leases' = Unpinned(leases, WorkspaceOf[c])
          /\ UNCHANGED <<staging, txn, holders>>
    /\ UNCHANGED <<allNmlVars, active, stored, overdue, recovered, orphans, link,
                   releases, dying, retired, callback, reconcile, file,
                   peekedFile, crashes>>

SubmitOpen ==
    /\ request.at = "submit"
    /\ NmlSubmit(request.cmd)
    /\ request' = [cmd |-> NoCommand, at |-> "idle"]
    /\ UNCHANGED <<opening, active, storeVars, linkVars, ownerVars, callback,
                   reconcile, file, peekedFile, crashes>>

(* The status is unavailable, the queue is full or stopped: the command is *)
(* destroyed unqueued.                                                     *)
RefuseOpen ==
    /\ request.at = "submit"
    /\ Drop(request.cmd, "item")
    /\ request' = [cmd |-> NoCommand, at |-> "idle"]
    /\ UNCHANGED <<allNmlVars, active, stored, overdue, recovered, orphans,
                   releases, dying, retired, callback, reconcile, file,
                   peekedFile, crashes>>

SubmitClose(c) ==
    /\ ClientsWait => Quiet
    /\ NmlSubmit(c)
    /\ UNCHANGED activationVars

-----------------------------------------------------------------------------
(* The command worker.                                                     *)
(* prepare: the exchange that makes the staged workspace the program.      *)
PrepareProgram ==
    /\ Prepare
    /\ IF running \in OpenCommands
       THEN Exchanged(running) /\ txn' = [txn EXCEPT ![running] = "committed"]
       ELSE UNCHANGED linkVars
    /\ UNCHANGED <<request, opening, active, storeVars, ownerVars, callback,
                   reconcile, file, peekedFile, crashes>>

ThrowProgram ==
    /\ NmlThrow
    /\ IF running \in OpenCommands THEN Rollback(running) ELSE UNCHANGED linkVars
    /\ dying' = IF running \in OpenCommands THEN running ELSE NoCommand
    /\ UNCHANGED <<request, opening, active, storeVars, holders, releases, retired,
                   callback, reconcile, file, peekedFile, crashes>>

TrackProgram ==
    /\ Track
    /\ IF running \in OpenCommands
       THEN holders' = [holders EXCEPT ![running] = @ \cup {"tracker"}]
       ELSE UNCHANGED holders
    /\ UNCHANGED <<request, opening, active, storeVars, linkVars, releases, dying,
                   retired, callback, reconcile, file, peekedFile, crashes>>

(* The tracker's entry is destroyed with track()'s frame; the queue item   *)
(* still holds the lease.                                                  *)
FailProgramNow ==
    /\ FailNow
    /\ IF running \in OpenCommands
       THEN /\ Rollback(running)
            /\ holders' = [holders EXCEPT ![running] = @ \ {"tracker"}]
       ELSE UNCHANGED <<linkVars, holders>>
    /\ UNCHANGED <<request, opening, active, storeVars, releases, dying, retired,
                   callback, reconcile, file, peekedFile, crashes>>

ReturnProgram ==
    /\ NmlReturn
    /\ dying' = IF running \in OpenCommands THEN running ELSE NoCommand
    /\ UNCHANGED <<request, opening, active, storeVars, linkVars, holders, releases,
                   retired, callback, reconcile, file, peekedFile, crashes>>

(* The end of run()'s loop body destroys the queue item.                   *)
DropItem ==
    /\ dying # NoCommand
    /\ Drop(dying, "item")
    /\ dying' = NoCommand
    /\ UNCHANGED <<allNmlVars, request, active, stored, overdue, recovered, orphans,
                   releases, retired, callback, reconcile, file,
                   peekedFile, crashes>>

WorkerProgramStep ==
    \/ PrepareProgram \/ ThrowProgram \/ TrackProgram \/ FailProgramNow
    \/ ReturnProgram \/ DropItem
    \/ /\ NmlTake /\ dying = NoCommand
       /\ UNCHANGED activationVars
    \/ /\ WriteClose \/ Write \/ NmlAccept \/ NmlDefer
       /\ UNCHANGED activationVars

-----------------------------------------------------------------------------
(* The polling thread.  Entries taken from the tracker live until the last *)
(* callback of the poll has returned.                                      *)
Retire ==
    retired' = {c \in OpenCommands :
                  \E i \in 1 .. Len(finishing') : finishing'[i].cmd = c}

PeekProgram ==
    /\ Peek
    /\ peekedFile' = file
    /\ UNCHANGED <<request, opening, active, storeVars, linkVars, ownerVars,
                   callback, reconcile, file, crashes>>

PollProgram ==
    /\ \/ ObserveStatus /\ reconcile' = "due"
       \/ (Tick \/ Disconnect) /\ UNCHANGED reconcile
    /\ Retire
    /\ UNCHANGED <<request, opening, active, storeVars, linkVars, holders, releases,
                   dying, callback, file, peekedFile, crashes>>

Completing(c) ==
    finishing # <<>> /\ Head(finishing).cmd = c /\ Head(finishing).how = "Completed"

(* on_completed of an open: complete the transaction, ...                  *)
CompleteOpenUnmarked(c) ==  \* mutant: the transaction is left to its destructor
    /\ Completing(c) /\ callback = "none"
    /\ callback' = "release"
    /\ UNCHANGED <<allNmlVars, request, opening, active, storeVars, linkVars,
                   ownerVars, reconcile, file, peekedFile, crashes>>
CompleteOpen(c) ==
    /\ Completing(c) /\ callback = "none"
    /\ txn' = [txn EXCEPT ![c] = IF @ = "committed" THEN "closed" ELSE @]
    /\ callback' = "release"
    /\ UNCHANGED <<allNmlVars, request, opening, active, storeVars, link, staging,
                   ownerVars, reconcile, file, peekedFile, crashes>>

(* ... release what a crash left pinned (a close starts here), ...         *)
ReleaseInCallback(c) ==
    /\ Completing(c)
    /\ callback = IF c \in OpenCommands THEN "release" ELSE "none"
    /\ ReleaseRecovered
    /\ callback' = "activate"
    /\ UNCHANGED <<allNmlVars, request, opening, active, stored, overdue, link, txn,
                   ownerVars, reconcile, file, peekedFile, crashes>>

(* ... and turn the pending lease into the active one.                     *)
ActivateKeepsOld(c) ==  \* mutant: the previous program stays pinned
    /\ Completing(c) /\ callback = "activate"
    /\ opening' = FALSE
    /\ IF active = WorkspaceOf[c]
       THEN UNCHANGED <<releases, leases, active>>
       ELSE /\ releases' = [releases EXCEPT ![c] = FALSE]
            /\ active' = WorkspaceOf[c]
            /\ UNCHANGED leases
    /\ callback' = "settle"
    /\ UNCHANGED <<allNmlVars, request, stored, overdue, recovered, orphans, linkVars,
                   holders, dying, retired, reconcile, file, peekedFile, crashes>>
Activate(c) ==
    /\ Completing(c) /\ callback = "activate"
    /\ opening' = FALSE
    /\ IF active = WorkspaceOf[c]
       THEN UNCHANGED <<releases, leases, active>>
       ELSE /\ releases' = [releases EXCEPT ![c] = FALSE]
            /\ leases' = IF active = None THEN leases ELSE Unpinned(leases, active)
            /\ active' = WorkspaceOf[c]
    /\ callback' = "settle"
    /\ UNCHANGED <<allNmlVars, request, stored, overdue, recovered, orphans, linkVars,
                   holders, dying, retired, reconcile, file, peekedFile, crashes>>

(* on_completed of a close: drop the active lease, then clear the link     *)
(* outside the lock.                                                       *)
Deactivate(c) ==
    /\ Completing(c) /\ callback = "activate"
    /\ leases' = IF active = None THEN leases ELSE Unpinned(leases, active)
    /\ active' = None
    /\ callback' = "clear"
    /\ UNCHANGED <<allNmlVars, request, opening, stored, overdue, recovered, orphans,
                   linkVars, ownerVars, reconcile, file, peekedFile, crashes>>

ClearLink(c) ==
    /\ Completing(c) /\ callback = "clear"
    /\ link' = Empty
    /\ callback' = "settle"
    /\ UNCHANGED <<allNmlVars, request, opening, active, storeVars, staging, txn,
                   ownerVars, reconcile, file, peekedFile, crashes>>

FinishProgram ==
    /\ Finish
    /\ LET c == Head(finishing).cmd IN
       IF Head(finishing).how = "Completed"
       THEN callback = "settle" /\ UNCHANGED linkVars
       ELSE IF c \in OpenCommands THEN Rollback(c) ELSE UNCHANGED linkVars
    /\ callback' = "none"
    /\ UNCHANGED <<request, opening, active, storeVars, ownerVars, reconcile, file,
                   peekedFile, crashes>>

DropRetired(c) ==
    /\ finishing = <<>> /\ c \in retired
    /\ Drop(c, "tracker")
    /\ retired' = retired \ {c}
    /\ UNCHANGED <<allNmlVars, request, active, stored, overdue, recovered, orphans,
                   releases, dying, callback, reconcile, file,
                   peekedFile, crashes>>

(* observe_status: when LinuxCNC has no program open and none is being     *)
(* opened, drop the active lease and clear the link, both under the lock.  *)
NoProgramSeen == peekedFile = None  \* mutant: `opening' is not looked at
NoProgram == peekedFile = None /\ ~opening

Reconcile ==
    /\ reconcile = "due" /\ finishing = <<>> /\ retired = {}
    /\ IF NoProgram
       THEN /\ leases' = IF active = None THEN WithoutRecovered
                         ELSE Unpinned(WithoutRecovered, active)
            /\ recovered' = {}
            /\ orphans' = {}
            /\ staging' = [c \in OpenCommands |->
                             IF c \in orphans THEN None ELSE staging[c]]
            /\ active' = None
            /\ reconcile' = IF recovered # {} \/ active # None THEN "clear" ELSE "none"
       ELSE /\ reconcile' = "none"
            /\ UNCHANGED <<leases, recovered, orphans, staging, active>>
    /\ UNCHANGED <<allNmlVars, request, opening, stored, overdue, link, txn, ownerVars,
                   callback, file, peekedFile, crashes>>

ReconcileClear ==
    /\ reconcile = "clear"
    /\ link' = Empty
    /\ reconcile' = "none"
    /\ UNCHANGED <<allNmlVars, request, opening, active, storeVars, staging, txn,
                   ownerVars, callback, file, peekedFile, crashes>>

PollerProgramStep ==
    \/ PeekProgram \/ PollProgram \/ FinishProgram
    \/ \E c \in OpenCommands : CompleteOpen(c) \/ Activate(c) \/ DropRetired(c)
    \/ \E c \in CloseCommands : Deactivate(c) \/ ClearLink(c)
    \/ \E c \in Commands : ReleaseInCallback(c)
    \/ Reconcile \/ ReconcileClear
    \/ /\ PollLoop /\ retired = {} /\ reconcile = "none"
       /\ UNCHANGED activationVars

-----------------------------------------------------------------------------
(* LinuxCNC (external): an open reads the program through the link, and    *)
(* may fail; every other message of this model closes the program.         *)
ReceiveProgram ==
    /\ Receive
    /\ file' \in IF Head(inbox).cmd \in OpenCommands
                 THEN ({link} \cap stored) \cup {None}
                 ELSE {None}
    /\ UNCHANGED <<request, opening, active, storeVars, linkVars, ownerVars, callback,
                   reconcile, peekedFile, crashes>>

ConcludeProgram ==
    /\ \E r \in {"DONE", "ERROR"} :
         /\ Conclude(r)
         /\ (\E c \in OpenCommands : serial[c] = status.echo)
              => (r = "DONE" <=> file # None)
    /\ UNCHANGED activationVars

LinuxCNCProgramStep ==
    \/ ReceiveProgram
    \/ ConcludeProgram
    \/ (Publish \/ ForeignWrite) /\ UNCHANGED activationVars

-----------------------------------------------------------------------------
(* Expiry, prune_expired, and erase.                                       *)
ExpireWorkspace(w) ==
    /\ w \in Expiring \ overdue
    /\ overdue' = overdue \cup {w}
    /\ UNCHANGED <<allNmlVars, request, opening, active, stored, leases, recovered,
                   orphans, linkVars, ownerVars, callback, reconcile, file,
                   peekedFile, crashes>>

Removable(w) == w \in stored /\ leases[w] = 0
PruneExpired ==
    /\ \E w \in overdue : Removable(w)
    /\ stored' = stored \ {w \in overdue : Removable(w)}
    /\ UNCHANGED <<allNmlVars, request, opening, active, overdue, leases, recovered,
                   orphans, linkVars, ownerVars, callback, reconcile, file,
                   peekedFile, crashes>>

EraseWorkspace(w) ==
    /\ w \in Expiring /\ Removable(w)
    /\ stored' = stored \ {w}
    /\ UNCHANGED <<allNmlVars, request, opening, active, overdue, leases, recovered,
                   orphans, linkVars, ownerVars, callback, reconcile, file,
                   peekedFile, crashes>>

(* The daemon dies and starts again.  The links and workspaces stay, and   *)
(* so does LinuxCNC; the constructor of the store pins what the active and *)
(* the interrupted exchange links point to and removes every other link.   *)
RecoverNothing == {}  \* mutant: links are kept but nothing is pinned
Recovered == ({link} \cup {staging[c] : c \in OpenCommands}) \cap stored

Crash ==
    /\ crashes < Crashes
    /\ crashes' = crashes + 1
    /\ queue' = <<>> /\ safetyQueue' = <<>> /\ stopping' = FALSE /\ nextSequence' = 1
    /\ ticket' = [c \in Commands |-> "Unsubmitted"]
    /\ sequence' = [c \in Commands |-> 0]
    /\ worker' = "waiting" /\ running' = NoCommand /\ deferred' = {}
    /\ observer' = [o \in Observers |-> IdleObserver]
    /\ halting' = FALSE /\ cancelled' = [c \in Commands |-> "no"] /\ stage' = "idle"
    /\ pending' = <<>> /\ observed' = {} /\ healthy' = FALSE /\ expired' = {}
    /\ poller' = "top" /\ finishing' = <<>>
    /\ request' = [cmd |-> NoCommand, at |-> "idle"]
    /\ opening' = FALSE
    /\ active' = None
    /\ recovered' = Recovered
    /\ leases' = [w \in Workspaces |-> IF w \in Recovered THEN 1 ELSE 0]
    /\ orphans' = {c \in OpenCommands : staging[c] \in stored}
    /\ staging' = [c \in OpenCommands |-> IF staging[c] \in stored THEN staging[c] ELSE None]
    /\ link' = IF link \in stored THEN link ELSE Empty
    /\ txn' = [c \in OpenCommands |-> IF txn[c] = "none" THEN "none" ELSE "closed"]
    /\ holders' = [c \in OpenCommands |-> {}]
    /\ releases' = [c \in OpenCommands |-> TRUE]
    /\ dying' = NoCommand /\ retired' = {} /\ callback' = "none" /\ reconcile' = "none"
    /\ UNCHANGED <<serial, linuxcncVars, latest, peeked, stored, overdue, file,
                   peekedFile>>

-----------------------------------------------------------------------------
(* A request cancelled in the queue is not a step of its own here: its     *)
(* command throws where one whose preparation fails does.                  *)
ProgramNext ==
    \/ \E c \in OpenCommands : AdmitOpen(c) \/ Cleanup(c)
    \/ PinEntry \/ Stage \/ SubmitOpen \/ RefuseOpen
    \/ \E c \in CloseCommands : SubmitClose(c)
    \/ \E c \in Commands : Expire(c) /\ UNCHANGED activationVars
    \/ WorkerProgramStep
    \/ PollerProgramStep
    \/ LinuxCNCProgramStep
    \/ \E w \in Workspaces : ExpireWorkspace(w) \/ EraseWorkspace(w)
    \/ PruneExpired
    \/ Crash

ProgramSpec == ProgramInit /\ [][ProgramNext]_programVars

(* The threads of the daemon run, and LinuxCNC's task loop does.           *)
ProgramFairness ==
    /\ WF_programVars(PinEntry \/ Stage \/ SubmitOpen)
    /\ WF_programVars(WorkerProgramStep)
    /\ WF_programVars(PollerProgramStep)
    /\ WF_programVars(ReceiveProgram)
    /\ WF_programVars(ConcludeProgram)
    /\ WF_programVars(Publish /\ UNCHANGED activationVars)

FairProgramSpec == ProgramSpec /\ ProgramFairness

-----------------------------------------------------------------------------
(* The open requests that own a lease of their own on w.                   *)
Pinning(w) ==
    {c \in OpenCommands :
       /\ WorkspaceOf[c] = w
       /\ \/ request = [cmd |-> c, at |-> "stage"]
          \/ holders[c] # {} /\ releases[c]}

(* Leases are neither leaked nor given back twice, whichever of the four   *)
(* threads fails, finishes last or reconciles: a workspace's count is the  *)
(* number of those who rely on it.                                         *)
LeasesAccountedFor ==
    \A w \in Workspaces :
        leases[w] = Cardinality(Pinning(w))
                    + (IF active = w THEN 1 ELSE 0)
                    + (IF w \in recovered THEN 1 ELSE 0)

(* "The previous link and both workspace leases are retained until         *)
(* LinuxCNC accepts the open": as long as an open's exchange is neither    *)
(* final nor undone, the link points to its workspace, and both that       *)
(* workspace and the previous one are pinned.                              *)
ExchangeRetained ==
    \A c \in OpenCommands :
        txn[c] = "committed" =>
            /\ link = WorkspaceOf[c]
            /\ leases[WorkspaceOf[c]] > 0
            /\ staging[c] \in Workspaces => leases[staging[c]] > 0

(* "The caller serializes transactions that target the same path": at most *)
(* one open has a transaction that is staged or exchanged.                 *)
OneTransaction ==
    \A c, d \in OpenCommands :
        txn[c] \in {"staged", "committed"} /\ txn[d] \in {"staged", "committed"}
            => c = d

(* Between requests the link is where the service believes it is: opens    *)
(* and closes that fail, time out or lose the status channel leave it at   *)
(* the active program, or at the empty directory when there is none.       *)
LinkMatchesActive ==
    Quiet /\ reconcile # "clear" /\ recovered = {} =>
        link = IF active = None THEN Empty ELSE active

(* The pruner never deletes what the link points to, after a crash and     *)
(* recovery too: the target is pinned unless the link is being cleared.    *)
LinkTargetPinned ==
    link \in Workspaces =>
        \/ leases[link] > 0
        \/ reconcile = "clear"
        \/ callback \in {"activate", "clear"} /\ Head(finishing).cmd \in CloseCommands

(* An open given up after it was sent: LinuxCNC may still execute it       *)
(* although it failed (no answer in time, or no status channel), or        *)
(* although the daemon that sent it died.                                  *)
GivenUp(c) == serial[c] # NoSerial /\ (ticket[c] = "Failed" \/ crashes > 0)

(* The program LinuxCNC has open is not deleted under it, whoever closes,  *)
(* replaces or prunes meanwhile: its workspace is in the store, as long as *)
(* no open was given up after it was sent.                                *)
OpenProgramKept ==
    \/ file \in stored \cup {None}
    \/ \E c \in OpenCommands : GivenUp(c)

(* An open, however it ends, makes room for the next: `opening' does not   *)
(* stay set, or every later open would be refused as already pending.      *)
OpeningEnds == opening ~> ~opening

=============================================================================
