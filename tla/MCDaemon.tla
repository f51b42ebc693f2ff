------------------------------- MODULE MCDaemon -------------------------------
(***************************************************************************)
(* The commands over NML, the admission counter, the end of the daemon     *)
(* around its calls, the remote components and the uploads, on small       *)
(* instances.  They share no state that a property is about, so in each    *)
(* behaviour here one of them runs and the others stay where they start.   *)
(***************************************************************************)
EXTENDS NmlCommands, AdmissionCounter, ServerShutdown, RemoteComponent, Uploads

Entry(name, kind, size) == [name |-> name, kind |-> kind, size |-> size]

\* Archives that fit, one that is too large, one with a duplicate, one with a link.
ArchivesDef ==
    {<<Entry("a", "file", 1)>>,
     <<Entry("a", "dir", 0), Entry("b", "file", 2)>>,
     <<Entry("a", "file", 1), Entry("b", "file", 2)>>,
     <<Entry("a", "file", 1), Entry("a", "file", 1)>>,
     <<Entry("a", "link", 0)>>}

VARIABLE turn   \* the one that runs

daemonVars == <<turn, allNmlVars, admissionVars, serverVars, remoteVars, uploadVars>>

DaemonInit ==
    /\ turn \in {"nml", "admission", "server", "remote", "uploads"}
    /\ NmlInit /\ AdmissionInit /\ ServerInit /\ RemoteInit /\ UploadInit

DaemonNext ==
    /\ UNCHANGED turn
    /\ \/ turn = "nml" /\ NmlNext /\ UNCHANGED <<admissionVars, serverVars, remoteVars, uploadVars>>
       \/ turn = "admission" /\ AdmissionNext /\ UNCHANGED <<allNmlVars, serverVars, remoteVars, uploadVars>>
       \/ turn = "server" /\ ServerNext /\ UNCHANGED <<allNmlVars, admissionVars, remoteVars, uploadVars>>
       \/ turn = "remote" /\ RemoteNext /\ UNCHANGED <<allNmlVars, admissionVars, serverVars, uploadVars>>
       \/ turn = "uploads" /\ UploadNext /\ UNCHANGED <<allNmlVars, admissionVars, serverVars, remoteVars>>

DaemonSpec == DaemonInit /\ [][DaemonNext]_daemonVars
=============================================================================
