------------------------------- MODULE Uploads -------------------------------
(***************************************************************************)
(* UploadWorkspace and DeleteWorkspace (program/grpc/service.cc) over the  *)
(* workspace store (program/workspace.cc) and the archive extractor        *)
(* (program/workspace_archive.cc).  Uploads are spooled and extracted in   *)
(* one staging directory, so one of them is admitted at a time; a finished *)
(* revision is renamed into the store.  The daemon may crash at any point, *)
(* and its successor rebuilds the store from the directories it finds.     *)
(*                                                                         *)
(* The calls are synchronous, each on a thread of its own; a step ends     *)
(* where another call, the clock or a crash can make a difference.  An     *)
(* archive is the sequence of its entries, and its n-th chunk holds its    *)
(* n-th entry.  The expiry of a workspace is kept as the modification time *)
(* of its directory, which the removal of a direct entry moves to the      *)
(* present.  Whether a workspace is leased is kept, not how often: the     *)
(* counting is the subject of ProgramActivation.                           *)
(***************************************************************************)
EXTENDS Naturals, Sequences, FiniteSets, SequencesExt, FiniteSetsExt

CONSTANTS Archives,                      \* the archives that clients upload
          UploadCalls,                   \* their calls
          Ids,                           \* workspace ids
          MaxEntries, MaxBytes,          \* limits of one workspace
          MaxWorkspaces, MaxTotalBytes,  \* limits of the store
          MaxCrashes                     \* bound

VARIABLES upload,    \* the UploadWorkspace calls
          uploading, \* upload_admission, whose limit is 1
          staging,   \* on disk: the directory .uploads/current
          disk,      \* on disk: the workspace directories
          store,     \* workspaces_
          crashes

uploadVars == <<upload, uploading, staging, disk, store, crashes>>

None == [of |-> "none"]
NoUpload == [at |-> "new", archive |-> <<>>, chunks |-> 0, done |-> 0]
NoStaging == [of |-> "none", spooled |-> <<>>, revision |-> <<>>]

UploadInit ==
    /\ upload = [u \in UploadCalls |-> NoUpload]
    /\ uploading = 0
    /\ staging = NoStaging
    /\ disk = [i \in Ids |-> None]
    /\ store = [i \in Ids |-> None]
    /\ crashes = 0

Size(entries) == FoldLeft(LAMBDA sum, e : sum + e.size, 0, entries)
Listed == {i \in Ids : store[i] # None}
TotalSize == FoldSet(LAMBDA i, sum : sum + store[i].bytes, 0, Listed)

UploadGoes(u, step) == upload' = [upload EXCEPT ![u].at = step]

-----------------------------------------------------------------------------
(* Removal *)

\* What a removal that does not finish leaves.
Leftovers(d) ==
    {[d EXCEPT !.entries = SubSeq(@, 1, n), !.begun = TRUE, !.expired = @ \/ touched] :
        n \in 0..Len(d.entries), touched \in BOOLEAN}

Stale == {i \in Listed : store[i].leases = 0 /\ store[i].expired}

\* The directory of each workspace goes and then its entry, or, with an error,
\* the entry stays.
RemoveAll(gone) ==
    \E failed \in SUBSET gone :
        /\ store' = [i \in Ids |-> IF i \in gone \ failed THEN None ELSE store[i]]
        /\ disk' \in {[i \in Ids |-> IF i \in failed THEN left[i] ELSE IF i \in gone THEN None ELSE disk[i]] :
                        left \in {f \in [failed -> UNION {Leftovers(disk[i]) : i \in failed}] :
                                    \A i \in failed : f[i] \in Leftovers(disk[i])}}

\* DeleteWorkspace: prune_expired and erase.
DeleteWorkspace(i) ==
    /\ RemoveAll(Stale \cup {j \in Listed : j = i /\ store[j].leases = 0})
    /\ UNCHANGED <<upload, uploading, staging, crashes>>

-----------------------------------------------------------------------------
(* Leases and time *)

PinWorkspace(i) ==
    /\ i \in Listed /\ store[i].leases = 0 /\ ~store[i].expired
    /\ store' = [store EXCEPT ![i].leases = 1]
    /\ UNCHANGED <<upload, uploading, staging, disk, crashes>>

UnpinWorkspace(i) ==
    /\ i \in Listed /\ store[i].leases > 0
    /\ store' = [store EXCEPT ![i].leases = 0]
    /\ UNCHANGED <<upload, uploading, staging, disk, crashes>>

\* The time to live of a workspace passes.
Expires(i) ==
    /\ i \in Listed /\ ~store[i].expired
    /\ disk' = [disk EXCEPT ![i].expired = TRUE]
    /\ store' = [store EXCEPT ![i].expired = TRUE]
    /\ UNCHANGED <<upload, uploading, staging, crashes>>

-----------------------------------------------------------------------------
(* UploadWorkspace *)

\* Mutant: the admission has room for two.
AdmitUploadTwo(u) ==
    /\ upload[u].at = "new"
    /\ IF uploading < 2
       THEN /\ uploading' = uploading + 1
            /\ \E archive \in Archives :
                 upload' = [upload EXCEPT ![u].archive = archive, ![u].at = "open"]
       ELSE UploadGoes(u, "ended") /\ UNCHANGED uploading
    /\ UNCHANGED <<staging, disk, store, crashes>>

\* UploadSlot, and the test of the deadline.
AdmitUpload(u) ==
    /\ upload[u].at = "new"
    /\ IF uploading < 1
       THEN /\ uploading' = uploading + 1
            /\ \E archive \in Archives, step \in {"open", "release"} :
                 upload' = [upload EXCEPT ![u].archive = archive, ![u].at = step]
       ELSE UploadGoes(u, "ended") /\ UNCHANGED uploading
    /\ UNCHANGED <<staging, disk, store, crashes>>

\* prune_expired; then StagedArchive::open, which removes what an earlier
\* upload left.
OpenStaging(u) ==
    /\ upload[u].at = "open"
    /\ RemoveAll(Stale)
    /\ \/ staging' = [NoStaging EXCEPT !.of = u] /\ UploadGoes(u, "read")
       \/ UploadGoes(u, "cleanup") /\ UNCHANGED staging
    /\ UNCHANGED <<uploading, crashes>>

\* A chunk that is within the quota is appended.  The descriptor of a file that
\* was removed takes it all the same.
SpoolChunk(u) ==
    LET x == upload[u] IN
    /\ x.at = "read" /\ x.chunks < Len(x.archive) /\ x.chunks < MaxBytes
    /\ upload' = [upload EXCEPT ![u].chunks = @ + 1]
    /\ staging' = IF staging.of = u
                  THEN [staging EXCEPT !.spooled = Append(@, x.archive[x.chunks + 1])]
                  ELSE staging
    /\ UNCHANGED <<uploading, disk, store, crashes>>

\* The client ends its stream, perhaps early; the revision's directory is made
\* and the archive opened by its path.
EndStream(u) ==
    /\ upload[u].at = "read" /\ upload[u].chunks > 0
    /\ UploadGoes(u, IF staging.of = "none" THEN "cleanup" ELSE "extract")
    /\ UNCHANGED <<uploading, staging, disk, store, crashes>>

\* extract_workspace_archive's tests of an entry.
EntryFits(done, e) ==
    /\ Len(done) < MaxEntries
    /\ \A i \in DOMAIN done : done[i].name # e.name
    /\ e.kind \in {"file", "dir"}
    /\ Size(done) + e.size <= MaxBytes

\* One entry of the spooled archive.
ExtractEntry(u) ==
    LET x == upload[u] IN
    /\ x.at = "extract" /\ x.done < Len(staging.spooled)
    /\ IF EntryFits(SubSeq(staging.spooled, 1, x.done), staging.spooled[x.done + 1])
       THEN /\ staging' = [staging EXCEPT !.revision = Append(@, staging.spooled[x.done + 1])]
            /\ upload' = [upload EXCEPT ![u].done = @ + 1]
       ELSE UploadGoes(u, "cleanup") /\ UNCHANGED staging
    /\ UNCHANGED <<uploading, disk, store, crashes>>

\* The archive's last entry is done; one that breaks off is invalid.
Extracted(u) ==
    /\ upload[u].at = "extract" /\ upload[u].done >= Len(staging.spooled)
    /\ UploadGoes(u, IF staging.of \in UploadCalls /\ staging.spooled = upload[staging.of].archive
                     THEN "publish" ELSE "cleanup")
    /\ UNCHANGED <<uploading, staging, disk, store, crashes>>

WithinQuota(revision) ==
    /\ Size(revision) <= MaxBytes /\ Len(revision) <= MaxEntries
    /\ Cardinality(Listed) < MaxWorkspaces
    /\ TotalSize + Size(revision) <= MaxTotalBytes

\* publish_revision, under the store's mutex: the rename, then the new entry.
PublishRevision(u) ==
    /\ upload[u].at = "publish"
    /\ IF staging.of = "none" \/ ~WithinQuota(staging.revision)
       THEN UNCHANGED <<staging, disk, store>>
       ELSE \E i \in Ids :
              /\ disk[i] = None
              /\ disk' = [disk EXCEPT ![i] = [of |-> u, entries |-> staging.revision,
                                              expired |-> FALSE, begun |-> FALSE]]
              /\ store' = [store EXCEPT ![i] = [of |-> u, bytes |-> Size(staging.revision),
                                                expired |-> FALSE, leases |-> 0]]
              /\ staging' = [staging EXCEPT !.revision = <<>>]
    /\ UploadGoes(u, "cleanup")
    /\ UNCHANGED <<uploading, crashes>>

\* A cancelled call, a refused chunk, an empty upload, a failing read, write or
\* rename.
AbandonUpload(u) ==
    /\ upload[u].at \in {"read", "extract", "publish"}
    /\ UploadGoes(u, "cleanup")
    /\ UNCHANGED <<uploading, staging, disk, store, crashes>>

\* ~StagedArchive, whose errors are ignored.
RemoveStaging(u) ==
    /\ upload[u].at = "cleanup"
    /\ staging' \in {staging, NoStaging}
    /\ UploadGoes(u, "release")
    /\ UNCHANGED <<uploading, disk, store, crashes>>

\* ~UploadSlot.
ReleaseSlot(u) ==
    /\ upload[u].at = "release"
    /\ uploading' = uploading - 1
    /\ UploadGoes(u, "ended")
    /\ UNCHANGED <<staging, disk, store, crashes>>

-----------------------------------------------------------------------------

\* The daemon dies, perhaps while it removes a workspace, and starts again: the
\* staging is removed, and every directory is listed with its present size and
\* expiry.  A workspace that the active link names is leased again.
Restart ==
    /\ crashes < MaxCrashes
    /\ crashes' = crashes + 1
    /\ upload' = [u \in UploadCalls |->
                    IF upload[u].at = "new" THEN NoUpload ELSE [NoUpload EXCEPT !.at = "ended"]]
    /\ uploading' = 0
    /\ staging' = NoStaging
    /\ \/ UNCHANGED disk
       \/ \E i \in Listed : /\ store[i].leases = 0
                            /\ \E left \in Leftovers(disk[i]) : disk' = [disk EXCEPT ![i] = left]
    /\ \E linked \in SUBSET {i \in Listed : store[i].leases > 0} :
         store' = [i \in Ids |->
                     IF disk'[i] = None THEN None
                     ELSE [of |-> disk'[i].of, bytes |-> Size(disk'[i].entries), expired |-> disk'[i].expired,
                           leases |-> IF i \in linked THEN 1 ELSE 0]]

UploadNext ==
    \/ \E u \in UploadCalls :
         \/ AdmitUpload(u) \/ OpenStaging(u) \/ SpoolChunk(u) \/ EndStream(u)
         \/ ExtractEntry(u) \/ Extracted(u) \/ PublishRevision(u)
         \/ AbandonUpload(u) \/ RemoveStaging(u) \/ ReleaseSlot(u)
    \/ \E i \in Ids : DeleteWorkspace(i) \/ PinWorkspace(i) \/ UnpinWorkspace(i) \/ Expires(i)
    \/ Restart

UploadSpec == UploadInit /\ [][UploadNext]_uploadVars

-----------------------------------------------------------------------------

\* Every workspace that the store lists is the whole extraction of an archive
\* that its own call uploaded, within the limits of a workspace, and together
\* they are within the quota, whatever was cancelled, refused or lost in a crash
\* meanwhile.  Only one whose removal was begun and failed may be listed in part.
RevisionsAreWhole ==
    /\ \A i \in Listed :
         \/ disk[i].begun
         \/ /\ disk[i].entries \in Archives
            /\ upload[disk[i].of].archive \in {<<>>, disk[i].entries}
            /\ Len(disk[i].entries) <= MaxEntries /\ Size(disk[i].entries) <= MaxBytes
    /\ Cardinality(Listed) <= MaxWorkspaces
    /\ TotalSize <= MaxTotalBytes

=============================================================================
