----------------------------- MODULE FileStore -----------------------------
(***************************************************************************)
(* What the storage network promises to the users of `aldea put` and       *)
(* `aldea get`, without nodes, shards or requests: a file is stored        *)
(* completely or not at all, stays stored, and a download that succeeds    *)
(* delivers a stored file in full.  An upload that reports an error may    *)
(* nevertheless have stored the file.                                      *)
(***************************************************************************)
CONSTANTS Files, Readers

VARIABLES
    catalog,            \* files that are stored and recoverable
    upload,             \* upload[f]: what the uploading command knows
    download            \* download[r]: state of a download and its file

fileStoreVars == <<catalog, upload, download>>

Running(f) == [status |-> "running", file |-> f]
Succeeded(f) == [status |-> "ok", file |-> f]
NotStarted == [status |-> "idle", file |-> "none"]

Init == /\ catalog = {}
        /\ upload = [f \in Files |-> "new"]
        /\ download = [r \in Readers |-> NotStarted]

StartUpload(f) == /\ upload[f] = "new"
                  /\ upload' = [upload EXCEPT ![f] = "running"]
                  /\ UNCHANGED <<catalog, download>>

\* The file becomes available as the upload succeeds, or after it gave up.
Commit(f) == /\ f \notin catalog
             /\ catalog' = catalog \cup {f}
             /\ \/ upload[f] = "running" /\ upload' = [upload EXCEPT ![f] = "ok"]
                \/ upload[f] = "error" /\ UNCHANGED upload
             /\ UNCHANGED download

FailUpload(f) == /\ upload[f] = "running"
                 /\ upload' = [upload EXCEPT ![f] = "error"]
                 /\ UNCHANGED <<catalog, download>>

StartDownload(r, f) == /\ download[r] = NotStarted
                       /\ f \in catalog
                       /\ download' = [download EXCEPT ![r] = Running(f)]
                       /\ UNCHANGED <<catalog, upload>>

Deliver(r, f) == /\ download[r] = Running(f)
                 /\ f \in catalog
                 /\ download' = [download EXCEPT ![r] = Succeeded(f)]
                 /\ UNCHANGED <<catalog, upload>>

\* A download may fail at any time, also for a file that is not stored.
FailDownload(r, f) == /\ download[r] \in {NotStarted, Running(f)}
                      /\ download' = [download EXCEPT ![r] = [status |-> "error", file |-> f]]
                      /\ UNCHANGED <<catalog, upload>>

Next == \/ \E f \in Files : StartUpload(f) \/ Commit(f) \/ FailUpload(f)
        \/ \E r \in Readers, f \in Files :
              StartDownload(r, f) \/ Deliver(r, f) \/ FailDownload(r, f)

Spec == Init /\ [][Next]_fileStoreVars
=============================================================================
