------------------------------ MODULE Desktop ------------------------------
(***************************************************************************)
(* The files and settings of the desktop application (gui/app.go, App);    *)
(* its networks and invites are in module Invite.                          *)
(*                                                                         *)
(* Every method holds the application's mutex throughout, so a call is one *)
(* step.  UploadFile generates contents, codes them and writes every shard *)
(* to the data directory; it may fail at any shard.  The list of files is  *)
(* in memory only, the shards are not.  Sizes are in units of which a      *)
(* chunk has UploadChunk; encryption is left out.                          *)
(***************************************************************************)
EXTENDS Erasure, Sequences

CONSTANTS
    UploadSizes,        \* sizes passed to UploadFile
    UploadChunk,        \* chunk size (4 MB in the code)
    DefaultSize,        \* size used when none is given (1 MB)
    DefaultAllocation,  \* 5 GB
    Allocations,        \* values passed to SetStorageAllocation
    MaxUploads          \* bound on the uploads

ASSUME DesktopAssumption ==
    /\ UploadSizes \subseteq Int /\ Allocations \subseteq Int
    /\ UploadChunk \in Nat \ {0} /\ DefaultSize \in Nat \ {0}
    /\ DefaultAllocation \in Nat \ {0} /\ MaxUploads \in Nat

VARIABLES
    appFiles,           \* a.files: the files listed, oldest first
    shardsDir,          \* the shards in the data directory
    uploads,            \* identifiers used, file-<nanoseconds>: the n-th is n
    paused,
    storageAlloc

desktopVars == <<appFiles, shardsDir, uploads, paused, storageAlloc>>

DesktopTypeOK ==
    /\ \A i \in DOMAIN appFiles : appFiles[i].id \in 1 .. uploads /\ appFiles[i].size \in Nat
    /\ shardsDir \subseteq [file : 1 .. uploads, chunk : Nat, shard : ShardIndex]
    /\ uploads \in 0 .. MaxUploads
    /\ paused \in BOOLEAN /\ storageAlloc \in Nat \ {0}

NewApp == appFiles = <<>> /\ paused = FALSE /\ storageAlloc = DefaultAllocation

DesktopInit == NewApp /\ shardsDir = {} /\ uploads = 0

-----------------------------------------------------------------------------
\* The chunks of size bytes: the last may be shorter.
UploadChunks(size) == (size + UploadChunk - 1) \div UploadChunk

EffectiveSize(size) == IF size <= 0 THEN DefaultSize ELSE size

\* The first n shards of file f that UploadFile writes, chunk by chunk.
ShardsWritten(f, n) ==
    {[file |-> f, chunk |-> i \div (K + M), shard |-> i % (K + M)] : i \in 0 .. n - 1}

ShardCount(size) == UploadChunks(size) * (K + M)

\* Mutant: the file is listed before its shards are written.
UploadListsFirst(size) ==
    LET s == EffectiveSize(size) IN
    /\ uploads < MaxUploads /\ uploads' = uploads + 1
    /\ \E n \in 0 .. ShardCount(s) : shardsDir' = shardsDir \cup ShardsWritten(uploads', n)
    /\ appFiles' = Append(appFiles, [id |-> uploads', size |-> s])
    /\ UNCHANGED <<paused, storageAlloc>>

\* An error after n shards returns at once: they stay, and nothing is listed.
UploadFile(size) ==
    LET s == EffectiveSize(size) IN
    /\ uploads < MaxUploads /\ uploads' = uploads + 1
    /\ \E n \in 0 .. ShardCount(s) :
          /\ shardsDir' = shardsDir \cup ShardsWritten(uploads', n)
          /\ appFiles' = IF n = ShardCount(s)
                         THEN Append(appFiles, [id |-> uploads', size |-> s]) ELSE appFiles
    /\ UNCHANGED <<paused, storageAlloc>>

PauseNode == /\ paused' \in BOOLEAN
             /\ UNCHANGED <<appFiles, shardsDir, uploads, storageAlloc>>

\* Values of 0 and below are refused.
SetStorageAllocation(bytes) ==
    /\ bytes > 0
    /\ storageAlloc' = bytes
    /\ UNCHANGED <<appFiles, shardsDir, uploads, paused>>

\* The application is closed and started again on the same directory.
Reopen == /\ appFiles' = <<>> /\ paused' = FALSE /\ storageAlloc' = DefaultAllocation
          /\ UNCHANGED <<shardsDir, uploads>>

\* What GetNodeStatus and ListFiles report, in shards.
GetNodeStatus == [used |-> Cardinality(shardsDir), allocated |-> storageAlloc,
                  healthy |-> ~paused]
ListFiles == {appFiles[i] : i \in DOMAIN appFiles}

DesktopNext == \/ \E size \in UploadSizes : UploadFile(size)
               \/ \E bytes \in Allocations : SetStorageAllocation(bytes)
               \/ PauseNode \/ Reopen

-----------------------------------------------------------------------------
(* Properties *)

\* A file the application lists has all K + M shards of every one of its
\* chunks in the data directory, whatever uploads failed half-way before or
\* after it and however often the application was reopened; so the usage the
\* status reports covers all files listed.
ListedFilesComplete ==
    /\ \A f \in ListFiles : \A c \in 0 .. UploadChunks(f.size) - 1, s \in ShardIndex :
          [file |-> f.id, chunk |-> c, shard |-> s] \in shardsDir
    /\ GetNodeStatus.used >= Cardinality({f.id : f \in ListFiles}) * (K + M)
=============================================================================
