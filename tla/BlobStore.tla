------------------------------ MODULE BlobStore ------------------------------
(***************************************************************************)
(* One blob of the content-addressed store (crates/storage): put_if_absent *)
(* over the atomic write protocol, get, delete_account, and what failed    *)
(* calls, crashes of the process and power losses leave on disk.           *)
(*                                                                         *)
(* Everything that stores the same bytes for the same account writes the   *)
(* same path through the same temporary name, so one blob is the whole     *)
(* story of sharing.  A Writer is a caller of put_if_absent: a sync task,  *)
(* or a job worker that stores an attachment.  Nothing makes writers of    *)
(* one blob take turns.                                                    *)
(*                                                                         *)
(* The file system is external: an inode holds Chunks cells, written one   *)
(* after the other; a cell names the put (the encryption, each with its    *)
(* own nonce) that wrote it.  Only a file written by one put in all its    *)
(* cells decrypts.  What was not synced may be lost with the power, cell   *)
(* by cell and name by name.  (That creating the shard directories is as   *)
(* durable as the first sync below them is assumed.)                       *)
(***************************************************************************)
EXTENDS Integers, Sequences

CONSTANTS
    Writer,        \* callers of put_if_absent
    Inode,         \* bound: files that exist at a time
    NoInode,       \* the name does not exist
    Chunks,        \* writes a blob takes
    MaxPuts,       \* bound: calls of put_if_absent
    MaxFaults,     \* bound: failures of the kinds below
    FaultKinds     \* which of "io", "process" and "power" occur

ASSUME NoInodeAssumption == NoInode \notin Inode
ASSUME ChunksAssumption == Chunks \in Nat \ {0}
ASSUME BoundsAssumption == MaxPuts \in Nat /\ MaxFaults \in Nat
ASSUME FaultKindsAssumption == FaultKinds \subseteq {"io", "process", "power"}

Cells == 1..Chunks
Hole == 0                    \* a cell not written, or past the end of the file
Files == [Cells -> 0..MaxPuts]
Empty == [k \in Cells |-> Hole]
Names == Inode \cup {NoInode}

VARIABLES
    dir,                     \* does the shard directory exist?
    tmp, final,              \* the names .<hash>.bin.tmp and <hash>.bin
    data,                    \* the files
    syncedNames, syncedData, \* what a power loss cannot take
    pc, file, pos, put,      \* each writer: step, open file, offset, its put
    puts,                    \* calls of put_if_absent so far
    reading, got,            \* the reader: its open file, the cells it has read
    answer,                  \* what its last get found
    faults,
    acked                    \* history: how the puts since the last delete returned Ok:
                             \* "no", "found" (the blob exists) or "written"

names == <<dir, tmp, final>>
disk == <<dir, tmp, final, data, syncedNames, syncedData>>
writers == <<pc, file, pos, put, puts>>
reader == <<reading, got, answer>>
vars == <<dir, tmp, final, data, syncedNames, syncedData, pc, file, pos, put, puts,
          reading, got, answer, faults, acked>>

Init ==
    /\ dir = FALSE
    /\ tmp = NoInode
    /\ final = NoInode
    /\ data = [i \in Inode |-> Empty]
    /\ syncedNames = [tmp |-> NoInode, final |-> NoInode]
    /\ syncedData = [i \in Inode |-> Empty]
    /\ pc = [w \in Writer |-> "idle"]
    /\ file = [w \in Writer |-> NoInode]
    /\ pos = [w \in Writer |-> 1]
    /\ put = [w \in Writer |-> 0]
    /\ puts = 0
    /\ reading = NoInode
    /\ got = <<>>
    /\ answer = "none"
    /\ faults = 0
    /\ acked = "no"

-----------------------------------------------------------------------------
(* put_if_absent *)

\* The call of writer w returns.
Leaves(w) ==
    /\ pc' = [pc EXCEPT ![w] = "idle"]
    /\ file' = [file EXCEPT ![w] = NoInode]
    /\ pos' = [pos EXCEPT ![w] = 1]
    /\ put' = [put EXCEPT ![w] = 0]

\* The blob exists already: Ok without touching the disk.
PutPresent(w) ==
    /\ pc[w] = "idle"
    /\ final # NoInode
    /\ acked' = IF acked = "no" THEN "found" ELSE acked
    /\ UNCHANGED <<disk, writers, reader, faults>>

\* It does not: encrypt, and create the parent directories.
PutAbsent(w) ==
    /\ pc[w] = "idle"
    /\ final = NoInode
    /\ puts < MaxPuts
    /\ puts' = puts + 1
    /\ put' = [put EXCEPT ![w] = puts + 1]
    /\ dir' = TRUE
    /\ pc' = [pc EXCEPT ![w] = "create"]
    /\ UNCHANGED <<tmp, final, data, syncedNames, syncedData, file, pos, reader,
                   faults, acked>>

Free(i) ==
    /\ i \notin {tmp, final, syncedNames.tmp, syncedNames.final, reading}
    /\ \A w \in Writer : file[w] # i

\* Mutant: a protocol without a temporary file.
Create_InPlace(w) ==
    /\ pc[w] = "create"
    /\ \E i \in Inode :
         /\ IF final # NoInode THEN i = final ELSE Free(i)
         /\ final' = i
         /\ data' = [data EXCEPT ![i] = Empty]
         /\ syncedData' = [syncedData EXCEPT ![i] = Empty]
         /\ file' = [file EXCEPT ![w] = i]
         /\ pc' = [pc EXCEPT ![w] = "write"]
    /\ UNCHANGED <<dir, tmp, syncedNames, pos, put, puts, reader, faults, acked>>

\* File::create of the temporary name: truncates the file another writer or an
\* earlier crash left there.  The directory may have been removed meanwhile.
\* Open and truncate are one system call, and so is everything below.
Create(w) ==
    /\ pc[w] = "create"
    /\ IF dir
       THEN \E i \in Inode :
              /\ IF tmp # NoInode THEN i = tmp ELSE Free(i)
              /\ tmp' = i
              /\ data' = [data EXCEPT ![i] = Empty]
              /\ syncedData' = IF tmp = NoInode THEN [syncedData EXCEPT ![i] = Empty]
                               ELSE syncedData
              /\ file' = [file EXCEPT ![w] = i]
              /\ pc' = [pc EXCEPT ![w] = "write"]
              /\ UNCHANGED <<pos, put>>
       ELSE Leaves(w) /\ UNCHANGED <<tmp, data, syncedData>>
    /\ UNCHANGED <<dir, final, syncedNames, puts, reader, faults, acked>>

\* Mutant: a loop that goes on for one write too many.
WriteChunk_OneMore(w) ==
    /\ pc[w] = "write"
    /\ data' = [data EXCEPT ![file[w]][pos[w]] = put[w]]
    /\ pos' = [pos EXCEPT ![w] = @ + 1]
    /\ pc' = [pc EXCEPT ![w] = IF pos[w] > Chunks THEN "sync" ELSE "write"]
    /\ UNCHANGED <<names, syncedNames, syncedData, file, put, puts, reader, faults,
                   acked>>

\* write_all: one chunk.
WriteChunk(w) ==
    /\ pc[w] = "write"
    /\ data' = [data EXCEPT ![file[w]][pos[w]] = put[w]]
    /\ pos' = [pos EXCEPT ![w] = @ + 1]
    /\ pc' = [pc EXCEPT ![w] = IF pos[w] = Chunks THEN "sync" ELSE "write"]
    /\ UNCHANGED <<names, syncedNames, syncedData, file, put, puts, reader, faults,
                   acked>>

\* Mutant: sync_all of the file does nothing.
SyncFile_Skipped(w) ==
    /\ pc[w] = "sync"
    /\ pc' = [pc EXCEPT ![w] = "rename"]
    /\ UNCHANGED <<disk, file, pos, put, puts, reader, faults, acked>>

\* sync_all of the file.
SyncFile(w) ==
    /\ pc[w] = "sync"
    /\ syncedData' = [syncedData EXCEPT ![file[w]] = data[file[w]]]
    /\ pc' = [pc EXCEPT ![w] = "rename"]
    /\ UNCHANGED <<names, data, syncedNames, file, pos, put, puts, reader, faults,
                   acked>>

\* rename(tmp, path): publishes whatever has the temporary name, or fails with
\* NotFound when another writer or a delete took it away.
Rename(w) ==
    /\ pc[w] = "rename"
    /\ IF tmp = NoInode
       THEN Leaves(w) /\ UNCHANGED <<tmp, final>>
       ELSE /\ final' = tmp
            /\ tmp' = NoInode
            /\ pc' = [pc EXCEPT ![w] = "syncdir"]
            /\ UNCHANGED <<file, pos, put>>
    /\ UNCHANGED <<dir, data, syncedNames, syncedData, puts, reader, faults, acked>>

\* Mutant: sync_all of the directory does nothing.
SyncDir_Skipped(w) ==
    /\ pc[w] = "syncdir"
    /\ Leaves(w)
    /\ acked' = IF final # NoInode THEN "written" ELSE acked
    /\ UNCHANGED <<disk, puts, reader, faults>>

\* sync_all of the parent directory; then the put returns Ok, also when a deletion has
\* taken its blob since the rename, which does not count as a promise.
SyncDir(w) ==
    /\ pc[w] = "syncdir"
    /\ Leaves(w)
    /\ acked' = IF dir /\ final # NoInode THEN "written" ELSE acked
    /\ syncedNames' = IF dir THEN [tmp |-> tmp, final |-> final] ELSE syncedNames
    /\ UNCHANGED <<names, data, syncedData, puts, reader, faults>>

-----------------------------------------------------------------------------
(* get and delete_account *)

GetOpens ==
    /\ reading = NoInode
    /\ reading' = final
    /\ got' = <<>>
    /\ answer' = IF final = NoInode THEN "BlobNotFound" ELSE "none"
    /\ UNCHANGED <<disk, writers, faults, acked>>

Whole(f) == \E p \in 1..MaxPuts : \A k \in Cells : f[k] = p

\* One read; after the last, decryption tells a whole ciphertext from a torn
\* one.
GetReads ==
    /\ reading # NoInode
    /\ LET n == Len(got) + 1
           read == Append(got, data[reading][n])
       IN  IF n < Chunks
           THEN got' = read /\ UNCHANGED <<reading, answer>>
           ELSE /\ answer' = IF Whole(read) THEN "plaintext" ELSE "DecryptionFailed"
                /\ got' = <<>>
                /\ reading' = NoInode
    /\ UNCHANGED <<disk, writers, faults, acked>>

\* A step of remove_dir_all of the account: it unlinks one name after the other, then
\* removes the empty directory, and may fail at any of them.
DeleteAccount ==
    /\ dir
    /\ \/ tmp # NoInode /\ tmp' = NoInode /\ UNCHANGED <<dir, final>>
       \/ final # NoInode /\ final' = NoInode /\ UNCHANGED <<dir, tmp>>
       \/ tmp = NoInode /\ final = NoInode /\ dir' = FALSE /\ UNCHANGED <<tmp, final>>
    /\ acked' = "no"
    /\ UNCHANGED <<data, syncedNames, syncedData, writers, reader, faults>>

-----------------------------------------------------------------------------
(* Failures *)

Fault(kind) ==
    /\ kind \in FaultKinds
    /\ faults < MaxFaults
    /\ faults' = faults + 1

\* A system call of the protocol fails and the put returns its error; nothing
\* is cleaned up.
PutFails(w) ==
    /\ pc[w] # "idle"
    /\ Fault("io")
    /\ Leaves(w)
    /\ UNCHANGED <<disk, puts, reader, acked>>

Restarted ==
    /\ pc' = [w \in Writer |-> "idle"]
    /\ file' = [w \in Writer |-> NoInode]
    /\ pos' = [w \in Writer |-> 1]
    /\ put' = [w \in Writer |-> 0]
    /\ reading' = NoInode
    /\ got' = <<>>
    /\ answer' = "none"

ProcessCrash ==
    /\ Fault("process")
    /\ Restarted
    /\ UNCHANGED <<disk, puts, acked>>

\* Each name keeps its current or its synced file, a lost temporary name none;
\* each cell keeps its current or its synced contents.
PowerLoss ==
    /\ Fault("power")
    /\ Restarted
    /\ final' \in {final, syncedNames.final}
    /\ tmp' \in ({tmp, syncedNames.tmp} \ {final'}) \cup {NoInode}
    /\ dir' = (dir \/ tmp' # NoInode \/ final' # NoInode)
    /\ \E kept \in SUBSET (Inode \X Cells) :
         data' = [i \in Inode |-> [k \in Cells |->
                    IF <<i, k>> \in kept THEN data[i][k] ELSE syncedData[i][k]]]
    /\ syncedData' = data'
    /\ syncedNames' = [tmp |-> tmp', final |-> final']
    /\ UNCHANGED <<puts, acked>>

-----------------------------------------------------------------------------
Next ==
    \/ \E w \in Writer :
         \/ PutPresent(w)
         \/ PutAbsent(w)
         \/ Create(w)
         \/ WriteChunk(w)
         \/ SyncFile(w)
         \/ Rename(w)
         \/ SyncDir(w)
         \/ PutFails(w)
    \/ GetOpens
    \/ GetReads
    \/ DeleteAccount
    \/ ProcessCrash
    \/ PowerLoss

Spec == Init /\ [][Next]_vars

-----------------------------------------------------------------------------
(* Properties *)

\* Type invariant.
TypeOK ==
    /\ dir \in BOOLEAN
    /\ tmp \in Names
    /\ final \in Names
    /\ data \in [Inode -> Files]
    /\ syncedNames \in [tmp : Names, final : Names]
    /\ syncedData \in [Inode -> Files]
    /\ pc \in [Writer -> {"idle", "create", "write", "sync", "rename", "syncdir"}]
    /\ file \in [Writer -> Names]
    /\ pos \in [Writer -> 1..(Chunks + 1)]
    /\ put \in [Writer -> 0..MaxPuts]
    /\ puts \in 0..MaxPuts
    /\ reading \in Names
    /\ got \in Seq(0..MaxPuts)
    /\ answer \in {"none", "BlobNotFound", "plaintext", "DecryptionFailed"}
    /\ faults \in Nat
    /\ acked \in {"no", "found", "written"}

\* "Atomic" (atomic.rs:6-13): the final name is absent or names the complete
\* ciphertext of one put, at any instant and after any crash.  A torn blob
\* would stay for good: put_if_absent finds it present and leaves it alone, and
\* the parse job that reads it fails terminally.
NoTornBlob == final # NoInode => Whole(data[final])

\* No get fails to decrypt what put_if_absent stored, whatever runs at the same
\* time (raw.rs:42-55).
NoTornRead == answer # "DecryptionFailed"

\* "Durable" (atomic.rs:9-12): a blob whose put wrote it and returned Ok is there
\* until the account is deleted, through any crash.  The cursor of the folder
\* relies on it: a message below the checkpoint is never fetched again.
WrittenIsThere == acked = "written" => final # NoInode

\* The same of every put that returned Ok, the ones that found the blob present
\* included: put_if_absent "returns the ContentHash either way (existing or
\* freshly written)" (core/src/storage/service.rs:15-16).
AckedIsThere == acked # "no" => final # NoInode

\* The inductive invariant, of one writer at a time: its file is nobody else's until it
\* is renamed, and is complete and synced by then; what the final name names, now or
\* after a power loss, is whole and on disk; a reader reads a whole file.
OneWriter == \A v, w \in Writer : v = w
Writing(w) == pc[w] \in {"write", "sync", "rename"}
Settled(i) == syncedData[i] = data[i] /\ Whole(data[i])
Apart ==
    /\ tmp # NoInode => tmp \notin {final, syncedNames.final, reading}
    /\ \A w \in Writer : Writing(w) =>
          /\ file[w] \in Inode \ {final, syncedNames.final, reading}
          /\ tmp \in {file[w], NoInode}
Written ==
    \A w \in Writer :
        /\ pc[w] # "idle" => put[w] \in 1..MaxPuts
        /\ pc[w] \in {"idle", "create"} => pos[w] = 1
        /\ pc[w] = "write" => pos[w] \in Cells
        /\ Writing(w) =>
              \A k \in Cells : pc[w] # "write" \/ k < pos[w] => data[file[w]][k] = put[w]
        /\ pc[w] = "rename" => syncedData[file[w]] = data[file[w]]
Published ==
    /\ final # NoInode => Settled(final)
    /\ syncedNames.final # NoInode => Settled(syncedNames.final)
Reads ==
    reading # NoInode =>
        /\ Whole(data[reading])
        /\ Len(got) < Chunks
        /\ \A k \in 1..Len(got) : got[k] = data[reading][k]
Durable == acked = "written" => final # NoInode /\ syncedNames.final # NoInode
IInv ==
    TypeOK /\ Apart /\ Written /\ Published /\ Reads /\ Durable /\ NoTornRead

\* While a put of the only writer is under way, its name is not taken.
Vacant ==
    \A w \in Writer : pc[w] \in {"create", "write", "sync", "rename"} => final = NoInode

\* The store implements its promise to those that put and get, AtomicBlob: what a name
\* holds is the put that wrote all of the file, and a torn file is no version of the blob.
Torn == -1
Content(i) ==
    IF i = NoInode THEN 0 ELSE IF Whole(data[i]) THEN data[i][1] ELSE Torn

Promise == INSTANCE AtomicBlob WITH
    Version <- 1..MaxPuts, Nothing <- 0,
    blob <- Content(final), durable <- Content(syncedNames.final),
    promised <- (acked = "written"), opened <- Content(reading), answer <- answer

\* Atomic and durable (atomic.rs:6-13), write-once (raw.rs:21-40), and read in one piece
\* (raw.rs:42-55): every step of puts, gets, deletions and failures is one of AtomicBlob, or
\* does not show.
IsAtomic == Promise!Spec

\* What AckedIsThere rests on: outside of the steps of a put, a blob that is there stays
\* there, so a put that finds it may answer Ok.  A put that stops after its rename breaks it.
Removed == ~dir => final = NoInode /\ tmp = NoInode
Kept ==
    /\ final # NoInode /\ (\A w \in Writer : pc[w] # "syncdir") => syncedNames.final # NoInode
    /\ acked # "no" => final # NoInode /\ syncedNames.final # NoInode
==============================================================================
