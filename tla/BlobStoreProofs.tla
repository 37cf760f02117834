--------------------------- MODULE BlobStoreProofs ---------------------------
(***************************************************************************)
(* Proofs about BlobStore, for writers that take turns and any number of   *)
(* puts, chunks, failures, crashes and power losses: the final name never  *)
(* holds a torn blob, no get meets one, what a put wrote and answered Ok   *)
(* for is there until the account is deleted, and all in all the store     *)
(* implements AtomicBlob. What a put only found is kept when nothing but   *)
(* the power fails.                                                        *)
(***************************************************************************)
EXTENDS BlobStore, TLAPS

USE DEF names, disk, writers, reader

Begins(w) == PutPresent(w) \/ PutAbsent(w) \/ Create(w)
Goes(w) == WriteChunk(w) \/ SyncFile(w) \/ Rename(w) \/ SyncDir(w) \/ PutFails(w)
Gets == GetOpens \/ GetReads
Crashes == ProcessCrash \/ PowerLoss

\* The parts of Next, in the order of the lemmas.
LEMMA NextParts ==
  ASSUME Next
  PROVE (\E w \in Writer : Begins(w) \/ Goes(w)) \/ Gets \/ DeleteAccount \/ Crashes
BY DEF Next, Begins, Goes, Gets, Crashes

LEMMA InitIInv == Init => IInv
<1> SUFFICES ASSUME Init PROVE IInv
  OBVIOUS
<1> USE NoInodeAssumption, ChunksAssumption, BoundsAssumption
<1>1. TypeOK
  <2>1. Empty \in Files
    BY DEF Empty, Files, Cells, Hole
  <2>2. data \in [Inode -> Files] /\ syncedData \in [Inode -> Files]
    BY <2>1 DEF Init
  <2>3. /\ pc \in [Writer -> {"idle", "create", "write", "sync", "rename", "syncdir"}]
        /\ file \in [Writer -> Names] /\ pos \in [Writer -> 1..(Chunks + 1)]
        /\ put \in [Writer -> 0..MaxPuts]
    BY DEF Init, Names
  <2>4. got \in Seq(0..MaxPuts) /\ syncedNames \in [tmp : Names, final : Names]
    BY DEF Init, Names
  <2>5. /\ dir \in BOOLEAN /\ tmp \in Names /\ final \in Names /\ reading \in Names
        /\ answer \in {"none", "BlobNotFound", "plaintext", "DecryptionFailed"}
        /\ acked \in {"no", "found", "written"}
    BY DEF Init, Names
  <2>6. puts \in 0..MaxPuts /\ faults \in Nat
    BY DEF Init
  <2>7. QED BY <2>2, <2>3, <2>4, <2>5, <2>6 DEF TypeOK
<1>2. QED
  BY <1>1 DEF Init, IInv, Apart, Written, Published, Reads, Durable, NoTornRead, Writing

-----------------------------------------------------------------------------
(* Types *)

LEMMA LeavesType ==
  ASSUME TypeOK, NEW w \in Writer, Leaves(w)
  PROVE /\ pc' \in [Writer -> {"idle", "create", "write", "sync", "rename", "syncdir"}]
        /\ file' \in [Writer -> Names] /\ pos' \in [Writer -> 1..(Chunks + 1)]
        /\ put' \in [Writer -> 0..MaxPuts]
BY ChunksAssumption, BoundsAssumption DEF TypeOK, Leaves, Names

LEMMA BeginsType ==
  ASSUME IInv, NEW w \in Writer, Begins(w) PROVE TypeOK'
<1> USE BoundsAssumption, NoInodeAssumption, ChunksAssumption DEF IInv, TypeOK, Leaves, Names
<1>1. CASE PutPresent(w)
  BY <1>1 DEF PutPresent
<1>2. CASE PutAbsent(w)
  BY <1>2 DEF PutAbsent
<1>3. CASE Create(w)
  <2>1. CASE dir
    <3>1. Empty \in Files
      BY DEF Empty, Files, Cells, Hole
    <3>2. PICK i \in Inode :
            /\ tmp' = i
            /\ data' = [data EXCEPT ![i] = Empty]
            /\ syncedData' = IF tmp = NoInode THEN [syncedData EXCEPT ![i] = Empty] ELSE syncedData
            /\ file' = [file EXCEPT ![w] = i]
            /\ pc' = [pc EXCEPT ![w] = "write"]
            /\ UNCHANGED <<pos, put>>
      BY <1>3, <2>1 DEF Create
    <3>3. data' \in [Inode -> Files] /\ syncedData' \in [Inode -> Files]
      BY <3>1, <3>2
    <3>4. /\ pc' \in [Writer -> {"idle", "create", "write", "sync", "rename", "syncdir"}]
          /\ file' \in [Writer -> Names] /\ tmp' \in Names
      BY <3>2
    <3>5. QED BY <1>3, <3>2, <3>3, <3>4 DEF Create
  <2>2. CASE ~dir
    <3>1. /\ pc' \in [Writer -> {"idle", "create", "write", "sync", "rename", "syncdir"}]
          /\ file' \in [Writer -> Names] /\ pos' \in [Writer -> 1..(Chunks + 1)]
          /\ put' \in [Writer -> 0..MaxPuts]
      <4>1. Leaves(w) BY <1>3, <2>2 DEF Create
      <4>2. QED BY <4>1, LeavesType
    <3>2. QED BY <1>3, <2>2, <3>1 DEF Create
  <2>3. QED BY <2>1, <2>2
<1>4. QED BY <1>1, <1>2, <1>3 DEF Begins

LEMMA GoesType ==
  ASSUME IInv, NEW w \in Writer, Goes(w) PROVE TypeOK'
<1> USE BoundsAssumption, NoInodeAssumption, ChunksAssumption DEF TypeOK, Leaves, Names
<1>1. CASE WriteChunk(w)
  <2>1. file[w] \in Inode /\ pos[w] \in Cells /\ put[w] \in 0..MaxPuts
    BY <1>1 DEF IInv, Apart, Written, Writing, WriteChunk
  <2>2. data' \in [Inode -> Files]
    BY <1>1, <2>1 DEF WriteChunk, IInv, Files
  <2>3. pos' \in [Writer -> 1..(Chunks + 1)]
    BY <1>1, <2>1 DEF WriteChunk, IInv, Cells
  <2>4. QED BY <1>1, <2>2, <2>3 DEF WriteChunk, IInv
<1>2. CASE SyncFile(w)
  BY <1>2 DEF SyncFile, IInv, Apart, Writing
<1>3. CASE Rename(w)
  <2>1. /\ pc' \in [Writer -> {"idle", "create", "write", "sync", "rename", "syncdir"}]
        /\ file' \in [Writer -> Names] /\ pos' \in [Writer -> 1..(Chunks + 1)]
        /\ put' \in [Writer -> 0..MaxPuts]
    <3>1. CASE tmp = NoInode
      <4>1. Leaves(w) BY <1>3, <3>1 DEF Rename
      <4>2. QED BY <4>1, LeavesType DEF IInv
    <3>2. CASE tmp # NoInode
      BY <1>3, <3>2 DEF Rename, IInv
    <3>3. QED BY <3>1, <3>2
  <2>2. QED BY <1>3, <2>1 DEF Rename, IInv
<1>4. CASE SyncDir(w)
  BY <1>4 DEF SyncDir, IInv
<1>5. CASE PutFails(w)
  BY <1>5 DEF PutFails, Fault, IInv
<1>6. QED BY <1>1, <1>2, <1>3, <1>4, <1>5 DEF Goes

LEMMA OtherType ==
  ASSUME IInv, Gets \/ DeleteAccount \/ Crashes PROVE TypeOK'
<1> USE BoundsAssumption, NoInodeAssumption, ChunksAssumption DEF TypeOK, Names
<1>1. CASE GetOpens
  BY <1>1 DEF GetOpens, IInv
<1>2. CASE GetReads
  <2>1. Len(got) + 1 \in Cells /\ data[reading] \in Files
    BY <1>2 DEF GetReads, IInv, Reads, Cells
  <2>2. Append(got, data[reading][Len(got) + 1]) \in Seq(0..MaxPuts)
    BY <2>1 DEF IInv, Files
  <2>3. /\ got' \in Seq(0..MaxPuts)
        /\ reading' \in {reading, NoInode}
        /\ answer' \in {answer, "plaintext", "DecryptionFailed"}
    <3>1. <<>> \in Seq(0..MaxPuts)
      OBVIOUS
    <3>2. QED BY <1>2, <2>2, <3>1 DEF GetReads
  <2>4. QED BY <1>2, <2>3 DEF GetReads, IInv
<1>3. CASE DeleteAccount
  BY <1>3 DEF DeleteAccount, IInv
<1>4. CASE ProcessCrash
  BY <1>4 DEF ProcessCrash, Restarted, Fault, IInv
<1>5. CASE PowerLoss
  <2>1. PICK kept \in SUBSET (Inode \X Cells) :
          data' = [i \in Inode |-> [k \in Cells |->
                    IF <<i, k>> \in kept THEN data[i][k] ELSE syncedData[i][k]]]
    BY <1>5 DEF PowerLoss
  <2>2. data' \in [Inode -> Files] /\ syncedData' = data'
    BY <1>5, <2>1 DEF PowerLoss, Files, IInv
  <2>3. /\ final' \in Names /\ tmp' \in Names /\ dir' \in BOOLEAN
        /\ syncedNames' \in [tmp : Names, final : Names]
    BY <1>5 DEF PowerLoss, IInv
  <2>4. /\ pc' \in [Writer -> {"idle", "create", "write", "sync", "rename", "syncdir"}]
        /\ file' \in [Writer -> Names] /\ pos' \in [Writer -> 1..(Chunks + 1)]
        /\ put' \in [Writer -> 0..MaxPuts] /\ reading' \in Names /\ got' \in Seq(0..MaxPuts)
        /\ answer' \in {"none", "BlobNotFound", "plaintext", "DecryptionFailed"}
    BY <1>5 DEF PowerLoss, Restarted
  <2>5. QED BY <1>5, <2>2, <2>3, <2>4 DEF PowerLoss, Fault, IInv
<1>6. QED BY <1>1, <1>2, <1>3, <1>4, <1>5 DEF Gets, Crashes

-----------------------------------------------------------------------------
(* The other parts of the inductive invariant *)

Rest == Apart /\ Written /\ Published /\ Reads /\ Durable /\ NoTornRead

\* A step that leaves the disk alone, and at most ends calls, keeps what is said of
\* writers and names.
LEMMA LeavesRest ==
  ASSUME IInv, NEW w \in Writer, Leaves(w), UNCHANGED <<disk, reader, acked>>
  PROVE Rest'
BY NoInodeAssumption
   DEF Leaves, IInv, TypeOK, Rest, Apart, Written, Published, Reads, Durable, NoTornRead,
       Writing, Settled

LEMMA BeginsRest ==
  ASSUME IInv, OneWriter, NEW w \in Writer, Begins(w) PROVE Rest'
<1> USE NoInodeAssumption, ChunksAssumption, BoundsAssumption
<1> USE DEF IInv, TypeOK, Rest, Apart, Written, Published, Reads, Durable, NoTornRead,
            Writing, Settled
<1>1. CASE PutPresent(w)
  BY <1>1 DEF PutPresent
<1>2. CASE PutAbsent(w)
  <2>1. /\ pc' = [pc EXCEPT ![w] = "create"] /\ put' = [put EXCEPT ![w] = puts + 1]
        /\ UNCHANGED <<tmp, final, data, syncedNames, syncedData, file, pos, reader, faults, acked>>
        /\ puts + 1 \in 1..MaxPuts /\ pc[w] = "idle"
    BY <1>2 DEF PutAbsent
  <2>2. Apart' /\ Published' /\ Reads' /\ Durable' /\ NoTornRead'
    BY <2>1 DEF OneWriter
  <2>3. Written'
    BY <2>1
  <2>4. QED BY <2>2, <2>3
<1>3. CASE Create(w) /\ ~dir
  <2>1. Leaves(w) /\ UNCHANGED <<disk, reader, acked>>
    BY <1>3 DEF Create
  <2>2. QED BY <2>1, LeavesRest
<1>4. CASE Create(w) /\ dir
  <2>1. PICK i \in Inode :
          /\ IF tmp # NoInode THEN i = tmp ELSE Free(i)
          /\ tmp' = i
          /\ data' = [data EXCEPT ![i] = Empty]
          /\ syncedData' = IF tmp = NoInode THEN [syncedData EXCEPT ![i] = Empty] ELSE syncedData
          /\ file' = [file EXCEPT ![w] = i]
          /\ pc' = [pc EXCEPT ![w] = "write"]
          /\ UNCHANGED <<pos, put>>
    BY <1>4 DEF Create
  <2>2. UNCHANGED <<dir, final, syncedNames, puts, reader, faults, acked>> /\ pc[w] = "create"
    BY <1>4 DEF Create
  <2>3. i \notin {final, syncedNames.final, reading}
    BY <2>1 DEF Free
  <2>4. \A j \in Inode \ {i} : data'[j] = data[j] /\ syncedData'[j] = syncedData[j]
    BY <2>1
  <2>5. \A v \in Writer : v = w
    BY DEF OneWriter
  <2>6. Apart'
    BY <2>1, <2>2, <2>3, <2>5
  <2>7. Written'
    BY <2>1, <2>2, <2>5 DEF Cells
  <2>8. Published' /\ Reads'
    BY <2>2, <2>3, <2>4 DEF Names
  <2>9. Durable' /\ NoTornRead'
    BY <2>1, <2>2, <2>5
  <2>10. QED BY <2>6, <2>7, <2>8, <2>9
<1>5. QED BY <1>1, <1>2, <1>3, <1>4 DEF Begins

LEMMA WriteChunkRest ==
  ASSUME IInv, OneWriter, NEW w \in Writer, WriteChunk(w) PROVE Rest'
<1> USE NoInodeAssumption, ChunksAssumption, BoundsAssumption
<1> USE DEF IInv, TypeOK, Rest, Apart, Written, Published, Reads, Durable, NoTornRead,
            Writing, Settled
<1>1. /\ pc[w] = "write" /\ pos[w] \in Cells /\ pos[w] \in Nat
      /\ file[w] \in Inode \ {final, syncedNames.final, reading}
  BY DEF WriteChunk, Cells
<1>2. /\ \A j \in Inode \ {file[w]} : data'[j] = data[j]
      /\ data'[file[w]] = [data[file[w]] EXCEPT ![pos[w]] = put[w]]
  BY <1>1 DEF WriteChunk
<1>3. /\ UNCHANGED <<names, syncedNames, syncedData, file, put, puts, reader, faults, acked>>
      /\ pos' = [pos EXCEPT ![w] = @ + 1]
      /\ pc' = [pc EXCEPT ![w] = IF pos[w] = Chunks THEN "sync" ELSE "write"]
  BY DEF WriteChunk
<1>4. \A v \in Writer : v = w
  BY DEF OneWriter
<1>5. Apart' /\ Durable' /\ NoTornRead'
  BY <1>1, <1>3, <1>4
<1>6. Published' /\ Reads'
  BY <1>1, <1>2, <1>3 DEF Names
<1>7. Written'
  <2>1. \A k \in Cells : k < pos[w] + 1 => data'[file[w]][k] = put[w]
    <3>1. data[file[w]] \in [Cells -> 0..MaxPuts]
      BY <1>1 DEF Files
    <3>2. \A k \in Cells : data'[file[w]][k] = IF k = pos[w] THEN put[w] ELSE data[file[w]][k]
      BY <1>1, <1>2, <3>1
    <3>3. \A k \in Cells : k < pos[w] => data[file[w]][k] = put[w]
      BY <1>1
    <3>4. \A k \in Cells : k < pos[w] + 1 => k = pos[w] \/ k < pos[w]
      BY <1>1 DEF Cells
    <3>5. QED BY <3>2, <3>3, <3>4
  <2>2. pos[w] = Chunks => \A k \in Cells : k < pos[w] + 1
    BY DEF Cells
  <2>3. pos[w] # Chunks => pos[w] + 1 \in Cells
    BY <1>1 DEF Cells
  <2>4. QED BY <1>1, <1>3, <1>4, <2>1, <2>2, <2>3
<1>8. QED BY <1>5, <1>6, <1>7

LEMMA GoesRest ==
  ASSUME IInv, OneWriter, NEW w \in Writer, Goes(w) PROVE Rest'
<1> USE NoInodeAssumption, ChunksAssumption, BoundsAssumption
<1> USE DEF IInv, TypeOK, Rest, Apart, Written, Published, Reads, Durable, NoTornRead,
            Writing, Settled
<1>0. \A v \in Writer : v = w
  BY DEF OneWriter
<1>1. CASE WriteChunk(w)
  BY <1>1, WriteChunkRest
<1>2. CASE SyncFile(w)
  <2>1. file[w] \in Inode \ {final, syncedNames.final, reading}
    BY <1>2 DEF SyncFile
  <2>2. /\ \A j \in Inode \ {file[w]} : syncedData'[j] = syncedData[j]
        /\ syncedData'[file[w]] = data[file[w]]
    BY <1>2, <2>1 DEF SyncFile
  <2>3. QED BY <1>0, <1>2, <2>1, <2>2 DEF SyncFile, Names
<1>3. CASE Rename(w) /\ tmp = NoInode
  <2>1. Leaves(w) /\ UNCHANGED <<disk, reader, acked>>
    BY <1>3 DEF Rename
  <2>2. QED BY <2>1, LeavesRest
<1>4. CASE Rename(w) /\ tmp # NoInode
  <2>1. /\ tmp = file[w] /\ final' = file[w] /\ tmp' = NoInode /\ pc[w] = "rename"
        /\ pc' = [pc EXCEPT ![w] = "syncdir"]
        /\ UNCHANGED <<dir, data, syncedNames, syncedData, file, pos, put, reader, acked>>
    BY <1>4 DEF Rename
  <2>2. Settled(file[w])
    <3>1. put[w] \in 1..MaxPuts /\ syncedData[file[w]] = data[file[w]]
      BY <2>1
    <3>2. \A k \in Cells : data[file[w]][k] = put[w]
      BY <2>1
    <3>3. QED BY <3>1, <3>2 DEF Whole
  <2>3. QED BY <1>0, <2>1, <2>2
<1>5. CASE SyncDir(w)
  <2>1. /\ pc[w] = "syncdir" /\ pc' = [pc EXCEPT ![w] = "idle"]
        /\ \A v \in Writer : pc'[v] = "idle" /\ pos'[v] = 1
        /\ UNCHANGED <<names, data, syncedData, reader>>
        /\ acked' = IF dir /\ final # NoInode THEN "written" ELSE acked
        /\ syncedNames' = IF dir THEN [tmp |-> tmp, final |-> final] ELSE syncedNames
    BY <1>0, <1>5 DEF SyncDir, Leaves
  <2>2. QED BY <1>0, <2>1
<1>6. CASE PutFails(w)
  <2>1. Leaves(w) /\ UNCHANGED <<disk, reader, acked>>
    BY <1>6 DEF PutFails
  <2>2. QED BY <2>1, LeavesRest
<1>7. QED BY <1>1, <1>2, <1>3, <1>4, <1>5, <1>6 DEF Goes

LEMMA GetsRest ==
  ASSUME IInv, Gets PROVE Rest'
<1> USE NoInodeAssumption, ChunksAssumption, BoundsAssumption
<1> USE DEF IInv, TypeOK, Rest, Apart, Written, Published, Reads, Durable, NoTornRead,
            Writing, Settled
<1>1. CASE GetOpens
  BY <1>1 DEF GetOpens
<1>2. CASE GetReads
  <2> DEFINE n == Len(got) + 1
             read == Append(got, data[reading][n])
  <2>1. /\ UNCHANGED <<disk, writers, faults, acked>> /\ reading # NoInode
        /\ IF n < Chunks
           THEN got' = read /\ UNCHANGED <<reading, answer>>
           ELSE /\ answer' = IF Whole(read) THEN "plaintext" ELSE "DecryptionFailed"
                /\ got' = <<>>
                /\ reading' = NoInode
    BY <1>2 DEF GetReads
  <2>2. n \in Cells /\ Len(read) = n /\ \A k \in 1..n : read[k] = data[reading][k]
    BY <2>1 DEF Cells
  <2>3. n = Chunks => Whole(read)
    <3>1. PICK p \in 1..MaxPuts : \A k \in Cells : data[reading][k] = p
      BY <2>1 DEF Whole
    <3>2. ASSUME n = Chunks PROVE \A k \in Cells : read[k] = p
      BY <2>2, <3>1, <3>2 DEF Cells
    <3>3. QED BY <3>2 DEF Whole
  <2>4. Reads' /\ NoTornRead'
    <3>1. n < Chunks \/ n = Chunks
      BY <2>2 DEF Cells
    <3> HIDE DEF n, read
    <3>2. CASE n < Chunks
      BY <2>1, <2>2, <3>2
    <3>3. CASE n = Chunks
      BY <2>1, <2>3, <3>3
    <3>4. QED BY <3>1, <3>2, <3>3
  <2>5. Apart' /\ Written' /\ Published' /\ Durable'
    BY <2>1
  <2>6. QED BY <2>4, <2>5
<1>3. QED BY <1>1, <1>2 DEF Gets

LEMMA DeleteRest ==
  ASSUME IInv, DeleteAccount PROVE Rest'
<1>1. /\ final' \in {final, NoInode} /\ tmp' \in {tmp, NoInode} /\ acked' = "no"
      /\ UNCHANGED <<data, syncedNames, syncedData, pc, file, pos, put, puts, reading, got,
                     answer, faults>>
  BY DEF DeleteAccount
<1>2. Apart'
  BY <1>1, NoInodeAssumption DEF IInv, Apart, Writing
<1>3. Written'
  BY <1>1 DEF IInv, Written, Writing
<1>4. Published'
  BY <1>1 DEF IInv, Published, Settled, Whole
<1>5. Reads' /\ Durable' /\ NoTornRead'
  BY <1>1 DEF IInv, Reads, Durable, NoTornRead, Whole
<1>6. QED BY <1>2, <1>3, <1>4, <1>5 DEF Rest

LEMMA CrashRest ==
  ASSUME IInv, Crashes PROVE Rest'
<1> USE NoInodeAssumption
<1> USE DEF IInv, TypeOK, Rest, Apart, Written, Published, Reads, Durable, NoTornRead,
            Writing, Settled
<1>1. /\ \A w \in Writer : pc'[w] = "idle" /\ pos'[w] = 1
      /\ reading' = NoInode /\ answer' = "none" /\ acked' = acked
  BY DEF Crashes, ProcessCrash, PowerLoss, Restarted
<1>2. CASE ProcessCrash
  BY <1>1, <1>2 DEF ProcessCrash
<1>3. CASE PowerLoss
  <2>1. PICK kept \in SUBSET (Inode \X Cells) :
          data' = [i \in Inode |-> [k \in Cells |->
                    IF <<i, k>> \in kept THEN data[i][k] ELSE syncedData[i][k]]]
    BY <1>3 DEF PowerLoss
  <2>2. \A i \in Inode : Settled(i) => data'[i] = data[i]
    BY <2>1 DEF Files
  <2>3. /\ final' \in {final, syncedNames.final}
        /\ tmp' # NoInode => tmp' # final'
        /\ syncedData' = data' /\ syncedNames' = [tmp |-> tmp', final |-> final']
    BY <1>3 DEF PowerLoss
  <2>4. final' # NoInode => syncedData'[final'] = data'[final'] /\ Whole(data'[final'])
    BY <2>2, <2>3 DEF Names
  <2>5. Apart' /\ Written' /\ Reads' /\ NoTornRead'
    BY <1>1, <2>3
  <2>6. Published' /\ Durable'
    BY <1>1, <2>3, <2>4
  <2>7. QED BY <2>5, <2>6
<1>4. QED BY <1>2, <1>3 DEF Crashes

-----------------------------------------------------------------------------

\* While writers of a blob take turns, the inductive invariant holds in every reachable
\* state: of puts, gets, deletions, failed calls, crashes and power losses.
THEOREM Invariance == ASSUME OneWriter PROVE Spec => []IInv
<1>1. IInv /\ [Next]_vars => IInv'
  <2> SUFFICES ASSUME IInv, [Next]_vars PROVE IInv'
    OBVIOUS
  <2>1. CASE UNCHANGED vars
    BY <2>1
       DEF vars, IInv, TypeOK, Apart, Written, Published, Reads, Durable, NoTornRead, Writing,
           Settled
  <2>2. CASE \E w \in Writer : Begins(w) \/ Goes(w)
    BY <2>2, BeginsType, GoesType, BeginsRest, GoesRest, OneWriter DEF IInv, Rest
  <2>3. CASE Gets \/ DeleteAccount \/ Crashes
    BY <2>3, OtherType, GetsRest, DeleteRest, CrashRest DEF IInv, Rest
  <2>4. QED BY <2>1, <2>2, <2>3, NextParts
<1>2. QED BY <1>1, InitIInv, PTL DEF Spec

\* Every variable keeps its type.
THEOREM TypeCorrect == ASSUME OneWriter PROVE Spec => []TypeOK
<1>1. IInv => TypeOK BY DEF IInv
<1>2. QED BY <1>1, Invariance, PTL

\* The final name is absent or names the whole ciphertext of one put (atomic.rs:6-13).
THEOREM Atomic == ASSUME OneWriter PROVE Spec => []NoTornBlob
<1>1. IInv => NoTornBlob BY DEF IInv, Published, Settled, NoTornBlob
<1>2. QED BY <1>1, Invariance, PTL

\* No get fails to decrypt what put_if_absent stored (raw.rs:42-55).
THEOREM ReadsWhole == ASSUME OneWriter PROVE Spec => []NoTornRead
<1>1. IInv => NoTornRead BY DEF IInv
<1>2. QED BY <1>1, Invariance, PTL

\* What a put wrote and returned Ok for outlives crashes and power losses
\* (atomic.rs:9-12).
THEOREM DurableWrites == ASSUME OneWriter PROVE Spec => []WrittenIsThere
<1>1. IInv => WrittenIsThere BY DEF IInv, Durable, WrittenIsThere
<1>2. QED BY <1>1, Invariance, PTL

-----------------------------------------------------------------------------
(* The refinement of AtomicBlob *)

\* Only a put publishes, and it began when there was no blob.
LEMMA StepVacant ==
  ASSUME IInv, Vacant, OneWriter, [Next]_vars PROVE Vacant'
<1> USE DEF Vacant, IInv, TypeOK
<1>1. CASE UNCHANGED vars
  BY <1>1 DEF vars
<1>2. ASSUME NEW w \in Writer, Begins(w) PROVE Vacant'
  <2>1. CASE PutPresent(w) \/ PutAbsent(w)
    BY <2>1, OneWriter DEF PutPresent, PutAbsent, OneWriter
  <2>2. CASE Create(w)
    BY <2>2, OneWriter DEF Create, Leaves, OneWriter
  <2>3. QED BY <1>2, <2>1, <2>2 DEF Begins
<1>3. ASSUME NEW w \in Writer, Goes(w) PROVE Vacant'
  <2>1. CASE WriteChunk(w) \/ SyncFile(w)
    BY <2>1 DEF WriteChunk, SyncFile
  <2>2. CASE Rename(w)
    BY <2>2 DEF Rename, Leaves, OneWriter
  <2>3. CASE SyncDir(w) \/ PutFails(w)
    BY <2>3 DEF SyncDir, PutFails, Leaves
  <2>4. QED BY <1>3, <2>1, <2>2, <2>3 DEF Goes
<1>4. CASE Gets \/ DeleteAccount
  BY <1>4 DEF Gets, GetOpens, GetReads, DeleteAccount
<1>5. CASE Crashes
  BY <1>5 DEF Crashes, ProcessCrash, PowerLoss, Restarted
<1>6. QED BY <1>1, <1>2, <1>3, <1>4, <1>5, NextParts

\* A whole file is one version of the blob.
LEMMA WholeContent ==
  ASSUME TypeOK, NEW i \in Inode, Whole(data[i])
  PROVE  Content(i) = data[i][1] /\ Content(i) \in 1..MaxPuts
BY NoInodeAssumption, ChunksAssumption DEF Content, Whole, Cells

\* What the three names of the promise hold is whole, or nothing.
LEMMA Contents ==
  ASSUME IInv
  PROVE  \A i \in {final, syncedNames.final, reading} :
           /\ i \in Names /\ Content(i) \in Nat
           /\ Content(i) = 0 <=> i = NoInode
           /\ i # NoInode => i \in Inode /\ Whole(data[i]) /\ Content(i) \in 1..MaxPuts
<1>1. ASSUME NEW i \in {final, syncedNames.final, reading}, i # NoInode
      PROVE  i \in Inode /\ Whole(data[i])
  BY <1>1 DEF IInv, TypeOK, Names, Published, Settled, Reads
<1>2. ASSUME NEW i \in {final, syncedNames.final, reading}, i # NoInode
      PROVE  Content(i) \in 1..MaxPuts
  BY <1>1, <1>2, WholeContent DEF IInv
<1>3. \A i \in {final, syncedNames.final, reading} : i \in Names
  BY DEF IInv, TypeOK
<1>4. Content(NoInode) = 0
  BY DEF Content
<1>5. QED BY <1>1, <1>2, <1>3, <1>4, BoundsAssumption

\* A step that changes no file under one of the three names, and neither these names, a
\* get nor an acknowledgement, does not show.
LEMMA Unseen ==
  ASSUME UNCHANGED <<final, syncedNames, reading, answer>>,
         \A i \in {final, syncedNames.final, reading} \ {NoInode} : data'[i] = data[i],
         acked' = acked \/ (acked' # "written" /\ acked # "written")
  PROVE  UNCHANGED Promise!vars
<1>1. \A i \in {final, syncedNames.final, reading} : Content(i)' = Content(i)
  BY DEF Content
<1>2. Content(final)' = Content(final) /\ Content(syncedNames.final)' = Content(syncedNames.final)
      /\ Content(reading)' = Content(reading)
  BY <1>1 DEF Content
<1>3. (acked = "written")' = (acked = "written")
  OBVIOUS
<1>4. QED BY <1>2, <1>3 DEF Promise!vars

LEMMA RefinesBegins ==
  ASSUME IInv, NEW w \in Writer, Begins(w) PROVE UNCHANGED Promise!vars
<1>1. CASE PutPresent(w)
  BY <1>1, Unseen DEF PutPresent
<1>2. CASE PutAbsent(w)
  BY <1>2, Unseen DEF PutAbsent
<1>3. CASE Create(w)
  <2>1. UNCHANGED <<final, syncedNames, reading, answer, acked>>
    BY <1>3 DEF Create
  <2>2. ASSUME NEW i \in {final, syncedNames.final, reading} \ {NoInode}
        PROVE  data'[i] = data[i]
    <3>1. CASE dir
      <4>1. PICK j \in Inode : /\ IF tmp # NoInode THEN j = tmp ELSE Free(j)
                               /\ data' = [data EXCEPT ![j] = Empty]
        BY <1>3, <3>1 DEF Create
      <4>2. i # j
        BY <2>2, <4>1 DEF Free, IInv, Apart
      <4>3. QED BY <4>1, <4>2 DEF IInv, TypeOK
    <3>2. CASE ~dir
      BY <1>3, <3>2 DEF Create
    <3>3. QED BY <3>1, <3>2
  <2>3. QED BY <2>1, <2>2, Unseen
<1>4. QED BY <1>1, <1>2, <1>3 DEF Begins

\* The rename publishes the file of the writer, whole.
LEMMA RefinesRename ==
  ASSUME IInv, Vacant, NEW w \in Writer, Rename(w), tmp # NoInode
  PROVE  Promise!Store
<1>1. /\ pc[w] = "rename" /\ tmp = file[w] /\ final' = file[w] /\ file[w] \in Inode
      /\ UNCHANGED <<data, syncedNames, reading, answer, acked>>
  BY DEF Rename, IInv, Apart, Writing
<1>2. Whole(data[file[w]])
  <2>1. put[w] \in 1..MaxPuts /\ \A k \in Cells : data[file[w]][k] = put[w]
    BY <1>1 DEF IInv, Written, Writing
  <2>2. QED BY <2>1 DEF Whole
<1>3. Content(file[w]) \in 1..MaxPuts
  BY <1>1, <1>2, WholeContent DEF IInv
<1>4. Content(final) = 0
  BY <1>1 DEF Vacant, Content
<1>5. /\ Content(final)' = Content(file[w])
      /\ Content(syncedNames.final)' = Content(syncedNames.final)
      /\ Content(reading)' = Content(reading)
  BY <1>1 DEF Content
<1>6. QED BY <1>1, <1>3, <1>4, <1>5 DEF Promise!Store

LEMMA RefinesGoes ==
  ASSUME IInv, Vacant, NEW w \in Writer, Goes(w)
  PROVE  Promise!Store \/ Promise!Acknowledge \/ Promise!Settle \/ UNCHANGED Promise!vars
<1>1. CASE WriteChunk(w)
  <2>1. /\ UNCHANGED <<final, syncedNames, reading, answer, acked>>
        /\ data' = [data EXCEPT ![file[w]][pos[w]] = put[w]]
        /\ file[w] \notin {final, syncedNames.final, reading}
    BY <1>1 DEF WriteChunk, IInv, Apart, Writing
  <2>2. \A i \in {final, syncedNames.final, reading} \ {NoInode} : data'[i] = data[i]
    BY <2>1 DEF IInv, TypeOK, Names
  <2>3. QED BY <2>1, <2>2, Unseen
<1>2. CASE SyncFile(w) \/ PutFails(w)
  BY <1>2, Unseen DEF SyncFile, PutFails
<1>3. CASE Rename(w)
  <2>1. CASE tmp = NoInode
    BY <1>3, <2>1, Unseen DEF Rename
  <2>2. QED BY <1>3, <2>1, RefinesRename
<1>4. CASE SyncDir(w)
  <2>1. CASE ~dir
    BY <1>4, <2>1, Unseen DEF SyncDir
  <2>2. CASE dir
    <3>1. /\ acked' = IF final # NoInode THEN "written" ELSE acked
          /\ UNCHANGED <<final, data, reading, answer>> /\ syncedNames'.final = final
      BY <1>4, <2>2 DEF SyncDir
    <3>2. /\ Content(final)' = Content(final)
          /\ Content(syncedNames.final)' = Content(final)
          /\ Content(reading)' = Content(reading)
      BY <3>1 DEF Content
    <3>3. Content(final) = 0 <=> final = NoInode
      BY Contents
    <3>4. QED BY <3>1, <3>2, <3>3 DEF Promise!Acknowledge, Promise!Settle
  <2>3. QED BY <2>1, <2>2
<1>5. QED BY <1>1, <1>2, <1>3, <1>4 DEF Goes

LEMMA RefinesGets ==
  ASSUME IInv, IInv', Gets
  PROVE  Promise!Open \/ Promise!Answer \/ UNCHANGED Promise!vars
<1>1. UNCHANGED <<final, data, syncedNames, acked>>
  BY DEF Gets, GetOpens, GetReads
<1>2. /\ Content(final)' = Content(final)
      /\ Content(syncedNames.final)' = Content(syncedNames.final)
      /\ \A i : Content(i)' = Content(i)
  BY <1>1 DEF Content
<1>3. Content(final) = 0 <=> final = NoInode
  BY Contents
<1>4. Content(reading) = 0 <=> reading = NoInode
  BY Contents
<1>5. CASE GetOpens
  <2>1. /\ reading = NoInode /\ reading' = final
        /\ answer' = IF final = NoInode THEN "BlobNotFound" ELSE "none"
    BY <1>5 DEF GetOpens
  <2>2. Content(reading)' = Content(final)
    BY <1>1, <2>1 DEF Content
  <2>3. QED BY <1>1, <1>2, <1>3, <1>4, <2>1, <2>2 DEF Promise!Open
<1>6. CASE GetReads
  <2>1. /\ reading # NoInode
        /\ \/ UNCHANGED <<reading, answer>>
           \/ answer' \in {"plaintext", "DecryptionFailed"} /\ reading' = NoInode
    BY <1>6 DEF GetReads
  <2>2. CASE UNCHANGED <<reading, answer>>
    BY <1>1, <2>2, Unseen
  <2>3. CASE answer' \in {"plaintext", "DecryptionFailed"} /\ reading' = NoInode
    <3>1. answer' = "plaintext"
      BY <2>3 DEF IInv, NoTornRead
    <3>2. Content(reading)' = 0
      BY <2>3 DEF Content
    <3>3. QED BY <1>1, <1>2, <1>4, <2>1, <3>1, <3>2 DEF Promise!Answer
  <2>4. QED BY <2>1, <2>2, <2>3
<1>7. QED BY <1>5, <1>6 DEF Gets

LEMMA RefinesDelete ==
  ASSUME DeleteAccount PROVE Promise!Delete
<1>1. /\ final' \in {final, NoInode} /\ acked' = "no"
      /\ UNCHANGED <<data, syncedNames, reading, answer>>
  BY DEF DeleteAccount
<1>2. /\ Content(final)' \in {Content(final), 0}
      /\ Content(syncedNames.final)' = Content(syncedNames.final)
      /\ Content(reading)' = Content(reading)
  BY <1>1 DEF Content
<1>3. QED BY <1>1, <1>2 DEF Promise!Delete

\* What the names hold after a power loss is what one of them held, for it was synced.
LEMMA RefinesCrashes ==
  ASSUME IInv, IInv', Crashes PROVE Promise!Stop
<1>1. /\ reading' = NoInode /\ answer' = "none" /\ acked' = acked
  BY DEF Crashes, ProcessCrash, PowerLoss, Restarted
<1>2. Content(reading)' = 0
  BY <1>1 DEF Content
<1>3. acked = "written" => Content(final)' # 0
  <2>1. acked = "written" => final' # NoInode
    BY <1>1 DEF IInv, Durable
  <2>2. final' # NoInode => Content(final)' # 0
    <3>1. ASSUME final' # NoInode PROVE Whole(data[final])' /\ final' \in Inode /\ TypeOK'
      BY <3>1 DEF IInv, TypeOK, Names, Published, Settled
    <3>2. ASSUME final' # NoInode PROVE Content(final)' \in 1..MaxPuts
      BY <3>1, <3>2, ChunksAssumption DEF Content, Whole, Cells
    <3>3. QED BY <3>2, BoundsAssumption
  <2>3. QED BY <2>1, <2>2
<1>4. CASE ProcessCrash
  <2>1. UNCHANGED <<final, data, syncedNames>>
    BY <1>4 DEF ProcessCrash
  <2>2. /\ Content(final)' = Content(final)
        /\ Content(syncedNames.final)' = Content(syncedNames.final)
    BY <2>1 DEF Content
  <2>3. QED BY <1>1, <1>2, <1>3, <2>2 DEF Promise!Stop
<1>5. CASE PowerLoss
  <2>1. PICK kept \in SUBSET (Inode \X Cells) :
          data' = [i \in Inode |-> [k \in Cells |->
                    IF <<i, k>> \in kept THEN data[i][k] ELSE syncedData[i][k]]]
    BY <1>5 DEF PowerLoss
  <2>2. \A i \in Inode : Settled(i) => data'[i] = data[i]
    BY <2>1 DEF IInv, TypeOK, Files, Settled
  <2>3. \A i \in {final, syncedNames.final} \ {NoInode} : i \in Inode /\ data'[i] = data[i]
    BY <2>2 DEF IInv, TypeOK, Names, Published
  <2>4. final' \in {final, syncedNames.final} /\ syncedNames'.final = final'
    BY <1>5 DEF PowerLoss
  <2>5. Content(final)' \in {Content(final), Content(syncedNames.final)}
    BY <2>3, <2>4 DEF Content
  <2>6. Content(syncedNames.final)' = Content(final)'
    BY <2>4 DEF Content
  <2>7. QED BY <1>1, <1>2, <1>3, <2>5, <2>6 DEF Promise!Stop
<1>6. QED BY <1>4, <1>5 DEF Crashes

\* The store implements its promise: it is one blob, there or not, written once and in one
\* piece, which stays once acknowledged and which a get returns as it was when it began
\* (atomic.rs:6-13, raw.rs:21-55).
THEOREM Refinement == ASSUME OneWriter PROVE Spec => IsAtomic
<1>1. Init => Promise!Init
  BY DEF Init, Promise!Init, Content
<1>2. Init => Vacant
  BY DEF Init, Vacant
<1>3. IInv /\ Vacant /\ [Next]_vars => Vacant'
  BY StepVacant, OneWriter
<1>4. IInv /\ IInv' /\ Vacant /\ [Next]_vars => [Promise!Next]_(Promise!vars)
  <2> SUFFICES ASSUME IInv, IInv', Vacant, [Next]_vars
               PROVE  Promise!Next \/ UNCHANGED Promise!vars
    OBVIOUS
  <2>1. CASE UNCHANGED vars
    BY <2>1, Unseen DEF vars
  <2>2. CASE \E w \in Writer : Begins(w) \/ Goes(w)
    BY <2>2, RefinesBegins, RefinesGoes DEF Promise!Next
  <2>3. CASE Gets \/ DeleteAccount \/ Crashes
    BY <2>3, RefinesGets, RefinesDelete, RefinesCrashes DEF Promise!Next
  <2>4. QED BY <2>1, <2>2, <2>3, NextParts
<1>5. QED BY <1>1, <1>2, <1>3, <1>4, Invariance, PTL DEF Spec, IsAtomic, Promise!Spec

-----------------------------------------------------------------------------
(* Puts that find the blob *)

LEMMA StepKept ==
  ASSUME IInv, OneWriter, FaultKinds \subseteq {"power"}, Removed, Kept, [Next]_vars
  PROVE  Removed' /\ Kept'
<1> USE NoInodeAssumption
<1> USE DEF IInv, TypeOK, Removed, Kept
<1>1. CASE UNCHANGED vars
  BY <1>1 DEF vars
<1>2. ASSUME NEW w \in Writer, Begins(w) PROVE Removed' /\ Kept'
  <2>1. CASE PutPresent(w)
    <3>1. \A v \in Writer : pc[v] # "syncdir"
      BY <2>1 DEF PutPresent, OneWriter
    <3>2. final # NoInode /\ acked' \in {"found", acked}
          /\ UNCHANGED <<disk, pc>>
      BY <2>1 DEF PutPresent
    <3>3. QED BY <3>1, <3>2
  <2>2. CASE PutAbsent(w)
    BY <2>2 DEF PutAbsent
  <2>3. CASE Create(w)
    <3>1. pc[w] = "create" /\ UNCHANGED <<dir, final, syncedNames, acked>>
          /\ (tmp' = tmp \/ dir) /\ \A v \in Writer : pc[v] # "syncdir"
      BY <2>3 DEF Create, OneWriter
    <3>2. QED BY <3>1
  <2>4. QED BY <1>2, <2>1, <2>2, <2>3 DEF Begins
<1>3. ASSUME NEW w \in Writer, Goes(w) PROVE Removed' /\ Kept'
  <2>1. CASE WriteChunk(w) \/ SyncFile(w)
    <3>1. UNCHANGED <<dir, tmp, final, syncedNames, acked>> /\ \A v \in Writer : pc[v] # "syncdir"
      BY <2>1 DEF WriteChunk, SyncFile, OneWriter
    <3>2. QED BY <3>1
  <2>2. CASE Rename(w)
    <3>1. CASE tmp = NoInode
      <4>1. UNCHANGED <<dir, tmp, final, syncedNames, acked>> /\ \A v \in Writer : pc[v] # "syncdir"
        BY <2>2, <3>1 DEF Rename, OneWriter
      <4>2. QED BY <4>1
    <3>2. CASE tmp # NoInode
      <4>1. /\ pc'[w] = "syncdir" /\ final' = tmp /\ tmp' = NoInode
            /\ UNCHANGED <<dir, syncedNames, acked>>
        BY <2>2, <3>2 DEF Rename
      <4>2. QED BY <3>2, <4>1
    <3>3. QED BY <3>1, <3>2
  <2>3. CASE SyncDir(w)
    <3>1. /\ pc[w] = "syncdir" /\ UNCHANGED names
          /\ acked' = IF dir /\ final # NoInode THEN "written" ELSE acked
          /\ syncedNames' = IF dir THEN [tmp |-> tmp, final |-> final] ELSE syncedNames
      BY <2>3 DEF SyncDir
    <3>2. QED BY <3>1, OneWriter DEF OneWriter
  <2>4. ~PutFails(w)
    BY DEF PutFails, Fault
  <2>5. QED BY <1>3, <2>1, <2>2, <2>3, <2>4 DEF Goes
<1>4. CASE Gets
  BY <1>4 DEF Gets, GetOpens, GetReads
<1>5. CASE DeleteAccount
  BY <1>5 DEF DeleteAccount
<1>6. CASE Crashes
  <2>1. PowerLoss
    BY <1>6 DEF Crashes, ProcessCrash, Fault
  <2>2. /\ final' \in {final, syncedNames.final} /\ acked' = acked
        /\ dir' = (dir \/ tmp' # NoInode \/ final' # NoInode)
        /\ syncedNames' = [tmp |-> tmp', final |-> final']
    BY <2>1 DEF PowerLoss
  <2>3. Removed'
    BY <2>2
  <2>4. Kept'
    BY <2>2
  <2>5. QED BY <2>3, <2>4
<1>7. QED BY <1>1, <1>2, <1>3, <1>4, <1>5, <1>6, NextParts

\* If the power is all that fails, whatever a put answered Ok for is there, also when it only
\* found the blob (core/src/storage/service.rs:15-16).  So what takes an acknowledged blob
\* is a put that dies or fails between its rename and the sync of the directory.
THEOREM FoundIsThere ==
  ASSUME OneWriter, FaultKinds \subseteq {"power"} PROVE Spec => []AckedIsThere
<1>1. Init => Removed /\ Kept
  BY DEF Init, Removed, Kept
<1>2. IInv /\ Removed /\ Kept /\ [Next]_vars => Removed' /\ Kept'
  BY StepKept, OneWriter, FaultKinds \subseteq {"power"}
<1>3. Kept => AckedIsThere
  BY DEF Kept, AckedIsThere
<1>4. QED BY <1>1, <1>2, <1>3, Invariance, PTL DEF Spec
==============================================================================
