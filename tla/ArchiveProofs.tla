---------------------------- MODULE ArchiveProofs ----------------------------
(***************************************************************************)
(* Proofs about Archive, for any messages, folders, batch size, faults and *)
(* restarts: what the database refers to is in the blob stores, the index  *)
(* has a message once at most and where its watermark says so, and what a  *)
(* deletion leaves behind is what something it overtook wrote there.       *)
(***************************************************************************)
EXTENDS Archive, TLAPS

USE DEF stores, actors, index, indexer, bounds, history

Syncs == SyncBegins \/ SyncEnds
Ingests(k) == IngestPut(k) \/ IngestEnqueue(k) \/ IngestFails(k)
Parses(k) == ParseRead(k) \/ ParseAttach(k) \/ Record(k) \/ JobFails(k)
Rebuilds == Reconcile \/ Reset \/ WriteVersion \/ RebuildFails
Drains == List \/ Fetch \/ DrainFails \/ Write \/ Mark
Deletes == DeleteRows \/ DeleteStep \/ CleanupFails \/ DeleteUser
Happens == (\E c \in Content : BlobLost(c) \/ BlobTorn(c)) \/ Stop \/ Start

\* The parts of Next, in the order of the lemmas.
LEMMA NextParts ==
  ASSUME Next
  PROVE \/ \E k \in Copy : Ingests(k) \/ Parses(k)
        \/ Syncs \/ Rebuilds \/ Drains \/ Deletes \/ Happens
BY DEF Next, IndexerStep, Syncs, Ingests, Parses, Rebuilds, Drains, Deletes, Happens

LEMMA CopyParts == \A k \in Copy : k[1] \in Content /\ k[2] \in Folder
BY DEF Copy

LEMMA InitIInv == Init => IInv
<1> SUFFICES ASSUME Init PROVE IInv
  OBVIOUS
<1>1. TypeOK
  <2>1. /\ raw \in [Content -> {"none", "ok", "lost", "torn"}]
        /\ stage \in [Copy -> Stages]
        /\ rows \in [Content -> {"none", "new", "indexed"}]
        /\ docs \in [Content -> Nat]
    BY DEF Init, Stages
  <2>2. ingests \in 0..MaxIngests /\ faults \in 0..MaxFaults /\ restarts \in 0..MaxRestarts
    BY BoundsAssumption DEF Init
  <2>3. QED BY <2>1, <2>2 DEF Init, TypeOK
<1>2. QED
  BY <1>1 DEF Init, IInv, Alive, ReferencesHaveBlobs, JobsStored, OneDocument, WatermarkHolds,
              IndexerKnows, SweptSoFar, Copy

-----------------------------------------------------------------------------
(* Types *)

LEMMA JobType ==
  ASSUME TypeOK, NEW k \in Copy, Ingests(k) \/ Parses(k) PROVE TypeOK'
<1> USE CopyParts DEF TypeOK, Goes, Stages, Fault
<1>1. CASE IngestPut(k)
  BY <1>1, BoundsAssumption DEF IngestPut
<1>2. CASE IngestEnqueue(k)
  BY <1>2 DEF IngestEnqueue
<1>3. CASE IngestFails(k)
  BY <1>3, BoundsAssumption DEF IngestFails
<1>4. CASE ParseRead(k)
  BY <1>4 DEF ParseRead
<1>5. CASE ParseAttach(k)
  BY <1>5 DEF ParseAttach
<1>6. CASE Record(k)
  BY <1>6 DEF Record
<1>7. CASE JobFails(k)
  BY <1>7, BoundsAssumption DEF JobFails
<1>8. QED BY <1>1, <1>2, <1>3, <1>4, <1>5, <1>6, <1>7 DEF Ingests, Parses

LEMMA SyncType == ASSUME TypeOK, Syncs PROVE TypeOK'
<1> USE DEF TypeOK, Stages
<1>1. CASE SyncBegins
  BY <1>1 DEF SyncBegins
<1>2. CASE SyncEnds
  BY <1>2 DEF SyncEnds
<1>3. QED BY <1>1, <1>2 DEF Syncs

LEMMA IndexerType == ASSUME TypeOK, Rebuilds \/ Drains PROVE TypeOK'
<1> USE DEF TypeOK, Fault, NoBatch, Nothing
<1>1. CASE Reconcile
  BY <1>1 DEF Reconcile
<1>2. CASE Reset
  BY <1>2 DEF Reset
<1>3. CASE WriteVersion
  BY <1>3 DEF WriteVersion
<1>4. CASE RebuildFails
  BY <1>4, BoundsAssumption DEF RebuildFails
<1>5. CASE List
  BY <1>5 DEF List, Unindexed
<1>6. CASE Fetch
  BY <1>6 DEF Fetch
<1>7. CASE DrainFails
  BY <1>7, BoundsAssumption DEF DrainFails
<1>8. CASE Write
  BY <1>8 DEF Write
<1>9. CASE Mark
  BY <1>9 DEF Mark
<1>10. QED
  BY <1>1, <1>2, <1>3, <1>4, <1>5, <1>6, <1>7, <1>8, <1>9 DEF Rebuilds, Drains

LEMMA DeleteType == ASSUME TypeOK, Deletes \/ Happens PROVE TypeOK'
<1> USE DEF TypeOK, Fault, NoBatch, Nothing, RowsGo
<1>1. CASE DeleteRows
  <2>1. swept' \subseteq {"raw", "att", "docs"} BY <1>1 DEF DeleteRows, Unwritten
  <2>2. QED BY <1>1, <2>1 DEF DeleteRows
<1>2. CASE DeleteStep
  <2>1. CASE DeleteRaw
    BY <2>1 DEF DeleteRaw
  <2>2. CASE DeleteAttachments
    BY <2>2 DEF DeleteAttachments
  <2>3. CASE DeleteDocuments
    BY <2>3 DEF DeleteDocuments
  <2>4. QED BY <1>2, <2>1, <2>2, <2>3 DEF DeleteStep
<1>3. CASE CleanupFails
  <2>1. /\ del' \in {"no", "raw", "att", "search", "done"}
        /\ swept' \subseteq {"raw", "att", "docs"}
    BY <1>3 DEF CleanupFails
  <2>2. faults' \in 0..MaxFaults
    BY <1>3, BoundsAssumption DEF CleanupFails
  <2>3. QED BY <1>3, <2>1, <2>2 DEF CleanupFails
<1>4. CASE DeleteUser
  <2>1. rows' \in [Content -> {"none", "new", "indexed"}] /\ live' \in BOOLEAN
    BY <1>4 DEF DeleteUser
  <2>2. faults' \in 0..MaxFaults
    BY <1>4, BoundsAssumption DEF DeleteUser
  <2>3. QED BY <1>4, <2>1, <2>2 DEF DeleteUser
<1>5. CASE \E c \in Content : BlobLost(c) \/ BlobTorn(c)
  <2>1. raw' \in [Content -> {"none", "ok", "lost", "torn"}] /\ swept' = swept
    BY <1>5 DEF BlobLost, BlobTorn
  <2>2. faults' \in 0..MaxFaults
    BY <1>5, BoundsAssumption DEF BlobLost, BlobTorn
  <2>3. QED BY <1>5, <2>1, <2>2 DEF BlobLost, BlobTorn
<1>6. CASE Stop
  <2>1. stage' \in [Copy -> Stages]
    BY <1>6 DEF Stop, Stages
  <2>2. swept' \subseteq swept /\ del' \in {"no", "raw", "att", "search", "done"}
    BY <1>6 DEF Stop
  <2>3. restarts' \in 0..MaxRestarts
    BY <1>6, BoundsAssumption DEF Stop
  <2>4. QED BY <1>6, <2>1, <2>2, <2>3 DEF Stop
<1>7. CASE Start
  BY <1>7 DEF Start
<1>8. QED BY <1>1, <1>2, <1>3, <1>4, <1>5, <1>6, <1>7 DEF Deletes, Happens

LEMMA TypeStep == ASSUME TypeOK, [Next]_vars PROVE TypeOK'
<1>1. CASE UNCHANGED vars
  BY <1>1 DEF vars, TypeOK
<1>2. CASE Next
  BY <1>2, NextParts, SyncType, JobType, IndexerType, DeleteType
<1>3. QED BY <1>1, <1>2

-----------------------------------------------------------------------------
(* References: a row has its blobs, and so has a job *)

Referenced == Alive /\ ReferencesHaveBlobs /\ JobsStored

LEMMA JobReferences ==
  ASSUME TypeOK, Referenced, NEW k \in Copy, Ingests(k) \/ Parses(k) PROVE Referenced'
<1> USE CopyParts DEF TypeOK, Referenced, Alive, ReferencesHaveBlobs, JobsStored, Goes, Fault
<1>1. CASE IngestPut(k)
  BY <1>1 DEF IngestPut
<1>2. CASE IngestEnqueue(k)
  BY <1>2 DEF IngestEnqueue
<1>3. CASE IngestFails(k)
  BY <1>3 DEF IngestFails
<1>4. CASE ParseRead(k)
  BY <1>4 DEF ParseRead
<1>5. CASE ParseAttach(k)
  BY <1>5 DEF ParseAttach
<1>6. CASE Record(k)
  BY <1>6 DEF Record
<1>7. CASE JobFails(k)
  BY <1>7 DEF JobFails
<1>8. QED BY <1>1, <1>2, <1>3, <1>4, <1>5, <1>6, <1>7 DEF Ingests, Parses

LEMMA SyncReferences ==
  ASSUME TypeOK, Referenced, Syncs PROVE Referenced'
<1>1. /\ UNCHANGED <<live, raw, att, rows, del>>
      /\ \A k \in Copy : stage'[k] \in {"stored", "queued", "read", "attached"}
                              => stage'[k] = stage[k]
  <2>1. CASE SyncBegins
    BY <2>1 DEF SyncBegins
  <2>2. CASE SyncEnds
    BY <2>2 DEF SyncEnds, TypeOK
  <2>3. QED BY <2>1, <2>2 DEF Syncs
<1>2. QED BY <1>1 DEF Referenced, Alive, ReferencesHaveBlobs, JobsStored

LEMMA IndexerReferences ==
  ASSUME TypeOK, Referenced, Rebuilds \/ Drains PROVE Referenced'
<1>1. /\ live' = live /\ raw' = raw /\ att' = att /\ stage' = stage /\ del' = del
      /\ \A c \in Content : rows'[c] = "none" <=> rows[c] = "none"
  <2>1. CASE Reset
    BY <2>1 DEF Reset, TypeOK
  <2>2. CASE Mark
    BY <2>2 DEF Mark, TypeOK
  <2>3. CASE Reconcile \/ WriteVersion \/ RebuildFails \/ List \/ Fetch \/ DrainFails \/ Write
    BY <2>3 DEF Reconcile, WriteVersion, RebuildFails, List, Fetch, DrainFails, Write
  <2>4. QED BY <2>1, <2>2, <2>3 DEF Rebuilds, Drains
<1>2. QED BY <1>1 DEF Referenced, Alive, ReferencesHaveBlobs, JobsStored

LEMMA DeleteReferences ==
  ASSUME TypeOK, Referenced, Deletes \/ Happens PROVE Referenced'
<1> USE CopyParts
    DEF TypeOK, Referenced, Alive, ReferencesHaveBlobs, JobsStored, Fault, RowsGo
<1>1. CASE DeleteRows
  BY <1>1 DEF DeleteRows
<1>2. CASE DeleteStep
  BY <1>2 DEF DeleteStep, DeleteRaw, DeleteAttachments, DeleteDocuments
<1>3. CASE CleanupFails
  BY <1>3 DEF CleanupFails
<1>4. CASE DeleteUser
  BY <1>4 DEF DeleteUser
<1>5. CASE \E c \in Content : BlobLost(c) \/ BlobTorn(c)
  BY <1>5 DEF BlobLost, BlobTorn
<1>6. CASE Stop
  <2>1. /\ UNCHANGED <<live, raw, att, rows>> /\ (live => del' = "no") /\ (~live => del' # "no")
    BY <1>6 DEF Stop
  <2>2. \A k \in Copy : /\ stage'[k] \notin {"stored", "read", "attached"}
                        /\ stage'[k] = "queued" => stage[k] \in {"queued", "read", "attached"}
    BY <1>6 DEF Stop
  <2>3. QED BY <2>1, <2>2
<1>7. CASE Start
  BY <1>7 DEF Start
<1>8. QED BY <1>1, <1>2, <1>3, <1>4, <1>5, <1>6, <1>7 DEF Deletes, Happens

LEMMA ReferenceStep ==
  ASSUME TypeOK, Referenced, [Next]_vars PROVE Referenced'
<1>1. CASE UNCHANGED vars
  BY <1>1 DEF vars, Referenced, Alive, ReferencesHaveBlobs, JobsStored
<1>2. CASE Next
  BY <1>2, NextParts, SyncReferences, JobReferences, IndexerReferences, DeleteReferences
<1>3. QED BY <1>1, <1>2

-----------------------------------------------------------------------------
(* The index and its watermark *)

Indexed == OneDocument /\ WatermarkHolds /\ IndexerKnows

LEMMA JobIndex ==
  ASSUME TypeOK, Alive, Indexed, NEW k \in Copy, Ingests(k) \/ Parses(k) PROVE Indexed'
<1>1. /\ UNCHANGED <<docs, version, pc, ready, skipped, live>>
      /\ \A c \in Content : rows'[c] = "indexed" => rows[c] = "indexed"
  <2>1. CASE Record(k)
    BY <2>1 DEF Record, TypeOK
  <2>2. CASE Ingests(k) \/ ParseRead(k) \/ ParseAttach(k) \/ JobFails(k)
    BY <2>2 DEF Ingests, IngestPut, IngestEnqueue, IngestFails, ParseRead, ParseAttach, JobFails
  <2>3. QED BY <2>1, <2>2 DEF Parses
<1>2. QED BY <1>1 DEF Indexed, OneDocument, WatermarkHolds, IndexerKnows

LEMMA SyncIndex ==
  ASSUME TypeOK, Alive, Indexed, Syncs PROVE Indexed'
<1>1. UNCHANGED <<docs, version, pc, ready, skipped, live, rows>>
  BY DEF Syncs, SyncBegins, SyncEnds
<1>2. QED BY <1>1 DEF Indexed, OneDocument, WatermarkHolds, IndexerKnows

LEMMA IndexerIndex ==
  ASSUME TypeOK, Alive, Indexed, Rebuilds \/ Drains PROVE Indexed'
<1> USE DEF TypeOK, Alive, Indexed, OneDocument, WatermarkHolds, IndexerKnows, Fault, NoBatch,
            Nothing
<1>1. CASE Reconcile
  BY <1>1 DEF Reconcile
<1>2. CASE Reset
  BY <1>2 DEF Reset
<1>3. CASE WriteVersion
  BY <1>3 DEF WriteVersion
<1>4. CASE RebuildFails
  BY <1>4 DEF RebuildFails
<1>5. CASE List \/ Fetch \/ DrainFails
  BY <1>5 DEF List, Fetch, DrainFails
<1>6. CASE Write
  BY <1>6 DEF Write
<1>7. CASE Mark
  <2>1. /\ UNCHANGED <<docs, version, live>> /\ pc' = "drain"
        /\ skipped' = skipped \cup (batch \ ready)
        /\ \A c \in Content : rows'[c] = "indexed" =>
              rows[c] = "indexed" \/ (c \in batch /\ rows[c] # "none")
    BY <1>7 DEF Mark
  <2>2. \A c \in Content : rows[c] # "none" => live
    OBVIOUS
  <2>3. QED BY <1>7, <2>1, <2>2 DEF Mark
<1>8. QED BY <1>1, <1>2, <1>3, <1>4, <1>5, <1>6, <1>7 DEF Rebuilds, Drains

LEMMA DeleteIndex ==
  ASSUME TypeOK, Alive, Indexed, Deletes \/ Happens PROVE Indexed'
<1> USE DEF TypeOK, Alive, Indexed, OneDocument, WatermarkHolds, IndexerKnows, Fault, NoBatch,
            Nothing, RowsGo
<1>1. CASE DeleteRows \/ DeleteUser
  BY <1>1 DEF DeleteRows, DeleteUser
<1>2. CASE DeleteRaw \/ DeleteAttachments
  BY <1>2 DEF DeleteRaw, DeleteAttachments
<1>3. CASE DeleteDocuments
  BY <1>3 DEF DeleteDocuments
<1>4. CASE CleanupFails
  BY <1>4 DEF CleanupFails
<1>5. CASE \E c \in Content : BlobLost(c) \/ BlobTorn(c)
  BY <1>5 DEF BlobLost, BlobTorn
<1>6. CASE Stop
  BY <1>6 DEF Stop
<1>7. CASE Start
  BY <1>7 DEF Start
<1>8. QED
  BY <1>1, <1>2, <1>3, <1>4, <1>5, <1>6, <1>7 DEF Deletes, DeleteStep, Happens

LEMMA IndexStep ==
  ASSUME TypeOK, Alive, Indexed, [Next]_vars PROVE Indexed'
<1>1. CASE UNCHANGED vars
  BY <1>1 DEF vars, Indexed, OneDocument, WatermarkHolds, IndexerKnows
<1>2. CASE Next
  BY <1>2, NextParts, SyncIndex, JobIndex, IndexerIndex, DeleteIndex
<1>3. QED BY <1>1, <1>2

-----------------------------------------------------------------------------
(* What a deletion has emptied for good *)

\* A step of a copy.  While "raw" is swept there is no sync and so no put; while "att"
\* is, no job either.
LEMMA JobSwept ==
  ASSUME TypeOK, SweptSoFar, NEW k \in Copy, Ingests(k) \/ Parses(k) PROVE SweptSoFar'
<1>1. /\ UNCHANGED <<live, sync, del, pc, docs, swept>>
      /\ ~sync => raw' = raw
  BY CopyParts
     DEF Ingests, Parses, IngestPut, IngestEnqueue, IngestFails, ParseRead, ParseAttach, Record,
         JobFails
<1>2. CASE Resolved(k) /\ ~sync
  BY <1>2 DEF Resolved, Ingests, Parses, IngestPut, IngestEnqueue, IngestFails, ParseRead,
              ParseAttach, Record, JobFails
<1>3. CASE "att" \notin swept
  BY <1>1, <1>3 DEF SweptSoFar
<1>4. QED BY <1>2, <1>3 DEF SweptSoFar

LEMMA SyncSwept ==
  ASSUME TypeOK, SweptSoFar, Syncs PROVE SweptSoFar'
<1> USE DEF TypeOK, SweptSoFar, Resolved
<1>1. CASE SyncBegins
  BY <1>1 DEF SyncBegins
<1>2. CASE SyncEnds
  BY <1>2 DEF SyncEnds
<1>3. QED BY <1>1, <1>2 DEF Syncs

\* The indexer touches documents alone.  A batch neither begins after the deletion, since
\* no row waits, nor is one being read while "docs" is swept.
LEMMA IndexerSwept ==
  ASSUME TypeOK, Alive, SweptSoFar, Rebuilds \/ Drains PROVE SweptSoFar'
<1>1. UNCHANGED <<live, sync, raw, att, stage, del, swept>>
  BY DEF Rebuilds, Drains, Reconcile, Reset, WriteVersion, RebuildFails, List, Fetch, DrainFails,
         Write, Mark
<1>2. ASSUME "docs" \in swept
      PROVE pc' # "fetch" /\ \A c \in Content : docs[c] = 0 => docs'[c] = 0
  <2>1. pc # "fetch" /\ ~live
    BY <1>2 DEF SweptSoFar
  <2>2. Unindexed = {}
    BY <2>1 DEF Alive, Unindexed
  <2>3. CASE Rebuilds
    BY <2>1, <2>3 DEF Rebuilds, Reconcile, Reset, WriteVersion, RebuildFails, Nothing
  <2>4. CASE Drains
    BY <2>1, <2>2, <2>4 DEF Drains, List, Fetch, DrainFails, Write, Mark
  <2>5. QED BY <2>3, <2>4
<1>3. QED BY <1>1, <1>2 DEF SweptSoFar, Resolved

LEMMA DeleteSwept ==
  ASSUME TypeOK, Alive, SweptSoFar, Deletes \/ Happens PROVE SweptSoFar'
<1> USE DEF TypeOK, Alive, SweptSoFar, Resolved, Fault
<1>1. CASE DeleteRows
  BY <1>1 DEF DeleteRows, RowsGo, Unwritten
<1>2. CASE DeleteStep
  BY <1>2 DEF DeleteStep, DeleteRaw, DeleteAttachments, DeleteDocuments, Nothing
<1>3. CASE CleanupFails
  BY <1>3 DEF CleanupFails
<1>4. CASE DeleteUser
  BY <1>4 DEF DeleteUser, RowsGo
<1>5. CASE \E c \in Content : BlobLost(c) \/ BlobTorn(c)
  BY <1>5 DEF BlobLost, BlobTorn
<1>6. CASE Stop
  <2>1. /\ UNCHANGED <<live, raw, att, docs>> /\ ~sync' /\ pc' = "down"
        /\ swept' \subseteq swept
        /\ del' # del => del' = "done"
    BY <1>6 DEF Stop
  <2>2. /\ "raw" \in swept' /\ del' \in {"att", "search", "done"}
              => del \in {"att", "search", "done"}
        /\ "att" \in swept' /\ del' \in {"search", "done"} => del \in {"search", "done"}
        /\ "docs" \in swept' /\ del' = "done" => del = "done"
    BY <1>6 DEF Stop
  <2>3. \A k \in Copy : stage[k] \in {"server", "done", "failed"} => stage'[k] = stage[k]
    BY <1>6 DEF Stop
  <2>4. QED BY <2>1, <2>2, <2>3
<1>7. CASE Start
  BY <1>7 DEF Start, Nothing
<1>8. QED BY <1>1, <1>2, <1>3, <1>4, <1>5, <1>6, <1>7 DEF Deletes, Happens

LEMMA SweptStep ==
  ASSUME TypeOK, Alive, SweptSoFar, [Next]_vars PROVE SweptSoFar'
<1>1. CASE UNCHANGED vars
  BY <1>1 DEF vars, SweptSoFar, Resolved
<1>2. CASE Next
  BY <1>2, NextParts, JobSwept, SyncSwept, IndexerSwept, DeleteSwept
<1>3. QED BY <1>1, <1>2

-----------------------------------------------------------------------------

\* The inductive invariant holds in every reachable state of ingest, parse jobs, search
\* indexer and deletion together.
THEOREM Invariance == Spec => []IInv
<1>1. IInv /\ [Next]_vars => IInv'
  BY TypeStep, ReferenceStep, IndexStep, SweptStep DEF IInv, Referenced, Indexed
<1>2. QED BY <1>1, InitIInv, PTL DEF Spec

\* Every variable keeps its type.
THEOREM TypeCorrect == Spec => []TypeOK
<1>1. IInv => TypeOK BY DEF IInv
<1>2. QED BY <1>1, Invariance, PTL

\* Whatever the database or the queue refers to is in the blob stores, unless the disk
\* lost it (ingest_raw, ParseMessageHandler::handle, delete_account).
THEOREM References == Spec => []ReferencesHaveBlobs
<1>1. IInv => ReferencesHaveBlobs BY DEF IInv
<1>2. QED BY <1>1, Invariance, PTL

\* No message has two documents (write_batch).
THEOREM Deduplicated == Spec => []OneDocument
<1>1. IInv => OneDocument BY DEF IInv
<1>2. QED BY <1>1, Invariance, PTL

\* An index of the current version has what its watermark says (drain_once,
\* reconcile_on_startup).
THEOREM Watermark == Spec => []WatermarkHolds
<1>1. IInv => WatermarkHolds BY DEF IInv
<1>2. QED BY <1>1, Invariance, PTL

\* When a deletion is over, a store whose clean-up met no error is empty unless a sync, a
\* parse job or an open batch that writes to it was under way when the account's rows
\* went (AccountServiceImpl::delete_account).
THEOREM CompleteDeletion == Spec => []DeletionIsComplete
<1>1. IInv => DeletionIsComplete BY DEF IInv, SweptSoFar, DeletionIsComplete
<1>2. QED BY <1>1, Invariance, PTL
==============================================================================
