------------------------------- MODULE Archive -------------------------------
(***************************************************************************)
(* What becomes of one account's mail between the sync task and a search:  *)
(* ingest (blob, then job), the parse job (blob, attachments, then rows),  *)
(* the search indexer that follows the rows, and the deletion of the       *)
(* account across the four stores they write (crates/core ingest, message  *)
(* and account services, crates/parser, crates/search).                    *)
(*                                                                         *)
(* The stores - database, blob directory, attachment directory, index -    *)
(* share no transaction.  What holds between them follows from the order   *)
(* of writes alone, through failures, restarts and the deletion.           *)
(*                                                                         *)
(* A message is its content (the hash is the identity, unique per          *)
(* account); the same content in two folders is two copies and one row.    *)
(* A transaction is one step.  Which job runs when is JobQueue's, which    *)
(* message is ingested when FolderSync's, what a put does BlobStore's.     *)
(***************************************************************************)
EXTENDS Naturals, FiniteSets

CONSTANTS
    Content,       \* messages; their order is that of the row ids
    Folder,
    Batch,         \* messages the indexer takes at a time
    MaxIngests,    \* bound: copies that arrive
    MaxFaults,     \* bound: faults of the kinds below
    FaultKinds,    \* of "io", "job", "cleanup", "rebuild", "lost", "torn"
    MaxRestarts    \* bound: times the process stops

ASSUME ContentAssumption == Content \subseteq Nat /\ IsFiniteSet(Content)
ASSUME BatchAssumption == Batch \in Nat \ {0}
ASSUME BoundsAssumption == MaxIngests \in Nat /\ MaxFaults \in Nat /\ MaxRestarts \in Nat
ASSUME FaultKindsAssumption ==
    FaultKinds \subseteq {"io", "job", "cleanup", "rebuild", "lost", "torn"}

Copy == Content \X Folder
Stages == {"server", "stored", "queued", "read", "attached", "done", "failed"}

VARIABLES
    live,          \* does the account's row exist?
    sync,          \* is there a task of the account, or a start that will spawn one?
    raw,           \* each message's blob: "none", "ok", or, by a fault of the disk,
                   \* "lost" (the file is gone) or "torn" (it does not decrypt)
    att,           \* the messages whose attachments are stored
    stage,         \* how far each copy has come
    rows,          \* each message's row: "none", or its watermark "new" or "indexed"
    docs,          \* each message's documents in the committed index
    version,       \* the index's schema_version file: "old" (or missing) or "current"
    pc,            \* the indexer
    batch, left,   \* its batch, the messages of it still to be read
    ready,         \* those it has a document for
    del,           \* delete_account: its next step
    ingests, faults, restarts,
    skipped,       \* history: messages marked indexed without a document
    swept          \* history: of "raw", "att" and "docs", the stores whose clean-up
                   \* met no error and no writer that the deletion overtook

stores == <<live, raw, att, rows>>
index == <<docs, version>>
actors == <<sync, del>>
indexer == <<pc, batch, left, ready>>
bounds == <<ingests, faults, restarts>>
history == <<skipped, swept>>
vars == <<live, raw, att, rows, docs, version, pc, batch, left, ready,
          stage, sync, del, ingests, faults, restarts, skipped, swept>>

\* A new account on a new installation; a restart brings another version of the index.
Init ==
    /\ live = TRUE
    /\ sync = FALSE
    /\ raw = [c \in Content |-> "none"]
    /\ att = {}
    /\ stage = [k \in Copy |-> "server"]
    /\ rows = [c \in Content |-> "none"]
    /\ docs = [c \in Content |-> 0]
    /\ version = "old"
    /\ pc = "reconcile"
    /\ batch = {} /\ left = {} /\ ready = {}
    /\ del = "no"
    /\ ingests = 0 /\ faults = 0 /\ restarts = 0
    /\ skipped = {}
    /\ swept = {}

Fault(kind) ==
    /\ kind \in FaultKinds
    /\ faults < MaxFaults
    /\ faults' = faults + 1

-----------------------------------------------------------------------------
(* Ingest, by a sync task *)

Goes(k, s) == stage' = [stage EXCEPT ![k] = s]

\* Mutant: a start uses folders it was given, without asking for them again.
SyncBegins_Captured ==
    /\ ~sync
    /\ sync' = TRUE
    /\ UNCHANGED <<stores, stage, index, indexer, del, bounds, history>>

\* A start lists the account's folders; those of a deleted account went with it.  From
\* then on the tasks it spawns know nothing of the account's row, however late they are.
SyncBegins ==
    /\ live
    /\ ~sync
    /\ sync' = TRUE
    /\ UNCHANGED <<stores, stage, index, indexer, del, bounds, history>>

\* The account's tasks have ended, or the start has failed.  An aborted task stops
\* between its put and its enqueue too.  (Who stops them when is AccountLifecycle's:
\* the page that deletes the account does so before, but not a start still under way.)
SyncEnds ==
    /\ sync
    /\ sync' = FALSE
    /\ stage' = [k \in Copy |-> IF stage[k] = "stored" THEN "server" ELSE stage[k]]
    /\ UNCHANGED <<stores, index, indexer, del, bounds, history>>

\* ingest_raw: put_if_absent of the raw bytes.  It does not look at the account.
IngestPut(k) ==
    /\ stage[k] = "server"
    /\ sync
    /\ ingests < MaxIngests
    /\ ingests' = ingests + 1
    /\ raw' = IF raw[k[1]] = "torn" THEN raw ELSE [raw EXCEPT ![k[1]] = "ok"]
    /\ Goes(k, "stored")
    /\ UNCHANGED <<live, att, rows, index, indexer, actors, faults, restarts, history>>

\* ingest_raw: enqueue the parse job.
IngestEnqueue(k) ==
    /\ stage[k] = "stored"
    /\ Goes(k, "queued")
    /\ UNCHANGED <<stores, index, indexer, actors, bounds, history>>

\* The enqueue fails: the pass ends, the cursor stays, the message is met again.
IngestFails(k) ==
    /\ stage[k] = "stored"
    /\ Fault("job")
    /\ Goes(k, "server")
    /\ UNCHANGED <<stores, index, indexer, actors, ingests, restarts, history>>

-----------------------------------------------------------------------------
(* The parse job *)

\* The raw blob is read.  BlobNotFound and DecryptionFailed are terminal.
ParseRead(k) ==
    /\ stage[k] = "queued"
    /\ Goes(k, IF raw[k[1]] = "ok" THEN "read" ELSE "failed")
    /\ UNCHANGED <<stores, index, indexer, actors, bounds, history>>

\* Mutant: the attachments are left for later.
ParseAttach_Later(k) ==
    /\ stage[k] = "read"
    /\ Goes(k, "attached")
    /\ UNCHANGED <<stores, index, indexer, actors, bounds, history>>

\* put_if_absent of every attachment.
ParseAttach(k) ==
    /\ stage[k] = "read"
    /\ att' = att \cup {k[1]}
    /\ Goes(k, "attached")
    /\ UNCHANGED <<live, raw, rows, index, indexer, actors, bounds, history>>

\* record_parsed_message: find or create the row, then upsert the location, in one
\* transaction.  (Locations are FolderSync's.)  Without the account the foreign key
\* fails the insert, the lookup of a winner finds none, and the Conflict is terminal.
Record(k) ==
    /\ stage[k] = "attached"
    /\ IF live
       THEN /\ rows' = [rows EXCEPT ![k[1]] = IF @ = "none" THEN "new" ELSE @]
            /\ Goes(k, "done")
       ELSE /\ Goes(k, "failed")
            /\ UNCHANGED rows
    /\ UNCHANGED <<live, raw, att, index, indexer, actors, bounds, history>>

\* A transient error, also of two transactions that race for the row: the job is
\* tried again (its attempts are bounded by MaxFaults here, by JobQueue there).
JobFails(k) ==
    /\ stage[k] \in {"read", "attached"}
    /\ Fault("job")
    /\ Goes(k, "queued")
    /\ UNCHANGED <<stores, index, indexer, actors, ingests, restarts, history>>

-----------------------------------------------------------------------------
(* The search indexer *)

NoBatch == batch' = {} /\ left' = {} /\ ready' = {}
Nothing == [c \in Content |-> 0]

\* reconcile_on_startup: needs_rebuild, and if so clear the index.
Reconcile ==
    /\ pc = "reconcile"
    /\ IF version = "current"
       THEN pc' = "drain" /\ UNCHANGED docs
       ELSE pc' = "reset" /\ docs' = Nothing
    /\ UNCHANGED <<stores, stage, version, batch, left, ready, actors, bounds, history>>

\* Mutant: the watermarks stay.
Reset_Skipped ==
    /\ pc = "reset"
    /\ pc' = "write_version"
    /\ UNCHANGED <<stores, stage, index, batch, left, ready, actors, bounds, history>>

\* reset_all_indexed.
Reset ==
    /\ pc = "reset"
    /\ rows' = [c \in Content |-> IF rows[c] = "none" THEN "none" ELSE "new"]
    /\ skipped' = {}
    /\ pc' = "write_version"
    /\ UNCHANGED <<live, raw, att, stage, index, batch, left, ready, actors, bounds, swept>>

WriteVersion ==
    /\ pc = "write_version"
    /\ version' = "current"
    /\ pc' = "drain"
    /\ UNCHANGED <<stores, stage, docs, batch, left, ready, actors, bounds, history>>

\* A step of the rebuild fails; it is logged, and the drain begins all the same.  A clear
\* whose commit failed may have emptied the index or not.
RebuildFails ==
    /\ \/ pc \in {"reset", "write_version"} /\ UNCHANGED docs
       \/ pc = "reconcile" /\ version = "old" /\ docs' \in {docs, Nothing}
    /\ Fault("rebuild")
    /\ pc' = "drain"
    /\ UNCHANGED <<stores, stage, version, batch, left, ready, actors, ingests, restarts, history>>

Unindexed == {c \in Content : rows[c] = "new"}

\* drain_once: list_unindexed, in the order of the ids, at most a batch.
List ==
    /\ pc = "drain"
    /\ Unindexed # {}
    /\ batch' = {c \in Unindexed : Cardinality({d \in Unindexed : d < c}) < Batch}
    /\ left' = batch'
    /\ ready' = {}
    /\ pc' = "fetch"
    /\ UNCHANGED <<stores, stage, index, actors, bounds, history>>

\* drain_once: the next blob of the batch.  A blob that is not there is skipped; any
\* other error fails the batch, of which nothing has been written.
Fetch ==
    /\ pc = "fetch"
    /\ \E c \in left :
         /\ \A d \in left : c <= d
         /\ IF raw[c] = "torn"
            THEN pc' = "drain" /\ NoBatch
            ELSE /\ ready' = IF raw[c] = "ok" THEN ready \cup {c} ELSE ready
                 /\ left' = left \ {c}
                 /\ UNCHANGED <<pc, batch>>
    /\ UNCHANGED <<stores, stage, index, actors, bounds, history>>

\* Mutant: what is left of the batch is kept.
DrainFails_KeepsLeft ==
    /\ pc \in {"fetch", "mark"}
    /\ Fault("io")
    /\ pc' = "drain"
    /\ batch' = {}
    /\ UNCHANGED <<stores, stage, index, left, ready, actors, ingests, restarts, history>>

\* A transient error of the storage or the database: the next tick begins anew.
DrainFails ==
    /\ pc \in {"fetch", "mark"}
    /\ Fault("io")
    /\ pc' = "drain"
    /\ NoBatch
    /\ UNCHANGED <<stores, stage, index, actors, ingests, restarts, history>>

\* Mutant: documents are added without deleting those of an earlier run.
Write_AddOnly ==
    /\ pc = "fetch"
    /\ left = {}
    /\ docs' = [c \in Content |-> IF c \in ready THEN docs[c] + 1 ELSE docs[c]]
    /\ pc' = "mark"
    /\ UNCHANGED <<stores, stage, version, batch, left, ready, actors, bounds, history>>

\* write_batch: delete_term and add_document for each, one commit.
Write ==
    /\ pc = "fetch"
    /\ left = {}
    /\ docs' = [c \in Content |-> IF c \in ready THEN 1 ELSE docs[c]]
    /\ pc' = "mark"
    /\ UNCHANGED <<stores, stage, version, batch, left, ready, actors, bounds, history>>

\* Mutant: every row that waits is marked, not only those of the batch.
Mark_Everything ==
    /\ pc = "mark"
    /\ rows' = [c \in Content |-> IF rows[c] # "none" THEN "indexed" ELSE rows[c]]
    /\ skipped' = skipped \cup (batch \ ready)
    /\ pc' = "drain"
    /\ NoBatch
    /\ UNCHANGED <<live, raw, att, stage, index, actors, bounds, swept>>

\* mark_indexed, of the rows that still exist.
Mark ==
    /\ pc = "mark"
    /\ rows' = [c \in Content |-> IF c \in batch /\ rows[c] # "none" THEN "indexed" ELSE rows[c]]
    /\ skipped' = skipped \cup (batch \ ready)
    /\ pc' = "drain"
    /\ NoBatch
    /\ UNCHANGED <<live, raw, att, stage, index, actors, bounds, swept>>

IndexerStep == Reconcile \/ Reset \/ WriteVersion \/ List \/ Fetch \/ Write \/ Mark

-----------------------------------------------------------------------------
(* The deletion of the account *)

Resolved(k) == stage[k] \in {"server", "done", "failed"}

\* The stores nothing under way will still write to: a sync puts blobs, and the jobs of
\* what it ingests put attachments; a batch writes documents until it is committed.
Unwritten == {s \in {"raw", "att", "docs"} :
                /\ s = "raw" => ~sync
                /\ s = "att" => ~sync /\ \A k \in Copy : Resolved(k)
                /\ s = "docs" => pc # "fetch"}

\* The rows go, with everything that hangs on them (ON DELETE CASCADE).
RowsGo ==
    /\ live' = FALSE
    /\ rows' = [c \in Content |-> "none"]

\* delete_account of the account service: the transaction.
DeleteRows ==
    /\ del = "no"
    /\ live
    /\ RowsGo
    /\ swept' = Unwritten
    /\ del' = "raw"
    /\ UNCHANGED <<sync, raw, att, stage, index, indexer, bounds, skipped>>

\* The clean-up after it, best effort: raw blobs, attachments, documents.
DeleteRaw ==
    /\ del = "raw"
    /\ raw' = [c \in Content |-> "none"]
    /\ del' = "att"
    /\ UNCHANGED <<sync, live, att, rows, stage, index, indexer, bounds, history>>

DeleteAttachments ==
    /\ del = "att"
    /\ att' = {}
    /\ del' = "search"
    /\ UNCHANGED <<sync, live, raw, rows, stage, index, indexer, bounds, history>>

\* Mutant: the deletion is not committed.
DeleteDocuments_NoCommit ==
    /\ del = "search"
    /\ del' = "done"
    /\ UNCHANGED <<sync, stores, stage, index, indexer, bounds, history>>

DeleteDocuments ==
    /\ del = "search"
    /\ docs' = Nothing
    /\ del' = "done"
    /\ UNCHANGED <<sync, stores, stage, version, indexer, bounds, history>>

\* A failed step is logged, and never tried again.
CleanupFails ==
    /\ del \in {"raw", "att", "search"}
    /\ Fault("cleanup")
    /\ swept' = swept \ {IF del = "search" THEN "docs" ELSE del}
    /\ del' = CASE del = "raw" -> "att" [] del = "att" -> "search" [] OTHER -> "done"
    /\ UNCHANGED <<sync, stores, stage, index, indexer, ingests, restarts, skipped>>

\* delete_user: the cascade takes the account's rows; nobody cleans up.
DeleteUser ==
    /\ del = "no"
    /\ live
    /\ Fault("cleanup")
    /\ RowsGo
    /\ del' = "done"
    /\ UNCHANGED <<sync, raw, att, stage, index, indexer, ingests, restarts, history>>

DeleteStep == DeleteRaw \/ DeleteAttachments \/ DeleteDocuments

-----------------------------------------------------------------------------
(* The disk, and the process *)

\* A blob disappears, or no longer decrypts (BlobStore says how that can happen).
BlobLost(c) ==
    /\ raw[c] = "ok"
    /\ Fault("lost")
    /\ raw' = [raw EXCEPT ![c] = "lost"]
    /\ UNCHANGED <<live, att, rows, stage, index, indexer, actors, ingests, restarts, history>>

BlobTorn(c) ==
    /\ raw[c] = "ok"
    /\ Fault("torn")
    /\ raw' = [raw EXCEPT ![c] = "torn"]
    /\ UNCHANGED <<live, att, rows, stage, index, indexer, actors, ingests, restarts, history>>

\* The process stops, in whatever it is doing.
Stop ==
    /\ restarts < MaxRestarts
    /\ pc # "down"
    /\ restarts' = restarts + 1
    /\ pc' = "down"
    /\ NoBatch
    /\ stage' = [k \in Copy |-> CASE stage[k] = "stored" -> "server"
                                  [] stage[k] \in {"read", "attached"} -> "queued"
                                  [] OTHER -> stage[k]]
    /\ del' = IF del \in {"raw", "att", "search"} THEN "done" ELSE del
    /\ swept' = swept \ CASE del = "raw" -> {"raw", "att", "docs"}
                           [] del = "att" -> {"att", "docs"}
                           [] del = "search" -> {"docs"}
                           [] OTHER -> {}
    /\ sync' = FALSE
    /\ UNCHANGED <<stores, index, ingests, faults, skipped>>

\* It starts: the same program, or one with another schema version; open_or_create
\* empties an index whose schema is incompatible.
Start ==
    /\ pc = "down"
    /\ pc' = "reconcile"
    /\ \/ UNCHANGED index
       \/ version' = "old" /\ docs' \in {docs, Nothing}
    /\ UNCHANGED <<stores, stage, batch, left, ready, actors, bounds, history>>

Running == pc # "down"

Next ==
    \/ Running /\ (SyncBegins \/ SyncEnds)
    \/ Running /\ \E k \in Copy :
         \/ IngestPut(k) \/ IngestEnqueue(k) \/ IngestFails(k)
         \/ ParseRead(k) \/ ParseAttach(k) \/ Record(k) \/ JobFails(k)
    \/ IndexerStep \/ RebuildFails \/ DrainFails
    \/ Running /\ (DeleteRows \/ DeleteStep \/ CleanupFails \/ DeleteUser)
    \/ \E c \in Content : BlobLost(c) \/ BlobTorn(c)
    \/ Stop \/ Start

Spec == Init /\ [][Next]_vars

\* The 2 s ticker of the indexer; a process that stops is started again.
FairSpec == Spec /\ WF_vars(IndexerStep) /\ WF_vars(Start)

-----------------------------------------------------------------------------
(* Properties *)

TypeOK ==
    /\ live \in BOOLEAN /\ sync \in BOOLEAN
    /\ raw \in [Content -> {"none", "ok", "lost", "torn"}]
    /\ att \subseteq Content
    /\ stage \in [Copy -> Stages]
    /\ rows \in [Content -> {"none", "new", "indexed"}]
    /\ docs \in [Content -> Nat]
    /\ version \in {"old", "current"}
    /\ pc \in {"down", "reconcile", "reset", "write_version", "drain", "fetch", "mark"}
    /\ left \subseteq batch /\ ready \subseteq batch /\ batch \subseteq Content
    /\ del \in {"no", "raw", "att", "search", "done"}
    /\ ingests \in 0..MaxIngests /\ faults \in 0..MaxFaults /\ restarts \in 0..MaxRestarts
    /\ skipped \subseteq Content
    /\ swept \subseteq {"raw", "att", "docs"}

\* What the database says of a message is backed by its stores: a row has its blob and
\* its attachments, a job of a live account its blob - unless the disk lost it.  The
\* orders "blob, then job" and "attachments, then rows" of ingest_raw and the parse
\* handler, and "rows, then blobs" of the deletion, must work together.
ReferencesHaveBlobs ==
    /\ \A c \in Content : rows[c] # "none" => raw[c] # "none" /\ c \in att
    /\ live => \A k \in Copy : stage[k] \in {"queued", "read", "attached"} => raw[k[1]] # "none"

\* However often a batch is cut short between its commit and its mark, by an error or
\* a restart, no message has two documents (write_batch).
OneDocument == \A c \in Content : docs[c] <= 1

\* The watermark tells the truth: once the index is of the current version, a message
\* marked indexed has its document, unless its blob was missing when it was drained.
WatermarkHolds ==
    version = "current" =>
        \A c \in Content : rows[c] = "indexed" /\ c \notin skipped => docs[c] = 1

\* What a deletion leaves behind: a store is empty when it is over, unless its clean-up
\* failed or was cut short, or one of the writers that the transaction overtook writes to
\* that very store - for blobs a sync, a start that had listed the folders included; for
\* attachments a sync or a parse job; for documents a batch not committed.  No job queued,
\* and no batch already committed, brings a blob or a document back.
DeletionIsComplete ==
    del = "done" =>
        /\ "raw" \in swept => \A c \in Content : raw[c] = "none"
        /\ "att" \in swept => att = {}
        /\ "docs" \in swept => \A c \in Content : docs[c] = 0

\* delete_account_modal.rs:19: the deletion "removes its database rows and all archived
\* message data on disk".  Not what a sync, a job or a batch writes after it, even when
\* no step fails.
NothingIsLeft ==
    del = "done" => att = {} /\ \A c \in Content : raw[c] = "none" /\ docs[c] = 0

\* The inductive invariant: what the account's row says of the deletion, what a job has
\* stored by each of its steps, what the indexer knows in the middle of a batch or of a
\* rebuild, and what a deletion has emptied for good so far.
Alive == (live <=> del = "no") /\ (~live => \A c \in Content : rows[c] = "none")
JobsStored ==
    live => \A k \in Copy :
        /\ stage[k] = "stored" => raw[k[1]] # "none"
        /\ stage[k] = "attached" => k[1] \in att
IndexerKnows ==
    /\ pc = "mark" /\ live => \A c \in ready : docs[c] = 1
    /\ pc \in {"reset", "write_version"} => version = "old"
    /\ pc = "write_version" => \A c \in Content : rows[c] # "indexed"
SweptSoFar ==
    /\ swept # {} => ~live
    /\ "raw" \in swept =>
         /\ ~sync
         /\ del \in {"att", "search", "done"} => \A c \in Content : raw[c] = "none"
    /\ "att" \in swept =>
         /\ ~sync /\ \A k \in Copy : Resolved(k)
         /\ del \in {"search", "done"} => att = {}
    /\ "docs" \in swept =>
         /\ pc # "fetch"
         /\ del = "done" => \A c \in Content : docs[c] = 0
IInv ==
    /\ TypeOK /\ Alive /\ ReferencesHaveBlobs /\ JobsStored
    /\ OneDocument /\ WatermarkHolds /\ IndexerKnows /\ SweptSoFar

\* Is the message found, or beyond finding?
Settled(c) == docs[c] = 1 \/ rows[c] = "none" \/ raw[c] # "ok" \/ c \in skipped

\* A rebuild failed after the index was cleared; the next start tries again.
HalfRebuilt == version = "old" /\ pc \in {"drain", "fetch", "mark"}

\* The search follows the archive: a message whose blob can be read comes to have a
\* document, through restarts, version changes, missing blobs and passing errors -
\* unless a rebuild stopped half way, or a blob does not decrypt.
EventuallySearchable ==
    \A c \in Content :
        rows[c] # "none" ~> Settled(c) \/ HalfRebuilt \/ \E d \in Content : raw[d] = "torn"

\* indexer.rs:20-24: "a single bad row can never wedge the drain loop forever".  One
\* whose blob does not decrypt does: its batch fails at every tick.
NeverWedged == \A c \in Content : rows[c] # "none" ~> Settled(c) \/ HalfRebuilt
==============================================================================
