# MailKeep: formal models

MailKeep archives IMAP mail: sync tasks fetch messages, the raw bytes go to an
encrypted content-addressed store, a background job parses each message into
SQLite rows, and an indexer makes them searchable. The modules in this directory
describe the parts of it whose correctness depends on interleavings, crashes and
failures. Everything is translated from the code; paths below are relative to
`src/crates/`.

## 1. Inventory

| component | state it keeps | operations | what is hard |
|---|---|---|---|
| Job queue (`core/src/jobs`, `database/src/adapters/jobs.rs`) | table `jobs`; each worker's claimed row; the `Notify` | enqueue, claim, complete, fail, fail_terminal, reset at start | N workers, retries, crash recovery, lost wake-ups, errors while reporting |
| Folder sync (`imap/src/sync.rs`) | cursor in `folders`, locals of a pass, the captured `FolderConfig` | poll pass, IDLE loop, `sync_folder`, rollover handling | server changes under the scan, crash between two transactions, stale cursor |
| IMAP adapter and account service (`imap/src/adapter.rs`, `core/src/imap/service.rs`) | map of tracked accounts, account status | start, stop, start all, reconcile | await between check and insert, stale snapshots of accounts |
| Ingest (`core/src/ingest`) | none of its own | `ingest_raw`: blob, then job | failure between the two |
| Parse handler (`parser/src/handler.rs`) | none of its own | blob -> attachments -> rows | runs at least once, out of order, fails terminally |
| Messages (`core/src/message`) | `messages`, `message_locations`, attachments | record a parsed message, drop locations of a folder | deduplication races, late jobs |
| Blob storage (`storage/src`) | files under `<root>/<account>/` | `put_if_absent`, `get`, `exists`, `delete_account` | shared temporary name, power loss, concurrent delete |
| Search indexer (`search/src`) | tantivy index, `messages.indexed`, version files | rebuild on start, drain | commit and watermark are two steps, unreadable blobs |
| Search queries (`search/src/service.rs`, `core/src/search`) | none | parse a query, scope and page results | scope after paging, boundaries |
| Accounts, folders (`core/src/account`, `core/src/folder`) | rows; an account's status | create, enable, disable, status, delete with clean-up | four stores without a common transaction |
| Users (`core/src/user`, `database/src/adapters/user.rs`, the pages that call them) | `users` with a `version` column, loaded permissions | first admin, create, update, reset a password, delete | read, decide, write in separate transactions |
| Single sign-on (`frontend/src/server/oidc.rs`) | the discovered client, flows in progress, in memory | discover, start, callback | a lock held across an await, repeats, expiry, outages |
| Sessions (`frontend/src/server/session_pool.rs`, `core/src/auth`) | `sessions` | load, store, clean up for the session library | little: calls of a library |
| Event bus (`core/src/event`) | a broadcast channel | notify, subscribe | lag (harmless: subscribers fetch again) |
| Statistics, crypto, MIME parsing, frontend pages, migrations, binary | - | read-only, pure, presentation or start-up | little |

How they interact: a sync task calls ingest, which stores a blob and enqueues a
`parse_message` job; a worker runs the parse handler, which reads the blob, stores
attachments and records the message and its location in one transaction; the
indexer polls for rows with `indexed = false` and reads their blobs. The account
service starts and stops the sync tasks. Everything shares one SQLite database
through a pool of ONE connection (`database/src/lib.rs:58-68`), so transactions
are serial; nothing else is: between two transactions any task may run, and the
process may die anywhere.

What makes each correct, and where it is stated: the queue runs every job at
least once and never twice at a time (`JobQueue`, `AtLeastOnce`); the sync never
skips mail and its locations are those of the server (`FolderSync`); a stored
blob is whole and stays (`BlobStore`); no sync task runs that nothing can stop, and a
disabled account's tasks end (`AccountLifecycle`); what a row names is stored, what is
marked as indexed is, and a deletion leaves at most what a sync, a job or a batch it
overtook puts back (`Archive`); a search shows the
user's own mail, in pages of one answer (`SearchQuery`); no change of a user is undone by
another (`Users`); a sign-on flow serves once, and while it is valid (`SignOn`).

`PROJECT.json` lists every component with its status and every hazard with its line.

## 2. Modules

| module | what it models |
|---|---|
| `AtLeastOnce` | the promise of the queue to its callers, without rows, workers or processes |
| `JobQueue` | rows, worker loops, process, database errors; refines `AtLeastOnce` |
| `JobQueueProofs` | the theorems about `JobQueue` |
| `FolderSync` | one folder: server, sync task (poll or IDLE), cursor, parse jobs, locations |
| `FolderSyncProofs` | the theorems about `FolderSync` |
| `AtomicBlob` | the promise of the blob store to those that put and get, without files, names or syncs |
| `BlobStore` | one blob: the write protocol system call by system call, readers, deletion, crashes, power loss; refines `AtomicBlob` for one writer |
| `BlobStoreProofs` | the theorems about `BlobStore` |
| `AccountLifecycle`, `AccountLifecycleProofs` | one account: its row, its tasks in the adapter's map, the pages' requests, the IMAP subsystem |
| `Archive`, `ArchiveProofs` | one account's mail across blobs, attachments, rows and index: ingest, parse, index, deletion |
| `SearchQuery`, `SearchQueryProofs` | one user's search, page by page, over stores that change |
| `Users`, `UsersProofs` | the table of users and every handler that writes it |
| `SignOn`, `SignOnProofs` | the OIDC client and the flows in progress |
| `MCJobQueue`, `MCFolderSync`, `MCBlobStore`, `MCAccountLifecycle`, `MCSearchQuery`, `MCUsers`, `MCSignOn` | constants and symmetry for TLC (`Archive` needs none) |

The modules meet at these interfaces. `FolderSync` takes of the queue what
`AtLeastOnce` promises, which `JobQueue` is proved to implement. `Archive` takes of a
put what `AtomicBlob` promises (a blob is there, whole, or the put failed), which
`BlobStore` is proved to implement for one writer, of the queue that a job runs again after a stop, and leaves which message is next to
`FolderSync`. `AccountLifecycle` starts and stops the tasks that `FolderSync` runs
(`StartTask`, `TaskGone`). `SearchQuery` sees of the indexer and the deletion that rows
and documents come and go, in two steps.

Operators named `Definition_Something` are deliberately wrong variants of
`Definition`. No specification uses them; put in the place of the definition,
each makes the property it is paired with in `PROJECT.json` fail.

### JobQueue

State: the columns of `jobs` that decide anything (`status`, `attempt`, `version`,
`sched`, `created`), the process (`proc`), and per worker its place in the loop of
`worker.rs:38-169` (`pc`), the row it claimed (`job`) and the handler's verdict
(`result`). `woken` and `unnotified` model `Notify`: `Notify(j)` happens after the
commit, as a step of its own, and wakes exactly the `notified` futures that exist
then (`Armed`). `outcomes` and `lost` are history variables.

| action | code |
|---|---|
| `Enqueue`, `Notify` | `enqueue_raw`, `enqueue_raw_delayed`: the transaction, then `notify_waiters` |
| `TopOfLoop`, `ClaimJob`, `ClaimNone`, `WaitBegins`, `WaitEnds`, `PollTimer` | shutdown check and subscription, `claim_next`, the `select!` |
| `Dispatch`, `Report` | the handler; `complete`, `fail` or `fail_terminal`, with the version guard |
| `DbError`, `PauseEnds` | a failing transaction: 10 s pause if transient, otherwise the worker and the process end |
| `Start`, `StartFails` | `reset_running_to_pending`, then the workers |
| `RequestShutdown`, `Exit`, `Crash` | orderly shutdown; a kill, or the end of the 10 s limit |

A payload is nothing but its handler's verdict. `now` counts the units of the
backoff. `delete_old_jobs` is not modelled: nothing calls it.

### FolderSync

A message is its content, because the archive identifies messages by content hash;
the same content may have several UIDs. `rec` is the cursor in the database,
`cfg` the one captured by `start_account`, `cur` the one the next `sync_folder`
gets. `pass` holds the locals of `sync_folder`. `handle_uidvalidity_change` is two
actions (`ResetCursor`, `DropLocations`) because it is two transactions. The
server is external: mail arrives and is expunged at any moment and the mailbox may
be recreated under a new UIDVALIDITY, after which the selected mailbox is empty.
The job queue appears as what `AtLeastOnce` promises: a parse job runs once
(`Parse`), again (`ParseAgain`) or fails for good (`ParseFails`), in any order.
`late` is a history variable.

### BlobStore

An inode has `Chunks` cells; a cell holds the number of the put that wrote it,
since every put encrypts with its own nonce. `tmp` and `final` are the two names;
`syncedNames` and `syncedData` what a power loss cannot take. After `PowerLoss`
each name and each cell independently has its current or its synced value. `Content`
maps a file to the put that wrote all of it, or to `Torn`, which is no version of the
blob: `IsAtomic` says that the store is `AtomicBlob` under that mapping, a reader's open
file and what a power loss would bring back included. One account and one blob suffice because names are never shared between blobs.
`attachment.rs` repeats `raw.rs` line by line, so the model is of both. `DeleteAccount` is a
step of `remove_dir_all`: it unlinks one name after the other, then removes the directory,
and may fail or be met by a put in between. In `AtomicBlob` a deletion therefore takes the
promise back before, or without, taking the blob, and what a power loss could bring back
of a deleted blob settles at some later sync (`Settle`).

### AccountLifecycle

One account; others share nothing with it but the list they are in. `row`, `enabled`,
`status` and `folders` are the database's; `tracked` is the adapter's map, `task` and
`live` what its handles own (`AccountHandle`: the tasks and their status cell). Each
request of a page and the subsystem is an actor with a place (`pc`) between two awaits
and what it holds there (`hand`, `seen`, `snap`).

| action | code |
|---|---|
| `Create`, `CreateFolders`, `Enable`, `Disable`, `ChooseFolders`, `SelectFolders`, `Delete`, `DeleteRow`, `RequestFails` | the server functions of `account_actions.rs` and `account_add_page/mod.rs`, transaction by transaction |
| `LoadEnabled`, `ListFolders`, `Unhook`, `Join`, `Spawn`, `Insert`, `Report` | `start_account`, `start_one`, `stop_account`: one action per await |
| `BootLists`, `ReconcileLists`, `ReconcileReads`, `ReconcileWrites`, `ReconcileTracked` | `start_all_enabled`, `reconcile_statuses` |
| `StopAll`, `StopAllLists`, `StopAllTracked`, `SubFails` | `stop_all` at shutdown, its database error |
| `TaskReports`, `TaskEnds` | what the tasks do to their status cell, their end after a cancel |
| `RequestShutdown`, `Exit`, `Crash`, `Boot` | the process |

### Archive

A message is its content and has copies in folders; `stage` says how far a copy has
come: stored, queued, read, attached, done. Blob directory (`raw`), attachments (`att`),
rows with their watermark (`rows`) and committed documents (`docs`) are four stores
without a common transaction. `sync` says whether there is a task of the account, or a start
that will spawn one: `SyncBegins` is a start's list of folders, the last thing it reads of
the account; from then on neither it nor `ingest_raw` asks whether the account still
exists, so a sync may go on after the deletion until `SyncEnds` (when that is, is
`AccountLifecycle`'s). `IngestPut`, `IngestEnqueue`, `ParseRead`, `ParseAttach`
and `Record` are the writes in their order; `Reconcile`, `Reset`, `WriteVersion` the
rebuild at start; `List`, `Fetch`, `Write`, `Mark` a batch of the drain; `DeleteRows`,
`DeleteRaw`, `DeleteAttachments`, `DeleteDocuments` the deletion, whose transaction
cascades (`RowsGo`); deleting a user does that transaction only. Every step may fail, and
the process may stop between any two and come back with another version of the index.
The disk may lose or damage a blob. `skipped` and `swept` are history variables; `swept`
has the stores whose clean-up met no error and that nothing under way at the deletion's
transaction still writes to (`Unwritten`).

### SearchQuery

The accounts, folders and messages that can exist are constants; which rows, places,
documents and accounts there are changes (`Record`, `Index`, `Forget`, `DeleteRows`,
`DeleteDocs`). A search is `Resolving` (one transaction), then `ListFolders` or
`Execute` and `PostFilter`, then `Show`, which is the page's own read of the rows and
its cursor. A text clause is the set of messages it matches: tokenizing is not
modelled, negation, dates, scope, hints, order, ties, over-fetch and paging are. Equal
dates are ordered by id in the database and by the document's address in the index.

### Users

Every handler that updates a row reads it in one transaction (`Found`), works on the
copy, and hands the whole record to `update_user`, which in another one reads the row,
compares versions and writes the columns that differ (`UpdateReads`, `UpdateWrites`).
A password is only own or given in the model, but its column holds a hash, so a new
password always counts as a change (`Changed`).
`OneConnection` says whether transactions take turns, as with the SQLite pool the
program opens. Permissions are those the session layer loaded last (`loaded`), which a
request may use after the row has changed. `meant` is a history variable: what
acknowledged calls made of a row.

### SignOn

`OidcClientCell` (`client`, `wait`, `lock`) and the flows in progress (`store`, `age`).
A request of the login page, of a start or of a callback takes the lock, discovers while it holds it, or is refused during the cooldown. The browser may repeat a
callback, never come back, or hang up, which drops the handler at its await and the
lock with it. A restart takes client and flows; the provider goes down and comes up.
Time is abstract: what is left of the cooldown, the age of a flow.

## 3. Runs

Each run takes between a second and a minute and a half on two cores. Bounds are
constants with "bound" in their comment.

| run | shows | bounds, and why they are enough |
|---|---|---|
| `queue_safety` | type, ownership, mutual exclusion, wake-ups, retry budget, finality, refinement of `AtLeastOnce` | 2 jobs of different priority, 2 workers, 2 attempts, 1 error while reporting (those of claim and reset are in `queue_liveness`), 1 stop, delays 0 and 1: two workers meet on every row, a job can be retried and then give up, a stop and an error combine. The theorems remove the bounds. |
| `queue_liveness` | every job is resolved | errors in claim and reset, one stop |
| `sync_poll` | type, `CheckpointCovers` for a poll task | 2 messages, 2 UIDs, 1 rollover, 1 failed pass, 1 stop, 1 lost parse job: a stale configuration meets each of them. The theorem covers the IDLE task and all bounds. |
| `sync_idle` | rollovers handled, no stale location, cursor monotone, every message archived | IDLE task, 2 messages, 2 UIDs in windows of 1, 1 rollover, 1 failed connection. The first three are stated of an undisturbed task (`Undisturbed`), see below. |
| `blob_safety` | type, a written blob stays, refinement of `AtomicBlob` (no torn blob, no torn read, nothing replaced) | 1 writer, 3 puts, 2 failures of any kind |
| `lifecycle` | no leaked tasks, complete shutdown; in the end disabled means stopped, and status follows tasks | 2 requests in flight of 2 in all besides the subsystem, 3 handles (one in the map and one in each start's hand), 1 failure, 1 stop. Tasks report an error: it is the report that differs from what a start writes. 0.6 million states. |
| `archive` | references, deduplication, watermark, deletion; every message searchable | 2 messages, 2 folders, 2 copies, batches of 2, 1 fault of any kind, 2 restarts: a rebuild can be cut short twice, a batch hold a good and a bad message, a sync outlive the account. 1.1 million states. |
| `search` | own mail only, rows answer the query, pages partition the answer | 5 messages with equal dates and one undated, 4 folders, 3 accounts (one of somebody else), 245 queries, pages of 1, over-fetch of 2 up to 4, 2 changes of the stores: the limit of the over-fetch is reached, and a row, a document, a place and an account each go between two reads. 1.2 million states. |
| `users` | no lost update, given passwords are changed, no super administrator demoted, deleted or made of a user there is | 2 rows, 2 requests in progress, 2 addresses, versions up to 3: a third update meets the result of two that overlapped. 1.4 million states. |
| `signon` | one session per flow, flows kept, recovery from an outage | 2 requests, 2 flows, 1 outage, 1 hang-up, 1 restart, cooldown and lifetime of 2 units |
| `search_hints` | *violated*: an account hint beside excluded folders | that of `search` without changes |
| `blob_shared` | *violated*: two writers | 2 writers, 2 puts |

Three inodes are enough for one writer: one under the temporary name, one under
the final name and one a reader still holds or a power loss may bring back.

Symmetry is used in safety runs only (workers, messages, inodes, writers), never
with a liveness property. TLC checks for deadlock except in `archive` and `search`, which
really end: once the bounds are used up and the drain has nothing to do, and once the
last page has been shown.

### Fairness

`JobQueue!Fairness`: weak fairness of each worker's steps (the async runtime polls
every ready task), of `Notify` (it follows the commit in the same function), of
`Exit`, of `Start` (a supervisor restarts the process) and of time. Handlers
return: `dispatch` has no timeout, so this is an assumption on them. Enqueueing,
errors, shutdowns and crashes are not fair. `FolderSync!Fairness`: weak fairness of
the sync task (its timers all have a limit: the poll interval, 29 minutes of IDLE,
backoff of at most 300 s) and of each parse job (by `EveryJobResolves`). Its exchanges with
the server have none: connecting (`connect.rs:101-127`), SELECT (`sync.rs:333`) and FETCH
(`sync.rs:397-400`) wait as long as the connection is open. That each of them ends, with an
answer or a broken connection, is an assumption on the server and the network, and
`EventuallyArchived` holds only under it. What the server's mailbox does is not fair. `AccountLifecycle!Fairness`: of the steps of each request and of the
subsystem once begun (its 30 s timer included), of the end of stopped tasks, and of
`Exit \/ Boot`: a shutdown ends, at the latest with the limit of 10 s
(`mailkeep.rs:96`), and a supervisor starts the process again. An aborted task ends at its next await; a
cancelled one only where it looks at its token, which is not within `connect_and_login` or
`sync_folder`, so `DisabledStops` and `StatusConverges` rest on the same assumption about
the server. Requests, task reports, failures and crashes are not fair. `Archive!FairSpec`: of the indexer (its 2 s ticker)
and of `Start`; ingest, jobs, deletion and faults are not fair. `SignOn!FairSpec`:
handlers run on, time passes, and somebody opens the login page now and then - without
a caller nothing is discovered; hang-ups are bounded, as a browser that always hangs up
keeps every discovery from ending. That a discovery returns, with or without success, is
assumed of the provider and the connection: `oidc.rs:148-155` sets no timeout, and while
one hangs it holds the lock. Weak fairness is enough throughout: a worker's or a task's
step, once possible, stays possible until it takes one.

### Where the code disagrees with its documentation

Two are runs TLC refutes, and findings in `PROJECT.json`:

1. `search_hints`: a query with no text, date or attachment terms whose folder hints are all
   exclusions is listed from the database, from all accounts of the user: its
   `account:` hints only decide which folders the exclusions name. `query.rs:27` makes the
   clauses of a query an implied AND. Account hints hold of every other kind of query
   (theorem `HintsHoldOtherwise`).
2. `blob_shared`: two writers of the same content share a temporary name; one
   renames the file the other has just truncated.

The others have a configuration each, which TLC refutes the same way
(`tlc -config FolderSync_crash.cfg MCFolderSync`, and so on):

3. `JobQueue_stranded.cfg` (`RecoversWithoutRestart`): a transient error in the
   transaction that reports a result leaves the row `Running` until the next start of the
   process, although `core/src/error.rs:104-107` says that the server recovers without one. The
   theorem `Recovery` says that it takes an error in that very transaction.
4. `FolderSync_rollover.cfg` (`RolloverHandled`): a poll task started before a folder's
   first sync never sees a rollover of it, and records the new UIDVALIDITY with the old
   locations in place (`sync.rs:461-463` says that every SELECT path handles it).
5. `FolderSync_crash.cfg` (`NoStaleLocation`): a crash between the two steps of the
   rollover handling is not harmless, as `sync.rs:467-470` says: the new UIDVALIDITY is
   recorded, so the old locations are never dropped.
6. `FolderSync_overtaken.cfg` (`CheckpointCovers`): without UIDNEXT, mail that arrives in
   the unused part of the window being ingested is skipped, and the cursor passes it.
7. `BlobStore_found.cfg` (`AckedIsThere`): a put that dies or fails between its rename
   and the sync of the directory leaves a name the next `put_if_absent` finds and
   answers Ok for; a power loss may still take it. The theorem `FoundIsThere` says that
   power losses alone do not.
8. `Archive_wedged.cfg` (`NeverWedged`, with `tlc -config Archive_wedged.cfg Archive`): a
   blob that is there but does not decrypt fails its batch at every tick, with everything
   behind it. `indexer.rs:20-24` says that a single bad row can never wedge the drain, and
   takes decryption errors for transient, which those of a damaged file are not.
9. `AccountLifecycle_backstop.cfg` (`BackstopStopsOnlyDisabled`): the backstop of
   `reconcile_statuses` works from a list read before; it stops the tasks of an account
   enabled since, and nothing starts them until the next start of the process.
10. `Users_bootstrap.cfg` (`RegistersOnce`): `register_admin` looks for users in one
    transaction and adds the first in another, so two calls can both succeed. Nothing else
    makes a second administrator of that kind (theorem `BootstrapOnce`).
11. `Users_pool.cfg`: with a pool of connections at read committed, which the program
    does not open today, `NoLostUpdate` fails: the UPDATE is not guarded by the version
    that was compared.

12. `Archive_left.cfg` (`NothingIsLeft`): a sync, a parse job or a batch that the deletion
    of its account overtakes writes blobs, attachments or documents after it, and nothing
    removes them again, although `delete_account_modal.rs:19` says that the deletion
    removes "all archived message data on disk". `DeletionIsComplete` says which store is
    safe from which of them.

A thirteenth needs no configuration of its own: `sync_idle` assumes UIDNEXT because without
it `EventuallyArchived` fails (`UidNext = FALSE` in its cfg shows it): the scan
stops at the first window without a message, in every pass, so mail beyond a gap of
`FETCH_BATCH` UIDs is never fetched.

`sync_idle` states three properties of an undisturbed task on purpose. An IDLE task that
reconnects goes back to the captured cursor, as a poll task does in every pass, so
`CursorMonotone` does not hold of either. And a failure or crash in the rollover handling
(`FolderSync_crash.cfg`), or before the first checkpoint of a folder, loses the only
record of the old UIDVALIDITY. `CheckpointCovers` and `EventuallyArchived` do not depend
on this.

## 4. Proofs

`JobQueueProofs` proves, for every set of jobs, every finite set of workers and all
values of the bounds, from the named assumptions on the constants in `JobQueue`:

| theorem | statement |
|---|---|
| `InductiveInvariant` | `Spec => []IInv` |
| `TypeCorrect`, `Ownership`, `MutualExclusion`, `WakeUps`, `BoundedRetries` | `TypeOK`, `OwnsItsRow`, `OneHandlerPerJob`, `NoLostWake`, `RetryBudget` always hold |
| `Finality` | no step changes a resolved row |
| `Refinement` | `Spec => KeepsPromise`: every step is a step of `AtLeastOnce` or a stutter |
| `RunningRowsAreRun` | if no report meets a database error, `[]NothingStranded`: while the process is up, a worker runs every row that says `Running` |
| `Recovery` | if no report meets a database error, `RecoversWithoutRestart` |

The safety properties are not inductive by themselves. That a retry stays within
the budget needs `BudgetLeft`: a row that waits, or is Running with no worker, has
an attempt left (or one lost run to show for it), which holds because `fail` puts a
row back only below `max_attempts` and a crash adds to `lost` what it takes from a
worker. `NoLostWake` needs `CreatedInThePast`, so that a row enqueued for now is
claimable at once and an empty claim proves there was none. Ownership needs
`DownIsIdle`, because `Start` touches Running rows, and the refinement needs
`ResultsRecorded`, because `Finish` and `Drop` are justified by what handlers
returned. The preservation proof is split by conjunct (`StepType`,
`StepOwnership`, `StepBudget`, `StepWake`, `StepResults`), each by action; the
refinement by `RefinesInit`, `RefinesQuiet` (the steps that stutter) and
`RefinesNext`.

`FolderSyncProofs` proves, for any messages, window size, bounds and kind of task:

| theorem | statement |
|---|---|
| `TypeCorrect` | `Spec => []TypeOK` |
| `InductiveInvariant` | with UIDNEXT, `Spec => []IInv` |
| `Checkpoint` | with UIDNEXT, `Spec => []CheckpointCovers` |
| `CursorInvariant` | of an IDLE task, `[](TypeOK /\ Selected /\ CursorKept)` |
| `CursorAdvances` | of an IDLE task, `CursorMonotone` |
| `RolloversAreHandled` | of an IDLE task, `RolloverHandled` |
| `LocationsAreCurrent` | of an IDLE task that no stop meets in the drop or within a window, `[]NoStaleLocation` |

`UidNext` is a hypothesis because without it the property is false
(`FolderSync_overtaken.cfg`). The recorded cursor alone says nothing of what the task will
write into it, so the invariant follows everything that can become a cursor: the
recorded, the captured and the working cursor are each `Sound` (if of the current
UIDVALIDITY, all present mail up to it is covered and no UID up to it is left to
assign); ages are in order, so a pass that meets a rollover after its SELECT
writes only a cursor that no longer counts; when `DropLocations` takes away what
covers the mail, every cursor is of an older UIDVALIDITY or at 0; and within a pass
(`ScanSound`, `WindowSound`) all below the window is covered, and in it covered or
fetched, because the window stops at a ceiling taken before the FETCH. An
arrival cannot break this, since it gets a UID above the ceiling. The rollover
renumbers the mailbox by rank, which is why types need the lemmas `Rank` (the ranks
of a finite set of numbers are 1 to its cardinality) and `Least`.

The other four need neither UIDNEXT nor that invariant. They rest on `CursorKept`: until
a pass fails, an IDLE task's cursor between two passes is the recorded one, in a pass the
recorded one is no further than what was reached, and equal to it once what was ingested
is checkpointed. `Kind = "idle"` is a hypothesis because a poll task goes back to the
captured cursor in every pass (`FolderSync_rollover.cfg` refutes it there).
`NoStaleLocation` adds `NoneStale`: the jobs and the locations are of the UIDVALIDITY the
scan works under or, outside of a scan, of the recorded one (and of both until the scan
ingests something), except for the locations that wait to be dropped and the jobs queued
before the rollover (`late`). Its hypothesis `StopsAreSafe` excludes a stop in the drop,
which `FolderSync_crash.cfg` shows to leave stale locations, and one within a window (that
cfg with `StopAt = {"window"}`): before the first checkpoint of a new folder nothing of
its UIDVALIDITY is recorded, so a rollover before the next start is not seen. A stop at any
other point is harmless.

`AccountLifecycleProofs` proves `TypeCorrect`, `NothingLeaks` (`NoLeak`),
`ShutdownIsComplete` (`ShutdownStopsAll`) and `OwnersDiffer`, for any number of requests
and handles. `NoLeak` is inductive only with `OneOwner`: an insert that replaces a handle
aborts the tasks of the one it replaces, and this loses nothing because no one else
holds that handle. `ShutdownStopsAll` needs `QuietShutdown`: once the subsystem has read the
map, nothing enters it.

`ArchiveProofs` proves `References`, `Deduplicated`, `Watermark` and `CompleteDeletion`
(`ReferencesHaveBlobs`, `OneDocument`, `WatermarkHolds`, `DeletionIsComplete`) for any
messages, batch size and number of faults and restarts. The invariant adds what a job has
stored by each of its steps (`JobsStored`), what the indexer may rely on between commit
and mark and between the steps of a rebuild (`IndexerKnows`: the new version is written
only after the watermarks were reset), and which of the stores in `swept` are empty by now, and stay so
(`SweptSoFar`). `CompleteDeletion` has to exclude the writers that the deletion overtook,
store by store, because they do bring files and documents back (`Archive_left.cfg`); what it
says is that nothing else does - no job still queued, whose blob is gone by the time it is
read, no batch that was committed, no failure and restart of the others.

`BlobStoreProofs` assumes `OneWriter` - with two, `NoTornBlob` is false (`blob_shared`)
- and proves `Atomic`, `ReadsWhole` and `DurableWrites` for any number of chunks, inodes,
puts and faults. The invariant follows the file of the writer cell by cell (`Written`),
keeps it apart from the published one (`Apart`), and says that a file under the final
name, also one that a power loss would bring back, is whole and synced (`Published`,
`Durable`). `Refinement` proves `Spec => IsAtomic` from it: `Rename` is `Store`, `SyncDir`
is `Acknowledge` (or `Settle`, when a deletion has taken the blob since), a step of a
deletion, a get's two steps and a stop are those of `AtomicBlob`, and all else stutters. It needs `Vacant` besides: while the only writer is under way the final
name is free, so the rename replaces nothing. `FoundIsThere` proves `AckedIsThere`, for
one writer, when `FaultKinds` has nothing but power losses: with `Removed` and `Kept`, a
name found outside of a put's own steps has been synced.

`SearchQueryProofs` proves `OwnMailOnly` (`HitsBelong`) with no assumption on how the stores
change, and `RowsAreAnswers` (`RowsAnswer`) for stores that stay the same. The latter
needs `StagesAnswer`: what the scope, the folder constraints and the hits of each stage
mean in terms of the query, in particular that the half-open ranges of `InRange` are the
days of the clause. `HintsHoldOtherwise` is a corollary.

`PagesArePartition` (`PagesPartition`) is proved for any messages, page size, over-fetch and
fetch limit. Pages are cut by rank: the lemmas on ranks and cuts say that in a finite
strictly ordered set ranks are 0 to its cardinality less one, different for different
elements, and that a beginning that is closed under "before" is a cut. The invariant `PagesInv` says
that what has been shown is the `Segment` of the list from 0 to the cursor (`PagesSoFar`)
and that each stage of a search has the segment that follows, or enough of it
(`StagesPage`). The post-filter is the hard step: what it keeps of a beginning of the
index's order is a beginning of the filtered list (`KeptIsClosed`), which is why the pages
are right whenever the fetch reached the end, and never overlap when it did not.

`UsersProofs` proves `TypeCorrect` in general and, with `OneConnection`,
`NothingIsLost` and `GivenPasswordsChange`. Neither is inductive without `ReadsHold`: a record
in a call's hand differs from the one it read only in the fields it sets, and while the
versions agree the row is still the one it read.

Who is a super administrator does not depend on the isolation: `SuperAdminsStay`
(`SuperAdminsKept`) and `AdministratorIsThere` (`AdministratorStays`: an installation with
users has one) hold with a pool too, although the handlers check a row in one transaction
and act on it in another. The invariant `RanksHold` says why: the row a call read, the
record it hands back and the row in the table agree on this, so whichever columns of
whichever record reach the table leave it as it is; and permissions are only ever loaded
when there is a super administrator. `BootstrapOnce` proves `RegistersOnce` from
`[]OneRegistration`, that no two calls of `register_admin` overlap, the one reason why it
fails (`Users_bootstrap.cfg`).

`SignOnProofs` proves `TypeCorrect` (with who holds the lock), `SignsInOnce` and
`KeepsFlows` for any number of requests and flows and any cooldown and lifetime; the
invariant says who has taken a flow, and that a flow in the store has not been over.

Every theorem rests on the named assumptions on constants of its module, which TLC
evaluates in the runs.

Each inductive invariant was first added to the cfg of a run and checked by TLC. Where a
property needs a hypothesis (`UidNext`, `Kind = "idle"`, `StopsAreSafe`, `OneWriter`,
`OneConnection`, no faulty report), it fails without it, and a configuration named above
shows how.

Model-checked only: liveness (`EveryJobResolves`, `EventuallyArchived`, `DisabledStops`,
`StatusConverges`, `EventuallySearchable`, `Recovers`), which is outside of what the prover
handles. Every invariant and action property of the runs is the statement of a theorem.

## 5. Not modelled, and the plan

Pure transformations are left out: the parser of the query text, tokenizing, MIME
parsing, HTML rendering, encryption. So are read-only queries (statistics, listings), the
event bus (a lost event costs a browser a refresh), the table of sessions behind the
session library, one-row settings, configuration, logging and migrations. Most of the
repository's lines are tests (in the same files as the code they test, and
`integration-tests`) and pages, which is why the lines the modules stand for remain a
small share of it. The integration tests were read as evidence of intended behaviour.
`update_account` and its version column, and `delete_old_jobs`, have no caller outside of
tests.

What could follow, in order:

1. Several folders in one poll pass: one folder's failure ends the pass for those after it.
2. Theorems about what follows a failure: how far the cursor of an IDLE task falls back
   when it reconnects, and that what it then fetches again is deduplicated.
3. `Archive` over the queue as `AtLeastOnce` and over `AtomicBlob` (INSTANCE) instead of
   a stage per copy and a set of blobs.
4. The parser of the query text as a recursive function, against a grammar, over short
   strings.
