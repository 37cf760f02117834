----------------------------- MODULE FolderSync ------------------------------
(***************************************************************************)
(* The archiving of one IMAP folder: the sync task that owns the folder    *)
(* (imap/src/sync.rs), the cursor it keeps in table folders, the parse     *)
(* jobs it enqueues and the message locations they record.                 *)
(*                                                                         *)
(* start_account gives every enabled folder to exactly one task, the IDLE  *)
(* task or the poll task of its account (imap/src/adapter.rs:211-215).     *)
(* Kind says which one; the two differ in the cursor they trust:           *)
(*   - a poll task uses the FolderConfig captured when it was started, in  *)
(*     every pass it ever makes;                                           *)
(*   - an IDLE task uses it for the first SELECT of a connection, then the *)
(*     cursor sync_folder returned.                                        *)
(*                                                                         *)
(* A message is its content (the archive identifies messages by content    *)
(* hash).  A parse job is delivered at least once, in any order, and may   *)
(* end in a terminal failure: that is what JobQueue provides.  The IMAP    *)
(* server is external: mail arrives, is expunged, and the mailbox may be   *)
(* recreated under a new UIDVALIDITY.                                      *)
(***************************************************************************)
EXTENDS Integers, FiniteSets

CONSTANTS
    Kind,          \* the task that owns the folder: "poll" or "idle"
    UidNext,       \* does the server send UIDNEXT with SELECT?
    Batch,         \* FETCH_BATCH
    Content,       \* messages
    Gone,          \* no message has this UID
    NoLocation,    \* the message has no row in message_locations
    MaxUid,        \* bound: UIDs under one UIDVALIDITY
    MaxValidity,   \* bound: UIDVALIDITY values
    MaxStops,      \* bound: crashes and stops of the task
    StopAt,        \* bound: where the task may be when it stops
    MaxFailures,   \* bound: passes that fail
    MaxDropped     \* bound: parse jobs that fail terminally

ASSUME KindAssumption == Kind \in {"poll", "idle"}
ASSUME UidNextAssumption == UidNext \in BOOLEAN
ASSUME BatchAssumption == Batch \in Nat \ {0}
ASSUME BoundsAssumption ==
    /\ MaxUid \in Nat \ {0} /\ MaxValidity \in Nat \ {0}
    /\ MaxStops \in Nat /\ MaxFailures \in Nat /\ MaxDropped \in Nat
ASSUME GoneAssumption == Gone \notin Content

Points == {"connect", "select", "reset", "drop", "scan", "window", "parked"}
ASSUME StopAtAssumption == StopAt \subseteq Points

Uids == 1..MaxUid
Validities == 1..MaxValidity
Cursors == [uv : 0..MaxValidity, uid : 0..MaxUid]   \* uv = 0 is None
Places == [uid : Uids, uv : Validities]
Items == [uid : Uids, msg : Content]                \* what a FETCH returns
Jobs == [uid : Uids, uv : Validities, msg : Content]
ASSUME NoLocationAssumption == NoLocation \notin Places

VARIABLES
    mail,          \* the server's mailbox: UID -> message
    uidNext,       \* the next UID it assigns
    uidValidity,   \* its UIDVALIDITY
    rec,           \* folders.uidvalidity and folders.last_uid
    loc,           \* message_locations of this folder, by message
    jobs,          \* parse jobs not resolved yet
    failed,        \* messages whose parse job failed terminally
    pc,            \* where the task stands
    cfg,           \* the FolderConfig captured by start_account
    cur,           \* the cursor the next sync_folder is called with
    pass,          \* the locals of sync_folder
    fetched,       \* items of its window still to ingest
    stops, failures,
    late           \* history: messages with a job pending when a rollover is handled

server == <<mail, uidNext, uidValidity>>
archive == <<loc, jobs, failed>>
task == <<cfg, cur, pass, fetched>>
bounds == <<stops, failures>>
vars == <<mail, uidNext, uidValidity, rec, loc, jobs, failed, pc, cfg, cur, pass,
          fetched, stops, failures, late>>

NoCursor == [uv |-> 0, uid |-> 0]

\* uv: server_uidvalidity; upper: UIDNEXT - 1 (not used without UIDNEXT);
\* from and to: the window; high: the high-water UID; any: fetched_any;
\* ingested: is the counter above zero?
NoPass == [uv |-> 0, upper |-> 0, from |-> 0, to |-> 0, high |-> 0,
           any |-> FALSE, ingested |-> FALSE]

Init ==
    /\ mail = [u \in Uids |-> Gone]
    /\ uidNext = 1
    /\ uidValidity = 1
    /\ rec = NoCursor
    /\ loc = [m \in Content |-> NoLocation]
    /\ jobs = {}
    /\ failed = {}
    /\ pc = "off"
    /\ cfg = NoCursor
    /\ cur = NoCursor
    /\ pass = NoPass
    /\ fetched = {}
    /\ stops = 0
    /\ failures = 0
    /\ late = {}

-----------------------------------------------------------------------------
(* The server *)

Present == {u \in Uids : mail[u] # Gone}

Arrive(m) ==
    /\ uidNext <= MaxUid
    /\ mail' = [mail EXCEPT ![uidNext] = m]
    /\ uidNext' = uidNext + 1
    /\ UNCHANGED <<uidValidity, rec, archive, pc, task, bounds, late>>

Expunge(u) ==
    /\ u \in Present
    /\ mail' = [mail EXCEPT ![u] = Gone]
    /\ UNCHANGED <<uidNext, uidValidity, rec, archive, pc, task, bounds, late>>

\* The mailbox is recreated: its messages keep their order and are numbered
\* anew.
Rollover ==
    /\ uidValidity < MaxValidity
    /\ uidValidity' = uidValidity + 1
    /\ mail' = [n \in Uids |->
                 IF n > Cardinality(Present) THEN Gone
                 ELSE mail[CHOOSE u \in Present :
                             Cardinality({v \in Present : v <= u}) = n]]
    /\ uidNext' = Cardinality(Present) + 1
    /\ UNCHANGED <<rec, archive, pc, task, bounds, late>>

-----------------------------------------------------------------------------
(* The sync task *)

\* start_account: the folder rows are read once and handed to the task.
StartTask ==
    /\ pc = "off"
    /\ cfg' = rec
    /\ pc' = "connect"
    /\ UNCHANGED <<server, rec, archive, cur, pass, fetched, bounds, late>>

\* A new connection starts from the captured configuration.
Connect ==
    /\ pc = "connect"
    /\ cur' = cfg
    /\ pc' = "select"
    /\ UNCHANGED <<server, rec, archive, cfg, pass, fetched, bounds, late>>

\* Mutant: UIDVALIDITY is not compared.
RolledOver_Never == FALSE

\* A rollover is what cur says it is: None never differs.
RolledOver == cur.uv # 0 /\ cur.uv # uidValidity

\* A folder whose UIDVALIDITY is not the one in the cursor is scanned from
\* UID 1.
LastUid == IF RolledOver THEN 0 ELSE cur.uid

\* sync_folder up to its scan, or up to the rollover handling.
Select ==
    /\ pc = "select"
    /\ pass' = [NoPass EXCEPT !.uv = uidValidity, !.upper = uidNext - 1,
                              !.from = LastUid + 1, !.high = LastUid]
    /\ pc' = IF RolledOver THEN "reset" ELSE "scan"
    /\ UNCHANGED <<server, rec, archive, cfg, cur, fetched, bounds, late>>

\* The server refuses the SELECT: the poll task skips the folder until its next
\* pass.  (An IDLE task fails its connection: PassFails.)
SelectRefused ==
    /\ pc = "select"
    /\ Kind = "poll"
    /\ failures < MaxFailures
    /\ failures' = failures + 1
    /\ pc' = "parked"
    /\ UNCHANGED <<server, rec, archive, task, stops, late>>

\* handle_uidvalidity_change, in its two transactions: the cursor, then the
\* locations.
ResetCursor ==
    /\ pc = "reset"
    /\ rec' = [uv |-> pass.uv, uid |-> 0]
    /\ late' = late \cup {j.msg : j \in jobs}
    /\ pc' = "drop"
    /\ UNCHANGED <<server, archive, task, bounds>>

\* Mutant: a cleanup that only drops the locations of messages still on the server.
DropLocations_Some ==
    /\ pc = "drop"
    /\ loc' = [m \in Content |->
                 IF \E u \in Present : mail[u] = m THEN NoLocation ELSE loc[m]]
    /\ pc' = "scan"
    /\ UNCHANGED <<server, rec, jobs, failed, task, bounds, late>>
DropLocations ==
    /\ pc = "drop"
    /\ loc' = [m \in Content |-> NoLocation]
    /\ pc' = "scan"
    /\ UNCHANGED <<server, rec, jobs, failed, task, bounds, late>>

\* sync_folder returns (high, server_uidvalidity); only the IDLE task keeps
\* them for its next call.
Return ==
    /\ pc' = "parked"
    /\ pass' = NoPass
    /\ cur' = IF Kind = "idle" THEN [uv |-> pass.uv, uid |-> pass.high] ELSE cur

\* Mutant: a cursor that names the next UID to fetch.
Reached_Next(h) == [uv |-> pass.uv, uid |-> h + 1]
Reached(h) == [uv |-> pass.uv, uid |-> h]

\* UIDNEXT says there is nothing above the cursor: stamp and return.
NothingNew ==
    /\ pc = "scan"
    /\ UidNext
    /\ pass.upper < pass.from
    /\ rec' = Reached(pass.high)
    /\ Return
    /\ UNCHANGED <<server, archive, cfg, fetched, bounds, late>>

WindowEnd ==
    IF UidNext /\ pass.upper < pass.from + Batch - 1 THEN pass.upper
    ELSE pass.from + Batch - 1

\* UID FETCH from:to.  A mailbox recreated since the SELECT has nothing left
\* under the selected UIDVALIDITY.
Fetch ==
    /\ pc = "scan"
    /\ UidNext => pass.from <= pass.upper
    /\ pass' = [pass EXCEPT !.to = WindowEnd, !.any = FALSE]
    /\ fetched' = IF pass.uv # uidValidity THEN {}
                  ELSE {[uid |-> u, msg |-> mail[u]] :
                          u \in Present \cap (pass.from..WindowEnd)}
    /\ pc' = "window"
    /\ UNCHANGED <<server, rec, archive, cfg, cur, bounds, late>>

JobOf(i) == [uid |-> i.uid, uv |-> pass.uv, msg |-> i.msg]
HighWith(u) == IF u > pass.high THEN u ELSE pass.high

\* Mutant: a cursor written with every message.
Ingest_Checkpoint(i) ==
    /\ pc = "window"
    /\ i \in fetched
    /\ jobs' = jobs \cup {JobOf(i)}
    /\ pass' = [pass EXCEPT !.high = HighWith(i.uid), !.any = TRUE, !.ingested = TRUE]
    /\ rec' = Reached(HighWith(i.uid))
    /\ fetched' = fetched \ {i}
    /\ UNCHANGED <<server, loc, failed, pc, cfg, cur, bounds, late>>

\* ingest_raw of one item: the blob is stored, then its parse job is committed.
\* The server sends the items of a window in any order.
Ingest(i) ==
    /\ pc = "window"
    /\ i \in fetched
    /\ jobs' = jobs \cup {JobOf(i)}
    /\ pass' = [pass EXCEPT !.high = HighWith(i.uid), !.any = TRUE, !.ingested = TRUE]
    /\ fetched' = fetched \ {i}
    /\ UNCHANGED <<server, rec, loc, failed, pc, cfg, cur, bounds, late>>

\* An item without a body (expunged under the FETCH) is passed over.
PassOver(i) ==
    /\ pc = "window"
    /\ i \in fetched
    /\ pass.uv = uidValidity => mail[i.uid] = Gone
    /\ fetched' = fetched \ {i}
    /\ UNCHANGED <<server, rec, archive, pc, cfg, cur, pass, bounds, late>>

\* Mutant: any empty window ends the scan.
LastWindow_Empty == ~pass.any

\* The scan stops at the known ceiling or, without UIDNEXT, at the first empty
\* window.  (The end of the u32 range is out of MaxUid's reach.)
LastWindow == IF UidNext THEN pass.to >= pass.upper ELSE ~pass.any

\* A checkpoint follows a window that ingested something, and ends a scan that
\* ingested nothing at all.
Checkpoints == pass.any \/ (LastWindow /\ ~pass.ingested)

EndWindow ==
    /\ pc = "window"
    /\ fetched = {}
    /\ rec' = IF Checkpoints THEN Reached(pass.high) ELSE rec
    /\ IF LastWindow
       THEN Return
       ELSE pc' = "scan" /\ pass' = [pass EXCEPT !.from = pass.to + 1] /\ UNCHANGED cur
    /\ UNCHANGED <<server, archive, cfg, fetched, bounds, late>>

\* Mutant: the pass after a wait goes back to the captured cursor.
Wake_Captured ==
    /\ pc = "parked"
    /\ pc' = IF Kind = "idle" THEN "select" ELSE "connect"
    /\ cur' = cfg
    /\ UNCHANGED <<server, rec, archive, cfg, pass, fetched, bounds, late>>

\* The end of the wait: an IDLE task selects the folder again in the same
\* session, with its own cursor; a poll task logs in again.
Wake ==
    /\ pc = "parked"
    /\ pc' = IF Kind = "idle" THEN "select" ELSE "connect"
    /\ UNCHANGED <<server, rec, archive, task, bounds, late>>

\* Any error between login and wait, of the server or of the database, ends the
\* connection; after the backoff the task connects again.
PassFails ==
    /\ \/ pc \in {"select", "reset", "drop", "scan", "window"}
       \/ pc = "parked" /\ Kind = "idle"
    /\ failures < MaxFailures
    /\ failures' = failures + 1
    /\ pc' = "connect"
    /\ cur' = NoCursor
    /\ pass' = NoPass
    /\ fetched' = {}
    /\ UNCHANGED <<server, rec, archive, cfg, stops, late>>

\* A crash of the process, or stop_account: the task is gone.
TaskGone ==
    /\ pc \in StopAt
    /\ stops < MaxStops
    /\ stops' = stops + 1
    /\ pc' = "off"
    /\ cfg' = NoCursor
    /\ cur' = NoCursor
    /\ pass' = NoPass
    /\ fetched' = {}
    /\ UNCHANGED <<server, rec, archive, failures, late>>

-----------------------------------------------------------------------------
(* The parse jobs *)

Place(j) == [uid |-> j.uid, uv |-> j.uv]

\* ParseMessageHandler and record_parsed_message: the row of the message in
\* this folder is inserted, or updated to the place the job names.
Parse(j) ==
    /\ j \in jobs
    /\ loc' = [loc EXCEPT ![j.msg] = Place(j)]
    /\ jobs' = jobs \ {j}
    /\ UNCHANGED <<server, rec, failed, pc, task, bounds, late>>

\* The same, by a run that is not reported, or by one of two equal jobs.
ParseAgain(j) ==
    /\ j \in jobs
    /\ loc' = [loc EXCEPT ![j.msg] = Place(j)]
    /\ UNCHANGED <<server, rec, jobs, failed, pc, task, bounds, late>>

ParseFails(j) ==
    /\ j \in jobs
    /\ Cardinality(failed) < MaxDropped
    /\ jobs' = jobs \ {j}
    /\ failed' = failed \cup {j.msg}
    /\ UNCHANGED <<server, rec, loc, pc, task, bounds, late>>

-----------------------------------------------------------------------------
ServerStep ==
    \/ \E m \in Content : Arrive(m)
    \/ \E u \in Uids : Expunge(u)
    \/ Rollover

SyncStep ==
    \/ StartTask
    \/ Connect
    \/ Select
    \/ ResetCursor
    \/ DropLocations
    \/ NothingNew
    \/ Fetch
    \/ \E i \in fetched : Ingest(i) \/ PassOver(i)
    \/ EndWindow
    \/ Wake

Next ==
    \/ ServerStep
    \/ SyncStep
    \/ SelectRefused
    \/ PassFails
    \/ TaskGone
    \/ \E j \in jobs : Parse(j) \/ ParseAgain(j) \/ ParseFails(j)

Spec == Init /\ [][Next]_vars

\* The async runtime runs the task, its timers fire (IDLE after 29 minutes at the latest),
\* a stopped account is started again, and JobQueue resolves every job.  Of the server it
\* assumes that every exchange ends, with an answer or a broken connection: connecting,
\* SELECT and FETCH (connect.rs:101-127, sync.rs:333, 397-400) have no limit of their own.
Fairness ==
    /\ WF_vars(SyncStep)
    /\ \A j \in Jobs : WF_vars(Parse(j) \/ ParseFails(j))

FairSpec == Spec /\ Fairness

-----------------------------------------------------------------------------
(* Properties *)

\* Type invariant: the columns of folders and message_locations, the payload of
\* the parse jobs and the variables of sync_folder.
TypeOK ==
    /\ mail \in [Uids -> Content \cup {Gone}]
    /\ uidNext \in 1..(MaxUid + 1)
    /\ uidValidity \in Validities
    /\ rec \in Cursors
    /\ loc \in [Content -> Places \cup {NoLocation}]
    /\ jobs \subseteq Jobs
    /\ failed \subseteq Content
    /\ pc \in Points \cup {"off"}
    /\ cfg \in Cursors
    /\ cur \in Cursors
    /\ pass \in [uv : 0..MaxValidity, upper : 0..MaxUid, from : Nat, to : Nat,
                 high : 0..MaxUid, any : BOOLEAN, ingested : BOOLEAN]
    /\ fetched \subseteq Items
    /\ stops \in Nat
    /\ failures \in Nat
    /\ late \subseteq Content

Pending(m) == \E j \in jobs : j.msg = m
Archived(m) == loc[m] # NoLocation
Covered == {m \in Content : Archived(m) \/ Pending(m) \/ m \in failed}
CoveredTo(n) == \A u \in Present : u <= n => mail[u] \in Covered

\* The checkpoint never runs ahead of the archive (sync.rs:426-428, and the
\* order of handle_uidvalidity_change, sync.rs:478-495): a message the server
\* still has at or below the recorded UID has a location, or a parse job that
\* will record one, or failed to parse.  No crash, failed pass, stale
\* configuration, out-of-order FETCH or rollover makes the sync skip mail.
CheckpointCovers == rec.uv = uidValidity => CoveredTo(rec.uid)

\* A pass that fails takes an IDLE task back to the cursor of its start.
Undisturbed == failures = 0

\* Once a folder is in sync and its parse jobs are done, every location it has
\* is under the recorded UIDVALIDITY; the exception are the jobs that were
\* queued when the cursor was reset (sync.rs:468-472 calls the order of
\* the cleanup harmless under a crash between its two steps).
NoStaleLocation ==
    Undisturbed /\ pc = "parked" /\ rec.uv = uidValidity /\ jobs = {} =>
        \A m \in Content \ late : Archived(m) => loc[m].uv = rec.uv

\* handle_uidvalidity_change is "invoked from every SELECT path (poll and IDLE)
\* whenever the server's UIDVALIDITY differs from the one we last recorded for
\* this folder" (sync.rs:461-463).
RolloverHandled ==
    [][Undisturbed /\ pc = "select" /\ pc' # "parked" /\ rec.uv # 0 /\ rec.uv # uidValidity
         => pc' \notin {"scan", "window"}]_vars

\* Under one UIDVALIDITY the recorded cursor never moves back, so an IDLE task
\* archives a message once (sync.rs:246-248).
CursorMonotone == [][Undisturbed /\ rec'.uv = rec.uv => rec'.uid >= rec.uid]_vars

\* sync_folder shall "fetch everything `> last_uid`" (sync.rs:318-321): a
\* message that stays in the mailbox is archived in the end, or its parse job
\* fails.
OnServer(m) == \E u \in Present : mail[u] = m
EventuallyArchived ==
    \A m \in Content : OnServer(m) ~> (Archived(m) \/ m \in failed \/ ~OnServer(m))

\* The inductive invariant behind CheckpointCovers, for a server that sends
\* UIDNEXT.  A cursor of the current UIDVALIDITY, in the database or in the
\* hands of the task, has everything up to it covered, and no UID up to it is
\* left to assign.
Sound(c) ==
    /\ c.uv = 0 => c.uid = 0
    /\ c.uv <= uidValidity
    /\ c.uv = uidValidity => c.uid < uidNext /\ CoveredTo(c.uid)
CursorsSound == Sound(rec) /\ Sound(cfg) /\ Sound(cur)

\* Within a connection the task's cursor is no older than the captured one, and
\* a pass no older than either.
Syncing == pc \in {"reset", "drop", "scan", "window"}
AgesInOrder ==
    /\ pc \notin {"off", "connect"} => cfg.uv <= cur.uv
    /\ Syncing => cur.uv <= pass.uv /\ 0 < pass.uv /\ pass.uv <= uidValidity

\* The rollover handling: whatever says that mail is covered names another
\* UIDVALIDITY by the time the locations are dropped.
CleanupSound ==
    /\ pc \in {"reset", "drop"} => cur.uv < pass.uv /\ pass.from = 1 /\ pass.high = 0
    /\ pc = "drop" => rec = [uv |-> pass.uv, uid |-> 0]

\* The scan: below the window everything is covered; in it, covered or fetched.
Current == pass.uv = uidValidity
UpperSound == Syncing /\ Current => pass.upper < uidNext
ScanSound ==
    pc = "scan" /\ Current =>
        /\ pass.high < pass.from /\ pass.from <= uidNext
        /\ CoveredTo(pass.from - 1)
WindowSound ==
    pc = "window" /\ Current =>
        /\ pass.to <= pass.upper
        /\ pass.high <= pass.to
        /\ \A i \in fetched : i.uid <= pass.to
        /\ \A u \in Present : u <= pass.to =>
             mail[u] \in Covered \/ [uid |-> u, msg |-> mail[u]] \in fetched

IInv ==
    /\ TypeOK
    /\ CursorsSound
    /\ AgesInOrder
    /\ CleanupSound
    /\ UpperSound
    /\ ScanSound
    /\ WindowSound

\* The inductive invariant behind CursorMonotone and RolloverHandled, of an IDLE task
\* without failures: between two passes the task's cursor is the recorded one, and in a
\* pass the recorded one is behind what the pass has reached, and equal to it once
\* everything ingested is checkpointed.
CursorKept ==
    Undisturbed =>
        /\ pc = "connect" => cfg = rec
        /\ pc \in {"select", "parked"} => cur = rec
        /\ pc \in {"reset", "drop"} => pass.high = 0 /\ ~pass.ingested
        /\ pc = "reset" => rec.uv # pass.uv
        /\ pc = "drop" => rec = Reached(0)
        /\ pc \in {"scan", "window"} => (rec.uv = pass.uv => rec.uid <= pass.high)
        /\ (pc = "scan" \/ (pc = "window" /\ ~pass.any)) /\ pass.ingested =>
              rec = Reached(pass.high)

\* What NoStaleLocation needs besides: jobs and locations are of the UIDVALIDITY the scan
\* works under, or else of the recorded one, and of both until the scan ingests something.
\* While locations wait to be dropped, no job is pending but the late ones.
InUse(uv) ==
    IF pc \in {"scan", "window"} THEN uv = pass.uv /\ (pass.ingested \/ uv = rec.uv)
                                 ELSE uv = rec.uv
NoneStale ==
    Undisturbed =>
        \A m \in Content \ late :
            /\ \A j \in jobs : j.msg = m => InUse(j.uv) /\ pc # "drop"
            /\ Archived(m) => InUse(loc[m].uv) \/ pc = "drop"
IdleInv == TypeOK /\ CursorKept /\ NoneStale

==============================================================================
