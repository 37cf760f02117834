-------------------------- MODULE AccountLifecycle ---------------------------
(***************************************************************************)
(* The life of one account (crates/core/src/imap, crates/imap): its row,   *)
(* the sync tasks the IMAP adapter keeps for it, the requests of the web   *)
(* pages that create, enable, disable, reconfigure and delete it, and the  *)
(* IMAP subsystem that starts it at boot, reconciles its status every 30   *)
(* seconds and stops it at shutdown.                                       *)
(*                                                                         *)
(* The adapter keeps a map from account to handle; the handle owns the     *)
(* account's tasks (one poll task, one IDLE task, either or none) and the  *)
(* one status cell both write.  Starting an account is not one step: it    *)
(* lists the account, lists its folders, removes and joins the old handle, *)
(* spawns the new one and only then inserts it; every one of these is an   *)
(* await, and nothing makes two callers take turns.                        *)
(*                                                                         *)
(* What the tasks do is FolderSync's.  Here they report a state and end    *)
(* when they are cancelled, or aborted because their handle is dropped.    *)
(***************************************************************************)
EXTENDS Naturals, FiniteSets

CONSTANTS
    Page,          \* requests of the web pages that may be in flight together
    Sub,           \* the IMAP subsystem
    Handle,        \* bound: handles that exist at a time (numbers: a start takes the least)
    None,
    Live,          \* the states a task reports, of "Connecting", "Syncing", "Idle", "Error"
    MaxRequests,   \* bound: requests
    MaxFailures,   \* bound: failed transactions and abandoned requests
    MaxStops       \* bound: shutdowns and crashes

Statuses == {"PendingFirstSync", "Syncing", "Idle", "Error", "Disabled"}

ASSUME SubAssumption == Sub \notin Page
ASSUME HandleAssumption == Handle \subseteq Nat /\ None \notin Handle
ASSUME NoneAssumption == None \notin Statuses
ASSUME LiveAssumption == Live \subseteq {"Connecting", "Syncing", "Idle", "Error"}
ASSUME BoundsAssumption == MaxRequests \in Nat /\ MaxFailures \in Nat /\ MaxStops \in Nat

Actor == Page \cup {Sub}
Steps == {"idle", "load", "list_folders", "unhook", "join", "spawn", "insert", "report",
          "create_folders", "select", "delete",
          "boot", "sleep", "status", "set_status", "tracked",
          "stop_all", "stop_tracked", "stopped"}
Resumes == {"idle", "load", "spawn", "delete", "sleep", "stopped"}

VARIABLES
    row,           \* the account's row: "none", "live" or "deleted"
    enabled,
    status,        \* AccountStatus, as stored
    folders,       \* has the account folders to sync?
    tracked,       \* the adapter's map: the account's handle, or None
    task,          \* each handle's tasks: "free", "empty" (it has none), "running",
                   \* "stopping" (cancelled or aborted, not ended yet)
    live,          \* each handle's status cell
    pc,            \* each actor's next step
    hand,          \* the handle it holds outside the map, or None
    next,          \* what it does after a join
    seen,          \* what it read: folders found, enabled as first read
    snap,          \* the subsystem's list_enabled: the status it read, or None
    up,            \* the process: "up", "stopping" (shutdown requested) or "down"
    requests, failures, stops,
    quiet          \* history: no request was in flight when the subsystem began to stop

rows == <<row, enabled, status, folders>>
port == <<tracked, task, live>>
held == <<hand, next, seen, snap>>
bounds == <<requests, failures, stops>>
vars == <<row, enabled, status, folders, tracked, task, live, pc, hand, next, seen, snap,
          up, requests, failures, stops, quiet>>

Enabled == row = "live" /\ enabled
Idle(p) == pc[p] = "idle"

Init ==
    /\ row \in {"none", "live"}
    /\ enabled = (row = "live")
    /\ status = "PendingFirstSync"
    /\ folders = (row = "live")
    /\ tracked = None
    /\ task = [h \in Handle |-> "free"]
    /\ live = [h \in Handle |-> "Connecting"]
    /\ pc = [a \in Actor |-> IF a = Sub THEN "boot" ELSE "idle"]
    /\ hand = [a \in Actor |-> None]
    /\ next = [a \in Actor |-> "idle"]
    /\ seen = [a \in Actor |-> FALSE]
    /\ snap = None
    /\ up = "up"
    /\ requests = 0
    /\ failures = 0
    /\ stops = 0
    /\ quiet = FALSE

-----------------------------------------------------------------------------
(* Starting and stopping the tasks, by a page or by the subsystem *)

Goes(a, step) == pc' = [pc EXCEPT ![a] = step]

\* Where an actor is when its call returns.
Done(a) == IF a = Sub THEN "sleep" ELSE "idle"

\* Cancelling or aborting the tasks of handle h; a handle without tasks is gone.
Ended(h) == IF task[h] \in {"running", "stopping"} THEN "stopping" ELSE "free"

\* start_account: load_enabled_account.  Not enabled: the request ends in an error.
LoadEnabled(p) ==
    /\ pc[p] = "load"
    /\ Goes(p, IF Enabled THEN "list_folders" ELSE "idle")
    /\ UNCHANGED <<rows, port, held, up, bounds, quiet>>

\* start_one: list_enabled_folders.
ListFolders(a) ==
    /\ pc[a] = "list_folders"
    /\ seen' = [seen EXCEPT ![a] = folders /\ row = "live"]
    /\ next' = [next EXCEPT ![a] = "spawn"]
    /\ Goes(a, "unhook")
    /\ UNCHANGED <<rows, port, hand, snap, up, bounds, quiet>>

\* stop_account: under the lock, remove the handle; then cancel its tasks.
Unhook(a) ==
    /\ pc[a] = "unhook"
    /\ IF tracked = None
       THEN /\ Goes(a, next[a])
            /\ next' = [next EXCEPT ![a] = "idle"]
            /\ UNCHANGED <<port, hand>>
       ELSE /\ Goes(a, "join")
            /\ hand' = [hand EXCEPT ![a] = tracked]
            /\ task' = [task EXCEPT ![tracked] = Ended(tracked)]
            /\ tracked' = None
            /\ UNCHANGED <<live, next>>
    /\ UNCHANGED <<rows, seen, snap, up, bounds, quiet>>

\* stop_account: join_next until there is none.
Join(a) ==
    /\ pc[a] = "join"
    /\ task[hand[a]] = "free"
    /\ hand' = [hand EXCEPT ![a] = None]
    /\ next' = [next EXCEPT ![a] = "idle"]
    /\ Goes(a, next[a])
    /\ UNCHANGED <<rows, port, seen, snap, up, bounds, quiet>>

Unused(h) == task[h] = "free" /\ tracked # h /\ \A a \in Actor : hand[a] # h

\* start_account of the adapter: a new handle and its tasks, not in the map yet.
Spawn(a) ==
    /\ pc[a] = "spawn"
    /\ \E h \in Handle :
         /\ Unused(h)
         /\ \A g \in Handle : Unused(g) => h <= g
         /\ task' = [task EXCEPT ![h] = IF seen[a] THEN "running" ELSE "empty"]
         /\ live' = [live EXCEPT ![h] = "Connecting"]
         /\ hand' = [hand EXCEPT ![a] = h]
    /\ seen' = [seen EXCEPT ![a] = FALSE]
    /\ Goes(a, "insert")
    /\ UNCHANGED <<rows, tracked, next, snap, up, bounds, quiet>>

\* Mutant: a handle that is replaced is forgotten without its tasks being stopped.
Insert_Leaks(a) ==
    /\ pc[a] = "insert"
    /\ tracked' = hand[a]
    /\ hand' = [hand EXCEPT ![a] = None]
    /\ Goes(a, "report")
    /\ UNCHANGED <<rows, task, live, next, seen, snap, up, bounds, quiet>>

\* The insertion, under the lock.  A handle another start inserted meanwhile is
\* replaced: dropping its JoinSet aborts its tasks.
Insert(a) ==
    /\ pc[a] = "insert"
    /\ tracked' = hand[a]
    /\ task' = [h \in Handle |-> IF h = tracked THEN Ended(h) ELSE task[h]]
    /\ hand' = [hand EXCEPT ![a] = None]
    /\ Goes(a, "report")
    /\ UNCHANGED <<rows, live, next, seen, snap, up, bounds, quiet>>

\* start_one: set_status(Syncing).  It does not look whether the account is enabled.
Report(a) ==
    /\ pc[a] = "report"
    /\ status' = IF row = "live" THEN "Syncing" ELSE status
    /\ Goes(a, Done(a))
    /\ UNCHANGED <<row, enabled, folders, port, held, up, bounds, quiet>>

\* The tasks report: poll_task and idle_task write the one cell.
TaskReports(h, s) ==
    /\ task[h] = "running"
    /\ live[h] # s
    /\ live' = [live EXCEPT ![h] = s]
    /\ UNCHANGED <<rows, tracked, task, pc, held, up, bounds, quiet>>

\* Stopped tasks end: aborted ones at their next await; cancelled ones where they look at
\* their token (sync.rs:132, 179, 220, 241, 279, 310), which is not within connect_and_login
\* or sync_folder, so only when the exchange under way has ended.
TaskEnds(h) ==
    /\ task[h] = "stopping"
    /\ task' = [task EXCEPT ![h] = "free"]
    /\ live' = [live EXCEPT ![h] = "Connecting"]
    /\ UNCHANGED <<rows, tracked, pc, held, up, bounds, quiet>>

-----------------------------------------------------------------------------
(* The requests of the web pages *)

\* The web server takes requests until shutdown is requested.
Request(p) ==
    /\ Idle(p)
    /\ up = "up"
    /\ requests < MaxRequests
    /\ requests' = requests + 1

\* create_account_and_start: the account's transaction, then the folders'.
Create(p) ==
    /\ Request(p)
    /\ row = "none"
    /\ row' = "live"
    /\ enabled' = TRUE
    /\ status' = "PendingFirstSync"
    /\ Goes(p, "create_folders")
    /\ UNCHANGED <<folders, port, held, up, failures, stops, quiet>>

CreateFolders(p) ==
    /\ pc[p] = "create_folders"
    /\ folders' = (row = "live")
    /\ Goes(p, IF row = "live" THEN "load" ELSE "idle")
    /\ UNCHANGED <<row, enabled, status, port, held, up, bounds, quiet>>

\* set_account_enabled(true): one transaction, then start_account.
Enable(p) ==
    /\ Request(p)
    /\ row = "live"
    /\ enabled' = TRUE
    /\ status' = "PendingFirstSync"
    /\ Goes(p, "load")
    /\ UNCHANGED <<row, folders, port, held, up, failures, stops, quiet>>

\* set_account_enabled(false): one transaction, then stop_account.
Disable(p) ==
    /\ Request(p)
    /\ row = "live"
    /\ enabled' = FALSE
    /\ status' = "Disabled"
    /\ Goes(p, "unhook")
    /\ UNCHANGED <<row, folders, port, hand, next, seen, snap, up, failures, stops, quiet>>

\* set_account_folders_enabled: get_account, whose answer it keeps ...
ChooseFolders(p) ==
    /\ Request(p)
    /\ row = "live"
    /\ seen' = [seen EXCEPT ![p] = enabled]
    /\ Goes(p, "select")
    /\ UNCHANGED <<rows, port, hand, next, snap, up, failures, stops, quiet>>

\* ... the transactions that change the folders, one at least; then, if the account
\* was enabled when it was read, stop_account and start_account.
SelectFolders(p) ==
    /\ pc[p] = "select"
    /\ seen' = [seen EXCEPT ![p] = FALSE]
    /\ IF seen[p] /\ row = "live" /\ folders
       THEN Goes(p, "unhook") /\ next' = [next EXCEPT ![p] = "load"]
       ELSE Goes(p, "idle") /\ UNCHANGED next
    /\ UNCHANGED <<rows, port, hand, snap, up, bounds, quiet>>

\* delete_account: the ownership gate, stop_account, and the transaction.
Delete(p) ==
    /\ Request(p)
    /\ row = "live"
    /\ next' = [next EXCEPT ![p] = "delete"]
    /\ Goes(p, "unhook")
    /\ UNCHANGED <<rows, port, hand, seen, snap, up, failures, stops, quiet>>

DeleteRow(p) ==
    /\ pc[p] = "delete"
    /\ row' = IF row = "live" THEN "deleted" ELSE row
    /\ enabled' = FALSE
    /\ folders' = FALSE
    /\ Goes(p, "idle")
    /\ UNCHANGED <<status, port, held, up, bounds, quiet>>

\* A transaction of the request fails, or its client goes away and its future is
\* dropped at an await, and with it a handle it holds.
RequestFails(p) ==
    /\ ~Idle(p)
    /\ failures < MaxFailures
    /\ failures' = failures + 1
    /\ task' = [h \in Handle |-> IF h = hand[p] THEN Ended(h) ELSE task[h]]
    /\ hand' = [hand EXCEPT ![p] = None]
    /\ next' = [next EXCEPT ![p] = "idle"]
    /\ seen' = [seen EXCEPT ![p] = FALSE]
    /\ Goes(p, "idle")
    /\ UNCHANGED <<rows, tracked, live, snap, up, requests, stops, quiet>>

PageStep(p) ==
    \/ LoadEnabled(p) \/ ListFolders(p) \/ Unhook(p) \/ Join(p)
    \/ Spawn(p) \/ Insert(p) \/ Report(p)
    \/ CreateFolders(p) \/ SelectFolders(p) \/ DeleteRow(p)

PageRequest(p) == Create(p) \/ Enable(p) \/ Disable(p) \/ ChooseFolders(p) \/ Delete(p)

-----------------------------------------------------------------------------
(* The subsystem *)

\* start_all_enabled: the account is listed, and started without being read again.
BootLists ==
    /\ pc[Sub] = "boot"
    /\ Goes(Sub, IF Enabled THEN "list_folders" ELSE "sleep")
    /\ UNCHANGED <<rows, port, held, up, bounds, quiet>>

\* reconcile_statuses: list_enabled, with the status of the moment.
ReconcileLists ==
    /\ pc[Sub] = "sleep"
    /\ up = "up"
    /\ snap' = IF Enabled THEN status ELSE None
    /\ Goes(Sub, IF Enabled THEN "status" ELSE "tracked")
    /\ UNCHANGED <<rows, port, hand, next, seen, up, bounds, quiet>>

Desired(s) == IF s = "Connecting" THEN "Syncing" ELSE s

\* Mutant: the live state is stored as it is.
ReconcileReads_Raw ==
    /\ pc[Sub] = "status"
    /\ IF tracked # None /\ snap # live[tracked]
       THEN snap' = live[tracked] /\ Goes(Sub, "set_status")
       ELSE UNCHANGED snap /\ Goes(Sub, "tracked")
    /\ UNCHANGED <<rows, port, hand, next, seen, up, bounds, quiet>>

\* Mutant: only an error is stored.
ReconcileReads_ErrorsOnly ==
    /\ pc[Sub] = "status"
    /\ IF tracked # None /\ live[tracked] = "Error" /\ snap # "Error"
       THEN snap' = "Error" /\ Goes(Sub, "set_status")
       ELSE UNCHANGED snap /\ Goes(Sub, "tracked")
    /\ UNCHANGED <<rows, port, hand, next, seen, up, bounds, quiet>>

\* The port's status; nothing running, or nothing new, leaves the row alone.
ReconcileReads ==
    /\ pc[Sub] = "status"
    /\ IF tracked # None /\ snap # Desired(live[tracked])
       THEN snap' = Desired(live[tracked]) /\ Goes(Sub, "set_status")
       ELSE UNCHANGED snap /\ Goes(Sub, "tracked")
    /\ UNCHANGED <<rows, port, hand, next, seen, up, bounds, quiet>>

ReconcileWrites ==
    /\ pc[Sub] = "set_status"
    /\ status' = IF row = "live" THEN snap ELSE status
    /\ Goes(Sub, "tracked")
    /\ UNCHANGED <<row, enabled, folders, port, held, up, bounds, quiet>>

\* Mutant: the backstop never runs: only listed accounts are looked at.
ReconcileTracked_NoBackstop ==
    /\ pc[Sub] = "tracked"
    /\ snap' = None
    /\ Goes(Sub, "sleep")
    /\ UNCHANGED <<rows, port, hand, next, seen, up, bounds, quiet>>

\* The teardown backstop: tracked_accounts, against the list read before.
ReconcileTracked ==
    /\ pc[Sub] = "tracked"
    /\ snap' = None
    /\ IF tracked # None /\ snap = None
       THEN Goes(Sub, "unhook") /\ next' = [next EXCEPT ![Sub] = "sleep"]
       ELSE Goes(Sub, "sleep") /\ UNCHANGED next
    /\ UNCHANGED <<rows, port, hand, seen, up, bounds, quiet>>

\* The subsystem's loop sees the shutdown: stop_all.
StopAll ==
    /\ pc[Sub] = "sleep"
    /\ up = "stopping"
    /\ quiet' = \A p \in Page : Idle(p)
    /\ Goes(Sub, "stop_all")
    /\ UNCHANGED <<rows, port, held, up, bounds>>

\* stop_all: list_enabled; an error counts as an empty list.
StopAllLists ==
    /\ pc[Sub] = "stop_all"
    /\ \/ seen' = [seen EXCEPT ![Sub] = Enabled] /\ UNCHANGED failures
       \/ /\ failures < MaxFailures
          /\ failures' = failures + 1
          /\ seen' = [seen EXCEPT ![Sub] = FALSE]
    /\ Goes(Sub, "stop_tracked")
    /\ UNCHANGED <<rows, port, hand, next, snap, up, requests, stops, quiet>>

\* Mutant: only the accounts that are enabled are stopped.
StopAllTracked_EnabledOnly ==
    /\ pc[Sub] = "stop_tracked"
    /\ seen' = [seen EXCEPT ![Sub] = FALSE]
    /\ IF seen[Sub]
       THEN Goes(Sub, "unhook") /\ next' = [next EXCEPT ![Sub] = "stopped"]
       ELSE Goes(Sub, "stopped") /\ UNCHANGED next
    /\ UNCHANGED <<rows, port, hand, snap, up, bounds, quiet>>

\* stop_all: the union with tracked_accounts is stopped.
StopAllTracked ==
    /\ pc[Sub] = "stop_tracked"
    /\ seen' = [seen EXCEPT ![Sub] = FALSE]
    /\ IF seen[Sub] \/ tracked # None
       THEN Goes(Sub, "unhook") /\ next' = [next EXCEPT ![Sub] = "stopped"]
       ELSE Goes(Sub, "stopped") /\ UNCHANGED next
    /\ UNCHANGED <<rows, port, hand, snap, up, bounds, quiet>>

\* A transaction of the subsystem fails: at boot, in a start or in the list of a
\* reconcile it is logged and the loop goes on; a failed set_status is ignored.
SubFails ==
    /\ failures < MaxFailures
    /\ \/ /\ pc[Sub] \in {"boot", "list_folders", "report"}
          /\ Goes(Sub, "sleep")
       \/ /\ pc[Sub] = "set_status"
          /\ Goes(Sub, "tracked")
    /\ failures' = failures + 1
    /\ UNCHANGED <<rows, port, held, up, requests, stops, quiet>>

SubStep ==
    \/ BootLists \/ ListFolders(Sub) \/ Unhook(Sub) \/ Join(Sub)
    \/ Spawn(Sub) \/ Insert(Sub) \/ Report(Sub)
    \/ ReconcileLists \/ ReconcileReads \/ ReconcileWrites \/ ReconcileTracked
    \/ StopAll \/ StopAllLists \/ StopAllTracked

-----------------------------------------------------------------------------
(* The process *)

RequestShutdown ==
    /\ up = "up"
    /\ stops < MaxStops
    /\ stops' = stops + 1
    /\ up' = "stopping"
    /\ UNCHANGED <<rows, port, pc, held, requests, failures, quiet>>

\* What lives in memory is gone.
Gone ==
    /\ up' = "down"
    /\ tracked' = None
    /\ task' = [h \in Handle |-> "free"]
    /\ live' = [h \in Handle |-> "Connecting"]
    /\ pc' = [a \in Actor |-> IF a = Sub THEN "stopped" ELSE "idle"]
    /\ hand' = [a \in Actor |-> None]
    /\ next' = [a \in Actor |-> "idle"]
    /\ seen' = [a \in Actor |-> FALSE]
    /\ snap' = None
    /\ quiet' = FALSE
    /\ UNCHANGED <<rows, requests, failures>>

\* Every subsystem has returned, or the limit for it has passed.
Exit == up = "stopping" /\ Gone /\ UNCHANGED stops

Crash ==
    /\ up = "up"
    /\ stops < MaxStops
    /\ stops' = stops + 1
    /\ Gone

Boot ==
    /\ up = "down"
    /\ up' = "up"
    /\ Goes(Sub, "boot")
    /\ UNCHANGED <<rows, port, held, bounds, quiet>>

Next ==
    \/ \E p \in Page : PageRequest(p) \/ PageStep(p) \/ RequestFails(p)
    \/ SubStep \/ SubFails
    \/ \E h \in Handle : TaskEnds(h) \/ \E s \in Live : TaskReports(h, s)
    \/ RequestShutdown \/ Exit \/ Crash \/ Boot

Spec == Init /\ [][Next]_vars

\* A future that can make progress is polled again; tasks end after a cancel, which takes
\* a server that answers or a connection that breaks (sync.rs has no timeout); the 30 s
\* timer fires; a shutdown ends (10 s limit), and a process that is down is started.
Fairness ==
    /\ \A p \in Page : WF_vars(PageStep(p))
    /\ WF_vars(SubStep)
    /\ \A h \in Handle : WF_vars(TaskEnds(h))
    /\ WF_vars(Exit \/ Boot)

FairSpec == Spec /\ Fairness

-----------------------------------------------------------------------------
(* Properties *)

Alive(h) == task[h] \in {"running", "empty"}

TypeOK ==
    /\ row \in {"none", "live", "deleted"}
    /\ enabled \in BOOLEAN
    /\ status \in Statuses
    /\ folders \in BOOLEAN
    /\ tracked \in Handle \cup {None}
    /\ task \in [Handle -> {"free", "empty", "running", "stopping"}]
    /\ live \in [Handle -> {"Connecting"} \cup Live]
    /\ pc \in [Actor -> Steps]
    /\ hand \in [Actor -> Handle \cup {None}]
    /\ next \in [Actor -> Resumes]
    /\ seen \in [Actor -> BOOLEAN]
    /\ snap \in Statuses \cup {None}
    /\ up \in {"up", "stopping", "down"}
    /\ requests \in 0..MaxRequests
    /\ failures \in 0..MaxFailures
    /\ stops \in 0..MaxStops
    /\ quiet \in BOOLEAN

\* Tasks that run are always within reach of a stop: their handle is the one in the
\* adapter's map, or in the hand of the one start that is about to insert it.
\* Whatever starts overlap, no set of tasks goes on unnoticed (the end of
\* ImapAdapter::start_account, where a handle can be replaced).
NoLeak ==
    \A h \in Handle : Alive(h) =>
        \/ tracked = h
        \/ \E a \in Actor : hand[a] = h /\ pc[a] = "insert"

\* A handle has one owner.  The one in the map is alive and in nobody's hand; one in
\* hand is either new and about to be inserted, or stopped and being joined, and no
\* two actors hold the same - so no stop ever joins the tasks of another's start.  And
\* a reconcile writes a status only for an account it has listed.
OneOwner ==
    /\ tracked # None => Alive(tracked)
    /\ \A a \in Actor :
         /\ hand[a] # None =>
              /\ hand[a] # tracked
              /\ pc[a] = IF Alive(hand[a]) THEN "insert" ELSE "join"
         /\ hand[a] = None => pc[a] \notin {"insert", "join"}
         /\ \A b \in Actor : a # b /\ hand[a] # None => hand[a] # hand[b]
    /\ pc[Sub] = "set_status" => snap # None

\* stop_all leaves nothing running, also when an account was disabled with its tasks
\* alive or the database cannot be read - provided no request was still in flight
\* when the subsystem began to stop.
ShutdownStopsAll ==
    pc[Sub] = "stopped" /\ quiet => \A h \in Handle : ~Alive(h)

\* What the proofs need of a quiet shutdown: from the decision to stop everything no
\* page acts any more, and once the subsystem has looked at the map it stays empty.
QuietShutdown ==
    /\ up = "down" => pc[Sub] = "stopped"
    /\ quiet =>
        /\ up = "stopping"
        /\ \A p \in Page : Idle(p)
        /\ \/ pc[Sub] \in {"stop_all", "stop_tracked"}
           \/ pc[Sub] = "unhook" /\ next[Sub] = "stopped"
           \/ pc[Sub] = "join" /\ next[Sub] = "stopped" /\ tracked = None
           \/ pc[Sub] = "stopped" /\ tracked = None

IInv == TypeOK /\ NoLeak /\ OneOwner /\ QuietShutdown

\* Tasks of an account that stays disabled or deleted end, whoever started or
\* forgot to stop them: the page's own stop, or the reconcile's backstop.
DisabledStops == <>[]~Enabled => <>[](\A h \in Handle : task[h] = "free")

\* While the tasks of an enabled account stay in one state, the stored status
\* comes to say so, whatever pages and starts wrote before (reconcile_statuses).
StatusConverges ==
    <>[](Enabled /\ tracked # None) /\ <>[][FALSE]_<<tracked, live>>
        => <>[](tracked # None /\ status = Desired(live[tracked]))

\* The backstop of reconcile_statuses stops an account only if it is not enabled.
\* It does not hold: the account may have been enabled since the list was read.
BackstopStopsOnlyDisabled ==
    [][pc[Sub] = "unhook" /\ next[Sub] = "sleep" /\ tracked # None /\ pc'[Sub] = "join"
         => ~Enabled]_vars
==============================================================================
