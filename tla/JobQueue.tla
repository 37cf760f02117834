------------------------------ MODULE JobQueue -------------------------------
(***************************************************************************)
(* The background job queue of MailKeep: the table `jobs`, the service     *)
(* that inserts rows and wakes the workers, the N worker loops of the      *)
(* process, its crash recovery, and what they do when the database returns *)
(* an error.                                                               *)
(*                                                                         *)
(* Every repository call runs in one transaction, and the SQLite pool      *)
(* holds ONE connection (database/src/lib.rs:47-82), so a transaction is a *)
(* step.  The steps of different workers and of enqueuing callers          *)
(* interleave between transactions.                                        *)
(*                                                                         *)
(* Data left out: the payload, the job type (a handler is any operation    *)
(* that returns one of Outcomes), the error message and the wall clock     *)
(* (now counts the units BackoffUnit is given in).                         *)
(***************************************************************************)
EXTENDS Integers, FiniteSets

CONSTANTS
    JobId,         \* row ids, in the order the table assigns them
    Worker,        \* the worker loops (CoreServices::job_concurrency)
    NoJob,         \* "no job claimed"
    Priority,      \* Priority[j]: the priority job j is enqueued with
    Delays,        \* delays callers pass to enqueue_after; 0 is enqueue
    MaxAttempts,   \* max_attempts of a row, 3 in entities/jobs.rs:34
    BackoffUnit,   \* 30 seconds, in ticks of now
    MaxDbErrors,   \* bound: database errors in a behaviour
    MaxStops,      \* bound: crashes and shutdowns in a behaviour
    ErrorKinds,    \* kinds of database error that occur
    FaultyCalls    \* the repository calls that may return one

ASSUME JobIdAssumption == JobId \subseteq Nat
ASSUME PriorityAssumption == Priority \in [JobId -> Int]
ASSUME DelaysAssumption == Delays \subseteq Nat
ASSUME MaxAttemptsAssumption == MaxAttempts \in Nat \ {0}
ASSUME BackoffUnitAssumption == BackoffUnit \in Nat
ASSUME BoundsAssumption == MaxDbErrors \in Nat /\ MaxStops \in Nat
ASSUME ErrorKindsAssumption == ErrorKinds \subseteq {"transient", "fatal"}
ASSUME WorkerAssumption == IsFiniteSet(Worker)
ASSUME FaultyCallsAssumption == FaultyCalls \subseteq {"claim", "report", "reset"}

Outcomes == {"ok", "transient", "terminal"}
Statuses == {"none", "Pending", "Running", "Completed", "Failed"}
Claims == [id : JobId, version : Nat, attempt : Nat]
ASSUME NoJobAssumption == NoJob \notin Claims

VARIABLES
    status,        \* the columns of table jobs; "none" is a row not inserted yet
    attempt,
    version,
    sched,         \* scheduled_at
    created,       \* created_at
    now,           \* the clock
    proc,          \* the process: "down", "up" or "stopping"
    pc,            \* where each worker stands in its loop
    job,           \* the row each worker claimed, as it was when claimed
    result,        \* what the handler returned to each worker
    woken,         \* the workers whose `notified` future was notified
    unnotified,    \* rows committed by a caller that has not notified yet
    dbErrors,      \* database errors so far
    stops,         \* crashes and shutdowns so far
    outcomes,      \* history: everything handlers returned for a job
    lost           \* history: claims of a job that ended without a report

rows == <<status, attempt, version, sched, created>>
workers == <<pc, job, result, woken>>
history == <<outcomes, lost>>
vars == <<status, attempt, version, sched, created, now, proc, pc, job, result,
          woken, unnotified, dbErrors, stops, outcomes, lost>>

Init ==
    /\ status = [j \in JobId |-> "none"]
    /\ attempt = [j \in JobId |-> 0]
    /\ version = [j \in JobId |-> 0]
    /\ sched = [j \in JobId |-> 0]
    /\ created = [j \in JobId |-> 0]
    /\ now = 0
    /\ proc = "down"
    /\ pc = [w \in Worker |-> "off"]
    /\ job = [w \in Worker |-> NoJob]
    /\ result = [w \in Worker |-> "ok"]
    /\ woken = {}
    /\ unnotified = {}
    /\ dbErrors = 0
    /\ stops = 0
    /\ outcomes = [j \in JobId |-> {}]
    /\ lost = [j \in JobId |-> 0]

-----------------------------------------------------------------------------
(* Enqueueing *)

\* JobService::enqueue_raw and enqueue_raw_delayed up to the commit.  Ids are
\* assigned in increasing order.
Enqueue(j, d) ==
    /\ proc # "down"
    /\ status[j] = "none"
    /\ \A i \in JobId : i < j => status[i] # "none"
    /\ status' = [status EXCEPT ![j] = "Pending"]
    /\ sched' = [sched EXCEPT ![j] = now + d]
    /\ created' = [created EXCEPT ![j] = now]
    /\ unnotified' = unnotified \cup {j}
    /\ UNCHANGED <<attempt, version, now, proc, workers, dbErrors, stops, history>>

\* Mutant: the future is made when the worker goes to sleep.
Armed_AtWait == {w \in Worker : pc[w] = "wait"}

\* The workers whose `notified` future exists: from enable() at the top of the
\* loop to the end of the select in the None branch.  A worker elsewhere in its
\* loop holds a future it will drop unread.
Armed == {w \in Worker : pc[w] \in {"claim", "empty", "wait"}}

\* notify_waiters() after the commit: wakes every future that exists now, and
\* leaves nothing behind for the ones created later.
Notify(j) ==
    /\ j \in unnotified
    /\ unnotified' = unnotified \ {j}
    /\ woken' = woken \cup Armed
    /\ UNCHANGED <<rows, now, proc, pc, job, result, dbErrors, stops, history>>

-----------------------------------------------------------------------------
(* The worker loop *)

\* The shutdown check, then the subscription.
TopOfLoop(w) ==
    /\ pc[w] = "top"
    /\ pc' = [pc EXCEPT ![w] = IF proc = "stopping" THEN "off" ELSE "claim"]
    /\ woken' = woken \ {w}
    /\ UNCHANGED <<rows, now, proc, job, result, unnotified, dbErrors, stops, history>>

\* claim_next orders rows by priority DESC, scheduled_at ASC, id ASC.
Before(i, j) ==
    \/ Priority[i] > Priority[j]
    \/ Priority[i] = Priority[j] /\ sched[i] < sched[j]
    \/ Priority[i] = Priority[j] /\ sched[i] = sched[j] /\ i < j

\* Mutant: a failed row is claimed again.
Claimable_Failed(j) == status[j] \in {"Pending", "Failed"} /\ sched[j] <= now

\* Mutant: a running row is claimed too.
Claimable_AnyLive(j) == status[j] \in {"Pending", "Running"} /\ sched[j] <= now

Claimable(j) == status[j] = "Pending" /\ sched[j] <= now

Candidates ==
    {j \in JobId : Claimable(j) /\ \A i \in JobId : Claimable(i) => ~Before(i, j)}

\* claim_next found a row.  The five tries of its loop are for other writers
\* between the SELECT and the UPDATE, which one connection excludes.
ClaimJob(w, j) ==
    /\ pc[w] = "claim"
    /\ j \in Candidates
    /\ status' = [status EXCEPT ![j] = "Running"]
    /\ attempt' = [attempt EXCEPT ![j] = @ + 1]
    /\ version' = [version EXCEPT ![j] = @ + 1]
    /\ job' = [job EXCEPT ![w] =
                 [id |-> j, version |-> version[j] + 1, attempt |-> attempt[j] + 1]]
    /\ pc' = [pc EXCEPT ![w] = "run"]
    /\ UNCHANGED <<sched, created, now, proc, result, woken, unnotified,
                   dbErrors, stops, history>>

ClaimNone(w) ==
    /\ pc[w] = "claim"
    /\ \A j \in JobId : ~Claimable(j)
    /\ pc' = [pc EXCEPT ![w] = "empty"]
    /\ UNCHANGED <<rows, now, proc, job, result, woken, unnotified, dbErrors,
                   stops, history>>

\* The claim found nothing and the worker enters the select of the None branch.
\* An enqueue may fall between the two.
WaitBegins(w) ==
    /\ pc[w] = "empty"
    /\ pc' = [pc EXCEPT ![w] = "wait"]
    /\ UNCHANGED <<rows, now, proc, job, result, woken, unnotified, dbErrors,
                   stops, history>>

\* The three ways out of the select of the None branch; the poll timer (5 s)
\* may always fire.
WaitEnds(w) ==
    /\ pc[w] = "wait"
    /\ \/ w \in woken
       \/ proc = "stopping"
    /\ pc' = [pc EXCEPT ![w] = IF proc = "stopping" THEN "off" ELSE "top"]
    /\ UNCHANGED <<rows, now, proc, job, result, woken, unnotified, dbErrors,
                   stops, history>>

PollTimer(w) ==
    /\ pc[w] = "wait"
    /\ pc' = [pc EXCEPT ![w] = "top"]
    /\ UNCHANGED <<rows, now, proc, job, result, woken, unnotified, dbErrors,
                   stops, history>>

\* dispatch: the handler returns o.  A missing handler and a payload that does
\* not deserialise are Infrastructure errors, hence "terminal".
Dispatch(w, o) ==
    /\ pc[w] = "run"
    /\ pc' = [pc EXCEPT ![w] = "report"]
    /\ result' = [result EXCEPT ![w] = o]
    /\ outcomes' = [outcomes EXCEPT ![job[w].id] = @ \cup {o}]
    /\ UNCHANGED <<rows, now, proc, job, woken, unnotified, dbErrors, stops, lost>>

Min2(a, b) == IF a < b THEN a ELSE b

\* 30 s * 2^attempt, the shift capped at 20.
Backoff(a) == BackoffUnit * 2^Min2(a, 20)

\* Mutant: one attempt too many.
Retries_OneMore(c, o) == o = "transient" /\ c.attempt <= MaxAttempts

Retries(c, o) == o = "transient" /\ c.attempt < MaxAttempts

\* Mutant: the outcome stored where a status belongs.
FinalStatus_Raw(o) == IF o = "ok" THEN "Completed" ELSE o

\* Mutant: every report completes the job.
FinalStatus_AllDone(o) == IF o \in Outcomes THEN "Completed" ELSE "Failed"

FinalStatus(o) == IF o = "ok" THEN "Completed" ELSE "Failed"

\* JobRepository::complete, fail and fail_terminal on the claimed row c, whose
\* UPDATE is guarded by the id and the version of the claim.
Settle(c, o) ==
    /\ status' = [status EXCEPT ![c.id] =
                    IF Retries(c, o) THEN "Pending" ELSE FinalStatus(o)]
    /\ sched' = IF Retries(c, o)
                THEN [sched EXCEPT ![c.id] = now + Backoff(c.attempt)]
                ELSE sched
    /\ version' = [version EXCEPT ![c.id] = @ + 1]
    /\ UNCHANGED <<attempt, created>>

Superseded(c) == status[c.id] = "none" \/ version[c.id] # c.version

\* A row that changed since the claim makes the UPDATE affect no row; the
\* error is not transient, the worker returns it and the process shuts down.
Report(w) ==
    /\ pc[w] = "report"
    /\ job' = [job EXCEPT ![w] = NoJob]
    /\ result' = [result EXCEPT ![w] = "ok"]
    /\ IF Superseded(job[w])
       THEN /\ pc' = [pc EXCEPT ![w] = "off"]
            /\ proc' = "stopping"
            /\ UNCHANGED rows
       ELSE /\ pc' = [pc EXCEPT ![w] = "top"]
            /\ proc' = proc
            /\ Settle(job[w], result[w])
    /\ UNCHANGED <<now, woken, unnotified, dbErrors, stops, history>>

\* A transaction that fails changes no row.  A transient error makes the worker
\* pause 10 s and start over; any other error ends it, which shuts the process
\* down.  In both cases the worker forgets what it had claimed.
DbError(w) ==
    /\ dbErrors < MaxDbErrors
    /\ \/ pc[w] = "claim" /\ "claim" \in FaultyCalls
       \/ pc[w] = "report" /\ "report" \in FaultyCalls
    /\ \E kind \in ErrorKinds :
         /\ pc' = [pc EXCEPT ![w] = IF kind = "transient" THEN "pause" ELSE "off"]
         /\ proc' = IF kind = "transient" THEN proc ELSE "stopping"
    /\ lost' = IF pc[w] = "report" THEN [lost EXCEPT ![job[w].id] = @ + 1] ELSE lost
    /\ job' = [job EXCEPT ![w] = NoJob]
    /\ result' = [result EXCEPT ![w] = "ok"]
    /\ dbErrors' = dbErrors + 1
    /\ UNCHANGED <<rows, now, woken, unnotified, stops, outcomes>>

PauseEnds(w) ==
    /\ pc[w] = "pause"
    /\ pc' = [pc EXCEPT ![w] = IF proc = "stopping" THEN "off" ELSE "top"]
    /\ UNCHANGED <<rows, now, proc, job, result, woken, unnotified, dbErrors,
                   stops, history>>

-----------------------------------------------------------------------------
(* The process *)

Running == {j \in JobId : status[j] = "Running"}

\* Mutant: no recovery at the start.
ResetRunning_Nothing == UNCHANGED rows

\* reset_running_to_pending: status and version only; the attempt an
\* interrupted run used up stays counted.
ResetRunning ==
    /\ status' = [j \in JobId |-> IF j \in Running THEN "Pending" ELSE status[j]]
    /\ version' = [j \in JobId |-> IF j \in Running THEN version[j] + 1 ELSE version[j]]
    /\ UNCHANGED <<attempt, sched, created>>

\* JobWorkerSubsystem::run: crash recovery, then the workers.
Start ==
    /\ proc = "down"
    /\ proc' = "up"
    /\ ResetRunning
    /\ pc' = [w \in Worker |-> "top"]
    /\ UNCHANGED <<now, job, result, woken, unnotified, dbErrors, stops, history>>

\* The reset fails: run returns the error and the process ends.
StartFails ==
    /\ proc = "down"
    /\ "reset" \in FaultyCalls
    /\ dbErrors < MaxDbErrors
    /\ dbErrors' = dbErrors + 1
    /\ UNCHANGED <<rows, now, proc, workers, unnotified, stops, history>>

RequestShutdown ==
    /\ proc = "up"
    /\ stops < MaxStops
    /\ proc' = "stopping"
    /\ stops' = stops + 1
    /\ UNCHANGED <<rows, now, workers, unnotified, dbErrors, history>>

Busy(w) == pc[w] \in {"run", "report"}

\* What the end of the process leaves: the table.
ProcessGone ==
    /\ proc' = "down"
    /\ pc' = [w \in Worker |-> "off"]
    /\ job' = [w \in Worker |-> NoJob]
    /\ result' = [w \in Worker |-> "ok"]
    /\ woken' = {}
    /\ unnotified' = {}
    /\ lost' = [j \in JobId |->
                  lost[j] + Cardinality({w \in Worker : Busy(w) /\ job[w].id = j})]
    /\ UNCHANGED <<rows, now, dbErrors, outcomes>>

\* Every worker left its loop.
Exit ==
    /\ proc = "stopping"
    /\ \A w \in Worker : pc[w] = "off"
    /\ ProcessGone
    /\ UNCHANGED stops

\* A crash, or the 10 s after which a shutdown no longer waits for handlers.
Crash ==
    /\ proc # "down"
    /\ stops < MaxStops
    /\ stops' = stops + 1
    /\ ProcessGone

\* Time matters only while a row waits for its scheduled_at.
Tick ==
    /\ \E j \in JobId : status[j] = "Pending" /\ sched[j] > now
    /\ now' = now + 1
    /\ UNCHANGED <<rows, proc, workers, unnotified, dbErrors, stops, history>>

-----------------------------------------------------------------------------
WorkerStep(w) ==
    \/ TopOfLoop(w)
    \/ \E j \in JobId : ClaimJob(w, j)
    \/ ClaimNone(w)
    \/ WaitBegins(w)
    \/ WaitEnds(w)
    \/ PollTimer(w)
    \/ \E o \in Outcomes : Dispatch(w, o)
    \/ Report(w)
    \/ PauseEnds(w)

Next ==
    \/ \E j \in JobId, d \in Delays : Enqueue(j, d)
    \/ \E j \in JobId : Notify(j)
    \/ \E w \in Worker : WorkerStep(w) \/ DbError(w)
    \/ Start
    \/ StartFails
    \/ RequestShutdown
    \/ Exit
    \/ Crash
    \/ Tick

Spec == Init /\ [][Next]_vars

\* A worker loop that can step is run by the async runtime, time passes, a
\* stopped process ends, and whoever supervises MailKeep starts it again.
\* Handlers return: dispatch sets no timeout, and a handler that hangs holds
\* its worker.  Nothing obliges callers to enqueue, the database to fail or
\* the process to stop.
Fairness ==
    /\ \A w \in Worker : WF_vars(WorkerStep(w))
    /\ \A j \in JobId : WF_vars(Notify(j))
    /\ WF_vars(Start)
    /\ WF_vars(Exit)
    /\ WF_vars(Tick)

FairSpec == Spec /\ Fairness

-----------------------------------------------------------------------------
(* Properties *)

\* Type invariant: the columns, the loop positions and the snapshots have the
\* types of entities/jobs.rs, worker.rs and model.rs.
TypeOK ==
    /\ status \in [JobId -> Statuses]
    /\ attempt \in [JobId -> Nat]
    /\ version \in [JobId -> Nat]
    /\ sched \in [JobId -> Nat]
    /\ created \in [JobId -> Nat]
    /\ now \in Nat
    /\ proc \in {"down", "up", "stopping"}
    /\ pc \in [Worker -> {"off", "top", "claim", "empty", "wait", "run", "report",
                        "pause"}]
    /\ job \in [Worker -> Claims \cup {NoJob}]
    /\ result \in [Worker -> Outcomes]
    /\ woken \subseteq Worker
    /\ unnotified \subseteq JobId
    /\ dbErrors \in Nat
    /\ stops \in Nat
    /\ outcomes \in [JobId -> SUBSET Outcomes]
    /\ lost \in [JobId -> Nat]

\* A worker that runs or reports a job still owns its row: the row is Running
\* at the very version of the claim.  So complete, fail and fail_terminal
\* (adapters/jobs.rs:115-234) never report a version conflict, which would shut
\* the process down.
OwnsItsRow ==
    \A w \in Worker : Busy(w) =>
        /\ job[w] # NoJob
        /\ status[job[w].id] = "Running"
        /\ version[job[w].id] = job[w].version
        /\ attempt[job[w].id] = job[w].attempt

\* No two workers run the same job, whatever crashes, errors and recoveries
\* came before (claim_next's guarded UPDATE, adapters/jobs.rs:86-98).
OneHandlerPerJob ==
    \A v, w \in Worker : Busy(v) /\ Busy(w) /\ v # w => job[v].id # job[w].id

\* The row an enqueue without delay inserted, as long as nobody claimed it.
Fresh(j) == status[j] = "Pending" /\ version[j] = 0 /\ sched[j] = created[j]

\* No wake-up is lost (worker.rs:53-59, service.rs:130): a worker never sleeps
\* on, waiting for its poll timer, nor goes to sleep, while a job that was
\* enqueued for now and announced to the workers has not been claimed.
Sleepy(w) == pc[w] \in {"empty", "wait"}
NoLostWake ==
    \A w \in Worker, j \in JobId :
        Sleepy(w) /\ Fresh(j) /\ j \notin unnotified => w \in woken

\* The retry budget (adapters/jobs.rs:150): a row is attempted max_attempts
\* times, and beyond that only once for every run that a crash or a database
\* error cut short before it was reported.
RetryBudget ==
    \A j \in JobId : attempt[j] <= MaxAttempts + lost[j]

\* No worker works on the row, though the table says Running.
Stranded(j) ==
    status[j] = "Running" /\ \A w \in Worker : Busy(w) => job[w].id # j

\* A row that completed or failed is never claimed, retried or reset again
\* (the status filters of claim_next and reset_running_to_pending).
ResolvedIsFinal ==
    [][\A j \in JobId :
         status[j] \in {"Completed", "Failed"} =>
             status'[j] = status[j] /\ version'[j] = version[j]]_vars

Resolved(j) == status[j] \in {"Completed", "Failed"}

\* Every enqueued job is completed or failed in the end, through crashes,
\* shutdowns, retries and database errors anywhere but in the report of a
\* result.
EveryJobResolves == \A j \in JobId : status[j] = "Pending" ~> Resolved(j)

\* What error.rs:104-107 says of transient errors, "The server can recover
\* without a restart; subsystems should retry": a transient error does not
\* leave a job Running for as long as the process lives.
RecoversWithoutRestart ==
    \A j \in JobId : Stranded(j) ~> (~Stranded(j) \/ proc # "up")

\* What a live process keeps if no report of a result fails: the rows that are
\* Running are those its workers have.
NothingStranded == proc # "down" => \A j \in JobId : ~Stranded(j)

\* The inductive invariant behind the theorems of JobQueueProofs: the safety
\* properties, strengthened by what they need of the steps before.  A row that
\* waits or is stranded has an attempt left in its budget, an untouched row was
\* created in the past, a stopped process has no worker, and what a worker is
\* about to report is what its handler returned.
BudgetLeft ==
    \A j \in JobId :
        /\ status[j] = "none" => attempt[j] = 0
        /\ status[j] = "Pending" \/ Stranded(j) => attempt[j] < MaxAttempts + lost[j]
CreatedInThePast == \A j \in JobId : created[j] <= now
DownIsIdle == proc = "down" => \A w \in Worker : pc[w] = "off"
ResultsRecorded ==
    \A w \in Worker : pc[w] = "report" => result[w] \in outcomes[job[w].id]

IInv ==
    /\ TypeOK
    /\ OwnsItsRow
    /\ OneHandlerPerJob
    /\ NoLostWake
    /\ RetryBudget
    /\ BudgetLeft
    /\ CreatedInThePast
    /\ DownIsIdle
    /\ ResultsRecorded

\* The queue implements its promise to the callers of enqueue, AtLeastOnce: a
\* row is accepted until it is resolved, and active while a worker has it.
PhaseOf(j) ==
    IF status[j] \in {"Pending", "Running"} THEN "accepted"
    ELSE IF status[j] = "Completed" THEN "done"
    ELSE IF status[j] = "Failed" THEN "dropped"
    ELSE "none"
Phase == [j \in JobId |-> PhaseOf(j)]
Active == {job[w].id : w \in {v \in Worker : Busy(v)}}

Promise == INSTANCE AtLeastOnce WITH
    Jobs <- JobId, Limit <- MaxAttempts,
    phase <- Phase, active <- Active, tries <- attempt, results <- outcomes

KeepsPromise == Promise!Spec

==============================================================================
