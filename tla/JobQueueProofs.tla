--------------------------- MODULE JobQueueProofs ----------------------------
(***************************************************************************)
(* Proofs about JobQueue, for any number of jobs, workers, attempts,       *)
(* database errors and crashes. All of them rest on one inductive          *)
(* invariant, IInv: every conjunct is preserved by every action given the  *)
(* others, in particular OwnsItsRow needs OneHandlerPerJob and back. At    *)
(* the end, what holds besides when no report meets a database error.      *)
(***************************************************************************)
EXTENDS JobQueue, TLAPS, FiniteSetTheorems

\* A power of two is a natural number: it counts the subsets of an interval.
LEMMA PowerType == ASSUME NEW n \in Nat PROVE 2^n \in Nat
<1>1. IsFiniteSet(1..n) /\ Cardinality(1..n) = n
  BY FS_Interval
<1>2. IsFiniteSet(SUBSET (1..n)) /\ Cardinality(SUBSET (1..n)) = 2^n
  BY <1>1, FS_SUBSET
<1>3. QED BY <1>2, FS_CardinalityType

LEMMA BackoffType == ASSUME NEW a \in Nat PROVE Backoff(a) \in Nat
<1>1. Min2(a, 20) \in Nat
  BY DEF Min2
<1>2. 2^Min2(a, 20) \in Nat
  BY <1>1, PowerType
<1>3. QED BY <1>2, BackoffUnitAssumption DEF Backoff

\* The busy workers of a job are counted by a natural number, which is not
\* zero if there is one.
BusyOn(j) == {w \in Worker : Busy(w) /\ job[w].id = j}

LEMMA BusyCount ==
  ASSUME NEW j \in JobId
  PROVE  /\ Cardinality(BusyOn(j)) \in Nat
         /\ BusyOn(j) # {} => Cardinality(BusyOn(j)) > 0
<1>1. IsFiniteSet(BusyOn(j))
  BY WorkerAssumption, FS_Subset DEF BusyOn
<1>2. Cardinality(BusyOn(j)) \in Nat
  BY <1>1, FS_CardinalityType
<1>3. Cardinality(BusyOn(j)) = 0 <=> BusyOn(j) = {}
  BY <1>1, FS_EmptySet
<1>4. QED BY <1>2, <1>3
-----------------------------------------------------------------------------
(* Initial states *)

LEMMA InitIInv == Init => IInv
<1> SUFFICES ASSUME Init PROVE IInv
  OBVIOUS
<1>1. TypeOK
  BY DEF Init, TypeOK, Statuses, Outcomes
<1>2. OwnsItsRow /\ OneHandlerPerJob /\ DownIsIdle
  BY DEF Init, OwnsItsRow, OneHandlerPerJob, DownIsIdle, Busy
<1>3. NoLostWake
  BY DEF Init, NoLostWake, Sleepy
<1>4. RetryBudget /\ BudgetLeft /\ CreatedInThePast
  BY MaxAttemptsAssumption DEF Init, RetryBudget, BudgetLeft, CreatedInThePast, Stranded
<1>5. ResultsRecorded
  BY DEF Init, ResultsRecorded
<1>6. QED BY <1>1, <1>2, <1>3, <1>4, <1>5 DEF IInv

-----------------------------------------------------------------------------
(* Types *)

LEMMA StepType == IInv /\ [Next]_vars => TypeOK'
<1> SUFFICES ASSUME IInv, [Next]_vars PROVE TypeOK'
  OBVIOUS
<1> USE DEF rows, workers, history
<1>0. TypeOK /\ OwnsItsRow
  BY DEF IInv
<1>b. ASSUME NEW w \in Worker, Busy(w)
      PROVE  /\ job[w] \in Claims
             /\ job[w].id \in JobId
             /\ job[w].attempt \in Nat
  BY <1>0, <1>b DEF TypeOK, OwnsItsRow, Claims
<1>1. ASSUME NEW j \in JobId, NEW d \in Delays, Enqueue(j, d) PROVE TypeOK'
  BY <1>0, <1>1, DelaysAssumption DEF Enqueue, TypeOK, Statuses
<1>2. ASSUME NEW j \in JobId, Notify(j) PROVE TypeOK'
  BY <1>0, <1>2 DEF Notify, TypeOK, Armed
<1>3. ASSUME NEW w \in Worker, TopOfLoop(w) PROVE TypeOK'
  BY <1>0, <1>3 DEF TopOfLoop, TypeOK
<1>4. ASSUME NEW w \in Worker, NEW j \in JobId, ClaimJob(w, j) PROVE TypeOK'
  BY <1>0, <1>4 DEF ClaimJob, TypeOK, Statuses, Claims
<1>5. ASSUME NEW w \in Worker, \/ ClaimNone(w) \/ WaitBegins(w) \/ WaitEnds(w)
                               \/ PollTimer(w) \/ PauseEnds(w)
      PROVE TypeOK'
  BY <1>0, <1>5 DEF ClaimNone, WaitBegins, WaitEnds, PollTimer, PauseEnds, TypeOK
<1>6. ASSUME NEW w \in Worker, NEW o \in Outcomes, Dispatch(w, o) PROVE TypeOK'
  <2>1. job[w].id \in JobId
    BY <1>6, <1>b DEF Dispatch, Busy
  <2>2. QED BY <1>0, <1>6, <2>1 DEF Dispatch, TypeOK
<1>7. ASSUME NEW w \in Worker, Report(w) PROVE TypeOK'
  <2>1. job[w].id \in JobId /\ Backoff(job[w].attempt) \in Nat
    BY <1>7, <1>b, BackoffType DEF Report, Busy
  <2>2. now + Backoff(job[w].attempt) \in Nat
    BY <1>0, <2>1 DEF TypeOK
  <2>3. CASE Superseded(job[w])
    BY <1>0, <1>7, <2>3 DEF Report, TypeOK, Outcomes
  <2>4. CASE ~Superseded(job[w])
    <3>1. Settle(job[w], result[w]) /\ UNCHANGED <<proc, now, woken, unnotified, dbErrors, stops, outcomes, lost>>
      BY <1>7, <2>4 DEF Report
    <3>2. /\ status' \in [JobId -> Statuses]
          /\ version' \in [JobId -> Nat]
          /\ sched' \in [JobId -> Nat]
      BY <1>0, <3>1, <2>1, <2>2 DEF Settle, TypeOK, Statuses, FinalStatus
    <3>3. /\ pc' \in [Worker -> {"off", "top", "claim", "empty", "wait", "run", "report",
                            "pause"}]
          /\ job' \in [Worker -> Claims \cup {NoJob}]
          /\ result' \in [Worker -> Outcomes]
      BY <1>0, <1>7, <2>4 DEF Report, TypeOK, Outcomes
    <3>4. QED BY <1>0, <3>1, <3>2, <3>3 DEF Settle, TypeOK
  <2>5. QED BY <2>3, <2>4
<1>8. ASSUME NEW w \in Worker, DbError(w) PROVE TypeOK'
  <2>1. pc[w] = "report" => job[w].id \in JobId
    BY <1>b DEF Busy
  <2>2. lost' \in [JobId -> Nat]
    BY <1>0, <1>8, <2>1 DEF DbError, TypeOK
  <2>3. QED BY <1>0, <1>8, <2>2 DEF DbError, TypeOK, Outcomes
<1>9. ASSUME Start PROVE TypeOK'
  BY <1>0, <1>9 DEF Start, ResetRunning, Running, TypeOK, Statuses
<1>10. ASSUME StartFails \/ RequestShutdown PROVE TypeOK'
  BY <1>0, <1>10 DEF StartFails, RequestShutdown, TypeOK
<1>11. ASSUME Exit \/ Crash PROVE TypeOK'
  <2>1. ProcessGone /\ stops' \in Nat
    BY <1>0, <1>11 DEF Exit, Crash, TypeOK
  <2>2. lost' = [j \in JobId |-> lost[j] + Cardinality(BusyOn(j))]
    BY <2>1 DEF ProcessGone, BusyOn
  <2>3. lost' \in [JobId -> Nat]
    BY <1>0, <2>2, BusyCount DEF TypeOK
  <2>4. QED BY <1>0, <2>1, <2>3 DEF ProcessGone, TypeOK, Outcomes
<1>12. ASSUME Tick PROVE TypeOK'
  BY <1>0, <1>12 DEF Tick, TypeOK
<1>13. ASSUME UNCHANGED vars PROVE TypeOK'
  BY <1>0, <1>13 DEF vars, TypeOK
<1>14. QED
  BY <1>1, <1>2, <1>3, <1>4, <1>5, <1>6, <1>7, <1>8, <1>9, <1>10, <1>11, <1>12, <1>13
  DEF Next, WorkerStep
-----------------------------------------------------------------------------
(* Ownership *)

\* A worker that becomes busy claimed a row nobody is busy on: the row was
\* Pending, and the rows of busy workers are Running.
LEMMA StepOwnership ==
  IInv /\ [Next]_vars => OwnsItsRow' /\ OneHandlerPerJob' /\ DownIsIdle'
<1> SUFFICES ASSUME IInv, [Next]_vars
             PROVE OwnsItsRow' /\ OneHandlerPerJob' /\ DownIsIdle'
  OBVIOUS
<1> USE DEF rows, workers, history
<1>0. TypeOK /\ OwnsItsRow /\ OneHandlerPerJob /\ DownIsIdle
  BY DEF IInv
<1> DEFINE Owned == OwnsItsRow' /\ OneHandlerPerJob' /\ DownIsIdle'
<1>1. ASSUME NEW j \in JobId, NEW d \in Delays, Enqueue(j, d) PROVE Owned
  BY <1>0, <1>1 DEF Enqueue, TypeOK, OwnsItsRow, OneHandlerPerJob, DownIsIdle, Busy
<1>2. ASSUME UNCHANGED <<status, version, attempt, pc, job, proc>> PROVE Owned
  BY <1>0, <1>2 DEF OwnsItsRow, OneHandlerPerJob, DownIsIdle, Busy
<1>3. ASSUME NEW w \in Worker, TopOfLoop(w) \/ ClaimNone(w) \/ WaitBegins(w) \/ WaitEnds(w)
                                 \/ PollTimer(w) \/ PauseEnds(w)
      PROVE Owned
  <2>1. /\ UNCHANGED <<status, version, attempt, job, proc>>
        /\ ~Busy(w) /\ ~Busy(w)' /\ pc[w] # "off"
        /\ \A v \in Worker : v # w => pc'[v] = pc[v]
    BY <1>0, <1>3 DEF TopOfLoop, ClaimNone, WaitBegins, WaitEnds, PollTimer, PauseEnds, Busy, TypeOK
  <2>2. QED BY <1>0, <2>1 DEF OwnsItsRow, OneHandlerPerJob, DownIsIdle, Busy
<1>4. ASSUME NEW w \in Worker, NEW j \in JobId, ClaimJob(w, j) PROVE Owned
  <2>1. status[j] = "Pending" /\ pc[w] = "claim" /\ proc # "down"
    BY <1>0, <1>4 DEF ClaimJob, Candidates, Claimable, DownIsIdle
  <2>2. \A v \in Worker : Busy(v) => v # w /\ job[v].id # j
    BY <1>0, <2>1 DEF OwnsItsRow, Busy
  <2>3. /\ job'[w] = [id |-> j, version |-> version[j] + 1, attempt |-> attempt[j] + 1]
        /\ job'[w] \in Claims
        /\ status'[j] = "Running" /\ version'[j] = version[j] + 1
        /\ attempt'[j] = attempt[j] + 1
        /\ \A i \in JobId : i # j => /\ status'[i] = status[i]
                                     /\ version'[i] = version[i]
                                     /\ attempt'[i] = attempt[i]
        /\ \A v \in Worker : v # w => job'[v] = job[v] /\ pc'[v] = pc[v]
        /\ proc' = proc
    BY <1>0, <1>4 DEF ClaimJob, TypeOK, Claims
  <2>4. \A v \in Worker : v # w /\ Busy(v)' =>
            /\ Busy(v) /\ job[v] # NoJob
            /\ job[v].id \in JobId /\ job[v].id # j
    BY <1>0, <2>2, <2>3 DEF Busy, OwnsItsRow, TypeOK, Claims
  <2>5. OwnsItsRow'
    BY <1>0, <2>3, <2>4, NoJobAssumption DEF OwnsItsRow, Busy
  <2>6. OneHandlerPerJob'
    BY <1>0, <2>3, <2>4 DEF OneHandlerPerJob
  <2>7. QED BY <2>1, <2>3, <2>5, <2>6 DEF DownIsIdle
<1>5. ASSUME NEW w \in Worker, NEW o \in Outcomes, Dispatch(w, o) PROVE Owned
  BY <1>0, <1>5 DEF Dispatch, TypeOK, OwnsItsRow, OneHandlerPerJob, DownIsIdle, Busy
<1>6. ASSUME NEW w \in Worker, Report(w) PROVE Owned
  <2>1. /\ Busy(w) /\ ~Busy(w)' /\ proc # "down" /\ proc' # "down"
        /\ job[w].id \in JobId /\ attempt' = attempt
        /\ \A v \in Worker : v # w => job'[v] = job[v] /\ pc'[v] = pc[v]
    BY <1>0, <1>6 DEF Report, Settle, Busy, TypeOK, OwnsItsRow, DownIsIdle, Claims
  <2>2. \A i \in JobId : i # job[w].id => status'[i] = status[i] /\ version'[i] = version[i]
    BY <1>0, <1>6, <2>1 DEF Report, Settle, TypeOK
  <2>3. \A v \in Worker : Busy(v)' =>
            /\ Busy(v) /\ v # w /\ job'[v] = job[v] /\ job[v] # NoJob
            /\ job[v].id \in JobId /\ job[v].id # job[w].id
    BY <1>0, <2>1 DEF Busy, OneHandlerPerJob, OwnsItsRow, TypeOK, Claims
  <2>4. OwnsItsRow' /\ OneHandlerPerJob'
    BY <1>0, <2>1, <2>2, <2>3 DEF OwnsItsRow, OneHandlerPerJob
  <2>5. QED BY <2>1, <2>4 DEF DownIsIdle
<1>7. ASSUME NEW w \in Worker, DbError(w) PROVE Owned
  <2>1. /\ ~Busy(w)' /\ proc # "down" /\ proc' # "down"
        /\ \A v \in Worker : v # w => job'[v] = job[v] /\ pc'[v] = pc[v]
        /\ UNCHANGED <<status, version, attempt>>
    BY <1>0, <1>7 DEF DbError, Busy, TypeOK, DownIsIdle
  <2>2. QED BY <1>0, <2>1 DEF OwnsItsRow, OneHandlerPerJob, DownIsIdle, Busy
<1>8. ASSUME Start PROVE Owned
  BY <1>8 DEF Start, OwnsItsRow, OneHandlerPerJob, DownIsIdle, Busy
<1>9. ASSUME Exit \/ Crash PROVE Owned
  BY <1>9 DEF Exit, Crash, ProcessGone, OwnsItsRow, OneHandlerPerJob, DownIsIdle, Busy
<1>10. ASSUME RequestShutdown PROVE Owned
  BY <1>0, <1>10 DEF RequestShutdown, OwnsItsRow, OneHandlerPerJob, DownIsIdle, Busy
<1>11. QED
  <2>1. ASSUME NEW j \in JobId, Notify(j) PROVE Owned
    BY <1>2, <2>1 DEF Notify
  <2>2. ASSUME StartFails \/ Tick PROVE Owned
    BY <1>2, <2>2 DEF StartFails, Tick
  <2>3. ASSUME UNCHANGED vars PROVE Owned
    BY <1>2, <2>3 DEF vars
  <2>4. QED
    BY <1>1, <1>3, <1>4, <1>5, <1>6, <1>7, <1>8, <1>9, <1>10, <2>1, <2>2, <2>3
    DEF Next, WorkerStep
-----------------------------------------------------------------------------
(* The retry budget *)

\* A claim spends one attempt of the row, and a row is claimed only while it
\* has one left; a failure puts the row back only below max_attempts; a run cut
\* short gives its attempt back by raising lost.
LEMMA StepBudget == IInv /\ [Next]_vars => RetryBudget' /\ BudgetLeft'
<1> SUFFICES ASSUME IInv, [Next]_vars PROVE RetryBudget' /\ BudgetLeft'
  OBVIOUS
<1> USE DEF rows, workers, history
<1>0. TypeOK /\ OwnsItsRow /\ OneHandlerPerJob /\ RetryBudget /\ BudgetLeft /\ DownIsIdle
  BY DEF IInv
<1> DEFINE Budget == RetryBudget' /\ BudgetLeft'
<1>1. ASSUME NEW j \in JobId, NEW d \in Delays, Enqueue(j, d) PROVE Budget
  BY <1>0, <1>1, MaxAttemptsAssumption
  DEF Enqueue, TypeOK, RetryBudget, BudgetLeft, Stranded, Busy
<1>2. ASSUME UNCHANGED <<status, attempt, lost>>,
             \A j \in JobId : Stranded(j)' => Stranded(j)
      PROVE Budget
  BY <1>0, <1>2 DEF RetryBudget, BudgetLeft
<1>3. ASSUME NEW w \in Worker, TopOfLoop(w) \/ ClaimNone(w) \/ WaitBegins(w) \/ WaitEnds(w)
                                 \/ PollTimer(w) \/ PauseEnds(w)
      PROVE Budget
  <2>1. /\ UNCHANGED <<status, attempt, lost, job>>
        /\ \A v \in Worker : Busy(v) => Busy(v)'
    BY <1>0, <1>3 DEF TopOfLoop, ClaimNone, WaitBegins, WaitEnds, PollTimer, PauseEnds, Busy, TypeOK
  <2>2. QED BY <1>2, <2>1 DEF Stranded
<1>4. ASSUME NEW w \in Worker, NEW j \in JobId, ClaimJob(w, j) PROVE Budget
  <2>1. /\ status[j] = "Pending" /\ pc[w] = "claim"
        /\ attempt'[j] = attempt[j] + 1 /\ lost' = lost
        /\ status'[j] = "Running" /\ job'[w].id = j /\ Busy(w)'
        /\ \A i \in JobId : i # j => status'[i] = status[i] /\ attempt'[i] = attempt[i]
        /\ \A v \in Worker : v # w => job'[v] = job[v] /\ pc'[v] = pc[v]
    BY <1>0, <1>4 DEF ClaimJob, Candidates, Claimable, TypeOK, Busy
  <2>2. ~Stranded(j)'
    BY <2>1 DEF Stranded
  <2>3. \A i \in JobId : i # j /\ Stranded(i)' => Stranded(i)
    BY <2>1 DEF Stranded, Busy
  <2>4. attempt[j] < MaxAttempts + lost[j]
    BY <1>0, <2>1 DEF BudgetLeft
  <2>5. RetryBudget'
    BY <1>0, <2>1, <2>4, MaxAttemptsAssumption DEF RetryBudget, TypeOK
  <2>6. BudgetLeft'
    BY <1>0, <2>1, <2>2, <2>3 DEF BudgetLeft
  <2>7. QED BY <2>5, <2>6
<1>5. ASSUME NEW w \in Worker, NEW o \in Outcomes, Dispatch(w, o) PROVE Budget
  <2>1. /\ UNCHANGED <<status, attempt, lost, job>>
        /\ \A v \in Worker : Busy(v) => Busy(v)'
    BY <1>0, <1>5 DEF Dispatch, Busy, TypeOK
  <2>2. QED BY <1>2, <2>1 DEF Stranded
<1>6. ASSUME NEW w \in Worker, Report(w) PROVE Budget
  <2> DEFINE c == job[w]
  <2>1. /\ Busy(w) /\ c.id \in JobId /\ c.attempt = attempt[c.id]
        /\ status[c.id] = "Running" /\ ~Superseded(c)
    BY <1>0, <1>6 DEF Report, Busy, TypeOK, OwnsItsRow, Claims, Superseded
  <2>2. /\ Settle(c, result[w]) /\ lost' = lost /\ attempt' = attempt
        /\ \A v \in Worker : v # w => job'[v] = job[v] /\ pc'[v] = pc[v]
    BY <1>0, <1>6, <2>1 DEF Report, Settle, TypeOK
  <2>3. /\ status'[c.id] # "Running" /\ status'[c.id] # "none"
        /\ status'[c.id] = "Pending" => Retries(c, result[w])
        /\ \A i \in JobId : i # c.id => status'[i] = status[i]
    BY <1>0, <2>1, <2>2 DEF Settle, TypeOK, FinalStatus
  <2>4. \A i \in JobId : i # c.id /\ Stranded(i)' => Stranded(i)
    BY <2>1, <2>2, <2>3 DEF Stranded, Busy
  <2>5. status'[c.id] = "Pending" => attempt[c.id] < MaxAttempts + lost[c.id]
    BY <1>0, <2>1, <2>3, MaxAttemptsAssumption DEF Retries, TypeOK
  <2>6. RetryBudget'
    BY <1>0, <2>2 DEF RetryBudget
  <2>7. BudgetLeft'
    BY <1>0, <2>1, <2>2, <2>3, <2>4, <2>5 DEF BudgetLeft, Stranded
  <2>8. QED BY <2>6, <2>7
<1>7. ASSUME NEW w \in Worker, DbError(w) PROVE Budget
  <2>1. /\ UNCHANGED <<status, attempt>>
        /\ \A v \in Worker : v # w => job'[v] = job[v] /\ pc'[v] = pc[v]
    BY <1>0, <1>7 DEF DbError, TypeOK
  <2>2. CASE pc[w] = "claim"
    <3>1. ~Busy(w) /\ lost' = lost
      BY <1>7, <2>2 DEF DbError, Busy
    <3>2. \A j \in JobId : Stranded(j)' => Stranded(j)
      BY <2>1, <3>1 DEF Stranded, Busy
    <3>3. QED BY <1>2, <2>1, <3>1, <3>2
  <2>3. CASE pc[w] = "report"
    <3>1. Busy(w) /\ job[w].id \in JobId
      BY <1>0, <2>3 DEF Busy, OwnsItsRow, TypeOK, Claims
    <3>2. /\ lost'[job[w].id] = lost[job[w].id] + 1
          /\ \A i \in JobId : i # job[w].id => lost'[i] = lost[i]
      BY <1>0, <1>7, <2>3, <3>1 DEF DbError, TypeOK
    <3>3. status[job[w].id] = "Running"
      BY <1>0, <3>1 DEF OwnsItsRow
    <3>4. \A i \in JobId : i # job[w].id /\ Stranded(i)' => Stranded(i)
      BY <2>1 DEF Stranded, Busy
    <3>5. RetryBudget'
      BY <1>0, <2>1, <3>1, <3>2, MaxAttemptsAssumption DEF RetryBudget, TypeOK
    <3>6. BudgetLeft'
      BY <1>0, <2>1, <3>1, <3>2, <3>3, <3>4, MaxAttemptsAssumption
      DEF BudgetLeft, RetryBudget, TypeOK
    <3>7. QED BY <3>5, <3>6
  <2>4. QED BY <1>7, <2>2, <2>3 DEF DbError
<1>8. ASSUME Start PROVE Budget
  <2>1. \A j \in JobId : status[j] = "Running" => Stranded(j)
    BY <1>0, <1>8 DEF Start, DownIsIdle, Stranded, Busy
  <2>2. /\ UNCHANGED <<attempt, lost>>
        /\ \A j \in JobId : /\ status[j] = "Running" => status'[j] = "Pending"
                            /\ status[j] # "Running" => status'[j] = status[j]
    BY <1>0, <1>8 DEF Start, ResetRunning, Running, TypeOK
  <2>3. QED BY <1>0, <2>1, <2>2 DEF RetryBudget, BudgetLeft, Stranded
<1>9. ASSUME Exit \/ Crash PROVE Budget
  <2>1. /\ UNCHANGED <<status, attempt>>
        /\ lost' = [j \in JobId |-> lost[j] + Cardinality(BusyOn(j))]
    BY <1>9 DEF Exit, Crash, ProcessGone, BusyOn
  <2>2. ASSUME NEW j \in JobId
        PROVE /\ lost'[j] \in Nat /\ lost'[j] >= lost[j]
              /\ BusyOn(j) # {} => lost'[j] > lost[j]
    BY <1>0, <2>1, BusyCount DEF TypeOK
  <2>3. RetryBudget'
    BY <1>0, <2>1, <2>2, MaxAttemptsAssumption DEF RetryBudget, TypeOK
  <2>4. ASSUME NEW j \in JobId, status[j] = "Pending" \/ Stranded(j)'
        PROVE attempt'[j] < MaxAttempts + lost'[j]
    <3>1. CASE status[j] = "Pending" \/ Stranded(j)
      BY <1>0, <2>1, <2>2, <3>1, MaxAttemptsAssumption DEF BudgetLeft, TypeOK
    <3>2. CASE status[j] # "Pending" /\ ~Stranded(j)
      <4>1. status[j] = "Running"
        BY <2>1, <2>4, <3>2 DEF Stranded
      <4>2. BusyOn(j) # {}
        BY <3>2, <4>1 DEF Stranded, BusyOn
      <4>3. QED BY <1>0, <2>1, <2>2, <4>2, MaxAttemptsAssumption DEF RetryBudget, TypeOK
    <3>3. QED BY <3>1, <3>2
  <2>5. BudgetLeft'
    BY <1>0, <2>1, <2>4 DEF BudgetLeft
  <2>6. QED BY <2>3, <2>5
<1>10. QED
  <2>1. ASSUME UNCHANGED <<status, attempt, lost, job, pc>> PROVE Budget
    BY <1>2, <2>1 DEF Stranded, Busy
  <2>2. ASSUME NEW j \in JobId, Notify(j) PROVE Budget
    BY <2>1, <2>2 DEF Notify
  <2>3. ASSUME StartFails \/ RequestShutdown \/ Tick PROVE Budget
    BY <2>1, <2>3 DEF StartFails, RequestShutdown, Tick
  <2>4. ASSUME UNCHANGED vars PROVE Budget
    BY <2>1, <2>4 DEF vars
  <2>5. QED
    BY <1>1, <1>3, <1>4, <1>5, <1>6, <1>7, <1>8, <1>9, <2>2, <2>3, <2>4
    DEF Next, WorkerStep
-----------------------------------------------------------------------------
(* Wake-ups *)

\* A worker falls asleep only when no row is claimable, a fresh row is
\* claimable from its insertion on, and the announcement of a row inserted
\* later reaches every worker that is asleep by then.
LEMMA StepWake == IInv /\ [Next]_vars => NoLostWake' /\ CreatedInThePast'
<1> SUFFICES ASSUME IInv, [Next]_vars PROVE NoLostWake' /\ CreatedInThePast'
  OBVIOUS
<1> USE DEF rows, workers, history, Sleepy
<1>0. TypeOK /\ NoLostWake /\ CreatedInThePast /\ OwnsItsRow
  BY DEF IInv
<1> DEFINE Awake == NoLostWake' /\ CreatedInThePast'
<1>1. ASSUME NEW j \in JobId, NEW d \in Delays, Enqueue(j, d) PROVE Awake
  BY <1>0, <1>1 DEF Enqueue, TypeOK, NoLostWake, CreatedInThePast, Fresh
<1>2. ASSUME UNCHANGED <<created, now, unnotified>>,
             \A j \in JobId : Fresh(j)' => Fresh(j),
             \A w \in Worker : Sleepy(w)' =>
                Sleepy(w) /\ (w \in woken => w \in woken')
      PROVE Awake
  BY <1>0, <1>2 DEF NoLostWake, CreatedInThePast
<1>3. ASSUME NEW j \in JobId, Notify(j) PROVE Awake
  BY <1>0, <1>3 DEF Notify, NoLostWake, CreatedInThePast, Fresh, Armed
<1>4. ASSUME NEW w \in Worker, TopOfLoop(w) \/ WaitBegins(w) \/ WaitEnds(w)
                             \/ PollTimer(w) \/ PauseEnds(w)
      PROVE Awake
  <2>1. /\ UNCHANGED <<status, version, sched, created, now, unnotified>>
        /\ \A v \in Worker : Sleepy(v)' =>
              Sleepy(v) /\ (v \in woken => v \in woken')
    BY <1>0, <1>4 DEF TopOfLoop, WaitBegins, WaitEnds, PollTimer, PauseEnds, TypeOK
  <2>2. QED BY <1>2, <2>1 DEF Fresh
<1>5. ASSUME NEW w \in Worker, NEW j \in JobId, ClaimJob(w, j) PROVE Awake
  <2>1. /\ UNCHANGED <<created, sched, now, unnotified, woken>>
        /\ status'[j] = "Running"
        /\ \A i \in JobId : i # j => status'[i] = status[i] /\ version'[i] = version[i]
        /\ \A v \in Worker : Sleepy(v)' => Sleepy(v)
    BY <1>0, <1>5 DEF ClaimJob, TypeOK
  <2>2. \A i \in JobId : Fresh(i)' => Fresh(i)
    BY <2>1 DEF Fresh
  <2>3. QED BY <1>2, <2>1, <2>2
<1>6. ASSUME NEW w \in Worker, ClaimNone(w) PROVE Awake
  <2>1. \A j \in JobId : ~Fresh(j)
    BY <1>0, <1>6 DEF ClaimNone, Claimable, Fresh, CreatedInThePast, TypeOK
  <2>2. UNCHANGED <<status, version, sched, created, now>>
    BY <1>6 DEF ClaimNone
  <2>3. QED BY <1>0, <2>1, <2>2 DEF NoLostWake, CreatedInThePast, Fresh
<1>7. ASSUME NEW w \in Worker, NEW o \in Outcomes, Dispatch(w, o) PROVE Awake
  <2>1. /\ UNCHANGED <<status, version, sched, created, now, unnotified, woken>>
        /\ \A v \in Worker : Sleepy(v)' => Sleepy(v)
    BY <1>0, <1>7 DEF Dispatch, TypeOK
  <2>2. QED BY <1>2, <2>1 DEF Fresh
<1>8. ASSUME NEW w \in Worker, Report(w) PROVE Awake
  <2>1. /\ UNCHANGED <<created, now, unnotified, woken>>
        /\ \A v \in Worker : Sleepy(v)' => Sleepy(v)
        /\ Busy(w) /\ job[w].id \in JobId
    BY <1>0, <1>8 DEF Report, Settle, TypeOK, Busy, OwnsItsRow, Claims
  <2>2. \A i \in JobId : Fresh(i)' => Fresh(i)
    <3>1. CASE Superseded(job[w])
      BY <1>8, <3>1 DEF Report, Fresh
    <3>2. CASE ~Superseded(job[w])
      <4>1. Settle(job[w], result[w])
        BY <1>8, <3>2 DEF Report
      <4>2. version'[job[w].id] = version[job[w].id] + 1
        BY <1>0, <2>1, <4>1 DEF Settle, TypeOK
      <4>3. version'[job[w].id] # 0
        BY <1>0, <2>1, <4>2 DEF TypeOK
      <4>4. \A i \in JobId : i # job[w].id =>
              status'[i] = status[i] /\ version'[i] = version[i] /\ sched'[i] = sched[i]
        BY <1>0, <4>1 DEF Settle, TypeOK
      <4>5. QED BY <2>1, <4>3, <4>4 DEF Fresh
    <3>3. QED BY <3>1, <3>2
  <2>3. QED BY <1>2, <2>1, <2>2
<1>9. ASSUME NEW w \in Worker, DbError(w) PROVE Awake
  <2>1. /\ UNCHANGED <<status, version, sched, created, now, unnotified, woken>>
        /\ \A v \in Worker : Sleepy(v)' => Sleepy(v)
    BY <1>0, <1>9 DEF DbError, TypeOK
  <2>2. QED BY <1>2, <2>1 DEF Fresh
<1>10. ASSUME Start PROVE Awake
  BY <1>0, <1>10 DEF Start, ResetRunning, NoLostWake, CreatedInThePast, Fresh
<1>11. ASSUME Exit \/ Crash PROVE Awake
  BY <1>0, <1>11 DEF Exit, Crash, ProcessGone, NoLostWake, CreatedInThePast, Fresh
<1>12. ASSUME Tick PROVE Awake
  BY <1>0, <1>12 DEF Tick, NoLostWake, CreatedInThePast, Fresh, TypeOK
<1>13. ASSUME StartFails \/ RequestShutdown PROVE Awake
  BY <1>0, <1>13 DEF StartFails, RequestShutdown, NoLostWake, CreatedInThePast, Fresh
<1>14. ASSUME UNCHANGED vars PROVE Awake
  BY <1>0, <1>14 DEF vars, NoLostWake, CreatedInThePast, Fresh
<1>15. QED
  BY <1>1, <1>3, <1>4, <1>5, <1>6, <1>7, <1>8, <1>9, <1>10, <1>11, <1>12, <1>13, <1>14
  DEF Next, WorkerStep

-----------------------------------------------------------------------------
(* Results *)

\* Only dispatch brings a worker to its report, and outcomes only grow.
LEMMA StepResults == IInv /\ [Next]_vars => ResultsRecorded'
<1> SUFFICES ASSUME IInv, [Next]_vars PROVE ResultsRecorded'
  OBVIOUS
<1> USE DEF rows, workers, history
<1>0. TypeOK /\ OwnsItsRow /\ ResultsRecorded
  BY DEF IInv
<1>1. ASSUME NEW w \in Worker, NEW o \in Outcomes, Dispatch(w, o) PROVE ResultsRecorded'
  <2>1. \A v \in Worker : Busy(v) => job[v].id \in JobId
    BY <1>0 DEF OwnsItsRow, TypeOK, Claims
  <2>2. \A v \in Worker : pc'[v] = "report" => job[v].id \in JobId
    BY <1>0, <1>1, <2>1 DEF Dispatch, TypeOK, Busy
  <2>3. QED BY <1>0, <1>1, <2>2 DEF Dispatch, TypeOK, ResultsRecorded
<1>2. ASSUME UNCHANGED outcomes,
             \A w \in Worker : pc'[w] = "report" =>
                pc[w] = "report" /\ result'[w] = result[w] /\ job'[w] = job[w]
      PROVE ResultsRecorded'
  BY <1>0, <1>2 DEF ResultsRecorded
<1>3. ASSUME NEW w \in Worker, \/ TopOfLoop(w) \/ ClaimNone(w) \/ WaitBegins(w) \/ WaitEnds(w)
                               \/ PollTimer(w) \/ PauseEnds(w) \/ Report(w) \/ DbError(w)
                               \/ \E j \in JobId : ClaimJob(w, j)
      PROVE ResultsRecorded'
  BY <1>0, <1>2, <1>3
  DEF TopOfLoop, ClaimNone, WaitBegins, WaitEnds, PollTimer, PauseEnds, Report,
      DbError, ClaimJob, TypeOK
<1>4. ASSUME Start \/ Exit \/ Crash PROVE ResultsRecorded'
  BY <1>2, <1>4 DEF Start, Exit, Crash, ProcessGone
<1>5. ASSUME \/ \E j \in JobId : Notify(j)
             \/ \E j \in JobId, d \in Delays : Enqueue(j, d)
             \/ StartFails \/ RequestShutdown \/ Tick
             \/ UNCHANGED vars
      PROVE ResultsRecorded'
  BY <1>2, <1>5 DEF Notify, Enqueue, StartFails, RequestShutdown, Tick, vars
<1>6. QED BY <1>1, <1>3, <1>4, <1>5 DEF Next, WorkerStep

-----------------------------------------------------------------------------
(* Theorems *)

\* IInv holds in every reachable state: no sequence of claims, results, retries,
\* database errors, crashes and recoveries (worker.rs:38-214,
\* adapters/jobs.rs:61-250) breaks any of its conjuncts.
THEOREM InductiveInvariant == Spec => []IInv
<1>1. IInv /\ [Next]_vars => IInv'
  BY StepType, StepOwnership, StepBudget, StepWake, StepResults DEF IInv
<1>2. QED BY InitIInv, <1>1, PTL DEF Spec

\* The columns and the worker states keep their types.
THEOREM TypeCorrect == Spec => []TypeOK
<1>1. IInv => TypeOK
  BY DEF IInv
<1>2. QED BY <1>1, InductiveInvariant, PTL

\* A busy worker owns its row at the version it claimed, so no report is ever
\* refused for a version conflict (adapters/jobs.rs:130-135).
THEOREM Ownership == Spec => []OwnsItsRow
<1>1. IInv => OwnsItsRow
  BY DEF IInv
<1>2. QED BY <1>1, InductiveInvariant, PTL

\* Two workers never run the same job at the same time.
THEOREM MutualExclusion == Spec => []OneHandlerPerJob
<1>1. IInv => OneHandlerPerJob
  BY DEF IInv
<1>2. QED BY <1>1, InductiveInvariant, PTL

\* No worker sleeps through a job that was enqueued for now and announced
\* (worker.rs:53-59).
THEOREM WakeUps == Spec => []NoLostWake
<1>1. IInv => NoLostWake
  BY DEF IInv
<1>2. QED BY <1>1, InductiveInvariant, PTL

\* Attempts beyond max_attempts are paid for by runs that were cut short
\* (adapters/jobs.rs:150).
THEOREM BoundedRetries == Spec => []RetryBudget
<1>1. IInv => RetryBudget
  BY DEF IInv
<1>2. QED BY <1>1, InductiveInvariant, PTL

\* A completed or failed row is never touched again: claims take Pending rows,
\* recovery takes Running rows, and a report finds its own row Running.
THEOREM Finality == Spec => ResolvedIsFinal
<1> DEFINE Final == \A j \in JobId : status[j] \in {"Completed", "Failed"} =>
                      status'[j] = status[j] /\ version'[j] = version[j]
<1>1. IInv /\ [Next]_vars => [Final]_vars
  <2> SUFFICES ASSUME IInv, Next PROVE Final
    BY DEF vars
  <2> USE DEF rows, workers, history
  <2>0. TypeOK /\ OwnsItsRow
    BY DEF IInv
  <2>1. ASSUME NEW j \in JobId, NEW d \in Delays, Enqueue(j, d) PROVE Final
    BY <2>0, <2>1 DEF Enqueue, TypeOK
  <2>2. ASSUME UNCHANGED <<status, version>> PROVE Final
    BY <2>2
  <2>3. ASSUME NEW w \in Worker, NEW j \in JobId, ClaimJob(w, j) PROVE Final
    BY <2>0, <2>3 DEF ClaimJob, Candidates, Claimable, TypeOK
  <2>4. ASSUME NEW w \in Worker, Report(w) PROVE Final
    <3>1. status[job[w].id] = "Running"
      BY <2>0, <2>4 DEF Report, OwnsItsRow, Busy
    <3>2. \A i \in JobId : i # job[w].id => status'[i] = status[i] /\ version'[i] = version[i]
      BY <2>0, <2>4 DEF Report, Settle, TypeOK
    <3>3. QED BY <3>1, <3>2
  <2>5. ASSUME Start PROVE Final
    BY <2>5 DEF Start, ResetRunning, Running
  <2>6. ASSUME NEW w \in Worker, \/ TopOfLoop(w) \/ ClaimNone(w) \/ WaitBegins(w) \/ WaitEnds(w)
                                 \/ PollTimer(w) \/ PauseEnds(w) \/ DbError(w)
                                 \/ \E o \in Outcomes : Dispatch(w, o)
        PROVE Final
    BY <2>2, <2>6 DEF TopOfLoop, ClaimNone, WaitBegins, WaitEnds, PollTimer, PauseEnds,
                        DbError, Dispatch
  <2>7. ASSUME \/ \E j \in JobId : Notify(j)
               \/ StartFails \/ RequestShutdown \/ Exit \/ Crash \/ Tick
        PROVE Final
    BY <2>2, <2>7 DEF Notify, StartFails, RequestShutdown, Exit, Crash, ProcessGone, Tick
  <2>8. QED
    BY <2>1, <2>3, <2>4, <2>5, <2>6, <2>7 DEF Next, WorkerStep
<1>2. QED BY <1>1, InductiveInvariant, PTL DEF Spec, ResolvedIsFinal
-----------------------------------------------------------------------------
(* Refinement *)

\* The initial states of the queue are initial states of its promise.
LEMMA RefinesInit == Init => Promise!Init
BY DEF Init, Promise!Init, Phase, PhaseOf, Active, Busy

\* A step that keeps rows and outcomes, and makes no worker busy, is a stutter
\* of the promise if it stops no worker, and an interruption if it does.
LEMMA RefinesQuiet ==
  ASSUME UNCHANGED <<status, attempt, outcomes>>, Active' \in SUBSET Active
  PROVE  [Promise!Next]_(Promise!vars)
BY DEF Promise!Next, Promise!vars, Promise!Interrupt, Phase, PhaseOf

\* Every step of the queue is a step of its promise, or a stutter.
LEMMA RefinesNext == IInv /\ [Next]_vars => [Promise!Next]_(Promise!vars)
<1> SUFFICES ASSUME IInv, [Next]_vars PROVE [Promise!Next]_(Promise!vars)
  OBVIOUS
<1> USE DEF rows, workers, history
<1>0. /\ TypeOK /\ OwnsItsRow /\ OneHandlerPerJob /\ DownIsIdle
      /\ ResultsRecorded
  BY DEF IInv
<1>b. ASSUME NEW w \in Worker, Busy(w)
      PROVE  /\ job[w].id \in JobId /\ job[w].id \in Active
             /\ status[job[w].id] = "Running"
             /\ attempt[job[w].id] = job[w].attempt
             /\ ~Superseded(job[w])
  BY <1>0, <1>b DEF TypeOK, OwnsItsRow, Claims, Active, Superseded
<1>1. ASSUME NEW j \in JobId, NEW d \in Delays, Enqueue(j, d)
      PROVE [Promise!Next]_(Promise!vars)
  <2>1. /\ Phase[j] = "none" /\ Active' = Active
        /\ Phase' = [Phase EXCEPT ![j] = "accepted"]
    BY <1>0, <1>1 DEF Enqueue, Phase, PhaseOf, TypeOK, Active, Busy
  <2>2. Promise!Accept(j)
    BY <1>1, <2>1 DEF Promise!Accept, Enqueue, Phase, PhaseOf, Active
  <2>3. QED BY <2>2 DEF Promise!Next
<1>2. ASSUME NEW w \in Worker, NEW j \in JobId, ClaimJob(w, j)
      PROVE [Promise!Next]_(Promise!vars)
  <2>1. /\ status[j] = "Pending" /\ pc[w] = "claim"
        /\ attempt' = [attempt EXCEPT ![j] = @ + 1] /\ outcomes' = outcomes
        /\ job'[w].id = j /\ Busy(w)' /\ ~Busy(w)
        /\ \A v \in Worker : v # w => job'[v] = job[v] /\ pc'[v] = pc[v]
    BY <1>0, <1>2 DEF ClaimJob, Candidates, Claimable, TypeOK, Busy
  <2>2. j \notin Active /\ Active' = Active \cup {j}
    BY <1>b, <2>1 DEF Active, Busy
  <2>3. Phase[j] = "accepted" /\ Phase' = Phase
    BY <1>0, <1>2, <2>1 DEF ClaimJob, Phase, PhaseOf, TypeOK
  <2>4. Promise!Begin(j)
    BY <2>1, <2>2, <2>3 DEF Promise!Begin, Phase, PhaseOf, Active
  <2>5. QED BY <2>4 DEF Promise!Next
<1>3. ASSUME NEW w \in Worker, NEW o \in Outcomes, Dispatch(w, o)
      PROVE [Promise!Next]_(Promise!vars)
  <2>1. Busy(w) /\ job' = job /\ UNCHANGED <<status, attempt>>
        /\ \A v \in Worker : Busy(v)' <=> Busy(v)
    BY <1>0, <1>3 DEF Dispatch, Busy, TypeOK
  <2>2. Active' = Active
    BY <2>1 DEF Active
  <2>3. job[w].id \in Active /\ job[w].id \in JobId
    BY <1>b, <2>1
  <2>4. Promise!Return(job[w].id, o)
    BY <1>3, <2>1, <2>2, <2>3 DEF Dispatch, Promise!Return, Phase, PhaseOf
  <2>5. o \in Promise!Outcomes
    BY DEF Outcomes, Promise!Outcomes
  <2>6. QED BY <2>3, <2>4, <2>5 DEF Promise!Next
<1>4. ASSUME NEW w \in Worker, Report(w) PROVE [Promise!Next]_(Promise!vars)
  <2> DEFINE c == job[w]
             j == job[w].id
  <2>1. Busy(w) /\ pc[w] = "report"
    BY <1>4 DEF Report, Busy
  <2>2. /\ j \in JobId /\ j \in Active /\ status[j] = "Running"
        /\ attempt[j] = c.attempt /\ ~Superseded(c)
    BY <1>b, <2>1
  <2>3. /\ Settle(c, result[w]) /\ UNCHANGED <<attempt, outcomes>>
        /\ ~Busy(w)'
        /\ \A v \in Worker : v # w => job'[v] = job[v] /\ pc'[v] = pc[v]
    BY <1>0, <1>4, <2>2 DEF Report, Settle, Busy, TypeOK
  <2>4. Active' = Active \ {j}
    BY <1>0, <2>1, <2>3 DEF Active, Busy, OneHandlerPerJob
  <2>5. result[w] \in outcomes[j] /\ result[w] \in Outcomes
    BY <1>0, <2>1 DEF ResultsRecorded, TypeOK
  <2>6. status' = [status EXCEPT ![j] = IF Retries(c, result[w]) THEN "Pending"
                                        ELSE FinalStatus(result[w])]
    BY <2>3 DEF Settle
  <2>7. CASE Retries(c, result[w])
    <3>1. Phase' = Phase
      BY <1>0, <2>2, <2>6, <2>7 DEF Phase, PhaseOf, TypeOK
    <3>2. Promise!Interrupt
      BY <2>2, <2>3, <2>4, <3>1 DEF Promise!Interrupt, Phase, PhaseOf, Active
    <3>3. QED BY <3>2 DEF Promise!Next
  <2>8. CASE result[w] = "ok"
    <3>1. Phase' = [Phase EXCEPT ![j] = "done"]
      BY <1>0, <2>2, <2>6, <2>8 DEF Phase, PhaseOf, TypeOK, Retries, FinalStatus
    <3>2. Promise!Finish(j)
      BY <2>2, <2>3, <2>4, <2>5, <2>8, <3>1 DEF Promise!Finish, Phase, PhaseOf, Active
    <3>3. QED BY <2>2, <3>2 DEF Promise!Next
  <2>9. CASE ~Retries(c, result[w]) /\ result[w] # "ok"
    <3>1. Phase' = [Phase EXCEPT ![j] = "dropped"]
      BY <1>0, <2>2, <2>6, <2>9 DEF Phase, PhaseOf, TypeOK, FinalStatus
    <3>2. \/ result[w] = "terminal"
          \/ result[w] = "transient" /\ attempt[j] >= MaxAttempts
      BY <1>0, <2>2, <2>5, <2>9, MaxAttemptsAssumption DEF Retries, Outcomes, TypeOK
    <3>3. Promise!Drop(j)
      BY <2>2, <2>3, <2>4, <2>5, <3>1, <3>2 DEF Promise!Drop, Phase, PhaseOf, Active
    <3>4. QED BY <2>2, <3>3 DEF Promise!Next
  <2>10. QED BY <2>7, <2>8, <2>9
<1>5. ASSUME NEW w \in Worker, \/ TopOfLoop(w) \/ ClaimNone(w) \/ WaitBegins(w) \/ WaitEnds(w)
                               \/ PollTimer(w) \/ PauseEnds(w) \/ DbError(w)
      PROVE [Promise!Next]_(Promise!vars)
  <2>1. /\ UNCHANGED <<status, attempt, outcomes>>
        /\ \A v \in Worker : Busy(v)' => Busy(v) /\ job'[v] = job[v]
    BY <1>0, <1>5 DEF TopOfLoop, ClaimNone, WaitBegins, WaitEnds, PollTimer, PauseEnds,
                        DbError, Busy, TypeOK
  <2>2. Active' \in SUBSET Active
    BY <2>1 DEF Active
  <2>3. QED BY <2>1, <2>2, RefinesQuiet
<1>6. ASSUME Start PROVE [Promise!Next]_(Promise!vars)
  <2>1. Phase' = Phase
    BY <1>0, <1>6 DEF Start, ResetRunning, Running, Phase, PhaseOf, TypeOK
  <2>2. Active' = {} /\ Active = {}
    BY <1>0, <1>6 DEF Start, Active, Busy, DownIsIdle
  <2>3. QED BY <1>6, <2>1, <2>2 DEF Start, ResetRunning, Promise!vars, Phase, PhaseOf, Active
<1>7. ASSUME Exit \/ Crash PROVE [Promise!Next]_(Promise!vars)
  <2>1. UNCHANGED <<status, attempt, outcomes>> /\ Active' = {}
    BY <1>7 DEF Exit, Crash, ProcessGone, Active, Busy
  <2>2. QED BY <2>1, RefinesQuiet
<1>8. ASSUME \/ \E j \in JobId : Notify(j)
             \/ StartFails \/ RequestShutdown \/ Tick
             \/ UNCHANGED vars
      PROVE [Promise!Next]_(Promise!vars)
  <2>1. UNCHANGED <<status, attempt, outcomes, pc, job>>
    BY <1>8 DEF Notify, StartFails, RequestShutdown, Tick, vars
  <2>2. Active' = Active
    BY <2>1 DEF Active, Busy
  <2>3. QED BY <2>1, <2>2, RefinesQuiet
<1>9. QED
  BY <1>1, <1>2, <1>3, <1>4, <1>5, <1>6, <1>7, <1>8 DEF Next, WorkerStep

\* The queue implements AtLeastOnce: with any interleaving, error, crash and
\* recovery, a job is never forgotten, never worked on twice at the same time,
\* done only after a success and dropped only after a terminal failure or with
\* its attempts used up.
THEOREM Refinement == Spec => KeepsPromise
BY RefinesInit, RefinesNext, InductiveInvariant, PTL DEF Spec, KeepsPromise, Promise!Spec

-----------------------------------------------------------------------------
(* Stranded rows *)

LEMMA StepStranded ==
  ASSUME IInv, [Next]_vars, "report" \notin FaultyCalls, NothingStranded
  PROVE  NothingStranded'
<1> SUFFICES ASSUME proc' # "down", NEW i \in JobId, status'[i] = "Running"
             PROVE  \E v \in Worker : Busy(v)' /\ job'[v].id = i
  BY DEF NothingStranded, Stranded
<1> USE DEF IInv, TypeOK, Busy, rows, workers, history
<1>1. proc # "down" /\ status[i] = "Running" => \E v \in Worker : Busy(v) /\ job[v].id = i
  BY DEF NothingStranded, Stranded
<1>2. ASSUME NEW w \in Worker, NEW j \in JobId, ClaimJob(w, j)
      PROVE \E v \in Worker : Busy(v)' /\ job'[v].id = i
  <2>1. /\ pc[w] = "claim" /\ pc'[w] = "run" /\ job'[w].id = j /\ proc' = proc
        /\ \A v \in Worker : v # w => pc'[v] = pc[v] /\ job'[v] = job[v]
        /\ i # j => status[i] = "Running"
    BY <1>2 DEF ClaimJob
  <2>2. CASE i = j
    BY <2>1, <2>2
  <2>3. CASE i # j
    BY <1>1, <2>1, <2>3
  <2>4. QED BY <2>2, <2>3
<1>3. ASSUME NEW w \in Worker, Report(w)
      PROVE \E v \in Worker : Busy(v)' /\ job'[v].id = i
  <2>1. /\ job[w] \in Claims /\ ~Superseded(job[w]) /\ pc[w] = "report"
        /\ job[w].id \in JobId
    BY <1>3 DEF OwnsItsRow, Superseded, Report, Claims
  <2>2. /\ status' = [status EXCEPT ![job[w].id] =
                        IF Retries(job[w], result[w]) THEN "Pending" ELSE FinalStatus(result[w])]
        /\ \A v \in Worker : v # w => pc'[v] = pc[v] /\ job'[v] = job[v]
        /\ proc' = proc
    BY <1>3, <2>1 DEF Report, Settle
  <2>3. i # job[w].id /\ status[i] = "Running"
    BY <2>1, <2>2 DEF FinalStatus
  <2>4. PICK v \in Worker : Busy(v) /\ job[v].id = i
    BY <1>1, <2>2, <2>3
  <2>5. QED BY <2>2, <2>3, <2>4
<1>4. ASSUME NEW w \in Worker, NEW o \in Outcomes, Dispatch(w, o)
      PROVE \E v \in Worker : Busy(v)' /\ job'[v].id = i
  <2>1. /\ UNCHANGED <<status, proc, job>>
        /\ \A v \in Worker : Busy(v) => Busy(v)'
    BY <1>4 DEF Dispatch
  <2>2. QED BY <1>1, <2>1
<1>5. ASSUME NEW w \in Worker, \/ TopOfLoop(w) \/ ClaimNone(w) \/ WaitBegins(w) \/ WaitEnds(w)
                               \/ PollTimer(w) \/ PauseEnds(w) \/ DbError(w)
      PROVE \E v \in Worker : Busy(v)' /\ job'[v].id = i
  <2>1. /\ UNCHANGED status /\ proc # "down"
        /\ \A v \in Worker : Busy(v) => Busy(v)' /\ job'[v] = job[v]
    BY <1>5 DEF TopOfLoop, ClaimNone, WaitBegins, WaitEnds, PollTimer, PauseEnds, DbError, DownIsIdle
  <2>2. QED BY <1>1, <2>1
<1>6. ASSUME NEW j \in JobId, NEW d \in Delays, Enqueue(j, d)
      PROVE \E v \in Worker : Busy(v)' /\ job'[v].id = i
  BY <1>1, <1>6 DEF Enqueue
<1>7. ASSUME Start PROVE \E v \in Worker : Busy(v)' /\ job'[v].id = i
  BY <1>7 DEF Start, ResetRunning, Running
<1>8. ASSUME \/ \E j \in JobId : Notify(j)
             \/ StartFails \/ RequestShutdown \/ Tick
             \/ UNCHANGED vars
      PROVE \E v \in Worker : Busy(v)' /\ job'[v].id = i
  <2>1. UNCHANGED <<status, pc, job>> /\ (proc' # "down" => proc # "down")
    BY <1>8 DEF Notify, StartFails, RequestShutdown, Tick, vars
  <2>2. QED BY <1>1, <2>1
<1>9. ~(Exit \/ Crash)
  BY DEF Exit, Crash, ProcessGone
<1>10. QED
  BY <1>2, <1>3, <1>4, <1>5, <1>6, <1>7, <1>8, <1>9 DEF Next, WorkerStep

\* Unless the report of a result meets a database error, a live process has a worker on
\* every row that says Running, through failed claims, retries, crashes and recoveries
\* (worker.rs:60-169, reset_running_to_pending).
THEOREM RunningRowsAreRun ==
  ASSUME "report" \notin FaultyCalls PROVE Spec => []NothingStranded
<1>1. Init => NothingStranded
  BY DEF Init, NothingStranded
<1>2. IInv /\ NothingStranded /\ [Next]_vars => NothingStranded'
  BY StepStranded, "report" \notin FaultyCalls
<1>3. QED BY <1>1, <1>2, InductiveInvariant, PTL DEF Spec

\* So the queue recovers from a transient error without a restart (error.rs:104-107), but for
\* one in the transaction that reports.
THEOREM Recovery ==
  ASSUME "report" \notin FaultyCalls PROVE Spec => RecoversWithoutRestart
<1> SUFFICES ASSUME NEW j \in JobId
             PROVE  Spec => (Stranded(j) ~> (~Stranded(j) \/ proc # "up"))
  BY DEF RecoversWithoutRestart
<1>1. NothingStranded => (Stranded(j) => ~Stranded(j) \/ proc # "up")
  BY DEF NothingStranded
<1>2. QED BY <1>1, RunningRowsAreRun, PTL
==============================================================================
