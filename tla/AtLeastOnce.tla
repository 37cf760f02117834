----------------------------- MODULE AtLeastOnce -----------------------------
(***************************************************************************)
(* What the job queue promises to the components that enqueue jobs: a job  *)
(* once accepted is never forgotten, no two handlers work on it at the     *)
(* same time, it is reported done only after a handler succeeded on it,    *)
(* and it is given up only after a handler failed in a way no retry would  *)
(* mend or after its attempts are used up.  Nothing is said of how the     *)
(* queue stores jobs, who runs them or when the process restarts.          *)
(***************************************************************************)
EXTENDS Naturals

CONSTANTS
    Jobs,        \* every job that is ever accepted
    Limit        \* attempts after which a transient failure is final

Outcomes == {"ok", "transient", "terminal"}

VARIABLES
    phase,       \* "none", "accepted", "done" or "dropped"
    active,      \* the jobs a handler is working on
    tries,       \* attempts begun so far
    results      \* the outcomes handlers returned so far

vars == <<phase, active, tries, results>>

Init ==
    /\ phase = [j \in Jobs |-> "none"]
    /\ active = {}
    /\ tries = [j \in Jobs |-> 0]
    /\ results = [j \in Jobs |-> {}]

Accept(j) ==
    /\ phase[j] = "none"
    /\ phase' = [phase EXCEPT ![j] = "accepted"]
    /\ UNCHANGED <<active, tries, results>>

Begin(j) ==
    /\ phase[j] = "accepted"
    /\ j \notin active
    /\ active' = active \cup {j}
    /\ tries' = [tries EXCEPT ![j] = @ + 1]
    /\ UNCHANGED <<phase, results>>

Return(j, o) ==
    /\ j \in active
    /\ results' = [results EXCEPT ![j] = @ \cup {o}]
    /\ UNCHANGED <<phase, active, tries>>

Finish(j) ==
    /\ j \in active
    /\ "ok" \in results[j]
    /\ phase' = [phase EXCEPT ![j] = "done"]
    /\ active' = active \ {j}
    /\ UNCHANGED <<tries, results>>

Drop(j) ==
    /\ j \in active
    /\ \/ "terminal" \in results[j]
       \/ "transient" \in results[j] /\ tries[j] >= Limit
    /\ phase' = [phase EXCEPT ![j] = "dropped"]
    /\ active' = active \ {j}
    /\ UNCHANGED <<tries, results>>

\* Handlers stop without a verdict: one job is put back, or all of them are
\* when the process dies.
Interrupt ==
    /\ active' \in SUBSET active
    /\ active' # active
    /\ UNCHANGED <<phase, tries, results>>

Next ==
    \/ \E j \in Jobs : Accept(j) \/ Begin(j) \/ Finish(j) \/ Drop(j)
    \/ \E j \in Jobs, o \in Outcomes : Return(j, o)
    \/ Interrupt

Spec == Init /\ [][Next]_vars

==============================================================================
