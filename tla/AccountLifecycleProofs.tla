----------------------- MODULE AccountLifecycleProofs ------------------------
(***************************************************************************)
(* Proofs about AccountLifecycle, for any number of overlapping requests,  *)
(* failures and shutdowns.  The inductive invariant is IInv: that alive    *)
(* handles are in the map or in a starter's hand (NoLeak) is preserved     *)
(* because a handle has one owner (OneOwner), and the other way round.     *)
(***************************************************************************)
EXTENDS AccountLifecycle, TLAPS

USE DEF rows, port, held, bounds

LEMMA InitIInv == Init => IInv
<1> SUFFICES ASSUME Init PROVE IInv
  OBVIOUS
<1>1. TypeOK
  <2>1. enabled \in BOOLEAN /\ folders \in BOOLEAN /\ quiet \in BOOLEAN
    BY Zenon DEF Init
  <2>2. row \in {"none", "live", "deleted"} /\ up \in {"up", "stopping", "down"}
    BY DEF Init
  <2>3. requests \in 0..MaxRequests /\ failures \in 0..MaxFailures /\ stops \in 0..MaxStops
    BY BoundsAssumption DEF Init
  <2>4. status \in Statuses /\ tracked \in Handle \cup {None} /\ snap \in Statuses \cup {None}
    BY DEF Init, Statuses
  <2>5. /\ task \in [Handle -> {"free", "empty", "running", "stopping"}]
        /\ live \in [Handle -> {"Connecting"} \cup Live]
    BY DEF Init
  <2>6. /\ pc \in [Actor -> Steps] /\ next \in [Actor -> Resumes]
        /\ hand \in [Actor -> Handle \cup {None}] /\ seen \in [Actor -> BOOLEAN]
    BY DEF Init, Steps, Resumes
  <2>7. QED BY <2>1, <2>2, <2>3, <2>4, <2>5, <2>6 DEF TypeOK
<1>2. NoLeak /\ OneOwner
  BY SubAssumption DEF Init, NoLeak, OneOwner, Alive, Actor
<1>3. QuietShutdown
  BY DEF Init, QuietShutdown
<1>4. QED BY <1>1, <1>2, <1>3 DEF IInv

-----------------------------------------------------------------------------
(* Types *)

\* An actor's own steps, whoever it is.
StartStep(a) ==
    ListFolders(a) \/ Unhook(a) \/ Join(a) \/ Spawn(a) \/ Insert(a) \/ Report(a)

LEMMA StartStepType ==
  ASSUME TypeOK, OneOwner, NEW a \in Actor, StartStep(a) PROVE TypeOK'
<1> USE DEF TypeOK, Goes, Steps, Resumes
<1>1. CASE ListFolders(a)
  BY <1>1 DEF ListFolders
<1>2. CASE Unhook(a)
  BY <1>2 DEF Unhook, Ended
<1>3. CASE Join(a)
  BY <1>3 DEF Join
<1>4. CASE Spawn(a)
  BY <1>4 DEF Spawn
<1>5. CASE Insert(a)
  <2>1. hand[a] \in Handle
    BY <1>5 DEF Insert, OneOwner
  <2>2. task' \in [Handle -> {"free", "empty", "running", "stopping"}]
    BY <1>5 DEF Insert, Ended
  <2>3. QED BY <1>5, <2>1, <2>2 DEF Insert
<1>6. CASE Report(a)
  BY <1>6 DEF Report, Done, Statuses
<1>7. QED BY <1>1, <1>2, <1>3, <1>4, <1>5, <1>6 DEF StartStep

LEMMA PageType ==
  ASSUME TypeOK, NEW p \in Page,
         \/ LoadEnabled(p) \/ CreateFolders(p) \/ SelectFolders(p) \/ DeleteRow(p)
         \/ PageRequest(p) \/ RequestFails(p)
  PROVE  TypeOK'
<1> USE BoundsAssumption DEF TypeOK, Goes, Steps, Resumes, Actor, Statuses
<1>1. CASE LoadEnabled(p)
  BY <1>1 DEF LoadEnabled
<1>2. CASE CreateFolders(p)
  BY <1>2 DEF CreateFolders
<1>3. CASE SelectFolders(p)
  BY <1>3 DEF SelectFolders
<1>4. CASE DeleteRow(p)
  BY <1>4 DEF DeleteRow
<1>5. CASE Create(p)
  BY <1>5 DEF Create, Request
<1>6. CASE Enable(p)
  BY <1>6 DEF Enable, Request
<1>7. CASE Disable(p)
  <2>1. /\ enabled' = FALSE /\ status' = "Disabled" /\ requests' = requests + 1
        /\ requests < MaxRequests /\ pc' = [pc EXCEPT ![p] = "unhook"]
        /\ UNCHANGED <<row, folders, port, held, up, failures, stops, quiet>>
    BY <1>7 DEF Disable, Request
  <2>2. status' \in Statuses /\ requests' \in 0..MaxRequests
    BY <2>1
  <2>3. pc' \in [Actor -> Steps]
    BY <2>1
  <2>4. enabled' \in BOOLEAN
    BY <2>1, Zenon
  <2>5. QED BY <2>1, <2>2, <2>3, <2>4
<1>8. CASE ChooseFolders(p)
  BY <1>8 DEF ChooseFolders, Request
<1>9. CASE Delete(p)
  BY <1>9 DEF Delete, Request
<1>10. CASE RequestFails(p)
  BY <1>10 DEF RequestFails, Ended
<1>11. QED BY <1>1, <1>2, <1>3, <1>4, <1>5, <1>6, <1>7, <1>8, <1>9, <1>10 DEF PageRequest

SubOwnStep ==
    \/ BootLists \/ ReconcileLists \/ ReconcileReads \/ ReconcileWrites \/ ReconcileTracked
    \/ StopAll \/ StopAllLists \/ StopAllTracked \/ SubFails

LEMMA SubType ==
  ASSUME TypeOK, OneOwner, SubOwnStep PROVE TypeOK'
<1> USE BoundsAssumption DEF TypeOK, Goes, Steps, Resumes, Actor, Statuses
<1>1. CASE BootLists
  BY <1>1 DEF BootLists
<1>2. CASE ReconcileLists
  BY <1>2 DEF ReconcileLists
<1>3. CASE ReconcileReads
  <2>1. CASE tracked # None
    <3>1. live[tracked] \in {"Connecting", "Syncing", "Idle", "Error"}
      BY <2>1, LiveAssumption
    <3>2. Desired(live[tracked]) \in Statuses
      BY <3>1 DEF Desired
    <3>3. QED BY <1>3, <3>2 DEF ReconcileReads
  <2>2. CASE tracked = None
    BY <1>3, <2>2 DEF ReconcileReads
  <2>3. QED BY <2>1, <2>2
<1>4. CASE ReconcileWrites
  <2>1. snap \in Statuses
    BY <1>4 DEF ReconcileWrites, OneOwner
  <2>2. QED BY <1>4, <2>1 DEF ReconcileWrites
<1>5. CASE ReconcileTracked
  BY <1>5 DEF ReconcileTracked
<1>6. CASE StopAll
  BY <1>6 DEF StopAll
<1>7. CASE StopAllLists
  <2>1. seen' \in [Actor -> BOOLEAN]
    BY <1>7, Zenon DEF StopAllLists, Enabled
  <2>2. failures' \in 0..MaxFailures
    BY <1>7 DEF StopAllLists
  <2>3. pc' \in [Actor -> Steps]
    BY <1>7 DEF StopAllLists
  <2>4. QED BY <1>7, <2>1, <2>2, <2>3 DEF StopAllLists
<1>8. CASE StopAllTracked
  BY <1>8 DEF StopAllTracked
<1>9. CASE SubFails
  BY <1>9 DEF SubFails
<1>10. QED BY <1>1, <1>2, <1>3, <1>4, <1>5, <1>6, <1>7, <1>8, <1>9 DEF SubOwnStep

ProcessStep == RequestShutdown \/ Exit \/ Crash \/ Boot

LEMMA OtherType ==
  ASSUME TypeOK,
         \/ \E h \in Handle : TaskEnds(h) \/ \E s \in Live : TaskReports(h, s)
         \/ ProcessStep
         \/ UNCHANGED vars
  PROVE  TypeOK'
<1> USE BoundsAssumption DEF TypeOK, Goes, Steps, Resumes, Actor
<1>1. ASSUME NEW h \in Handle, TaskEnds(h) PROVE TypeOK'
  BY <1>1 DEF TaskEnds
<1>2. ASSUME NEW h \in Handle, NEW s \in Live, TaskReports(h, s) PROVE TypeOK'
  BY <1>2 DEF TaskReports
<1>3. CASE RequestShutdown
  BY <1>3 DEF RequestShutdown
<1>4. CASE Exit
  BY <1>4 DEF Exit, Gone
<1>5. CASE Crash
  <2>1. stops' \in 0..MaxStops
    BY <1>5 DEF Crash
  <2>2. /\ task' \in [Handle -> {"free", "empty", "running", "stopping"}]
        /\ live' \in [Handle -> {"Connecting"} \cup Live]
        /\ pc' \in [Actor -> Steps] /\ next' \in [Actor -> Resumes]
        /\ hand' \in [Actor -> Handle \cup {None}] /\ seen' \in [Actor -> BOOLEAN]
    BY <1>5 DEF Crash, Gone
  <2>3. QED BY <1>5, <2>1, <2>2 DEF Crash, Gone
<1>6. CASE Boot
  BY <1>6 DEF Boot
<1>7. CASE UNCHANGED vars
  BY <1>7 DEF vars
<1>8. QED BY <1>1, <1>2, <1>3, <1>4, <1>5, <1>6, <1>7 DEF ProcessStep

-----------------------------------------------------------------------------
(* Ownership *)

Owned == NoLeak /\ OneOwner

\* A step of an actor that touches neither the map nor the handles, nor is part of a
\* join or an insertion.
LEMMA PlainStep ==
  ASSUME TypeOK, Owned, NEW a \in Actor, NEW s \in Steps,
         UNCHANGED <<tracked, task, hand>>,
         pc[a] \notin {"insert", "join"}, s \notin {"insert", "join"},
         pc' = [pc EXCEPT ![a] = s],
         pc'[Sub] = "set_status" => snap' # None
  PROVE  Owned'
<1> USE DEF TypeOK, Owned
<1>1. NoLeak'
  BY DEF NoLeak, Alive
<1>2. \A h \in Handle : Alive(h)' = Alive(h)
  BY DEF Alive
<1>3. OneOwner'
  BY <1>2 DEF OneOwner
<1>4. QED BY <1>1, <1>3

LEMMA StartStepOwned ==
  ASSUME TypeOK, Owned, NEW a \in Actor, StartStep(a) PROVE Owned'
<1> USE DEF Goes
<1>1. CASE ListFolders(a)
  <2>1. pc'[Sub] = "set_status" => snap' # None
    BY <1>1 DEF ListFolders, TypeOK, Owned, OneOwner
  <2>2. QED BY <1>1, <2>1, PlainStep DEF ListFolders, Steps
<1>2. CASE Unhook(a)
  <2>1. CASE tracked = None
    <3>1. next[a] \in Resumes
      BY DEF TypeOK
    <3>2. /\ pc[a] = "unhook" /\ pc' = [pc EXCEPT ![a] = next[a]]
          /\ UNCHANGED <<tracked, task, hand, snap>>
      BY <1>2, <2>1 DEF Unhook
    <3>3. pc'[Sub] = "set_status" => pc[Sub] = "set_status"
      BY <3>1, <3>2 DEF TypeOK, Resumes
    <3>4. pc'[Sub] = "set_status" => snap' # None
      BY <3>2, <3>3 DEF Owned, OneOwner
    <3>5. QED BY <3>1, <3>2, <3>4, PlainStep DEF Steps, Resumes
  <2>2. CASE tracked # None
    <3>1. /\ pc' = [pc EXCEPT ![a] = "join"] /\ pc[a] = "unhook"
          /\ hand' = [hand EXCEPT ![a] = tracked]
          /\ task' = [task EXCEPT ![tracked] = Ended(tracked)]
          /\ tracked' = None /\ snap' = snap
      BY <1>2, <2>2 DEF Unhook
    <3>2. tracked \in Handle /\ hand[a] = None
      BY <2>2, <3>1 DEF TypeOK, Owned, OneOwner
    <3>3. \A h \in Handle : Alive(h)' = (h # tracked /\ Alive(h))
      BY <3>1, <3>2 DEF TypeOK, Alive, Ended
    <3>4. NoLeak'
      <4> SUFFICES ASSUME NEW h \in Handle, Alive(h)'
                   PROVE  \E b \in Actor : hand'[b] = h /\ pc'[b] = "insert"
        BY DEF NoLeak
      <4>1. Alive(h) /\ h # tracked
        BY <3>3
      <4>2. PICK b \in Actor : hand[b] = h /\ pc[b] = "insert"
        BY <4>1 DEF Owned, NoLeak
      <4>3. b # a
        BY <3>1, <4>2
      <4>4. QED BY <3>1, <4>2, <4>3 DEF TypeOK
    <3>5. /\ tracked' = None
          /\ pc'[Sub] = "set_status" => snap' # None
      BY <3>1 DEF TypeOK, Owned, OneOwner
    <3>6. ASSUME NEW b \in Actor
          PROVE  /\ hand'[b] # None => pc'[b] = IF Alive(hand[b])' THEN "insert" ELSE "join"
                 /\ hand'[b] = None => pc'[b] \notin {"insert", "join"}
                 /\ \A c \in Actor : b # c /\ hand'[b] # None => hand'[b] # hand'[c]
      <4>1. CASE b = a
        <5>1. hand'[b] = tracked /\ pc'[b] = "join" /\ tracked # None
          BY <2>2, <3>1, <4>1 DEF TypeOK
        <5>2. task'[tracked] = Ended(tracked)
          BY <3>1, <3>2 DEF TypeOK
        <5>3. Alive(hand[b])' = FALSE
          BY <5>1, <5>2 DEF Alive, Ended
        <5>4. \A c \in Actor : b # c => hand'[c] = hand[c] /\ hand[c] # tracked
          BY <2>2, <3>1, <4>1 DEF TypeOK, Owned, OneOwner
        <5>5. QED BY <5>1, <5>3, <5>4
      <4>2. CASE b # a
        <5>1. hand'[b] = hand[b] /\ pc'[b] = pc[b]
          BY <3>1, <4>2 DEF TypeOK
        <5>2. hand[b] # None => hand[b] \in Handle /\ hand[b] # tracked
          BY DEF TypeOK, Owned, OneOwner
        <5>3. hand[b] # None => Alive(hand[b])' = Alive(hand[b])
          BY <3>3, <5>1, <5>2 DEF Alive
        <5>4. QED BY <3>1, <3>2, <5>1, <5>2, <5>3 DEF TypeOK, Owned, OneOwner
      <4>3. QED BY <4>1, <4>2
    <3>7. QED BY <3>2, <3>4, <3>5, <3>6 DEF Owned, OneOwner
  <2>3. QED BY <2>1, <2>2
<1>3. CASE Join(a)
  <2>1. /\ pc[a] = "join" /\ pc' = [pc EXCEPT ![a] = next[a]]
        /\ hand' = [hand EXCEPT ![a] = None]
        /\ UNCHANGED <<tracked, task, snap>>
        /\ hand[a] # None /\ ~Alive(hand[a])
    BY <1>3 DEF Join, TypeOK, Owned, OneOwner
  <2>2. next[a] \in Resumes
    BY DEF TypeOK
  <2>3. \A h \in Handle : Alive(h)' = Alive(h)
    BY <2>1 DEF Alive
  <2>4. NoLeak'
    BY <2>1, <2>3 DEF TypeOK, Owned, NoLeak
  <2>5. OneOwner'
    BY <2>1, <2>2, <2>3 DEF TypeOK, Owned, OneOwner, Resumes
  <2>6. QED BY <2>4, <2>5 DEF Owned
<1>4. CASE Spawn(a)
  <2>1. PICK h \in Handle :
          /\ Unused(h)
          /\ task' = [task EXCEPT ![h] = IF seen[a] THEN "running" ELSE "empty"]
          /\ hand' = [hand EXCEPT ![a] = h]
    BY <1>4 DEF Spawn
  <2>2. /\ pc[a] = "spawn" /\ pc' = [pc EXCEPT ![a] = "insert"]
        /\ UNCHANGED <<tracked, snap>>
    BY <1>4 DEF Spawn
  <2>3. tracked # h /\ h # None /\ \A b \in Actor : hand[b] # h
    BY <2>1, HandleAssumption DEF Unused
  <2>4. /\ Alive(h)'
        /\ \A g \in Handle : g # h => Alive(g)' = Alive(g)
    BY <2>1 DEF TypeOK, Alive
  <2>5. NoLeak'
    BY <2>1, <2>2, <2>3, <2>4 DEF TypeOK, Owned, NoLeak, OneOwner
  <2>6. OneOwner'
    BY <2>1, <2>2, <2>3, <2>4 DEF TypeOK, Owned, OneOwner
  <2>7. QED BY <2>5, <2>6 DEF Owned
<1>5. CASE Insert(a)
  <2>1. /\ pc[a] = "insert" /\ pc' = [pc EXCEPT ![a] = "report"]
        /\ tracked' = hand[a] /\ hand' = [hand EXCEPT ![a] = None]
        /\ snap' = snap
        /\ hand[a] \in Handle /\ Alive(hand[a]) /\ hand[a] # tracked
        /\ task' = [h \in Handle |-> IF h = tracked THEN Ended(h) ELSE task[h]]
    BY <1>5 DEF Insert, TypeOK, Owned, OneOwner
  <2>2. \A h \in Handle : Alive(h)' = (h # tracked /\ Alive(h))
    BY <2>1 DEF TypeOK, Alive, Ended
  <2>3. NoLeak'
    BY <2>1, <2>2 DEF TypeOK, Owned, NoLeak
  <2>4. /\ tracked' # None => Alive(tracked)'
        /\ pc'[Sub] = "set_status" => snap' # None
    BY <2>1, <2>2 DEF TypeOK, Owned, OneOwner, Alive, Ended
  <2>5. ASSUME NEW b \in Actor
        PROVE  /\ hand'[b] # None =>
                    /\ hand'[b] # tracked'
                    /\ pc'[b] = IF Alive(hand[b])' THEN "insert" ELSE "join"
               /\ hand'[b] = None => pc'[b] \notin {"insert", "join"}
               /\ \A c \in Actor : b # c /\ hand'[b] # None => hand'[b] # hand'[c]
    <3>1. CASE b = a
      BY <2>1, <3>1 DEF TypeOK
    <3>2. CASE b # a
      <4>1. hand'[b] = hand[b] /\ pc'[b] = pc[b]
        BY <2>1, <3>2 DEF TypeOK
      <4>2. hand[b] # None =>
              hand[b] \in Handle /\ hand[b] # tracked /\ hand[b] # hand[a]
        BY <3>2 DEF TypeOK, Owned, OneOwner
      <4>3. hand[b] # None => task'[hand[b]] = task[hand[b]]
        BY <2>1, <4>2 DEF TypeOK
      <4>4. QED BY <2>1, <4>1, <4>2, <4>3 DEF TypeOK, Owned, OneOwner, Alive
    <3>3. QED BY <3>1, <3>2
  <2>6. QED BY <2>3, <2>4, <2>5 DEF Owned, OneOwner
<1>6. CASE Report(a)
  <2>1. pc'[Sub] = "set_status" => snap' # None
    BY <1>6 DEF Report, Done, TypeOK, Owned, OneOwner
  <2>2. QED BY <1>6, <2>1, PlainStep DEF Report, Steps, Done
<1>7. QED BY <1>1, <1>2, <1>3, <1>4, <1>5, <1>6 DEF StartStep

LEMMA PageOwned ==
  ASSUME TypeOK, Owned, NEW p \in Page,
         \/ LoadEnabled(p) \/ CreateFolders(p) \/ SelectFolders(p) \/ DeleteRow(p)
         \/ PageRequest(p)
  PROVE  Owned'
<1> USE DEF Goes
<1>1. p \in Actor /\ p # Sub
  BY SubAssumption DEF Actor
<1>2. /\ UNCHANGED <<tracked, task, hand, snap>>
      /\ pc[p] \notin {"insert", "join"}
      /\ \E s \in Steps \ {"insert", "join"} : pc' = [pc EXCEPT ![p] = s]
  BY DEF LoadEnabled, CreateFolders, SelectFolders, DeleteRow, PageRequest, Request, Idle,
         Create, Enable, Disable, ChooseFolders, Delete, Steps
<1>3. pc'[Sub] = "set_status" => snap' # None
  BY <1>1, <1>2 DEF TypeOK, Owned, OneOwner
<1>4. QED BY <1>1, <1>2, <1>3, PlainStep

LEMMA SubOwned ==
  ASSUME TypeOK, Owned, SubOwnStep PROVE Owned'
<1> USE DEF Goes
<1>1. Sub \in Actor
  BY DEF Actor
<1>2. /\ UNCHANGED <<tracked, task, hand>>
      /\ pc[Sub] \notin {"insert", "join"}
      /\ \E s \in Steps \ {"insert", "join"} : pc' = [pc EXCEPT ![Sub] = s]
  BY DEF SubOwnStep, BootLists, ReconcileLists, ReconcileReads, ReconcileWrites,
         ReconcileTracked, StopAll, StopAllLists, StopAllTracked, SubFails, Steps
<1>3. pc'[Sub] = "set_status" => snap' # None
  <2>1. CASE ReconcileReads
    <3>1. CASE tracked # None /\ snap # Desired(live[tracked])
      <4>1. live[tracked] \in {"Connecting", "Syncing", "Idle", "Error"}
        BY <3>1, LiveAssumption DEF TypeOK
      <4>2. Desired(live[tracked]) \in Statuses
        BY <4>1 DEF Desired, Statuses
      <4>3. QED BY <2>1, <3>1, <4>2, NoneAssumption DEF ReconcileReads
    <3>2. QED BY <2>1, <3>1, <1>1 DEF ReconcileReads, TypeOK
  <2>2. CASE BootLists \/ ReconcileLists \/ ReconcileWrites \/ ReconcileTracked
              \/ StopAll \/ StopAllLists \/ StopAllTracked \/ SubFails
    BY <1>1, <2>2 DEF BootLists, ReconcileLists, ReconcileWrites, ReconcileTracked,
                      StopAll, StopAllLists, StopAllTracked, SubFails, TypeOK
  <2>3. QED BY <2>1, <2>2 DEF SubOwnStep
<1>4. QED BY <1>1, <1>2, <1>3, PlainStep

LEMMA OtherOwned ==
  ASSUME TypeOK, Owned, QuietShutdown,
         \/ \E p \in Page : RequestFails(p)
         \/ \E h \in Handle : TaskEnds(h) \/ \E s \in Live : TaskReports(h, s)
         \/ ProcessStep
         \/ UNCHANGED vars
  PROVE  Owned'
<1>1. ASSUME NEW p \in Page, RequestFails(p) PROVE Owned'
  <2>1. /\ p \in Actor /\ p # Sub
        /\ pc' = [pc EXCEPT ![p] = "idle"] /\ hand' = [hand EXCEPT ![p] = None]
        /\ UNCHANGED <<tracked, snap>>
        /\ task' = [h \in Handle |-> IF h = hand[p] THEN Ended(h) ELSE task[h]]
    BY <1>1, SubAssumption DEF RequestFails, Goes, Actor
  <2>2. \A h \in Handle : Alive(h)' = (h # hand[p] /\ Alive(h))
    BY <2>1 DEF TypeOK, Alive, Ended
  <2>3. NoLeak'
    <3> SUFFICES ASSUME NEW h \in Handle, Alive(h)', tracked' # h
                 PROVE  \E b \in Actor : hand'[b] = h /\ pc'[b] = "insert"
      BY DEF NoLeak
    <3>1. PICK b \in Actor : hand[b] = h /\ pc[b] = "insert"
      BY <2>1, <2>2 DEF Owned, NoLeak
    <3>2. b # p
      BY <2>2, <3>1
    <3>3. QED BY <2>1, <3>1, <3>2 DEF TypeOK
  <2>4. /\ tracked' # None => Alive(tracked)'
        /\ pc'[Sub] = "set_status" => snap' # None
    BY <2>1, <2>2 DEF TypeOK, Owned, OneOwner, Actor
  <2>5. ASSUME NEW b \in Actor
        PROVE  /\ hand'[b] # None =>
                    /\ hand'[b] # tracked'
                    /\ pc'[b] = IF Alive(hand[b])' THEN "insert" ELSE "join"
               /\ hand'[b] = None => pc'[b] \notin {"insert", "join"}
               /\ \A c \in Actor : b # c /\ hand'[b] # None => hand'[b] # hand'[c]
    <3>1. CASE b = p
      BY <2>1, <3>1 DEF TypeOK
    <3>2. CASE b # p
      <4>1. hand'[b] = hand[b] /\ pc'[b] = pc[b]
        BY <2>1, <3>2 DEF TypeOK
      <4>2. hand[b] # None =>
              hand[b] \in Handle /\ hand[b] # tracked /\ hand[b] # hand[p]
        BY <2>1, <3>2 DEF TypeOK, Owned, OneOwner
      <4>3. hand[b] # None => task'[hand[b]] = task[hand[b]]
        BY <2>1, <4>2 DEF TypeOK
      <4>4. \A c \in Actor : b # c /\ hand[b] # None => hand[b] # hand'[c]
        BY <2>1 DEF TypeOK, Owned, OneOwner
      <4>5. hand[b] # None => pc[b] = IF Alive(hand[b])' THEN "insert" ELSE "join"
        BY <4>1, <4>3 DEF Owned, OneOwner, Alive
      <4>6. hand[b] = None => pc[b] \notin {"insert", "join"}
        BY DEF Owned, OneOwner
      <4>7. QED BY <2>1, <4>1, <4>2, <4>4, <4>5, <4>6
    <3>3. QED BY <3>1, <3>2
  <2>6. QED BY <2>3, <2>4, <2>5 DEF Owned, OneOwner
<1>2. ASSUME NEW h \in Handle, TaskEnds(h) PROVE Owned'
  <2>1. \A g \in Handle : Alive(g)' = Alive(g)
    BY <1>2 DEF TaskEnds, TypeOK, Alive
  <2>2. UNCHANGED <<tracked, pc, hand, snap>>
    BY <1>2 DEF TaskEnds
  <2>3. NoLeak'
    BY <2>1, <2>2 DEF Owned, NoLeak
  <2>4. OneOwner'
    BY <2>1, <2>2 DEF Owned, OneOwner, TypeOK
  <2>5. QED BY <2>3, <2>4 DEF Owned
<1>3. ASSUME \/ \E h \in Handle, s \in Live : TaskReports(h, s)
             \/ RequestShutdown
             \/ UNCHANGED vars
      PROVE  Owned'
  <2>1. UNCHANGED <<tracked, task, pc, hand, snap>>
    BY <1>3 DEF TaskReports, RequestShutdown, vars
  <2>2. QED BY <2>1 DEF Owned, NoLeak, OneOwner, Alive
<1>4. CASE Exit \/ Crash
  <2>1. /\ tracked' = None /\ task' = [h \in Handle |-> "free"]
        /\ pc' = [a \in Actor |-> IF a = Sub THEN "stopped" ELSE "idle"]
        /\ hand' = [a \in Actor |-> None]
    BY <1>4 DEF Exit, Crash, Gone
  <2>2. QED BY <2>1 DEF Owned, NoLeak, OneOwner, Alive, Actor
<1>5. CASE Boot
  <2>1. /\ Sub \in Actor
        /\ UNCHANGED <<tracked, task, hand, snap>>
        /\ pc' = [pc EXCEPT ![Sub] = "boot"]
    BY <1>5 DEF Boot, Goes, Actor
  <2>2. pc[Sub] \notin {"insert", "join"}
    BY <1>5 DEF Boot, QuietShutdown
  <2>3. QED BY <2>1, <2>2, PlainStep DEF Steps, TypeOK
<1>6. QED BY <1>1, <1>2, <1>3, <1>4, <1>5 DEF ProcessStep

-----------------------------------------------------------------------------
(* Shutdown *)

LEMMA StartStepQuiet ==
  ASSUME TypeOK, Owned, QuietShutdown, NEW a \in Actor, StartStep(a) PROVE QuietShutdown'
<1>1. /\ UNCHANGED <<up, quiet>> /\ pc[a] # "stopped"
      /\ \E s \in Steps : pc' = [pc EXCEPT ![a] = s]
      /\ ~Idle(a)
  BY DEF StartStep, ListFolders, Unhook, Join, Spawn, Insert, Report, Goes, TypeOK, Done, Steps,
         Resumes, Idle
<1>2. CASE a # Sub
  <2>1. ~quiet
    BY <1>1, <1>2 DEF QuietShutdown, Actor
  <2>2. QED BY <1>1, <1>2, <2>1 DEF QuietShutdown, TypeOK
<1>3. CASE a = Sub
  <2>1. up # "down"
    BY <1>1, <1>3 DEF QuietShutdown
  <2>2. quiet => \A p \in Page : pc'[p] = "idle"
    BY <1>1, <1>3, SubAssumption DEF QuietShutdown, Idle, TypeOK, Actor
  <2>3. CASE quiet /\ Unhook(Sub)
    <3>1. pc[Sub] = "unhook" /\ next[Sub] = "stopped" /\ Sub \in Actor
      BY <2>3 DEF QuietShutdown, Unhook, Actor
    <3>2. CASE tracked = None
      BY <1>1, <2>1, <2>2, <2>3, <3>1, <3>2 DEF Unhook, Goes, QuietShutdown, Idle, TypeOK
    <3>3. CASE tracked # None
      BY <1>1, <2>1, <2>2, <2>3, <3>1, <3>3 DEF Unhook, Goes, QuietShutdown, Idle, TypeOK
    <3>4. QED BY <3>2, <3>3
  <2>4. CASE quiet /\ Join(Sub)
    <3>1. pc[Sub] = "join" /\ next[Sub] = "stopped" /\ tracked = None /\ Sub \in Actor
      BY <2>4 DEF QuietShutdown, Join, Actor
    <3>2. pc'[Sub] = "stopped" /\ tracked' = None
      BY <2>4, <3>1 DEF Join, Goes, TypeOK
    <3>3. QED BY <1>1, <2>1, <2>2, <2>4, <3>2 DEF QuietShutdown, Idle
  <2>5. CASE quiet /\ ~Unhook(Sub) /\ ~Join(Sub)
    BY <1>3, <2>5 DEF StartStep, ListFolders, Spawn, Insert, Report, QuietShutdown
  <2>6. CASE ~quiet
    BY <1>1, <2>1, <2>6 DEF QuietShutdown
  <2>7. QED BY <1>3, <2>3, <2>4, <2>5, <2>6
<1>4. QED BY <1>2, <1>3

LEMMA OtherQuiet ==
  ASSUME TypeOK, Owned, QuietShutdown,
         \/ \E p \in Page :
              \/ LoadEnabled(p) \/ CreateFolders(p) \/ SelectFolders(p) \/ DeleteRow(p)
              \/ PageRequest(p) \/ RequestFails(p)
         \/ SubOwnStep
         \/ \E h \in Handle : TaskEnds(h) \/ \E s \in Live : TaskReports(h, s)
         \/ ProcessStep
         \/ UNCHANGED vars
  PROVE  QuietShutdown'
<1> USE DEF Goes
<1>1. ASSUME NEW p \in Page,
             \/ LoadEnabled(p) \/ CreateFolders(p) \/ SelectFolders(p) \/ DeleteRow(p)
             \/ PageRequest(p) \/ RequestFails(p)
      PROVE  QuietShutdown'
  <2>1. p \in Actor /\ p # Sub
    BY SubAssumption DEF Actor
  <2>2. /\ UNCHANGED <<up, quiet>>
        /\ \E s \in Steps : pc' = [pc EXCEPT ![p] = s]
        /\ ~Idle(p) \/ up = "up"
    BY <1>1 DEF LoadEnabled, CreateFolders, SelectFolders, DeleteRow, PageRequest, Request,
                Create, Enable, Disable, ChooseFolders, Delete, RequestFails, Idle, Steps
  <2>3. ~quiet
    BY <2>2 DEF QuietShutdown
  <2>4. QED BY <2>1, <2>2, <2>3 DEF QuietShutdown, TypeOK
<1>2. CASE SubOwnStep
  <2>1. Sub \in Actor /\ pc[Sub] # "stopped" /\ up # "down"
    BY <1>2 DEF Actor, SubOwnStep, BootLists, ReconcileLists, ReconcileReads, ReconcileWrites,
                ReconcileTracked, StopAll, StopAllLists, StopAllTracked, SubFails, QuietShutdown
  <2>2. CASE StopAll
    BY <2>1, <2>2, SubAssumption DEF StopAll, QuietShutdown, Idle, TypeOK, Actor
  <2>3. CASE quiet /\ StopAllLists
    BY <2>1, <2>3, SubAssumption DEF StopAllLists, QuietShutdown, Idle, TypeOK, Actor
  <2>4. CASE quiet /\ StopAllTracked
    <3>1. /\ pc[Sub] = "stop_tracked" /\ UNCHANGED <<tracked, up, quiet>>
          /\ \/ pc' = [pc EXCEPT ![Sub] = "unhook"] /\ next' = [next EXCEPT ![Sub] = "stopped"]
             \/ pc' = [pc EXCEPT ![Sub] = "stopped"] /\ tracked = None
      BY <2>4 DEF StopAllTracked
    <3>2. QED BY <2>1, <2>4, <3>1, SubAssumption DEF QuietShutdown, Idle, TypeOK, Actor
  <2>5. CASE quiet /\ ~StopAll /\ ~StopAllLists /\ ~StopAllTracked
    BY <1>2, <2>5 DEF SubOwnStep, BootLists, ReconcileLists, ReconcileReads, ReconcileWrites,
                      ReconcileTracked, SubFails, QuietShutdown
  <2>6. CASE ~quiet /\ ~StopAll
    <3>1. UNCHANGED <<up, quiet>>
      BY <1>2, <2>6 DEF SubOwnStep, BootLists, ReconcileLists, ReconcileReads,
                        ReconcileWrites, ReconcileTracked, StopAllLists, StopAllTracked, SubFails
    <3>2. QED BY <2>1, <2>6, <3>1 DEF QuietShutdown
  <2>7. QED BY <2>2, <2>3, <2>4, <2>5, <2>6
<1>3. ASSUME NEW h \in Handle, TaskEnds(h) \/ \E s \in Live : TaskReports(h, s)
      PROVE  QuietShutdown'
  <2>1. UNCHANGED <<up, quiet, pc, next, tracked>>
    BY <1>3 DEF TaskEnds, TaskReports
  <2>2. QED BY <2>1 DEF QuietShutdown, Idle
<1>4. CASE RequestShutdown
  BY <1>4 DEF RequestShutdown, QuietShutdown, Idle
<1>5. CASE Exit \/ Crash
  BY <1>5 DEF Exit, Crash, Gone, QuietShutdown, Actor
<1>6. CASE Boot
  BY <1>6 DEF Boot, QuietShutdown
<1>7. CASE UNCHANGED vars
  BY <1>7 DEF vars, QuietShutdown, Idle
<1>8. QED BY <1>1, <1>2, <1>3, <1>4, <1>5, <1>6, <1>7 DEF ProcessStep

-----------------------------------------------------------------------------
(* The theorems *)

LEMMA StepIInv == IInv /\ [Next]_vars => IInv'
<1> SUFFICES ASSUME IInv, [Next]_vars PROVE IInv'
  OBVIOUS
<1>1. TypeOK /\ Owned /\ OneOwner /\ QuietShutdown
  BY DEF IInv, Owned
<1>2. ASSUME NEW a \in Actor, StartStep(a) PROVE IInv'
  BY <1>1, <1>2, StartStepType, StartStepOwned, StartStepQuiet DEF IInv, Owned
<1>3. ASSUME NEW p \in Page,
             \/ LoadEnabled(p) \/ CreateFolders(p) \/ SelectFolders(p) \/ DeleteRow(p)
             \/ PageRequest(p)
      PROVE  IInv'
  BY <1>1, <1>3, PageType, PageOwned, OtherQuiet DEF IInv, Owned
<1>4. ASSUME NEW p \in Page, RequestFails(p) PROVE IInv'
  BY <1>1, <1>4, PageType, OtherOwned, OtherQuiet DEF IInv, Owned
<1>5. CASE SubOwnStep
  BY <1>1, <1>5, SubType, SubOwned, OtherQuiet DEF IInv, Owned
<1>6. CASE \/ \E h \in Handle : TaskEnds(h) \/ \E s \in Live : TaskReports(h, s)
           \/ ProcessStep
           \/ UNCHANGED vars
  BY <1>1, <1>6, OtherType, OtherOwned, OtherQuiet DEF IInv, Owned
<1>7. Sub \in Actor /\ Page \subseteq Actor
  BY DEF Actor
<1>8. QED BY <1>2, <1>3, <1>4, <1>5, <1>6, <1>7
          DEF Next, PageStep, SubStep, StartStep, SubOwnStep, ProcessStep

THEOREM Invariance == Spec => []IInv
BY InitIInv, StepIInv, PTL DEF Spec

\* Every variable keeps its type.
THEOREM TypeCorrect == Spec => []TypeOK
<1>1. IInv => TypeOK
  BY DEF IInv
<1>2. QED BY <1>1, Invariance, PTL

\* However the starts and stops of pages and of the subsystem overlap, tasks that run
\* are in the adapter's map or about to be inserted (ImapAdapter::start_account).
THEOREM NothingLeaks == Spec => []NoLeak
<1>1. IInv => NoLeak
  BY DEF IInv
<1>2. QED BY <1>1, Invariance, PTL

\* A handle is never in two hands, nor in a hand and in the map.
THEOREM OwnersDiffer == Spec => []OneOwner
<1>1. IInv => OneOwner
  BY DEF IInv
<1>2. QED BY <1>1, Invariance, PTL

\* A shutdown that no request overlaps leaves no task running (stop_all).
THEOREM ShutdownIsComplete == Spec => []ShutdownStopsAll
<1>1. IInv => ShutdownStopsAll
  <2> SUFFICES ASSUME IInv, pc[Sub] = "stopped", quiet, NEW h \in Handle, Alive(h)
               PROVE  FALSE
    BY DEF ShutdownStopsAll
  <2>1. tracked = None /\ \A p \in Page : Idle(p)
    BY DEF IInv, QuietShutdown
  <2>2. \A a \in Actor : pc[a] # "insert"
    BY <2>1 DEF Actor, Idle
  <2>3. QED BY <2>1, <2>2, HandleAssumption DEF IInv, NoLeak
<1>2. QED BY <1>1, Invariance, PTL
==============================================================================
