-------------------------- MODULE FolderSyncProofs ---------------------------
(***************************************************************************)
(* Proofs about FolderSync, for any messages, UIDs, window size, number of *)
(* rollovers, failed passes and stops: types; of a server that sends       *)
(* UIDNEXT, that the recorded cursor never runs ahead of the archive; and  *)
(* of an IDLE task that has met no failure, that its cursor never moves    *)
(* back, that it handles every rollover, and that this leaves no location  *)
(* of another UIDVALIDITY.                                                 *)
(***************************************************************************)
EXTENDS FolderSync, TLAPS, FiniteSetTheorems, WellFoundedInduction

\* Every nonempty set of natural numbers has a least element.
LEMMA Least ==
  ASSUME NEW T \in SUBSET Nat, T # {}
  PROVE  \E x \in T : \A y \in T : x <= y
<1>1. PICK x \in T : \A y \in T : <<y, x>> \notin OpToRel(<, Nat)
  BY NatLessThanWellFounded, WFMin
<1>2. ASSUME NEW y \in T PROVE x <= y
  <2>1. ~(y < x)
    BY <1>1 DEF OpToRel
  <2>2. QED BY <2>1
<1>3. QED BY <1>2

Upto(S, k) == {v \in S : v <= k}

LEMMA UptoStep ==
  ASSUME NEW S \in SUBSET Uids, NEW k \in Uids
  PROVE  Upto(S, k) = IF k \in S THEN Upto(S, k - 1) \cup {k} ELSE Upto(S, k - 1)
<1>1. \A v \in S : v <= k <=> v <= k - 1 \/ v = k
  BY BoundsAssumption DEF Uids
<1>2. QED BY <1>1 DEF Upto

\* The messages of a mailbox have ranks 1 to their number: the numbering of
\* Rollover assigns a message to every UID below the new UIDNEXT.
LEMMA Rank ==
  ASSUME NEW S \in SUBSET Uids, NEW n \in 1..Cardinality(S)
  PROVE  \E u \in S : Cardinality({v \in S : v <= u}) = n
<1> DEFINE C(k) == Cardinality(Upto(S, k))
<1>1. IsFiniteSet(S) /\ Cardinality(S) \in Nat
  <2>1. IsFiniteSet(Uids)
    BY FS_Interval, BoundsAssumption DEF Uids
  <2>2. QED BY <2>1, FS_Subset, FS_CardinalityType
<1>2. ASSUME NEW k PROVE IsFiniteSet(Upto(S, k)) /\ C(k) \in Nat
  <2>1. Upto(S, k) \in SUBSET S
    BY DEF Upto
  <2>2. QED BY <1>1, <2>1, FS_Subset, FS_CardinalityType
<1>3. C(0) = 0
  <2>1. \A v \in S : ~(v <= 0)
    BY BoundsAssumption DEF Uids
  <2>2. Upto(S, 0) = {}
    BY <2>1 DEF Upto
  <2>3. QED BY <2>2, FS_EmptySet
<1>4. C(MaxUid) = Cardinality(S)
  <2>1. \A v \in S : v <= MaxUid
    BY BoundsAssumption DEF Uids
  <2>2. Upto(S, MaxUid) = S
    BY <2>1 DEF Upto
  <2>3. QED BY <2>2
<1> HIDE DEF C
<1> DEFINE T == {k \in 0..MaxUid : C(k) >= n}
<1>5. MaxUid \in T /\ T \in SUBSET Nat
  BY <1>1, <1>4, BoundsAssumption
<1>6. PICK k \in T : \A i \in T : k <= i
  <2> HIDE DEF T
  <2>1. QED BY <1>5, Least
<1>7. k \in Uids /\ k - 1 \in 0..MaxUid /\ k - 1 \notin T
  <2>1. k # 0
    BY <1>3, <1>6
  <2>2. k \in Uids /\ k - 1 \in 0..MaxUid
    BY <1>6, <2>1, BoundsAssumption DEF Uids
  <2>3. QED BY <1>6, <2>2
<1>8. C(k - 1) < n /\ C(k) >= n /\ C(k) \in Nat /\ C(k - 1) \in Nat
  BY <1>2, <1>6, <1>7
<1>9. C(k) = IF k \in S /\ k \notin Upto(S, k - 1) THEN C(k - 1) + 1 ELSE C(k - 1)
  <2>1. CASE k \in S
    BY <1>2, <1>7, <2>1, UptoStep, FS_AddElement DEF C
  <2>2. CASE k \notin S
    BY <1>7, <2>2, UptoStep DEF C
  <2>3. QED BY <2>1, <2>2
<1>10. k \in S /\ C(k) = n
  BY <1>8, <1>9
<1>11. QED BY <1>10 DEF C, Upto

-----------------------------------------------------------------------------
(* Types *)

Passes == [uv : 0..MaxValidity, upper : 0..MaxUid, from : Nat, to : Nat,
           high : 0..MaxUid, any : BOOLEAN, ingested : BOOLEAN]

\* A pass has selected a mailbox: the parse jobs it enqueues name a UIDVALIDITY.
Selected == Syncing => pass.uv # 0

LEMMA InitType == Init => TypeOK /\ Selected
BY BoundsAssumption
DEF Init, TypeOK, Uids, Validities, Cursors, Points, NoCursor, NoPass, Selected, Syncing

\* Rollover numbers the messages anew.
LEMMA RolloverType == TypeOK /\ Rollover => TypeOK'
<1> SUFFICES ASSUME TypeOK, Rollover PROVE TypeOK'
  OBVIOUS
<1> USE DEF server, archive, task, bounds
<1>1. Present \in SUBSET Uids
  BY DEF Present
<1>2. Cardinality(Present) \in 0..MaxUid
  <2>1. IsFiniteSet(Uids) /\ Cardinality(Uids) = MaxUid
    BY FS_Interval, BoundsAssumption DEF Uids
  <2>2. QED BY <1>1, <2>1, FS_Subset, FS_CardinalityType, BoundsAssumption
<1>3. \A n \in Uids : n <= Cardinality(Present) =>
        \E u \in Present : Cardinality({v \in Present : v <= u}) = n
  BY <1>1, <1>2, Rank, BoundsAssumption DEF Uids
<1>4. mail' \in [Uids -> Content \cup {Gone}]
  <2> DEFINE nth(n) == CHOOSE u \in Present : Cardinality({v \in Present : v <= u}) = n
  <2>1. ASSUME NEW n \in Uids, n <= Cardinality(Present) PROVE nth(n) \in Uids
    BY <1>1, <1>3, <2>1
  <2>2. mail' = [n \in Uids |-> IF n > Cardinality(Present) THEN Gone ELSE mail[nth(n)]]
    BY DEF Rollover
  <2> HIDE DEF nth
  <2>3. ASSUME NEW n \in Uids
        PROVE (IF n > Cardinality(Present) THEN Gone ELSE mail[nth(n)]) \in Content \cup {Gone}
    <3>1. CASE n > Cardinality(Present)
      BY <3>1
    <3>2. CASE n <= Cardinality(Present)
      BY <1>2, <2>1, <3>2 DEF TypeOK, Uids
    <3>3. QED BY <1>2, <3>1, <3>2, BoundsAssumption DEF Uids
  <2>4. QED BY <2>2, <2>3
<1>5. uidNext' \in 1..(MaxUid + 1)
  BY <1>2, BoundsAssumption DEF Rollover
<1>6. uidValidity' \in Validities
  BY BoundsAssumption DEF Rollover, TypeOK, Validities
<1>7. QED BY <1>4, <1>5, <1>6 DEF Rollover, TypeOK

LEMMA StepType == TypeOK /\ Selected /\ [Next]_vars => TypeOK'
<1> SUFFICES ASSUME TypeOK, Selected, [Next]_vars PROVE TypeOK'
  OBVIOUS
<1> USE BoundsAssumption DEF server, archive, task, bounds, Points
<1>0. pass \in Passes /\ NoPass \in Passes /\ NoCursor \in Cursors
  BY DEF TypeOK, Passes, NoPass, NoCursor, Cursors
<1>1. ASSUME NEW m \in Content, Arrive(m) PROVE TypeOK'
  BY <1>1 DEF Arrive, TypeOK, Uids
<1>2. ASSUME NEW u \in Uids, Expunge(u) PROVE TypeOK'
  BY <1>2 DEF Expunge, TypeOK
<1>3. ASSUME Rollover PROVE TypeOK'
  BY <1>3, RolloverType
<1>4. ASSUME StartTask \/ Connect \/ Wake \/ SelectRefused PROVE TypeOK'
  BY <1>4 DEF StartTask, Connect, Wake, SelectRefused, TypeOK
<1>5. ASSUME Select PROVE TypeOK'
  <2>0. LastUid \in 0..MaxUid
    BY DEF LastUid, TypeOK, Cursors
  <2>1. pass' \in Passes
    <3>1. /\ uidValidity \in 0..MaxValidity /\ uidNext - 1 \in 0..MaxUid
          /\ LastUid + 1 \in Nat
      BY <2>0 DEF TypeOK, Validities
    <3>2. pass' = [uv |-> uidValidity, upper |-> uidNext - 1, from |-> LastUid + 1,
                   to |-> 0, high |-> LastUid, any |-> FALSE, ingested |-> FALSE]
      BY <1>5 DEF Select, NoPass
    <3>3. QED BY <2>0, <3>1, <3>2 DEF Passes
  <2>2. QED BY <1>5, <2>1 DEF Select, TypeOK, Passes
<1>6. ASSUME ResetCursor PROVE TypeOK'
  <2>1. rec' \in Cursors
    BY <1>0, <1>6 DEF ResetCursor, Cursors, Passes
  <2>2. late' \subseteq Content
    BY <1>6 DEF ResetCursor, TypeOK, Jobs
  <2>3. QED BY <1>6, <2>1, <2>2 DEF ResetCursor, TypeOK
<1>7. ASSUME DropLocations PROVE TypeOK'
  BY <1>7 DEF DropLocations, TypeOK
<1>8. ASSUME NothingNew PROVE TypeOK'
  <2>1. rec' \in Cursors /\ cur' \in Cursors
    BY <1>0, <1>8 DEF NothingNew, Return, Reached, TypeOK, Cursors, Passes
  <2>2. QED BY <1>0, <1>8, <2>1 DEF NothingNew, Return, TypeOK, Passes
<1>9. ASSUME Fetch PROVE TypeOK'
  <2>1. WindowEnd \in Nat
    BY <1>0, <1>9, BatchAssumption DEF Fetch, WindowEnd, Passes
  <2>2. pass' \in Passes
    BY <1>0, <1>9, <2>1 DEF Fetch, Passes
  <2>3. fetched' \subseteq Items
    BY <1>9 DEF Fetch, Present, TypeOK, Items
  <2>4. QED BY <1>9, <2>2, <2>3 DEF Fetch, TypeOK, Passes
<1>10. ASSUME NEW i \in fetched, Ingest(i) PROVE TypeOK'
  <2>1. i.uid \in Uids /\ i.msg \in Content
    BY DEF TypeOK, Items
  <2>2. pass' \in Passes
    <3>1. HighWith(i.uid) \in 0..MaxUid
      BY <1>0, <2>1 DEF HighWith, Passes, Uids
    <3>2. QED BY <1>0, <1>10, <3>1 DEF Ingest, Passes
  <2>3. JobOf(i) \in Jobs
    BY <1>0, <1>10, <2>1 DEF Ingest, JobOf, Jobs, Passes, Validities, Selected, Syncing
  <2>4. QED BY <1>10, <2>2, <2>3 DEF Ingest, TypeOK, Passes
<1>11. ASSUME NEW i \in fetched, PassOver(i) PROVE TypeOK'
  BY <1>11 DEF PassOver, TypeOK
<1>12. ASSUME EndWindow PROVE TypeOK'
  <2>1. rec' \in Cursors
    BY <1>0, <1>12 DEF EndWindow, Reached, TypeOK, Cursors, Passes
  <2>2. pass' \in Passes /\ cur' \in Cursors /\ pc' \in Points
    BY <1>0, <1>12 DEF EndWindow, Return, TypeOK, Cursors, Passes
  <2>3. QED BY <1>12, <2>1, <2>2 DEF EndWindow, TypeOK, Passes
<1>13. ASSUME PassFails \/ TaskGone PROVE TypeOK'
  BY <1>0, <1>13 DEF PassFails, TaskGone, TypeOK, Passes
<1>14. ASSUME NEW j \in jobs, Parse(j) \/ ParseAgain(j) \/ ParseFails(j) PROVE TypeOK'
  <2>1. Place(j) \in Places /\ j.msg \in Content
    BY DEF TypeOK, Jobs, Place, Places
  <2>2. QED BY <1>14, <2>1 DEF Parse, ParseAgain, ParseFails, TypeOK
<1>15. ASSUME UNCHANGED vars PROVE TypeOK'
  BY <1>15 DEF vars, TypeOK
<1>16. QED
  BY <1>1, <1>2, <1>3, <1>4, <1>5, <1>6, <1>7, <1>8, <1>9, <1>10, <1>11, <1>12,
     <1>13, <1>14, <1>15 DEF Next, ServerStep, SyncStep

LEMMA StepSelected == TypeOK /\ Selected /\ [Next]_vars => Selected'
<1> SUFFICES ASSUME TypeOK, Selected, Next PROVE Selected'
  BY DEF vars, Selected, Syncing
<1> USE DEF server, archive, task, bounds, Selected, Syncing
<1>1. ASSUME Select PROVE Selected'
  <2>1. pass'.uv = uidValidity
    BY <1>1 DEF Select, NoPass
  <2>2. QED BY <2>1, BoundsAssumption DEF TypeOK, Validities
<1>2. ASSUME UNCHANGED <<pc, pass>> PROVE Selected'
  BY <1>2
<1>3. ASSUME ServerStep \/ (\E j \in jobs : Parse(j) \/ ParseAgain(j) \/ ParseFails(j))
      PROVE Selected'
  BY <1>2, <1>3 DEF ServerStep, Arrive, Expunge, Rollover, Parse, ParseAgain, ParseFails
<1>4. ASSUME pc' \in {"off", "connect", "select", "parked"} PROVE Selected'
  BY <1>4
<1>5. ASSUME \/ StartTask \/ Connect \/ Wake \/ SelectRefused \/ NothingNew
             \/ PassFails \/ TaskGone
      PROVE Selected'
  BY <1>4, <1>5 DEF StartTask, Connect, Wake, SelectRefused, NothingNew, Return,
                    PassFails, TaskGone
<1>6. ASSUME ResetCursor \/ DropLocations PROVE Selected'
  BY <1>6 DEF ResetCursor, DropLocations
<1>7. ASSUME \/ Fetch \/ EndWindow
             \/ \E i \in fetched : Ingest(i) \/ PassOver(i)
      PROVE Selected'
  BY <1>4, <1>7 DEF Fetch, EndWindow, Return, Ingest, PassOver, TypeOK
<1>8. QED BY <1>1, <1>3, <1>5, <1>6, <1>7 DEF Next, SyncStep

\* The columns, the payloads of the parse jobs and the locals of sync_folder
\* keep their types.
THEOREM TypeCorrect == Spec => []TypeOK
<1>1. Init => TypeOK /\ Selected
  BY InitType
<1>2. (TypeOK /\ Selected) /\ [Next]_vars => (TypeOK /\ Selected)'
  BY StepType, StepSelected
<1>3. QED BY <1>1, <1>2, PTL DEF Spec

-----------------------------------------------------------------------------
(* What a step may do to the mailbox and to the archive *)

\* Only the cleanup of a rollover makes the archive forget.
LEMMA CoveredGrows ==
  ASSUME TypeOK, Next, ~DropLocations
  PROVE  Covered \subseteq Covered'
<1> USE DEF server, archive, task, bounds, Covered, Archived, Pending
<1>1. ASSUME UNCHANGED <<loc, failed>>, jobs \subseteq jobs' PROVE Covered \subseteq Covered'
  BY <1>1
<1>2. ASSUME NEW j \in jobs, Parse(j) \/ ParseAgain(j) PROVE Covered \subseteq Covered'
  <2>1. Place(j) # NoLocation
    BY NoLocationAssumption DEF TypeOK, Jobs, Place, Places
  <2>2. QED BY <1>2, <2>1 DEF Parse, ParseAgain, TypeOK
<1>3. ASSUME NEW j \in jobs, ParseFails(j) PROVE Covered \subseteq Covered'
  BY <1>3 DEF ParseFails
<1>4. ASSUME ServerStep PROVE Covered \subseteq Covered'
  BY <1>1, <1>4 DEF ServerStep, Arrive, Expunge, Rollover
<1>5. ASSUME SyncStep PROVE Covered \subseteq Covered'
  BY <1>1, <1>5 DEF SyncStep, StartTask, Connect, Select, ResetCursor, NothingNew, Fetch,
                    Ingest, PassOver, EndWindow, Wake
<1>6. ASSUME SelectRefused \/ PassFails \/ TaskGone PROVE Covered \subseteq Covered'
  BY <1>1, <1>6 DEF SelectRefused, PassFails, TaskGone
<1>7. QED BY <1>2, <1>3, <1>4, <1>5, <1>6 DEF Next

\* Under one UIDVALIDITY, UIDs only go up and a UID never changes its message.
LEMMA MailSettles ==
  ASSUME TypeOK, Next
  PROVE  /\ uidValidity <= uidValidity'
         /\ uidValidity' = uidValidity =>
              /\ uidNext <= uidNext'
              /\ \A u \in Present' : u < uidNext => u \in Present /\ mail'[u] = mail[u]
<1> USE DEF server, archive, task, bounds, Present
<1>1. ASSUME UNCHANGED server PROVE uidValidity <= uidValidity'
  BY <1>1 DEF TypeOK, Validities
<1>2. CASE UNCHANGED server
  BY <1>1, <1>2 DEF TypeOK
<1>3. ASSUME NEW m \in Content, Arrive(m)
      PROVE  /\ uidValidity' = uidValidity /\ uidNext' = uidNext + 1
             /\ \A u \in Present' : u < uidNext => u \in Present /\ mail'[u] = mail[u]
  BY <1>3 DEF Arrive, TypeOK, Uids
<1>4. ASSUME NEW v \in Uids, Expunge(v)
      PROVE  /\ uidValidity' = uidValidity /\ uidNext' = uidNext
             /\ \A u \in Present' : u \in Present /\ mail'[u] = mail[u]
  BY <1>4 DEF Expunge, TypeOK
<1>5. ASSUME Rollover PROVE uidValidity' = uidValidity + 1
  BY <1>5 DEF Rollover
<1>6. ServerStep \/ UNCHANGED server
  BY DEF Next, SyncStep, StartTask, Connect, Select, ResetCursor, DropLocations, NothingNew,
         Fetch, Ingest, PassOver, EndWindow, Wake, SelectRefused, PassFails, TaskGone,
         Parse, ParseAgain, ParseFails
<1>7. QED
  BY <1>2, <1>3, <1>4, <1>5, <1>6 DEF ServerStep, TypeOK, Validities

\* A cursor that is sound in the next state.
SoundAfter(c) ==
    /\ c.uv = 0 => c.uid = 0
    /\ c.uv <= uidValidity'
    /\ c.uv = uidValidity' =>
         c.uid < uidNext' /\ \A u \in Present' : u <= c.uid => mail'[u] \in Covered'

\* A sound cursor stays sound, unless it vouches for locations that are dropped.
LEMMA SoundStays ==
  ASSUME TypeOK, TypeOK', Next, NEW c \in Cursors, Sound(c),
         DropLocations => c.uv < uidValidity \/ c.uid = 0
  PROVE  SoundAfter(c)
<1>1. /\ c.uv \in Nat /\ c.uid \in Nat
      /\ uidValidity \in Nat /\ uidValidity' \in Nat /\ uidNext \in Nat /\ uidNext' \in Nat
      /\ \A u \in Present' : u \in Nat \ {0}
  BY BoundsAssumption DEF TypeOK, Cursors, Validities, Present, Uids
<1>2. c.uv = 0 => c.uid = 0
  BY DEF Sound
<1>3. c.uv <= uidValidity'
  BY <1>1, MailSettles DEF Sound
<1>4. ASSUME c.uv = uidValidity' 
      PROVE c.uid < uidNext' /\ \A u \in Present' : u <= c.uid => mail'[u] \in Covered'
  <2>1. uidValidity' = uidValidity /\ c.uid < uidNext /\ CoveredTo(c.uid)
    BY <1>1, <1>4, MailSettles DEF Sound
  <2>2. c.uid < uidNext'
    BY <1>1, <2>1, MailSettles
  <2>3. ASSUME NEW u \in Present', u <= c.uid PROVE mail'[u] \in Covered'
    <3>1. u \in Present /\ mail'[u] = mail[u]
      BY <1>1, <2>1, <2>3, MailSettles
    <3>2. mail[u] \in Covered
      BY <2>1, <2>3, <3>1 DEF CoveredTo
    <3>3. ~DropLocations
      BY <1>1, <1>4, <2>1, <2>3
    <3>4. QED BY <3>1, <3>2, <3>3, CoveredGrows
  <2>4. QED BY <2>2, <2>3
<1>5. QED BY <1>2, <1>3, <1>4 DEF SoundAfter

-----------------------------------------------------------------------------
(* The checkpoint, with UIDNEXT *)

LEMMA InitIInv == Init => IInv
<1> SUFFICES ASSUME Init PROVE IInv
  OBVIOUS
<1>1. TypeOK
  BY InitType
<1>2. CursorsSound
  BY DEF Init, CursorsSound, Sound, NoCursor
<1>3. AgesInOrder /\ CleanupSound /\ UpperSound /\ ScanSound /\ WindowSound
  BY DEF Init, AgesInOrder, CleanupSound, UpperSound, ScanSound, WindowSound, Syncing
<1>4. QED BY <1>1, <1>2, <1>3 DEF IInv

LEMMA IInvType == IInv /\ Next => TypeOK /\ TypeOK' /\ pass \in Passes
<1>1. IInv => TypeOK /\ Selected
  BY DEF IInv, AgesInOrder, Selected
<1>2. TypeOK => pass \in Passes
  BY DEF TypeOK, Passes
<1>3. QED BY <1>1, <1>2, StepType

\* The cursor a pass has reached is sound when it is recorded or returned.
LEMMA ReachedSound ==
  ASSUME IInv, \/ NothingNew
               \/ EndWindow
  PROVE  Sound(Reached(pass.high))
<1>1. TypeOK /\ pass \in Passes /\ Reached(pass.high) = [uv |-> pass.uv, uid |-> pass.high]
  BY DEF IInv, TypeOK, Passes, Reached
<1>2. pass.uv # 0 /\ pass.uv <= uidValidity
  BY <1>1 DEF IInv, AgesInOrder, Syncing, NothingNew, EndWindow, Passes
<1>3. ASSUME Current PROVE pass.high < uidNext /\ CoveredTo(pass.high)
  <2>1. \A u \in Present : u \in Nat
    BY DEF Present, Uids
  <2>2. CASE NothingNew
    BY <1>1, <1>3, <2>1, <2>2 DEF IInv, NothingNew, ScanSound, CoveredTo, Passes, TypeOK
  <2>3. CASE EndWindow
    BY <1>1, <1>3, <2>1, <2>3
    DEF IInv, EndWindow, WindowSound, UpperSound, Syncing, CoveredTo, Passes, TypeOK
  <2>4. QED BY <2>2, <2>3
<1>4. QED BY <1>1, <1>2, <1>3 DEF Sound, Current

LEMMA StepCursors == IInv /\ Next => CursorsSound'
<1> SUFFICES ASSUME IInv, Next PROVE CursorsSound'
  OBVIOUS
<1> USE DEF server, archive, task, bounds
<1>0. /\ TypeOK /\ TypeOK' /\ pass \in Passes
      /\ rec \in Cursors /\ cfg \in Cursors /\ cur \in Cursors
      /\ Sound(rec) /\ Sound(cfg) /\ Sound(cur)
  BY IInvType DEF IInv, CursorsSound, TypeOK
<1>1. SUFFICES SoundAfter(rec') /\ SoundAfter(cfg') /\ SoundAfter(cur')
  BY DEF SoundAfter, CursorsSound, Sound, CoveredTo
<1>2. SoundAfter(NoCursor)
  BY <1>0, BoundsAssumption DEF SoundAfter, NoCursor, TypeOK, Validities
<1>3. ASSUME ~DropLocations, NEW c \in Cursors, Sound(c) PROVE SoundAfter(c)
  BY <1>0, <1>3, SoundStays
<1>4. ASSUME ~DropLocations, rec' = rec, cfg' \in {cfg, rec, NoCursor},
             cur' \in {cur, cfg, NoCursor}
      PROVE SoundAfter(rec') /\ SoundAfter(cfg') /\ SoundAfter(cur')
  BY <1>0, <1>2, <1>3, <1>4
<1>5. CASE DropLocations
  <2>1. /\ pc = "drop" /\ UNCHANGED <<rec, cfg, cur>>
        /\ uidValidity' = uidValidity /\ uidNext' = uidNext
    BY <1>5 DEF DropLocations
  <2>2. cfg.uv < uidValidity /\ cur.uv < uidValidity /\ rec.uid = 0
    BY <1>0, <2>1 DEF IInv, AgesInOrder, CleanupSound, Syncing, TypeOK, Cursors, Passes,
                      Validities
  <2>3. SoundAfter(rec) /\ SoundAfter(cfg) /\ SoundAfter(cur)
    BY <1>0, <2>2, SoundStays
  <2>4. QED BY <2>1, <2>3
<1>6. CASE ResetCursor
  <2>1. /\ pc = "reset" /\ rec' = [uv |-> pass.uv, uid |-> 0] /\ UNCHANGED <<cfg, cur>>
        /\ ~DropLocations /\ UNCHANGED server
    BY <1>6 DEF ResetCursor, DropLocations
  <2>2. pass.uv <= uidValidity' /\ 0 < uidNext'
    BY <1>0, <2>1 DEF IInv, AgesInOrder, Syncing, TypeOK
  <2>3. \A u \in Present' : ~(u <= 0)
    BY BoundsAssumption DEF Present, Uids
  <2>4. SoundAfter(rec')
    BY <2>1, <2>2, <2>3 DEF SoundAfter
  <2>5. QED BY <1>0, <1>3, <2>1, <2>4
<1>7. CASE NothingNew \/ EndWindow
  <2> DEFINE reached == Reached(pass.high)
  <2>1. /\ rec' \in {rec, reached} /\ cfg' = cfg /\ cur' \in {cur, reached}
        /\ ~DropLocations
    BY <1>7 DEF NothingNew, EndWindow, Return, Reached, DropLocations
  <2>2. Sound(reached) /\ reached \in Cursors
    BY <1>0, <1>7, ReachedSound DEF Reached, Cursors, Passes
  <2> HIDE DEF reached
  <2>3. QED BY <1>0, <1>3, <2>1, <2>2
<1>8. CASE StartTask \/ Connect \/ Select \/ Fetch \/ Wake
           \/ \E i \in fetched : Ingest(i) \/ PassOver(i)
  BY <1>4, <1>8 DEF StartTask, Connect, Select, Fetch, Wake, Ingest, PassOver, DropLocations
<1>9. CASE SelectRefused \/ PassFails \/ TaskGone
  BY <1>4, <1>9 DEF SelectRefused, PassFails, TaskGone, DropLocations
<1>10. CASE ServerStep \/ \E j \in jobs : Parse(j) \/ ParseAgain(j) \/ ParseFails(j)
  <2>1. UNCHANGED <<rec, cfg, cur, pc>>
    BY <1>10 DEF ServerStep, Arrive, Expunge, Rollover, Parse, ParseAgain, ParseFails
  <2>2. ~DropLocations
    BY <2>1 DEF DropLocations
  <2>3. QED BY <1>4, <2>1, <2>2
<1>11. QED
  BY <1>5, <1>6, <1>7, <1>8, <1>9, <1>10 DEF Next, SyncStep

LEMMA StepAges == IInv /\ Next => AgesInOrder' /\ CleanupSound'
<1> SUFFICES ASSUME IInv, Next PROVE AgesInOrder' /\ CleanupSound'
  OBVIOUS
<1> USE DEF server, archive, task, bounds, Syncing
<1>0. /\ TypeOK /\ pass \in Passes /\ pass.uv \in Nat /\ cur.uv \in Nat /\ cfg.uv \in Nat
      /\ cur.uid \in Nat /\ uidValidity \in Nat \ {0} /\ uidValidity' \in Nat
      /\ uidValidity <= uidValidity'
      /\ AgesInOrder /\ CleanupSound /\ CursorsSound
  BY IInvType, MailSettles DEF IInv, TypeOK, Passes, Cursors, Validities
<1>1. ASSUME UNCHANGED <<pc, cfg, cur, pass, rec>> PROVE AgesInOrder' /\ CleanupSound'
  BY <1>0, <1>1 DEF AgesInOrder, CleanupSound
<1>2. CASE ServerStep \/ \E j \in jobs : Parse(j) \/ ParseAgain(j) \/ ParseFails(j)
  BY <1>1, <1>2 DEF ServerStep, Arrive, Expunge, Rollover, Parse, ParseAgain, ParseFails
<1>3. CASE StartTask \/ Connect \/ SelectRefused \/ PassFails \/ TaskGone \/ Wake
  BY <1>0, <1>3 DEF StartTask, Connect, SelectRefused, PassFails, TaskGone, Wake,
                    AgesInOrder, CleanupSound
<1>4. CASE Select
  <2>1. /\ pass'.uv = uidValidity /\ pass'.from = LastUid + 1 /\ pass'.high = LastUid
        /\ uidValidity' = uidValidity /\ cfg' = cfg /\ cur' = cur /\ pc = "select"
        /\ pc' = IF RolledOver THEN "reset" ELSE "scan"
    BY <1>4 DEF Select, NoPass
  <2>2. cur.uv <= uidValidity
    BY <1>0 DEF CursorsSound, Sound
  <2>3. RolledOver => LastUid = 0 /\ cur.uv < uidValidity
    BY <1>0, <2>2 DEF RolledOver, LastUid
  <2>4. QED BY <1>0, <2>1, <2>2, <2>3 DEF AgesInOrder, CleanupSound
<1>5. CASE ResetCursor
  BY <1>0, <1>5 DEF ResetCursor, AgesInOrder, CleanupSound
<1>6. CASE DropLocations
  BY <1>0, <1>6 DEF DropLocations, AgesInOrder, CleanupSound
<1>7. CASE Fetch \/ \E i \in fetched : Ingest(i) \/ PassOver(i)
  <2>1. /\ pc' = "window" /\ pc \in {"scan", "window"}
        /\ pass'.uv = pass.uv /\ UNCHANGED <<cfg, cur, uidValidity>>
    BY <1>0, <1>7 DEF Fetch, Ingest, PassOver, Passes
  <2>2. QED BY <1>0, <2>1 DEF AgesInOrder, CleanupSound
<1>8. CASE NothingNew \/ EndWindow
  <2>1. /\ pc \in {"scan", "window"} /\ UNCHANGED <<cfg, uidValidity>>
        /\ \/ pc' = "parked" /\ (cur' = cur \/ cur'.uv = pass.uv)
           \/ pc' = "scan" /\ cur' = cur /\ pass'.uv = pass.uv
    BY <1>0, <1>8 DEF NothingNew, EndWindow, Return, Passes
  <2>2. QED BY <1>0, <2>1 DEF AgesInOrder, CleanupSound
<1>9. QED
  BY <1>2, <1>3, <1>4, <1>5, <1>6, <1>7, <1>8 DEF Next, SyncStep

LEMMA StepUpper == IInv /\ Next => UpperSound'
<1> SUFFICES ASSUME IInv, Next, Syncing', Current' PROVE pass'.upper < uidNext'
  BY DEF UpperSound
<1> USE DEF server, archive, task, bounds, Syncing, Current
<1>0. /\ TypeOK /\ TypeOK' /\ pass \in Passes /\ AgesInOrder /\ UpperSound
      /\ uidNext \in Nat /\ uidNext' \in Nat /\ uidValidity \in Nat /\ uidValidity' \in Nat
      /\ pass.uv \in Nat /\ pass.upper \in Nat
      /\ uidValidity <= uidValidity'
      /\ uidValidity' = uidValidity => uidNext <= uidNext'
  BY IInvType, MailSettles DEF IInv, TypeOK, Passes, Validities
<1>1. CASE Select
  BY <1>0, <1>1 DEF Select, NoPass
<1>2. ASSUME Syncing, pass'.uv = pass.uv, pass'.upper = pass.upper
      PROVE pass'.upper < uidNext'
  BY <1>0, <1>2 DEF UpperSound, AgesInOrder
<1>3. CASE \/ ServerStep \/ ResetCursor \/ DropLocations
           \/ \E j \in jobs : Parse(j) \/ ParseAgain(j) \/ ParseFails(j)
  <2>1. pass' = pass /\ Syncing
    BY <1>3 DEF ServerStep, Arrive, Expunge, Rollover, ResetCursor, DropLocations,
                Parse, ParseAgain, ParseFails
  <2>2. QED BY <1>2, <2>1
<1>4. CASE Fetch \/ EndWindow \/ \E i \in fetched : Ingest(i) \/ PassOver(i)
  <2>1. Syncing /\ pass'.uv = pass.uv /\ pass'.upper = pass.upper
    BY <1>0, <1>4 DEF Fetch, EndWindow, Return, Ingest, PassOver, Passes
  <2>2. QED BY <1>2, <2>1
<1>5. CASE StartTask \/ Connect \/ SelectRefused \/ PassFails \/ TaskGone \/ Wake \/ NothingNew
  BY <1>5 DEF StartTask, Connect, SelectRefused, PassFails, TaskGone, Wake, NothingNew, Return
<1>6. QED
  BY <1>1, <1>3, <1>4, <1>5 DEF Next, SyncStep

\* The steps of others leave the pass as it is; what they do to the mailbox and
\* to the archive keeps a covered part of the mailbox covered.
LEMMA OthersKeepCovered ==
  ASSUME IInv, Next, ServerStep \/ (\E j \in jobs : Parse(j) \/ ParseAgain(j) \/ ParseFails(j)),
         Syncing, Current'
  PROVE  /\ UNCHANGED <<pc, pass, fetched>> /\ Current
         /\ uidNext <= uidNext' /\ Covered \subseteq Covered'
         /\ \A u \in Present' : u < uidNext => u \in Present /\ mail'[u] = mail[u]
<1> USE DEF server, archive, task, bounds
<1>1. TypeOK /\ UNCHANGED <<pc, pass, fetched>>
  BY DEF IInv, ServerStep, Arrive, Expunge, Rollover, Parse, ParseAgain, ParseFails
<1>2. uidValidity' = uidValidity
  BY <1>1, IInvType, MailSettles
  DEF IInv, AgesInOrder, Current, TypeOK, Passes, Validities
<1>3. Covered \subseteq Covered'
  BY <1>1, CoveredGrows DEF DropLocations
<1>4. QED BY <1>1, <1>2, <1>3, MailSettles DEF Current

LEMMA StepScan == IInv /\ Next => ScanSound'
<1> SUFFICES ASSUME IInv, Next, pc' = "scan", Current'
             PROVE  /\ pass'.high < pass'.from /\ pass'.from <= uidNext'
                    /\ \A u \in Present' : u <= pass'.from - 1 => mail'[u] \in Covered'
  BY DEF ScanSound, CoveredTo
<1> USE DEF server, archive, task, bounds
<1>0. /\ TypeOK /\ pass \in Passes /\ ScanSound /\ UpperSound /\ WindowSound
      /\ CleanupSound /\ CursorsSound
      /\ uidNext \in Nat \ {0} /\ uidNext' \in Nat /\ uidValidity \in Nat \ {0}
      /\ cur.uid \in Nat
      /\ pass.high \in Nat /\ pass.from \in Nat /\ pass.to \in Nat /\ pass.upper \in Nat
      /\ \A u \in Present' : u \in Nat \ {0}
  <2>1. TypeOK /\ TypeOK' /\ pass \in Passes
    BY IInvType
  <2>2. /\ uidNext \in Nat \ {0} /\ uidNext' \in Nat /\ uidValidity \in Nat \ {0}
        /\ cur.uid \in Nat
    BY <2>1 DEF TypeOK, Validities, Cursors
  <2>3. \A u \in Present' : u \in Nat \ {0}
    BY DEF Present, Uids
  <2>4. QED BY <2>1, <2>2, <2>3 DEF IInv, Passes
<1>1. CASE Select
  <2>1. /\ UNCHANGED <<mail, uidNext, uidValidity, loc, jobs, failed>> /\ ~RolledOver
        /\ pass'.from = cur.uid + 1 /\ pass'.high = cur.uid
    BY <1>1 DEF Select, NoPass, LastUid
  <2>2. cur.uid < uidNext /\ CoveredTo(cur.uid)
    <3>1. CASE cur.uv = 0
      <4>1. cur.uid = 0
        BY <1>0, <3>1 DEF CursorsSound, Sound
      <4>2. \A u \in Present : ~(u <= 0)
        BY DEF Present, Uids
      <4>3. QED BY <1>0, <4>1, <4>2 DEF CoveredTo
    <3>2. CASE cur.uv # 0
      BY <1>0, <2>1, <3>2 DEF RolledOver, CursorsSound, Sound
    <3>3. QED BY <3>1, <3>2
  <2>3. Present' = Present /\ Covered' = Covered
    BY <2>1 DEF Present, Covered, Archived, Pending
  <2>4. QED BY <1>0, <2>1, <2>2, <2>3 DEF CoveredTo
<1>2. CASE DropLocations
  <2>1. pass' = pass /\ pass.from = 1 /\ pass.high = 0 /\ uidNext' = uidNext
    BY <1>0, <1>2 DEF DropLocations, CleanupSound
  <2>2. \A u \in Present' : ~(u <= 0)
    BY <1>0
  <2>3. QED BY <1>0, <2>1, <2>2
<1>3. CASE EndWindow
  <2>1. /\ pass' = [pass EXCEPT !.from = pass.to + 1] /\ fetched = {} /\ pc = "window"
        /\ UNCHANGED <<mail, uidNext, uidValidity, loc, jobs, failed>>
    BY <1>3 DEF EndWindow, Return
  <2>2. pass'.from = pass.to + 1 /\ pass'.high = pass.high /\ pass'.uv = pass.uv
    BY <1>0, <2>1 DEF Passes
  <2>3. /\ pass.high <= pass.to /\ pass.to < uidNext
        /\ \A u \in Present : u <= pass.to => mail[u] \in Covered
    BY <1>0, <2>1, <2>2 DEF Current, WindowSound, UpperSound, Syncing
  <2>4. Present' = Present /\ Covered' = Covered
    BY <2>1 DEF Present, Covered, Archived, Pending
  <2>5. QED BY <1>0, <2>1, <2>2, <2>3, <2>4
<1>4. CASE ServerStep \/ \E j \in jobs : Parse(j) \/ ParseAgain(j) \/ ParseFails(j)
  <2>1. pc = "scan"
    BY <1>4 DEF ServerStep, Arrive, Expunge, Rollover, Parse, ParseAgain, ParseFails
  <2>2. /\ UNCHANGED <<pc, pass, fetched>> /\ Current
        /\ uidNext <= uidNext' /\ Covered \subseteq Covered'
        /\ \A u \in Present' : u < uidNext => u \in Present /\ mail'[u] = mail[u]
    BY <1>4, <2>1, OthersKeepCovered DEF Syncing
  <2>3. /\ pass.high < pass.from /\ pass.from <= uidNext
        /\ \A u \in Present : u <= pass.from - 1 => mail[u] \in Covered
    BY <1>0, <2>1, <2>2 DEF ScanSound, CoveredTo
  <2>4. QED BY <1>0, <2>2, <2>3
<1>5. CASE \/ StartTask \/ Connect \/ SelectRefused \/ PassFails \/ TaskGone \/ Wake
           \/ NothingNew \/ ResetCursor \/ Fetch
           \/ \E i \in fetched : Ingest(i) \/ PassOver(i)
  BY <1>5 DEF StartTask, Connect, SelectRefused, PassFails, TaskGone, Wake, NothingNew,
              Return, ResetCursor, Fetch, Ingest, PassOver
<1>6. QED
  BY <1>1, <1>2, <1>3, <1>4, <1>5 DEF Next, SyncStep

LEMMA StepWindow == UidNext /\ IInv /\ Next => WindowSound'
<1> SUFFICES ASSUME UidNext, IInv, Next, pc' = "window", Current'
             PROVE  /\ pass'.to <= pass'.upper
                    /\ pass'.high <= pass'.to
                    /\ \A i \in fetched' : i.uid <= pass'.to
                    /\ \A u \in Present' : u <= pass'.to =>
                         \/ mail'[u] \in Covered'
                         \/ [uid |-> u, msg |-> mail'[u]] \in fetched'
  BY DEF WindowSound
<1> USE DEF server, archive, task, bounds
<1>0. /\ TypeOK /\ pass \in Passes /\ ScanSound /\ UpperSound /\ WindowSound
      /\ uidNext \in Nat /\ uidValidity \in Nat
      /\ pass.high \in Nat /\ pass.from \in Nat /\ pass.to \in Nat /\ pass.upper \in Nat
      /\ \A i \in fetched : i.uid \in Nat /\ i.msg \in Content
  <2>1. TypeOK /\ pass \in Passes /\ ScanSound /\ UpperSound /\ WindowSound
    BY IInvType DEF IInv
  <2>2. /\ uidNext \in Nat /\ uidValidity \in Nat
        /\ \A i \in fetched : i.uid \in Nat /\ i.msg \in Content
    BY <2>1, BoundsAssumption DEF TypeOK, Validities, Items, Uids
  <2>3. QED BY <2>1, <2>2 DEF Passes
<1>1. CASE Fetch
  <2>1. /\ pc = "scan" /\ pass.from <= pass.upper
        /\ pass' = [pass EXCEPT !.to = WindowEnd, !.any = FALSE]
        /\ UNCHANGED <<mail, uidNext, uidValidity, loc, jobs, failed>>
    BY <1>1 DEF Fetch
  <2>2. /\ pass'.to = WindowEnd /\ pass'.upper = pass.upper /\ pass'.high = pass.high
        /\ pass'.uv = pass.uv
    BY <1>0, <2>1 DEF Passes
  <2>3. Current
    BY <2>1, <2>2 DEF Current
  <2>4. WindowEnd \in Nat /\ pass.from <= WindowEnd /\ WindowEnd <= pass.upper
    BY <1>0, <2>1, BatchAssumption DEF WindowEnd
  <2>5. /\ pass.high < pass.from
        /\ \A u \in Present : u <= pass.from - 1 => mail[u] \in Covered
    BY <1>0, <2>1, <2>3 DEF ScanSound, CoveredTo
  <2>6. fetched' = {[uid |-> u, msg |-> mail[u]] : u \in Present \cap (pass.from..WindowEnd)}
    BY <1>1, <2>3 DEF Fetch, Current
  <2>7. Present' = Present /\ Covered' = Covered
    BY <2>1 DEF Present, Covered, Archived, Pending
  <2>8. \A u \in Present : u \in Nat
    BY DEF Present, Uids
  <2>9. \A i \in fetched' : i.uid <= pass'.to
    BY <2>2, <2>4, <2>6, <2>8
  <2>10. ASSUME NEW u \in Present, u <= WindowEnd
         PROVE mail[u] \in Covered \/ [uid |-> u, msg |-> mail[u]] \in fetched'
    BY <1>0, <2>4, <2>5, <2>6, <2>8, <2>10
  <2>11. QED BY <1>0, <2>1, <2>2, <2>4, <2>5, <2>7, <2>9, <2>10
<1>2. ASSUME NEW i \in fetched, Ingest(i) \/ PassOver(i), pc = "window"
      PROVE  /\ Current /\ Present' = Present /\ mail' = mail
             /\ pass'.to = pass.to /\ pass'.upper = pass.upper
             /\ pass'.high <= pass.to /\ pass.to <= pass.upper
             /\ fetched' = fetched \ {i}
             /\ \A k \in fetched : k.uid <= pass.to
             /\ \A u \in Present : u <= pass.to =>
                  mail[u] \in Covered \/ [uid |-> u, msg |-> mail[u]] \in fetched
             /\ Covered \subseteq Covered'
  <2>1. /\ UNCHANGED server /\ fetched' = fetched \ {i} /\ pass'.uv = pass.uv
        /\ pass'.to = pass.to /\ pass'.upper = pass.upper
        /\ pass'.high \in {pass.high, i.uid}
    BY <1>0, <1>2 DEF Ingest, PassOver, HighWith, Passes
  <2>2. Current /\ Present' = Present /\ ~DropLocations
    BY <1>2, <2>1 DEF Current, Present, DropLocations
  <2>3. QED BY <1>0, <1>2, <2>1, <2>2, CoveredGrows DEF WindowSound
<1>3. ASSUME NEW i \in fetched, Ingest(i)
      PROVE  i.msg \in Covered'
  <2>1. JobOf(i) \in jobs' /\ JobOf(i).msg = i.msg
    BY <1>3 DEF Ingest, JobOf
  <2>2. QED BY <1>0, <2>1 DEF Covered, Pending
<1>4. CASE \E i \in fetched : Ingest(i)
  <2>1. PICK i \in fetched : Ingest(i)
    BY <1>4
  <2>2. pc = "window"
    BY <2>1 DEF Ingest
  <2>3. QED BY <1>2, <1>3, <2>1, <2>2
<1>5. CASE \E i \in fetched : PassOver(i)
  <2>1. PICK i \in fetched : PassOver(i)
    BY <1>5
  <2>2. pc = "window"
    BY <2>1 DEF PassOver
  <2>3. i.uid \notin Present
    BY <1>2, <2>1, <2>2 DEF PassOver, Current, Present
  <2>4. \A u \in Present : [uid |-> u, msg |-> mail[u]] # i
    BY <2>3
  <2>5. QED BY <1>2, <2>1, <2>2, <2>4
<1>6. CASE ServerStep \/ \E j \in jobs : Parse(j) \/ ParseAgain(j) \/ ParseFails(j)
  <2>1. pc = "window"
    BY <1>6 DEF ServerStep, Arrive, Expunge, Rollover, Parse, ParseAgain, ParseFails
  <2>2. /\ UNCHANGED <<pc, pass, fetched>> /\ Current
        /\ uidNext <= uidNext' /\ Covered \subseteq Covered'
        /\ \A u \in Present' : u < uidNext => u \in Present /\ mail'[u] = mail[u]
    BY <1>6, <2>1, OthersKeepCovered DEF Syncing
  <2>3. pass.to < uidNext /\ \A u \in Present' : u \in Nat
    <3>1. \A u \in Present' : u \in Nat
      BY DEF Present, Uids
    <3>2. QED BY <1>0, <2>1, <2>2, <3>1 DEF WindowSound, UpperSound, Syncing
  <2>4. QED BY <1>0, <2>1, <2>2, <2>3 DEF WindowSound
<1>7. CASE \/ StartTask \/ Connect \/ SelectRefused \/ PassFails \/ TaskGone \/ Wake
           \/ NothingNew \/ ResetCursor \/ Select \/ DropLocations \/ EndWindow
  BY <1>7 DEF StartTask, Connect, SelectRefused, PassFails, TaskGone, Wake, NothingNew,
              Return, ResetCursor, Select, DropLocations, EndWindow
<1>8. QED
  BY <1>1, <1>4, <1>5, <1>6, <1>7 DEF Next, SyncStep

\* The inductive invariant: what each place in a pass knows of the mail below
\* and in its window, and what the cursors vouch for.
THEOREM InductiveInvariant == ASSUME UidNext PROVE Spec => []IInv
<1>1. IInv /\ [Next]_vars => IInv'
  <2>1. CASE Next
    BY <2>1, IInvType, StepCursors, StepAges, StepUpper, StepScan, StepWindow DEF IInv
  <2>2. CASE UNCHANGED vars
    BY <2>2 DEF vars, IInv, TypeOK, CursorsSound, Sound, CoveredTo, Covered, Archived,
                Pending, Present, AgesInOrder, CleanupSound, UpperSound, ScanSound,
                WindowSound, Syncing, Current
  <2>3. QED BY <2>1, <2>2
<1>2. QED BY InitIInv, <1>1, PTL DEF Spec

\* The checkpoint never runs ahead of the archive (sync.rs:426-428): with
\* UIDNEXT, no crash, failed pass, stale configuration, order of the FETCH or
\* rollover makes the sync skip mail.
THEOREM Checkpoint == ASSUME UidNext PROVE Spec => []CheckpointCovers
<1>1. IInv => CheckpointCovers
  BY DEF IInv, CursorsSound, Sound, CheckpointCovers
<1>2. QED BY <1>1, InductiveInvariant, PTL

-----------------------------------------------------------------------------
(* The cursor of an IDLE task, with or without UIDNEXT *)

Resolutions == \E j \in jobs : Parse(j) \/ ParseAgain(j) \/ ParseFails(j)

\* What the steps of the server and of the parse jobs leave alone.
LEMMA OthersLeaveTask ==
  ASSUME ServerStep \/ Resolutions
  PROVE  UNCHANGED <<rec, pc, cfg, cur, pass, fetched, late, failures, stops>>
BY DEF ServerStep, Resolutions, Arrive, Expunge, Rollover, Parse, ParseAgain, ParseFails,
       task, bounds

\* A pass keeps the high-water UID it records, and a failure is counted.
LEMMA StepCursor ==
  ASSUME Kind = "idle", TypeOK, CursorKept, Next
  PROVE  CursorKept'
<1> USE DEF server, archive, task, bounds, Undisturbed, Reached
<1>0. /\ pass \in Passes /\ rec \in Cursors /\ cur \in Cursors /\ cfg \in Cursors
      /\ failures \in Nat /\ \A i \in fetched : i.uid \in Nat
  BY BoundsAssumption DEF TypeOK, Passes, Items, Uids
<1>1. SUFFICES ASSUME failures' = 0 PROVE CursorKept'
  BY DEF CursorKept
<1>2. CASE ServerStep \/ Resolutions
  BY <1>2, OthersLeaveTask DEF CursorKept
<1>3. CASE StartTask \/ Connect \/ Wake \/ TaskGone
  BY <1>1, <1>3 DEF StartTask, Connect, Wake, TaskGone, CursorKept
<1>4. CASE SelectRefused \/ PassFails
  BY <1>0, <1>1, <1>4 DEF SelectRefused, PassFails
<1>5. CASE Select
  <2>1. /\ pass'.uv = uidValidity /\ pass'.high = LastUid /\ pass'.ingested = FALSE
        /\ rec' = rec /\ cur = rec /\ pc' = IF RolledOver THEN "reset" ELSE "scan"
    BY <1>1, <1>5 DEF Select, NoPass, CursorKept
  <2>2. CASE RolledOver
    BY <2>1, <2>2 DEF RolledOver, LastUid, CursorKept
  <2>3. CASE ~RolledOver
    BY <1>0, <2>1, <2>3 DEF LastUid, CursorKept, Cursors
  <2>4. QED BY <2>2, <2>3
<1>6. CASE ResetCursor
  BY <1>1, <1>6 DEF ResetCursor, CursorKept
<1>7. CASE DropLocations
  BY <1>0, <1>1, <1>7 DEF DropLocations, CursorKept, Passes
<1>8. CASE NothingNew
  BY <1>1, <1>8 DEF NothingNew, Return, CursorKept
<1>9. CASE Fetch
  BY <1>0, <1>1, <1>9 DEF Fetch, CursorKept, Passes
<1>10. ASSUME NEW i \in fetched, Ingest(i) PROVE CursorKept'
  <2>1. /\ pass'.uv = pass.uv /\ pass'.any /\ pass'.high = HighWith(i.uid)
        /\ rec' = rec /\ pc = "window" /\ pc' = "window"
    BY <1>0, <1>10 DEF Ingest, Passes
  <2>2. pass'.high >= pass.high
    BY <1>0, <2>1 DEF HighWith, Passes
  <2>3. rec.uv = pass.uv => rec.uid <= pass.high
    BY <1>1, <1>10, <2>1 DEF CursorKept, Ingest
  <2>4. pass'.high \in Nat /\ pass.high \in Nat /\ rec.uid \in Nat
    BY <1>0, <2>1 DEF HighWith, Passes, Cursors
  <2>5. QED BY <2>1, <2>2, <2>3, <2>4 DEF CursorKept
<1>11. ASSUME NEW i \in fetched, PassOver(i) PROVE CursorKept'
  BY <1>1, <1>11 DEF PassOver, CursorKept
<1>12. CASE EndWindow
  <2>1. pc = "window" /\ failures = 0
    BY <1>1, <1>12 DEF EndWindow
  <2>2. rec' = IF Checkpoints THEN Reached(pass.high) ELSE rec
    BY <1>12 DEF EndWindow
  <2>3. pass.ingested => rec' = Reached(pass.high)
    BY <1>0, <2>1, <2>2 DEF Checkpoints, CursorKept, Passes
  <2>4. LastWindow => rec' = Reached(pass.high)
    BY <1>0, <2>2, <2>3 DEF Checkpoints, Passes
  <2>5. rec'.uv = pass.uv => rec'.uid <= pass.high
    BY <1>0, <2>1, <2>2 DEF CursorKept, Passes
  <2>6. CASE LastWindow
    BY <1>12, <2>4, <2>6 DEF EndWindow, Return, CursorKept
  <2>7. CASE ~LastWindow
    <3>1. /\ pc' = "scan" /\ pass' = [pass EXCEPT !.from = pass.to + 1]
      BY <1>12, <2>7 DEF EndWindow
    <3>2. pass'.uv = pass.uv /\ pass'.high = pass.high /\ pass'.ingested = pass.ingested
      BY <1>0, <3>1 DEF Passes
    <3>3. QED BY <2>3, <2>5, <3>1, <3>2 DEF CursorKept
  <2>8. QED BY <2>6, <2>7
<1>13. QED
  BY <1>2, <1>3, <1>4, <1>5, <1>6, <1>7, <1>8, <1>9, <1>10, <1>11, <1>12
  DEF Next, SyncStep, Resolutions

\* The inductive invariant of an IDLE task: between two passes its cursor is the recorded
\* one, in a pass the recorded one is no further than what was reached.
THEOREM CursorInvariant == ASSUME Kind = "idle" PROVE Spec => [](TypeOK /\ Selected /\ CursorKept)
<1>1. Init => CursorKept
  BY DEF Init, CursorKept
<1>2. CursorKept /\ UNCHANGED vars => CursorKept'
  BY DEF CursorKept, vars, Undisturbed, Reached
<1>3. TypeOK /\ Selected /\ CursorKept /\ [Next]_vars => (TypeOK /\ Selected /\ CursorKept)'
  BY <1>2, StepType, StepSelected, StepCursor
<1>4. QED BY <1>1, <1>3, InitType, PTL DEF Spec

\* Only three steps write the recorded cursor.
LEMMA RecWritten ==
  ASSUME Next, rec' # rec
  PROVE  ResetCursor \/ NothingNew \/ EndWindow
BY DEF Next, ServerStep, SyncStep, Arrive, Expunge, Rollover, StartTask, Connect, Select,
       DropLocations, Fetch, Ingest, PassOver, Wake, SelectRefused, PassFails, TaskGone,
       Parse, ParseAgain, ParseFails

\* An IDLE task that meets no failure never moves the recorded cursor of a UIDVALIDITY
\* back (sync.rs:246-248), for any server, window size, rollovers and stops.
THEOREM CursorAdvances == ASSUME Kind = "idle" PROVE Spec => CursorMonotone
<1>1. ASSUME TypeOK, CursorKept, [Next]_vars, Undisturbed, rec'.uv = rec.uv
      PROVE  rec'.uid >= rec.uid
  <2>0. pass \in Passes /\ rec.uid \in Nat
    BY <1>1 DEF TypeOK, Passes, Cursors
  <2>1. CASE rec' = rec
    BY <2>0, <2>1
  <2>2. CASE rec' # rec
    <3>1. Next
      BY <1>1, <2>2 DEF vars
    <3>2. ~ResetCursor
      BY <1>1 DEF ResetCursor, CursorKept
    <3>3. pc \in {"scan", "window"} /\ rec' = Reached(pass.high)
      BY <2>2, <3>1, <3>2, RecWritten DEF NothingNew, EndWindow
    <3>4. QED BY <1>1, <2>0, <3>3 DEF CursorKept, Reached, Passes
  <2>3. QED BY <2>1, <2>2
<1>2. TypeOK /\ CursorKept /\ [Next]_vars
        => [Undisturbed /\ rec'.uv = rec.uv => rec'.uid >= rec.uid]_vars
  BY <1>1
<1>3. QED BY <1>2, CursorInvariant, PTL DEF Spec, CursorMonotone

\* A rollover is met by its handling: an IDLE task without failures never scans a mailbox
\* whose UIDVALIDITY is not the recorded one (sync.rs:461-463).
THEOREM RolloversAreHandled == ASSUME Kind = "idle" PROVE Spec => RolloverHandled
<1> DEFINE Handled == Undisturbed /\ pc = "select" /\ pc' # "parked"
                        /\ rec.uv # 0 /\ rec.uv # uidValidity => pc' \notin {"scan", "window"}
<1>1. ASSUME CursorKept, Next, Undisturbed, pc = "select", rec.uv # 0, rec.uv # uidValidity
      PROVE  pc' \notin {"scan", "window"}
  <2>1. RolledOver
    BY <1>1 DEF CursorKept, RolledOver
  <2>2. Select => pc' = "reset"
    BY <2>1 DEF Select
  <2>3. CASE ServerStep \/ Resolutions
    BY <1>1, <2>3, OthersLeaveTask
  <2>4. CASE SyncStep
    BY <1>1, <2>2, <2>4
    DEF SyncStep, StartTask, Connect, ResetCursor, DropLocations, NothingNew, Fetch, Ingest,
        PassOver, EndWindow, Wake
  <2>5. CASE SelectRefused \/ PassFails \/ TaskGone
    BY <2>5 DEF SelectRefused, PassFails, TaskGone
  <2>6. QED BY <1>1, <2>3, <2>4, <2>5 DEF Next, Resolutions
<1>2. CursorKept /\ [Next]_vars => [Handled]_vars
  BY <1>1
<1>3. QED BY <1>2, CursorInvariant, PTL DEF Spec, RolloverHandled

-----------------------------------------------------------------------------
(* The locations an IDLE task leaves *)

\* A stop in the rollover handling loses the record of the old UIDVALIDITY, and one in
\* the first window of a folder that of the current one.
StopsAreSafe == StopAt \cap {"drop", "window"} = {}

\* Steps that leave jobs, locations and the UIDVALIDITY in use alone.
LEMMA FreshAsBefore ==
  ASSUME TypeOK, CursorKept, NoneStale, Undisturbed, Undisturbed',
         UNCHANGED <<loc, jobs, late>>, \A uv \in Validities : InUse(uv) => InUse(uv)',
         (pc' = "drop") <=> (pc = "drop")
  PROVE  NoneStale'
<1>1. \A j \in jobs : j.uv \in Validities
  BY DEF TypeOK, Jobs
<1>2. \A m \in Content : Archived(m) => loc[m].uv \in Validities
  BY DEF TypeOK, Archived, Places
<1>3. QED BY <1>1, <1>2 DEF NoneStale, Archived

LEMMA StepStale ==
  ASSUME Kind = "idle", StopsAreSafe, TypeOK, Selected, CursorKept, NoneStale, Next
  PROVE  NoneStale'
<1> USE DEF server, archive, task, bounds, Undisturbed
<1>0. /\ pass \in Passes /\ rec \in Cursors /\ cur \in Cursors /\ failures \in Nat
  BY DEF TypeOK, Passes
<1>1. SUFFICES ASSUME failures' = 0 PROVE NoneStale'
  BY DEF NoneStale
<1>2. CASE ServerStep
  BY <1>1, <1>2, OthersLeaveTask, FreshAsBefore
  DEF ServerStep, Arrive, Expunge, Rollover, InUse
<1>3. ASSUME NEW j \in jobs, Parse(j) \/ ParseAgain(j) \/ ParseFails(j) PROVE NoneStale'
  <2>1. /\ UNCHANGED <<rec, pc, pass, late>> /\ failures = 0 /\ jobs' \subseteq jobs
        /\ loc' = loc \/ loc' = [loc EXCEPT ![j.msg] = Place(j)]
    BY <1>1, <1>3 DEF Parse, ParseAgain, ParseFails
  <2>2. ASSUME NEW m \in Content \ late, Archived(m)'
        PROVE  InUse(loc'[m].uv) \/ pc = "drop"
    <3>1. CASE loc'[m] = loc[m]
      BY <2>1, <2>2, <3>1 DEF NoneStale, Archived
    <3>2. CASE loc'[m] # loc[m]
      <4>1. j.msg = m /\ loc'[m] = Place(j)
        BY <2>1, <3>2 DEF TypeOK
      <4>2. QED BY <2>1, <4>1 DEF NoneStale, Place
    <3>3. QED BY <3>1, <3>2
  <2>3. QED BY <2>1, <2>2 DEF NoneStale, InUse
<1>4. CASE StartTask \/ Connect \/ Wake \/ TaskGone
  <2>1. pc \notin {"drop", "window"} /\ pc' \notin {"drop", "scan", "window"}
    BY <1>4 DEF StartTask, Connect, Wake, TaskGone, StopsAreSafe
  <2>2. UNCHANGED <<loc, jobs, late, rec, failures>>
    BY <1>4 DEF StartTask, Connect, Wake, TaskGone
  <2>3. pc = "scan" /\ pass.ingested => rec.uv = pass.uv
    BY <1>1, <2>2 DEF CursorKept, Reached
  <2>4. QED BY <1>1, <2>1, <2>2, <2>3, FreshAsBefore DEF InUse
<1>5. CASE SelectRefused \/ PassFails
  BY <1>0, <1>1, <1>5 DEF SelectRefused, PassFails
<1>6. CASE Select
  <2>1. /\ pc = "select" /\ cur = rec /\ failures = 0 /\ pass'.uv = uidValidity
        /\ UNCHANGED <<loc, jobs, late, rec>>
        /\ pc' = IF RolledOver THEN "reset" ELSE "scan"
    BY <1>1, <1>6 DEF Select, CursorKept, NoPass
  <2>2. CASE RolledOver \/ rec.uv # 0
    BY <1>1, <2>1, <2>2, FreshAsBefore DEF RolledOver, InUse
  <2>3. CASE rec.uv = 0 /\ ~RolledOver
    <3>1. \A uv \in Validities : ~InUse(uv)
      BY <2>1, <2>3, BoundsAssumption DEF InUse, Validities
    <3>2. ASSUME NEW m \in Content \ late
          PROVE  ~Archived(m) /\ \A j \in jobs : j.msg # m
      <4>1. \A j \in jobs : j.uv \in Validities
        BY DEF TypeOK, Jobs
      <4>2. Archived(m) => loc[m].uv \in Validities
        BY DEF TypeOK, Archived, Places
      <4>3. QED BY <2>1, <3>1, <4>1, <4>2 DEF NoneStale
    <3>3. QED BY <2>1, <3>2 DEF NoneStale, Archived
  <2>4. QED BY <2>2, <2>3
<1>7. CASE ResetCursor
  <2>1. \A m \in Content \ late' : \A j \in jobs' : j.msg # m
    BY <1>7 DEF ResetCursor
  <2>2. pc' = "drop"
    BY <1>7 DEF ResetCursor
  <2>3. QED BY <2>1, <2>2 DEF NoneStale
<1>8. CASE DropLocations
  <2>1. \A m \in Content \ late' : \A j \in jobs' : j.msg # m
    BY <1>1, <1>8 DEF DropLocations, NoneStale
  <2>2. \A m \in Content : ~Archived(m)'
    BY <1>8 DEF DropLocations, Archived
  <2>3. QED BY <2>1, <2>2 DEF NoneStale
<1>9. CASE Fetch \/ \E i \in fetched : PassOver(i)
  <2>1. /\ pc \in {"scan", "window"} /\ pc' \in {"scan", "window"} /\ pass'.uv = pass.uv
        /\ pass'.ingested = pass.ingested
        /\ UNCHANGED <<loc, jobs, late, failures, rec>>
    BY <1>0, <1>9 DEF Fetch, PassOver, Passes
  <2>2. QED BY <1>1, <2>1, FreshAsBefore DEF InUse
<1>10. ASSUME NEW i \in fetched, Ingest(i) PROVE NoneStale'
  <2>1. /\ pc = "window" /\ pc' = "window" /\ pass'.uv = pass.uv /\ pass'.ingested
        /\ UNCHANGED <<loc, late, failures>> /\ jobs' = jobs \cup {JobOf(i)}
    BY <1>0, <1>10 DEF Ingest, Passes
  <2>2. JobOf(i).uv = pass.uv
    BY DEF JobOf
  <2>3. QED BY <1>1, <2>1, <2>2 DEF NoneStale, Archived, InUse
<1>11. CASE NothingNew \/ EndWindow
  <2>1. /\ pc \in {"scan", "window"} /\ UNCHANGED <<loc, jobs, late, failures>>
    BY <1>11 DEF NothingNew, EndWindow
  <2>2. \/ /\ pc' = "scan" /\ pass'.uv = pass.uv /\ pass'.ingested = pass.ingested
           /\ rec' = rec \/ rec'.uv = pass.uv
        \/ pc' = "parked" /\ rec'.uv = pass.uv
    <3>1. CASE NothingNew
      BY <3>1 DEF NothingNew, Return, Reached
    <3>2. CASE EndWindow /\ LastWindow
      <4>1. pc = "window" /\ rec' = IF Checkpoints THEN Reached(pass.high) ELSE rec
        BY <3>2 DEF EndWindow
      <4>2. rec' = Reached(pass.high)
        BY <1>0, <1>1, <2>1, <3>2, <4>1 DEF Checkpoints, CursorKept, Passes
      <4>3. QED BY <3>2, <4>2 DEF EndWindow, Return, Reached
    <3>3. CASE EndWindow /\ ~LastWindow
      BY <1>0, <3>3 DEF EndWindow, Reached, Passes
    <3>4. QED BY <1>11, <3>1, <3>2, <3>3
  <2>3. QED BY <1>1, <2>1, <2>2, FreshAsBefore DEF InUse
<1>12. QED
  BY <1>2, <1>3, <1>4, <1>5, <1>6, <1>7, <1>8, <1>9, <1>10, <1>11 DEF Next, SyncStep

\* Once an IDLE task without failures is in sync and its jobs are done, its locations are
\* those of the server: the cleanup of a rollover (sync.rs:467-472) leaves none, but of
\* the jobs that were queued when it began.
THEOREM LocationsAreCurrent ==
  ASSUME Kind = "idle", StopsAreSafe
  PROVE  Spec => []NoStaleLocation
<1>1. Init => NoneStale
  BY DEF Init, NoneStale, Archived
<1>2. NoneStale /\ UNCHANGED vars => NoneStale'
  BY DEF NoneStale, vars, Undisturbed, Archived, InUse
<1>3. TypeOK /\ Selected /\ CursorKept /\ NoneStale /\ [Next]_vars => NoneStale'
  BY <1>2, StepStale
<1>4. NoneStale => NoStaleLocation
  BY DEF NoneStale, NoStaleLocation, InUse
<1>5. QED BY <1>1, <1>3, <1>4, CursorInvariant, PTL DEF Spec

==============================================================================
