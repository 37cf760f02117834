----------------------------- MODULE SignOnProofs -----------------------------
(***************************************************************************)
(* Proofs about SignOn, for any number of requests and flows, any times    *)
(* and any faults: the types with the lock of the client cell, that a flow *)
(* establishes one session at most, and that none is lost before its time. *)
(***************************************************************************)
EXTENDS SignOn, TLAPS

USE DEF cell, requests, faults

LEMMA InitIInv == Init => IInv
<1> SUFFICES ASSUME Init PROVE IInv
  OBVIOUS
<1>1. /\ 0 \in 0..Cooldown /\ 0 \in 0..(TTL + 1)
      /\ 0 \in 0..MaxOutages /\ 0 \in 0..MaxHangUps /\ 0 \in 0..MaxRestarts
  BY TimesAssumption, BoundsAssumption
<1>2. TypeOK
  <2>1. /\ provider \in {"up", "down"} /\ client \in BOOLEAN
        /\ store \subseteq Flow /\ lock = Nobody
    BY DEF Init
  <2>2. /\ age \in [Flow -> 0..(TTL + 1)] /\ logins \in [Flow -> Nat]
        /\ flows \in [Flow -> {"new", "asked", "sent", "over"}]
    BY <1>1 DEF Init
  <2>3. /\ pc \in [Caller -> Steps] /\ kind \in [Caller -> {"page", "start", "callback"}]
        /\ flow \in [Caller -> Flow \cup {NoFlow}]
    BY DEF Init, Steps
  <2>4. \A c \in Caller : pc[c] # "discovers" /\ lock # c
    BY NamesAssumption DEF Init
  <2>5. QED BY <1>1, <2>1, <2>2, <2>3, <2>4 DEF Init, TypeOK
<1>3. QED BY <1>2 DEF Init, IInv, KeptInTime, Started, Taken

-----------------------------------------------------------------------------
(* Types *)

LEMMA RequestType ==
  ASSUME TypeOK, NEW c \in Caller,
         \/ Page(c)
         \/ \E f \in Flow : Start(c, f) \/ Callback(c, f)
  PROVE TypeOK'
<1>1. lock # c
  BY DEF TypeOK, Page, Start, Callback, Asks
<1>2. QED BY <1>1 DEF TypeOK, Steps, Page, Start, Callback, Asks, Goes

LEMMA ServeType ==
  ASSUME IInv, NEW c \in Caller, Serve(c) PROVE TypeOK'
<1>0. /\ TypeOK
      /\ pc[c] = "has" /\ kind[c] = "start" => flow[c] \in Flow
      /\ pc[c] = "verified" => flow[c] \in Flow
  BY DEF IInv, Started, Taken
<1> USE <1>0, NamesAssumption, TimesAssumption DEF TypeOK, Steps, Goes, Ends
<1>1. CASE EnsureCached(c)
  BY <1>1 DEF EnsureCached
<1>2. CASE EnsureRefused(c)
  BY <1>2 DEF EnsureRefused
<1>3. CASE Discover(c)
  BY <1>3 DEF Discover
<1>4. CASE DiscoveryOk(c)
  BY <1>4 DEF DiscoveryOk
<1>5. CASE DiscoveryFails(c)
  BY <1>5 DEF DiscoveryFails
<1>6. CASE ShowPage(c)
  BY <1>6 DEF ShowPage
<1>7. CASE TakeState(c)
  BY <1>7 DEF TakeState
<1>8. CASE ExchangeFails(c) \/ ExchangeOk(c) \/ NoUser(c)
  BY <1>8 DEF ExchangeFails, ExchangeOk, NoUser
<1>9. CASE LogIn(c)
  BY <1>9 DEF LogIn
<1>10. CASE StoreState(c)
  BY <1>10 DEF StoreState, Kept
<1>11. QED BY <1>1, <1>2, <1>3, <1>4, <1>5, <1>6, <1>7, <1>8, <1>9, <1>10 DEF Serve

LEMMA WorldType ==
  ASSUME TypeOK, Tick \/ Restart \/ GoesDown \/ ComesUp \/ (\E c \in Caller : HangUp(c))
  PROVE TypeOK'
<1> USE NamesAssumption, TimesAssumption, BoundsAssumption DEF TypeOK, Steps, Goes, Ends
<1>1. CASE Tick
  BY <1>1 DEF Tick
<1>2. CASE Restart
  <2>1. /\ pc' \in [Caller -> Steps] /\ kind' \in [Caller -> {"page", "start", "callback"}]
        /\ flow' \in [Caller -> Flow \cup {NoFlow}]
        /\ flows' \in [Flow -> {"new", "asked", "sent", "over"}]
    BY <1>2 DEF Restart
  <2>2. restarts' \in 0..MaxRestarts /\ wait' \in 0..Cooldown
    BY <1>2 DEF Restart
  <2>3. lock' = Nobody /\ \A c \in Caller : pc'[c] # "discovers" /\ lock' # c
    BY <1>2 DEF Restart
  <2>4. QED BY <1>2, <2>1, <2>2, <2>3 DEF Restart
<1>3. CASE GoesDown
  BY <1>3 DEF GoesDown
<1>4. CASE ComesUp
  BY <1>4 DEF ComesUp
<1>5. CASE \E c \in Caller : HangUp(c)
  BY <1>5 DEF HangUp
<1>6. QED BY <1>1, <1>2, <1>3, <1>4, <1>5

-----------------------------------------------------------------------------
(* The other parts of the inductive invariant, where the types hold after the *)
(* step *)

LEMMA RequestStep ==
  ASSUME IInv, TypeOK', NEW c \in Caller,
         \/ Page(c)
         \/ \E f \in Flow : Start(c, f) \/ Callback(c, f)
  PROVE IInv'
<1> USE DEF IInv, TypeOK, KeptInTime, Started, Taken, Asks, Goes
<1>1. CASE Page(c)
  BY <1>1 DEF Page
<1>2. CASE \E f \in Flow : Start(c, f)
  <2>1. PICK f \in Flow : Start(c, f)
    BY <1>2
  <2>2. \A d \in Caller : d # c => pc'[d] = pc[d] /\ kind'[d] = kind[d] /\ flow'[d] = flow[d]
    BY <2>1 DEF Start
  <2>3. pc'[c] = "asks" /\ kind'[c] = "start" /\ flow'[c] = f /\ pc[c] = "idle"
    BY <2>1 DEF Start
  <2>4. flows[f] = "new" /\ flows'[f] = "asked" /\ \A g \in Flow : g # f => flows'[g] = flows[g]
    BY <2>1 DEF Start
  <2>5. QED BY <2>1, <2>2, <2>3, <2>4 DEF Start
<1>3. CASE \E f \in Flow : Callback(c, f)
  BY <1>3 DEF Callback
<1>4. QED BY <1>1, <1>2, <1>3

LEMMA EnsureStep ==
  ASSUME IInv, TypeOK', NEW c \in Caller,
         EnsureCached(c) \/ EnsureRefused(c) \/ Discover(c) \/ DiscoveryOk(c) \/ DiscoveryFails(c)
  PROVE IInv'
<1> USE DEF IInv, TypeOK, KeptInTime, Started, Taken, Goes, Ends
<1>1. CASE EnsureCached(c)
  BY <1>1 DEF EnsureCached
<1>2. CASE EnsureRefused(c)
  BY <1>2 DEF EnsureRefused
<1>3. CASE Discover(c)
  BY <1>3 DEF Discover
<1>4. CASE DiscoveryOk(c)
  BY <1>4, NamesAssumption DEF DiscoveryOk
<1>5. CASE DiscoveryFails(c)
  BY <1>5 DEF DiscoveryFails
<1>6. QED BY <1>1, <1>2, <1>3, <1>4, <1>5

LEMMA HandlerStep ==
  ASSUME IInv, TypeOK', NEW c \in Caller,
         \/ ShowPage(c) \/ StoreState(c) \/ TakeState(c) \/ ExchangeFails(c)
         \/ ExchangeOk(c) \/ LogIn(c) \/ NoUser(c)
  PROVE IInv'
<1> USE DEF IInv, TypeOK, KeptInTime, Started, Taken, Goes, Ends
<1>1. CASE ShowPage(c)
  BY <1>1 DEF ShowPage
<1>2. CASE StoreState(c)
  BY <1>2 DEF StoreState, Kept
<1>3. CASE TakeState(c)
  BY <1>3 DEF TakeState
<1>4. CASE ExchangeFails(c) \/ NoUser(c)
  BY <1>4 DEF ExchangeFails, NoUser
<1>5. CASE ExchangeOk(c)
  BY <1>5 DEF ExchangeOk
<1>6. CASE LogIn(c)
  BY <1>6 DEF LogIn
<1>7. QED BY <1>1, <1>2, <1>3, <1>4, <1>5, <1>6

LEMMA WorldStep ==
  ASSUME IInv, TypeOK', Tick \/ Restart \/ GoesDown \/ ComesUp \/ (\E c \in Caller : HangUp(c))
  PROVE IInv'
<1> USE TimesAssumption DEF IInv, TypeOK, KeptInTime, Started, Taken, Goes, Ends
<1>1. CASE Tick
  BY <1>1 DEF Tick
<1>2. CASE Restart
  BY <1>2 DEF Restart
<1>3. CASE GoesDown \/ ComesUp
  BY <1>3 DEF GoesDown, ComesUp
<1>4. CASE \E c \in Caller : HangUp(c)
  BY <1>4 DEF HangUp
<1>5. QED BY <1>1, <1>2, <1>3, <1>4

-----------------------------------------------------------------------------

\* The inductive invariant holds in every reachable state: the cell with its lock,
\* the table of flows, and what a request knows of its flow (oidc.rs).
THEOREM Invariance == Spec => []IInv
<1>1. IInv /\ [Next]_vars => IInv'
  <2> SUFFICES ASSUME IInv, [Next]_vars PROVE IInv'
    OBVIOUS
  <2>1. TypeOK BY DEF IInv
  <2>2. ASSUME NEW c \in Caller, Page(c) \/ \E f \in Flow : Start(c, f) \/ Callback(c, f)
        PROVE IInv'
    BY <2>1, <2>2, RequestType, RequestStep
  <2>3. ASSUME NEW c \in Caller, Serve(c) PROVE IInv'
    <3>1. TypeOK' BY <2>3, ServeType
    <3>2. CASE EnsureCached(c) \/ EnsureRefused(c) \/ Discover(c) \/ DiscoveryOk(c) \/ DiscoveryFails(c)
      BY <3>1, <3>2, EnsureStep
    <3>3. CASE \/ ShowPage(c) \/ StoreState(c) \/ TakeState(c) \/ ExchangeFails(c)
               \/ ExchangeOk(c) \/ LogIn(c) \/ NoUser(c)
      BY <3>1, <3>3, HandlerStep
    <3>4. QED BY <2>3, <3>2, <3>3 DEF Serve
  <2>4. ASSUME Tick \/ Restart \/ GoesDown \/ ComesUp \/ (\E c \in Caller : HangUp(c))
        PROVE IInv'
    BY <2>1, <2>4, WorldType, WorldStep
  <2>5. CASE UNCHANGED vars
    BY <2>5 DEF vars, IInv, TypeOK, KeptInTime, Started, Taken
  <2>6. QED BY <2>2, <2>3, <2>4, <2>5 DEF Next
<1>2. QED BY <1>1, InitIInv, PTL DEF Spec

\* The types, and that whoever discovers holds the lock of the cell (oidc.rs:249-251).
THEOREM TypeCorrect == Spec => []TypeOK
<1>1. IInv => TypeOK BY DEF IInv
<1>2. QED BY <1>1, Invariance, PTL

\* A flow establishes one session at most (take_state, oidc.rs:186-199).
THEOREM SignsInOnce == Spec => []SignedInOnce
<1>1. IInv => SignedInOnce BY DEF IInv, SignedInOnce
<1>2. QED BY <1>1, Invariance, PTL

\* No flow is lost before it is taken or expires, other than by a restart
\* (store_state and ensure_client, oidc.rs:169-184 and 252-277).
THEOREM KeepsFlows == Spec => []KeptInTime
<1>1. IInv => KeptInTime BY DEF IInv
<1>2. QED BY <1>1, Invariance, PTL
=============================================================================
