-------------------------------- MODULE SignOn --------------------------------
(***************************************************************************)
(* Single sign-on (frontend/src/server/oidc.rs): the OIDC client that is   *)
(* made when it is first needed and again after a failure, and the flows   *)
(* of the authorization code, which leave the server at the redirect to    *)
(* the identity provider and come back, once, more often or never, to any  *)
(* later moment of it.                                                     *)
(*                                                                         *)
(* The client and the table of flows in progress are in memory: a restart  *)
(* takes both.  A browser that hangs up takes the handler of its request   *)
(* with it at the await it has reached, and the lock the handler holds.    *)
(* Time is what is left of the cooldown and the ages of the flows; a flow  *)
(* is its CSRF state value, which is new and unique.                       *)
(***************************************************************************)
EXTENDS Integers

CONSTANTS
    Caller,          \* requests in progress at a time
    Nobody,          \* the lock is free
    Flow,            \* CSRF state values
    NoFlow,          \* a request without one
    Cooldown,        \* RETRY_COOLDOWN
    TTL,             \* STATE_ENTRY_TTL
    MaxOutages,      \* bound: outages of the provider
    MaxHangUps,      \* bound: requests given up by the browser
    MaxRestarts      \* bound: restarts of the process

ASSUME NamesAssumption == Nobody \notin Caller /\ NoFlow \notin Flow
ASSUME TimesAssumption == Cooldown \in Nat \ {0} /\ TTL \in Nat \ {0}
ASSUME BoundsAssumption == MaxOutages \in Nat /\ MaxHangUps \in Nat /\ MaxRestarts \in Nat

VARIABLES
    provider,        \* the identity provider: "up" or "down"
    client,          \* is there a discovered client?
    wait,            \* what is left of the cooldown after a failed discovery
    lock,            \* who holds OidcClientCell::state across its discovery
    store,           \* state_store: the flows in progress
    age,             \* the time since a flow was stored, up to TTL + 1
    pc, kind, flow,  \* each request: its step, what it asks for, its flow
    flows,           \* a flow: "new", "asked" for, "sent" to the provider, or "over"
    logins,          \* history: sessions established by a flow
    outages, hangUps, restarts

cell == <<client, wait, lock>>
requests == <<pc, kind, flow>>
faults == <<outages, hangUps, restarts>>
vars == <<provider, client, wait, lock, store, age, pc, kind, flow, flows, logins,
          outages, hangUps, restarts>>

Steps == {"idle", "asks", "discovers", "has", "exchanges", "verified"}

Init ==
    /\ provider \in {"up", "down"}
    /\ client = FALSE /\ wait = 0 /\ lock = Nobody
    /\ store = {} /\ age = [f \in Flow |-> 0]
    /\ pc = [c \in Caller |-> "idle"]
    /\ kind = [c \in Caller |-> "page"]
    /\ flow = [c \in Caller |-> NoFlow]
    /\ flows = [f \in Flow |-> "new"]
    /\ logins = [f \in Flow |-> 0]
    /\ outages = 0 /\ hangUps = 0 /\ restarts = 0

Goes(c, step) == pc' = [pc EXCEPT ![c] = step]

\* A request ends; most failures redirect to the login page.
Ends(c) ==
    /\ Goes(c, "idle")
    /\ kind' = [kind EXCEPT ![c] = "page"]
    /\ flow' = [flow EXCEPT ![c] = NoFlow]

-----------------------------------------------------------------------------
(* Requests.  All of them ask for the client first. *)

Asks(c, what, f) ==
    /\ pc[c] = "idle"
    /\ Goes(c, "asks")
    /\ kind' = [kind EXCEPT ![c] = what]
    /\ flow' = [flow EXCEPT ![c] = f]
    /\ UNCHANGED <<provider, cell, store, age, logins, faults>>

\* The login page (get_sso_config).
Page(c) == Asks(c, "page", NoFlow) /\ UNCHANGED flows

Start(c, f) ==
    /\ flows[f] = "new"
    /\ Asks(c, "start", f)
    /\ flows' = [flows EXCEPT ![f] = "asked"]

\* The browser comes back with a state value: the provider's answer, its reload,
\* or one that is not, or no longer, of a flow in progress.
Callback(c, f) == Asks(c, "callback", f) /\ UNCHANGED flows

-----------------------------------------------------------------------------
(* OidcClientCell::ensure_client *)

EnsureCached(c) ==
    /\ pc[c] = "asks" /\ lock = Nobody
    /\ client
    /\ Goes(c, "has")
    /\ UNCHANGED <<provider, cell, store, age, kind, flow, flows, logins, faults>>

\* should_attempt: not before the cooldown is over.
EnsureRefused(c) ==
    /\ pc[c] = "asks" /\ lock = Nobody
    /\ ~client /\ wait > 0
    /\ Ends(c)
    /\ UNCHANGED <<provider, cell, store, age, flows, logins, faults>>

\* Mutant: the lock is released before the await.
Discover_Unlocked(c) ==
    /\ pc[c] = "asks" /\ lock = Nobody
    /\ ~client /\ wait = 0
    /\ Goes(c, "discovers")
    /\ UNCHANGED <<provider, cell, store, age, kind, flow, flows, logins, faults>>

Discover(c) ==
    /\ pc[c] = "asks" /\ lock = Nobody
    /\ ~client /\ wait = 0
    /\ lock' = c
    /\ Goes(c, "discovers")
    /\ UNCHANGED <<provider, client, wait, store, age, kind, flow, flows, logins, faults>>

\* A new client begins with an empty state_store.
DiscoveryOk(c) ==
    /\ pc[c] = "discovers"
    /\ provider = "up"
    /\ client' = TRUE /\ wait' = 0 /\ lock' = Nobody
    /\ store' = {}
    /\ Goes(c, "has")
    /\ UNCHANGED <<provider, age, kind, flow, flows, logins, faults>>

DiscoveryFails(c) ==
    /\ pc[c] = "discovers"
    /\ provider = "down"
    /\ wait' = Cooldown /\ lock' = Nobody
    /\ Ends(c)
    /\ UNCHANGED <<provider, client, store, age, flows, logins, faults>>

-----------------------------------------------------------------------------
(* The handlers, with a client *)

ShowPage(c) ==
    /\ pc[c] = "has" /\ kind[c] = "page"
    /\ Ends(c)
    /\ UNCHANGED <<provider, cell, store, age, flows, logins, faults>>

\* Mutant: the condition of retain turned round.
Kept_Expired == {g \in store : age[g] >= TTL}

\* store_state purges what has expired, then inserts.
Kept == {g \in store : age[g] < TTL}

StoreState(c) ==
    /\ pc[c] = "has" /\ kind[c] = "start"
    /\ store' = Kept \cup {flow[c]}
    /\ age' = [age EXCEPT ![flow[c]] = 0]
    /\ flows' = [flows EXCEPT ![flow[c]] = "sent"]
    /\ Ends(c)
    /\ UNCHANGED <<provider, cell, logins, faults>>

\* Mutant: the entry is looked up and stays.
TakeState_Get(c) ==
    /\ pc[c] = "has" /\ kind[c] = "callback"
    /\ IF flow[c] \in store /\ age[flow[c]] <= TTL
       THEN Goes(c, "exchanges") /\ UNCHANGED <<kind, flow>>
       ELSE Ends(c)
    /\ UNCHANGED <<provider, cell, store, age, flows, logins, faults>>

\* take_state removes the entry, and gives it out if it has not expired.
TakeState(c) ==
    /\ pc[c] = "has" /\ kind[c] = "callback"
    /\ store' = store \ {flow[c]}
    /\ IF flow[c] \in store /\ age[flow[c]] <= TTL
       THEN Goes(c, "exchanges") /\ UNCHANGED <<kind, flow>>
       ELSE Ends(c)
    /\ flows' = IF flow[c] \in store THEN [flows EXCEPT ![flow[c]] = "over"] ELSE flows
    /\ UNCHANGED <<provider, cell, age, logins, faults>>

\* An error from the provider, no code, a failed exchange, or an ID token that is
\* missing, does not verify or has no usable email.
ExchangeFails(c) ==
    /\ pc[c] = "exchanges"
    /\ Ends(c)
    /\ UNCHANGED <<provider, cell, store, age, flows, logins, faults>>

\* The code is exchanged and the ID token verified, with the flow's own verifier and
\* nonce.
ExchangeOk(c) ==
    /\ pc[c] = "exchanges"
    /\ provider = "up"
    /\ Goes(c, "verified")
    /\ UNCHANGED <<provider, cell, store, age, kind, flow, flows, logins, faults>>

\* is_valid_email finds the user, who gets a session ...
LogIn(c) ==
    /\ pc[c] = "verified"
    /\ logins' = [logins EXCEPT ![flow[c]] = @ + 1]
    /\ Ends(c)
    /\ UNCHANGED <<provider, cell, store, age, flows, faults>>

\* ... or nobody.
NoUser(c) ==
    /\ pc[c] = "verified"
    /\ Ends(c)
    /\ UNCHANGED <<provider, cell, store, age, flows, logins, faults>>

-----------------------------------------------------------------------------
(* The world *)

\* Mutant: a failure is kept for ever.
Tick_KeepsFailure ==
    /\ age' = [f \in Flow |-> IF age[f] <= TTL THEN age[f] + 1 ELSE age[f]]
    /\ UNCHANGED <<provider, cell, store, requests, flows, logins, faults>>

Tick ==
    /\ wait' = IF wait > 0 THEN wait - 1 ELSE 0
    /\ age' = [f \in Flow |-> IF f \in store /\ age[f] <= TTL THEN age[f] + 1 ELSE age[f]]
    /\ UNCHANGED <<provider, client, lock, store, requests, flows, logins, faults>>

HangUp(c) ==
    /\ hangUps < MaxHangUps
    /\ pc[c] \in {"asks", "discovers", "exchanges", "verified"}
    /\ hangUps' = hangUps + 1
    /\ lock' = IF lock = c THEN Nobody ELSE lock
    /\ Ends(c)
    /\ UNCHANGED <<provider, client, wait, store, age, flows, logins, outages, restarts>>

Restart ==
    /\ restarts < MaxRestarts
    /\ restarts' = restarts + 1
    /\ client' = FALSE /\ wait' = 0 /\ lock' = Nobody
    /\ store' = {}
    /\ pc' = [c \in Caller |-> "idle"]
    /\ kind' = [c \in Caller |-> "page"]
    /\ flow' = [c \in Caller |-> NoFlow]
    /\ flows' = [f \in Flow |-> IF f \in store THEN "over" ELSE flows[f]]
    /\ UNCHANGED <<provider, age, logins, outages, hangUps>>

GoesDown ==
    /\ outages < MaxOutages
    /\ provider = "up"
    /\ provider' = "down"
    /\ outages' = outages + 1
    /\ UNCHANGED <<cell, store, age, requests, flows, logins, hangUps, restarts>>

ComesUp ==
    /\ provider = "down"
    /\ provider' = "up"
    /\ UNCHANGED <<cell, store, age, requests, flows, logins, faults>>

Serve(c) ==
    \/ EnsureCached(c) \/ EnsureRefused(c) \/ Discover(c) \/ DiscoveryOk(c) \/ DiscoveryFails(c)
    \/ ShowPage(c) \/ StoreState(c) \/ TakeState(c) \/ ExchangeFails(c) \/ ExchangeOk(c)
    \/ LogIn(c) \/ NoUser(c)

Next ==
    \/ \E c \in Caller : Page(c) \/ Serve(c) \/ HangUp(c)
    \/ \E c \in Caller, f \in Flow : Start(c, f) \/ Callback(c, f)
    \/ Tick \/ Restart \/ GoesDown \/ ComesUp

Spec == Init /\ [][Next]_vars

\* Handlers run on, time passes, and somebody opens the login page now and then.  That a
\* discovery or an exchange returns, with or without success, is assumed of the provider
\* and the connection: oidc.rs:148-155 sets no timeout.
FairSpec ==
    /\ Spec
    /\ WF_vars(Tick)
    /\ WF_vars(\E c \in Caller : Page(c))
    /\ \A c \in Caller : WF_vars(Serve(c))

-----------------------------------------------------------------------------
(* Properties *)

\* The types, and the lock: who discovers holds it, and nobody discovers while
\* there is a client or a failure is still cached.  Concurrent callers share one
\* discovery (oidc.rs:249-251), whoever hangs up.
TypeOK ==
    /\ provider \in {"up", "down"}
    /\ client \in BOOLEAN /\ wait \in 0..Cooldown
    /\ lock \in Caller \cup {Nobody}
    /\ store \subseteq Flow /\ age \in [Flow -> 0..(TTL + 1)]
    /\ pc \in [Caller -> Steps]
    /\ kind \in [Caller -> {"page", "start", "callback"}]
    /\ flow \in [Caller -> Flow \cup {NoFlow}]
    /\ flows \in [Flow -> {"new", "asked", "sent", "over"}]
    /\ logins \in [Flow -> Nat]
    /\ outages \in 0..MaxOutages /\ hangUps \in 0..MaxHangUps /\ restarts \in 0..MaxRestarts
    /\ \A c \in Caller : pc[c] = "discovers" <=> lock = c
    /\ lock # Nobody => ~client /\ wait = 0

\* "Take-and-remove also prevents replay" (oidc.rs:336): a flow establishes one
\* session at most, however often and however closely its callback is repeated.
SignedInOnce == \A f \in Flow : logins[f] <= 1

\* A flow that was sent to the provider is still in progress until it has been
\* taken or has expired: neither the flows of others nor a client that is made
\* anew lose it, and only a restart does.
KeptInTime == \A f \in Flow : flows[f] = "sent" /\ age[f] < TTL => f \in store

\* The inductive invariant: what a request knows of its flow, and how a flow goes
\* from asked to the store, to one callback and to a session.
Started(c) == kind[c] = "start" /\ pc[c] # "idle"
Taken(c) == pc[c] \in {"exchanges", "verified"}

IInv ==
    /\ TypeOK /\ KeptInTime
    /\ ~client => store = {}
    /\ \A f \in store : flows[f] = "sent"
    /\ \A f \in Flow : logins[f] = 0 \/ (logins[f] = 1 /\ flows[f] = "over")
    /\ \A c \in Caller :
          /\ pc[c] = "has" => client
          /\ pc[c] # "idle" /\ kind[c] # "page" => flow[c] \in Flow
          /\ Started(c) => flows[flow[c]] = "asked"
          /\ Taken(c) => kind[c] = "callback" /\ flows[flow[c]] = "over" /\ logins[flow[c]] = 0
    /\ \A c, d \in Caller :
          /\ Started(c) /\ Started(d) /\ flow[c] = flow[d] => c = d
          /\ Taken(c) /\ Taken(d) /\ flow[c] = flow[d] => c = d

\* "a transient IdP outage at startup no longer permanently disables SSO for the
\* process's lifetime" (oidc.rs:225-226): once the provider stays up there is a
\* client for good.
Recovers == <>[](provider = "up") => <>[]client
=============================================================================
