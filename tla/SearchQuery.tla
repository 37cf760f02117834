----------------------------- MODULE SearchQuery -----------------------------
(***************************************************************************)
(* A user pages through the answers of one search (crates/search/service,  *)
(* crates/core/search, and the search results page of crates/frontend).    *)
(*                                                                         *)
(* A search reads the database, then the index, then the database again,   *)
(* in transactions of their own, and takes one of two ways: a query of     *)
(* folder hints alone is listed from the database, any other is asked of   *)
(* the index and filtered by folder afterwards.  Both must give the pages  *)
(* of one answer, in one order, and nothing but the user's own mail, while *)
(* mail arrives and accounts go.                                           *)
(*                                                                         *)
(* The messages, folders and accounts that can exist are constants, with   *)
(* what never changes of them.  A text clause is the set of the messages   *)
(* it matches; a hint's name is the set of the folders it finds.  An       *)
(* ordered list is a set whose members are told apart by their rank.       *)
(***************************************************************************)
EXTENDS Integers, FiniteSets, Sequences

CONSTANTS
    Account, Folder,
    Owned,         \* the accounts of the user who searches
    AccountOf,     \* the account of a folder
    Message,       \* messages, by id
    Home,          \* the account of a message
    Sent,          \* the time it was sent, or Undated
    Undated,
    DayLength,     \* time units in a day
    Address,       \* where a message's document lies in the index: breaks ties there
    Name,          \* display names of accounts (lower case)
    Needle, Finds, \* folder names in hints, and the folders whose path contains them
    Queries,       \* the queries asked: account hints, folder hints, residual clauses
    Places,        \* the places of messages in folders to begin with
    PageSize,      \* SEARCH_PAGE_SIZE
    Overfetch,     \* FOLDER_OVERFETCH
    MaxFetch,      \* MAX_FETCH
    MaxChanges     \* bound: changes of the stores during the search

Bounds == {"on", "before", "after"}
AccountHint == [negated : BOOLEAN, name : Name]
FolderHint == [negated : BOOLEAN, needle : Needle]
Clause == [negated : BOOLEAN, kind : {"text"}, docs : SUBSET Message]
          \cup [negated : BOOLEAN, kind : {"date"}, bound : Bounds, day : Nat]
Query == [accounts : SUBSET AccountHint, folders : SUBSET FolderHint,
          residual : SUBSET Clause]

ASSUME OwnedAssumption == Owned \subseteq Account /\ "none" \notin Account
ASSUME MessageAssumption ==
    /\ Message \subseteq Nat /\ IsFiniteSet(Message)
    /\ Undated \notin Int
    /\ Home \in [Message -> Account]
    /\ Sent \in [Message -> Nat \cup {Undated}]
    /\ Address \in [Message -> Nat]
    /\ \A m, n \in Message : Address[m] = Address[n] => m = n
ASSUME FolderAssumption ==
    /\ AccountOf \in [Folder -> Account]
    /\ Finds \in [Needle -> SUBSET Folder]
    /\ Places \subseteq [Message -> SUBSET Folder]
    /\ \A p \in Places : \A m \in Message : \A f \in p[m] : AccountOf[f] = Home[m]
ASSUME QueriesAssumption == Queries \subseteq Query
ASSUME NumbersAssumption ==
    DayLength \in Nat \ {0} /\ PageSize \in Nat \ {0} /\ Overfetch \in Nat \ {0}
    /\ MaxFetch \in Nat \ {0} /\ MaxChanges \in Nat

VARIABLES
    names,         \* the display name of each owned account
    accounts,      \* the accounts that exist
    rows,          \* the messages in the database
    places,        \* the folders each message is in
    docs,          \* the messages in the index
    query,         \* what the user asks
    offset, ended, \* the page's hit cursor, and whether it has met the end
    pages,         \* the rows shown, page by page
    total,         \* the total of the last answer
    pc,
    scope, wanted, \* the accounts and the folders the hints were resolved to
    hits,          \* what the search has found so far
    changes, quiet \* changes of the stores; history: none since the first page was asked

store == <<accounts, rows, places, docs>>
asked == <<names, query>>
client == <<offset, ended, pages>>
search == <<pc, scope, wanted, hits, total>>
vars == <<names, accounts, rows, places, docs, query, offset, ended, pages, total,
          pc, scope, wanted, hits, changes, quiet>>

\* Every message is archived and indexed, but those without a place.
Init ==
    /\ names \in [Owned -> Name]
    /\ accounts = Account
    /\ places \in Places
    /\ rows = {m \in Message : places[m] # {}}
    /\ docs = rows
    /\ query \in Queries
    /\ offset = 0 /\ ended = FALSE /\ pages = <<>>
    /\ total = 0
    /\ pc = "idle"
    /\ scope = {} /\ wanted = {} /\ hits = {}
    /\ changes = 0 /\ quiet = TRUE

-----------------------------------------------------------------------------
(* Order and pages *)

\* Newest first, undated last; messages of one time by the tie break.
Before(m, n, tie(_)) ==
    IF Sent[m] = Sent[n] THEN tie(m) > tie(n)
    ELSE Sent[n] = Undated \/ (Sent[m] # Undated /\ Sent[m] > Sent[n])

ById(m) == m
ByAddress(m) == - Address[m]
RowBefore(m, n) == Before(m, n, ById)
DocBefore(m, n) == Before(m, n, ByAddress)

\* The members of S with from <= rank < to.
Slice(S, before(_, _), from, to) ==
    {m \in S : Cardinality({n \in S : before(n, m)}) \in from .. (to - 1)}

-----------------------------------------------------------------------------
(* The search *)

\* resolve_scope: the user's accounts, narrowed by each hint.  Of accounts with the
\* same name the last in the list counts, which the database orders as it likes.
NameMaps ==
    {map \in [Name -> Owned \cup {"none"}] :
        \A n \in Name :
            LET named == {a \in Owned \cap accounts : names[a] = n}
            IN  IF named = {} THEN map[n] = "none" ELSE map[n] \in named}

\* Mutant: the accounts of all users are listed.
ResolveScope_Everyone(map) ==
    {a \in accounts : \A h \in query.accounts : (map[h.name] = a) # h.negated}

ResolveScope(map) ==
    {a \in Owned \cap accounts :
        \A h \in query.accounts : (map[h.name] = a) # h.negated}

\* A folder hint finds folders of the accounts in scope.
Resolve(hint, inScope) ==
    [negated |-> hint.negated,
     folders |-> {f \in Finds[hint.needle] : AccountOf[f] \in inScope \cap accounts}]

FolderOnly == query.residual = {} /\ wanted # {}

\* search: DB phase 1.  An empty scope answers at once.
Resolving ==
    /\ pc = "idle"
    /\ ~ended
    /\ \E map \in NameMaps :
         LET s == ResolveScope(map)
         IN  /\ scope' = s
             /\ wanted' = IF s = {} THEN {} ELSE {Resolve(h, s) : h \in query.folders}
             /\ pc' = IF s = {} THEN "answered" ELSE "resolved"
    /\ hits' = {}
    /\ total' = 0
    /\ UNCHANGED <<store, asked, client, changes, quiet>>

\* Has the message a place in a folder of each required group, and none in an
\* excluded one?
InFolders(m) ==
    \A w \in wanted : (places[m] \cap w.folders # {}) # w.negated

Unsatisfiable == \E w \in wanted : ~w.negated /\ w.folders = {}

\* search: the folder-only fast path, list_and_count_by_folders_for_user.
ListFolders ==
    /\ pc = "resolved"
    /\ FolderOnly
    /\ LET found == IF Unsatisfiable THEN {}
                    ELSE {m \in rows : Home[m] \in Owned \cap accounts /\ InFolders(m)}
       IN  /\ total' = Cardinality(found)
           /\ hits' = Slice(found, RowBefore, offset, offset + PageSize)
    /\ pc' = "answered"
    /\ UNCHANGED <<store, asked, client, scope, wanted, changes, quiet>>

\* Mutant: the day itself is after it.
InRange_Closed(t, bound, day) ==
    /\ t # Undated
    /\ CASE bound = "on" -> t >= day * DayLength /\ t < (day + 1) * DayLength
         [] bound = "before" -> t < day * DayLength
         [] bound = "after" -> t >= day * DayLength

\* date_range_query: half-open intervals of whole days; an undated message is in none.
InRange(t, bound, day) ==
    /\ t # Undated
    /\ CASE bound = "on" -> t >= day * DayLength /\ t < (day + 1) * DayLength
         [] bound = "before" -> t < day * DayLength
         [] bound = "after" -> t >= (day + 1) * DayLength

\* clause_query, of one residual clause.
Matches(m, c) ==
    (IF c.kind = "text" THEN m \in c.docs ELSE InRange(Sent[m], c.bound, c.day)) # c.negated

\* Mutant: the scope is one clause among others.
Compiled_Unscoped(m) ==
    \/ query.accounts = {} /\ Home[m] \in scope
    \/ query.accounts # {} /\ \A c \in query.residual : Matches(m, c)

\* build_query: the scope, and every residual clause.
Compiled(m) == Home[m] \in scope /\ \A c \in query.residual : Matches(m, c)

\* How many documents are asked of the index.
Fetched ==
    LET want == offset + PageSize
        fetch == IF wanted = {} THEN want ELSE want * Overfetch
    IN  IF fetch > MaxFetch THEN MaxFetch ELSE fetch

\* search: the Tantivy phase.
Execute ==
    /\ pc = "resolved"
    /\ ~FolderOnly
    /\ LET found == {m \in docs : Compiled(m)}
       IN  /\ total' = Cardinality(found)
           /\ hits' = Slice(found, DocBefore, 0, Fetched)
    /\ pc' = "executed"
    /\ UNCHANGED <<store, asked, client, scope, wanted, changes, quiet>>

\* Mutant: the page is cut before the filter.
PostFilter_PageFirst ==
    /\ pc = "executed"
    /\ LET page == Slice(hits, DocBefore, offset, offset + PageSize)
       IN  hits' = {m \in page : Unsatisfiable = FALSE /\ InFolders(m)}
    /\ pc' = "answered"
    /\ UNCHANGED <<store, asked, client, scope, wanted, total, changes, quiet>>

\* search: DB phase 2, the folder post-filter, then skip and take.
PostFilter ==
    /\ pc = "executed"
    /\ LET kept == IF Unsatisfiable THEN {} ELSE {m \in hits : InFolders(m)}
       IN  hits' = Slice(kept, DocBefore, offset, offset + PageSize)
    /\ pc' = "answered"
    /\ UNCHANGED <<store, asked, client, scope, wanted, total, changes, quiet>>

\* search_messages and the page: the rows that still exist are shown, and the cursor
\* moves by the hits.
Show ==
    /\ pc = "answered"
    /\ pages' = Append(pages, {m \in hits \cap rows : Home[m] \in Owned \cap accounts})
    /\ offset' = offset + Cardinality(hits)
    /\ ended' = (Cardinality(hits) < PageSize)
    /\ pc' = "idle"
    /\ UNCHANGED <<store, asked, scope, wanted, hits, total, changes, quiet>>

-----------------------------------------------------------------------------
(* The stores meanwhile *)

Change ==
    /\ changes < MaxChanges
    /\ changes' = changes + 1
    /\ quiet' = FALSE
    /\ UNCHANGED <<asked, client, search>>

\* A parse job records a message, or a further place of one.
Record(m, f) ==
    /\ AccountOf[f] = Home[m] /\ Home[m] \in accounts
    /\ f \notin places[m]
    /\ Change
    /\ rows' = rows \cup {m}
    /\ places' = [places EXCEPT ![m] = @ \cup {f}]
    /\ UNCHANGED <<accounts, docs>>

\* The indexer adds its document.
Index(m) ==
    /\ m \in rows \ docs
    /\ Change
    /\ docs' = docs \cup {m}
    /\ UNCHANGED <<accounts, rows, places>>

\* The places of a folder are dropped, after a change of its UIDVALIDITY.
Forget(f) ==
    /\ \E m \in Message : f \in places[m]
    /\ Change
    /\ places' = [m \in Message |-> places[m] \ {f}]
    /\ UNCHANGED <<accounts, rows, docs>>

\* An account is deleted: its rows, and later its documents.
DeleteRows(a) ==
    /\ a \in accounts
    /\ Change
    /\ accounts' = accounts \ {a}
    /\ rows' = {m \in rows : Home[m] # a}
    /\ places' = [m \in Message |-> IF Home[m] = a THEN {} ELSE places[m]]
    /\ UNCHANGED docs

DeleteDocs(a) ==
    /\ a \notin accounts
    /\ \E m \in docs : Home[m] = a
    /\ Change
    /\ docs' = {m \in docs : Home[m] # a}
    /\ UNCHANGED <<accounts, rows, places>>

Next ==
    \/ Resolving \/ ListFolders \/ Execute \/ PostFilter \/ Show
    \/ \E m \in Message : Index(m) \/ \E f \in Folder : Record(m, f)
    \/ \E f \in Folder : Forget(f)
    \/ \E a \in Account : DeleteRows(a) \/ DeleteDocs(a)

Spec == Init /\ [][Next]_vars

-----------------------------------------------------------------------------
(* What a query means *)

\* An account hint names accounts by their display name, a folder hint folders.
HasAccount(m) == \A h \in query.accounts : (names[Home[m]] = h.name) # h.negated
HasFolders(m) ==
    \A h \in query.folders : (\E f \in places[m] : f \in Finds[h.needle]) # h.negated

\* A date clause compares days.
SaidOf(m, c) ==
    IF c.kind = "text" THEN m \in c.docs
    ELSE /\ Sent[m] # Undated
         /\ CASE c.bound = "on" -> Sent[m] \div DayLength = c.day
              [] c.bound = "before" -> Sent[m] \div DayLength < c.day
              [] c.bound = "after" -> Sent[m] \div DayLength > c.day
HasText(m) == \A c \in query.residual : SaidOf(m, c) # c.negated

\* The whole answer, of stores that hold the same messages.
Answer ==
    {m \in rows : Home[m] \in Owned /\ HasAccount(m) /\ HasFolders(m) /\ HasText(m)}

\* The stores are as they were, and a name names one account.
Steady == quiet /\ \A a, b \in Owned : names[a] = names[b] => a = b

\* Folder hints alone, all of them exclusions: the fast path then lists the user's mail
\* without its account hints (see HintsHold).
ExcludeOnly ==
    query.residual = {} /\ query.folders # {} /\ \A h \in query.folders : h.negated
HintsLost == ExcludeOnly /\ query.accounts # {}

-----------------------------------------------------------------------------
(* Properties *)

TypeOK ==
    /\ names \in [Owned -> Name]
    /\ accounts \subseteq Account
    /\ rows \subseteq Message /\ docs \subseteq Message
    /\ places \in [Message -> SUBSET Folder]
    /\ query \in Queries
    /\ offset \in Nat /\ ended \in BOOLEAN
    /\ pages \in Seq(SUBSET Message)
    /\ total \in Nat
    /\ pc \in {"idle", "resolved", "executed", "answered"}
    /\ scope \subseteq Owned
    /\ wanted \subseteq [negated : BOOLEAN, folders : SUBSET Folder]
    /\ hits \subseteq Message
    /\ changes \in 0..MaxChanges /\ quiet \in BOOLEAN

\* Whatever is asked, and whatever happens to the stores between the transactions of a
\* search, it finds nothing but messages of the user's own accounts (service.rs:3-8).
HitsBelong == \A m \in hits : Home[m] \in Owned

\* Every row shown answers the query, whichever way it was found.
RowsAnswer ==
    Steady /\ ~HintsLost => \A i \in 1..Len(pages) : pages[i] \subseteq Answer

\* How many matches a search is sure to reach before its folder filter.
Reach ==
    IF query.folders = {} THEN MaxFetch
    ELSE IF PageSize * Overfetch > MaxFetch THEN MaxFetch ELSE PageSize * Overfetch

\* The total is exact, or with folder hints and other clauses an upper bound
\* (service.rs:42-51).
Totals ==
    pc = "answered" /\ ~HintsLost =>
        IF query.residual # {} /\ query.folders # {} THEN total >= Cardinality(Answer)
                                                    ELSE total = Cardinality(Answer)

\* The rows of the pages are in the order of the list.
Ordered ==
    \A i, j \in 1..Len(pages) : i < j =>
       \A m \in pages[i], n \in pages[j] :
          IF query.residual = {} /\ query.folders # {} THEN RowBefore(m, n) ELSE DocBefore(m, n)

\* At the end nothing is missing - unless the fetch was cut short.
Exhausted ==
    /\ ended /\ ~HintsLost
    /\ \/ query.residual = {} /\ query.folders # {}
       \/ Cardinality({m \in docs : Compiled(m)}) <= Reach
    => UNION {pages[i] : i \in 1..Len(pages)} = Answer

\* The pages partition the answer: each comes after the one before it, in the order of
\* the list, when the end is met nothing is missing, and the total says how much there
\* is - whichever way a page was found (service.rs:284-485, search_results.rs).
PagesPartition == Steady => Totals /\ Ordered /\ Exhausted

\* query.rs:27 makes the clauses of a query an implied AND: an account hint holds of
\* every row.  It does not when all other clauses exclude folders.
HintsHold ==
    Steady => \A i \in 1..Len(pages) : \A m \in pages[i] : HasAccount(m)

\* The inductive invariant behind RowsAnswer: a message is in folders of its own account;
\* until the stores change, the database and the index hold the same messages and every
\* stage of a search has what the query means at that stage.
PlacesAtHome == \A m \in Message : \A f \in places[m] : AccountOf[f] = Home[m]
SameStores == quiet => accounts = Account /\ docs = rows
HintedAccounts == {a \in Owned : \A h \in query.accounts : (names[a] = h.name) # h.negated}
StagesAnswer ==
    Steady =>
        /\ pc \in {"resolved", "executed"} =>
              scope = HintedAccounts /\ wanted = {Resolve(h, scope) : h \in query.folders}
        /\ pc = "executed" => hits \subseteq {m \in rows : Compiled(m)}
        /\ pc = "answered" /\ ~HintsLost => hits \subseteq Answer
IInv == TypeOK /\ HitsBelong /\ PlacesAtHome /\ SameStores /\ StagesAnswer /\ RowsAnswer

\* The list that is paged: the answer, or, by the folder-only path, what its folders hold.
FolderListing == query.residual = {} /\ query.folders # {}
List ==
    IF FolderListing
    THEN {m \in rows : Home[m] \in Owned /\ \A h \in query.folders :
            (places[m] \cap Resolve(h, HintedAccounts).folders # {}) # h.negated}
    ELSE Answer
Segment(from, to) ==
    IF FolderListing THEN Slice(List, RowBefore, from, to) ELSE Slice(List, DocBefore, from, to)

\* The inductive invariant behind PagesPartition: what has been shown is the beginning of
\* the list up to the cursor, and a search comes to the hits that follow it.
ReachesEnd ==
    /\ ~HintsLost
    /\ FolderListing \/ Cardinality({m \in docs : Compiled(m)}) <= Reach
PagesSoFar ==
    /\ UNION {pages[i] : i \in 1..Len(pages)} = Segment(0, offset)
    /\ offset <= Cardinality(List)
    /\ ended => pc = "idle"
StagesPage ==
    /\ pc = "executed" =>
          LET found == {m \in rows : Compiled(m)}
          IN  /\ ~FolderListing
              /\ hits = Slice(found, DocBefore, 0, Fetched) /\ total = Cardinality(found)
    /\ pc = "answered" =>
          /\ hits = Segment(offset, offset + Cardinality(hits))
          /\ offset + Cardinality(hits) <= Cardinality(List)
          /\ ReachesEnd => Cardinality(hits) >= PageSize
                            \/ offset + Cardinality(hits) = Cardinality(List)
PagesInv == PagesPartition /\ (Steady => PagesSoFar /\ StagesPage)
=============================================================================
