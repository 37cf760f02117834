-------------------------- MODULE SearchQueryProofs --------------------------
(***************************************************************************)
(* Proofs about SearchQuery, for any accounts, folders, messages and       *)
(* queries, any page size and any limits of the fetch: a search finds      *)
(* nothing but the user's own mail; while the stores stay as they are      *)
(* every row of every page answers the query, whichever way it was found,  *)
(* and the pages partition the answer in the order of the list. The last   *)
(* needs, besides IInv, that what has been shown is the beginning of the   *)
(* list up to the cursor (PagesInv), and for that the facts about ranks    *)
(* and cuts of finite ordered sets in the middle of this module.           *)
(***************************************************************************)
EXTENDS SearchQuery, FiniteSetTheorems, TLAPS

USE DEF store, asked, client, search

Searches == Resolving \/ ListFolders \/ Execute \/ PostFilter \/ Show
Changes ==
    \/ \E m \in Message : Index(m) \/ \E f \in Folder : Record(m, f)
    \/ \E f \in Folder : Forget(f)
    \/ \E a \in Account : DeleteRows(a) \/ DeleteDocs(a)

LEMMA NextParts == ASSUME Next PROVE Searches \/ Changes
BY DEF Next, Searches, Changes

-----------------------------------------------------------------------------
(* What the parts of a query mean *)

\* The half-open intervals of whole days compare days (date_range_query).
LEMMA RangesCompareDays ==
  ASSUME NEW t \in Nat, NEW day \in Nat
  PROVE /\ t >= day * DayLength /\ t < (day + 1) * DayLength <=> t \div DayLength = day
        /\ t < day * DayLength <=> t \div DayLength < day
        /\ t >= (day + 1) * DayLength <=> t \div DayLength > day
BY NumbersAssumption, SMT

LEMMA ClauseMeaning ==
  ASSUME NEW m \in Message, NEW c \in Clause
  PROVE Matches(m, c) <=> (SaidOf(m, c) # c.negated)
<1>1. CASE c.kind = "text"
  BY <1>1 DEF Matches, SaidOf
<1>2. CASE c.kind # "text"
  <2>1. c.bound \in Bounds /\ c.day \in Nat
    BY <1>2 DEF Clause
  <2>2. CASE Sent[m] = Undated
    BY <1>2, <2>2 DEF Matches, SaidOf, InRange
  <2>3. CASE Sent[m] # Undated
    <3>1. Sent[m] \in Nat
      BY <2>3, MessageAssumption
    <3>2. InRange(Sent[m], c.bound, c.day) <=> SaidOf(m, c)
      BY <1>2, <2>1, <2>3, <3>1, RangesCompareDays DEF InRange, SaidOf, Bounds
    <3>3. InRange(Sent[m], c.bound, c.day) = SaidOf(m, c)
      BY <1>2, <2>1, <2>3, <3>2 DEF InRange, SaidOf, Bounds
    <3>4. QED BY <1>2, <3>3 DEF Matches
  <2>4. QED BY <2>2, <2>3
<1>3. QED BY <1>1, <1>2

\* What a folder hint was resolved to, in a scope, tells apart the messages of the scope
\* as the hint does, and finds no other (the folder phase of search).
LEMMA FolderMeaning ==
  ASSUME PlacesAtHome, accounts = Account, NEW s, NEW m \in Message, NEW h \in FolderHint,
         places[m] \subseteq Folder
  PROVE /\ Home[m] \in s =>
             (places[m] \cap Resolve(h, s).folders # {} <=> \E f \in places[m] : f \in Finds[h.needle])
        /\ Home[m] \notin s => places[m] \cap Resolve(h, s).folders = {}
        /\ Resolve(h, s).negated = h.negated
BY FolderAssumption, MessageAssumption DEF PlacesAtHome, Resolve

\* With accounts told apart by their names, the scope is what the account hints say.
LEMMA ScopeMeaning ==
  ASSUME TypeOK, accounts = Account, NEW map \in NameMaps,
         \A a, b \in Owned : names[a] = names[b] => a = b
  PROVE ResolveScope(map) = HintedAccounts
<1>1. ASSUME NEW a \in Owned, NEW h \in query.accounts
      PROVE map[h.name] = a <=> names[a] = h.name
  <2>1. h.name \in Name
    BY QueriesAssumption DEF TypeOK, Query, AccountHint
  <2>2. CASE names[a] = h.name
    <3>1. {b \in Owned \cap accounts : names[b] = h.name} = {a}
      BY <2>2, OwnedAssumption
    <3>2. map[h.name] \in {b \in Owned \cap accounts : names[b] = h.name}
      BY <2>1, <3>1 DEF NameMaps
    <3>3. QED BY <2>2, <3>1, <3>2
  <2>3. CASE names[a] # h.name
    BY <2>1, <2>3, OwnedAssumption DEF NameMaps
  <2>4. QED BY <2>2, <2>3
<1>2. QED BY <1>1, OwnedAssumption DEF ResolveScope, HintedAccounts

\* The meaning changes with the stores only.
LEMMA SameMeaning ==
  ASSUME UNCHANGED <<names, query, accounts, rows, docs, places, quiet>>
  PROVE /\ Answer' = Answer /\ HintedAccounts' = HintedAccounts
        /\ (Steady' <=> Steady) /\ (HintsLost' <=> HintsLost)
        /\ \A m : (HasText(m)' <=> HasText(m))
<1>1. \A m : HasAccount(m)' <=> HasAccount(m)
  BY DEF HasAccount
<1>2. \A m : HasFolders(m)' <=> HasFolders(m)
  BY DEF HasFolders
<1>3. \A m : HasText(m)' <=> HasText(m)
  BY DEF HasText, SaidOf
<1>4. Answer' = Answer
  BY <1>1, <1>2, <1>3 DEF Answer
<1>5. QED BY <1>3, <1>4 DEF HintedAccounts, Steady, HintsLost, ExcludeOnly

-----------------------------------------------------------------------------
(* Types *)

LEMMA Counts == \A S \in SUBSET Message : Cardinality(S) \in Nat
BY MessageAssumption, FS_Subset, FS_CardinalityType

LEMMA InitIInv == Init => IInv
<1> SUFFICES ASSUME Init PROVE IInv
  OBVIOUS
<1>1. TypeOK
  <2>1. places \in [Message -> SUBSET Folder]
    BY FolderAssumption DEF Init
  <2>2. pages \in Seq(SUBSET Message)
    BY DEF Init
  <2>3. changes \in 0..MaxChanges
    BY NumbersAssumption DEF Init
  <2>4. QED BY <2>1, <2>2, <2>3 DEF Init, TypeOK
<1>2. HitsBelong /\ SameStores /\ PlacesAtHome /\ StagesAnswer
  BY FolderAssumption DEF Init, HitsBelong, SameStores, PlacesAtHome, StagesAnswer
<1>3. RowsAnswer
  BY DEF Init, RowsAnswer
<1>4. QED BY <1>1, <1>2, <1>3 DEF IInv

LEMMA SearchesType == ASSUME TypeOK, Searches PROVE TypeOK' /\ UNCHANGED <<names, query, quiet>>
<1> USE Counts DEF TypeOK
<1>1. CASE Resolving
  <2>1. PICK map \in NameMaps :
          LET s == ResolveScope(map)
          IN  /\ scope' = s
              /\ wanted' = IF s = {} THEN {} ELSE {Resolve(h, s) : h \in query.folders}
              /\ pc' = IF s = {} THEN "answered" ELSE "resolved"
    BY <1>1 DEF Resolving
  <2>2. scope' \subseteq Owned
    BY <2>1 DEF ResolveScope
  <2>3. \A h \in query.folders : \A s : Resolve(h, s) \in [negated : BOOLEAN, folders : SUBSET Folder]
    BY QueriesAssumption, FolderAssumption DEF Query, FolderHint, Resolve
  <2>4. wanted' \subseteq [negated : BOOLEAN, folders : SUBSET Folder]
    BY <2>1, <2>3
  <2>5. QED BY <1>1, <2>1, <2>2, <2>4 DEF Resolving
<1>2. CASE ListFolders
  <2>1. PICK found \in SUBSET Message :
          total' = Cardinality(found) /\ hits' = Slice(found, RowBefore, offset, offset + PageSize)
    BY <1>2 DEF ListFolders
  <2>2. total' \in Nat /\ hits' \subseteq Message
    BY <2>1 DEF Slice
  <2>3. QED BY <1>2, <2>2 DEF ListFolders
<1>3. CASE Execute
  <2>1. PICK found \in SUBSET Message :
          total' = Cardinality(found) /\ hits' = Slice(found, DocBefore, 0, Fetched)
    BY <1>3 DEF Execute
  <2>2. total' \in Nat /\ hits' \subseteq Message
    BY <2>1 DEF Slice
  <2>3. QED BY <1>3, <2>2 DEF Execute
<1>4. CASE PostFilter
  BY <1>4 DEF PostFilter, Slice
<1>5. CASE Show
  <2>1. Cardinality(hits) \in Nat
    OBVIOUS
  <2>2. {m \in hits \cap rows : Home[m] \in Owned \cap accounts} \in SUBSET Message
    OBVIOUS
  <2>3. pages' \in Seq(SUBSET Message)
    BY <1>5, <2>2 DEF Show
  <2>4. offset' \in Nat /\ ended' \in BOOLEAN
    BY <1>5, <2>1 DEF Show
  <2>5. QED BY <1>5, <2>3, <2>4 DEF Show
<1>6. QED BY <1>1, <1>2, <1>3, <1>4, <1>5 DEF Searches, Resolving, ListFolders, Execute, PostFilter, Show

LEMMA ChangesType ==
  ASSUME TypeOK, PlacesAtHome, Changes
  PROVE TypeOK' /\ PlacesAtHome' /\ ~quiet' /\ UNCHANGED <<hits, pages>>
<1>1. /\ changes' \in 0..MaxChanges /\ quiet' = FALSE
      /\ UNCHANGED <<asked, client, search>>
  BY NumbersAssumption DEF Changes, Index, Record, Forget, DeleteRows, DeleteDocs, Change, TypeOK
<1>2. /\ accounts' \subseteq accounts
      /\ rows' \subseteq Message /\ docs' \subseteq Message
  BY DEF Changes, Index, Record, Forget, DeleteRows, DeleteDocs, TypeOK
<1>3. places' \in [Message -> SUBSET Folder] /\ PlacesAtHome'
  <2> USE DEF TypeOK, PlacesAtHome
  <2>1. ASSUME NEW m \in Message, NEW f \in Folder, Record(m, f)
        PROVE places' \in [Message -> SUBSET Folder] /\ PlacesAtHome'
    BY <2>1 DEF Record
  <2>2. ASSUME NEW f \in Folder, Forget(f)
        PROVE places' \in [Message -> SUBSET Folder] /\ PlacesAtHome'
    BY <2>2 DEF Forget
  <2>3. ASSUME NEW a \in Account, DeleteRows(a)
        PROVE places' \in [Message -> SUBSET Folder] /\ PlacesAtHome'
    BY <2>3 DEF DeleteRows
  <2>4. CASE UNCHANGED places
    BY <2>4
  <2>5. QED BY <2>1, <2>2, <2>3, <2>4 DEF Changes, Index, DeleteDocs
<1>4. QED BY <1>1, <1>2, <1>3 DEF TypeOK

-----------------------------------------------------------------------------
(* A search, step by step *)

\* The filter keeps of the messages in scope those the folder hints mean, and without the
\* text clauses and with a required folder no others.
LEMMA FilterMeaning ==
  ASSUME IInv, Steady, NEW m \in rows, InFolders(m), ~HintsLost,
         wanted = {Resolve(h, scope) : h \in query.folders}, scope = HintedAccounts,
         \/ Home[m] \in scope
         \/ Home[m] \in Owned /\ query.residual = {} /\ query.folders # {}
  PROVE Home[m] \in Owned /\ HasAccount(m) /\ HasFolders(m)
<1>1. /\ m \in Message /\ accounts = Account /\ places[m] \subseteq Folder /\ PlacesAtHome
      /\ query.folders \subseteq FolderHint /\ query.accounts \subseteq AccountHint
  BY QueriesAssumption DEF IInv, TypeOK, Steady, SameStores, Query
<1>2. \A h \in query.folders : (places[m] \cap Resolve(h, scope).folders # {}) # h.negated
  BY <1>1, FolderMeaning DEF InFolders
<1>3. Home[m] \in scope
  <2>1. CASE query.accounts = {}
    BY <2>1 DEF HintedAccounts
  <2>2. CASE query.accounts # {} /\ query.residual = {} /\ query.folders # {}
    <3>1. PICK h \in query.folders : ~h.negated
      BY <2>2 DEF HintsLost, ExcludeOnly
    <3>2. places[m] \cap Resolve(h, scope).folders # {}
      BY <1>1, <1>2, <3>1 DEF FolderHint
    <3>3. QED BY <1>1, <3>2, FolderMeaning
  <2>3. QED BY <2>1, <2>2
<1>4. HasFolders(m)
  <2>1. ASSUME NEW h \in query.folders
        PROVE (\E f \in places[m] : f \in Finds[h.needle]) # h.negated
    <3>1. h \in FolderHint /\ h.negated \in BOOLEAN
      BY <1>1, <2>1 DEF FolderHint
    <3>2. CASE places[m] \cap Resolve(h, scope).folders # {}
      BY <1>1, <1>2, <1>3, <2>1, <3>1, <3>2, FolderMeaning
    <3>3. CASE places[m] \cap Resolve(h, scope).folders = {}
      <4>1. h.negated
        BY <1>2, <2>1, <3>1, <3>3
      <4>2. ~ \E f \in places[m] : f \in Finds[h.needle]
        BY <1>1, <1>3, <3>1, <3>3, FolderMeaning
      <4>3. QED BY <3>1, <4>1, <4>2
    <3>4. QED BY <3>2, <3>3
  <2>2. QED BY <2>1 DEF HasFolders
<1>5. Home[m] \in Owned /\ HasAccount(m)
  BY <1>3 DEF HintedAccounts, HasAccount
<1>6. QED BY <1>4, <1>5

LEMMA ResolvingStep ==
  ASSUME IInv, Resolving PROVE HitsBelong' /\ StagesAnswer'
<1>1. PICK map \in NameMaps :
        LET s == ResolveScope(map)
        IN  /\ scope' = s
            /\ wanted' = IF s = {} THEN {} ELSE {Resolve(h, s) : h \in query.folders}
            /\ pc' = IF s = {} THEN "answered" ELSE "resolved"
  BY DEF Resolving
<1>2. /\ hits' = {}
      /\ UNCHANGED <<names, query, accounts, rows, docs, places, quiet>>
  BY DEF Resolving
<1>3. Steady => scope' = HintedAccounts
  BY <1>1, ScopeMeaning DEF IInv, Steady, SameStores
<1>4. QED
  BY <1>1, <1>2, <1>3
     DEF HitsBelong, StagesAnswer, Steady, HintedAccounts, Resolve

LEMMA ListFoldersStep ==
  ASSUME IInv, ListFolders PROVE HitsBelong' /\ StagesAnswer'
<1>1. /\ hits' \subseteq {m \in rows : Home[m] \in Owned /\ InFolders(m)}
      /\ pc = "resolved" /\ pc' = "answered" /\ FolderOnly
      /\ UNCHANGED <<names, query, accounts, rows, docs, places, quiet, scope, wanted>>
  BY DEF ListFolders, Slice
<1>2. HitsBelong'
  BY <1>1 DEF HitsBelong
<1>3. ASSUME Steady, ~HintsLost PROVE hits' \subseteq Answer
  <2>1. scope = HintedAccounts /\ wanted = {Resolve(h, scope) : h \in query.folders}
    BY <1>1, <1>3 DEF IInv, StagesAnswer
  <2>2. query.residual = {} /\ query.folders # {}
    BY <1>1, <2>1 DEF FolderOnly
  <2>3. \A m \in hits' : Home[m] \in Owned /\ HasAccount(m) /\ HasFolders(m)
    BY <1>1, <1>3, <2>1, <2>2, FilterMeaning
  <2>4. QED BY <1>1, <2>2, <2>3 DEF Answer, HasText
<1>4. StagesAnswer'
  BY <1>1, <1>3, SameMeaning DEF StagesAnswer
<1>5. QED BY <1>2, <1>4

LEMMA ExecuteStep ==
  ASSUME IInv, Execute PROVE HitsBelong' /\ StagesAnswer'
<1>1. /\ hits' \subseteq {m \in docs : Compiled(m)}
      /\ pc = "resolved" /\ pc' = "executed"
      /\ UNCHANGED <<names, query, accounts, rows, docs, places, quiet, scope, wanted>>
  BY DEF Execute, Slice
<1>2. HitsBelong'
  BY <1>1 DEF HitsBelong, Compiled, IInv, TypeOK
<1>3. Steady => hits' \subseteq {m \in rows : Compiled(m)}
  BY <1>1 DEF IInv, SameStores, Steady
<1>4. QED
  BY <1>1, <1>2, <1>3
     DEF IInv, StagesAnswer, Steady, HintedAccounts, Resolve, Compiled, Matches

LEMMA PostFilterStep ==
  ASSUME IInv, PostFilter PROVE HitsBelong' /\ StagesAnswer'
<1>1. /\ hits' \subseteq {m \in hits : InFolders(m)}
      /\ pc = "executed" /\ pc' = "answered"
      /\ UNCHANGED <<names, query, accounts, rows, docs, places, quiet, scope, wanted>>
  BY DEF PostFilter, Slice
<1>2. HitsBelong'
  BY <1>1 DEF HitsBelong, IInv
<1>3. ASSUME Steady, ~HintsLost PROVE hits' \subseteq Answer
  <2>1. /\ scope = HintedAccounts /\ wanted = {Resolve(h, scope) : h \in query.folders}
        /\ hits \subseteq {m \in rows : Compiled(m)}
    BY <1>1, <1>3 DEF IInv, StagesAnswer
  <2>2. \A m \in hits' : m \in rows /\ Compiled(m) /\ InFolders(m)
    BY <1>1, <2>1
  <2>3. \A m \in hits' : Home[m] \in Owned /\ HasAccount(m) /\ HasFolders(m)
    BY <1>3, <2>1, <2>2, FilterMeaning DEF Compiled
  <2>4. ASSUME NEW m \in hits' PROVE HasText(m)
    <3>1. m \in Message /\ query.residual \subseteq Clause
      BY <2>2, QueriesAssumption DEF IInv, TypeOK, Query
    <3>2. QED BY <2>2, <3>1, ClauseMeaning DEF Compiled, HasText
  <2>5. QED BY <2>2, <2>3, <2>4 DEF Answer
<1>4. StagesAnswer'
  BY <1>1, <1>3, SameMeaning DEF StagesAnswer
<1>5. QED BY <1>2, <1>4

LEMMA ShowStep ==
  ASSUME IInv, Show PROVE HitsBelong' /\ StagesAnswer' /\ RowsAnswer'
<1>1. /\ pages' = Append(pages, {m \in hits \cap rows : Home[m] \in Owned \cap accounts})
      /\ pc = "answered" /\ pc' = "idle" /\ hits' = hits
      /\ UNCHANGED <<names, query, accounts, rows, docs, places, quiet>>
  BY DEF Show
<1>2. HitsBelong' /\ StagesAnswer'
  BY <1>1 DEF IInv, HitsBelong, StagesAnswer
<1>3. ASSUME Steady, ~HintsLost PROVE \A i \in 1..Len(pages') : pages'[i] \subseteq Answer
  <2>1. hits \subseteq Answer /\ \A i \in 1..Len(pages) : pages[i] \subseteq Answer
    BY <1>1, <1>3 DEF IInv, StagesAnswer, RowsAnswer
  <2>2. pages \in Seq(SUBSET Message)
    BY DEF IInv, TypeOK
  <2>3. QED BY <1>1, <2>1, <2>2
<1>4. RowsAnswer'
  BY <1>1, <1>3, SameMeaning DEF RowsAnswer
<1>5. QED BY <1>2, <1>4

-----------------------------------------------------------------------------

\* The inductive invariant holds in every reachable state, of searches and of the stores
\* that change between their transactions.
THEOREM Invariance == Spec => []IInv
<1>1. IInv /\ [Next]_vars => IInv'
  <2> SUFFICES ASSUME IInv, [Next]_vars PROVE IInv'
    OBVIOUS
  <2>1. CASE UNCHANGED vars
    <3>1. TypeOK' /\ HitsBelong' /\ PlacesAtHome' /\ SameStores'
      BY <2>1 DEF vars, IInv, TypeOK, HitsBelong, PlacesAtHome, SameStores
    <3>2. RowsAnswer'
      BY <2>1, SameMeaning DEF vars, IInv, RowsAnswer
    <3>3. StagesAnswer'
      <4>1. \A m : Compiled(m)' <=> Compiled(m)
        BY <2>1 DEF vars, Compiled, Matches
      <4>2. {Resolve(h, scope) : h \in query.folders}' = {Resolve(h, scope) : h \in query.folders}
        BY <2>1 DEF vars, Resolve
      <4>3. QED BY <2>1, <4>1, <4>2, SameMeaning DEF vars, IInv, StagesAnswer
    <3>4. QED BY <3>1, <3>2, <3>3 DEF IInv
  <2>2. CASE Changes
    BY <2>2, ChangesType
       DEF IInv, HitsBelong, SameStores, StagesAnswer, RowsAnswer, Steady
  <2>3. CASE Searches
    <3>1. TypeOK' /\ UNCHANGED <<names, query, quiet>>
      BY <2>3, SearchesType DEF IInv
    <3>2. UNCHANGED <<accounts, rows, docs, places>>
      BY <2>3 DEF Searches, Resolving, ListFolders, Execute, PostFilter, Show
    <3>3. PlacesAtHome' /\ SameStores'
      BY <3>1, <3>2 DEF IInv, PlacesAtHome, SameStores
    <3>4. HitsBelong' /\ StagesAnswer'
      BY <2>3, ResolvingStep, ListFoldersStep, ExecuteStep, PostFilterStep, ShowStep DEF Searches
    <3>5. RowsAnswer'
      <4>1. CASE Show
        BY <4>1, ShowStep
      <4>2. CASE UNCHANGED pages
        BY <3>1, <3>2, <4>2, SameMeaning DEF IInv, RowsAnswer
      <4>3. QED
        BY <2>3, <4>1, <4>2 DEF Searches, Resolving, ListFolders, Execute, PostFilter
    <3>6. QED BY <3>1, <3>3, <3>4, <3>5 DEF IInv
  <2>4. QED BY <2>1, <2>2, <2>3, NextParts
<1>2. QED BY <1>1, InitIInv, PTL DEF Spec

\* Every variable keeps its type, and the scope of a search is of the user's accounts.
THEOREM TypeCorrect == Spec => []TypeOK
<1>1. IInv => TypeOK BY DEF IInv
<1>2. QED BY <1>1, Invariance, PTL

\* Whatever happens meanwhile, a search finds the user's own mail only
\* (search/src/service.rs:3-8).
THEOREM OwnMailOnly == Spec => []HitsBelong
<1>1. IInv => HitsBelong BY DEF IInv
<1>2. QED BY <1>1, Invariance, PTL

\* Every row of every page answers the query, whether it was listed by folder or found in
\* the index (SearchServiceImpl::search).
THEOREM RowsAreAnswers == Spec => []RowsAnswer
<1>1. IInv => RowsAnswer BY DEF IInv
<1>2. QED BY <1>1, Invariance, PTL

\* The account hints of a query hold of every row shown, but for the one kind of query
\* whose folder-only path drops them (service.rs:345): all its clauses besides them exclude
\* folders.
THEOREM HintsHoldOtherwise == Spec => [](~HintsLost => HintsHold)
<1>1. RowsAnswer => (~HintsLost => HintsHold)
  BY DEF RowsAnswer, HintsHold, Answer
<1>2. QED BY <1>1, RowsAreAnswers, PTL

-----------------------------------------------------------------------------
(* Ranks and cuts of a finite ordered set *)

Strict(R, S) ==
    /\ \A x \in S : <<x, x>> \notin R
    /\ \A x, y, z \in S : <<x, y>> \in R /\ <<y, z>> \in R => <<x, z>> \in R
    /\ \A x, y \in S : x = y \/ <<x, y>> \in R \/ <<y, x>> \in R

Below(A, R, m) == {n \in A : <<n, m>> \in R}
RankIn(A, R, m) == Cardinality(Below(A, R, m))
Cut(A, R, from, to) == {m \in A : RankIn(A, R, m) \in from .. (to - 1)}
Closed(B, A, R) == B \subseteq A /\ \A m \in B : \A n \in A : <<n, m>> \in R => n \in B

\* Ranks are the numbers below the size of the set.
LEMMA RankType ==
  ASSUME NEW A, IsFiniteSet(A), NEW R, Strict(R, A), NEW m \in A
  PROVE  /\ IsFiniteSet(Below(A, R, m)) /\ Cardinality(A) \in Nat
         /\ RankIn(A, R, m) \in 0 .. (Cardinality(A) - 1)
<1>1. Below(A, R, m) \in SUBSET (A \ {m})
  BY DEF Below, Strict
<1>2. IsFiniteSet(A \ {m}) /\ Cardinality(A \ {m}) = Cardinality(A) - 1
  BY FS_RemoveElement
<1>3. IsFiniteSet(Below(A, R, m)) /\ Cardinality(Below(A, R, m)) <= Cardinality(A \ {m})
  BY <1>1, <1>2, FS_Subset
<1>4. Cardinality(A) \in Nat /\ Cardinality(Below(A, R, m)) \in Nat
  BY <1>3, FS_CardinalityType
<1>5. QED BY <1>2, <1>3, <1>4 DEF RankIn

\* A later member has a higher rank.
LEMMA RankGrows ==
  ASSUME NEW A, IsFiniteSet(A), NEW R, Strict(R, A), NEW m \in A, NEW n \in A, <<m, n>> \in R
  PROVE  RankIn(A, R, m) < RankIn(A, R, n)
<1>1. /\ IsFiniteSet(Below(A, R, m)) /\ IsFiniteSet(Below(A, R, n))
      /\ RankIn(A, R, m) \in Nat /\ RankIn(A, R, n) \in Nat
  BY RankType
<1>2. Below(A, R, m) \cup {m} \in SUBSET Below(A, R, n) /\ m \notin Below(A, R, m)
  BY DEF Below, Strict
<1>3. Cardinality(Below(A, R, m) \cup {m}) = Cardinality(Below(A, R, m)) + 1
  BY <1>1, <1>2, FS_AddElement
<1>4. Cardinality(Below(A, R, m) \cup {m}) <= Cardinality(Below(A, R, n))
  BY <1>1, <1>2, FS_Subset
<1>5. QED BY <1>1, <1>3, <1>4 DEF RankIn

\* Ranks tell members apart, and in their order.
LEMMA RankOrders ==
  ASSUME NEW A, IsFiniteSet(A), NEW R, Strict(R, A), NEW m \in A, NEW n \in A
  PROVE  /\ RankIn(A, R, m) = RankIn(A, R, n) => m = n
         /\ RankIn(A, R, m) < RankIn(A, R, n) => <<m, n>> \in R
<1>1. RankIn(A, R, m) \in Nat /\ RankIn(A, R, n) \in Nat
  BY RankType
<1>2. m = n \/ <<m, n>> \in R \/ <<n, m>> \in R
  BY DEF Strict
<1>3. CASE m = n
  BY <1>1, <1>3
<1>4. CASE <<m, n>> \in R
  BY <1>1, <1>4, RankGrows
<1>5. CASE <<n, m>> \in R
  BY <1>1, <1>5, RankGrows
<1>6. QED BY <1>2, <1>3, <1>4, <1>5

\* Every number below the size is the rank of a member.
LEMMA RankOnto ==
  ASSUME NEW A, IsFiniteSet(A), NEW R, Strict(R, A)
  PROVE  \A k \in 0 .. (Cardinality(A) - 1) : \E m \in A : RankIn(A, R, m) = k
<1> DEFINE N == Cardinality(A)
           T == 0 .. (N - 1)
           f == [m \in A |-> RankIn(A, R, m)]
<1>1. N \in Nat
  BY FS_CardinalityType
<1>2. IsFiniteSet(T) /\ Cardinality(T) = N
  BY <1>1, FS_Interval
<1>3. f \in [A -> T]
  BY RankType
<1>4. \A m, n \in A : f[m] = f[n] => m = n
  BY RankOrders
<1>5. f \in Injection(A, T)
  BY <1>3, <1>4 DEF Injection, IsInjective
<1>6. f \in Surjection(A, T)
  BY <1>2, <1>5, FS_Injection
<1>7. \A k \in T : \E m \in A : f[m] = k
  BY <1>6 DEF Surjection
<1>8. QED BY <1>7

\* A cut has as many members as ranks.
LEMMA CutSize ==
  ASSUME NEW A, IsFiniteSet(A), NEW R, Strict(R, A), NEW from \in Nat, NEW to \in Nat,
         from <= to, to <= Cardinality(A)
  PROVE  Cardinality(Cut(A, R, from, to)) = to - from
<1> DEFINE S == Cut(A, R, from, to)
           T == from .. (to - 1)
           f == [m \in S |-> RankIn(A, R, m)]
<1>1. IsFiniteSet(T) /\ Cardinality(T) = to - from
  <2>1. from \in Int /\ to - 1 \in Int
    OBVIOUS
  <2>2. /\ IsFiniteSet(from .. (to - 1))
        /\ Cardinality(from .. (to - 1)) = IF from > to - 1 THEN 0 ELSE (to - 1) - from + 1
    BY <2>1, FS_Interval
  <2>3. QED BY <2>2
<1>2. f \in [S -> T]
  BY DEF Cut
<1>3. \A m, n \in S : f[m] = f[n] => m = n
  BY RankOrders DEF Cut
<1>4. f \in Injection(S, T)
  BY <1>2, <1>3 DEF Injection, IsInjective
<1>5. ASSUME NEW k \in T PROVE \E m \in S : f[m] = k
  <2>1. Cardinality(A) \in Nat
    BY FS_CardinalityType
  <2>2. PICK m \in A : RankIn(A, R, m) = k
    BY <2>1, RankOnto
  <2>3. m \in S
    BY <2>2 DEF Cut
  <2>4. QED BY <2>2, <2>3
<1>6. f \in Surjection(S, T)
  BY <1>2, <1>5 DEF Surjection
<1>7. Cardinality(S) = Cardinality(T)
  BY <1>1, <1>4, <1>6, FS_Injection
<1>8. QED BY <1>1, <1>7

\* Two cuts that meet are one.
LEMMA CutsJoin ==
  ASSUME NEW A, IsFiniteSet(A), NEW R, Strict(R, A), NEW k \in Nat, NEW l \in Nat, k <= l
  PROVE  Cut(A, R, 0, k) \cup Cut(A, R, k, l) = Cut(A, R, 0, l)
<1>1. \A m \in A : RankIn(A, R, m) \in Nat
  BY RankType
<1>2. QED BY <1>1 DEF Cut

\* What is closed under predecessors is a cut from the beginning, and its members keep
\* their ranks.
LEMMA ClosedIsCut ==
  ASSUME NEW A, IsFiniteSet(A), NEW R, Strict(R, A), NEW B, Closed(B, A, R)
  PROVE  /\ IsFiniteSet(B) /\ Cardinality(B) \in Nat /\ Cardinality(B) <= Cardinality(A)
         /\ \A m \in B : RankIn(B, R, m) = RankIn(A, R, m)
         /\ B = Cut(A, R, 0, Cardinality(B))
<1>1. B \in SUBSET A /\ Strict(R, B)
  BY DEF Closed, Strict
<1>2. IsFiniteSet(B) /\ Cardinality(B) \in Nat /\ Cardinality(B) <= Cardinality(A)
  BY <1>1, FS_Subset, FS_CardinalityType
<1>3. ASSUME NEW m \in B PROVE RankIn(B, R, m) = RankIn(A, R, m)
  <2>1. Below(B, R, m) = Below(A, R, m)
    BY <1>1 DEF Below, Closed
  <2>2. QED BY <2>1 DEF RankIn
<1>4. ASSUME NEW m \in B PROVE m \in Cut(A, R, 0, Cardinality(B))
  <2>1. RankIn(B, R, m) \in 0 .. (Cardinality(B) - 1)
    BY <1>1, <1>2, RankType
  <2>2. QED BY <1>1, <1>3, <2>1 DEF Cut
<1>5. ASSUME NEW m \in Cut(A, R, 0, Cardinality(B)) PROVE m \in B
  <2>1. m \in A /\ RankIn(A, R, m) \in 0 .. (Cardinality(B) - 1)
    BY DEF Cut
  <2>2. PICK n \in B : RankIn(B, R, n) = RankIn(A, R, m)
    BY <1>1, <1>2, <2>1, RankOnto
  <2>3. n = m
    BY <1>1, <1>3, <2>1, <2>2, RankOrders
  <2>4. QED BY <2>3
<1>6. QED BY <1>2, <1>3, <1>4, <1>5

LEMMA CutClosed ==
  ASSUME NEW A, IsFiniteSet(A), NEW R, Strict(R, A), NEW to \in Nat
  PROVE  Closed(Cut(A, R, 0, to), A, R)
<1>1. ASSUME NEW m \in Cut(A, R, 0, to), NEW n \in A, <<n, m>> \in R
      PROVE  n \in Cut(A, R, 0, to)
  <2>1. m \in A /\ RankIn(A, R, m) < to /\ RankIn(A, R, m) \in Nat
    BY RankType DEF Cut
  <2>2. RankIn(A, R, n) < RankIn(A, R, m) /\ RankIn(A, R, n) \in Nat
    BY <1>1, <2>1, RankGrows, RankType
  <2>3. QED BY <2>1, <2>2 DEF Cut
<1>2. QED BY <1>1 DEF Closed, Cut

\* A page cut out of a beginning B of the list A, at a cursor within A: it is a segment of
\* A, not longer than a page, and full unless B ends in it.
LEMMA PageIsSegment ==
  ASSUME NEW A, IsFiniteSet(A), NEW R, Strict(R, A), NEW B, Closed(B, A, R),
         NEW from \in Nat, from <= Cardinality(A), NEW size \in Nat
  PROVE  LET page == Cut(B, R, from, from + size)
             k == Cardinality(page)
         IN  /\ k \in Nat
             /\ page = Cut(A, R, from, from + k)
             /\ from + k <= Cardinality(A)
             /\ k >= size \/ from + k >= Cardinality(B)
<1> DEFINE b == Cardinality(B)
           last == IF b < from THEN from ELSE IF b < from + size THEN b ELSE from + size
           page == Cut(B, R, from, from + size)
<1>1. /\ b \in Nat /\ b <= Cardinality(A) /\ Cardinality(A) \in Nat
      /\ \A m \in B : RankIn(B, R, m) = RankIn(A, R, m)
      /\ B = Cut(A, R, 0, b)
  BY ClosedIsCut, FS_CardinalityType
<1>2. last \in Nat /\ from <= last /\ last <= Cardinality(A) /\ last <= from + size
      /\ (last = from + size \/ last >= b) /\ (last <= b \/ last = from)
  BY <1>1
<1>3. \A m \in A : RankIn(A, R, m) \in Nat
  BY RankType
<1>4. \A m \in A : m \in B <=> RankIn(A, R, m) < b
  BY <1>1, <1>3 DEF Cut
<1>5. page = Cut(A, R, from, last)
  <2>1. \A m : m \in page <=> m \in A /\ RankIn(A, R, m) < b /\ from <= RankIn(A, R, m)
                               /\ RankIn(A, R, m) < from + size
    BY <1>1, <1>3, <1>4 DEF Cut, Closed
  <2>2. \A m : m \in Cut(A, R, from, last) <=> m \in A /\ from <= RankIn(A, R, m)
                               /\ RankIn(A, R, m) < last
    BY <1>2, <1>3 DEF Cut
  <2> HIDE DEF page
  <2>3. QED BY <1>1, <1>3, <2>1, <2>2
<1>6. Cardinality(page) = last - from
  <2> HIDE DEF page, last
  <2>1. QED BY <1>2, <1>5, CutSize
<1>7. QED BY <1>1, <1>2, <1>5, <1>6

-----------------------------------------------------------------------------
(* The two orders of a list *)

RowOrder == {p \in Message \X Message : RowBefore(p[1], p[2])}
DocOrder == {p \in Message \X Message : DocBefore(p[1], p[2])}

\* Both orders are total: ties of the date are broken by the id or by the address.
LEMMA OrdersAreStrict ==
  ASSUME NEW S \in SUBSET Message
  PROVE  IsFiniteSet(S) /\ Strict(RowOrder, S) /\ Strict(DocOrder, S)
<1>1. IsFiniteSet(S)
  BY MessageAssumption, FS_Subset
<1>2. \A m, n \in S : /\ <<m, n>> \in RowOrder <=> RowBefore(m, n)
                      /\ <<m, n>> \in DocOrder <=> DocBefore(m, n)
  BY DEF RowOrder, DocOrder
<1>3. /\ \A m \in S : m \in Nat /\ Address[m] \in Nat /\ (Sent[m] = Undated \/ Sent[m] \in Nat)
      /\ \A m, n \in S : Address[m] = Address[n] => m = n
      /\ Undated \notin Nat
  BY MessageAssumption
<1>4. Strict(RowOrder, S)
  BY <1>2, <1>3 DEF Strict, RowBefore, Before, ById
<1>5. Strict(DocOrder, S)
  BY <1>2, <1>3 DEF Strict, DocBefore, Before, ByAddress
<1>6. QED BY <1>1, <1>4, <1>5

LEMMA SliceIsCut ==
  ASSUME NEW S \in SUBSET Message, NEW from, NEW to
  PROVE  /\ Slice(S, RowBefore, from, to) = Cut(S, RowOrder, from, to)
         /\ Slice(S, DocBefore, from, to) = Cut(S, DocOrder, from, to)
<1>1. ASSUME NEW m \in S
      PROVE  /\ {n \in S : RowBefore(n, m)} = Below(S, RowOrder, m)
             /\ {n \in S : DocBefore(n, m)} = Below(S, DocOrder, m)
  BY DEF Below, RowOrder, DocOrder
<1>2. QED BY <1>1 DEF Slice, Cut, RankIn

\* The order of the list that is paged.
ListOrder == IF FolderListing THEN RowOrder ELSE DocOrder

LEMMA SegmentIsCut ==
  ASSUME TypeOK, NEW from, NEW to
  PROVE  /\ List \in SUBSET Message /\ IsFiniteSet(List) /\ Strict(ListOrder, List)
         /\ Segment(from, to) = Cut(List, ListOrder, from, to)
<1>1. List \in SUBSET Message
  BY DEF List, Answer, TypeOK
<1>2. QED BY <1>1, OrdersAreStrict, SliceIsCut DEF Segment, ListOrder

-----------------------------------------------------------------------------
(* The list and the answer *)

\* A required group without folders is met by no message, so the early returns of search
\* change nothing.
LEMMA UnsatisfiableMeaning ==
  ASSUME TypeOK, Unsatisfiable, NEW m PROVE ~InFolders(m)
<1>1. PICK w \in wanted : ~w.negated /\ w.folders = {}
  BY DEF Unsatisfiable
<1>2. w.negated = FALSE
  BY <1>1 DEF TypeOK
<1>3. QED BY <1>1, <1>2 DEF InFolders

Resolved == scope = HintedAccounts /\ wanted = {Resolve(h, scope) : h \in query.folders}

LEMMA InFoldersMeaning ==
  ASSUME Resolved, NEW m
  PROVE  InFolders(m) <=>
           \A h \in query.folders : (places[m] \cap Resolve(h, scope).folders # {}) # h.negated
<1>1. \A h : Resolve(h, scope).negated = h.negated
  BY DEF Resolve
<1>2. wanted = {Resolve(h, scope) : h \in query.folders}
  BY DEF Resolved
<1>3. QED BY <1>1, <1>2 DEF InFolders

LEMMA ListMeaning ==
  ASSUME Resolved, FolderListing
  PROVE  List = {m \in rows : Home[m] \in Owned /\ InFolders(m)}
BY InFoldersMeaning DEF List, Resolved

\* Of a message in scope, the folders found for a hint say what the hint says.
LEMMA HintMeaning ==
  ASSUME IInv, Steady, NEW m \in rows, Home[m] \in HintedAccounts, NEW h \in query.folders
  PROVE  (places[m] \cap Resolve(h, HintedAccounts).folders # {}) # h.negated
           <=> (\E f \in places[m] : f \in Finds[h.needle]) # h.negated
<1>1. /\ accounts = Account /\ PlacesAtHome /\ m \in Message /\ places[m] \subseteq Folder
      /\ h \in FolderHint /\ h.negated \in BOOLEAN
  BY QueriesAssumption DEF IInv, TypeOK, Steady, SameStores, Query, FolderHint
<1>2. places[m] \cap Resolve(h, HintedAccounts).folders # {}
        <=> \E f \in places[m] : f \in Finds[h.needle]
  BY <1>1, FolderMeaning
<1>3. /\ (places[m] \cap Resolve(h, HintedAccounts).folders # {}) \in BOOLEAN
      /\ (\E f \in places[m] : f \in Finds[h.needle]) \in BOOLEAN
  OBVIOUS
<1>4. QED BY <1>1, <1>2, <1>3

\* The scope, the clauses and the folder filter together are the query.
LEMMA AnswerMeaning ==
  ASSUME IInv, Steady, Resolved
  PROVE  Answer = {m \in rows : Compiled(m) /\ InFolders(m)}
<1>1. ASSUME NEW m \in rows
      PROVE  Compiled(m) <=> Home[m] \in Owned /\ HasAccount(m) /\ HasText(m)
  <2>1. m \in Message /\ query.residual \subseteq Clause
    BY QueriesAssumption DEF IInv, TypeOK, Query
  <2>2. \A c \in query.residual : Matches(m, c) <=> (SaidOf(m, c) # c.negated)
    BY <2>1, ClauseMeaning
  <2>3. QED BY <2>2 DEF Compiled, Resolved, HintedAccounts, HasAccount, HasText
<1>2. ASSUME NEW m \in rows, Home[m] \in HintedAccounts
      PROVE  InFolders(m) <=> HasFolders(m)
  BY <1>2, InFoldersMeaning, HintMeaning DEF HasFolders, Resolved
<1>3. \A m \in rows : Compiled(m) => Home[m] \in HintedAccounts
  BY DEF Compiled, Resolved
<1>4. QED BY <1>1, <1>2, <1>3 DEF Answer

\* With account hints that count, the folder-only path lists the answer.
LEMMA ListIsAnswer ==
  ASSUME IInv, Steady, ~HintsLost
  PROVE  List = Answer
<1>1. CASE ~FolderListing
  BY <1>1 DEF List
<1>2. CASE FolderListing
  <2>1. List = {m \in rows : Home[m] \in Owned /\ \A h \in query.folders :
                  (places[m] \cap Resolve(h, HintedAccounts).folders # {}) # h.negated}
    BY <1>2 DEF List
  <2>2. ASSUME NEW m \in List PROVE Home[m] \in HintedAccounts
    <3>1. CASE query.accounts = {}
      BY <2>1, <3>1 DEF HintedAccounts
    <3>2. CASE query.accounts # {}
      <4>1. PICK h \in query.folders : ~h.negated
        BY <1>2, <3>2 DEF HintsLost, ExcludeOnly, FolderListing
      <4>2. /\ accounts = Account /\ PlacesAtHome /\ m \in Message /\ places[m] \subseteq Folder
            /\ h \in FolderHint /\ h.negated \in BOOLEAN
        BY <2>1, QueriesAssumption DEF IInv, TypeOK, Steady, SameStores, Query, FolderHint
      <4>3. places[m] \cap Resolve(h, HintedAccounts).folders # {}
        BY <2>1, <4>1, <4>2
      <4>4. QED BY <4>2, <4>3, FolderMeaning
    <3>3. QED BY <3>1, <3>2
  <2>3. ASSUME NEW m \in rows, Home[m] \in HintedAccounts
        PROVE  HasFolders(m) <=> \A h \in query.folders :
                 (places[m] \cap Resolve(h, HintedAccounts).folders # {}) # h.negated
    BY <2>3, HintMeaning DEF HasFolders
  <2>4. \A m \in rows : Home[m] \in HintedAccounts <=> Home[m] \in Owned /\ HasAccount(m)
    BY DEF HintedAccounts, HasAccount
  <2>5. \A m \in rows : HasText(m)
    BY <1>2 DEF FolderListing, HasText
  <2>6. Answer = {m \in rows : Home[m] \in HintedAccounts /\ HasFolders(m)}
    BY <2>4, <2>5 DEF Answer
  <2>7. HintedAccounts \subseteq Owned
    BY DEF HintedAccounts
  <2>8. QED BY <2>1, <2>2, <2>3, <2>6, <2>7
<1>3. QED BY <1>1, <1>2

\* The list and its segments change with the stores and the query only.
LEMMA SameList ==
  ASSUME UNCHANGED <<names, query, accounts, rows, docs, places, quiet>>
  PROVE  /\ List' = List /\ (FolderListing' <=> FolderListing) /\ Reach' = Reach
         /\ \A from, to : Segment(from, to)' = Segment(from, to)
<1>1. FolderListing' <=> FolderListing
  BY DEF FolderListing
<1>2. Answer' = Answer /\ HintedAccounts' = HintedAccounts
  BY SameMeaning
<1>3. List' = List
  BY <1>1, <1>2 DEF List, Resolve
<1>4. \A from, to : Segment(from, to)' = Segment(from, to)
  BY <1>1, <1>3 DEF Segment
<1>5. QED BY <1>1, <1>3, <1>4 DEF Reach

-----------------------------------------------------------------------------
(* The pages, step by step *)

\* The part of the invariant about the pages that have been shown.
Shown == Ordered /\ Exhausted /\ PagesSoFar

\* Until the next page is shown, nothing changes for those before it.
LEMMA ShownKept ==
  ASSUME Shown, ~ended,
         UNCHANGED <<names, query, accounts, rows, docs, places, quiet, client>>
  PROVE  Shown'
<1>1. pages' = pages /\ offset' = offset /\ ended' = ended /\ query' = query
  OBVIOUS
<1>2. Ordered'
  BY <1>1 DEF Shown, Ordered
<1>3. Exhausted'
  BY <1>1 DEF Exhausted
<1>4. PagesSoFar'
  BY <1>1, SameList DEF Shown, PagesSoFar
<1>5. QED BY <1>2, <1>3, <1>4 DEF Shown

LEMMA ResolvingPages ==
  ASSUME IInv, PagesInv, Steady, Resolving
  PROVE  Shown' /\ Totals' /\ StagesPage'
<1>1. PICK map \in NameMaps :
        LET s == ResolveScope(map)
        IN  /\ scope' = s
            /\ wanted' = IF s = {} THEN {} ELSE {Resolve(h, s) : h \in query.folders}
            /\ pc' = IF s = {} THEN "answered" ELSE "resolved"
  BY DEF Resolving
<1>2. /\ hits' = {} /\ total' = 0 /\ ~ended
      /\ UNCHANGED <<names, query, accounts, rows, docs, places, quiet, client>>
  BY DEF Resolving
<1>3. Shown'
  BY <1>2, ShownKept DEF PagesInv, PagesPartition, Shown
<1>4. CASE pc' = "resolved"
  BY <1>3, <1>4 DEF Totals, StagesPage
<1>5. CASE pc' = "answered"
  <2>1. HintedAccounts = {}
    BY <1>1, <1>5, ScopeMeaning DEF IInv, Steady, SameStores
  <2>2. Answer = {}
    BY <2>1 DEF Answer, HintedAccounts, HasAccount
  <2>3. Totals'
    BY <1>2, <2>2, SameMeaning, FS_EmptySet DEF Totals
  <2>4. offset \in Nat /\ offset <= Cardinality(List)
    BY DEF IInv, TypeOK, PagesInv, PagesSoFar
  <2>5. Segment(offset, offset) = {}
    BY <2>4 DEF Segment, Slice
  <2>6. ~HintsLost => offset = Cardinality(List)
    BY <2>2, <2>4, ListIsAnswer, FS_EmptySet
  <2>7. StagesPage'
    BY <1>2, <1>5, <2>4, <2>5, <2>6, SameList, SameMeaning, FS_EmptySet DEF StagesPage, ReachesEnd
  <2>8. QED BY <1>3, <2>3, <2>7
<1>6. QED BY <1>1, <1>4, <1>5

LEMMA ListFoldersPages ==
  ASSUME IInv, PagesInv, Steady, ListFolders
  PROVE  Shown' /\ Totals' /\ StagesPage'
<1> DEFINE found == IF Unsatisfiable THEN {}
                    ELSE {m \in rows : Home[m] \in Owned \cap accounts /\ InFolders(m)}
<1>1. /\ pc = "resolved" /\ pc' = "answered" /\ FolderOnly
      /\ total' = Cardinality(found) /\ hits' = Slice(found, RowBefore, offset, offset + PageSize)
      /\ UNCHANGED <<names, query, accounts, rows, docs, places, quiet, client, scope>>
  BY DEF ListFolders
<1>2. Resolved
  BY <1>1 DEF IInv, StagesAnswer, Resolved
<1>3. FolderListing
  BY <1>1, <1>2 DEF FolderOnly, FolderListing, Resolved
<1>4. /\ offset \in Nat /\ offset <= Cardinality(List) /\ ~ended
      /\ List \in SUBSET Message /\ IsFiniteSet(List) /\ Strict(RowOrder, List)
      /\ \A from, to : Segment(from, to) = Cut(List, RowOrder, from, to)
  BY <1>1, <1>3, SegmentIsCut DEF IInv, TypeOK, PagesInv, PagesSoFar, ListOrder
<1>5. found = List
  <2>1. accounts = Account /\ Owned \subseteq accounts
    BY OwnedAssumption DEF IInv, SameStores, Steady
  <2>2. Unsatisfiable => \A m : ~InFolders(m)
    BY UnsatisfiableMeaning DEF IInv
  <2>3. QED BY <1>2, <1>3, <2>1, <2>2, ListMeaning
<1>6. hits' = Cut(List, RowOrder, offset, offset + PageSize)
  BY <1>1, <1>4, <1>5, SliceIsCut
<1>7. /\ hits' = Segment(offset, offset + Cardinality(hits'))
      /\ offset + Cardinality(hits') <= Cardinality(List)
      /\ Cardinality(hits') >= PageSize \/ offset + Cardinality(hits') = Cardinality(List)
  <2>1. Closed(List, List, RowOrder) /\ PageSize \in Nat /\ Cardinality(List) \in Nat
    BY <1>4, NumbersAssumption, FS_CardinalityType DEF Closed
  <2> DEFINE page == Cut(List, RowOrder, offset, offset + PageSize)
  <2>2. /\ Cardinality(page) \in Nat
        /\ page = Cut(List, RowOrder, offset, offset + Cardinality(page))
        /\ offset + Cardinality(page) <= Cardinality(List)
        /\ Cardinality(page) >= PageSize \/ offset + Cardinality(page) >= Cardinality(List)
    BY <1>4, <2>1, PageIsSegment
  <2>3. hits' = page
    BY <1>6
  <2> HIDE DEF found, page
  <2>4. QED BY <1>4, <2>1, <2>2, <2>3
<1>8. Shown'
  BY <1>1, <1>4, ShownKept DEF PagesInv, PagesPartition, Shown
<1>9. Totals'
  BY <1>1, <1>3, <1>5, ListIsAnswer, SameMeaning DEF Totals, FolderListing
<1>10. StagesPage'
  BY <1>1, <1>7, SameList DEF StagesPage
<1>11. QED BY <1>8, <1>9, <1>10

LEMMA ExecutePages ==
  ASSUME IInv, PagesInv, Steady, Execute
  PROVE  Shown' /\ Totals' /\ StagesPage'
<1>1. /\ pc = "resolved" /\ pc' = "executed" /\ ~FolderOnly
      /\ total' = Cardinality({m \in docs : Compiled(m)})
      /\ hits' = Slice({m \in docs : Compiled(m)}, DocBefore, 0, Fetched)
      /\ UNCHANGED <<names, query, accounts, rows, docs, places, quiet, client, scope, wanted>>
  BY DEF Execute
<1>2. ~ended
  BY <1>1 DEF PagesInv, PagesSoFar
<1>3. Shown'
  BY <1>1, <1>2, ShownKept DEF PagesInv, PagesPartition, Shown
<1>4. ~FolderListing
  BY <1>1 DEF FolderListing, FolderOnly, IInv, StagesAnswer
<1>5. /\ \A m : Compiled(m)' <=> Compiled(m)
      /\ Fetched' = Fetched /\ rows' = docs
  BY <1>1 DEF Compiled, Matches, Fetched, IInv, SameStores, Steady
<1>6. StagesPage'
  BY <1>1, <1>4, <1>5, SameList DEF StagesPage
<1>7. Totals'
  BY <1>1 DEF Totals
<1>8. QED BY <1>3, <1>6, <1>7

\* With folder hints an answer is fetched from the beginning, at least as far as a search is
\* sure to reach.
LEMMA FetchedReaches ==
  ASSUME offset \in Nat, wanted = {} <=> query.folders = {}
  PROVE  /\ Fetched \in Nat
         /\ query.folders # {} => Fetched >= Reach
         /\ query.folders = {} => Fetched = offset + PageSize \/ Fetched = Reach
<1>1. (offset + PageSize) * Overfetch \in Nat /\ PageSize * Overfetch \in Nat
      /\ (offset + PageSize) * Overfetch = offset * Overfetch + PageSize * Overfetch
      /\ offset * Overfetch \in Nat
  BY NumbersAssumption
<1>2. (offset + PageSize) * Overfetch >= PageSize * Overfetch
  BY <1>1
<1>3. MaxFetch \in Nat /\ offset + PageSize \in Nat
  BY NumbersAssumption
<1>4. QED BY <1>1, <1>2, <1>3 DEF Fetched, Reach

\* The folder filter keeps a beginning of the list, and all of it when all was fetched.
LEMMA KeptIsClosed ==
  ASSUME IInv, PagesInv, Steady, Resolved, pc = "executed",
         NEW kept, kept = {m \in hits : InFolders(m)}
  PROVE  LET found == {m \in rows : Compiled(m)}
         IN  /\ List \in SUBSET found /\ found \in SUBSET Message /\ List = Answer
             /\ hits = Cut(found, DocOrder, 0, Fetched)
             /\ Closed(kept, List, DocOrder)
             /\ Fetched >= Cardinality(found) => kept = List
             /\ query.folders = {} => kept = hits /\ List = found
<1> DEFINE found == {m \in rows : Compiled(m)}
<1>1. /\ found \in SUBSET Message /\ IsFiniteSet(found) /\ Strict(DocOrder, found)
      /\ Cardinality(found) \in Nat
  BY OrdersAreStrict, FS_CardinalityType DEF IInv, TypeOK
<1>2. List = Answer /\ List = {m \in found : InFolders(m)}
  BY AnswerMeaning DEF PagesInv, StagesPage, List
<1>3. hits = Slice(found, DocBefore, 0, Fetched)
  BY DEF PagesInv, StagesPage
<1>4. wanted = {} <=> query.folders = {}
  BY DEF Resolved
<1>5. Fetched \in Nat
  BY <1>4, FetchedReaches DEF IInv, TypeOK
<1>6. hits = Cut(found, DocOrder, 0, Fetched) /\ Closed(hits, found, DocOrder)
  <2> HIDE DEF found
  <2>1. QED BY <1>1, <1>3, <1>5, SliceIsCut, CutClosed
<1>7. Closed(kept, List, DocOrder)
  <2> HIDE DEF found
  <2>1. QED BY <1>2, <1>6 DEF Closed
<1>8. ASSUME Fetched >= Cardinality(found) PROVE kept = List
  <2> HIDE DEF found
  <2>1. \A m \in found : RankIn(found, DocOrder, m) \in 0 .. (Cardinality(found) - 1)
    BY <1>1, RankType
  <2>2. hits = found
    BY <1>1, <1>5, <1>6, <1>8, <2>1 DEF Cut
  <2>3. QED BY <1>2, <2>2
<1>9. query.folders = {} => kept = hits /\ List = found
  BY <1>2, <1>4 DEF InFolders
<1>10. QED BY <1>1, <1>2, <1>6, <1>7, <1>8, <1>9

LEMMA PostFilterPages ==
  ASSUME IInv, PagesInv, Steady, PostFilter
  PROVE  Shown' /\ Totals' /\ StagesPage'
<1> DEFINE found == {m \in rows : Compiled(m)}
           kept == {m \in hits : InFolders(m)}
<1>1. /\ pc = "executed" /\ pc' = "answered"
      /\ hits' = Slice(IF Unsatisfiable THEN {} ELSE kept, DocBefore, offset, offset + PageSize)
      /\ UNCHANGED <<names, query, accounts, rows, docs, places, quiet, client, scope, total>>
  BY DEF PostFilter
<1>2. Resolved
  BY <1>1 DEF IInv, StagesAnswer, Resolved
<1>3. /\ ~FolderListing /\ total = Cardinality(found)
      /\ offset \in Nat /\ offset <= Cardinality(List) /\ ~ended
  BY <1>1 DEF IInv, TypeOK, PagesInv, StagesPage, PagesSoFar
<1>4. /\ List \in SUBSET found /\ found \in SUBSET Message /\ List = Answer
      /\ hits = Cut(found, DocOrder, 0, Fetched)
      /\ Closed(kept, List, DocOrder)
      /\ Fetched >= Cardinality(found) => kept = List
      /\ query.folders = {} => kept = hits /\ List = found
  BY <1>1, <1>2, KeptIsClosed
<1> HIDE DEF found, kept
<1>5. /\ IsFiniteSet(List) /\ Strict(DocOrder, List) /\ Cardinality(List) \in Nat
      /\ \A from, to : Segment(from, to) = Cut(List, DocOrder, from, to)
  BY <1>3, SegmentIsCut, FS_CardinalityType DEF IInv, ListOrder
<1>6. /\ IsFiniteSet(found) /\ Strict(DocOrder, found) /\ Cardinality(found) \in Nat
      /\ Cardinality(List) <= Cardinality(found)
  BY <1>4, OrdersAreStrict, FS_Subset, FS_CardinalityType
<1>7. hits' = Cut(kept, DocOrder, offset, offset + PageSize)
  <2>1. (IF Unsatisfiable THEN {} ELSE kept) = kept
    BY UnsatisfiableMeaning DEF IInv, kept
  <2>2. kept \in SUBSET Message
    BY DEF kept, IInv, TypeOK
  <2>3. QED BY <1>1, <2>1, <2>2, SliceIsCut
<1> DEFINE page == Cut(kept, DocOrder, offset, offset + PageSize)
<1>8. /\ Cardinality(page) \in Nat
      /\ page = Cut(List, DocOrder, offset, offset + Cardinality(page))
      /\ offset + Cardinality(page) <= Cardinality(List)
      /\ Cardinality(page) >= PageSize \/ offset + Cardinality(page) >= Cardinality(kept)
  <2>1. PageSize \in Nat
    BY NumbersAssumption
  <2>2. QED BY <1>3, <1>4, <1>5, <2>1, PageIsSegment
<1> HIDE DEF page
<1>9. ASSUME ReachesEnd
      PROVE  Cardinality(page) >= PageSize \/ offset + Cardinality(page) = Cardinality(List)
  <2>1. Cardinality(found) <= Reach
    BY <1>3, <1>9 DEF ReachesEnd, IInv, SameStores, Steady, found
  <2>2. /\ Fetched \in Nat
        /\ query.folders # {} => Fetched >= Reach
        /\ query.folders = {} => Fetched = offset + PageSize \/ Fetched = Reach
    BY <1>2, FetchedReaches DEF IInv, TypeOK, Resolved
  <2>3. Reach \in Nat
    BY NumbersAssumption DEF Reach
  <2>4. CASE Fetched >= Cardinality(found)
    BY <1>3, <1>4, <1>5, <1>8, <2>4
  <2>5. CASE Fetched < Cardinality(found)
    <3>1. query.folders = {} /\ Fetched = offset + PageSize
      BY <1>6, <2>1, <2>2, <2>3, <2>5
    <3>2. Cardinality(hits) = Fetched
      BY <1>4, <1>6, <2>2, <2>5, CutSize
    <3>3. offset + Cardinality(page) >= offset + PageSize \/ Cardinality(page) >= PageSize
      BY <1>4, <1>8, <3>1, <3>2
    <3>4. QED BY <1>3, <1>8, <3>3, NumbersAssumption
  <2>6. QED BY <1>6, <2>2, <2>4, <2>5
<1>10. Shown'
  BY <1>1, <1>3, ShownKept DEF PagesInv, PagesPartition, Shown
<1>11. Totals'
  <2>1. (query.residual # {} /\ query.folders # {}) \/ query.folders = {}
    BY <1>3 DEF FolderListing
  <2>2. total' >= Cardinality(Answer) /\ (query.folders = {} => total' = Cardinality(Answer))
    BY <1>1, <1>3, <1>4, <1>6
  <2>3. QED BY <1>1, <2>1, <2>2, SameMeaning DEF Totals
<1>12. ReachesEnd' <=> ReachesEnd
  <2>1. \A m : Compiled(m)' <=> Compiled(m)
    BY <1>1 DEF Compiled, Matches
  <2>2. QED BY <1>1, <2>1, SameList, SameMeaning DEF ReachesEnd
<1>13. StagesPage'
  BY <1>1, <1>5, <1>7, <1>8, <1>9, <1>12, SameList DEF StagesPage, page
<1>14. QED BY <1>10, <1>11, <1>13

\* Of the hits of a steady search no row is missing when they are shown.
LEMMA PageShown ==
  ASSUME IInv, PagesInv, Steady, Show
  PROVE  /\ pages' = Append(pages, hits)
         /\ offset \in Nat /\ Cardinality(hits) \in Nat
         /\ offset' = offset + Cardinality(hits) /\ offset' <= Cardinality(List)
         /\ hits = Cut(List, ListOrder, offset, offset')
         /\ UNION {pages[i] : i \in 1..Len(pages)} = Cut(List, ListOrder, 0, offset)
         /\ ReachesEnd => Cardinality(hits) >= PageSize \/ offset' = Cardinality(List)
<1>1. /\ pc = "answered" /\ offset' = offset + Cardinality(hits)
      /\ pages' = Append(pages, {m \in hits \cap rows : Home[m] \in Owned \cap accounts})
  BY DEF Show
<1>2. /\ offset \in Nat /\ Cardinality(hits) \in Nat
      /\ hits = Segment(offset, offset') /\ offset' <= Cardinality(List)
      /\ UNION {pages[i] : i \in 1..Len(pages)} = Segment(0, offset)
      /\ ReachesEnd => Cardinality(hits) >= PageSize \/ offset' = Cardinality(List)
  BY <1>1, Counts DEF IInv, TypeOK, PagesInv, PagesSoFar, StagesPage
<1>3. \A from, to : Segment(from, to) = Cut(List, ListOrder, from, to)
  BY SegmentIsCut DEF IInv
<1>4. hits \subseteq rows
  <2>1. List \subseteq rows
    BY DEF List, Answer
  <2>2. QED BY <1>2, <1>3, <2>1 DEF Cut
<1>5. \A m \in hits : Home[m] \in Owned \cap accounts
  BY OwnedAssumption DEF IInv, HitsBelong, SameStores, Steady
<1>6. {m \in hits \cap rows : Home[m] \in Owned \cap accounts} = hits
  BY <1>4, <1>5
<1>7. QED BY <1>1, <1>2, <1>3, <1>6

LEMMA ShowPages ==
  ASSUME IInv, PagesInv, Steady, Show
  PROVE  Shown' /\ Totals' /\ StagesPage'
<1> DEFINE before == UNION {pages[i] : i \in 1..Len(pages)}
<1>1. /\ pages' = Append(pages, hits) /\ pages \in Seq(SUBSET Message)
      /\ offset \in Nat /\ Cardinality(hits) \in Nat
      /\ offset' = offset + Cardinality(hits) /\ offset' <= Cardinality(List)
      /\ hits = Cut(List, ListOrder, offset, offset')
      /\ before = Cut(List, ListOrder, 0, offset)
      /\ ReachesEnd => Cardinality(hits) >= PageSize \/ offset' = Cardinality(List)
  BY PageShown DEF IInv, TypeOK
<1>2. /\ List \in SUBSET Message /\ IsFiniteSet(List) /\ Strict(ListOrder, List)
      /\ \A from, to : Segment(from, to) = Cut(List, ListOrder, from, to)
  BY SegmentIsCut DEF IInv
<1>3. /\ pc' = "idle" /\ ended' = (Cardinality(hits) < PageSize)
      /\ UNCHANGED <<names, query, accounts, rows, docs, places, quiet, scope>>
  BY DEF Show
<1>4. \A i \in 1..Len(pages) : pages'[i] = pages[i] /\ pages[i] \subseteq before
  BY <1>1
<1>5. /\ Len(pages') = Len(pages) + 1 /\ Len(pages) \in Nat
      /\ pages'[Len(pages) + 1] = hits
  BY <1>1
<1>6. UNION {pages'[i] : i \in 1..Len(pages')} = before \cup hits
  <2>1. \A i \in 1..Len(pages') : i \in 1..Len(pages) \/ i = Len(pages) + 1
    BY <1>5
  <2>2. \A i \in 1..Len(pages) : i \in 1..Len(pages')
    BY <1>5
  <2>3. Len(pages) + 1 \in 1..Len(pages')
    BY <1>5
  <2>4. ASSUME NEW m \in before PROVE m \in UNION {pages'[i] : i \in 1..Len(pages')}
    BY <1>4, <2>2
  <2>5. QED BY <1>4, <1>5, <2>1, <2>3, <2>4
<1> HIDE DEF before
<1>7. before \cup hits = Cut(List, ListOrder, 0, offset')
  BY <1>1, <1>2, CutsJoin
<1>8. Ordered'
  <2>1. ASSUME NEW m \in before, NEW n \in hits
        PROVE IF query.residual = {} /\ query.folders # {} THEN RowBefore(m, n) ELSE DocBefore(m, n)
    <3>1. m \in List /\ n \in List /\ RankIn(List, ListOrder, m) < RankIn(List, ListOrder, n)
      BY <1>1, <1>2, RankType DEF Cut
    <3>2. <<m, n>> \in ListOrder
      BY <1>2, <3>1, RankOrders
    <3>3. QED BY <3>2 DEF ListOrder, FolderListing, RowOrder, DocOrder
  <2>2. ASSUME NEW i \in 1..Len(pages'), NEW j \in 1..Len(pages'), i < j,
               NEW m \in pages'[i], NEW n \in pages'[j]
        PROVE IF query.residual = {} /\ query.folders # {} THEN RowBefore(m, n) ELSE DocBefore(m, n)
    <3>1. i \in 1..Len(pages)
      BY <1>5, <2>2
    <3>2. CASE j = Len(pages) + 1
      BY <1>4, <1>5, <2>1, <2>2, <3>1, <3>2
    <3>3. CASE j # Len(pages) + 1
      <4>1. j \in 1..Len(pages) /\ m \in pages[i] /\ n \in pages[j]
        BY <1>4, <1>5, <2>2, <3>1, <3>3
      <4>2. QED BY <2>2, <3>1, <4>1 DEF PagesInv, PagesPartition, Ordered
    <3>4. QED BY <3>2, <3>3
  <2>3. QED BY <1>3, <2>2 DEF Ordered
<1>9. Exhausted'
  <2>1. \A m : Compiled(m)' <=> Compiled(m)
    BY <1>3 DEF Compiled, Matches
  <2>2. SUFFICES ASSUME ended', ~HintsLost,
                        \/ query.residual = {} /\ query.folders # {}
                        \/ Cardinality({m \in docs : Compiled(m)}) <= Reach
                 PROVE  before \cup hits = Answer
    <3>1. (HintsLost' <=> HintsLost) /\ Reach' = Reach /\ Answer' = Answer
      BY <1>3, SameMeaning, SameList
    <3>2. QED BY <1>3, <1>6, <2>1, <3>1 DEF Exhausted
  <2>3. offset' = Cardinality(List)
    <3>1. ReachesEnd
      BY <2>2 DEF ReachesEnd, FolderListing
    <3>2. Cardinality(hits) < PageSize
      BY <1>3, <2>2
    <3>3. QED BY <1>1, <3>1, <3>2, NumbersAssumption
  <2>4. Cut(List, ListOrder, 0, Cardinality(List)) = List
    BY <1>2, ClosedIsCut DEF Closed
  <2>5. QED BY <1>7, <2>2, <2>3, <2>4, ListIsAnswer
<1>10. PagesSoFar'
  <2>1. before \cup hits = Segment(0, offset')
    BY <1>2, <1>7
  <2>2. QED BY <1>1, <1>3, <1>6, <2>1, SameList DEF PagesSoFar
<1>11. QED BY <1>3, <1>8, <1>9, <1>10 DEF Shown, Totals, StagesPage

-----------------------------------------------------------------------------

\* What has been shown is the beginning of the list up to the cursor, and every search
\* comes to the hits that follow it, through all searches and changes of the stores
\* (SearchServiceImpl::search and its pages).
THEOREM PagesInvariance == Spec => [](IInv /\ PagesInv)
<1>1. Init => PagesInv
  <2> SUFFICES ASSUME Init PROVE PagesInv
    OBVIOUS
  <2>1. pages = <<>> /\ offset = 0 /\ ended = FALSE /\ pc = "idle" /\ TypeOK
    BY InitIInv DEF Init, IInv
  <2>2. Segment(0, 0) = {} /\ Cardinality(List) \in Nat
    BY <2>1, SegmentIsCut, FS_CardinalityType DEF Cut
  <2>3. UNION {pages[i] : i \in 1..Len(pages)} = {}
    BY <2>1
  <2>4. Totals /\ Ordered /\ Exhausted
    BY <2>1 DEF Totals, Ordered, Exhausted
  <2>5. PagesSoFar /\ StagesPage
    BY <2>1, <2>2, <2>3 DEF PagesSoFar, StagesPage
  <2>6. QED BY <2>4, <2>5 DEF PagesInv, PagesPartition
<1>2. IInv /\ PagesInv /\ [Next]_vars => PagesInv'
  <2> SUFFICES ASSUME IInv, PagesInv, [Next]_vars PROVE PagesInv'
    OBVIOUS
  <2>1. CASE UNCHANGED vars
    <3>1. \A m : Compiled(m)' <=> Compiled(m)
      BY <2>1 DEF vars, Compiled, Matches
    <3>2. /\ (Steady' <=> Steady) /\ (HintsLost' <=> HintsLost) /\ Reach' = Reach
          /\ Answer' = Answer /\ List' = List /\ (FolderListing' <=> FolderListing)
          /\ \A from, to : Segment(from, to)' = Segment(from, to)
      BY <2>1, SameMeaning, SameList DEF vars
    <3>3. Fetched' = Fetched /\ (ReachesEnd' <=> ReachesEnd)
      BY <2>1, <3>1, <3>2 DEF vars, Fetched, ReachesEnd
    <3>4. Totals' = Totals /\ Ordered' = Ordered /\ Exhausted' = Exhausted
      BY <2>1, <3>1, <3>2 DEF vars, Totals, Ordered, Exhausted
    <3>5. PagesSoFar' = PagesSoFar /\ StagesPage' = StagesPage
      BY <2>1, <3>1, <3>2, <3>3 DEF vars, PagesSoFar, StagesPage
    <3>6. QED BY <3>2, <3>4, <3>5 DEF PagesInv, PagesPartition
  <2>2. CASE Changes
    BY <2>2, ChangesType DEF IInv, PagesInv, PagesPartition, Steady
  <2>3. CASE Searches
    <3>1. UNCHANGED <<names, query, quiet>>
      BY <2>3, SearchesType DEF IInv
    <3>2. Steady' <=> Steady
      BY <3>1 DEF Steady
    <3>3. Steady => Shown' /\ Totals' /\ StagesPage'
      BY <2>3, ResolvingPages, ListFoldersPages, ExecutePages, PostFilterPages, ShowPages
         DEF Searches
    <3>4. QED BY <3>2, <3>3 DEF PagesInv, PagesPartition, Shown
  <2>4. QED BY <2>1, <2>2, <2>3, NextParts
<1>3. QED BY <1>1, <1>2, Invariance, PTL DEF Spec

\* While the stores stay as they are, the pages partition the answer in the order of the
\* list, for every query, page size and fetch limit, whichever way a page was found; at the
\* end nothing is missing and the total says how much there is (search/src/service.rs:284-485,
\* search_results.rs).
THEOREM PagesArePartition == Spec => []PagesPartition
<1>1. PagesInv => PagesPartition BY DEF PagesInv
<1>2. QED BY <1>1, PagesInvariance, PTL
=============================================================================
