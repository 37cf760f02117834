----------------------------- MODULE UsersProofs -----------------------------
(***************************************************************************)
(* Proofs about Users, for any number of users, overlapping calls and      *)
(* updates. Types hold whatever the isolation; that no acknowledged update *)
(* is lost is proved for one connection, which is where it is true: the    *)
(* inductive part is ReadsHold, that while the versions agree a call still *)
(* knows the row it read. Who is a super administrator is the same in      *)
(* every record a call has in its hands (RanksHold), with one connection   *)
(* or a pool, so no interleaving demotes, deletes or makes one.            *)
(***************************************************************************)
EXTENDS Users, TLAPS

LEMMA MergeType ==
  ASSUME NEW row \in Row, NEW record \in Row, NEW fields PROVE Merge(row, record, fields) \in Row
BY DEF Merge, Row, Capabilities

LEMMA NewRowType ==
  ASSUME NEW call \in Call, NEW row \in Row
  PROVE /\ NewRow(call, row) \in Row
        /\ NewRow(call, row).version \in {row.version, call.read.version + 1}
<1>1. call.want \in Row /\ call.read \in Row
  BY DEF Call
<1>2. Merge(row, call.want, Changed(call)) \in Row
  BY <1>1, MergeType
<1>3. QED BY <1>1, <1>2 DEF NewRow, Merge, Row

\* The columns that are set hold what the record says; the others are the same in it.
LEMMA NewRowIs ==
  ASSUME NEW call \in Call, NEW row \in Row, call.read = row
  PROVE NewRow(call, row) =
          [call.want EXCEPT !.version = IF Changed(call) # {} THEN row.version + 1 ELSE row.version]
<1>1. call.want \in Row /\ call.read \in Row
  BY DEF Call
<1>2. /\ "email" \in Changed(call) <=> call.want.email # call.read.email
      /\ call.want.password # call.read.password => "password" \in Changed(call)
      /\ "capabilities" \in Changed(call) <=> call.want.capabilities # call.read.capabilities
      /\ "must" \in Changed(call) <=> call.want.must # call.read.must
  BY <1>1 DEF Changed, Fields, Row
<1>3. QED BY <1>1, <1>2 DEF NewRow, Merge, Row

LEMMA RowIs ==
  ASSUME NEW row \in Row, NEW want \in Row,
         row.email = want.email, row.password = want.password,
         row.capabilities = want.capabilities, row.must = want.must, row.version = want.version
  PROVE row = want
BY DEF Row

\* A record that differs from a row in the given fields only.
Differs(row, want, sets) ==
    /\ "email" \in sets \/ want.email = row.email
    /\ "password" \in sets \/ want.password = row.password
    /\ "capabilities" \in sets \/ want.capabilities = row.capabilities
    /\ "must" \in sets \/ want.must = row.must
    /\ want.version = row.version

LEMMA MergeIs ==
  ASSUME NEW row \in Row, NEW want \in Row, NEW sets, Differs(row, want, sets)
  PROVE want = [Merge(row, want, sets) EXCEPT !.version = row.version]
<1> DEFINE made == [Merge(row, want, sets) EXCEPT !.version = row.version]
<1>1. made \in Row
  BY DEF Row, Merge, Capabilities
<1>2. /\ made.email = want.email /\ made.password = want.password
      /\ made.capabilities = want.capabilities /\ made.version = want.version
  BY DEF Row, Merge, Differs
<1>3. made.must = want.must
  BY DEF Row, Merge, Differs
<1>4. QED BY <1>1, <1>2, <1>3, RowIs

LEMMA NoRowType == NoRow \in Row /\ NoRow.version = 0
BY DEF NoRow, Row, Capabilities

-----------------------------------------------------------------------------
(* Types *)

\* The handlers that find a row and start a call.
Finds(r) ==
    \/ \E u \in User : ChangeInitialPassword(r, u) \/ UpdateProfile(r, u) \/ ChangePassword(r, u)
    \/ \E a, u \in User : AdminUpdate(r, a, u) \/ AdminReset(r, a, u) \/ AdminDelete(r, a, u)

\* An update leaves no password of somebody else without the flag.
KeepsFlag(row, want) ==
    \/ want.password = "own"
    \/ want.must
    \/ want.password = row.password /\ want.must = row.must

\* No call demotes or makes a super administrator, and none deletes one.
KeepsRank(kind, row, want) ==
    /\ Super(want) = Super(row)
    /\ kind = "delete" => ~Super(row)

\* What each of them makes of the row it found.
FoundCall(r) ==
    \E u \in Users, want \in Row, sets \in SUBSET Fields, kind \in {"update", "delete"} :
        /\ Found(r, kind, u, want, sets)
        /\ want = [Merge(rows[u], want, sets) EXCEPT !.version = rows[u].version]
        /\ KeepsFlag(rows[u], want)
        /\ KeepsRank(kind, rows[u], want)

LEMMA Finding ==
  ASSUME TypeOK, NEW r \in Request, NEW u \in Users, NEW want \in Row, NEW sets \in SUBSET Fields,
         NEW kind \in {"update", "delete"},
         Found(r, kind, u, want, sets), Differs(rows[u], want, sets), KeepsFlag(rows[u], want),
         KeepsRank(kind, rows[u], want)
  PROVE FoundCall(r)
<1>1. rows[u] \in Row
  BY DEF TypeOK, Users
<1>2. want = [Merge(rows[u], want, sets) EXCEPT !.version = rows[u].version]
  BY <1>1, MergeIs
<1>3. QED BY <1>2 DEF FoundCall

LEMMA FindsCall ==
  ASSUME TypeOK, NEW r \in Request, Finds(r)
  PROVE /\ FoundCall(r) /\ Free /\ Idle(r)
        /\ UNCHANGED <<life, rows, session, loaded, registering, meant>>
<1>1. ASSUME NEW u \in User, ChangeInitialPassword(r, u) PROVE FoundCall(r)
  <2>1. u \in Users /\ rows[u] \in Row
    BY <1>1 DEF ChangeInitialPassword, TypeOK, Users
  <2>2. Found(r, "update", u, [rows[u] EXCEPT !.password = "own", !.must = FALSE], {"password", "must"})
    BY <1>1 DEF ChangeInitialPassword
  <2> DEFINE want == [rows[u] EXCEPT !.password = "own", !.must = FALSE]
  <2>3. want \in Row /\ Differs(rows[u], want, {"password", "must"}) /\ KeepsFlag(rows[u], want)
    BY <2>1 DEF Row, Capabilities, Differs, KeepsFlag, Fields
  <2>4. KeepsRank("update", rows[u], want)
    BY <2>1 DEF Row, KeepsRank, Super
  <2> HIDE DEF want
  <2>5. {"password", "must"} \in SUBSET Fields
    BY DEF Fields
  <2>6. Found(r, "update", u, want, {"password", "must"})
    BY <2>2 DEF want
  <2>7. QED BY <2>1, <2>3, <2>4, <2>5, <2>6, Finding
<1>2. ASSUME NEW u \in User, UpdateProfile(r, u) PROVE FoundCall(r)
  <2>1. u \in Users /\ rows[u] \in Row
    BY <1>2 DEF UpdateProfile, TypeOK, Users
  <2>2. PICK email \in Address :
          Found(r, "update", u, [rows[u] EXCEPT !.email = email], {"email"})
    BY <1>2 DEF UpdateProfile
  <2> DEFINE want == [rows[u] EXCEPT !.email = email]
  <2>3. want \in Row /\ Differs(rows[u], want, {"email"}) /\ KeepsFlag(rows[u], want)
    BY <2>1 DEF Row, Capabilities, Differs, KeepsFlag, Fields
  <2>4. KeepsRank("update", rows[u], want)
    BY <2>1 DEF Row, KeepsRank, Super
  <2> HIDE DEF want
  <2>5. {"email"} \in SUBSET Fields
    BY DEF Fields
  <2>6. Found(r, "update", u, want, {"email"})
    BY <2>2 DEF want
  <2>7. QED BY <2>1, <2>3, <2>4, <2>5, <2>6, Finding
<1>3. ASSUME NEW u \in User, ChangePassword(r, u) PROVE FoundCall(r)
  <2>1. u \in Users /\ rows[u] \in Row
    BY <1>3 DEF ChangePassword, TypeOK, Users
  <2>2. Found(r, "update", u, [rows[u] EXCEPT !.password = "own"], {"password"})
    BY <1>3 DEF ChangePassword
  <2> DEFINE want == [rows[u] EXCEPT !.password = "own"]
  <2>3. want \in Row /\ Differs(rows[u], want, {"password"}) /\ KeepsFlag(rows[u], want)
    BY <2>1 DEF Row, Capabilities, Differs, KeepsFlag, Fields
  <2>4. KeepsRank("update", rows[u], want)
    BY <2>1 DEF Row, KeepsRank, Super
  <2> HIDE DEF want
  <2>5. {"password"} \in SUBSET Fields
    BY DEF Fields
  <2>6. Found(r, "update", u, want, {"password"})
    BY <2>2 DEF want
  <2>7. QED BY <2>1, <2>3, <2>4, <2>5, <2>6, Finding
<1>4. ASSUME NEW a \in User, NEW u \in User, AdminUpdate(r, a, u) PROVE FoundCall(r)
  <2>1. u \in Users /\ rows[u] \in Row
    BY <1>4 DEF AdminUpdate, TypeOK, Users
  <2>2. PICK email \in Address, caps \in Capabilities :
          /\ MayGive(a, rows[u].capabilities, caps)
          /\ Found(r, "update", u, [rows[u] EXCEPT !.email = email, !.capabilities = caps], {"email", "capabilities"})
    BY <1>4 DEF AdminUpdate
  <2> DEFINE want == [rows[u] EXCEPT !.email = email, !.capabilities = caps]
  <2>3. want \in Row /\ Differs(rows[u], want, {"email", "capabilities"}) /\ KeepsFlag(rows[u], want)
    BY <2>1 DEF Row, Capabilities, Differs, KeepsFlag, Fields
  <2>4. KeepsRank("update", rows[u], want)
    BY <2>1, <2>2 DEF Row, KeepsRank, Super, MayGive
  <2> HIDE DEF want
  <2>5. {"email", "capabilities"} \in SUBSET Fields
    BY DEF Fields
  <2>6. Found(r, "update", u, want, {"email", "capabilities"})
    BY <2>2 DEF want
  <2>7. QED BY <2>1, <2>3, <2>4, <2>5, <2>6, Finding
<1>5. ASSUME NEW a \in User, NEW u \in User, a = u, AdminReset(r, a, u) PROVE FoundCall(r)
  <2>1. u \in Users /\ rows[u] \in Row
    BY <1>5 DEF AdminReset, TypeOK, Users
  <2>2. PICK email \in Address, caps \in Capabilities :
          /\ MayGive(a, rows[u].capabilities, caps)
          /\ Found(r, "update", u, [rows[u] EXCEPT !.email = email, !.capabilities = caps,
                                                   !.password = "own"], {"email", "capabilities", "password"})
    BY <1>5 DEF AdminReset
  <2> DEFINE want == [rows[u] EXCEPT !.email = email, !.capabilities = caps,
                                                !.password = "own"]
  <2>3. want \in Row /\ Differs(rows[u], want, {"email", "capabilities", "password"}) /\ KeepsFlag(rows[u], want)
    BY <2>1 DEF Row, Capabilities, Differs, KeepsFlag, Fields
  <2>4. KeepsRank("update", rows[u], want)
    BY <2>1, <2>2 DEF Row, KeepsRank, Super, MayGive
  <2> HIDE DEF want
  <2>5. {"email", "capabilities", "password"} \in SUBSET Fields
    BY DEF Fields
  <2>6. Found(r, "update", u, want, {"email", "capabilities", "password"})
    BY <2>2 DEF want
  <2>7. QED BY <2>1, <2>3, <2>4, <2>5, <2>6, Finding
<1>6. ASSUME NEW a \in User, NEW u \in User, a # u, AdminReset(r, a, u) PROVE FoundCall(r)
  <2>1. u \in Users /\ rows[u] \in Row
    BY <1>6 DEF AdminReset, TypeOK, Users
  <2>2. PICK email \in Address, caps \in Capabilities :
          /\ MayGive(a, rows[u].capabilities, caps)
          /\ Found(r, "update", u, [rows[u] EXCEPT !.email = email, !.capabilities = caps,
                                                   !.password = "given", !.must = TRUE], Fields)
    BY <1>6 DEF AdminReset
  <2> DEFINE want == [rows[u] EXCEPT !.email = email, !.capabilities = caps,
                                                !.password = "given", !.must = TRUE]
  <2>3. want \in Row /\ Differs(rows[u], want, Fields) /\ KeepsFlag(rows[u], want)
    BY <2>1 DEF Row, Capabilities, Differs, KeepsFlag, Fields
  <2>4. KeepsRank("update", rows[u], want)
    BY <2>1, <2>2 DEF Row, KeepsRank, Super, MayGive
  <2> HIDE DEF want
  <2>5. Fields \in SUBSET Fields
    BY DEF Fields
  <2>6. Found(r, "update", u, want, Fields)
    BY <2>2 DEF want
  <2>7. QED BY <2>1, <2>3, <2>4, <2>5, <2>6, Finding
<1>7. ASSUME NEW a \in User, NEW u \in User, AdminDelete(r, a, u) PROVE FoundCall(r)
  <2>1. u \in Users /\ rows[u] \in Row /\ Found(r, "delete", u, rows[u], {})
    BY <1>7 DEF AdminDelete, TypeOK, Users
  <2>2. Differs(rows[u], rows[u], {}) /\ KeepsFlag(rows[u], rows[u]) /\ KeepsRank("delete", rows[u], rows[u])
    BY <1>7 DEF Differs, KeepsFlag, AdminDelete, KeepsRank, Super
  <2>3. QED BY <2>1, <2>2, Finding
<1>8. FoundCall(r)
  BY <1>1, <1>2, <1>3, <1>4, <1>5, <1>6, <1>7 DEF Finds
<1>9. Free /\ Idle(r) /\ UNCHANGED <<life, rows, session, loaded, registering, meant>>
  BY DEF Finds, ChangeInitialPassword, UpdateProfile, ChangePassword, AdminUpdate, AdminReset,
         AdminDelete
<1>10. QED BY <1>8, <1>9

LEMMA InitType == Init => TypeOK
<1> SUFFICES ASSUME Init PROVE TypeOK
  OBVIOUS
<1>1. NoRow \in Row /\ NoRow.version = 0 /\ {} \in Capabilities
  BY NoRowType DEF Capabilities
<1>2. QED BY <1>1 DEF Init, TypeOK

LEMMA AddType ==
  ASSUME TypeOK, NEW u \in User, NEW row \in Row, row.version = 1, Add(u, row)
  PROVE /\ life' \in [User -> {"new", "there", "gone"}]
        /\ rows' \in [User -> Row] /\ meant' \in [User -> Row]
        /\ \A v \in User : life'[v] = "there" <=> rows'[v].version > 0
BY DEF TypeOK, Add

LEMMA StepType ==
  ASSUME TypeOK, Next PROVE TypeOK'
<1>1. ASSUME NEW u \in User, Login(u) \/ SignOn(u) \/ Logout(u) PROVE TypeOK'
  BY <1>1 DEF TypeOK, Login, SignOn, Logout
<1>2. ASSUME NEW u \in User, LoadUser(u) PROVE TypeOK'
  <2>1. \A v \in Users : rows[v].capabilities \in Capabilities
    BY DEF TypeOK, Users, Row
  <2>2. loaded' \in [User -> Capabilities]
    BY <1>2, <2>1 DEF TypeOK, LoadUser, Capabilities
  <2>3. QED BY <1>2, <2>2 DEF TypeOK, LoadUser
<1>3. ASSUME NEW r \in Request, RegisterList(r) \/ RegisterFails(r) PROVE TypeOK'
  BY <1>3 DEF TypeOK, RegisterList, RegisterFails
<1>4. ASSUME NEW r \in Request, NEW u \in User, RegisterAdd(r, u) PROVE TypeOK'
  <2>1. PICK email \in Address :
          Add(u, [email |-> email, password |-> "own", capabilities |-> {"SuperAdmin"},
                  must |-> FALSE, version |-> 1])
    BY <1>4 DEF RegisterAdd
  <2>2. [email |-> email, password |-> "own", capabilities |-> {"SuperAdmin"},
         must |-> FALSE, version |-> 1] \in Row
    BY DEF Row, Capabilities
  <2>3. QED BY <1>4, <2>1, <2>2, AddType DEF RegisterAdd, TypeOK
<1>5. ASSUME NEW a \in User, NEW u \in User, Create(a, u) PROVE TypeOK'
  <2>1. PICK email \in Address, caps \in Capabilities :
          Add(u, [email |-> email, password |-> "given", capabilities |-> caps,
                  must |-> TRUE, version |-> 1])
    BY <1>5 DEF Create
  <2>2. [email |-> email, password |-> "given", capabilities |-> caps,
         must |-> TRUE, version |-> 1] \in Row
    BY DEF Row
  <2>3. QED BY <1>5, <2>1, <2>2, AddType DEF Create, TypeOK
<1>6. ASSUME NEW r \in Request, Finds(r) PROVE TypeOK'
  <2>1. PICK u \in Users, want \in Row, sets \in SUBSET Fields, kind \in {"update", "delete"} :
          Found(r, kind, u, want, sets)
    BY <1>6, FindsCall DEF FoundCall
  <2>2. [step |-> "found", kind |-> kind, user |-> u,
         read |-> rows[u], want |-> want, sets |-> sets] \in Call
    BY DEF Call, TypeOK, Users
  <2>3. calls' \in [Request -> Call \cup {<<>>}]
    BY <2>1, <2>2 DEF Found, TypeOK
  <2>4. UNCHANGED <<life, rows, session, loaded, registering, meant>>
    BY <1>6, FindsCall
  <2>5. QED BY <2>3, <2>4 DEF TypeOK
<1>7. ASSUME NEW r \in Request, UpdateReads(r) PROVE TypeOK'
  <2>1. calls[r] \in Call /\ calls[r].user \in User /\ rows[calls[r].user] \in Row
    BY <1>7 DEF UpdateReads, Busy, TypeOK, Call
  <2>2. [calls[r] EXCEPT !.step = "writing", !.read = rows[calls[r].user]] \in Call
    BY <2>1 DEF Call
  <2>3. calls' = [calls EXCEPT ![r] =
                    [calls[r] EXCEPT !.step = "writing", !.read = rows[calls[r].user]]]
    BY <1>7, <2>1 DEF UpdateReads, TypeOK, Call
  <2>4. QED BY <1>7, <2>2, <2>3 DEF UpdateReads, TypeOK
<1>8. ASSUME NEW r \in Request, UpdateWrites(r) PROVE TypeOK'
  <2> DEFINE u == calls[r].user
  <2>1. calls[r] \in Call /\ u \in Users /\ rows[u] \in Row /\ meant[u] \in Row
    BY <1>8 DEF UpdateWrites, Writing, Busy, TypeOK, Call, Users
  <2>2. /\ NewRow(calls[r], rows[u]) \in Row
        /\ NewRow(calls[r], rows[u]).version \in {rows[u].version, calls[r].read.version + 1}
    BY <2>1, NewRowType
  <2>3. Merge(meant[u], calls[r].want, calls[r].sets) \in Row
    BY <2>1, MergeType DEF Call
  <2>4. /\ rows' = [rows EXCEPT ![u] = NewRow(calls[r], rows[u])]
        /\ meant' = [meant EXCEPT ![u] = Merge(meant[u], calls[r].want, calls[r].sets)]
        /\ calls' = [calls EXCEPT ![r] = <<>>]
        /\ UNCHANGED <<life, session, loaded, registering>>
    BY <1>8 DEF UpdateWrites, End
  <2>5. life[u] = "there" /\ rows[u].version > 0 /\ calls[r].read.version \in Nat
        /\ rows[u].version \in Nat
    BY <2>1 DEF TypeOK, Users, Call, Row
  <2>6. NewRow(calls[r], rows[u]).version > 0
    BY <2>2, <2>5
  <2>7. QED BY <2>1, <2>2, <2>3, <2>4, <2>5, <2>6 DEF TypeOK, Users
<1>9. ASSUME NEW r \in Request, DeleteRow(r) PROVE TypeOK'
  <2>1. NoRow \in Row /\ NoRow.version = 0
    BY NoRowType
  <2>2. QED BY <1>9, <2>1 DEF TypeOK, DeleteRow, End, Users
<1>10. ASSUME NEW r \in Request, CallFails(r) PROVE TypeOK'
  BY <1>10 DEF TypeOK, CallFails, End
<1>11. QED
  BY <1>1, <1>2, <1>3, <1>4, <1>5, <1>6, <1>7, <1>8, <1>9, <1>10 DEF Next, Finds

LEMMA StutterType == ASSUME TypeOK, UNCHANGED vars PROVE TypeOK'
BY DEF TypeOK, vars

\* Rows that exist have a version, deleted tokens have none, whatever the
\* isolation of the database and however the calls overlap.
THEOREM TypeCorrect == Spec => []TypeOK
<1>1. Init => TypeOK
  BY InitType
<1>2. TypeOK /\ [Next]_vars => TypeOK'
  BY StepType, StutterType
<1>3. QED BY <1>1, <1>2, PTL DEF Spec

-----------------------------------------------------------------------------
(* No acknowledged update is lost: one connection *)

\* The rest of IInv depends on these variables.
LEMMA Untouched ==
  ASSUME IInv, UNCHANGED <<life, rows, calls, meant>>
  PROVE NoLostUpdate' /\ GivenIsTemporary' /\ ReadsHold'
BY DEF IInv, NoLostUpdate, GivenIsTemporary, ReadsHold, CallHolds, Users, Writing, Busy

\* A call that ends leaves the others as they are.
LEMMA EndHolds ==
  ASSUME IInv, NEW r \in Request, End(r), UNCHANGED <<life, rows>>
  PROVE ReadsHold'
BY DEF IInv, TypeOK, ReadsHold, CallHolds, Users, Writing, Busy, End

\* A new row is no row that a call knows.
LEMMA AddHolds ==
  ASSUME IInv, OneConnection, Free, NEW u \in User, NEW row \in Row, Add(u, row),
         row.version = 1, row.password = "given" => row.must, UNCHANGED calls
  PROVE NoLostUpdate' /\ GivenIsTemporary' /\ ReadsHold'
<1>1. /\ life[u] = "new" /\ life' = [life EXCEPT ![u] = "there"]
      /\ rows' = [rows EXCEPT ![u] = row] /\ meant' = [meant EXCEPT ![u] = row]
  BY DEF Add
<1>2. NoLostUpdate'
  <2>1. row = [row EXCEPT !.version = row.version]
    BY DEF Row
  <2>2. QED BY <1>1, <2>1 DEF IInv, TypeOK, NoLostUpdate, Users
<1>3. GivenIsTemporary'
  BY <1>1 DEF IInv, TypeOK, GivenIsTemporary, Users
<1>4. ASSUME NEW r \in Request, Busy(r) PROVE CallHolds(calls[r])'
  <2>1. calls[r] \in Call /\ calls[r].user \in User /\ CallHolds(calls[r])
    BY <1>4 DEF IInv, TypeOK, ReadsHold, Busy, Call
  <2>2. calls[r].user # u
    BY <1>1, <2>1 DEF CallHolds
  <2>3. QED BY <1>1, <2>1, <2>2 DEF IInv, TypeOK, CallHolds, Users
<1>5. QED BY <1>2, <1>3, <1>4 DEF IInv, ReadsHold, Writing, Busy

LEMMA FindsHolds ==
  ASSUME IInv, NEW r \in Request, Finds(r)
  PROVE NoLostUpdate' /\ GivenIsTemporary' /\ ReadsHold'
<1>1. FoundCall(r) /\ Idle(r) /\ UNCHANGED <<life, rows, meant>>
  BY FindsCall DEF IInv
<1>2. PICK u \in Users, want \in Row, sets \in SUBSET Fields, kind \in {"update", "delete"} :
        /\ Found(r, kind, u, want, sets)
        /\ want = [Merge(rows[u], want, sets) EXCEPT !.version = rows[u].version]
        /\ KeepsFlag(rows[u], want)
  BY <1>1 DEF FoundCall
<1> DEFINE c == [step |-> "found", kind |-> kind, user |-> u, read |-> rows[u],
                 want |-> want, sets |-> sets]
<1>3. calls' = [calls EXCEPT ![r] = c]
  BY <1>2 DEF Found
<1>4. CallHolds(c)
  <2>1. want.password = "given" => want.must
    BY <1>2 DEF KeepsFlag, IInv, GivenIsTemporary
  <2>2. want.version = rows[u].version /\ rows[u].version \in Nat
    BY <1>2 DEF IInv, TypeOK, Users, Row, Merge
  <2>3. c.user = u /\ c.want = want /\ c.read = rows[u] /\ c.sets = sets /\ c.kind = kind
        /\ c.step = "found" /\ life[u] = "there"
    BY DEF Users
  <2>4. QED BY <1>2, <2>1, <2>2, <2>3 DEF CallHolds
<1>5. \A q \in Request : Busy(q)' => CallHolds(calls[q])'
  <2> HIDE DEF c
  <2>1. TAKE q \in Request
  <2>2. CASE q = r
    BY <1>1, <1>3, <1>4, <2>2 DEF IInv, TypeOK, CallHolds, Users
  <2>3. CASE q # r
    BY <1>1, <1>3, <2>3 DEF IInv, TypeOK, ReadsHold, CallHolds, Users, Busy
  <2>4. QED BY <2>2, <2>3
<1>6. \A q \in Request : Writing(q)' => Writing(q)
  BY <1>3 DEF IInv, TypeOK, Writing, Busy
<1>7. QED
  BY <1>1, <1>5, <1>6 DEF IInv, NoLostUpdate, GivenIsTemporary, ReadsHold, Users

LEMMA UpdateReadsHolds ==
  ASSUME IInv, OneConnection, NEW r \in Request, UpdateReads(r)
  PROVE NoLostUpdate' /\ GivenIsTemporary' /\ ReadsHold'
<1> DEFINE u == calls[r].user
           c == [calls[r] EXCEPT !.step = "writing", !.read = rows[u]]
<1>1. /\ calls[r] \in Call /\ CallHolds(calls[r]) /\ calls[r].kind = "update" /\ u \in Users
      /\ calls[r].want.version = rows[u].version
  BY DEF UpdateReads, IInv, TypeOK, ReadsHold, Busy, Conflicts
<1>2. calls[r].read = rows[u]
  BY <1>1 DEF CallHolds
<1>3. /\ c.user = u /\ c.kind = "update" /\ c.want = calls[r].want /\ c.sets = calls[r].sets
      /\ c.read = rows[u] /\ c.step = "writing" /\ c \in Call
  BY <1>1, <1>2 DEF Call
<1>4. CallHolds(c)
  <2> HIDE DEF c
  <2>1. QED BY <1>1, <1>2, <1>3 DEF CallHolds
<1>5. calls' = [calls EXCEPT ![r] = c] /\ UNCHANGED <<life, rows, meant>>
  BY <1>1 DEF UpdateReads, IInv, TypeOK, Call
<1>6. \A q \in Request : ~Writing(q)
  BY DEF UpdateReads, Free
<1> HIDE DEF c
<1>7. \A q \in Request : Busy(q)' => CallHolds(calls[q])'
  <2>1. TAKE q \in Request
  <2>2. CASE q = r
    BY <1>4, <1>5, <2>2 DEF IInv, TypeOK, CallHolds, Users
  <2>3. CASE q # r
    BY <1>5, <2>3 DEF IInv, TypeOK, ReadsHold, CallHolds, Users, Busy
  <2>4. QED BY <2>2, <2>3
<1>8. \A q \in Request : Writing(q)' => q = r
  BY <1>5, <1>6 DEF IInv, TypeOK, Writing, Busy
<1>9. QED
  BY <1>5, <1>7, <1>8 DEF IInv, NoLostUpdate, GivenIsTemporary, ReadsHold, Users

LEMMA UpdateWritesHolds ==
  ASSUME IInv, NEW r \in Request, UpdateWrites(r)
  PROVE NoLostUpdate' /\ GivenIsTemporary' /\ ReadsHold'
<1> DEFINE u == calls[r].user
           c == calls[r]
           row == rows[u]
           new == NewRow(c, row)
<1>1. /\ c \in Call /\ CallHolds(c) /\ c.kind = "update" /\ u \in Users /\ c.read = row
      /\ row \in Row /\ meant[u] \in Row /\ c.want \in Row /\ u \in User
  BY DEF UpdateWrites, IInv, TypeOK, ReadsHold, Writing, Busy, CallHolds, Call, Users
<1>2. new = [c.want EXCEPT !.version = IF Changed(c) # {} THEN row.version + 1 ELSE row.version]
  BY <1>1, NewRowIs
<1>3. /\ rows' = [rows EXCEPT ![u] = new] /\ End(r) /\ UNCHANGED life
      /\ meant' = [meant EXCEPT ![u] = Merge(meant[u], c.want, c.sets)]
  BY DEF UpdateWrites
<1>4. /\ c.want = [Merge(row, c.want, c.sets) EXCEPT !.version = row.version]
      /\ c.want.password = "given" => c.want.must
      /\ row = [meant[u] EXCEPT !.version = row.version]
  BY <1>1 DEF CallHolds, IInv, NoLostUpdate
<1>5. new \in Row
  BY <1>1, NewRowType
<1>6. new.version > row.version \/ new = row
  <2>1. CASE Changed(c) # {}
    BY <1>1, <1>2, <2>1 DEF Row
  <2>2. CASE Changed(c) = {}
    <3>1. new = Merge(row, c.want, {})
      BY <1>1, <2>2, RowIs, MergeType DEF NewRow, Row, Merge
    <3>2. QED BY <1>1, <3>1, RowIs, MergeType DEF Merge
  <2>3. QED BY <2>1, <2>2
<1>7. new = [Merge(meant[u], c.want, c.sets) EXCEPT !.version = new.version]
  <2> DEFINE made == Merge(meant[u], c.want, c.sets)
  <2>1. made \in Row
    BY <1>1, MergeType
  <2>2. /\ new.email = made.email /\ new.password = made.password
        /\ new.capabilities = made.capabilities
    BY <1>1, <1>2, <1>4 DEF Merge, Row
  <2>3. new.must = made.must
    BY <1>1, <1>2, <1>4 DEF Merge, Row
  <2>4. [made EXCEPT !.version = new.version] \in Row
    BY <1>5, <2>1 DEF Row
  <2> DEFINE that == [made EXCEPT !.version = new.version]
  <2> HIDE DEF made, new
  <2>5. /\ that.email = made.email /\ that.password = made.password
        /\ that.capabilities = made.capabilities /\ that.version = new.version
    BY <2>1 DEF Row
  <2>6. that.must = made.must
    BY <2>1 DEF Row
  <2> HIDE DEF that
  <2>7. that \in Row
    BY <2>4 DEF that
  <2>8. new = that
    BY <1>5, <2>2, <2>3, <2>5, <2>6, <2>7, RowIs
  <2>9. QED BY <2>8 DEF that, made
<1>8. new.password = "given" => new.must
  BY <1>1, <1>2, <1>4 DEF Row
<1> HIDE DEF new, row, c
<1>9. NoLostUpdate'
  <2>1. SUFFICES ASSUME NEW v \in Users'
                 PROVE rows'[v] = [meant'[v] EXCEPT !.version = rows'[v].version]
    BY DEF NoLostUpdate
  <2>2. v \in Users /\ v \in User
    BY <1>3 DEF Users
  <2>3. CASE v = u
    BY <1>1, <1>3, <1>7, <2>2, <2>3 DEF IInv, TypeOK
  <2>4. CASE v # u
    BY <1>1, <1>3, <2>2, <2>4 DEF IInv, TypeOK, NoLostUpdate
  <2>5. QED BY <2>3, <2>4
<1>10. GivenIsTemporary'
  BY <1>1, <1>3, <1>8 DEF IInv, TypeOK, GivenIsTemporary, Users
<1>11. \A q \in Request : Busy(q)' => Busy(q) /\ q # r /\ calls'[q] = calls[q] /\ ~Writing(q)
  BY <1>3 DEF UpdateWrites, IInv, TypeOK, ReadsHold, End, Busy, Writing
<1>12. ASSUME NEW q \in Request, Busy(q)' PROVE CallHolds(calls[q])'
  <2>1. calls[q] \in Call /\ CallHolds(calls[q]) /\ calls[q].step # "writing"
        /\ calls'[q] = calls[q] /\ calls[q].want.version \in Nat /\ calls[q].user \in User
    BY <1>11, <1>12 DEF IInv, TypeOK, ReadsHold, Busy, Writing, Call, Row
  <2>2. Users' = Users
    BY <1>3 DEF Users
  <2>3. CASE calls[q].user # u
    BY <1>1, <1>3, <2>1, <2>2, <2>3 DEF CallHolds, IInv, TypeOK
  <2>4. CASE calls[q].user = u
    <3>1. rows'[u] = new /\ row.version \in Nat /\ new.version \in Nat
      BY <1>1, <1>3, <1>5 DEF IInv, TypeOK, Row
    <3>2. calls[q].kind = "update" =>
            /\ calls[q].want.version <= new.version
            /\ calls[q].want.version = new.version => calls[q].read = new
      BY <1>1, <1>6, <2>1, <2>4, <3>1 DEF CallHolds, row
    <3>3. QED BY <1>1, <1>3, <2>1, <2>2, <2>4, <3>1, <3>2 DEF CallHolds
  <2>5. QED BY <2>3, <2>4
<1>13. \A q \in Request : ~Writing(q)'
  BY <1>11 DEF Writing, Busy
<1>14. QED BY <1>9, <1>10, <1>12, <1>13 DEF ReadsHold

LEMMA DeleteRowHolds ==
  ASSUME IInv, OneConnection, NEW r \in Request, DeleteRow(r)
  PROVE NoLostUpdate' /\ GivenIsTemporary' /\ ReadsHold'
<1> DEFINE u == calls[r].user
<1>1. /\ life' = [life EXCEPT ![u] = "gone"] /\ rows' = [rows EXCEPT ![u] = NoRow]
      /\ meant' = [meant EXCEPT ![u] = NoRow] /\ End(r) /\ u \in User
  BY DEF DeleteRow, Users
<1>2. Users' = Users \ {u}
  BY <1>1 DEF IInv, TypeOK, Users
<1>3. NoLostUpdate' /\ GivenIsTemporary'
  BY <1>1, <1>2 DEF IInv, TypeOK, NoLostUpdate, GivenIsTemporary, Users
<1>4. \A q \in Request : ~Writing(q)
  BY DEF DeleteRow, Free
<1>5. ASSUME NEW q \in Request, Busy(q)' PROVE CallHolds(calls[q])' /\ ~Writing(q)'
  <2>1. /\ calls[q] \in Call /\ CallHolds(calls[q]) /\ calls'[q] = calls[q]
        /\ calls[q].step # "writing" /\ calls[q].user \in User
    BY <1>1, <1>4, <1>5 DEF IInv, TypeOK, ReadsHold, End, Busy, Writing, Call
  <2>2. QED BY <1>1, <1>2, <2>1 DEF CallHolds, IInv, TypeOK, Writing
<1>6. QED BY <1>3, <1>5 DEF ReadsHold, Writing

LEMMA StepHolds ==
  ASSUME IInv, OneConnection, Next PROVE NoLostUpdate' /\ GivenIsTemporary' /\ ReadsHold'
<1>1. ASSUME NEW u \in User, Login(u) \/ SignOn(u) \/ Logout(u) \/ LoadUser(u)
      PROVE UNCHANGED <<life, rows, calls, meant>>
  BY <1>1 DEF Login, SignOn, Logout, LoadUser
<1>2. ASSUME NEW r \in Request, RegisterList(r) \/ RegisterFails(r)
      PROVE UNCHANGED <<life, rows, calls, meant>>
  BY <1>2 DEF RegisterList, RegisterFails
<1>3. ASSUME NEW r \in Request, NEW u \in User, RegisterAdd(r, u)
      PROVE NoLostUpdate' /\ GivenIsTemporary' /\ ReadsHold'
  <2>1. PICK email \in Address :
          Add(u, [email |-> email, password |-> "own", capabilities |-> {"SuperAdmin"},
                  must |-> FALSE, version |-> 1])
    BY <1>3 DEF RegisterAdd
  <2>2. [email |-> email, password |-> "own", capabilities |-> {"SuperAdmin"},
         must |-> FALSE, version |-> 1] \in Row
    BY DEF Row, Capabilities
  <2>3. QED BY <1>3, <2>1, <2>2, AddHolds DEF RegisterAdd
<1>4. ASSUME NEW a \in User, NEW u \in User, Create(a, u)
      PROVE NoLostUpdate' /\ GivenIsTemporary' /\ ReadsHold'
  <2>1. PICK email \in Address, caps \in Capabilities :
          Add(u, [email |-> email, password |-> "given", capabilities |-> caps,
                  must |-> TRUE, version |-> 1])
    BY <1>4 DEF Create
  <2>2. [email |-> email, password |-> "given", capabilities |-> caps,
         must |-> TRUE, version |-> 1] \in Row
    BY DEF Row
  <2>3. QED BY <1>4, <2>1, <2>2, AddHolds DEF Create
<1>5. ASSUME NEW r \in Request, CallFails(r)
      PROVE NoLostUpdate' /\ GivenIsTemporary' /\ ReadsHold'
  BY <1>5, EndHolds DEF CallFails, IInv, NoLostUpdate, GivenIsTemporary, Users
<1>6. QED
  BY <1>1, <1>2, <1>3, <1>4, <1>5, Untouched, FindsHolds, UpdateReadsHolds, UpdateWritesHolds,
     DeleteRowHolds DEF Next, Finds

\* The inductive invariant, with one connection.
THEOREM Invariance ==
  ASSUME OneConnection PROVE Spec => []IInv
<1>1. Init => IInv
  <2>1. Init => NoLostUpdate /\ GivenIsTemporary /\ ReadsHold
    BY DEF Init, NoLostUpdate, GivenIsTemporary, ReadsHold, Users, Busy, Writing
  <2>2. QED BY <2>1, InitType DEF IInv
<1>2. IInv /\ [Next]_vars => IInv'
  <2>1. ASSUME IInv, Next PROVE IInv'
    BY <2>1, StepType, StepHolds DEF IInv
  <2>2. ASSUME IInv, UNCHANGED vars PROVE IInv'
    BY <2>2, StutterType, Untouched DEF IInv, vars
  <2>3. QED BY <2>1, <2>2
<1>3. QED BY <1>1, <1>2, PTL DEF Spec

\* With one connection no handler that hands back a record it read earlier
\* undoes what was acknowledged in between.
THEOREM NothingIsLost ==
  ASSUME OneConnection PROVE Spec => []NoLostUpdate
<1>1. IInv => NoLostUpdate
  BY DEF IInv
<1>2. QED BY <1>1, Invariance, PTL

\* With one connection a password that an administrator chose has to be
\* changed, whichever calls overlapped.
THEOREM GivenPasswordsChange ==
  ASSUME OneConnection PROVE Spec => []GivenIsTemporary
<1>1. IInv => GivenIsTemporary
  BY DEF IInv
<1>2. QED BY <1>1, Invariance, PTL

-----------------------------------------------------------------------------
(* Who is a super administrator: one connection or a pool *)

RankInv == TypeOK /\ RanksHold

\* What a step does to the set of super administrators.
Stay == SuperAdmins \subseteq SuperAdmins' /\ SuperAdmins' \cap Users \subseteq SuperAdmins

\* A step that keeps the rows and adds or removes none.
LEMMA SameRows ==
  ASSUME UNCHANGED <<life, rows>> PROVE Users' = Users /\ SuperAdmins' = SuperAdmins /\ Stay
BY DEF Users, SuperAdmins, Super, Stay

\* The parts of RanksHold that are about no call.
LEMMA StayHolds ==
  ASSUME RankInv, Stay, UNCHANGED loaded, Users' \subseteq Users
  PROVE (\A u \in User : loaded[u] # {} => SuperAdmins # {})' /\ AdministratorStays'
BY DEF RankInv, RanksHold, AdministratorStays, Stay

LEMMA LoadRanks ==
  ASSUME RankInv, NEW u \in User, LoadUser(u) PROVE Stay /\ RanksHold'
<1>1. UNCHANGED <<life, rows, calls>>
  BY DEF LoadUser
<1>2. loaded' = [loaded EXCEPT ![u] = IF u \in Users THEN rows[u].capabilities ELSE {}]
  BY DEF LoadUser
<1>3. ASSUME NEW v \in User, loaded'[v] # {} PROVE SuperAdmins # {}
  <2>1. v = u => Users # {}
    BY <1>2, <1>3 DEF RankInv, TypeOK
  <2>2. v # u => loaded[v] # {}
    BY <1>2, <1>3 DEF RankInv, TypeOK
  <2>3. QED BY <2>1, <2>2 DEF RankInv, RanksHold, AdministratorStays
<1>4. \A r \in Request : Busy(r)' => RankHolds(calls[r])'
  BY <1>1 DEF RankInv, RanksHold, RankHolds, Busy, Users
<1>5. QED BY <1>1, <1>3, <1>4, SameRows DEF RankInv, RanksHold, AdministratorStays

LEMMA QuietRanks ==
  ASSUME RankInv, UNCHANGED <<life, rows, calls, loaded>> PROVE Stay /\ RanksHold'
<1>1. \A r \in Request : Busy(r)' => RankHolds(calls[r])'
  BY DEF RankInv, RanksHold, RankHolds, Busy, Users
<1>2. QED BY <1>1, SameRows, StayHolds DEF RanksHold

\* A new user is no one's call's, and comes after a super administrator or is one.
LEMMA AddRanks ==
  ASSUME RankInv, NEW u \in User, NEW row \in Row, Add(u, row), UNCHANGED <<calls, loaded>>,
         Super(row) \/ SuperAdmins # {}
  PROVE Stay /\ RanksHold'
<1>1. /\ life[u] = "new" /\ life' = [life EXCEPT ![u] = "there"]
      /\ rows' = [rows EXCEPT ![u] = row]
  BY DEF Add
<1>2. Users' = Users \cup {u} /\ u \notin Users
  BY <1>1 DEF RankInv, TypeOK, Users
<1>3. \A v \in User \ {u} : rows'[v] = rows[v]
  BY <1>1 DEF RankInv, TypeOK
<1>4. rows'[u] = row
  BY <1>1 DEF RankInv, TypeOK
<1>5. Stay
  BY <1>2, <1>3 DEF Stay, SuperAdmins, Super, Users
<1>6. SuperAdmins' # {}
  BY <1>2, <1>4, <1>5 DEF Stay, SuperAdmins, Super
<1>7. ASSUME NEW r \in Request, Busy(r)' PROVE RankHolds(calls[r])'
  <2>1. calls[r] \in Call /\ calls[r].user \in User /\ RankHolds(calls[r]) /\ calls'[r] = calls[r]
    BY <1>7 DEF RankInv, TypeOK, RanksHold, Busy, Call
  <2>2. calls[r].user # u
    BY <1>1, <2>1 DEF RankHolds
  <2>3. life'[calls[r].user] = life[calls[r].user]
    BY <1>1, <2>1, <2>2 DEF RankInv, TypeOK
  <2>4. QED BY <1>2, <1>3, <2>1, <2>2, <2>3 DEF RankHolds, Super
<1>8. QED BY <1>5, <1>6, <1>7 DEF RanksHold, AdministratorStays

LEMMA FindsRanks ==
  ASSUME RankInv, NEW r \in Request, Finds(r) PROVE Stay /\ RanksHold'
<1>1. FoundCall(r) /\ UNCHANGED <<life, rows, loaded>>
  BY FindsCall DEF RankInv
<1>2. PICK u \in Users, want \in Row, sets \in SUBSET Fields, kind \in {"update", "delete"} :
        Found(r, kind, u, want, sets) /\ KeepsRank(kind, rows[u], want)
  BY <1>1 DEF FoundCall
<1> DEFINE c == [step |-> "found", kind |-> kind, user |-> u, read |-> rows[u],
                 want |-> want, sets |-> sets]
<1>3. calls' = [calls EXCEPT ![r] = c]
  BY <1>2 DEF Found
<1>4. RankHolds(c)
  <2>1. c.user = u /\ c.want = want /\ c.read = rows[u] /\ c.kind = kind /\ life[u] = "there"
    BY DEF Users
  <2>2. QED BY <1>2, <2>1 DEF RankHolds, KeepsRank
<1> HIDE DEF c
<1>5. ASSUME NEW q \in Request, Busy(q)' PROVE RankHolds(calls[q])'
  <2>1. calls'[q] = IF q = r THEN c ELSE calls[q]
    BY <1>3 DEF RankInv, TypeOK
  <2>2. RankHolds(calls'[q])
    BY <1>4, <1>5, <2>1 DEF RankInv, RanksHold, Busy
  <2>3. QED BY <1>1, <2>2 DEF RankHolds, Users, Super
<1>6. QED BY <1>1, <1>5, SameRows, StayHolds DEF RanksHold

LEMMA UpdateReadsRanks ==
  ASSUME RankInv, NEW r \in Request, UpdateReads(r) PROVE Stay /\ RanksHold'
<1> DEFINE u == calls[r].user
           c == [calls[r] EXCEPT !.step = "writing", !.read = rows[u]]
<1>1. /\ calls[r] \in Call /\ RankHolds(calls[r]) /\ calls[r].kind = "update" /\ u \in Users
      /\ UNCHANGED <<life, rows, loaded>>
  BY DEF UpdateReads, RankInv, TypeOK, RanksHold, Busy
<1>2. calls' = [calls EXCEPT ![r] = c]
  BY <1>1 DEF UpdateReads, RankInv, TypeOK, Call
<1>3. c.user = u /\ c.kind = "update" /\ c.want = calls[r].want /\ c.read = rows[u]
  BY <1>1 DEF Call
<1> HIDE DEF c
<1>4. RankHolds(c)
  BY <1>1, <1>3 DEF RankHolds
<1>5. ASSUME NEW q \in Request, Busy(q)' PROVE RankHolds(calls[q])'
  <2>1. calls'[q] = IF q = r THEN c ELSE calls[q]
    BY <1>2 DEF RankInv, TypeOK
  <2>2. RankHolds(calls'[q])
    BY <1>4, <1>5, <2>1 DEF RankInv, RanksHold, Busy
  <2>3. QED BY <1>1, <2>2 DEF RankHolds, Users, Super
<1>6. QED BY <1>1, <1>5, SameRows, StayHolds DEF RanksHold

\* Whatever of the record reaches the row, the rank is the one the row had.
LEMMA UpdateWritesRanks ==
  ASSUME RankInv, NEW r \in Request, UpdateWrites(r) PROVE Stay /\ RanksHold'
<1> DEFINE c == calls[r]
           u == calls[r].user
           new == NewRow(calls[r], rows[u])
<1>1. c \in Call /\ u \in Users /\ u \in User /\ RankHolds(c) /\ rows[u] \in Row
  BY DEF UpdateWrites, RankInv, TypeOK, RanksHold, Writing, Busy, Users, Call
<1>2. /\ rows' = [rows EXCEPT ![u] = new] /\ End(r) /\ UNCHANGED <<life, loaded>>
  BY DEF UpdateWrites
<1>3. Super(new) = Super(rows[u])
  <2>1. new.capabilities \in {rows[u].capabilities, c.want.capabilities}
    BY <1>1 DEF NewRow, Merge
  <2>2. QED BY <1>1, <2>1 DEF RankHolds, Super
<1> HIDE DEF new
<1>4. Users' = Users
  BY <1>2 DEF Users
<1>5. \A v \in User : Super(rows'[v]) = Super(rows[v])
  BY <1>1, <1>2, <1>3 DEF RankInv, TypeOK
<1>6. Stay
  BY <1>4, <1>5 DEF Stay, SuperAdmins, Super, Users
<1>7. ASSUME NEW q \in Request, Busy(q)' PROVE RankHolds(calls[q])'
  <2>1. /\ calls[q] \in Call /\ calls[q].user \in User /\ RankHolds(calls[q])
        /\ calls'[q] = calls[q]
    BY <1>2, <1>7 DEF RankInv, TypeOK, RanksHold, Busy, End, Call
  <2>2. Super(rows'[calls[q].user]) = Super(rows[calls[q].user])
    BY <1>5, <2>1
  <2>3. QED BY <1>2, <1>4, <2>1, <2>2 DEF RankHolds, Super
<1>8. QED BY <1>2, <1>4, <1>6, <1>7, StayHolds DEF RanksHold

LEMMA DeleteRowRanks ==
  ASSUME RankInv, NEW r \in Request, DeleteRow(r) PROVE Stay /\ RanksHold'
<1> DEFINE u == calls[r].user
<1>1. /\ life' = [life EXCEPT ![u] = "gone"] /\ rows' = [rows EXCEPT ![u] = NoRow]
      /\ End(r) /\ UNCHANGED loaded /\ u \in Users /\ u \in User /\ ~Super(rows[u])
  BY DEF DeleteRow, Users, RankInv, RanksHold, RankHolds
<1>2. Users' = Users \ {u}
  BY <1>1 DEF RankInv, TypeOK, Users
<1>3. \A v \in User \ {u} : rows'[v] = rows[v] /\ life'[v] = life[v]
  BY <1>1 DEF RankInv, TypeOK
<1>4. Stay
  BY <1>1, <1>2, <1>3 DEF Stay, SuperAdmins, Super, Users
<1>5. ~Super(rows'[u]) /\ life'[u] = "gone"
  BY <1>1 DEF RankInv, TypeOK, Super, NoRow
<1>6. ASSUME NEW q \in Request, Busy(q)' PROVE RankHolds(calls[q])'
  <2>1. /\ calls[q] \in Call /\ calls[q].user \in User /\ RankHolds(calls[q])
        /\ calls'[q] = calls[q]
    BY <1>1, <1>6 DEF RankInv, TypeOK, RanksHold, Busy, End, Call
  <2>2. CASE calls[q].user = u
    BY <1>2, <1>5, <2>1, <2>2 DEF RankHolds, Super
  <2>3. CASE calls[q].user # u
    BY <1>2, <1>3, <2>1, <2>3 DEF RankHolds, Super
  <2>4. QED BY <2>2, <2>3
<1>7. QED BY <1>1, <1>2, <1>4, <1>6, StayHolds DEF RanksHold

LEMMA CallFailsRanks ==
  ASSUME RankInv, NEW r \in Request, CallFails(r) PROVE Stay /\ RanksHold'
<1>1. UNCHANGED <<life, rows, loaded>> /\ End(r)
  BY DEF CallFails
<1>2. \A q \in Request : Busy(q)' => Busy(q) /\ calls'[q] = calls[q]
  BY <1>1 DEF RankInv, TypeOK, End, Busy
<1>3. \A q \in Request : Busy(q)' => RankHolds(calls[q])'
  BY <1>1, <1>2 DEF RankInv, RanksHold, RankHolds, Users, Super
<1>4. QED BY <1>1, <1>3, SameRows, StayHolds DEF RanksHold

LEMMA StepRanks ==
  ASSUME RankInv, Next PROVE Stay /\ RanksHold'
<1>1. ASSUME NEW u \in User, Login(u) \/ SignOn(u) \/ Logout(u)
      PROVE UNCHANGED <<life, rows, calls, loaded>>
  BY <1>1 DEF Login, SignOn, Logout
<1>2. ASSUME NEW r \in Request, RegisterList(r) \/ RegisterFails(r)
      PROVE UNCHANGED <<life, rows, calls, loaded>>
  BY <1>2 DEF RegisterList, RegisterFails
<1>3. ASSUME NEW r \in Request, NEW u \in User, RegisterAdd(r, u) PROVE Stay /\ RanksHold'
  <2>1. PICK email \in Address :
          Add(u, [email |-> email, password |-> "own", capabilities |-> {"SuperAdmin"},
                  must |-> FALSE, version |-> 1])
    BY <1>3 DEF RegisterAdd
  <2> DEFINE row == [email |-> email, password |-> "own", capabilities |-> {"SuperAdmin"},
                     must |-> FALSE, version |-> 1]
  <2>2. row \in Row /\ Super(row)
    BY DEF Row, Capabilities, Super
  <2>3. Add(u, row) /\ UNCHANGED <<calls, loaded>>
    BY <1>3, <2>1 DEF RegisterAdd
  <2> HIDE DEF row
  <2>4. QED BY <2>2, <2>3, AddRanks
<1>4. ASSUME NEW a \in User, NEW u \in User, Create(a, u) PROVE Stay /\ RanksHold'
  <2>1. PICK email \in Address, caps \in Capabilities :
          Add(u, [email |-> email, password |-> "given", capabilities |-> caps,
                  must |-> TRUE, version |-> 1])
    BY <1>4 DEF Create
  <2> DEFINE row == [email |-> email, password |-> "given", capabilities |-> caps,
                     must |-> TRUE, version |-> 1]
  <2>2. row \in Row
    BY DEF Row
  <2>3. Add(u, row) /\ UNCHANGED <<calls, loaded>>
    BY <1>4, <2>1 DEF Create
  <2>4. SuperAdmins # {}
    BY <1>4 DEF Create, IsAdmin, RankInv, RanksHold
  <2> HIDE DEF row
  <2>5. QED BY <2>2, <2>3, <2>4, AddRanks
<1>5. QED
  BY <1>1, <1>2, <1>3, <1>4, LoadRanks, QuietRanks, FindsRanks, UpdateReadsRanks,
     UpdateWritesRanks, DeleteRowRanks, CallFailsRanks DEF Next, Finds

\* In every row read, handed back or stored the same users are super
\* administrators, and whoever has permissions got them when there was one.
THEOREM RankInvariance == Spec => []RankInv
<1>1. Init => RankInv
  <2>1. Init => RanksHold
    BY DEF Init, RanksHold, AdministratorStays, Busy, Users
  <2>2. QED BY <2>1, InitType DEF RankInv
<1>2. RankInv /\ [Next]_vars => RankInv'
  <2>1. ASSUME RankInv, Next PROVE RankInv'
    BY <2>1, StepType, StepRanks DEF RankInv
  <2>2. ASSUME RankInv, UNCHANGED vars PROVE RankInv'
    BY <2>2, StutterType, QuietRanks DEF RankInv, vars
  <2>3. QED BY <2>1, <2>2
<1>3. QED BY <1>1, <1>2, PTL DEF Spec

\* The checks of admin_update_user and admin_delete_user read a row in one
\* transaction and act on it in another; all the same no super administrator
\* is ever demoted or deleted, and nobody but register_admin makes one, with
\* one connection or with a pool.
THEOREM SuperAdminsStay == Spec => SuperAdminsKept
<1>1. RankInv /\ [Next]_vars => [Stay]_vars
  BY StepRanks
<1>2. [Stay]_vars <=> [/\ SuperAdmins \subseteq SuperAdmins'
                       /\ SuperAdmins' \cap Users \subseteq SuperAdmins]_vars
  BY DEF Stay
<1>3. QED BY <1>1, <1>2, RankInvariance, PTL DEF Spec, SuperAdminsKept

\* Nobody can lock an installation out of its administration: as soon as it
\* has users, one of them is a super administrator.
THEOREM AdministratorIsThere == Spec => []AdministratorStays
<1>1. RankInv => AdministratorStays
  BY DEF RankInv, RanksHold
<1>2. QED BY <1>1, RankInvariance, PTL

-----------------------------------------------------------------------------
(* The first administrator *)

BootInv == RankInv /\ NoneYet /\ RegistersOnce

\* A step that adds no user.
LEMMA NoNewUser ==
  ASSUME BootInv, Next, Users' \subseteq Users, registering' \subseteq registering
  PROVE NoneYet' /\ RegistersOnce'
<1>1. SuperAdmins' \subseteq SuperAdmins
  BY StepRanks DEF BootInv, Stay, SuperAdmins
<1>2. \A u, v \in SuperAdmins : u = v
  BY DEF BootInv, RegistersOnce, SuperAdmins, Super
<1>3. \A u, v \in Users' : Super(rows'[u]) /\ Super(rows'[v]) => u = v
  BY <1>1, <1>2 DEF SuperAdmins, Super
<1>4. QED BY <1>3 DEF BootInv, NoneYet, RegistersOnce, Super

LEMMA BootAdds ==
  ASSUME BootInv, OneRegistration, NEW r \in Request, NEW u \in User, RegisterAdd(r, u)
  PROVE NoneYet' /\ RegistersOnce'
<1>1. registering' = {} /\ Users = {} /\ life' = [life EXCEPT ![u] = "there"]
  BY DEF RegisterAdd, OneRegistration, BootInv, NoneYet, Add
<1>2. Users' \subseteq {u}
  BY <1>1 DEF Users, BootInv, RankInv, TypeOK
<1>3. QED BY <1>1, <1>2 DEF NoneYet, RegistersOnce

LEMMA BootCreates ==
  ASSUME BootInv, NEW a \in User, NEW u \in User, Create(a, u)
  PROVE NoneYet' /\ RegistersOnce'
<1>1. PICK row \in Row : Add(u, row) /\ ~Super(row) /\ UNCHANGED registering
  <2>1. PICK email \in Address, caps \in Capabilities :
          /\ "SuperAdmin" \notin caps
          /\ Add(u, [email |-> email, password |-> "given", capabilities |-> caps,
                     must |-> TRUE, version |-> 1])
    BY DEF Create
  <2>2. [email |-> email, password |-> "given", capabilities |-> caps,
         must |-> TRUE, version |-> 1] \in Row
    BY DEF Row
  <2>3. QED BY <2>1, <2>2 DEF Super, Create
<1>2. registering = {}
  <2>1. Users # {}
    BY DEF Create, IsAdmin, BootInv, RankInv, RanksHold, SuperAdmins
  <2>2. QED BY <2>1 DEF BootInv, NoneYet
<1>3. /\ life' = [life EXCEPT ![u] = "there"] /\ rows' = [rows EXCEPT ![u] = row]
      /\ life \in [User -> {"new", "there", "gone"}] /\ rows \in [User -> Row]
  BY <1>1 DEF Add, BootInv, RankInv, TypeOK
<1>4. \A v \in Users' : Super(rows'[v]) => v \in Users /\ Super(rows[v])
  BY <1>1, <1>3 DEF Users, Super
<1>5. RegistersOnce'
  BY <1>4 DEF BootInv, RegistersOnce, Super
<1>6. QED BY <1>1, <1>2, <1>5 DEF NoneYet

\* Without two overlapping calls of register_admin there is one administrator
\* that it made, whatever else goes on: what its comment says of it fails for
\* no other reason.
THEOREM BootstrapOnce == Spec /\ []OneRegistration => []RegistersOnce
<1>1. Init => BootInv
  <2>1. Init => RankInv
    BY InitType DEF RankInv, Init, RanksHold, AdministratorStays, Busy, Users
  <2>2. QED BY <2>1 DEF BootInv, Init, NoneYet, RegistersOnce, Users
<1>2. BootInv /\ OneRegistration /\ [Next]_vars => BootInv'
  <2>1. ASSUME BootInv, OneRegistration, Next PROVE NoneYet' /\ RegistersOnce'
    <3>1. ASSUME NEW u \in User, Login(u) \/ SignOn(u) \/ Logout(u) \/ LoadUser(u)
          PROVE Users' \subseteq Users /\ registering' \subseteq registering
      BY <3>1 DEF Login, SignOn, Logout, LoadUser, Users
    <3>2. ASSUME NEW r \in Request, RegisterList(r) PROVE NoneYet' /\ RegistersOnce'
      BY <2>1, <3>2 DEF RegisterList, BootInv, NoneYet, RegistersOnce, Users
    <3>3. ASSUME NEW r \in Request, RegisterFails(r) \/ UpdateReads(r) \/ UpdateWrites(r) \/ CallFails(r)
          PROVE Users' \subseteq Users /\ registering' \subseteq registering
      BY <3>3 DEF RegisterFails, UpdateReads, UpdateWrites, CallFails, Users
    <3>4. ASSUME NEW r \in Request, DeleteRow(r)
          PROVE Users' \subseteq Users /\ registering' \subseteq registering
      BY <2>1, <3>4 DEF DeleteRow, Users, BootInv, RankInv, TypeOK
    <3>5. ASSUME NEW r \in Request, Finds(r)
          PROVE Users' \subseteq Users /\ registering' \subseteq registering
      BY <2>1, <3>5, FindsCall DEF Users, BootInv, RankInv
    <3>6. QED
      BY <2>1, <3>1, <3>2, <3>3, <3>4, <3>5, NoNewUser, BootAdds, BootCreates DEF Next, Finds
  <2>2. ASSUME BootInv, UNCHANGED vars PROVE NoneYet' /\ RegistersOnce'
    BY <2>2 DEF BootInv, NoneYet, RegistersOnce, Users, vars
  <2>3. RankInv /\ [Next]_vars => RankInv'
    BY StepType, StepRanks, StutterType, QuietRanks DEF RankInv, vars
  <2>4. QED BY <2>1, <2>2, <2>3 DEF BootInv
<1>3. BootInv => RegistersOnce
  BY DEF BootInv
<1>4. QED BY <1>1, <1>2, <1>3, PTL DEF Spec
=============================================================================
