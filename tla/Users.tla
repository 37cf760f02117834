-------------------------------- MODULE Users --------------------------------
(***************************************************************************)
(* The users of an installation and everything that writes their rows:     *)
(* the bootstrap form, the forced change of a password, the profile page,  *)
(* and the administrators' create, update and delete                       *)
(* (frontend/src/routes, core/src/user, database/src/adapters/user.rs).    *)
(*                                                                         *)
(* Every handler that updates a row reads it in one transaction and hands  *)
(* the whole record to update_user, which runs in another one.  Only the   *)
(* version column keeps what was acknowledged in between.                  *)
(*                                                                         *)
(* A row keeps what the handlers tell apart: the address (the full name    *)
(* goes with it; of the two only the address is unique), who chose the     *)
(* password, the capabilities, change_password_on_login and the version.   *)
(* Sessions and the permissions the session layer loaded are kept apart    *)
(* from the rows, as they are in the code: a request acts on permissions   *)
(* that were loaded at some earlier time.                                  *)
(***************************************************************************)
EXTENDS Integers

CONSTANTS
    User,            \* the tokens that add_user may generate
    Request,         \* calls in progress at a time
    Address,         \* e-mail addresses
    NoAddress,       \* the address of no row
    OneConnection,   \* TRUE: SQLite, one connection, so transactions take turns;
                     \* FALSE: a pool of connections at read committed
    MaxVersion       \* bound: updates of one row

ASSUME NoAddressAssumption == NoAddress \notin Address
ASSUME OneConnectionAssumption == OneConnection \in BOOLEAN
ASSUME MaxVersionAssumption == MaxVersion \in Nat

Capabilities == {{}, {"Admin"}, {"SuperAdmin"}}   \* the roles the form offers
Fields == {"email", "password", "capabilities", "must"}
Row == [email : Address \cup {NoAddress}, password : {"own", "given"}, capabilities : Capabilities,
        must : BOOLEAN, version : Nat]

\* An update of a row: the record its handler read, the one it hands to
\* update_user, and the fields it means to set.
Call == [step : {"found", "writing"}, kind : {"update", "delete"},
         user : User, read : Row, want : Row, sets : SUBSET Fields]

VARIABLES
    life,            \* each token: not generated yet, a row of users, or deleted
    rows,            \* the table users
    session,         \* users with a session
    loaded,          \* the capabilities the session layer last loaded for a user
    registering,     \* calls of register_admin that found no user
    calls,           \* the other calls in progress, that found a row
    meant            \* history: what acknowledged calls made of a row

vars == <<life, rows, session, loaded, registering, calls, meant>>

Users == {u \in User : life[u] = "there"}

Busy(r) == calls[r] # <<>>
Idle(r) == ~Busy(r) /\ r \notin registering
End(r) == calls' = [calls EXCEPT ![r] = <<>>]

\* A transaction can begin: with one connection, when no other one is open.
Writing(r) == Busy(r) /\ calls[r].step = "writing"
Free == OneConnection => \A r \in Request : ~Writing(r)

NoRow == [email |-> NoAddress, password |-> "own", capabilities |-> {}, must |-> FALSE,
          version |-> 0]

Init ==
    /\ life = [u \in User |-> "new"]
    /\ rows = [u \in User |-> NoRow]
    /\ session = {}
    /\ loaded = [u \in User |-> {}]
    /\ registering = {}
    /\ calls = [r \in Request |-> <<>>]
    /\ meant = rows

-----------------------------------------------------------------------------
\* Sessions.

\* perform_login: the row is read in one transaction; who has to change the
\* password first gets no session.
Login(u) ==
    /\ Free /\ u \in Users
    /\ ~rows[u].must
    /\ session' = session \cup {u}
    /\ UNCHANGED <<life, rows, loaded, registering, calls, meant>>

\* The end of the OIDC callback: the user with the address of the ID token.
SignOn(u) ==
    /\ Free /\ u \in Users
    /\ session' = session \cup {u}
    /\ UNCHANGED <<life, rows, loaded, registering, calls, meant>>

Logout(u) ==
    /\ u \in session
    /\ session' = session \ {u}
    /\ UNCHANGED <<life, rows, loaded, registering, calls, meant>>

\* AuthUser::load_user; a user who is gone is anonymous and has no permissions.
LoadUser(u) ==
    /\ Free /\ u \in session
    /\ loaded' = [loaded EXCEPT ![u] = IF u \in Users THEN rows[u].capabilities ELSE {}]
    /\ UNCHANGED <<life, rows, session, registering, calls, meant>>

-----------------------------------------------------------------------------
\* New rows.

Unique(u, email) == \A v \in Users \ {u} : rows[v].email # email

\* add_user: one transaction; before_save makes the first version 1.
Add(u, row) ==
    /\ life[u] = "new"
    /\ Unique(u, row.email)
    /\ life' = [life EXCEPT ![u] = "there"]
    /\ rows' = [rows EXCEPT ![u] = row]
    /\ meant' = [meant EXCEPT ![u] = row]

\* register_admin reads in one transaction whether there are users ...
RegisterList(r) ==
    /\ Free /\ Idle(r)
    /\ Users = {}
    /\ registering' = registering \cup {r}
    /\ UNCHANGED <<life, rows, session, loaded, calls, meant>>

\* ... and adds the administrator in another.
RegisterAdd(r, u) ==
    /\ Free /\ r \in registering
    /\ \E email \in Address :
         Add(u, [email |-> email, password |-> "own", capabilities |-> {"SuperAdmin"},
                 must |-> FALSE, version |-> 1])
    /\ session' = session \cup {u}
    /\ registering' = registering \ {r}
    /\ UNCHANGED <<loaded, calls>>

RegisterFails(r) ==
    /\ r \in registering
    /\ registering' = registering \ {r}
    /\ UNCHANGED <<life, rows, session, loaded, calls, meant>>

IsAdmin(a) == a \in session /\ loaded[a] # {}

\* admin_create_user: the new user gets a password to be changed.
Create(a, u) ==
    /\ Free /\ IsAdmin(a)
    /\ \E email \in Address, caps \in Capabilities :
         /\ "SuperAdmin" \notin caps
         /\ "Admin" \in caps => "SuperAdmin" \in loaded[a]
         /\ Add(u, [email |-> email, password |-> "given", capabilities |-> caps,
                    must |-> TRUE, version |-> 1])
    /\ UNCHANGED <<session, loaded, registering, calls>>

-----------------------------------------------------------------------------
\* Updates: find the row, check, and hand the changed record on.

Found(r, kind, u, want, sets) ==
    calls' = [calls EXCEPT ![r] = [step |-> "found", kind |-> kind, user |-> u,
                                   read |-> rows[u], want |-> want, sets |-> sets]]

\* change_initial_password: only a pending change, made with the user's token.
ChangeInitialPassword(r, u) ==
    /\ Free /\ Idle(r) /\ u \in Users
    /\ rows[u].must
    /\ Found(r, "update", u, [rows[u] EXCEPT !.password = "own", !.must = FALSE],
             {"password", "must"})
    /\ UNCHANGED <<life, rows, session, loaded, registering, meant>>

UpdateProfile(r, a) ==
    /\ Free /\ Idle(r) /\ a \in session \cap Users
    /\ \E email \in Address :
         Found(r, "update", a, [rows[a] EXCEPT !.email = email], {"email"})
    /\ UNCHANGED <<life, rows, session, loaded, registering, meant>>

ChangePassword(r, a) ==
    /\ Free /\ Idle(r) /\ a \in session \cap Users
    /\ Found(r, "update", a, [rows[a] EXCEPT !.password = "own"], {"password"})
    /\ UNCHANGED <<life, rows, session, loaded, registering, meant>>

\* Mutant: only a super administrator may make or unmake another one.
MayGive_ByRank(a, caps, new) ==
    /\ "SuperAdmin" \in caps \cup new => "SuperAdmin" \in loaded[a]
    /\ "Admin" \in new => "SuperAdmin" \in loaded[a]

\* What an administrator may make of the capabilities of a user.
MayGive(a, caps, new) ==
    /\ "SuperAdmin" \in caps => "SuperAdmin" \in loaded[a]
    /\ "SuperAdmin" \in new <=> "SuperAdmin" \in caps
    /\ "Admin" \in new => "SuperAdmin" \in loaded[a]

\* admin_update_user without a password, and with one; the password of
\* somebody else has to be changed at the next login.
AdminUpdate(r, a, u) ==
    /\ Free /\ Idle(r) /\ IsAdmin(a) /\ u \in Users
    /\ \E email \in Address, caps \in Capabilities :
         /\ MayGive(a, rows[u].capabilities, caps)
         /\ Found(r, "update", u, [rows[u] EXCEPT !.email = email, !.capabilities = caps],
                  {"email", "capabilities"})
    /\ UNCHANGED <<life, rows, session, loaded, registering, meant>>

\* Mutant: admin_update_user sets the flag only when it changes nothing else.
AdminReset_KeepsFlag(r, a, u) ==
    /\ Free /\ Idle(r) /\ IsAdmin(a) /\ u \in Users
    /\ \E email \in Address, caps \in Capabilities :
         /\ MayGive(a, rows[u].capabilities, caps)
         /\ Found(r, "update", u, [rows[u] EXCEPT !.email = email, !.capabilities = caps,
                                                  !.password = "given"],
                  {"email", "capabilities", "password"})
    /\ UNCHANGED <<life, rows, session, loaded, registering, meant>>

AdminReset(r, a, u) ==
    /\ Free /\ Idle(r) /\ IsAdmin(a) /\ u \in Users
    /\ \E email \in Address, caps \in Capabilities :
         /\ MayGive(a, rows[u].capabilities, caps)
         /\ IF a = u
            THEN Found(r, "update", u, [rows[u] EXCEPT !.email = email, !.capabilities = caps,
                                                       !.password = "own"],
                       {"email", "capabilities", "password"})
            ELSE Found(r, "update", u, [rows[u] EXCEPT !.email = email, !.capabilities = caps,
                                                       !.password = "given", !.must = TRUE],
                       Fields)
    /\ UNCHANGED <<life, rows, session, loaded, registering, meant>>

\* admin_delete_user finds the row and checks it ...
AdminDelete(r, a, u) ==
    /\ Free /\ Idle(r) /\ IsAdmin(a) /\ u \in Users
    /\ a # u
    /\ "SuperAdmin" \notin rows[u].capabilities
    /\ Found(r, "delete", u, rows[u], {})
    /\ UNCHANGED <<life, rows, session, loaded, registering, meant>>

-----------------------------------------------------------------------------
\* Mutant: update_user without the comparison of versions.
Conflicts_Never(call) == FALSE

\* update_user reads the row again in its transaction ...
Conflicts(call) == rows[call.user].version # call.want.version

UpdateReads(r) ==
    /\ Free /\ Busy(r) /\ calls[r].step = "found" /\ calls[r].kind = "update"
    /\ calls[r].user \in Users
    /\ ~Conflicts(calls[r])
    /\ calls' = [calls EXCEPT ![r].step = "writing", ![r].read = rows[calls[r].user]]
    /\ UNCHANGED <<life, rows, session, loaded, registering, meant>>

\* The row with some of its fields taken from the record.
Merge(row, record, fields) ==
    [email |-> IF "email" \in fields THEN record.email ELSE row.email,
     password |-> IF "password" \in fields THEN record.password ELSE row.password,
     capabilities |-> IF "capabilities" \in fields THEN record.capabilities ELSE row.capabilities,
     must |-> IF "must" \in fields THEN record.must ELSE row.must,
     version |-> row.version]

\* ... and sets the columns in which the record differs from it; before_save
\* counts the version up from the one read if there are any.  The hash of a password
\* that was set is always another, also that of the same password.
Changed(call) ==
    {f \in Fields : call.want[f] # call.read[f]} \cup ({"password"} \cap call.sets)

NewRow(call, row) ==
    [Merge(row, call.want, Changed(call)) EXCEPT
        !.version = IF Changed(call) # {} THEN call.read.version + 1 ELSE @]

UpdateWrites(r) ==
    /\ Writing(r)
    /\ LET call == calls[r]  u == calls[r].user
       IN /\ u \in Users
          /\ call.read.version < MaxVersion
          /\ "email" \in Changed(call) => Unique(u, call.want.email)
          /\ rows' = [rows EXCEPT ![u] = NewRow(call, rows[u])]
          /\ meant' = [meant EXCEPT ![u] = Merge(@, call.want, call.sets)]
    /\ End(r)
    /\ UNCHANGED <<life, session, loaded, registering>>

\* Mutant: delete_user leaves the row and only ends the sessions.
DeleteRow_Keeps(r) ==
    /\ Free /\ Busy(r) /\ calls[r].step = "found" /\ calls[r].kind = "delete"
    /\ life' = [life EXCEPT ![calls[r].user] = "gone"]
    /\ End(r)
    /\ UNCHANGED <<rows, meant, session, loaded, registering>>

\* delete_user reads the row again in its transaction: its version check
\* compares the row with itself.
DeleteRow(r) ==
    /\ Free /\ Busy(r) /\ calls[r].step = "found" /\ calls[r].kind = "delete"
    /\ calls[r].user \in Users
    /\ life' = [life EXCEPT ![calls[r].user] = "gone"]
    /\ rows' = [rows EXCEPT ![calls[r].user] = NoRow]
    /\ meant' = [meant EXCEPT ![calls[r].user] = NoRow]
    /\ End(r)
    /\ UNCHANGED <<session, loaded, registering>>

\* NotFound, Conflict, Constraint or another error of the database: the
\* transaction, if one is open, is rolled back.
CallFails(r) ==
    /\ Busy(r)
    /\ End(r)
    /\ UNCHANGED <<life, rows, session, loaded, registering, meant>>

-----------------------------------------------------------------------------
Next ==
    \/ \E u \in User : Login(u) \/ SignOn(u) \/ Logout(u) \/ LoadUser(u)
    \/ \E r \in Request : \/ RegisterList(r) \/ RegisterFails(r)
                          \/ UpdateReads(r) \/ UpdateWrites(r) \/ DeleteRow(r) \/ CallFails(r)
    \/ \E a, u \in User : Create(a, u)
    \/ \E r \in Request, u \in User :
         \/ RegisterAdd(r, u)
         \/ ChangeInitialPassword(r, u) \/ UpdateProfile(r, u) \/ ChangePassword(r, u)
    \/ \E r \in Request, a, u \in User :
         AdminUpdate(r, a, u) \/ AdminReset(r, a, u) \/ AdminDelete(r, a, u)

Spec == Init /\ [][Next]_vars

-----------------------------------------------------------------------------
\* Properties.

\* Every row has a version that is not 0, and a token without a row has none:
\* a deleted token never gets one again.
TypeOK ==
    /\ life \in [User -> {"new", "there", "gone"}]
    /\ rows \in [User -> Row] /\ meant \in [User -> Row]
    /\ session \subseteq User /\ registering \subseteq Request
    /\ loaded \in [User -> Capabilities]
    /\ calls \in [Request -> Call \cup {<<>>}]
    /\ \A u \in User : life[u] = "there" <=> rows[u].version > 0

\* What an acknowledged call set stays until an acknowledged call that means
\* to set it again: a handler that hands back the record it read earlier
\* (update_profile, change_password, admin_update_user) undoes nothing that
\* was acknowledged in between.
NoLostUpdate ==
    \A u \in Users : rows[u] = [meant[u] EXCEPT !.version = rows[u].version]

\* A password that somebody else chose (admin_create_user, admin_update_user)
\* has to be changed at the next login, whichever calls of the user and of
\* administrators overlapped.
GivenIsTemporary ==
    \A u \in Users : rows[u].password = "given" => rows[u].must

\* A call that found its row hands back a record that differs from it only in
\* the fields it sets; while the versions agree the row is still the one it
\* read, and with one connection an open transaction keeps it so.
CallHolds(c) ==
    /\ life[c.user] # "new"
    /\ c.kind = "update" =>
         /\ c.want = [Merge(c.read, c.want, c.sets) EXCEPT !.version = c.read.version]
         /\ c.want.password = "given" => c.want.must
         /\ c.user \in Users =>
              /\ c.want.version <= rows[c.user].version
              /\ c.want.version = rows[c.user].version => c.read = rows[c.user]
    /\ c.step = "writing" => c.kind = "update" /\ c.user \in Users /\ c.read = rows[c.user]

ReadsHold ==
    /\ \A r \in Request : Busy(r) => CallHolds(calls[r])
    /\ \A q, r \in Request : Writing(q) /\ Writing(r) => q = r

\* The inductive invariant, for one connection.
IInv == TypeOK /\ NoLostUpdate /\ GivenIsTemporary /\ ReadsHold

Super(row) == "SuperAdmin" \in row.capabilities
SuperAdmins == {u \in Users : Super(rows[u])}

\* Nobody demotes or deletes a super administrator or makes one of a user
\* there is (the checks of admin_update_user and admin_delete_user), although
\* each checks a row that others may write before it does.
SuperAdminsKept ==
    [][/\ SuperAdmins \subseteq SuperAdmins'
       /\ SuperAdmins' \cap Users \subseteq SuperAdmins]_vars

\* An installation with users has a super administrator among them.
AdministratorStays == Users # {} => SuperAdmins # {}

\* No call changes who is one: in the row it read, in the record it hands back
\* and in the table the answer is the same, or the row is gone.
RankHolds(c) ==
    /\ life[c.user] # "new"
    /\ c.user \in Users => Super(c.read) = Super(rows[c.user]) /\ Super(c.want) = Super(rows[c.user])
    /\ c.kind = "delete" => ~Super(rows[c.user])

\* Permissions were loaded from a row, so there was a super administrator then.
RanksHold ==
    /\ \A r \in Request : Busy(r) => RankHolds(calls[r])
    /\ \A u \in User : loaded[u] # {} => SuperAdmins # {}
    /\ AdministratorStays

\* "Fails if any user already exists, so this can only run once during initial
\* bootstrap" (the comment of register_admin): there are never two
\* administrators that register_admin made.  Nothing else makes SuperAdmins.
RegistersOnce ==
    \A u, v \in Users :
        "SuperAdmin" \in rows[u].capabilities /\ "SuperAdmin" \in rows[v].capabilities => u = v

\* It is so as long as no two calls of register_admin overlap: while one that
\* found no user is in progress there is none.
OneRegistration == \A q, r \in registering : q = r
NoneYet == registering # {} => Users = {}

=============================================================================
