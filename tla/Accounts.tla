------------------------------ MODULE Accounts ------------------------------
(***************************************************************************)
(* User accounts (src/service/src/handlers/auth_handler.rs: login,         *)
(* change_password, create_user, update_user, delete_user;                 *)
(* src/service/src/auth.rs: ensure_default_admin; the users table of       *)
(* src/service/src/store/sqlite_store.rs).                                 *)
(*                                                                         *)
(* A handler makes one statement after another, each of which is atomic    *)
(* and may fail, and may be dropped in between.  A change of password is   *)
(* an insertion, which is refused as long as the account exists, a         *)
(* deletion and another insertion, and ignores the outcome of all three.   *)
(***************************************************************************)
EXTENDS Naturals

CONSTANTS
  Accounts,       \* user names
  Passwords,
  Settings,       \* a role and whether the account is enabled
  Requests,       \* slots for requests in flight
  Admin,          \* the account that is made at start-up
  AdminRow,       \* its default password and settings
  None            \* no account; a field that an update leaves alone

Rows == [pw : Passwords, settings : Settings]

ASSUME AccountsAssumption ==
  /\ Admin \in Accounts /\ AdminRow \in Rows
  /\ None \notin Rows \cup Passwords \cup Settings

VARIABLES
  row,        \* the users table: a row of each account, or None
  req,        \* what a request is about to do, to which account, with what
  gone,       \* history: accounts that were deleted, or cut off in the middle
              \* of a change of password, and not made again since
  want,       \* history: the rows as the answers given so far describe them
  mixed       \* history: accounts on which requests have overlapped, or one
              \* has failed or been dropped

vars == <<row, req, gone, want, mixed>>

Idle == [step |-> "idle", acct |-> Admin, pw |-> None, settings |-> None]

Init ==
  /\ row \in [Accounts -> Rows \cup {None}]
  /\ req = [r \in Requests |-> Idle]
  /\ gone = {a \in Accounts : row[a] = None}
  /\ want = row
  /\ mixed = {}

-----------------------------------------------------------------------------
Step(r) == req[r].step
Acct(r) == req[r].acct
Value(r) == [pw |-> req[r].pw, settings |-> req[r].settings]

Busy(a) == \E q \in Requests : Step(q) # "idle" /\ Acct(q) = a

\* The handler has read the table and goes on to the named statement.
Begin(r, step, a, pw, settings) ==
  /\ Step(r) = "idle"
  /\ req' = [req EXCEPT ![r] =
               [step |-> step, acct |-> a, pw |-> pw, settings |-> settings]]
  /\ mixed' = IF Busy(a) THEN mixed \cup {a} ELSE mixed
  /\ UNCHANGED <<row, gone, want>>

Goto(r, step) == req' = [req EXCEPT ![r].step = step]
Answer(r) == req' = [req EXCEPT ![r] = Idle]

\* INSERT: refused when there is a row.
Insert(a, v) ==
  /\ row' = IF row[a] = None THEN [row EXCEPT ![a] = v] ELSE row
  /\ gone' = gone \ {a}

\* DELETE, of a row or of none
Delete(a) == row' = [row EXCEPT ![a] = None]

\* The statement fails.
Fails(r) ==
  /\ mixed' = mixed \cup {Acct(r)}
  /\ UNCHANGED row

-----------------------------------------------------------------------------
(* change_password                                                         *)

\* get_user, and the old password is the right one
ReadForChange(r, a, new) ==
  /\ row[a] # None
  /\ Begin(r, "insert", a, new, row[a].settings)

\* create_user of the account that exists
InsertOver(r) ==
  /\ Step(r) = "insert"
  /\ \/ Insert(Acct(r), Value(r)) /\ UNCHANGED mixed
     \/ Fails(r) /\ UNCHANGED gone
  /\ Goto(r, "remove")
  /\ UNCHANGED want

\* Slip: the first insertion is taken to have made the new row.
RemoveOldOnly(r) ==
  /\ Step(r) = "remove"
  /\ Delete(Acct(r))
  /\ Answer(r)
  /\ want' = [want EXCEPT ![Acct(r)] = Value(r)]
  /\ UNCHANGED <<gone, mixed>>

RemoveOld(r) ==
  /\ Step(r) = "remove"
  /\ \/ Delete(Acct(r)) /\ UNCHANGED mixed
     \/ Fails(r)
  /\ Goto(r, "reinsert")
  /\ UNCHANGED <<gone, want>>

\* Slip: the new row is made with the settings of a new account.
ReinsertDefault(r) ==
  /\ Step(r) = "reinsert"
  /\ \/ Insert(Acct(r), [Value(r) EXCEPT !.settings = AdminRow.settings]) /\ UNCHANGED mixed
     \/ Fails(r) /\ gone' = gone \cup {Acct(r)}
  /\ want' = [want EXCEPT ![Acct(r)] = Value(r)]
  /\ Answer(r)

\* create_user once more, and the answer is success in any case
Reinsert(r) ==
  /\ Step(r) = "reinsert"
  /\ \/ Insert(Acct(r), Value(r)) /\ UNCHANGED mixed
     \/ Fails(r) /\ gone' = gone \cup {Acct(r)}
  /\ want' = [want EXCEPT ![Acct(r)] = Value(r)]
  /\ Answer(r)

-----------------------------------------------------------------------------
(* The other requests.                                                     *)

\* create_user found no account, or could not look.
ReadForCreate(r, a, v) == Begin(r, "create", a, v.pw, v.settings)

\* login of an account that the directory knows and the table does not
ReadForLogin(r, a, v) ==
  /\ row[a] = None
  /\ Begin(r, "create", a, v.pw, v.settings)

\* ensure_default_admin, at the start of a replica
EnsureAdmin(r) == Begin(r, "create", Admin, AdminRow.pw, AdminRow.settings)

Create(r) ==
  LET a == Acct(r) IN
  /\ Step(r) = "create"
  /\ \/ /\ Insert(a, Value(r)) /\ UNCHANGED mixed
        /\ want' = IF row[a] = None THEN [want EXCEPT ![a] = Value(r)] ELSE want
     \/ Fails(r) /\ UNCHANGED <<gone, want>>
  /\ Answer(r)

\* update_user read the account; at least one field is given.
ReadForUpdate(r, a, pw, settings) ==
  /\ row[a] # None
  /\ pw # None \/ settings # None
  /\ Begin(r, "update", a, pw, settings)

\* v with the fields that are given replaced
Patched(v, r) ==
  [pw |-> IF req[r].pw = None THEN v.pw ELSE req[r].pw,
   settings |-> IF req[r].settings = None THEN v.settings ELSE req[r].settings]

\* UPDATE, of a row or of none, is answered alike.
Update(r) ==
  LET a == Acct(r) IN
  /\ Step(r) = "update"
  /\ \/ /\ row' = IF row[a] = None THEN row
                  ELSE [row EXCEPT ![a] = Patched(row[a], r)]
        /\ want' = IF want[a] = None THEN want
                   ELSE [want EXCEPT ![a] = Patched(want[a], r)]
        /\ UNCHANGED mixed
     \/ Fails(r) /\ UNCHANGED want
  /\ Answer(r)
  /\ UNCHANGED gone

DeleteUser(a) ==
  /\ Delete(a)
  /\ gone' = gone \cup {a}
  /\ want' = [want EXCEPT ![a] = None]
  /\ mixed' = IF Busy(a) THEN mixed \cup {a} ELSE mixed
  /\ UNCHANGED req

\* The request timeout, the client or a crash ends a handler between two
\* statements.
Drop(r) ==
  /\ Step(r) # "idle"
  /\ mixed' = mixed \cup {Acct(r)}
  /\ gone' = IF Step(r) = "reinsert" THEN gone \cup {Acct(r)} ELSE gone
  /\ Answer(r)
  /\ UNCHANGED <<row, want>>

Next ==
  \/ \E r \in Requests, a \in Accounts :
       \/ \E pw \in Passwords : ReadForChange(r, a, pw)
       \/ \E v \in Rows : ReadForCreate(r, a, v) \/ ReadForLogin(r, a, v)
       \/ \E pw \in Passwords \cup {None}, settings \in Settings \cup {None} :
            ReadForUpdate(r, a, pw, settings)
  \/ \E r \in Requests :
       \/ EnsureAdmin(r) \/ InsertOver(r) \/ RemoveOld(r) \/ Reinsert(r)
       \/ Create(r) \/ Update(r) \/ Drop(r)
  \/ \E a \in Accounts : DeleteUser(a)

Spec == Init /\ [][Next]_vars

-----------------------------------------------------------------------------
(* Properties.                                                             *)

TypeOK ==
  /\ row \in [Accounts -> Rows \cup {None}]
  /\ req \in [Requests -> [step : {"idle", "insert", "remove", "reinsert",
                                   "create", "update"},
                           acct : Accounts,
                           pw : Passwords \cup {None},
                           settings : Settings \cup {None}]]
  /\ \A r \in Requests : Step(r) \in {"insert", "remove", "reinsert", "create"} =>
                           Value(r) \in Rows
  /\ gone \in SUBSET Accounts
  /\ want \in [Accounts -> Rows \cup {None}]
  /\ mixed \in SUBSET Accounts

\* However many changes of password, updates and creations overlap, an
\* account that was neither deleted nor cut off in the middle of a change is
\* missing only while some change of its password is about to make it again.
NeverLost ==
  \A a \in Accounts : row[a] = None /\ a \notin gone =>
    \E r \in Requests : Step(r) = "reinsert" /\ Acct(r) = a

\* Requests that come one after the other leave the account as their answers
\* say: a change of password keeps the settings, a refused creation changes
\* nothing, and an update changes what it was given only.
AsAnswered ==
  \A a \in Accounts : a \notin mixed /\ ~Busy(a) => row[a] = want[a]
=============================================================================
