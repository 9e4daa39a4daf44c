-------------------------- MODULE Accounts_proofs ---------------------------
(***************************************************************************)
(* Proofs about accounts, for any number of accounts, requests, passwords  *)
(* and settings.                                                           *)
(***************************************************************************)
EXTENDS Accounts, TLAPS

Steps == {"idle", "insert", "remove", "reinsert", "create", "update"}

RequestRecords ==
  [step : Steps, acct : Accounts, pw : Passwords \cup {None},
   settings : Settings \cup {None}]

LEMMA TypeInit == Init => TypeOK
BY AccountsAssumption DEF Init, TypeOK, Idle, Step, Value

\* Insertions of whole rows, deletions and patches keep the table well typed.
LEMMA TypeStep == TypeOK /\ [Next]_vars => TypeOK'
<1> SUFFICES ASSUME TypeOK, [Next]_vars PROVE TypeOK'
  OBVIOUS
<1>1. /\ row \in [Accounts -> Rows \cup {None}] /\ req \in [Requests -> RequestRecords]
      /\ gone \in SUBSET Accounts /\ want \in [Accounts -> Rows \cup {None}]
      /\ mixed \in SUBSET Accounts
      /\ \A r \in Requests : Step(r) \in {"insert", "remove", "reinsert", "create"} =>
                               Value(r) \in Rows
  BY DEF TypeOK, RequestRecords, Steps
<1>2. \A r \in Requests : Acct(r) \in Accounts
  BY <1>1 DEF Acct, RequestRecords
<1>3. Idle \in RequestRecords
  BY AccountsAssumption DEF Idle, RequestRecords, Steps
<1>4. CASE UNCHANGED vars
  BY <1>4 DEF vars, TypeOK, Step, Value
<1>5. ASSUME NEW r \in Requests, NEW step \in Steps, NEW a \in Accounts,
             NEW pw \in Passwords \cup {None}, NEW settings \in Settings \cup {None},
             Begin(r, step, a, pw, settings),
             step = "update" \/ (pw \in Passwords /\ settings \in Settings)
      PROVE  TypeOK'
  <2> DEFINE v == [step |-> step, acct |-> a, pw |-> pw, settings |-> settings]
  <2>1. v \in RequestRecords
    BY DEF RequestRecords
  <2>2. req' = [req EXCEPT ![r] = v] /\ req' \in [Requests -> RequestRecords]
    BY <1>1, <1>5, <2>1 DEF Begin
  <2>3. \A q \in Requests : req'[q] = IF q = r THEN v ELSE req[q]
    BY <1>1, <2>2
  <2>4. ASSUME NEW q \in Requests, Step(q)' \in {"insert", "remove", "reinsert", "create"}
        PROVE  Value(q)' \in Rows
    BY <1>1, <1>5, <2>3, <2>4 DEF Step, Value, Rows
  <2>5. QED
    BY <1>1, <1>5, <2>2, <2>4 DEF Begin, TypeOK, RequestRecords, Steps
<1>6. ASSUME NEW r \in Requests,
             req' = [req EXCEPT ![r] = Idle] \/
             (Step(r) \in {"insert", "remove"} /\
              \E s \in {"remove", "reinsert"} : Goto(r, s)),
             row' \in [Accounts -> Rows \cup {None}], gone' \in SUBSET Accounts,
             want' \in [Accounts -> Rows \cup {None}], mixed' \in SUBSET Accounts
      PROVE  TypeOK'
  <2>1. req' \in [Requests -> RequestRecords]
    BY <1>1, <1>3, <1>6 DEF Goto, RequestRecords, Steps
  <2>2. \A q \in Requests : q # r => req'[q] = req[q]
    BY <1>1, <1>6 DEF Goto
  <2>3. Step(r)' \in {"insert", "remove", "reinsert", "create"} => Value(r)' \in Rows
    BY <1>1, <1>6 DEF Goto, Step, Value, Idle, RequestRecords
  <2>4. QED
    BY <1>1, <1>6, <2>1, <2>2, <2>3 DEF TypeOK, RequestRecords, Steps, Step, Value
<1>7. ASSUME NEW r \in Requests, NEW a \in Accounts PROVE
        /\ \A pw \in Passwords : ReadForChange(r, a, pw) => TypeOK'
        /\ \A v \in Rows : ReadForCreate(r, a, v) \/ ReadForLogin(r, a, v) => TypeOK'
        /\ \A pw \in Passwords \cup {None}, settings \in Settings \cup {None} :
             ReadForUpdate(r, a, pw, settings) => TypeOK'
  <2>1. row[a] # None => row[a] \in Rows
    BY <1>1
  <2>2. \A v \in Rows : v.pw \in Passwords /\ v.settings \in Settings
    BY DEF Rows
  <2>3. QED
    BY <1>5, <2>1, <2>2 DEF ReadForChange, ReadForCreate, ReadForLogin, ReadForUpdate, Steps
<1>8. ASSUME NEW r \in Requests, EnsureAdmin(r) PROVE TypeOK'
  <2>1. AdminRow.pw \in Passwords /\ AdminRow.settings \in Settings /\ Admin \in Accounts
    BY AccountsAssumption DEF Rows
  <2>2. QED
    BY <1>5, <1>8, <2>1 DEF EnsureAdmin, Steps
<1>9. ASSUME NEW r \in Requests,
             InsertOver(r) \/ RemoveOld(r) \/ Reinsert(r) \/ Create(r) \/ Drop(r)
      PROVE  TypeOK'
  <2>1. Step(r) \in {"insert", "remove", "reinsert", "create"} => Value(r) \in Rows
    BY <1>1
  <2>2. /\ row' \in [Accounts -> Rows \cup {None}] /\ gone' \in SUBSET Accounts
        /\ mixed' \in SUBSET Accounts
    BY <1>1, <1>2, <1>9, <2>1
       DEF InsertOver, RemoveOld, Reinsert, Create, Drop, Insert, Delete, Fails
  <2>3. want' \in [Accounts -> Rows \cup {None}]
    BY <1>1, <1>2, <1>9, <2>1 DEF InsertOver, RemoveOld, Reinsert, Create, Drop
  <2>4. QED
    BY <1>6, <1>9, <2>2, <2>3
       DEF InsertOver, RemoveOld, Reinsert, Create, Drop, Answer
<1>10. ASSUME NEW r \in Requests, Update(r) PROVE TypeOK'
  <2>1. \A v \in Rows : Patched(v, r) \in Rows
    BY <1>1 DEF Patched, Rows, RequestRecords
  <2>2. /\ row' \in [Accounts -> Rows \cup {None}]
        /\ want' \in [Accounts -> Rows \cup {None}]
    BY <1>1, <1>2, <1>10, <2>1 DEF Update, Fails
  <2>3. QED
    BY <1>1, <1>2, <1>6, <1>10, <2>2 DEF Update, Answer, Fails
<1>11. ASSUME NEW a \in Accounts, DeleteUser(a) PROVE TypeOK'
  BY <1>1, <1>11 DEF DeleteUser, Delete, TypeOK, Step, Value
<1>12. QED
  BY <1>4, <1>7, <1>8, <1>9, <1>10, <1>11 DEF Next

\* The table, the requests and what is said of them stay well typed.
THEOREM TypeCorrect == Spec => []TypeOK
BY TypeInit, TypeStep, PTL DEF Spec

-----------------------------------------------------------------------------
Reinserting(a) == \E r \in Requests : Step(r) = "reinsert" /\ Acct(r) = a

LEMMA LostStep == TypeOK /\ NeverLost /\ [Next]_vars => NeverLost'
<1> SUFFICES ASSUME TypeOK, NeverLost, [Next]_vars,
                    NEW a \in Accounts, row'[a] = None, a \notin gone'
             PROVE  Reinserting(a)'
  BY DEF NeverLost, Reinserting
<1>1. /\ row \in [Accounts -> Rows \cup {None}]
      /\ \A r \in Requests : req[r] = [step |-> Step(r), acct |-> Acct(r),
                                       pw |-> req[r].pw, settings |-> req[r].settings]
      /\ req \in [Requests -> [step : Steps, acct : Accounts, pw : Passwords \cup {None},
                               settings : Settings \cup {None}]]
      /\ \A r \in Requests : Step(r) \in {"insert", "remove", "reinsert", "create"} =>
                               Value(r) \in Rows
      /\ row[a] = None /\ a \notin gone => Reinserting(a)
  BY DEF TypeOK, Step, Acct, NeverLost, Reinserting, Steps
<1>2. CASE UNCHANGED vars
  BY <1>1, <1>2 DEF vars, Reinserting, Step, Acct
<1>3. ASSUME NEW r \in Requests, Step(r) # "reinsert",
             row' = row, gone' = gone,
             \A q \in Requests : q # r => req'[q] = req[q]
      PROVE  Reinserting(a)'
  BY <1>1, <1>3 DEF Reinserting, Step, Acct
<1>4. ASSUME NEW r \in Requests, NEW step, NEW b, NEW pw, NEW settings,
             Begin(r, step, b, pw, settings)
      PROVE  Reinserting(a)'
  BY <1>1, <1>3, <1>4 DEF Begin
<1>5. ASSUME NEW r \in Requests, InsertOver(r) \/ Create(r) \/ Update(r)
      PROVE  Reinserting(a)'
  <2>1. /\ Step(r) # "reinsert" /\ \A q \in Requests : q # r => req'[q] = req[q]
    BY <1>1, <1>5 DEF InsertOver, Create, Update, Goto, Answer
  <2>2. \/ row' = row /\ gone' = gone
        \/ Update(r) /\ gone' = gone
        \/ Insert(Acct(r), Value(r)) /\ Step(r) \in {"insert", "create"}
    BY <1>5 DEF InsertOver, Create, Update, Fails
  <2>3. row[a] = None /\ a \notin gone
    <3>1. CASE Update(r)
      BY <1>1, <3>1, AccountsAssumption DEF Update, Fails, Patched, Rows
    <3>2. CASE Insert(Acct(r), Value(r)) /\ Step(r) \in {"insert", "create"}
      BY <1>1, <3>2, AccountsAssumption DEF Insert
    <3>3. QED
      BY <2>2, <3>1, <3>2
  <2>4. QED
    BY <1>1, <2>1, <2>3 DEF Reinserting, Step, Acct
<1>6. ASSUME NEW r \in Requests, RemoveOld(r) PROVE Reinserting(a)'
  <2>1. /\ Step(r) = "remove" /\ gone' = gone
        /\ \A q \in Requests : q # r => req'[q] = req[q]
        /\ Step(r)' = "reinsert" /\ Acct(r)' = Acct(r)
    BY <1>1, <1>6 DEF RemoveOld, Goto, Step, Acct
  <2>2. CASE Acct(r) = a
    BY <2>1, <2>2 DEF Reinserting
  <2>3. CASE Acct(r) # a
    <3>1. row'[a] = row[a]
      BY <1>1, <1>6, <2>3 DEF RemoveOld, Delete, Fails
    <3>2. QED
      BY <1>1, <2>1, <3>1 DEF Reinserting, Step, Acct
  <2>4. QED
    BY <2>2, <2>3
<1>7. ASSUME NEW r \in Requests, Reinsert(r) PROVE Reinserting(a)'
  <2>1. /\ Step(r) = "reinsert" /\ \A q \in Requests : q # r => req'[q] = req[q]
    BY <1>1, <1>7 DEF Reinsert, Answer
  <2>2. Acct(r) # a
    BY <1>1, <1>7, <2>1, AccountsAssumption DEF Reinsert, Insert, Fails
  <2>3. row'[a] = row[a] /\ (a \in gone => a \in gone')
    BY <1>1, <1>7, <2>2 DEF Reinsert, Insert, Fails
  <2>4. QED
    BY <1>1, <2>1, <2>2, <2>3 DEF Reinserting, Step, Acct
<1>8. ASSUME NEW r \in Requests, Drop(r) PROVE Reinserting(a)'
  <2>1. row' = row /\ \A q \in Requests : q # r => req'[q] = req[q]
    BY <1>1, <1>8 DEF Drop, Answer
  <2>2. Step(r) # "reinsert" \/ Acct(r) # a
    BY <1>8 DEF Drop
  <2>3. a \notin gone
    BY <1>8 DEF Drop
  <2>4. QED
    BY <1>1, <2>1, <2>2, <2>3 DEF Reinserting, Step, Acct
<1>9. ASSUME NEW b \in Accounts, DeleteUser(b) PROVE Reinserting(a)'
  BY <1>1, <1>9 DEF DeleteUser, Delete, Reinserting, Step, Acct
<1>10. QED
  BY <1>2, <1>4, <1>5, <1>6, <1>7, <1>8, <1>9
     DEF Next, ReadForChange, ReadForCreate, ReadForLogin, ReadForUpdate, EnsureAdmin

\* An account is missing only when it was deleted or cut off, or while a
\* change of its password is about to make it again (change_password).
THEOREM AccountsAreNeverLost == Spec => []NeverLost
<1>1. Init => NeverLost
  BY DEF Init, NeverLost
<1>2. QED
  BY <1>1, LostStep, TypeCorrect, PTL DEF Spec

-----------------------------------------------------------------------------
\* Where requests have not overlapped, the only one there may be has found
\* the account as the answers describe it, or has just removed it.
Alone(a) ==
  /\ \A q, r \in Requests :
       Step(q) # "idle" /\ Step(r) # "idle" /\ Acct(q) = a /\ Acct(r) = a => q = r
  /\ ~Reinserting(a) => row[a] = want[a]
  /\ \A r \in Requests : Acct(r) = a =>
       /\ Step(r) \in {"insert", "remove"} => row[a] # None
       /\ Step(r) = "reinsert" => row[a] = None

AloneInv == \A a \in Accounts : a \notin mixed => Alone(a)

LEMMA AloneStep == TypeOK /\ AloneInv /\ [Next]_vars => AloneInv'
<1> SUFFICES ASSUME TypeOK, AloneInv, [Next]_vars,
                    NEW a \in Accounts, a \notin mixed'
             PROVE  Alone(a)'
  BY DEF AloneInv
<1>1. /\ row \in [Accounts -> Rows \cup {None}] /\ want \in [Accounts -> Rows \cup {None}]
      /\ req \in [Requests -> RequestRecords]
      /\ \A r \in Requests : Step(r) \in {"insert", "remove", "reinsert", "create"} =>
                               Value(r) \in Rows
  BY DEF TypeOK, RequestRecords, Steps
<1>2. a \notin mixed
  BY DEF Next, vars, Begin, ReadForChange, ReadForCreate, ReadForLogin, ReadForUpdate,
         EnsureAdmin, InsertOver, RemoveOld, Reinsert, Create, Update, Drop, DeleteUser,
         Fails
<1>3. Alone(a)
  BY <1>2 DEF AloneInv
<1>4. CASE UNCHANGED vars
  BY <1>3, <1>4 DEF vars, Alone, Reinserting, Step, Acct
<1>5. ASSUME NEW r \in Requests, NEW step \in {"insert", "create", "update"},
             NEW b \in Accounts, NEW pw, NEW settings,
             Begin(r, step, b, pw, settings), step = "insert" => row[b] # None
      PROVE  Alone(a)'
  <2>1. /\ Step(r) = "idle" /\ row' = row /\ want' = want
        /\ Step(r)' = step /\ Acct(r)' = b
        /\ \A q \in Requests : q # r => Step(q)' = Step(q) /\ Acct(q)' = Acct(q)
        /\ b = a => ~Busy(a)
    BY <1>1, <1>5 DEF Begin, Step, Acct
  <2>2. QED
    BY <1>3, <1>5, <2>1 DEF Alone, Reinserting, Busy
<1>6. ASSUME NEW r \in Requests,
             InsertOver(r) \/ RemoveOld(r) \/ Reinsert(r) \/ Create(r) \/ Update(r) \/ Drop(r)
      PROVE  Alone(a)'
  <2>1. /\ Step(r) # "idle"
        /\ \A q \in Requests : q # r => Step(q)' = Step(q) /\ Acct(q)' = Acct(q)
        /\ Step(r)' # "idle" => Acct(r)' = Acct(r)
    <3>1. Step(r) # "idle" /\ r \in Requests
      BY <1>6 DEF InsertOver, RemoveOld, Reinsert, Create, Update, Drop
    <3>2. \/ req' = [req EXCEPT ![r] = Idle]
          \/ \E s \in {"remove", "reinsert"} : req' = [req EXCEPT ![r].step = s]
      BY <1>6 DEF InsertOver, RemoveOld, Reinsert, Create, Update, Drop, Goto, Answer
    <3>3. \A q \in Requests : q # r => req'[q] = req[q]
      BY <1>1, <3>2
    <3>4. req'[r] = Idle \/ req'[r].acct = req[r].acct
      BY <1>1, <3>2 DEF RequestRecords
    <3>5. QED
      BY <3>1, <3>3, <3>4 DEF Step, Acct, Idle
  <2>2. CASE Acct(r) # a
    <3>1. row'[a] = row[a] /\ want'[a] = want[a]
      BY <1>1, <1>6, <2>2 DEF InsertOver, RemoveOld, Reinsert, Create, Update, Drop,
                              Insert, Delete, Fails
    <3>2. Step(r)' # "idle" => Acct(r)' # a
      BY <2>1, <2>2
    <3>3. Step(r)' = "idle" \/ Step(r)' \in {"remove", "reinsert"}
      <4>1. \/ req' = [req EXCEPT ![r] = Idle]
            \/ \E s \in {"remove", "reinsert"} : req' = [req EXCEPT ![r].step = s]
        BY <1>6 DEF InsertOver, RemoveOld, Reinsert, Create, Update, Drop, Goto, Answer
      <4>2. QED
        BY <1>1, <4>1 DEF Step, Idle, RequestRecords
    <3>4. QED
      BY <1>3, <2>1, <2>2, <3>1, <3>2, <3>3 DEF Alone, Reinserting
  <2>3. CASE Acct(r) = a
    <3>1. \A q \in Requests : q # r /\ Acct(q) = a => Step(q) = "idle"
      BY <1>3, <2>1, <2>3 DEF Alone
    <3>2. /\ Step(r) # "reinsert" => row[a] = want[a]
          /\ Step(r) \in {"insert", "remove"} => row[a] # None
          /\ Step(r) = "reinsert" => row[a] = None
      BY <1>3, <2>3, <3>1 DEF Alone, Reinserting
    <3>3. CASE InsertOver(r)
      <4>1. /\ row' = row /\ want' = want /\ Step(r) = "insert" /\ Step(r)' = "remove"
        BY <1>1, <2>3, <3>2, <3>3 DEF InsertOver, Insert, Fails, Goto, Step
      <4>2. QED
        BY <2>1, <2>3, <3>1, <3>2, <4>1 DEF Alone, Reinserting
    <3>4. CASE RemoveOld(r)
      <4>1. /\ row'[a] = None /\ Step(r)' = "reinsert"
        BY <1>1, <2>3, <3>4 DEF RemoveOld, Delete, Fails, Goto, Step
      <4>2. QED
        BY <2>1, <2>3, <3>1, <4>1 DEF Alone, Reinserting
    <3>5. CASE Reinsert(r) \/ Create(r) \/ Update(r)
      <4>1. Step(r)' = "idle"
        BY <1>1, <3>5 DEF Reinsert, Create, Update, Answer, Step, Idle
      <4>2. row'[a] = want'[a]
        <5>1. CASE Reinsert(r)
          BY <1>1, <2>3, <3>2, <5>1 DEF Reinsert, Insert, Fails
        <5>2. CASE Create(r)
          BY <1>1, <2>3, <3>2, <5>2 DEF Create, Insert, Fails
        <5>3. CASE Update(r)
          BY <1>1, <2>3, <3>2, <5>3 DEF Update, Fails
        <5>4. QED
          BY <3>5, <5>1, <5>2, <5>3
      <4>3. QED
        BY <2>1, <2>3, <3>1, <4>1, <4>2 DEF Alone, Reinserting
    <3>6. ~Drop(r)
      BY <2>3 DEF Drop
    <3>7. QED
      BY <1>6, <3>3, <3>4, <3>5, <3>6
  <2>4. QED
    BY <2>2, <2>3
<1>7. ASSUME NEW b \in Accounts, DeleteUser(b) PROVE Alone(a)'
  <2>1. \A q \in Requests : Step(q)' = Step(q) /\ Acct(q)' = Acct(q)
    BY <1>7 DEF DeleteUser, Step, Acct
  <2>2. CASE b # a
    <3>1. row'[a] = row[a] /\ want'[a] = want[a]
      BY <1>1, <1>7, <2>2 DEF DeleteUser, Delete
    <3>2. QED
      BY <1>3, <2>1, <3>1 DEF Alone, Reinserting
  <2>3. CASE b = a
    <3>1. row'[a] = want'[a] /\ ~Busy(a)
      BY <1>1, <1>7, <2>3 DEF DeleteUser, Delete
    <3>2. QED
      BY <2>1, <3>1 DEF Alone, Reinserting, Busy
  <2>4. QED
    BY <2>2, <2>3
<1>8. QED
  BY <1>4, <1>5, <1>6, <1>7, AccountsAssumption
     DEF Next, ReadForChange, ReadForCreate, ReadForLogin, ReadForUpdate, EnsureAdmin

\* Requests on an account that do not overlap leave it as their answers say
\* (change_password, create_user, update_user, delete_user).
THEOREM SequentiallyAsAnswered == Spec => []AsAnswered
<1>1. Init => AloneInv
  BY DEF Init, AloneInv, Alone, Reinserting, Idle, Step, Acct
<1>2. AloneInv => AsAnswered
  BY DEF AloneInv, Alone, AsAnswered, Reinserting, Busy
<1>3. QED
  BY <1>1, <1>2, AloneStep, TypeCorrect, PTL DEF Spec
=============================================================================
