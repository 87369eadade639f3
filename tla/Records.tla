------------------------------ MODULE Records -------------------------------
(***************************************************************************)
(* The records of the admin screen kept in the management DB: databases to *)
(* query and the registered queries that name them (src/backend/src/       *)
(* admin.rs, save_record and remove; db.rs for the connection).  A write   *)
(* takes a connection and the DB's own named lock, reads its record again  *)
(* inside a transaction, checks it against what the screen showed and      *)
(* against the other table, writes, commits and lets the lock go.  The     *)
(* request may be dropped at any of these waits, its connection then ended *)
(* by the server, or reset before it is used again.                        *)
(***************************************************************************)
EXTENDS FiniteSets

CONSTANTS
    Admins,        \* screens, each with one request at a time
    Databases,     \* rows of target_db
    Names,         \* their names
    Hosts,         \* their addresses (connection_info)
    Queries,       \* rows of query_registry
    NoRow          \* no row, nothing written, nobody

\* `password` is the address the stored password was entered for.
DatabaseRows == [name : Names, address : Hosts, password : Hosts]
QueryRows == SUBSET Names \ {{}}

ASSUME RecordsAssumption == NoRow \notin Admins /\ NoRow \notin DatabaseRows

VARIABLES
    target_db,     \* committed: each row's name, address and whose password it holds
    query_registry,\* committed: the names each query runs on
    adminLock,     \* GET_LOCK(... ':admin'): the screen whose session holds it
    step,          \* where each request is
    form,          \* what it would write, made from the row its screen read
    uncommitted    \* what its transaction has written

recordVars == <<target_db, query_registry, adminLock, step, form, uncommitted>>

RecordTypeOK ==
    /\ target_db \in [Databases -> DatabaseRows \cup {NoRow}]
    /\ query_registry \in [Queries -> QueryRows \cup {NoRow}]
    /\ adminLock \in Admins \cup {NoRow}
    /\ step \in [Admins -> {"closed", "form", "locked", "checked", "written", "refused", "ended", "dropped"}]
    /\ uncommitted \subseteq Admins

RecordInit ==
    /\ target_db = [d \in Databases |-> NoRow]
    /\ query_registry = [q \in Queries |-> NoRow]
    /\ adminLock = NoRow
    /\ step = [a \in Admins |-> "closed"]
    /\ form = [a \in Admins |-> NoRow]
    /\ uncommitted = {}

Registered(rows) == {rows[d].name : d \in {e \in Databases : rows[e] # NoRow}}

\* What the request of a screen would write, and over what its screen read
\* (`seen`): a database's row, its password left empty or entered, a query's
\* targets, or NoRow for a delete.
DatabaseForms ==
    {[kind |-> "database", at |-> d, seen |-> target_db[d], to |-> to, entered |-> entered] :
        d \in Databases, to \in [name : Names, address : Hosts] \cup {NoRow}, entered \in BOOLEAN}
QueryForms ==
    {[kind |-> "query", at |-> q, seen |-> query_registry[q], to |-> to, entered |-> FALSE] :
        q \in Queries, to \in QueryRows \cup {NoRow}}

\* A screen opens a row (or an empty form) and sends it; a delete needs a row, and
\* a new database a password.
Submit(a) ==
    /\ step[a] = "closed"
    /\ \E f \in DatabaseForms \cup QueryForms :
          /\ f.seen = NoRow => f.to # NoRow /\ (f.kind = "database" => f.entered)
          /\ f.to = NoRow => ~f.entered
          /\ form' = [form EXCEPT ![a] = f]
    /\ step' = [step EXCEPT ![a] = "form"]
    /\ UNCHANGED <<target_db, query_registry, adminLock, uncommitted>>

\* The answer, whatever it says; the screen may then open a row again.
Answer(a) == step' = [step EXCEPT ![a] = "closed"] /\ form' = [form EXCEPT ![a] = NoRow]

Lock(a) ==
    /\ step[a] = "form" /\ adminLock = NoRow
    /\ adminLock' = a
    /\ step' = [step EXCEPT ![a] = "locked"]
    /\ UNCHANGED <<target_db, query_registry, form, uncommitted>>

\* No connection, or the lock not had within its 5 seconds.
LockNotHad(a) ==
    /\ step[a] = "form"
    /\ Answer(a)
    /\ UNCHANGED <<target_db, query_registry, adminLock, uncommitted>>

Row(f) == IF f.kind = "database" THEN target_db[f.at] ELSE query_registry[f.at]

\* The revision sent is of the row as it is now (a new row has none).
Current(f) == f.seen # NoRow => Row(f) = f.seen

\* The stored password stays with the address it was entered for.
PasswordMayStay(f) ==
    f.kind = "database" /\ f.seen # NoRow /\ f.to # NoRow /\ ~f.entered => Row(f).address = f.to.address

\* A database being deleted or given another name is no query's target.
Unreferenced(f) ==
    f.kind = "database" /\ f.seen # NoRow /\ (f.to = NoRow \/ f.to.name # Row(f).name) =>
        \A q \in Queries : query_registry[q] # NoRow => Row(f).name \notin query_registry[q]

TargetsExist(f) == f.kind = "query" /\ f.to # NoRow => f.to \subseteq Registered(target_db)

\* Mutant: the lock let go with the checks, before the write is committed.
CheckRecordThenRelease(a) ==
    /\ step[a] = "locked"
    /\ LET f == form[a] IN
       \/ /\ Current(f) /\ PasswordMayStay(f) /\ Unreferenced(f) /\ TargetsExist(f)
          /\ step' = [step EXCEPT ![a] = "checked"]
       \/ step' = [step EXCEPT ![a] = "refused"]
    /\ adminLock' = NoRow
    /\ UNCHANGED <<target_db, query_registry, form, uncommitted>>

\* START TRANSACTION, the row FOR UPDATE and every check, in the code's order; a
\* statement that fails refuses too.
CheckRecord(a) ==
    /\ step[a] = "locked"
    /\ LET f == form[a] IN
       \/ /\ Current(f) /\ PasswordMayStay(f) /\ Unreferenced(f) /\ TargetsExist(f)
          /\ step' = [step EXCEPT ![a] = "checked"]
       \/ step' = [step EXCEPT ![a] = "refused"]
    /\ UNCHANGED <<target_db, query_registry, adminLock, form, uncommitted>>

\* The key of the table: another row has the name, or a new row's place is taken.
Duplicate(f) ==
    \/ f.seen = NoRow /\ Row(f) # NoRow
    \/ /\ f.kind = "database" /\ f.to # NoRow
       /\ \E d \in Databases \ {f.at} : target_db[d] # NoRow /\ target_db[d].name = f.to.name

WriteRecord(a) ==
    /\ step[a] = "checked"
    /\ \/ /\ ~Duplicate(form[a])
          /\ uncommitted' = uncommitted \cup {a}
          /\ step' = [step EXCEPT ![a] = "written"]
       \/ step' = [step EXCEPT ![a] = "refused"] /\ UNCHANGED uncommitted
    /\ UNCHANGED <<target_db, query_registry, adminLock, form>>

Stored(f) ==
    [name |-> f.to.name, address |-> f.to.address,
     password |-> IF f.entered THEN f.to.address ELSE f.seen.password]

Committed(f) ==
    IF f.kind = "database"
        THEN /\ target_db' = [target_db EXCEPT ![f.at] = IF f.to = NoRow THEN NoRow ELSE Stored(f)]
             /\ UNCHANGED query_registry
        ELSE query_registry' = [query_registry EXCEPT ![f.at] = f.to] /\ UNCHANGED target_db

\* COMMIT.  Its answer may be lost, the client's time limit coming first: the screen
\* is told of a failure and the row is saved all the same.  So it may with the
\* request dropped while the statement was under way.
Commit(a) ==
    /\ step[a] = "written"
    /\ Committed(form[a])
    /\ uncommitted' = uncommitted \ {a}
    /\ \E next \in {"ended", "dropped"} : step' = [step EXCEPT ![a] = next]
    /\ UNCHANGED <<adminLock, form>>

\* ROLLBACK of a refused write, or of one the server could not commit.
Rollback(a) ==
    /\ step[a] \in {"refused", "written"}
    /\ uncommitted' = uncommitted \ {a}
    /\ step' = [step EXCEPT ![a] = "ended"]
    /\ UNCHANGED <<target_db, query_registry, adminLock, form>>

Release(a) ==
    /\ step[a] = "ended"
    /\ adminLock' = IF adminLock = a THEN NoRow ELSE adminLock
    /\ Answer(a)
    /\ UNCHANGED <<target_db, query_registry, uncommitted>>

\* The browser went away, or a statement failed with its connection.
Drop(a) ==
    /\ step[a] \in {"locked", "checked", "written", "refused", "ended"}
    /\ step' = [step EXCEPT ![a] = "dropped"]
    /\ UNCHANGED <<target_db, query_registry, adminLock, form, uncommitted>>

\* The server ends the session of a connection that was cut, or resets one that
\* went back to the pool: its transaction and its lock go together.
SessionEnds(a) ==
    /\ step[a] = "dropped"
    /\ uncommitted' = uncommitted \ {a}
    /\ adminLock' = IF adminLock = a THEN NoRow ELSE adminLock
    /\ Answer(a)
    /\ UNCHANGED <<target_db, query_registry>>

RecordNext ==
    \E a \in Admins :
        Submit(a) \/ Lock(a) \/ LockNotHad(a) \/ CheckRecord(a) \/ WriteRecord(a) \/ Commit(a)
            \/ Rollback(a) \/ Release(a) \/ Drop(a) \/ SessionEnds(a)

RecordSpec == RecordInit /\ [][RecordNext]_recordVars

\* Every target of a registered query is a registered database, though the two are
\* written by different screens and each save looks only at the other table
\* (admin.rs save_record, check_references).
TargetsAreRegistered ==
    \A q \in Queries : query_registry[q] # NoRow => query_registry[q] \subseteq Registered(target_db)

\* A stored password is only ever sent to the address it was entered for, whatever
\* screens saved meanwhile and with the password left empty (admin.rs:487-501).
PasswordsStayHome ==
    \A d \in Databases : target_db[d] # NoRow => target_db[d].password = target_db[d].address

=============================================================================
