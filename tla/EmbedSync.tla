------------------------------ MODULE EmbedSync ------------------------------
(***************************************************************************)
(* The vectors of the searchable tables (backend/src/embed_sync.rs): each  *)
(* process that shares the management database embeds, from time to time,  *)
(* the rows whose content is not the one their stored vector was made of,  *)
(* and removes the vectors of deleted rows, while administrators edit the  *)
(* rows.  One synchronisation runs at a time under a named lock, which     *)
(* goes with its connection.                                               *)
(*                                                                         *)
(* A row's content stands for its hash too (MD5 of the model's name and    *)
(* the content), so a stored vector has two contents: the one its hash     *)
(* names and the one it was made of.  The embedding server is external: it *)
(* takes a content, refuses it (an HTTP 4xx) or fails on it (a 5xx), and   *)
(* may be down.                                                            *)
(***************************************************************************)
EXTENDS Integers, FiniteSets, SequencesExt

CONSTANTS
    Procs,       \* processes on one management database
    Rows,        \* the keys (seq) of all the tables' rows, never used again
    Tables,      \* the number of searched tables (SEARCH_COLUMNS)
    TableOf,     \* the table of each row
    Contents,    \* what a row may hold
    NoText, NoRow, NoProc,
    Batch,       \* BATCH
    Down,        \* SERVER_ERRORS_DOWN
    MaxEdits,    \* bound: edits by administrators
    MaxFaults    \* bound: failures of the database and changes of the server

ASSUME EmbedSyncAssumption ==
    /\ NoText \notin Contents /\ NoRow \notin Rows /\ NoProc \notin Procs
    /\ Tables \in Nat /\ TableOf \in [Rows -> 1..Tables]
    /\ Batch \in Nat \ {0} /\ Down \in Nat \ {0}
    /\ MaxEdits \in Nat /\ MaxFaults \in Nat

VARIABLES
    content,      \* the tables: a row's content, NoText when it has none
    born,         \* the rows ever inserted
    vectors,      \* the vec_* tables
    holder,       \* who holds the named lock
    answers,      \* what the embedding server does with a content
    up,           \* whether it answers
    pc,           \* where each process's sync is
    at,           \* the table it is at
    seen,         \* the rows as it listed them
    orphans,      \* the vectors it is about to delete
    todo,         \* the rows it has still to embed
    probe,        \* the held row it sends again
    batch,        \* the rows it read and has not had embedded
    embedded,     \* the rows it has vectors for, not stored yet
    took,         \* the server took a row of the batch
    failing,      \* rows of the batch failed with a 5xx, none taken
    unavailable,  \* the server was found down
    refused,      \* Refused: rows held back, in the order they were refused
    lost,         \* a lock's connection died since no sync ran (history variable)
    edits, faults

data == <<content, born>>
server == <<answers, up>>
sync == <<pc, at, seen, orphans, todo, probe, batch, embedded, took, failing, unavailable>>
lock == <<holder, lost>>
vars == <<content, born, vectors, holder, answers, up, pc, at, seen, orphans, todo, probe,
          batch, embedded, took, failing, unavailable, refused, lost, edits, faults>>

Read == [row : Rows, hash : Contents, text : Contents]
Vector == [hash : Contents, text : Contents]
NoVector == [hash |-> NoText, text |-> NoText]
Refusal == [row : Rows, hash : Contents]

\* A sync is idle, about to list a table's rows, to read their vectors, to delete
\* orphans, to read a batch, to send it, to send it row by row, to store vectors.
Stages == {"idle", "list", "stored", "clean", "batch", "send", "single", "store"}

TypeOK ==
    /\ content \in [Rows -> Contents \cup {NoText}] /\ born \subseteq Rows
    /\ vectors \in [Rows -> Vector \cup {NoVector}]
    /\ holder \in Procs \cup {NoProc} /\ lost \in BOOLEAN
    /\ answers \in [Contents -> {"takes", "refuses", "fails"}] /\ up \in BOOLEAN
    /\ pc \in [Procs -> Stages]
    /\ at \in [Procs -> 1..(Tables + 1)]
    /\ seen \in [Procs -> [Rows -> Contents \cup {NoText}]]
    /\ orphans \in [Procs -> SUBSET Rows] /\ todo \in [Procs -> SUBSET Rows]
    /\ probe \in [Procs -> Rows \cup {NoRow}]
    /\ batch \in [Procs -> SUBSET Read] /\ embedded \in [Procs -> SUBSET Read]
    /\ took \in [Procs -> BOOLEAN] /\ failing \in [Procs -> 0..(Down - 1)]
    /\ unavailable \in [Procs -> BOOLEAN]
    /\ refused \in [Procs -> Seq(Refusal)]
    /\ edits \in 0..MaxEdits /\ faults \in 0..MaxFaults

Unseen == [r \in Rows |-> NoText]

Init ==
    /\ content \in [Rows -> Contents \cup {NoText}]
    /\ born = {r \in Rows : content[r] # NoText}
    /\ vectors = [r \in Rows |-> NoVector]
    /\ holder = NoProc /\ lost = FALSE
    /\ answers \in [Contents -> {"takes", "refuses", "fails"}] /\ up = TRUE
    /\ pc = [p \in Procs |-> "idle"]
    /\ at = [p \in Procs |-> 1]
    /\ seen = [p \in Procs |-> Unseen]
    /\ orphans = [p \in Procs |-> {}] /\ todo = [p \in Procs |-> {}]
    /\ probe = [p \in Procs |-> NoRow]
    /\ batch = [p \in Procs |-> {}] /\ embedded = [p \in Procs |-> {}]
    /\ took = [p \in Procs |-> FALSE] /\ failing = [p \in Procs |-> 0]
    /\ unavailable = [p \in Procs |-> FALSE]
    /\ refused = [p \in Procs |-> <<>>]
    /\ edits = 0 /\ faults = 0

-----------------------------------------------------------------------------
(* Administrators and the embedding server. *)

\* A row is inserted, edited or deleted; the database gives no key twice.
Edit(r) ==
    /\ edits < MaxEdits /\ edits' = edits + 1
    /\ r \in born => content[r] # NoText
    /\ \E text \in (Contents \cup {NoText}) \ {content[r]} : content' = [content EXCEPT ![r] = text]
    /\ born' = born \cup {r}
    /\ UNCHANGED <<vectors, lock, server, sync, refused, faults>>

Fault == faults < MaxFaults /\ faults' = faults + 1

\* The server is put right for a content, comes to refuse it, stops or starts.
ServerChanges ==
    /\ Fault
    /\ \/ \E c \in Contents, answer \in {"takes", "refuses", "fails"} :
              answers' = [answers EXCEPT ![c] = answer] /\ UNCHANGED up
       \/ up' = ~up /\ UNCHANGED answers
    /\ UNCHANGED <<data, vectors, lock, sync, refused, edits>>

-----------------------------------------------------------------------------
(* Rows held back. *)

Without(held, row) == SelectSeq(held, LAMBDA e : e.row # row)

\* Mutant: a row refused again keeps its place.
RefuseInPlace(held, row, hash) ==
    IF \E i \in DOMAIN held : held[i].row = row
    THEN [i \in DOMAIN held |-> IF held[i].row = row THEN [row |-> row, hash |-> hash] ELSE held[i]]
    ELSE Append(held, [row |-> row, hash |-> hash])

\* `refuse`: the row as it was sent, refused now.
Refuse(held, row, hash) == Append(Without(held, row), [row |-> row, hash |-> hash])

\* `take_refused_again`: once the server takes the held row, every row is sent.
Taken(p, rows) == IF \E b \in rows : b.row = probe[p] THEN <<>> ELSE refused[p]

-----------------------------------------------------------------------------
(* One synchronisation. *)

\* What `run` leaves behind however it ends.
End(p) ==
    /\ pc' = [pc EXCEPT ![p] = "idle"]
    /\ at' = [at EXCEPT ![p] = 1]
    /\ seen' = [seen EXCEPT ![p] = Unseen]
    /\ orphans' = [orphans EXCEPT ![p] = {}] /\ todo' = [todo EXCEPT ![p] = {}]
    /\ probe' = [probe EXCEPT ![p] = NoRow]
    /\ batch' = [batch EXCEPT ![p] = {}] /\ embedded' = [embedded EXCEPT ![p] = {}]
    /\ took' = [took EXCEPT ![p] = FALSE] /\ failing' = [failing EXCEPT ![p] = 0]
    /\ unavailable' = [unavailable EXCEPT ![p] = FALSE]
    /\ holder' = IF holder = p THEN NoProc ELSE holder
    /\ lost' = (lost /\ \E q \in Procs \ {p} : pc[q] # "idle")

\* Mutant: a sync goes on though another has the lock.
StartThoughBusy(p) ==
    /\ pc[p] = "idle" /\ pc' = [pc EXCEPT ![p] = "list"]
    /\ holder' = p
    /\ UNCHANGED <<data, vectors, server, at, seen, orphans, todo, probe, batch, embedded,
                   took, failing, unavailable, refused, lost, edits, faults>>

\* `run` gets the lock; while another process has it nothing is done (Busy).
Start(p) ==
    /\ pc[p] = "idle" /\ holder = NoProc
    /\ pc' = [pc EXCEPT ![p] = "list"]
    /\ holder' = p
    /\ UNCHANGED <<data, vectors, server, at, seen, orphans, todo, probe, batch, embedded,
                   took, failing, unavailable, refused, lost, edits, faults>>

RowsAt(p) == {r \in Rows : TableOf[r] = at[p]}

\* The rows of a table and their hashes, in one statement.
ListRows(p) ==
    /\ pc[p] = "list" /\ at[p] <= Tables
    /\ seen' = [seen EXCEPT ![p] = [r \in Rows |-> IF r \in RowsAt(p) THEN content[r] ELSE NoText]]
    /\ pc' = [pc EXCEPT ![p] = "stored"]
    /\ UNCHANGED <<data, vectors, lock, server, at, orphans, todo, probe, batch, embedded,
                   took, failing, unavailable, refused, edits, faults>>

\* Rows whose vector is not of the content listed (none when not checked).
Stale(p) ==
    {r \in RowsAt(p) : ~unavailable[p] /\ seen[p][r] # NoText /\ vectors[r].hash # seen[p][r]}

\* Refusals of rows no longer stale as they were refused are forgotten.
StillRefused(p) ==
    IF unavailable[p] THEN refused[p]
    ELSE SelectSeq(refused[p], LAMBDA e :
            TableOf[e.row] = at[p] => e.row \in Stale(p) /\ seen[p][e.row] = e.hash)

\* The vectors stored, in one statement; what is stale, what of it is held back,
\* the row held longest, and the vectors whose rows are gone.
ReadStored(p) ==
    LET held == SelectSeq(StillRefused(p), LAMBDA e : TableOf[e.row] = at[p] /\ ~unavailable[p])
        first == IF held = <<>> THEN NoRow ELSE Head(held).row
        back == {held[i].row : i \in DOMAIN held} \ {first}
    IN  /\ pc[p] = "stored"
        /\ refused' = [refused EXCEPT ![p] = StillRefused(p)]
        /\ probe' = [probe EXCEPT ![p] = first]
        /\ todo' = [todo EXCEPT ![p] = Stale(p) \ back]
        /\ orphans' = [orphans EXCEPT ![p] =
               {r \in RowsAt(p) : vectors[r] # NoVector /\ seen[p][r] = NoText}]
        /\ pc' = [pc EXCEPT ![p] = "clean"]
        /\ UNCHANGED <<data, vectors, lock, server, at, seen, batch, embedded, took, failing,
                       unavailable, edits, faults>>

\* Vectors of deleted rows go.
DeleteOrphans(p) ==
    /\ pc[p] = "clean"
    /\ vectors' = [r \in Rows |-> IF r \in orphans[p] THEN NoVector ELSE vectors[r]]
    /\ orphans' = [orphans EXCEPT ![p] = {}]
    /\ pc' = [pc EXCEPT ![p] = "batch"]
    /\ UNCHANGED <<data, lock, server, at, seen, todo, probe, batch, embedded, took, failing,
                   unavailable, refused, edits, faults>>

\* Mutant: a row is stored under the hash it was listed with.
ReadAs(p, r) == [row |-> r, hash |-> seen[p][r], text |-> content[r]]

\* A row's content and its hash, read together.
ReadRow(p, r) == [row |-> r, hash |-> content[r], text |-> content[r]]

\* The content of as many rows as one request takes; a row deleted meanwhile is
\* not there.
ReadBatch(p) ==
    /\ pc[p] = "batch" /\ todo[p] # {}
    /\ \E rows \in SUBSET todo[p] :
        /\ rows # {} /\ Cardinality(rows) <= Batch
        /\ Cardinality(rows) = Batch \/ rows = todo[p]
        /\ todo' = [todo EXCEPT ![p] = @ \ rows]
        /\ batch' = [batch EXCEPT ![p] = {ReadRow(p, r) : r \in {s \in rows : content[s] # NoText}}]
    /\ took' = [took EXCEPT ![p] = FALSE] /\ failing' = [failing EXCEPT ![p] = 0]
    /\ pc' = [pc EXCEPT ![p] = "send"]
    /\ UNCHANGED <<data, vectors, lock, server, at, seen, orphans, probe, embedded,
                   unavailable, refused, edits, faults>>

\* The rows of the table are done, or wait for the next sync: the next table.
NextTable(p) ==
    /\ at' = [at EXCEPT ![p] = @ + 1]
    /\ todo' = [todo EXCEPT ![p] = {}]
    /\ batch' = [batch EXCEPT ![p] = {}] /\ embedded' = [embedded EXCEPT ![p] = {}]
    /\ pc' = [pc EXCEPT ![p] = "list"]
    /\ UNCHANGED <<data, vectors, lock, server, seen, orphans, probe, took, failing, edits>>

TableDone(p) ==
    /\ pc[p] = "batch" /\ todo[p] = {}
    /\ NextTable(p)
    /\ UNCHANGED <<unavailable, refused, faults>>

\* The table takes no writes, seen before its rows are embedded or when they are
\* stored.
Unwritable(p) ==
    /\ Fault
    /\ pc[p] \in {"batch", "store"}
    /\ NextTable(p)
    /\ UNCHANGED <<unavailable, refused>>

\* The server does not answer.
Unanswered(p) ==
    /\ pc[p] \in {"send", "single"} /\ ~up /\ batch[p] # {}
    /\ unavailable' = [unavailable EXCEPT ![p] = TRUE]
    /\ NextTable(p)
    /\ UNCHANGED <<refused, faults>>

Takes(b) == answers[b.text] = "takes"

\* The server embeds the batch.
BatchTaken(p) ==
    /\ pc[p] = "send" /\ (up \/ batch[p] = {}) /\ \A b \in batch[p] : Takes(b)
    /\ embedded' = [embedded EXCEPT ![p] = batch[p]]
    /\ batch' = [batch EXCEPT ![p] = {}]
    /\ refused' = [refused EXCEPT ![p] = Taken(p, batch[p])]
    /\ pc' = [pc EXCEPT ![p] = IF batch[p] = {} THEN "batch" ELSE "store"]
    /\ UNCHANGED <<data, vectors, lock, server, at, seen, orphans, todo, probe, took, failing,
                   unavailable, edits, faults>>

\* The held row alone is refused again.
ProbeRefused(p) ==
    /\ pc[p] = "send" /\ up
    /\ \E b \in batch[p] :
        /\ batch[p] = {b} /\ b.row = probe[p] /\ ~Takes(b)
        /\ refused' = [refused EXCEPT ![p] = Refuse(refused[p], b.row, b.hash)]
    /\ batch' = [batch EXCEPT ![p] = {}]
    /\ pc' = [pc EXCEPT ![p] = "batch"]
    /\ UNCHANGED <<data, vectors, lock, server, at, seen, orphans, todo, probe, embedded, took,
                   failing, unavailable, edits, faults>>

\* A batch is refused for one of its rows: they are sent one by one.
BatchRefused(p) ==
    /\ pc[p] = "send" /\ up
    /\ \E b \in batch[p] : ~Takes(b)
    /\ ~\E b \in batch[p] : batch[p] = {b} /\ b.row = probe[p]
    /\ pc' = [pc EXCEPT ![p] = "single"]
    /\ UNCHANGED <<data, vectors, lock, server, at, seen, orphans, todo, probe, batch, embedded,
                   took, failing, unavailable, refused, edits, faults>>

RowTaken(p) ==
    /\ pc[p] = "single" /\ up
    /\ \E b \in batch[p] :
        /\ Takes(b)
        /\ embedded' = [embedded EXCEPT ![p] = {b}]
        /\ batch' = [batch EXCEPT ![p] = @ \ {b}]
        /\ refused' = [refused EXCEPT ![p] = Taken(p, {b})]
    /\ took' = [took EXCEPT ![p] = TRUE]
    /\ pc' = [pc EXCEPT ![p] = "store"]
    /\ UNCHANGED <<data, vectors, lock, server, at, seen, orphans, todo, probe, failing,
                   unavailable, edits, faults>>

\* Whether a row failed now makes the server one that fails every row.
FailsAll(p, b) ==
    b.row # probe[p] /\ answers[b.text] = "fails" /\ ~took[p] /\ failing[p] + 1 >= Down

\* A row is refused and held back; after `Down` failures and no row taken the
\* server counts as down.
RowRefused(p) ==
    /\ pc[p] = "single" /\ up
    /\ \E b \in batch[p] :
        /\ ~Takes(b)
        /\ refused' = [refused EXCEPT ![p] = Refuse(refused[p], b.row, b.hash)]
        /\ IF FailsAll(p, b)
           THEN /\ unavailable' = [unavailable EXCEPT ![p] = TRUE]
                /\ NextTable(p) /\ UNCHANGED faults
           ELSE /\ batch' = [batch EXCEPT ![p] = @ \ {b}]
                /\ failing' = [failing EXCEPT ![p] =
                      IF b.row = probe[p] \/ took[p] \/ answers[b.text] # "fails" THEN @ ELSE @ + 1]
                /\ UNCHANGED <<data, vectors, lock, server, pc, at, seen, orphans, todo, probe,
                               embedded, took, unavailable, edits, faults>>

BatchDone(p) ==
    /\ pc[p] = "single" /\ batch[p] = {}
    /\ pc' = [pc EXCEPT ![p] = "batch"]
    /\ UNCHANGED <<data, vectors, lock, server, at, seen, orphans, todo, probe, batch, embedded,
                   took, failing, unavailable, refused, edits, faults>>

\* `store`: a vector replaces the row's.  A batch that fails goes row by row, and
\* a row may fail alone.
Store(p) ==
    /\ pc[p] = "store"
    /\ \E rows \in SUBSET embedded[p] :
        /\ \/ rows = embedded[p] /\ UNCHANGED faults
           \/ rows # embedded[p] /\ Fault
        /\ vectors' = [r \in Rows |->
               IF \E b \in rows : b.row = r
               THEN LET b == CHOOSE c \in rows : c.row = r IN [hash |-> b.hash, text |-> b.text]
               ELSE vectors[r]]
    /\ embedded' = [embedded EXCEPT ![p] = {}]
    /\ pc' = [pc EXCEPT ![p] = IF batch[p] = {} THEN "batch" ELSE "single"]
    /\ UNCHANGED <<data, lock, server, at, seen, orphans, todo, probe, batch, took, failing,
                   unavailable, refused, edits>>

\* Every table is done.
Finish(p) ==
    /\ pc[p] = "list" /\ at[p] > Tables
    /\ End(p)
    /\ UNCHANGED <<data, vectors, server, refused, edits, faults>>

\* An error of the database ends the sync; a stop ends the process too, and with
\* it what it knew of refusals.
Fail(p) ==
    /\ Fault
    /\ pc[p] # "idle"
    /\ End(p)
    /\ refused' \in {refused, [refused EXCEPT ![p] = <<>>]}
    /\ UNCHANGED <<data, vectors, server, edits>>

\* The connection of the lock dies, and the lock with it; the sync does not see it.
LoseLock(p) ==
    /\ Fault
    /\ holder = p
    /\ holder' = NoProc /\ lost' = TRUE
    /\ UNCHANGED <<data, vectors, server, sync, refused, edits>>

Work(p) ==
    \/ ListRows(p) \/ ReadStored(p) \/ DeleteOrphans(p)
    \/ ReadBatch(p) \/ TableDone(p)
    \/ Unanswered(p) \/ BatchTaken(p) \/ ProbeRefused(p) \/ BatchRefused(p)
    \/ RowTaken(p) \/ RowRefused(p) \/ BatchDone(p) \/ Store(p) \/ Finish(p)

Next ==
    \/ \E r \in Rows : Edit(r)
    \/ ServerChanges
    \/ \E p \in Procs : Start(p) \/ Work(p) \/ Unwritable(p) \/ Fail(p) \/ LoseLock(p)

\* The periodic job begins a sync after each wait, every request and statement
\* has its time limit.
Fairness == \A p \in Procs : WF_vars(Start(p)) /\ WF_vars(Work(p))

Spec == Init /\ [][Next]_vars
FairSpec == Spec /\ Fairness

-----------------------------------------------------------------------------
(* Properties. *)

\* A stored vector was made of the content its hash names, whatever was edited,
\* refused, lost or done twice meanwhile: a search, which passes over vectors
\* whose hash is not the row's, finds no row by what it no longer says.
VectorsAreOfTheirHash == \A r \in Rows : vectors[r].hash = vectors[r].text

\* Two synchronisations overlap only after a lock's connection died.
OneSyncAtATime ==
    \A p, q \in Procs : p # q /\ pc[p] # "idle" /\ pc[q] # "idle" => lost

\* A row the server takes is searchable as it is now; a deleted one has no vector.
Settled(r) ==
    IF content[r] = NoText THEN vectors[r] = NoVector
    ELSE up /\ answers[content[r]] = "takes" => vectors[r].hash = content[r]

\* Once the edits and the failures end every row settles, however many others
\* the server refuses or fails for good.
EveryRowSettles == <>[](\A r \in Rows : Settled(r))
=============================================================================
