-------------------------------- MODULE Chunks --------------------------------
(***************************************************************************)
(* How knowledge documents are split into chunks (`rebuild_chunks` of      *)
(* backend/src/embed_sync.rs, which each sync runs first): documents whose *)
(* chunks are not of their present content are read one at a time and      *)
(* their chunks replaced in a transaction, while administrators edit and   *)
(* delete documents.                                                       *)
(*                                                                         *)
(* A content stands for its hash too.  The syncs of several processes take *)
(* turns only while the lock's connections live (EmbedSync), so here they  *)
(* run as they please.  The database's part: a row written in a            *)
(* transaction is locked, and with it the document it refers to; a         *)
(* document's chunks go with it; a chunk of no document is refused.        *)
(***************************************************************************)
EXTENDS Integers, FiniteSets

CONSTANTS
    Procs,      \* the processes
    Docs,       \* the keys of documents, never used again
    Contents,   \* what a document may hold
    NoText,
    Parts,      \* how many chunks a content splits into (split_content: one at least)
    MaxEdits,   \* bound: edits
    MaxStops    \* bound: syncs stopped or failed

ASSUME ChunksAssumption ==
    /\ NoText \notin Contents
    /\ Parts \in [Contents -> Nat \ {0}]
    /\ MaxEdits \in Nat /\ MaxStops \in Nat

VARIABLES
    documents,  \* the knowledge table
    born,       \* the documents ever inserted
    chunks,     \* the knowledge_chunk table: the chunks of each document
    pc,         \* where the sync of each process is
    listed,     \* the documents as it listed them
    todo,       \* the documents it has still to split
    doc,        \* the document it splits, as read: its key, hash and text
    written,    \* how many of its chunks are written, not committed
    edits, stops

table == <<documents, born, chunks>>
vars == <<documents, born, chunks, pc, listed, todo, doc, written, edits, stops>>

Chunk == [no : Nat \ {0}, of : Nat \ {0}, hash : Contents, text : Contents]
Document == [seq : Docs, hash : Contents, text : Contents]
None == [seq |-> NoText, hash |-> NoText, text |-> NoText]

TypeOK ==
    /\ documents \in [Docs -> Contents \cup {NoText}] /\ born \subseteq Docs
    /\ chunks \in [Docs -> SUBSET Chunk]
    /\ pc \in [Procs -> {"idle", "listed", "read", "write"}]
    /\ listed \in [Procs -> [Docs -> Contents \cup {NoText}]]
    /\ todo \in [Procs -> SUBSET Docs]
    /\ doc \in [Procs -> Document \cup {None}]
    /\ written \in [Procs -> Nat]
    /\ edits \in Nat /\ stops \in Nat

Unlisted == [d \in Docs |-> NoText]

Init ==
    /\ documents \in [Docs -> Contents \cup {NoText}]
    /\ born = {d \in Docs : documents[d] # NoText}
    /\ chunks = [d \in Docs |-> {}]
    /\ pc = [p \in Procs |-> "idle"]
    /\ listed = [p \in Procs |-> Unlisted]
    /\ todo = [p \in Procs |-> {}]
    /\ doc = [p \in Procs |-> None]
    /\ written = [p \in Procs |-> 0]
    /\ edits = 0 /\ stops = 0

-----------------------------------------------------------------------------
\* The document's row is locked by a transaction that wrote a chunk of it.
Locked(d) == \E p \in Procs : pc[p] = "write" /\ written[p] > 0 /\ doc[p].seq = d

\* An administrator inserts, edits or deletes a document; its chunks are deleted
\* with it.
Edit(d) ==
    /\ edits < MaxEdits /\ edits' = edits + 1
    /\ d \in born => documents[d] # NoText
    /\ ~Locked(d)
    /\ \E text \in (Contents \cup {NoText}) \ {documents[d]} :
        /\ documents' = [documents EXCEPT ![d] = text]
        /\ chunks' = IF text = NoText THEN [chunks EXCEPT ![d] = {}] ELSE chunks
    /\ born' = born \cup {d}
    /\ UNCHANGED <<pc, listed, todo, doc, written, stops>>

\* The documents and their hashes, in one statement.
ListDocs(p) ==
    /\ pc[p] = "idle"
    /\ listed' = [listed EXCEPT ![p] = documents]
    /\ pc' = [pc EXCEPT ![p] = "listed"]
    /\ UNCHANGED <<table, todo, doc, written, edits, stops>>

\* What the grouped statement says of a document's chunks: all of one hash, as
\* many as each says there are, numbered from one.
Whole(parts, hash) ==
    /\ parts # {}
    /\ \A c \in parts : c.hash = hash /\ c.of = Cardinality(parts)
    /\ {c.no : c \in parts} = 1..Cardinality(parts)

ReadHave(p) ==
    /\ pc[p] = "listed"
    /\ todo' = [todo EXCEPT ![p] =
           {d \in Docs : listed[p][d] # NoText /\ ~Whole(chunks[d], listed[p][d])}]
    /\ pc' = [pc EXCEPT ![p] = "read"]
    /\ UNCHANGED <<table, listed, doc, written, edits, stops>>

\* Mutant: the chunks go by the hash listed.
AsListed(p, d) == [seq |-> d, hash |-> listed[p][d], text |-> documents[d]]

\* A document's text and its hash, in one statement.
AsRead(p, d) == [seq |-> d, hash |-> documents[d], text |-> documents[d]]

\* The next document is read; one deleted meanwhile is passed over.
ReadDoc(p) ==
    /\ pc[p] = "read"
    /\ \E d \in todo[p] :
        /\ todo' = [todo EXCEPT ![p] = @ \ {d}]
        /\ IF documents[d] = NoText
           THEN UNCHANGED <<pc, doc>>
           ELSE /\ doc' = [doc EXCEPT ![p] = AsRead(p, d)]
                /\ pc' = [pc EXCEPT ![p] = "write"]
    /\ UNCHANGED <<table, listed, written, edits, stops>>

\* The transaction of a document ends, and the sync goes on or ends.
Leave(p, stage) ==
    /\ pc' = [pc EXCEPT ![p] = stage]
    /\ doc' = [doc EXCEPT ![p] = None]
    /\ written' = [written EXCEPT ![p] = 0]
    /\ listed' = IF stage = "idle" THEN [listed EXCEPT ![p] = Unlisted] ELSE listed
    /\ todo' = IF stage = "idle" THEN [todo EXCEPT ![p] = {}] ELSE todo

\* A chunk is written.  Another transaction's chunks of the document are waited
\* for.
WritePart(p) ==
    /\ pc[p] = "write" /\ written[p] < Parts[doc[p].text]
    /\ documents[doc[p].seq] # NoText
    /\ \A q \in Procs \ {p} : ~(pc[q] = "write" /\ written[q] > 0 /\ doc[q].seq = doc[p].seq)
    /\ written' = [written EXCEPT ![p] = @ + 1]
    /\ UNCHANGED <<table, pc, listed, todo, doc, edits, stops>>

\* The document is gone when its first chunk is to refer to it: it is skipped.
NoDocument(p) ==
    /\ pc[p] = "write" /\ documents[doc[p].seq] = NoText
    /\ Leave(p, "read")
    /\ UNCHANGED <<table, edits, stops>>

Part(d, i) == [no |-> i, of |-> Parts[d.text], hash |-> d.hash, text |-> d.text]

\* What the table holds of the document once what is written so far joins it
\* and the chunks past the last are deleted.
Replaced(p) ==
    {Part(doc[p], i) : i \in 1..written[p]}
    \cup {c \in chunks[doc[p].seq] : c.no > written[p] /\ c.no <= Parts[doc[p].text]}

\* COMMIT, with every chunk written.
Commit(p) ==
    /\ pc[p] = "write" /\ written[p] = Parts[doc[p].text]
    /\ chunks' = [chunks EXCEPT ![doc[p].seq] = Replaced(p)]
    /\ Leave(p, "read")
    /\ UNCHANGED <<documents, born, edits, stops>>

\* Mutant: what was written before the stop is committed.
StopCommits(p) ==
    /\ stops < MaxStops /\ stops' = stops + 1
    /\ pc[p] # "idle"
    /\ chunks' = IF pc[p] = "write" THEN [chunks EXCEPT ![doc[p].seq] = Replaced(p)] ELSE chunks
    /\ \/ Leave(p, "idle")
       \/ pc[p] = "write" /\ Leave(p, "read")
    /\ UNCHANGED <<documents, born, edits>>

\* A stop, or a failure: what the transaction wrote is rolled back (a process
\* that dies leaves that to the database).  A document that fails is skipped.
Stop(p) ==
    /\ stops < MaxStops /\ stops' = stops + 1
    /\ pc[p] # "idle"
    /\ \/ Leave(p, "idle")
       \/ pc[p] = "write" /\ Leave(p, "read")
    /\ UNCHANGED <<table, edits>>

Finish(p) ==
    /\ pc[p] = "read" /\ todo[p] = {}
    /\ Leave(p, "idle")
    /\ UNCHANGED <<table, edits, stops>>

Work(p) ==
    \/ ListDocs(p) \/ ReadHave(p) \/ ReadDoc(p)
    \/ WritePart(p) \/ NoDocument(p) \/ Commit(p) \/ Finish(p)

Next ==
    \/ \E d \in Docs : Edit(d)
    \/ \E p \in Procs : Work(p) \/ Stop(p)

\* A sync begins again after each wait, and a statement ends within its limit (one
\* that waits for a lock comes once the other's transaction ends).
Fairness == \A p \in Procs : WF_vars(Work(p))

Spec == Init /\ [][Next]_vars
FairSpec == Spec /\ Fairness

-----------------------------------------------------------------------------
(* Properties. *)

\* All the chunks of a content.
AllOf(c) == {[no |-> i, of |-> Parts[c], hash |-> c, text |-> c] : i \in 1..Parts[c]}

\* What a document has of chunks is one content's, all of it and nothing else,
\* under that content's hash; a document that is gone has none.
ChunksAreOneContent ==
    \A d \in Docs :
        /\ chunks[d] # {} => \E c \in Contents : chunks[d] = AllOf(c)
        /\ documents[d] = NoText => chunks[d] = {}

\* Once the edits and the stops end every document's chunks are of its content.
EveryDocumentIsSplit ==
    <>[](\A d \in Docs : documents[d] # NoText => chunks[d] = AllOf(documents[d]))
=============================================================================
