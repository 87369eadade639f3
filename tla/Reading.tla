------------------------------- MODULE Reading -------------------------------
(***************************************************************************)
(* What is too long for one result is read page by page: knowledge         *)
(* documents by their chunks (src/backend/src/voc_tools.rs), project files *)
(* by lines and history bundles by characters, lists of paths and matches  *)
(* and the rows of a query's result (tools/mod.rs).  A page is as long as  *)
(* the result budget lets it be, and is cut again beside the other results *)
(* of its response, to whole chunks, or with the rest in an archive of the *)
(* conversation's history.  Which start of it fits is chosen freely.       *)
(*                                                                         *)
(* Left out: the suppression of a file range read again and again, and     *)
(* overlaps too short for join_chunks to take out.                         *)
(***************************************************************************)
EXTENDS Integers, Sequences, FiniteSets

CONSTANT Size      \* characters, lines or rows of what is read

ASSUME ReadingAssumption == Size \in Nat \ {0}

VARIABLES
    text,      \* what is read
    page,      \* the result under way
    seen,      \* what the model was given of it
    follow     \* where it goes on, as the last result told it

readingVars == <<text, page, seen, follow>>

\* A document is the intervals its chunks cover, each next one beginning at the
\* latest after the one before; a file has the positions of its line ends; an
\* archive, a list and a query's rows have none of either.
Chunkings ==
    {c \in UNION {[1..n -> (1..Size) \X (1..Size)] : n \in 1..Size} :
        /\ c[1][1] = 1 /\ c[Len(c)][2] = Size
        /\ \A i \in DOMAIN c : c[i][1] <= c[i][2]
        /\ \A i \in 1..Len(c) - 1 :
              c[i][1] < c[i + 1][1] /\ c[i + 1][1] <= c[i][2] + 1 /\ c[i][2] < c[i + 1][2]}

Documents ==
    [of : {"knowledge"}, chunks : Chunkings, breaks : {{}}, changed : {FALSE}]
    \cup [of : {"file"}, chunks : {<<>>}, breaks : SUBSET (1..Size), changed : {FALSE}]
    \cup [of : {"history", "list", "rows"}, chunks : {<<>>}, breaks : {{}}, changed : {FALSE}]

\* Where a line begins and ends, its line break left out: the breaks before it counted.
Rank(breaks, b) == Cardinality({e \in {0} \cup breaks : e < b})
LineCount(breaks) == Cardinality(breaks) + IF Size \in breaks THEN 0 ELSE 1
LineFrom(breaks, line) == 1 + CHOOSE b \in {0} \cup breaks : Rank(breaks, b) = line - 1
LineTo(breaks, line) ==
    IF \E b \in breaks : Rank(breaks, b) = line
    THEN (CHOOSE b \in breaks : Rank(breaks, b) = line) - 1
    ELSE Size

\* The continuations: read_start's cursor, a file cursor, next_line, an archive's
\* offset, a list's or a result's offset; the end, or a cursor that is refused.
AtChunk(no, skip) == [at |-> "chunk", no |-> no, skip |-> skip]
InRange(start, count, offset) == [at |-> "range", start |-> start, count |-> count, offset |-> offset, stale |-> FALSE]
AtLine(start) == [at |-> "line", start |-> start]
InArchive(from, upto, then) == [at |-> "archive", from |-> from, upto |-> upto, then |-> then]
AtRow(offset) == [at |-> "row", offset |-> offset, stale |-> FALSE]
End == [at |-> "end"]
Refusal == [at |-> "refused"]

FirstRead == CASE text.of = "knowledge" -> AtChunk(1, 0)
           [] text.of = "file" -> AtLine(1)
           [] text.of = "history" -> InArchive(1, Size, End)
           [] OTHER -> AtRow(0)

\* A result: the part of the text it gives, how it goes on, what it was read with, where
\* its chunks end (chunk_ends), its count of lines, and its archive, once it has one.
NoPage == [from |-> 0]
Page(since, from, to, go) ==
    [since |-> since, from |-> from, to |-> to, go |-> go, first |-> follow,
     ends |-> <<>>, count |-> 0, archive |-> End]

ReadingInit == text \in Documents /\ page = NoPage /\ seen = {} /\ follow = FirstRead

-----------------------------------------------------------------------------
Past(no) == IF no <= Len(text.chunks) THEN AtChunk(no, 0) ELSE End

\* fit_chunks: whole chunks, at least one; or the start of one, down to a single
\* character, whose cursor goes on inside it.  With a title that fills the result
\* the start without the title may be the whole chunk.
ReadChunks ==
    /\ page = NoPage /\ follow.at = "chunk"
    /\ LET no == follow.no
           from == text.chunks[no][1] + follow.skip IN
       IF from > text.chunks[no][2]
       THEN page' = NoPage /\ follow' = Refusal
       ELSE /\ \/ \E last \in no..Len(text.chunks) :
                     page' = [Page(1, from, text.chunks[last][2], Past(last + 1)) EXCEPT
                                 !.ends = [i \in 1..(last - no + 1) |-> text.chunks[no + i - 1][2]]]
               \/ \E to \in from..text.chunks[no][2] :
                     page' = [Page(1, from, to, AtChunk(no, follow.skip + to - from + 1)) EXCEPT !.ends = <<to>>]
            /\ UNCHANGED follow
    /\ UNCHANGED <<text, seen>>

\* read_file: lines from a start line, or on from an offset into the lines a cursor
\* was issued for.  Cut, it goes on with a cursor; whole, at the line after them.
FilePage(start, count, offset) ==
    LET lines == LineCount(text.breaks)
        last == IF start + count - 1 < lines THEN start + count - 1 ELSE lines
        since == LineFrom(text.breaks, start)
        from == since + offset
        end == LineTo(text.breaks, last)
        next == IF last < lines THEN AtLine(last + 1) ELSE End IN
    \E to \in from..end \cup {end} :
       page' = [Page(since, from, to, IF to < end THEN InRange(start, count, offset + to - from + 1) ELSE next)
                   EXCEPT !.count = count]

ReadLines ==
    /\ page = NoPage /\ follow.at = "line" /\ follow.start <= LineCount(text.breaks)
    /\ \E count \in 1..2 : FilePage(follow.start, count, 0)
    /\ UNCHANGED <<text, seen, follow>>

PastLastLine ==
    /\ page = NoPage /\ follow.at = "line" /\ follow.start > LineCount(text.breaks)
    /\ follow' = End
    /\ UNCHANGED <<text, page, seen>>

\* Mutant: a cursor followed into a file that changed.
CursorHoldsAlways == TRUE

\* The cursor's file must be what it was.
CursorHolds == ~follow.stale

ReadOnInFile ==
    /\ page = NoPage /\ follow.at = "range"
    /\ IF CursorHolds
       THEN FilePage(follow.start, follow.count, follow.offset) /\ UNCHANGED follow
       ELSE page' = NoPage /\ follow' = Refusal
    /\ UNCHANGED <<text, seen>>

\* bounded_text of a history bundle: an archived result, or a message of its own.
ReadArchive ==
    /\ page = NoPage /\ follow.at = "archive"
    /\ \E to \in follow.from..follow.upto :
          page' = Page(follow.from, follow.from, to,
                       IF to = follow.upto THEN follow.then ELSE InArchive(to + 1, follow.upto, follow.then))
    /\ UNCHANGED <<text, seen, follow>>

\* page_cursor, result_read: a list's cursor names the listing it was issued for.
ReadRows ==
    /\ page = NoPage /\ follow.at = "row"
    /\ IF text.of = "list" /\ ~CursorHolds
       THEN page' = NoPage /\ follow' = Refusal
       ELSE /\ \E to \in follow.offset + 1..Size :
                  page' = Page(1, follow.offset + 1, to, IF to < Size THEN AtRow(to) ELSE End)
            /\ UNCHANGED follow
    /\ UNCHANGED <<text, seen>>

-----------------------------------------------------------------------------
\* The archive of a result is made once, whole; cut again, it goes on past what is
\* shown of it (Archived::shown_through).
ArchiveOf(p) == IF p.archive = End THEN InArchive(p.from, p.to, p.go) ELSE p.archive
ArchivePast(p, to) == LET a == ArchiveOf(p) IN InArchive(to + 1, a.upto, a.then)

\* knowledge_page: the whole chunks of the result that fit, never all of them; or
\* nothing, to be read again from where this read began.
CutChunks ==
    /\ page # NoPage /\ page.first.at = "chunk" /\ page.ends # <<>>
    /\ \E taken \in 0..Len(page.ends) - 1 :
          page' = IF taken = 0
                  THEN [page EXCEPT !.to = page.from - 1, !.ends = <<>>, !.go = page.first]
                  ELSE [page EXCEPT !.to = page.ends[taken], !.ends = SubSeq(@, 1, taken),
                                    !.go = AtChunk(page.first.no + taken, 0)]
    /\ UNCHANGED <<text, seen, follow>>

\* How a result cut to `to` goes on by itself: a file read with a cursor of the same
\* lines, a read of an archive with its offset, rows and a list that went on at all
\* with theirs (a result's rows always).
Narrowed(p, to) ==
    CASE p.first.at \in {"line", "range"} -> {InRange(p.first.start, p.count, to - p.since + 1)}
      [] p.first.at = "archive" -> {[p.first EXCEPT !.from = to + 1]}
      [] p.first.at = "row" ->
            IF text.of = "rows" \/ p.go.at = "row" THEN {AtRow(to)} ELSE {}

\* bound_result: the text or the items cut, and what is left out in the archive too,
\* but for a file's text and an archive, which go on by themselves.
CutPage ==
    /\ page # NoPage /\ page.first.at # "chunk" /\ page.to >= page.from
    /\ \E to \in page.from..page.to - 1 :
          \E go \in Narrowed(page, to) \cup
                    (IF page.first.at = "row" THEN {ArchivePast(page, to)} ELSE {}) :
             page' = [page EXCEPT !.to = to, !.go = go,
                         !.archive = IF page.first.at = "row" THEN ArchiveOf(page) ELSE @]
    /\ UNCHANGED <<text, seen, follow>>

\* Nothing of it fits: all of it is read from the archive (a read of an archive
\* begins again where it began).
CutAway ==
    /\ page # NoPage /\ page.first.at # "chunk"
    /\ page' = [page EXCEPT !.to = page.from - 1,
                   !.go = IF page.first.at = "archive" THEN page.first ELSE ArchivePast(page, page.from - 1),
                   !.archive = IF page.first.at = "archive" THEN @ ELSE ArchiveOf(page)]
    /\ page'.to # page.to
    /\ UNCHANGED <<text, seen, follow>>

\* The result reaches the model, which goes on as it says.
Deliver ==
    /\ page # NoPage
    /\ seen' = seen \cup (page.from..page.to)
    /\ follow' = page.go
    /\ page' = NoPage
    /\ UNCHANGED text

-----------------------------------------------------------------------------
\* The file or the listing changes: what was read of it was of the one before.  An
\* archive is not of the file any more: a change meanwhile is one after it.
TextChanges ==
    /\ text.of \in {"file", "list"} /\ ~text.changed /\ page = NoPage /\ follow.at \in {"line", "range", "row"}
    /\ \E new \in {t \in Documents : t.of = text.of} : text' = [new EXCEPT !.changed = TRUE]
    /\ seen' = {}
    /\ follow' = IF follow.at = "line" THEN follow ELSE [follow EXCEPT !.stale = TRUE]
    /\ UNCHANGED page

\* A file cursor dropped for room, a stored result or a history bundle evicted.
Dropped ==
    /\ page = NoPage
    /\ follow.at \in {"range", "archive"} \/ (follow.at = "row" /\ text.of = "rows")
    /\ follow' = Refusal
    /\ UNCHANGED <<text, page, seen>>

\* Told that its cursor is refused, the model begins again.
StartOver ==
    /\ follow.at = "refused"
    /\ follow' = FirstRead
    /\ UNCHANGED <<text, page, seen>>

ReadingNext ==
    \/ ReadChunks \/ ReadLines \/ PastLastLine \/ ReadOnInFile \/ ReadArchive \/ ReadRows
    \/ CutChunks \/ CutPage \/ CutAway \/ Deliver
    \/ TextChanges \/ Dropped \/ StartOver

ReadingSpec == ReadingInit /\ [][ReadingNext]_readingVars

-----------------------------------------------------------------------------
\* Following the continuations of cut results skips nothing: a page begins where all
\* before it was given to the model, and what is said to be read to its end was,
\* however often results were cut, by whichever of the ways a cut result goes on.
\* (Of a file that changed, within the lines a cursor goes on in.)
NothingIsSkipped ==
    /\ page # NoPage =>
          (IF text.changed THEN page.since ELSE 1)..(page.from - 1) \subseteq seen \cup text.breaks
    /\ follow.at = "end" /\ ~text.changed => 1..Size \subseteq seen \cup text.breaks

=============================================================================
