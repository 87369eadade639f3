----------------------------- MODULE FileSearch -----------------------------
(***************************************************************************)
(* `source_search` and `file_list` over a project's files                  *)
(* (src/backend/src/tools/search.rs, tools/mod.rs).  A call walks the      *)
(* project, reads the files in scope one after another and answers with a  *)
(* page; the next page is a call of its own, which walks and reads all of  *)
(* it again and goes on only where it finds the same.  Lines are looked    *)
(* for a block of whole lines at a time, a block's match telling which     *)
(* line to test, and the files may change at any time, between two calls   *)
(* or under one.                                                           *)
(*                                                                         *)
(* Left out: the lines shown around a match, the wording of refusals, and  *)
(* which paths a glob or a rule of the project names.                      *)
(***************************************************************************)
EXTENDS Integers, Sequences, FiniteSets

CONSTANTS
    FileCount,     \* files are 1..FileCount, in the order of their paths
    FileTexts,     \* the contents each may have: sequences of lines, or Unread
    Unread,        \* binary, too large, not UTF-8, or failing to be read
    BlockLines,    \* lines of a block (BLOCK_BYTES)
    PageItems,     \* items of a page (limit)
    MaxPaths,      \* files a walk lists at most (max_paths)
    ListScopes,    \* listings whose scope is remembered (LIST_SCOPES)
    MaxChanges     \* bound: changes of files

Files == 1..FileCount

ASSUME FileSearchAssumption ==
    /\ {FileCount, BlockLines, PageItems, MaxPaths, ListScopes} \subseteq Nat \ {0}
    /\ FileTexts \in [Files -> SUBSET (Seq({"hit", "near", "miss"}) \cup {Unread})]

VARIABLES
    files,     \* the project: where each file is, and what is in it
    query,     \* what is asked
    call,      \* the call under way
    handed,    \* the items the model was given
    goes,      \* where it goes on
    scopes,    \* Workspace::list_cursor_scopes, oldest first
    changes

fileVars == <<files, query, call, handed, goes, scopes, changes>>

\* A file is in the project, or kept out of it: gone, excluded by the rules, in a build
\* folder, one of the server's own secrets, behind a link, its name one no tool can say.
Places == {"in", "out"}

\* A line: "hit" matches; in a "near" one the block has a match (blank, or going over
\* its end) that the line read alone has not; a "miss" has none.
Matches(line) == line = "hit"

\* What a call may ask, once its arguments are in order: a search for matching lines
\* or the files that have them, a list of text files or of all paths; below a path or
\* glob or in one file named.  `blocks`: the words are literal, or a regular expression
\* that reads a block as its lines.
FileQueries ==
    [tool : {"source_search"}, mode : {"matches", "files"}, scope : {Files, {1}}, named : {FALSE}, blocks : BOOLEAN]
    \cup [tool : {"source_search"}, mode : {"matches"}, scope : {{1}}, named : {TRUE}, blocks : {TRUE}]
    \cup [tool : {"file_list"}, mode : {"text", "paths"}, scope : {Files, {1}}, named : {FALSE}, blocks : {FALSE}]

NoCall == [step |-> "none"]
FromTheStart == [at |-> "start"]
AtPage(id, offset, items) == [at |-> "page", id |-> id, offset |-> offset, of |-> items]
AllHanded(items) == [at |-> "end", of |-> items]

FileInit ==
    /\ files \in {f \in [Files -> [place : Places, text : UNION {FileTexts[i] : i \in Files}]] :
                     \A i \in Files : f[i].text \in FileTexts[i]}
    /\ query \in FileQueries
    /\ call = NoCall /\ handed = <<>> /\ goes = FromTheStart /\ scopes = <<>> /\ changes = 0

-----------------------------------------------------------------------------
\* Someone edits, moves, deletes or adds a file.
ChangeFile(f) ==
    /\ changes < MaxChanges /\ changes' = changes + 1
    /\ \E place \in Places, text \in FileTexts[f] : files' = [files EXCEPT ![f] = [place |-> place, text |-> text]]
    /\ UNCHANGED <<query, call, handed, goes, scopes>>

\* What a call keeps while it reads: the files to come, the one being read and the place
\* in it, the end of the block, the lines before that place, what was found so far (a
\* search's lines) and listed (files), and each file as it was read.
Called(asked) == [step |-> "asked", asked |-> asked, go |-> goes, todo |-> {}, file |-> 0, at |-> 0,
                  to |-> 0, number |-> 0, jump |-> FALSE, found |-> <<>>, listed |-> <<>>,
                  read |-> [f \in Files |-> Unread]]

CallTool ==
    /\ call = NoCall /\ goes.at \in {"start", "page"}
    /\ call' = Called(query)
    /\ UNCHANGED <<files, query, handed, goes, scopes, changes>>

\* A continuation of a list that leaves its mode and its scope out: they are those its
\* cursor was issued for while that is remembered, then all text files.
CallWithCursorAlone ==
    /\ call = NoCall /\ goes.at = "page" /\ query.tool = "file_list"
    /\ LET remembered == \E i \in DOMAIN scopes : scopes[i] = goes.id IN
       call' = Called(IF remembered THEN goes.id.asked
                      ELSE [query EXCEPT !.mode = "text", !.scope = Files])
    /\ UNCHANGED <<files, query, handed, goes, scopes, changes>>

\* The model stops the call, its time is up (looked at before each file and each
\* block), the walk fails or lists too many: no part of it is answered.
CallFails ==
    /\ call # NoCall /\ call.step # "lines"
    /\ call' = NoCall
    /\ UNCHANGED <<files, query, handed, goes, scopes, changes>>

\* The files of the walk, read by path; the one named is not walked for.
Walk ==
    /\ call.step = "asked"
    /\ LET paths == {f \in call.asked.scope : files[f].place = "in"} IN
       /\ Cardinality(paths) <= MaxPaths
       /\ call.asked.named => paths # {}
       /\ call' = [call EXCEPT !.step = "files", !.todo = paths]
    /\ UNCHANGED <<files, query, handed, goes, scopes, changes>>

IsNext(f) == call.step = "files" /\ f \in call.todo /\ \A g \in call.todo : f <= g

CanBeRead(f) == files[f].place = "in" /\ files[f].text # Unread

\* A walked file that cannot be read is passed over, whatever keeps it from being read;
\* a named one only when it is no text.
PassOver(f) ==
    /\ IsNext(f) /\ ~CanBeRead(f) /\ call.asked.mode # "paths"
    /\ call.asked.named => files[f].place = "in"
    /\ call' = [call EXCEPT !.todo = @ \ {f}]
    /\ UNCHANGED <<files, query, handed, goes, scopes, changes>>

\* A list reads a file to know that it is text, and all paths without reading any.
ListFile(f) ==
    /\ IsNext(f) /\ call.asked.tool = "file_list" /\ (call.asked.mode = "paths" \/ CanBeRead(f))
    /\ call' = [call EXCEPT !.todo = @ \ {f}, !.listed = Append(@, f)]
    /\ UNCHANGED <<files, query, handed, goes, scopes, changes>>

\* The file is read whole, here, whatever becomes of it while its blocks are scanned.
OpenFile(f) ==
    /\ IsNext(f) /\ call.asked.tool = "source_search" /\ CanBeRead(f)
    /\ call' = [call EXCEPT !.step = "blocks", !.todo = @ \ {f}, !.file = f, !.at = 1, !.number = 0,
                            !.read[f] = files[f].text]
    /\ UNCHANGED <<files, query, handed, goes, scopes, changes>>

FileLines == call.read[call.file]

\* Each block begins looking for a match of its own.
NextBlock ==
    /\ call.step = "blocks" /\ call.at <= Len(FileLines)
    /\ LET end == call.at + BlockLines - 1 IN
       call' = [call EXCEPT !.step = "lines", !.jump = call.asked.blocks,
                            !.to = IF end < Len(FileLines) THEN end ELSE Len(FileLines)]
    /\ UNCHANGED <<files, query, handed, goes, scopes, changes>>

\* The line tested next: after one that did not match, the one the block's next match
\* starts in (past the block, when it has none); after one that did, the one that follows.
IsTested(line) ==
    IF call.jump
    THEN /\ \A i \in call.at..(line - 1) : FileLines[i] = "miss"
         /\ line <= call.to => FileLines[line] # "miss"
    ELSE line = call.at

TestLine ==
    /\ call.step = "lines" /\ call.at <= call.to
    /\ \E line \in call.at..(call.to + 1) :
          /\ IsTested(line)
          /\ LET passed == call.number + line - call.at IN
             call' = IF line > call.to
                     THEN [call EXCEPT !.at = line, !.number = passed]
                     ELSE [call EXCEPT !.at = line + 1, !.number = passed + 1,
                              !.jump = call.asked.blocks /\ ~Matches(FileLines[line]),
                              !.found = IF Matches(FileLines[line]) THEN Append(@, <<call.file, passed + 1>>) ELSE @]
    /\ UNCHANGED <<files, query, handed, goes, scopes, changes>>

BlockEnds ==
    /\ call.step = "lines" /\ call.at > call.to
    /\ call' = [call EXCEPT !.step = "blocks"]
    /\ UNCHANGED <<files, query, handed, goes, scopes, changes>>

\* A file with a line found is one of the files found.
NextFile ==
    /\ call.step = "blocks" /\ call.at > Len(FileLines)
    /\ call' = [call EXCEPT !.step = "files", !.file = 0, !.at = 0, !.to = 0, !.number = 0, !.jump = FALSE,
                            !.listed = IF \E n \in DOMAIN call.found : call.found[n][1] = call.file
                                       THEN Append(@, call.file) ELSE @]
    /\ UNCHANGED <<files, query, handed, goes, scopes, changes>>

\* Mutant: a cursor known by its arguments and how much was found.
FingerprintOfCount ==
    [asked |-> call.asked,
     of |-> IF call.asked.tool = "file_list" THEN call.listed ELSE [i \in DOMAIN call.found |-> <<1, 1>>]]

\* What a cursor counts in: the arguments, and where the lines were found, or the
\* names listed.
Fingerprint ==
    [asked |-> call.asked, of |-> IF call.asked.tool = "file_list" THEN call.listed ELSE call.found]

\* The items of the listing: lines, files with a line, or files.
Items == IF call.asked.mode = "matches" THEN call.found ELSE call.listed

\* remember_list_scope: the newest last, the oldest dropped.
Remember(id) ==
    LET others == SelectSeq(scopes, LAMBDA known : known # id) IN
    Append(IF Len(others) = ListScopes THEN Tail(others) ELSE others, id)

AllRead == call.step = "files" /\ call.todo = {}

\* The page from the cursor's offset.  A cursor of other arguments or of another listing
\* has expired: the model starts again.
GivePage ==
    /\ AllRead
    /\ call' = NoCall
    /\ IF call.go.at = "page" /\ call.go.id # Fingerprint
       THEN handed' = <<>> /\ goes' = FromTheStart /\ UNCHANGED scopes
       ELSE LET offset == IF call.go.at = "page" THEN call.go.offset ELSE 0
                end == IF offset + PageItems < Len(Items) THEN offset + PageItems ELSE Len(Items) IN
            /\ handed' = handed \o SubSeq(Items, offset + 1, end)
            /\ goes' = IF end < Len(Items) THEN AtPage(Fingerprint, end, Items) ELSE AllHanded(Items)
            /\ scopes' = IF call.asked.tool = "file_list" /\ end < Len(Items) THEN Remember(Fingerprint) ELSE scopes
    /\ UNCHANGED <<files, query, changes>>

\* Another list, cut too, is remembered beside this one's.
OtherList ==
    /\ call = NoCall /\ goes.at = "page" /\ query.tool = "file_list"
    /\ scopes' = Remember([asked |-> [query EXCEPT !.scope = {}], of |-> <<>>])
    /\ UNCHANGED <<files, query, call, handed, goes, changes>>

FileNext ==
    \/ \E f \in Files : ChangeFile(f) \/ PassOver(f) \/ ListFile(f) \/ OpenFile(f)
    \/ CallTool \/ CallWithCursorAlone \/ CallFails \/ Walk
    \/ NextBlock \/ TestLine \/ BlockEnds \/ NextFile \/ GivePage \/ OtherList

FileSpec == FileInit /\ [][FileNext]_fileVars

-----------------------------------------------------------------------------
(* Properties. *)

\* Every line of what was read that matches read alone.
Matching(read) ==
    UNION {{<<f, i>> : i \in {j \in DOMAIN read[f] : Matches(read[f][j])}} : f \in {g \in Files : read[g] # Unread}}

\* Lines by file, then by number.
LineBefore(one, other) == one[1] < other[1] \/ (one[1] = other[1] /\ one[2] < other[2])

\* A search that read its files found each line that matches, under its own number and
\* once, in the order of the files, though it tested only some of them, and each file
\* that has one (search.rs execute); and the pages the model was given are, put together,
\* the start of one listing of one question, up to where it goes on, and all of it in the
\* end, whatever changed in the files between its calls (page_cursor, remember_list_scope).
SearchesAreWhole ==
    /\ call # NoCall =>
          (AllRead /\ call.asked.tool = "source_search" =>
              /\ {call.found[n] : n \in DOMAIN call.found} = Matching(call.read)
              /\ \A m, n \in DOMAIN call.found : m < n => LineBefore(call.found[m], call.found[n])
              /\ {call.listed[n] : n \in DOMAIN call.listed} = {line[1] : line \in Matching(call.read)}
              /\ \A m, n \in DOMAIN call.listed : m < n => call.listed[m] < call.listed[n])
    /\ goes.at = "start" => handed = <<>>
    /\ goes.at = "page" => handed = SubSeq(goes.of, 1, goes.offset) /\ goes.id.asked = query
    /\ goes.at = "end" => handed = goes.of

=============================================================================
