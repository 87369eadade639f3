----------------------------- MODULE MCKnowledge -----------------------------
(***************************************************************************)
(* How what the model can look up is kept and given to it: the chunks of   *)
(* knowledge documents, pages of what is read, pages of a search and of    *)
(* files.  The four share no state: each behaviour is one part's, the      *)
(* others rest in one of their initial states.                             *)
(***************************************************************************)
EXTENDS Chunks, Reading, Searching, FileSearch

CONSTANTS p1, p2, d1, d2, x, y

VARIABLE part

\* Model values, the number of chunks of each content, and the files' texts.
OneOrTwo == [c \in Contents |-> IF c = x THEN 2 ELSE 1]
TwoFiles ==
    <<{<<"hit", "near", "hit">>, <<"near", "hit", "hit">>, <<"miss", "near", "hit">>, <<"near", "miss", "near">>,
       <<"hit">>, Unread},
      {<<"hit">>, <<"near", "hit">>, Unread}>>

allVars == <<part, vars, readingVars, searchingVars, fileVars>>

InitAll ==
    /\ part \in {"chunks", "reading", "searching", "files"}
    /\ (part # "chunks" => documents = Unlisted)
    /\ Init
    /\ (part # "reading" => text = [of |-> "rows", chunks |-> <<>>, breaks |-> {}, changed |-> FALSE])
    /\ ReadingInit
    /\ (part # "searching" => found = [byDocument |-> TRUE, total |-> 0, exact |-> 0, titles |-> <<>>])
    /\ SearchingInit
    /\ (part # "files" =>
          /\ files = [f \in Files |-> [place |-> "out", text |-> Unread]]
          /\ query = CHOOSE q \in FileQueries : TRUE)
    /\ FileInit

\* All but one part's variables stay as they are.
Rests(one) ==
    /\ UNCHANGED part
    /\ one # "chunks" => UNCHANGED vars
    /\ one # "reading" => UNCHANGED readingVars
    /\ one # "searching" => UNCHANGED searchingVars
    /\ one # "files" => UNCHANGED fileVars

NextAny ==
    \/ part = "chunks" /\ Next /\ Rests("chunks")
    \/ part = "reading" /\ ReadingNext /\ Rests("reading")
    \/ part = "searching" /\ SearchingNext /\ Rests("searching")
    \/ part = "files" /\ FileNext /\ Rests("files")

SpecAll ==
    /\ InitAll /\ [][NextAny]_allVars
    /\ \A p \in Procs : WF_vars(part = "chunks" /\ Work(p))
=============================================================================
