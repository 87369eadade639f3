------------------------------- MODULE History -------------------------------
(***************************************************************************)
(* The messages of one conversation (SessionHistory of                     *)
(* backend/src/session.rs) and the way they leave the model's context      *)
(* (backend/src/context.rs): operators on a history, with no state of      *)
(* their own.                                                              *)
(*                                                                         *)
(* The deque of bundles is a set: every bundle joins at the back with the  *)
(* next id, so its order is the order of the ids.  A bundle's messages are *)
(* reduced to what eviction and pruning read of them: what kind of message *)
(* opens it, the question it belongs to, what its tool results continue or *)
(* found, and its size, in one unit for bytes and tokens.  Every bundle    *)
(* the code pushes is complete, so that flag is left out.                  *)
(***************************************************************************)
EXTENDS Integers, FiniteSets, FiniteSetsExt

\* A question; an answer, or what a stopped one had written; the pieces so far
\* of an answer being continued (`partial`); a response's calls and their
\* results; a cut result kept whole (`tool_archive`).
Kinds == {"user", "reply", "piece", "calls", "archive"}

Bundle == [
    id : Nat \ {0},
    kind : Kinds,
    question : Nat,
    text : Nat,                    \* how much of the answer a reply or piece holds
    size : Nat,
    continues : SUBSET (Nat \ {0}), \* bundles its results go on in (archive_id, next_cursor)
    found : SUBSET (Nat \ {0}),     \* bundles its history searches list
    active : BOOLEAN]

HistoryType == [bundles : SUBSET Bundle, nextId : Nat, prunedThrough : Nat]

Active(h) == {b \in h.bundles : b.active}
Inactive(h) == {b \in h.bundles : ~b.active}
Ids(h) == {b.id : b \in h.bundles}
\* What bundles hold, as the number of their units.
Size(bundles) == Cardinality(UNION {{b} \X (1..b.size) : b \in bundles})

\* The last of a set of bundles.
IsLast(b, bundles) == b \in bundles /\ \A c \in bundles : c.id <= b.id

-----------------------------------------------------------------------------
(* Joining and leaving at the back. *)

Message(kind, question, text) ==
    [kind |-> kind, question |-> question, text |-> text, size |-> 1,
     continues |-> {}, found |-> {}]

\* `push`; an archive is made inactive at once (archive_for).
Push(h, m) ==
    [h EXCEPT !.nextId = @ + 1,
              !.bundles = @ \cup {[id |-> h.nextId + 1, kind |-> m.kind,
                                   question |-> m.question, text |-> m.text,
                                   size |-> m.size, continues |-> m.continues,
                                   found |-> m.found, active |-> m.kind # "archive"]}]

\* Mutant: whatever is last leaves.
PopLast(h) == [h EXCEPT !.bundles = {b \in @ : ~IsLast(b, @)}]

\* `last_is_partial` guards every `pop_back`: the pieces so far leave, to come
\* back longer or whole.
PopPiece(h) == [h EXCEPT !.bundles = {b \in @ : ~(b.kind = "piece" /\ IsLast(b, @))}]

-----------------------------------------------------------------------------
(* Eviction: bundles leave the context, the oldest first. *)

\* What `evict_down_to` may take: not the newest, nor the protected question.
Evictable(h, protected) == {b \in Active(h) : ~IsLast(b, Active(h)) /\ b.id # protected}

\* Its first loop, for a request `excess` tokens over the mark it goes down to:
\* it stops at the first bundle that those before it made room for.
Evicted(h, protected, excess) ==
    LET evictable == Evictable(h, protected)
        before(b) == {c \in evictable : c.id < b.id}
    IN  {b \in evictable : \A c \in evictable : c.id <= b.id => Size(before(c)) < excess}

\* Mutant: replies whose question left stay.
LeadingStays(h, protected, gone) == {}

\* Its second loop: whatever opens the context and is no question goes too.
Leading(h, protected, gone) ==
    LET left == Active(h) \ gone
    IN  {b \in left : \A c \in left :
            c.id <= b.id => c.kind # "user" /\ ~IsLast(c, Active(h)) /\ c.id # protected}

\* `evict_down_to`.
LeavesContext(h, protected, excess) ==
    LET gone == Evicted(h, protected, excess)
    IN  IF gone = {} THEN {} ELSE gone \cup Leading(h, protected, gone)

EvictDownTo(h, protected, excess) ==
    LET leaving == LeavesContext(h, protected, excess)
    IN  [h EXCEPT !.bundles = {[b EXCEPT !.active = @ /\ b \notin leaving] : b \in @}]

-----------------------------------------------------------------------------
(* Pruning: inactive bundles are dropped past the byte limit. *)

\* What results in the context continue, and what a history search in the newest
\* bundle found.  (An archive is found by its id and by its call's: the bundle
\* whose result it keeps names it in `continues` either way.)
Continued(h) ==
    (UNION {b.continues : b \in Active(h)})
    \cup (UNION {b.found : b \in {c \in Active(h) : IsLast(c, Active(h))}})

\* Mutant: what a history search found is not kept for the next response.
DroppableThoughFound(h) == {b \in Inactive(h) : \A c \in Active(h) : b.id \notin c.continues}

Droppable(h) == {b \in Inactive(h) : b.id \notin Continued(h)}

\* The loop of `prune`, which goes on while the inactive bundles hold more than
\* the limit.
Dropped(h, limit) ==
    LET droppable == Droppable(h)
        before(b) == {c \in droppable : c.id < b.id}
    IN  {b \in droppable : \A c \in droppable :
            c.id <= b.id => Size(Inactive(h)) - Size(before(c)) > limit}

Prune(h, limit) ==
    LET dropped == Dropped(h, limit)
    IN  [h EXCEPT !.bundles = @ \ dropped,
                  !.prunedThrough = Max({@} \cup {b.id : b \in dropped})]

-----------------------------------------------------------------------------
(* What a history should be. *)

\* Every reply, piece and tool result in the context has its question in the
\* context before it, so the context opens with a user message however much of
\* it left.
QuestionInContext(h) ==
    \A b \in Active(h) : b.kind # "user" =>
        \E u \in Active(h) : u.kind = "user" /\ u.question = b.question /\ u.id < b.id

\* What a result in the context says is read on in the history can be read
\* there, and so can what the newest search found.
ContinuationReadable(h) == Continued(h) \subseteq Ids(h)

\* The inactive bundles fit the limit, or every one of them is still continued.
WithinLimit(h, limit) == Size(Inactive(h)) <= limit \/ Droppable(h) = {}
=============================================================================
