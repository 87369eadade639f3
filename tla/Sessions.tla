------------------------------ MODULE Sessions ------------------------------
(***************************************************************************)
(* The conversations of the chat server: the session store                 *)
(* (backend/src/session.rs), the way one question claims its conversation, *)
(* waits for the conversation's lock and releases the claim                *)
(* (backend/src/agent.rs `answer` and `restore`), the browser tab that     *)
(* sends the questions (frontend/src/App.jsx `ask`), and a server that may *)
(* restart with the tabs still open.                                       *)
(*                                                                         *)
(* A question is a run.  What the model says is left out: a turn is        *)
(* the run it belongs to and the side that spoke.  A conversation object   *)
(* (the `Arc<Mutex<Conversation>>` of an entry) is named after the run     *)
(* whose `open` made it, so an id may stand for several of them in turn.   *)
(***************************************************************************)
EXTENDS Integers, FiniteSets, SequencesExt

CONSTANTS
    Ids,          \* conversation ids the browser tabs use
    NoId,         \* no id: a question not asked yet
    OneShot,      \* the ids of requests that named no conversation
    MaxRuns,      \* bound: questions asked in all
    MaxSessions,  \* config agent.max_sessions
    IdleTime,     \* config agent.session_idle_minutes
    Window,       \* HISTORY_TURNS of the browser, MAX_CHAT_TURNS of the server
    MaxTime,      \* bound: clock ticks
    MaxRestarts   \* bound: server restarts

Runs == 1..MaxRuns
NoRun == 0

ASSUME SessionsAssumption ==
    /\ IsFiniteSet(Ids)
    /\ NoId \notin Ids
    /\ OneShot \subseteq Ids
    /\ MaxRuns \in Nat /\ MaxTime \in Nat /\ MaxRestarts \in Nat
    /\ MaxSessions \in Nat
    /\ IdleTime \in Nat \ {0}
    /\ Window \in Nat \ {0}

VARIABLES
    entries,    \* SessionStore.entries: id -> entry, NoEntry where the map has none
    now,        \* the clock
    pc,         \* where each run is
    asks,       \* the conversation id of each question
    claim,      \* Claim.conversation: the conversation object a run opened
    cancelled,  \* the runs whose CancellationToken is cancelled
    answered,   \* the runs that returned an answer
    log,        \* conversation object -> its turns (SessionHistory, as turns)
    sent,       \* the browser's turns that came with each question
    tab,        \* id -> the question its tab waits for, NoRun when it may ask
    kept,       \* id -> the turns its tab keeps (historyRef)
    restarts    \* restarts of the server so far

store == <<entries, now>>
runs == <<pc, asks, claim, cancelled, answered>>
browser == <<sent, tab, kept>>
vars == <<entries, now, pc, asks, claim, cancelled, answered, log, sent, tab, kept, restarts>>

Turn == [run : Runs, role : {"user", "assistant"}]
Asked(r) == [run |-> r, role |-> "user"]
Said(r) == [run |-> r, role |-> "assistant"]

Entry == [conversation : Runs \cup {NoRun}, running : Runs \cup {NoRun}, lastUsed : Nat]
NoEntry == [conversation |-> NoRun, running |-> NoRun, lastUsed |-> 0]

\* A run is new, waiting for the conversation's lock, asking the model inside it,
\* done inside it (the lock's guard is dropped next), releasing its claim, and
\* ended (its last line is on its way to the browser).
Stages == {"new", "waiting", "asking", "done", "releasing", "ended"}
\* The stages between `open` and the drop of `Release`.
Claiming == {"waiting", "asking", "done", "releasing"}
\* The stages in which a run has the lock of the conversation it claimed.
Inside == {"asking", "done"}

Stored == {id \in Ids : entries[id].conversation # NoRun}

\* The store and the runs' claims on it.
StoreTypeOK ==
    /\ entries \in [Ids -> Entry]
    /\ now \in Nat
    /\ pc \in [Runs -> Stages]
    /\ asks \in [Runs -> Ids \cup {NoId}]
    /\ claim \in [Runs -> Runs \cup {NoRun}]
    /\ cancelled \subseteq Runs
    /\ answered \subseteq Runs
    /\ tab \in [Ids -> Runs \cup {NoRun}]
    /\ restarts \in Nat

\* The turns of the conversations and of the tabs, which keep `Window` at most.
TalkTypeOK ==
    /\ log \in [Runs -> Seq(Turn)]
    /\ sent \in [Runs -> Seq(Turn)]
    /\ kept \in [Ids -> {turns \in Seq(Turn) : Len(turns) <= Window}]

TypeOK == StoreTypeOK /\ TalkTypeOK

Init ==
    /\ entries = [id \in Ids |-> NoEntry]
    /\ now = 0
    /\ pc = [r \in Runs |-> "new"]
    /\ asks = [r \in Runs |-> NoId]
    /\ claim = [r \in Runs |-> NoRun]
    /\ cancelled = {}
    /\ answered = {}
    /\ log = [r \in Runs |-> <<>>]
    /\ sent = [r \in Runs |-> <<>>]
    /\ tab = [id \in Ids |-> NoRun]
    /\ kept = [id \in Ids |-> <<>>]
    /\ restarts = 0

-----------------------------------------------------------------------------
(* The browser tab. *)

\* rememberTurn: a turn joins the kept ones, the oldest leave past the window.
Remember(turns, turn) ==
    LET all == Append(turns, turn)
    IN  IF Len(all) > Window THEN SubSeq(all, Len(all) - Window + 1, Len(all)) ELSE all

\* The last line of the stream: `done` with the answer, which the tab keeps, or
\* an error (or nothing at all, for a cancelled run), which it does not.
Receive(r) ==
    /\ pc[r] = "ended" /\ tab[asks[r]] = r
    /\ tab' = [tab EXCEPT ![asks[r]] = NoRun]
    /\ kept' = IF r \in answered
               THEN [kept EXCEPT ![asks[r]] = Remember(kept[asks[r]], Said(r))]
               ELSE kept
    /\ UNCHANGED <<store, runs, log, sent, restarts>>

\* The tab gives its question up: the stop button (what it had shown is kept as
\* a turn, `stoppedPartial`), the request's time limit, a broken connection.
Leave(r) ==
    /\ pc[r] # "new" /\ tab[asks[r]] = r
    /\ tab' = [tab EXCEPT ![asks[r]] = NoRun]
    /\ \/ kept' = kept
       \/ /\ pc[r] \in {"asking", "done", "releasing", "ended"}
          /\ kept' = [kept EXCEPT ![asks[r]] = Remember(kept[asks[r]], Said(r))]
    /\ UNCHANGED <<store, runs, log, sent, restarts>>

-----------------------------------------------------------------------------
(* The session store. *)

\* Mutant: a conversation expires though a run claims it.
ExpiredThoughClaimed(id) == now - entries[id].lastUsed >= IdleTime

Expired(id) == entries[id].running = NoRun /\ now - entries[id].lastUsed >= IdleTime

\* `retain` in `open`: what expired goes, the conversation asked for stays.
Retained(id) == {k \in Stored : k = id \/ ~Expired(k)}

Limit == IF MaxSessions < 1 THEN 1 ELSE MaxSessions

\* The loop of `open` that makes room for one more entry: while the map holds
\* `max` entries it drops the least recently used one that no run claims.
MakesRoom(held, dropped) ==
    LET idle == {k \in held : entries[k].running = NoRun}
        over == IF Cardinality(held) >= Limit THEN Cardinality(held) - Limit + 1 ELSE 0
    IN  /\ dropped \subseteq idle
        /\ \/ Cardinality(dropped) = over
           \/ Cardinality(dropped) < over /\ dropped = idle
        /\ \A k \in dropped, l \in idle \ dropped : entries[k].lastUsed <= entries[l].lastUsed

\* `SessionStore::open`: run r claims the conversation of id and cancels the run
\* that had claimed it.
Open(r, id) ==
    LET held == Retained(id)
        existed == id \in Stored
        conversation == IF existed THEN entries[id].conversation ELSE r
    IN  /\ \E dropped \in SUBSET held :
             /\ IF existed THEN dropped = {} ELSE MakesRoom(held, dropped)
             /\ entries' = [k \in Ids |->
                  IF k = id
                  THEN [conversation |-> conversation, running |-> r, lastUsed |-> now]
                  ELSE IF k \in held \ dropped THEN entries[k] ELSE NoEntry]
        /\ claim' = [claim EXCEPT ![r] = conversation]
        /\ cancelled' = cancelled \cup ({entries[id].running} \ {NoRun})

\* `ask` of the browser and the start of `answer`: the tab sends its question
\* with the turns it keeps, then keeps the question too; the server opens the
\* conversation and goes on to wait for its lock.  The tab of an id has one
\* question out at a time (canSend), and its requests arrive in order.  A
\* request without an id gets one of its own, so a one-shot id is asked once.
Ask(r, id) ==
    /\ pc[r] = "new" /\ \A q \in Runs : q < r => pc[q] # "new"
    /\ tab[id] = NoRun
    /\ id \in OneShot => \A q \in Runs : pc[q] # "new" => asks[q] # id
    /\ Open(r, id)
    /\ pc' = [pc EXCEPT ![r] = "waiting"]
    /\ asks' = [asks EXCEPT ![r] = id]
    /\ sent' = [sent EXCEPT ![r] = kept[id]]
    /\ kept' = [kept EXCEPT ![id] = Remember(kept[id], Asked(r))]
    /\ tab' = [tab EXCEPT ![id] = r]
    /\ UNCHANGED <<now, answered, log, restarts>>

\* Mutant: the claim goes whoever holds it.
FinishAnyway(id, r) ==
    IF id \in Stored
    THEN [entries EXCEPT ![id].running = NoRun, ![id].lastUsed = now]
    ELSE entries

\* `finish`: the claim goes unless a newer run took it; the entry counts as used.
Finish(id, r) ==
    IF id \in Stored
    THEN [entries EXCEPT ![id].running = IF @ = r THEN NoRun ELSE @,
                         ![id].lastUsed = now]
    ELSE entries

\* `close`: a one-shot conversation goes unless another run took it.
Close(id, r) ==
    IF id \in Stored /\ entries[id].running \in {r, NoRun}
    THEN [entries EXCEPT ![id] = NoEntry]
    ELSE entries

\* `Release::drop`, the last thing a run does however it ends (its question and
\* its handle of the conversation go with it).
Release(r) ==
    /\ pc[r] = "releasing"
    /\ claim' = [claim EXCEPT ![r] = NoRun]
    /\ sent' = [sent EXCEPT ![r] = <<>>]
    /\ entries' = IF asks[r] \in OneShot THEN Close(asks[r], r) ELSE Finish(asks[r], r)
    /\ pc' = [pc EXCEPT ![r] = "ended"]
    /\ UNCHANGED <<now, asks, cancelled, answered, log, tab, kept, restarts>>

\* `sweep`, from the housekeeping job of main.rs.
Sweep ==
    /\ \E id \in Stored : Expired(id)
    /\ entries' = [id \in Ids |-> IF id \in Stored /\ Expired(id) THEN NoEntry ELSE entries[id]]
    /\ UNCHANGED <<now, runs, log, browser, restarts>>

-----------------------------------------------------------------------------
(* The run of one question. *)

\* Tokio's Mutex: free when no run is inside the conversation object.  It is
\* first come first served; a run polls it first some time after `open`, so any
\* of the waiting ones may come first.
Free(conversation) == \A q \in Runs : pc[q] \in Inside => claim[q] # conversation

\* `restore`: the browser's turns, a reply only right after a user's turn.
Restorable(turns) ==
    LET goes == {i \in 1..Len(turns) : \/ turns[i].role = "user"
                                       \/ i > 1 /\ turns[i - 1].role = "user"}
        place(i) == Cardinality({k \in goes : k <= i})
    IN  [n \in 1..Cardinality(goes) |-> turns[CHOOSE i \in goes : place(i) = n]]

\* Mutant: only the run that made the conversation restores it.
BeginIfNew(r) == IF claim[r] = r THEN Restorable(sent[r]) ELSE log[claim[r]]

\* A conversation with no question yet (next_id = 0) starts from the turns the
\* browser sent.
Begin(r) == IF log[claim[r]] = <<>> THEN Restorable(sent[r]) ELSE log[claim[r]]

\* The lock comes (the `select!` may take it although the run is cancelled): the
\* conversation is restored when it has nothing, and the question joins it.
Enter(r) ==
    /\ pc[r] = "waiting" /\ Free(claim[r])
    /\ log' = [log EXCEPT ![claim[r]] = Append(Begin(r), Asked(r))]
    /\ pc' = [pc EXCEPT ![r] = "asking"]
    /\ UNCHANGED <<store, asks, claim, cancelled, answered, browser, restarts>>

\* The lock comes, and the question is refused before it joins the conversation
\* (the definitions of the allowed MCP tools are too large).
Refuse(r) ==
    /\ pc[r] = "waiting" /\ Free(claim[r])
    /\ log' = [log EXCEPT ![claim[r]] = Begin(r)]
    /\ pc' = [pc EXCEPT ![r] = "done"]
    /\ UNCHANGED <<store, asks, claim, cancelled, answered, browser, restarts>>

\* A cancelled run stops waiting for the lock.
GiveUp(r) ==
    /\ pc[r] = "waiting" /\ r \in cancelled
    /\ pc' = [pc EXCEPT ![r] = "releasing"]
    /\ UNCHANGED <<store, asks, claim, cancelled, answered, log, browser, restarts>>

\* The model's answer joins the conversation and is returned (a cancellation
\* that comes after the loop's last look does not take it back).
Answer(r) ==
    /\ pc[r] = "asking"
    /\ log' = [log EXCEPT ![claim[r]] = Append(@, Said(r))]
    /\ answered' = answered \cup {r}
    /\ pc' = [pc EXCEPT ![r] = "done"]
    /\ UNCHANGED <<store, asks, claim, cancelled, browser, restarts>>

\* The run fails, or stops as cancelled: what a stopped answer had written joins
\* the conversation.
Fail(r) ==
    /\ pc[r] = "asking"
    /\ \/ log' = log
       \/ r \in cancelled /\ log' = [log EXCEPT ![claim[r]] = Append(@, Said(r))]
    /\ pc' = [pc EXCEPT ![r] = "done"]
    /\ UNCHANGED <<store, asks, claim, cancelled, answered, browser, restarts>>

\* Mutant: a cancelled run keeps the guard of the lock.
UnlockIfNotCancelled(r) ==
    /\ pc[r] = "done" /\ r \notin cancelled
    /\ pc' = [pc EXCEPT ![r] = "releasing"]
    /\ UNCHANGED <<store, asks, claim, cancelled, answered, log, browser, restarts>>

\* The guard of the lock is dropped before `Release`.
Unlock(r) ==
    /\ pc[r] = "done"
    /\ pc' = [pc EXCEPT ![r] = "releasing"]
    /\ UNCHANGED <<store, asks, claim, cancelled, answered, log, browser, restarts>>

\* The stream's task sees that the browser closed it and cancels the run.
SeeClosed(r) ==
    /\ pc[r] \in Claiming /\ tab[asks[r]] # r /\ r \notin cancelled
    /\ cancelled' = cancelled \cup {r}
    /\ UNCHANGED <<store, pc, asks, claim, answered, log, browser, restarts>>

-----------------------------------------------------------------------------
(* The server and the clock. *)

\* The server restarts: the store, the conversations and the runs are gone, the
\* tabs and what they keep are not.  An answer not yet returned is lost.
Restart ==
    /\ restarts < MaxRestarts
    /\ restarts' = restarts + 1
    /\ entries' = [id \in Ids |-> NoEntry]
    /\ log' = [r \in Runs |-> <<>>]
    /\ claim' = [r \in Runs |-> NoRun]
    /\ sent' = [r \in Runs |-> <<>>]
    /\ pc' = [r \in Runs |-> IF pc[r] = "new" THEN "new" ELSE "ended"]
    /\ answered' = {r \in answered : pc[r] = "ended"}
    /\ UNCHANGED <<now, asks, cancelled, tab, kept>>

Tick ==
    /\ now < MaxTime
    /\ now' = now + 1
    /\ UNCHANGED <<entries, runs, log, browser, restarts>>

Serve(r) == Enter(r) \/ Refuse(r) \/ GiveUp(r) \/ Answer(r) \/ Fail(r)
            \/ Unlock(r) \/ Release(r) \/ SeeClosed(r)

Next ==
    \/ \E r \in Runs, id \in Ids : Ask(r, id)
    \/ \E r \in Runs : Receive(r) \/ Leave(r) \/ Serve(r)
    \/ Sweep \/ Restart \/ Tick

\* Tokio polls every task that can go on, a run ends within its time limit, and
\* the line that ends a stream arrives (or the browser's own limit passes).
Fairness == \A r \in Runs : WF_vars(Serve(r)) /\ WF_vars(Receive(r))

Spec == Init /\ [][Next]_vars
FairSpec == Spec /\ Fairness

-----------------------------------------------------------------------------
(* Properties. *)

\* Whoever an entry calls running has opened that id, holds the conversation of
\* the entry, and has not released its claim: no ended run keeps a conversation
\* from expiry and from the count limit.
NoClaimLeft ==
    \A id \in Ids :
        LET r == entries[id].running
        IN  r # NoRun => /\ pc[r] \in Claiming
                         /\ asks[r] = id
                         /\ claim[r] = entries[id].conversation

\* A run nobody cancelled owns the claim on its conversation until it releases
\* it, so neither another question's room-making, nor a sweep, nor the release of
\* an older run takes the conversation from under it.
ClaimOwned ==
    \A r \in Runs : pc[r] \in Claiming /\ r \notin cancelled => entries[asks[r]].running = r

\* The claims the store keeps are those of its runs, neither less nor more.
ClaimsAreRuns == NoClaimLeft /\ ClaimOwned

\* The conversation a browser waits on shows the model every exchange the browser
\* sent along and saw answered, whatever was cancelled, expired or lost before.
ContextHasTheAnswers ==
    \A r \in Runs : pc[r] = "asking" /\ tab[asks[r]] = r =>
        \A i \in 2..Len(sent[r]) :
            LET turn == sent[r][i]
            IN  turn.role = "assistant" /\ turn.run \in answered =>
                    {Asked(turn.run), turn} \subseteq ToSet(log[claim[r]])

\* In every conversation a reply stands right after the question it answers,
\* restored or not, whichever runs shared the conversation.
ReplyFollowsItsQuestion ==
    \A c \in Runs : \A i \in DOMAIN log[c] :
        log[c][i].role = "assistant" => i > 1 /\ log[c][i - 1] = Asked(log[c][i].run)

\* What the model is shown is what was said: every exchange, each in its order.
ContextIsWhatWasSaid == ContextHasTheAnswers /\ ReplyFollowsItsQuestion

\* The store keeps the promise of Claims: an entry's `running` is the owner.
phaseOf == [r \in Runs |->
    IF pc[r] = "new" THEN "new"
    ELSE IF pc[r] = "ended" THEN "over"
    ELSE IF \E id \in Ids : entries[id].running = r THEN "owns" ELSE "displaced"]

ClaimsOf == INSTANCE Claims WITH
    owner <- [id \in Ids |-> entries[id].running],
    phase <- phaseOf,
    told <- cancelled

\* A claim goes from the newest question to the next only as Claims allows: a
\* displaced run is told to stop, never owns the conversation again, and takes
\* nothing from its successor when it ends.
KeepsClaims == ClaimsOf!Spec

\* A tab never waits for ever: every question it sent is answered, fails or is
\* given up, whatever it had to wait behind.
EveryQuestionSettles ==
    \A id \in Ids, r \in Runs : tab[id] = r ~> tab[id] # r

\* What the tests say of a sweep, "A run still in progress keeps its
\* conversation" (session.rs), of any run that holds its conversation.
RunInProgressKeepsItsConversation ==
    \A r \in Runs : pc[r] \in Inside => entries[asks[r]].conversation = claim[r]
=============================================================================
