----------------------------- MODULE AnswerLoop -----------------------------
(***************************************************************************)
(* How one conversation answers its questions: the loop of `run`           *)
(* (backend/src/agent.rs), which asks the model, runs its tool calls,      *)
(* continues a cut answer, asks again after a failure and stops at its     *)
(* deadline or when it is cancelled; the text it streams to the browser;   *)
(* and the conversation's history (History), which it fills, evicts and    *)
(* prunes.                                                                 *)
(*                                                                         *)
(* Of a text only its length is kept.  The clock says how many periods a   *)
(* question has left: two before the final reserve, one inside it.         *)
(* Token counts are abstracted: how much a request must lose to fit, and   *)
(* whether it fits then, are open.  The provider is external: it streams   *)
(* any number of words up to a bound, ends its response in any way the     *)
(* client reports, or never does.                                          *)
(***************************************************************************)
EXTENDS History, Sequences

CONSTANTS
    HistoryBytes,   \* config agent.history_bytes
    Continuations,  \* LENGTH_CONTINUATIONS
    Retries,        \* WITHHELD_, EMPTY_, UNUSABLE_ and OVERSIZED_RETRIES
    Waits,          \* the number of PROVIDER_WAITS
    MaxRestored,    \* bound: exchanges restored from the browser
    MaxQuestions,   \* bound: questions
    MaxWords,       \* bound: words of one response
    MaxCalls,       \* bound: responses whose calls run
    MaxExcess       \* bound: tokens a request is over the mark

ASSUME AnswerLoopAssumption ==
    /\ HistoryBytes \in Nat /\ Continuations \in Nat /\ Retries \in Nat /\ Waits \in Nat
    /\ MaxRestored \in Nat /\ MaxQuestions \in Nat /\ MaxWords \in Nat
    /\ MaxCalls \in Nat /\ MaxExcess \in Nat

VARIABLES
    history,     \* Conversation.history
    question,    \* the number of the latest question
    bundle,      \* question_bundle: the id of its bundle
    pc,          \* where `run` is
    left,        \* periods of the question's time left
    cancelled,   \* its CancellationToken is cancelled
    pieces,      \* partial.len()
    written,     \* the length of partial.concat()
    reply,       \* the response being streamed
    final,       \* final_round of the request out
    tries,       \* withheld, empty, outages, unusable, oversized
    asksSearch,  \* an answer claiming the material lacks the subject is refused
    counted,     \* counted_before is set
    screen,      \* the length of the text the browser shows
    outcome,     \* how the latest question ended
    answer,      \* the length of the answer returned
    ran          \* responses whose calls have begun to run

talk == <<history, question, bundle>>
turn == <<left, cancelled>>
loop == <<pieces, written, final, tries, asksSearch, counted>>
result == <<outcome, answer>>
vars == <<history, question, bundle, pc, left, cancelled, pieces, written, reply,
          final, tries, asksSearch, counted, screen, outcome, answer, ran>>

Tries == [withheld : Nat, empty : Nat, outages : Nat, unusable : Nat, oversized : Nat]
NoTries == [withheld |-> 0, empty |-> 0, outages |-> 0, unusable |-> 0, oversized |-> 0]

\* text: what the model wrote; shown: what the relay passed on; lead: whether the
\* opening is still held ("undecided", or "claims" once it is the
\* general-knowledge line) or streams freely.
Reply == [text : Nat, shown : Nat, lead : {"free", "undecided", "claims"}]
NoReply == [text |-> 0, shown |-> 0, lead |-> "free"]

Early == 2

TypeOK ==
    /\ history \in HistoryType
    /\ question \in Nat /\ bundle \in Nat
    /\ pc \in {"idle", "top", "asking", "waiting", "calling"}
    /\ left \in 0..Early /\ cancelled \in BOOLEAN
    /\ pieces \in 0..Continuations /\ written \in Nat
    /\ reply \in Reply /\ final \in BOOLEAN
    /\ tries \in Tries /\ asksSearch \in BOOLEAN /\ counted \in BOOLEAN
    /\ screen \in Nat
    /\ outcome \in {"none", "answered", "failed", "cancelled"} /\ answer \in Nat
    /\ ran \in Nat

\* A conversation that goes on from the turns the browser kept (`restore`).
Restored(k) ==
    [bundles |-> {[id |-> i, kind |-> IF i % 2 = 1 THEN "user" ELSE "reply",
                   question |-> (i + 1) \div 2, text |-> 0, size |-> 1,
                   continues |-> {}, found |-> {}, active |-> TRUE] : i \in 1..(2 * k)},
     nextId |-> 2 * k, prunedThrough |-> 0]

Init ==
    /\ \E k \in 0..MaxRestored : history = Restored(k) /\ question = k
    /\ bundle = 0
    /\ pc = "idle"
    /\ left = 0 /\ cancelled = FALSE
    /\ pieces = 0 /\ written = 0
    /\ reply = NoReply /\ final = FALSE
    /\ tries = NoTries /\ asksSearch = FALSE /\ counted = FALSE
    /\ screen = 0
    /\ outcome = "none" /\ answer = 0
    /\ ran = 0

-----------------------------------------------------------------------------
(* A question begins and ends. *)

\* The question joins the conversation.  Whether an answer may be sent back for
\* a search depends on the settings and on the previous answer.
Ask ==
    /\ pc = "idle" /\ question < MaxQuestions
    /\ question' = question + 1
    /\ history' = Push(history, Message("user", question + 1, 0))
    /\ bundle' = history.nextId + 1
    /\ pc' = "top"
    /\ left' = Early /\ cancelled' = FALSE
    /\ pieces' = 0 /\ written' = 0 /\ reply' = NoReply /\ final' = FALSE
    /\ tries' = NoTries /\ asksSearch' \in BOOLEAN /\ counted' = FALSE
    /\ screen' = 0
    /\ outcome' = "none" /\ answer' = 0
    /\ UNCHANGED ran

Continuing == pieces > 0

\* The variables of `run` go with it.
Leave ==
    /\ pc' = "idle" /\ reply' = NoReply
    /\ bundle' = 0 /\ left' = 0
    /\ pieces' = 0 /\ written' = 0 /\ final' = FALSE
    /\ tries' = NoTries /\ asksSearch' = FALSE /\ counted' = FALSE
    /\ UNCHANGED <<question, cancelled, ran>>

\* `break text`: the answer takes the place of its pieces, and the history is
\* pruned.
Finish(h, text) ==
    /\ history' = Prune(Push(PopPiece(h), Message("reply", question, text)), HistoryBytes)
    /\ outcome' = "answered" /\ answer' = text
    /\ Leave

\* `bail!`: nothing more joins the conversation than h holds.
Bail(h, how) ==
    /\ history' = h
    /\ outcome' = how
    /\ Leave
    /\ UNCHANGED answer

\* `continue`: the loop goes on with what h holds and the counters say.
Continue(h, counters) ==
    /\ history' = h
    /\ tries' = counters
    /\ pc' = "top" /\ reply' = NoReply
    /\ UNCHANGED <<question, bundle, turn, pieces, written, final, result, ran>>

\* The browser stops the answer, or a newer question takes the conversation: the
\* browser has closed the stream, keeps what it shows, and nothing that is sent
\* from here on reaches it.
Stop ==
    /\ pc # "idle" /\ ~cancelled
    /\ cancelled' = TRUE
    /\ UNCHANGED <<talk, pc, left, loop, reply, screen, result, ran>>

Tick ==
    /\ pc # "idle" /\ left > 0
    /\ left' = left - 1
    /\ UNCHANGED <<talk, pc, cancelled, loop, reply, screen, result, ran>>

-----------------------------------------------------------------------------
(* The top of the loop: stop, give up, or ask the model. *)

StopAtTop ==
    /\ pc = "top" /\ cancelled
    /\ Bail(history, "cancelled")
    /\ UNCHANGED screen

\* Out of time: a cut answer stands as written.
TimeOver ==
    /\ pc = "top" /\ ~cancelled /\ left = 0
    /\ IF Continuing THEN Finish(history, written) ELSE Bail(history, "failed")
    /\ UNCHANGED screen

\* The old bundles a request is too long with are evicted and the history is
\* pruned; what still does not fit ends the question.
Request ==
    /\ pc = "top" /\ ~cancelled /\ left > 0
    /\ \E excess \in 0..MaxExcess :
        LET evicted == LeavesContext(history, bundle, excess)
            h == Prune(EvictDownTo(history, bundle, excess), HistoryBytes)
        IN  \/ /\ pc' = "asking"
               /\ history' = h
               /\ final' = (left = 1)
               /\ counted' = (counted /\ evicted = {})
               /\ reply' = [NoReply EXCEPT !.lead =
                     IF asksSearch /\ left # 1 /\ ~Continuing THEN "undecided" ELSE "free"]
               /\ UNCHANGED <<question, bundle, turn, pieces, written, tries, asksSearch, result, ran>>
            \/ IF Continuing THEN Finish(h, written) ELSE Bail(h, "failed")
    /\ UNCHANGED screen

-----------------------------------------------------------------------------
(* The response streams. *)

\* One more delta: after a stop it is dropped; the opening of an answer that may
\* be sent back for a search is held until it is decided.
Wrote(r) ==
    LET more == [r EXCEPT !.text = @ + 1]
    IN  IF cancelled THEN {more}
        ELSE IF r.lead = "free" THEN {[more EXCEPT !.shown = @ + 1]}
        ELSE IF r.lead = "claims" THEN {more}
        ELSE {more, [more EXCEPT !.lead = "claims"], [more EXCEPT !.lead = "free", !.shown = more.text]}

Write ==
    /\ pc = "asking" /\ reply.text < MaxWords
    /\ reply' \in Wrote(reply)
    /\ screen' = screen + (reply'.shown - reply.shown)
    /\ UNCHANGED <<talk, pc, turn, loop, result, ran>>

\* The relay's end: an opening still held is judged with the whole response, and
\* shown unless it is the general-knowledge line.
EndOfStream(r) ==
    IF r.lead = "undecided" /\ r.text > 0
    THEN {[r EXCEPT !.lead = "claims"],
          [r EXCEPT !.lead = "free", !.shown = IF cancelled THEN @ ELSE r.text]}
    ELSE {r}

\* The replies a response may end as when it ends now.
Ends == EndOfStream(reply)

\* `retract`: what is shown is the pieces kept so far; sent after a stop, it does
\* not reach the browser, which keeps what it showed.
Retracted(r) == IF ~cancelled /\ r.shown > 0 THEN written ELSE screen
\* What is shown when the response's text stays.
Shown(r) == screen + (r.shown - reply.shown)

Withheld == final \/ Continuing

-----------------------------------------------------------------------------
(* The request fails. *)

\* Mutant: what the answer has written does not stay.
ForgetStopped(r) ==
    /\ pc = "asking" /\ cancelled
    /\ Bail(history, "cancelled")
    /\ screen' = Shown(r)

\* Cancelled: what the answer has written stays in the conversation.
KeepStopped(r) ==
    /\ pc = "asking" /\ cancelled
    /\ Bail(IF written + r.shown > 0
            THEN Push(PopPiece(history), Message("reply", question, written + r.shown))
            ELSE history,
            "cancelled")
    /\ screen' = Shown(r)

\* A cut answer whose continuation failed stands as written; any other question
\* ends, and what its response showed is taken back.
StandOrFail(h, r) ==
    IF Continuing
    THEN Finish(h, written + r.shown) /\ screen' = Shown(r)
    ELSE Bail(h, "failed") /\ screen' = Retracted(r)

\* The opening became the general-knowledge line before any search.
SearchFirst(r) ==
    /\ pc = "asking" /\ reply.lead = "claims"
    /\ asksSearch' = FALSE
    /\ Continue(history, tries)
    /\ screen' = Retracted(r)
    /\ UNCHANGED counted

\* Nothing had been written at the final reserve, as far as the relay saw (one
\* delta may be on its way to it).
ReserveReached ==
    /\ pc = "asking" /\ ~final /\ left <= 1 /\ reply.text = 0
    /\ \E r \in UNION {EndOfStream(s) : s \in {reply} \cup (IF MaxWords > 0 THEN Wrote(reply) ELSE {})} :
           screen' = Retracted(r)
    /\ Continue(history, tries)
    /\ UNCHANGED <<asksSearch, counted>>

\* The request is made again as it was: calibrated by the provider's count, or
\* without the MCP tools whose definitions the provider refused.
AskAgain(r) ==
    /\ pc = "asking"
    /\ Continue(history, tries)
    /\ screen' = Retracted(r)
    /\ UNCHANGED <<asksSearch, counted>>

\* The provider refuses the request as too long: everything that may leave does.
Overflow(r) ==
    LET everything == Size(Active(history)) + 1
        h == Prune(EvictDownTo(history, bundle, everything), HistoryBytes)
    IN  /\ pc = "asking"
        /\ \/ /\ LeavesContext(history, bundle, everything) # {}
              /\ Continue(h, tries)
              /\ counted' = FALSE
              /\ screen' = Retracted(r)
              /\ UNCHANGED asksSearch
           \/ /\ LeavesContext(history, bundle, everything) = {}
              /\ StandOrFail(h, r)

\* Tool calls that cannot be used.
Unusable(r) ==
    /\ pc = "asking"
    /\ \/ /\ tries.unusable < Retries
          /\ Continue(history, [tries EXCEPT !.unusable = @ + 1])
          /\ screen' = Retracted(r)
          /\ UNCHANGED <<asksSearch, counted>>
       \/ /\ tries.unusable >= Retries
          /\ StandOrFail(history, r)

\* Mutant: what the failed response showed stays on the screen.
OutageStays(r) ==
    /\ pc = "asking" /\ left = Early /\ tries.outages < Waits
    /\ tries' = [tries EXCEPT !.outages = @ + 1]
    /\ pc' = "waiting" /\ reply' = NoReply
    /\ screen' = Shown(r)
    /\ UNCHANGED <<talk, turn, pieces, written, final, asksSearch, counted, result, ran>>

\* The provider or the connection failed with time to spare: a wait, then again.
Outage(r) ==
    /\ pc = "asking" /\ left = Early /\ tries.outages < Waits
    /\ tries' = [tries EXCEPT !.outages = @ + 1]
    /\ pc' = "waiting" /\ reply' = NoReply
    /\ screen' = Retracted(r)
    /\ UNCHANGED <<talk, turn, pieces, written, final, asksSearch, counted, result, ran>>

\* Any other failure of the provider.
RequestFails(r) == pc = "asking" /\ StandOrFail(history, r)

\* Mutant: only a request that has written nothing is timed.
TimeoutIfSilent(r) == pc = "asking" /\ left = 0 /\ reply.text = 0 /\ StandOrFail(history, r)

\* run_timeout: the question's time ran out.
RunTimeout(r) == pc = "asking" /\ left = 0 /\ StandOrFail(history, r)

WaitOver ==
    /\ pc = "waiting"
    /\ \/ Continue(history, tries) /\ UNCHANGED <<asksSearch, counted>>
       \/ cancelled /\ Bail(history, "cancelled")
    /\ UNCHANGED screen

-----------------------------------------------------------------------------
(* The response is complete. *)

\* The counters a complete response resets.
Answered == [tries EXCEPT !.outages = 0, !.unusable = 0]

\* The provider cut the request to a smaller context: the answer was written from
\* what was left, and nothing of it stays.
ServedCut(r) ==
    /\ pc = "asking" /\ counted
    /\ Bail(PopPiece(history), "failed")
    /\ screen' = IF ~cancelled /\ (r.shown > 0 \/ Continuing) THEN 0 ELSE screen

\* Words to the effect of the general-knowledge line, held unseen.
RefuseClaim(r) ==
    /\ pc = "asking" /\ r.lead = "claims" /\ r.shown = 0
    /\ asksSearch' = FALSE
    /\ counted' \in {counted, TRUE}
    /\ Continue(history, Answered)
    /\ UNCHANGED screen

\* The answer, or its last piece: whole, or cut once too often.
Whole(r) ==
    /\ pc = "asking" /\ r.text > 0
    /\ ~(r.lead = "claims" /\ r.shown = 0)
    /\ Finish(history, written + r.text)
    /\ screen' = Shown(r)

\* Mutant: the earlier piece stays beside the longer one.
CutBeside(r) ==
    /\ pc = "asking" /\ r.text > 0 /\ pieces < Continuations
    /\ ~(r.lead = "claims" /\ r.shown = 0)
    /\ pieces' = pieces + 1 /\ written' = written + r.text
    /\ tries' = [Answered EXCEPT !.empty = 0, !.withheld = 0]
    /\ history' = Push(history, Message("piece", question, written + r.text))
    /\ pc' = "top" /\ reply' = NoReply
    /\ counted' \in {counted, TRUE}
    /\ screen' = Shown(r)
    /\ UNCHANGED <<question, bundle, turn, final, asksSearch, result, ran>>

\* A piece of an answer cut at the output limit: its continuation follows it.
Cut(r) ==
    /\ pc = "asking" /\ r.text > 0 /\ pieces < Continuations
    /\ ~(r.lead = "claims" /\ r.shown = 0)
    /\ pieces' = pieces + 1 /\ written' = written + r.text
    /\ tries' = [Answered EXCEPT !.empty = 0, !.withheld = 0]
    /\ history' = Push(PopPiece(history), Message("piece", question, written + r.text))
    /\ pc' = "top" /\ reply' = NoReply
    /\ counted' \in {counted, TRUE}
    /\ screen' = Shown(r)
    /\ UNCHANGED <<question, bundle, turn, final, asksSearch, result, ran>>

\* A response of no use is asked again until its counter is spent; then a cut
\* answer stands as written and any other question fails.
AgainOrEnd(counters, spent) ==
    IF ~spent
    THEN Continue(history, counters) /\ counted' \in {counted, TRUE} /\ UNCHANGED asksSearch
    ELSE IF Continuing THEN Finish(history, written) ELSE Bail(history, "failed")

\* No text and no calls.
Blank(r) ==
    /\ pc = "asking" /\ r.text = 0
    /\ AgainOrEnd([Answered EXCEPT !.empty = @ + 1], tries.empty >= Retries)
    /\ UNCHANGED screen

\* Calls cut at the output limit never run.
CutCalls(r) ==
    /\ pc = "asking" /\ ~Withheld
    /\ Continue(history, Answered)
    /\ counted' \in {counted, TRUE}
    /\ screen' = Retracted(r)
    /\ UNCHANGED asksSearch

\* Calls although the tools were withheld.
WithheldCalls(r) ==
    /\ pc = "asking" /\ Withheld
    /\ AgainOrEnd([Answered EXCEPT !.empty = 0, !.withheld = @ + 1], tries.withheld >= Retries)
    /\ screen' = Retracted(r)

\* Calls that leave no room for their results.
OversizedCalls(r) ==
    /\ pc = "asking" /\ ~Withheld
    /\ AgainOrEnd([Answered EXCEPT !.empty = 0, !.oversized = @ + 1], tries.oversized >= Retries)
    /\ screen' = Retracted(r)

\* The calls run (execute_batch), outside the model's context until they end.
Calls(r) ==
    /\ pc = "asking" /\ ~Withheld /\ ran < MaxCalls
    /\ ran' = ran + 1
    /\ tries' = [Answered EXCEPT !.empty = 0, !.oversized = 0]
    /\ pc' = "calling" /\ reply' = NoReply
    /\ counted' \in {counted, TRUE}
    /\ screen' = Retracted(r)
    /\ UNCHANGED <<talk, turn, pieces, written, final, asksSearch, result>>

\* The histories the calls may leave: a result fits, is cut and kept whole in an
\* archive, or is a cut history read of a bundle; a history search finds some.
\* (`text` numbers the response.)
CallResults ==
    LET message == Message("calls", question, ran)
        offered == Inactive(history) # {}
        archived == Push(history, Message("archive", question, 0))
    IN  {Push(history, message)}
        \cup {Push(archived, [message EXCEPT !.continues = {archived.nextId}])}
        \cup (IF offered
              THEN {Push(history, [message EXCEPT !.continues = {id}]) : id \in Ids(history)}
                   \cup {Push(history, [message EXCEPT !.found = {id}]) : id \in Ids(history)}
              ELSE {})

\* The calls ended, or were stopped: they join the conversation either way, a
\* cancelled question's too, since a tool may have taken effect.
CallsEnd ==
    /\ pc = "calling"
    /\ \E h \in CallResults :
        IF cancelled
        THEN Bail(h, "cancelled")
        ELSE /\ Continue(h, tries)
             /\ asksSearch' \in {asksSearch, FALSE}
             /\ UNCHANGED counted
    /\ UNCHANGED screen

-----------------------------------------------------------------------------
Fails(r) ==
    KeepStopped(r) \/ SearchFirst(r) \/ AskAgain(r) \/ Overflow(r) \/ Unusable(r)
    \/ Outage(r) \/ RequestFails(r) \/ RunTimeout(r)

Completes(r) ==
    ServedCut(r) \/ RefuseClaim(r) \/ Whole(r) \/ Cut(r) \/ Blank(r) \/ CutCalls(r)
    \/ WithheldCalls(r) \/ OversizedCalls(r) \/ Calls(r)

Next ==
    \/ Ask \/ Stop \/ Tick
    \/ StopAtTop \/ TimeOver \/ Request
    \/ Write \/ ReserveReached \/ WaitOver \/ CallsEnd
    \/ \E r \in Ends : Fails(r) \/ Completes(r)

\* The clock goes on, the loop's own steps and timers come, tools end once they
\* are stopped; nothing is asked of the provider.
Fairness ==
    /\ WF_vars(Tick)
    /\ WF_vars(StopAtTop \/ TimeOver \/ Request)
    /\ WF_vars(WaitOver) /\ WF_vars(CallsEnd)
    /\ WF_vars(\E r \in Ends : RunTimeout(r))

Spec == Init /\ [][Next]_vars
FairSpec == Spec /\ Fairness

-----------------------------------------------------------------------------
(* Properties. *)

\* What the browser shows is the answer written so far and nothing else, through
\* every failed request and useless response; it is the answer when one is
\* returned, and nothing when the question fails (what comes after a stop does
\* not reach the browser).
ScreenIsTheAnswer ==
    ~cancelled =>
        /\ pc # "idle" => screen = written + reply.shown
        /\ outcome = "answered" => screen = answer
        /\ outcome = "failed" => screen = 0

PiecesOf(q) == {b \in history.bundles : b.kind = "piece" /\ b.question = q}

\* The pieces of a cut answer are one message of the conversation, its last, until
\* the answer takes its place; a question that fails leaves none of them.
PiecesAreOneMessage ==
    /\ pc # "idle" =>
        IF Continuing
        THEN /\ \E b \in PiecesOf(question) : b.text = written /\ IsLast(b, history.bundles)
             /\ Cardinality(PiecesOf(question)) = 1
        ELSE PiecesOf(question) = {}
    /\ outcome \in {"answered", "failed"} => PiecesOf(question) = {}

\* "What a stopped answer has written stays in the conversation, as the browser keeps
\* what it showed for the next question" (agent.rs, at `cancelled`): an answer of the
\* conversation is as long as the text the browser kept, or the calls last run came
\* with that text.
StoppedTextStays ==
    outcome = "cancelled" /\ screen > 0 =>
        \E b \in Active(history) :
            /\ b.question = question
            /\ \/ b.kind \in {"reply", "piece"} /\ b.text >= screen
               \/ b.kind = "calls" /\ b.text = ran

\* A question that ends stopped leaves in its conversation all the browser shows when
\* the stop ended the response being streamed, and the pieces of its answer when it is
\* seen later, between two responses.
StopKeepsAnswer ==
    pc # "idle" /\ outcome' = "cancelled" =>
        LET stands == IF pc = "asking" THEN screen ELSE written
        IN  stands > 0 =>
                \E b \in Active(history') :
                    b.question = question /\ b.kind \in {"reply", "piece"} /\ b.text >= stands

\* Calls that began to run are in the conversation once they ended, however the
\* question went on (unless the byte limit dropped something).
CallsAreRecorded ==
    history.prunedThrough = 0 =>
        \A n \in 1..ran :
            \/ pc = "calling" /\ n = ran
            \/ \E b \in history.bundles : b.kind = "calls" /\ b.text = n

\* What a stop cuts off, and what the calls did, are in the conversation, on which the
\* next question builds (the cancelled arm of `run` and the end of its calls; of text
\* taken back after a stop, see StoppedTextStays).
WhatWasDoneStays == []CallsAreRecorded /\ [][StopKeepsAnswer]_vars

\* A request is made with every tool result and reply after its question, and
\* with the question asked.
ContextIsWhole ==
    /\ QuestionInContext(history)
    /\ pc # "idle" => \E b \in Active(history) : b.id = bundle

\* What the request's newest results continue and found can be read with the
\* calls it answers with.
WhatIsOfferedIsReadable == pc = "asking" => ContinuationReadable(history)

\* A request is made, and an answer returned, with the history within its limit.
HistoryIsBounded ==
    pc = "asking" \/ outcome = "answered" => WithinLimit(history, HistoryBytes)

\* Pruning reaches its limit and yet takes nothing a request's newest results offer.
PruningIsSafe == WhatIsOfferedIsReadable /\ HistoryIsBounded

\* A message leaves the conversation from within the context only as a piece whose
\* text goes on in the one that takes its place (a failed question's pieces go
\* altogether), or evicted and pruned in one step: with all of the context before
\* it but the question, and as one the history knows it dropped.
NothingInContextIsLost ==
    [][\A b \in Active(history) : b.id \notin Ids(history') =>
          \/ /\ b.kind = "piece"
             /\ \/ outcome' = "failed"
                \/ \E c \in Active(history') : c.id > b.id /\ c.text >= b.text
          \/ /\ b.id <= history'.prunedThrough
             /\ \A c \in Active(history') : c.id < b.id => c.id = bundle]_vars

\* A question ends, whatever the provider does or leaves undone.
EveryQuestionEnds == pc # "idle" ~> pc = "idle"
=============================================================================
