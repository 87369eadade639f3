----------------------------- MODULE ToolBatch ------------------------------
(***************************************************************************)
(* The tool calls of a response (src/backend/src/agent.rs, execute_batch):  *)
(* prepared and refused, their progress lines opened, run together - MCP    *)
(* calls as tasks (McpCalls), query runs and reads as futures (QueryRuns),  *)
(* source calls one after another on a thread that takes the conversation's *)
(* history with it - and brought together into one message for each call.   *)
(* A source thread that does not come back after a stop is abandoned: the   *)
(* conversation goes on with a copy of its history, the thread on its own.  *)
(***************************************************************************)
EXTENDS McpCalls, QueryRuns, Sequences

CONSTANTS
    Batches,       \* the responses with calls, a bound
    Responses      \* what a response may call, by the number of calls before it

\* The kinds of calls the model sends; "repeat" has the arguments of another call of
\* the response as sent, "wrong" a name or arguments no tool takes.
Kinds == {"mcp", "query", "read", "source", "repeat", "wrong"}

ASSUME ResponseAssumption ==
    Batches \in Nat /\ Responses \in [0..Cardinality(Calls) -> SUBSET Seq(Kinds)]

VARIABLES
    phase,         \* of the batch: none, locating, running, settling
    batch,         \* the batches begun
    kind,          \* how each call of the batch runs: as its kind or "refused"
    ids,           \* the calls made so far: the next call's identity (event_id)
    lines,         \* progress lines of the screen that still go on
    ended,         \* the batch's other knowledge calls that have ended
    finder,        \* the thread that finds the projects of each batch's source calls
    thread_,       \* the source thread of each batch: its state
    left,          \* the source calls each thread has yet to run
    taken,         \* the history each thread took, with what it archived
    history,       \* results the conversation keeps whole, by their calls
    backup,        \* the history as it was before the thread took it
    offers         \* results cut short that offer the rest in the history

batchVars == <<phase, batch, kind, ids, lines, ended, finder, thread_, left, taken,
               history, backup, offers>>
vars == <<cancel, mcpVars, runVars, batchVars>>

BatchTypeOK ==
    /\ phase \in {"none", "locating", "running", "settling"}
    /\ batch \in 0..Batches
    /\ kind \in [Calls -> {"none", "refused", "mcp", "query", "read", "source"}]
    /\ ids \in 0..Cardinality(Calls) /\ lines \subseteq Calls
    /\ ended \subseteq Calls
    /\ finder \in [1..Batches -> {"none", "runs", "abandoned", "done"}]
    /\ thread_ \in [1..Batches -> {"none", "runs", "abandoned", "done", "died"}]
    /\ left \in [1..Batches -> SUBSET Calls]
    /\ taken \in [1..Batches -> SUBSET Calls]
    /\ history \subseteq Calls /\ backup \subseteq Calls /\ offers \subseteq Calls

TypeOK == McpTypeOK /\ RunTypeOK /\ BatchTypeOK

Init ==
    /\ QuestionInit /\ McpInit /\ RunInit
    /\ phase = "none" /\ batch = 0
    /\ kind = [i \in Calls |-> "none"]
    /\ ids = 0 /\ lines = {}
    /\ ended = {}
    /\ finder = [b \in 1..Batches |-> "none"]
    /\ thread_ = [b \in 1..Batches |-> "none"]
    /\ left = [b \in 1..Batches |-> {}]
    /\ taken = [b \in 1..Batches |-> {}]
    /\ history = {} /\ backup = {} /\ offers = {}

Of(k) == {i \in Calls : kind[i] = k}

\* `source_stuck`: work given up on that has not returned.
Stuck == \E b \in 1..Batches : finder[b] = "abandoned" \/ thread_[b] = "abandoned"

-----------------------------------------------------------------------------
\* The calls prepared, in order: what repeats another of the response (an MCP call
\* or a query with the same arguments) or names no tool is refused, not run.
Prepared(sent) == IF sent \in {"repeat", "wrong"} THEN "refused" ELSE sent

\* A response's calls come, with identities no earlier one had.
BatchBegins(response) ==
    LET these == {i \in Calls : i > ids /\ i <= ids + Len(response)} IN
    /\ phase = "none"
    /\ Cardinality(these) = Len(response)
    /\ batch' = batch + 1
    /\ ids' = ids + Len(response)
    /\ kind' = [i \in Calls |-> IF i \in these THEN Prepared(response[i - ids]) ELSE "none"]
    /\ started' = {}
    /\ phase' = "locating"
    /\ finder' = [finder EXCEPT ![batch + 1] = IF \E i \in these : kind'[i] = "source"
                                               THEN "runs" ELSE "done"]
    /\ UNCHANGED <<cancel, mcpVars, runPc, session, inSlot, thread, stopper, runOut,
                   poolVars, executed, kept, lines, ended, thread_, left, taken, history,
                   backup, offers>>

\* The lines open in call order, the tasks, futures and the source thread start.
Spawns(refused) ==
    LET kinds == [i \in Calls |-> IF i \in refused THEN "refused" ELSE kind[i]]
        source == {i \in Calls : kinds[i] = "source"}
    IN
    /\ phase' = "running"
    /\ kind' = kinds
    /\ lines' = lines \cup {i \in Calls : kind[i] # "none"}
    /\ backup' = history
    /\ taken' = [taken EXCEPT ![batch] = history]
    /\ history' = {}
    /\ thread_' = [thread_ EXCEPT ![batch] = "runs"]
    /\ left' = [left EXCEPT ![batch] = source]
    /\ UNCHANGED <<cancel, mcpVars, runVars, batch, ids, ended, offers>>

\* `locate`: each source call's project is found, not found, or not looked for while
\* earlier work is stuck; the finder's panic refuses them all.
Located ==
    /\ phase = "locating"
    /\ Of("source") = {} \/ ~cancel
    /\ \E refused \in SUBSET Of("source") : Spawns(refused)
    /\ finder' = [finder EXCEPT ![batch] = "done"]

\* No source call: nothing is looked for.
LocateNone == Of("source") = {} /\ Located

\* Stopped first: the source calls are cancelled and the finder is left behind.
LocateStopped ==
    /\ phase = "locating" /\ finder[batch] = "runs" /\ cancel
    /\ Spawns(Of("source"))
    /\ finder' = [finder EXCEPT ![batch] = "abandoned"]

FinderReturns(b) ==
    /\ finder[b] = "abandoned"
    /\ finder' = [finder EXCEPT ![b] = "done"]
    /\ UNCHANGED <<cancel, mcpVars, runVars, phase, batch, kind, ids, lines, ended,
                   thread_, left, taken, history, backup, offers>>
-----------------------------------------------------------------------------
\* The source thread of a batch, abandoned or not: its next call, refused at once
\* while other work is stuck, run otherwise, its result archived if it is too long.
SourceCall(b) ==
    /\ thread_[b] \in {"runs", "abandoned"}
    /\ \E i \in left[b] :
         /\ \A later \in left[b] : i <= later
         /\ left' = [left EXCEPT ![b] = @ \ {i}]
         /\ lines' = lines \ {i}
         /\ \/ UNCHANGED taken
            \/ ~Stuck /\ taken' = [taken EXCEPT ![b] = @ \cup {i}]
    /\ UNCHANGED <<cancel, mcpVars, runVars, phase, batch, kind, ids, ended,
                   finder, thread_, history, backup, offers>>

\* The thread ends with every call's result, or dies of a panic past its guards.
SourceEnds(b) ==
    /\ thread_[b] \in {"runs", "abandoned"}
    /\ \/ left[b] = {} /\ thread_' = [thread_ EXCEPT ![b] = "done"]
       \/ thread_' = [thread_ EXCEPT ![b] = "died"]
    /\ UNCHANGED <<cancel, mcpVars, runVars, phase, batch, kind, ids, lines, ended,
                   finder, left, taken, history, backup, offers>>
-----------------------------------------------------------------------------
\* An MCP call of the batch: its own task closes its line when it ends.
McpStep(i) ==
    /\ phase \in {"running", "settling"} /\ kind[i] = "mcp"
    /\ McpTask(i)
    /\ lines' = IF mcpPc'[i] = "done" /\ outcome'[i] # "panicked" THEN lines \ {i} ELSE lines
    /\ UNCHANGED <<cancel, runVars, phase, batch, kind, ids, ended, finder, thread_,
                   left, taken, history, backup, offers>>

\* A query run of the batch; its line is closed as it ends.  It is polled until all
\* futures are done, before the source thread is waited for.
QueryStep(i) ==
    /\ phase = "running" /\ kind[i] = "query"
    /\ QueryRun(i)
    /\ lines' = IF runPc'[i] = "done" THEN lines \ {i} ELSE lines
    /\ UNCHANGED <<cancel, mcpVars, phase, batch, kind, ids, ended, finder, thread_,
                   left, taken, history, backup, offers>>

QueryThreadStep(i) == QueryThread(i) /\ UNCHANGED <<cancel, mcpVars, batchVars>>

\* Another knowledge call (search, a document, a stored result) reads until stopped.
Read(i) ==
    /\ phase = "running" /\ i \in Of("read") \ ended
    /\ ended' = ended \cup {i}
    /\ lines' = lines \ {i}
    /\ UNCHANGED <<cancel, mcpVars, runVars, phase, batch, kind, ids, finder, thread_, left,
                   taken, history, backup, offers>>

FuturesDone == Of("read") \subseteq ended /\ \A i \in Of("query") : runPc[i] = "done"
-----------------------------------------------------------------------------
\* The effects of the stored runs, in call order; failed ones reserve a step.
Effects ==
    LET stored == {i \in Of("query") : runOut[i] = "stored"} IN
    \E keeps \in SUBSET (kept \cup stored) :
        /\ \A a \in keeps, b \in (kept \cup stored) \ keeps : b < a
        /\ stored # {} => \E i \in keeps : \A j \in stored : j <= i
        /\ stored = {} => keeps = kept
        /\ kept' = keeps
        /\ executed' = [g \in Sigs |->
               IF \E i \in stored : Sig[i] = g
                 THEN CHOOSE i \in stored : Sig[i] = g /\ \A j \in stored : Sig[j] = g => j <= i
                 ELSE executed[g]]

\* Results too long for their budget are kept whole in the history, and say so.
Archives(kinds, from) ==
    \E long \in SUBSET UNION {Of(k) : k \in kinds} :
        /\ history' = from \cup long
        /\ offers' = offers \cup long \cup (Of("source") \cap from)

\* Mutant: what the thread's panic leaves of the history it took.
GivesBackEmpty(b) == IF thread_[b] = "done" THEN taken[b] ELSE {}

\* The history the conversation goes on with: the one the thread returns, or the copy
\* made before it was taken.
GivesBack(b) == IF thread_[b] = "done" THEN taken[b] ELSE backup

\* The source thread is joined, with the history it took; or it died, and its calls
\* are ended as cancelled.
SourceJoined ==
    /\ phase = "running" /\ FuturesDone
    /\ thread_[batch] \in {"done", "died"}
    /\ phase' = "settling"
    /\ Effects
    /\ Archives({"query", "read"}, GivesBack(batch))
    /\ lines' = IF thread_[batch] = "done" THEN lines ELSE lines \ Of("source")
    /\ UNCHANGED <<cancel, mcpVars, runPc, session, inSlot, thread, stopper, runOut,
                   poolVars, started, batch, kind, ids, ended, finder, thread_, left, taken,
                   backup>>

\* Mutant: only left behind when other work is stuck too.
GivesUpIfStuck == cancel /\ Stuck

\* Stopped, the thread is given a moment's grace and then left behind.
GivesUp == cancel

SourceAbandoned ==
    /\ phase = "running" /\ FuturesDone
    /\ GivesUp /\ thread_[batch] = "runs"
    /\ phase' = "settling"
    /\ thread_' = [thread_ EXCEPT ![batch] = "abandoned"]
    /\ Effects
    /\ Archives({"query", "read"}, GivesBack(batch))
    /\ lines' = lines \ Of("source")
    /\ UNCHANGED <<cancel, mcpVars, runPc, session, inSlot, thread, stopper, runOut,
                   poolVars, started, batch, kind, ids, ended, finder, left, taken, backup>>

\* A task that panicked did not close its line.
Panicked == {i \in Of("mcp") : outcome[i] = "panicked"}

\* The MCP tasks are awaited, a panicked one's line closed for it; the results are
\* fitted into the room left and the refused calls' lines closed.
BatchReturns ==
    /\ phase = "settling"
    /\ \A i \in Of("mcp") : mcpPc[i] = "done"
    /\ phase' = "none"
    /\ lines' = lines \ (Of("refused") \cup Panicked)
    /\ \E long \in SUBSET (DOMAIN kind \ (Of("none") \cup Of("refused"))) :
         history' = history \cup long /\ offers' = offers \cup long
    /\ kind' = [i \in Calls |-> "none"] /\ ended' = {}
    /\ backup' = {}
    /\ taken' = [taken EXCEPT ![batch] = IF thread_[batch] = "abandoned" THEN @ ELSE {}]
    /\ Forget(Calls)
    /\ UNCHANGED <<cancel, mcpVars, session, inSlot, sess, formats, breaks, dirty, onceVars,
                   batch, ids, finder, thread_, left>>

\* The question ends; the next of the conversation runs queries afresh.
NextQuestion ==
    /\ phase = "none" /\ batch > 0
    /\ cancel' = FALSE
    /\ executed' = [g \in Sigs |-> NoRun]
    /\ UNCHANGED <<mcpVars, runPc, session, inSlot, thread, stopper, runOut, poolVars,
                   started, kept, batchVars>>
-----------------------------------------------------------------------------
Stopped == phase # "none" /\ StopCalls /\ UNCHANGED <<mcpVars, runVars, batchVars>>

World == McpWorld /\ UNCHANGED <<cancel, runVars, batchVars>>

Next ==
    \/ batch < Batches /\ \E r \in Responses[ids] : BatchBegins(r)
    \/ Located \/ LocateStopped \/ SourceJoined \/ SourceAbandoned \/ BatchReturns
    \/ \E i \in Calls : McpStep(i) \/ QueryStep(i) \/ QueryThreadStep(i) \/ Read(i)
    \/ \E b \in 1..Batches : FinderReturns(b) \/ SourceCall(b) \/ SourceEnds(b)
    \/ NextQuestion \/ Stopped \/ World

\* The runtime polls every task and future; the question's time limit stops it; a
\* session's calls end by their time limit.  Nothing is assumed of the file system:
\* a source call, and the search for its project, may never return.
Fairness ==
    /\ WF_vars(Stopped)
    /\ WF_vars(LocateNone) /\ WF_vars(LocateStopped) /\ WF_vars(BatchReturns)
    /\ WF_vars(SourceJoined) /\ WF_vars(SourceAbandoned)
    /\ \A i \in Calls :
         /\ WF_vars(McpStep(i)) /\ WF_vars(QueryStep(i))
         /\ WF_vars(QueryThreadStep(i)) /\ WF_vars(Read(i))

Spec == Init /\ [][Next]_vars
FairSpec == Spec /\ Fairness
-----------------------------------------------------------------------------
\* When the batch is over every line it opened was closed: no call of the screen
\* goes on for ever, whichever of the ways its call ended - refused, stopped while
\* its project was sought, abandoned, panicked.
LinesAreClosed == phase = "none" => lines = {}

\* A result that offers the model its rest finds it in the conversation's history,
\* now and in later batches, though threads took that history away, died with it,
\* or came back after they were abandoned.
OffersAreKept == phase = "none" => offers \subseteq history

\* A batch leaves nothing open: neither a line of the screen nor an offer to the model.
BatchLeavesNothingOpen == LinesAreClosed /\ OffersAreKept

\* A query runs once in a question for the same values and target as long as its
\* rows are kept: not twice in a response, however its calls were spelled, and not
\* again when an earlier response's run is still to be read.
Runs(i) == runPc[i] \notin {"idle", "lookup"} /\ runOut[i] \in {"none", "stored"}

QueriesRunOnce ==
    phase = "running" => \A i \in Calls :
        Runs(i) => /\ executed[Sig[i]] \notin kept
                   /\ \A j \in Calls : Runs(j) /\ Sig[j] = Sig[i] => i = j

\* Every call ends and its batch with it, whatever a project's file system does.
BatchEnds == phase # "none" ~> phase = "none"
=============================================================================
