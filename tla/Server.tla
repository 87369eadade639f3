------------------------------- MODULE Server -------------------------------
(***************************************************************************)
(* The HTTP server around the answers, from its port to its exit           *)
(* (src/backend/src/web.rs and main.rs).  A question has a request, a task *)
(* that runs it whatever becomes of the request, and a row of the chat log *)
(* that a further task writes.  A signal stops the runs, then the server   *)
(* waits for the open connections, the pending rows, the MCP hub and the   *)
(* background jobs, each within a limit (the hub within its own, McpHub),  *)
(* closes the pools, which it waits for without one, and the process ends  *)
(* with whatever has not ended by then.                                    *)
(***************************************************************************)
EXTENDS Integers, FiniteSets

CONSTANTS
    Asked,         \* requests to /api/chat, each made at most once
    MaxPending,    \* rows being written at once (MAX_PENDING_LOGS)
    Polls          \* looks at the pending rows before shutdown goes on (50)

ASSUME ServerAssumption == IsFiniteSet(Asked) /\ MaxPending \in Nat \ {0} /\ Polls \in Nat \ {0}

VARIABLES
    server,        \* how far the process is
    stopSignal,    \* App::shutdown, the parent of every run's token
    tab,           \* the request of each question: its connection, or closed
    task,          \* the task that runs the question
    runCancelled,  \* its own token (the browser went away)
    told,          \* what the request was answered with
    row,           \* its chat log row
    pending,       \* App::pending_logs
    polls,         \* looks at it so far
    mcpHub,        \* the hub's stop
    overrun        \* the limits that ran out during the shutdown

serverVars == <<server, stopSignal, tab, task, runCancelled, told, row, pending, polls, mcpHub, overrun>>
shutdownVars == <<server, stopSignal, polls, mcpHub, overrun>>

Stages == {"binding", "serving", "draining", "logging", "joining", "closing", "exited"}

ServerTypeOK ==
    /\ server \in Stages
    /\ stopSignal \in BOOLEAN
    /\ tab \in [Asked -> {"none", "open", "closed"}]
    /\ task \in [Asked -> {"none", "running", "logged_answer", "logged_error", "logged_cancel", "over"}]
    /\ runCancelled \in [Asked -> BOOLEAN]
    /\ told \in [Asked -> {"nothing", "done", "error", "rejected"}]
    /\ row \in [Asked -> {"none", "writing", "written", "failed", "skipped", "stuck", "lost"}]
    /\ pending \in 0..Cardinality(Asked)
    /\ polls \in 0..Polls
    /\ mcpHub \in {"up", "closed"}
    /\ overrun \subseteq {"connections", "rows", "jobs"}

ServerInit ==
    /\ server = "binding"
    /\ stopSignal = FALSE
    /\ tab = [q \in Asked |-> "none"]
    /\ task = [q \in Asked |-> "none"]
    /\ runCancelled = [q \in Asked |-> FALSE]
    /\ told = [q \in Asked |-> "nothing"]
    /\ row = [q \in Asked |-> "none"]
    /\ pending = 0
    /\ polls = 0
    /\ mcpHub = "up"
    /\ overrun = {}

Runs == server # "exited"

\* The port is bound before the jobs and the MCP servers start; a port taken by
\* another process ends this one with neither begun.
Bind ==
    /\ server = "binding"
    /\ server' = "serving"
    /\ UNCHANGED <<stopSignal, tab, task, runCancelled, told, row, pending, polls, mcpHub, overrun>>

BindFails ==
    /\ server = "binding"
    /\ server' = "exited"
    /\ mcpHub' = "closed"
    /\ UNCHANGED <<stopSignal, tab, task, runCancelled, told, row, pending, polls, overrun>>

\* `record_chat_log`: the counter is raised before it is looked at, and lowered
\* again by a row that is not written.
Record(q) ==
    IF pending >= MaxPending
        THEN row' = [row EXCEPT ![q] = "skipped"] /\ UNCHANGED pending
        ELSE row' = [row EXCEPT ![q] = "writing"] /\ pending' = pending + 1

\* A request that gets as far as a run.  Connections taken before the signal may
\* still bring one while the server drains; its token is cancelled at birth.
Ask(q) ==
    /\ server \in {"serving", "draining"} /\ tab[q] = "none"
    /\ tab' = [tab EXCEPT ![q] = "open"]
    /\ task' = [task EXCEPT ![q] = "running"]
    /\ UNCHANGED <<runCancelled, told, row, pending, shutdownVars>>

\* Not JSON, too large, no message, too long: logged, then refused.
AskRejected(q) ==
    /\ server \in {"serving", "draining"} /\ tab[q] = "none"
    /\ Record(q)
    /\ tab' = [tab EXCEPT ![q] = "open"]
    /\ told' = [told EXCEPT ![q] = "rejected"]
    /\ task' = [task EXCEPT ![q] = "over"]
    /\ UNCHANGED <<runCancelled, shutdownVars>>

\* The browser closes the request: the stream's task sees it (tx.closed), or the
\* guard of a plain request is dropped.  Either way the run is only told.
Leave(q) ==
    /\ Runs /\ tab[q] = "open"
    /\ tab' = [tab EXCEPT ![q] = "closed"]
    /\ runCancelled' = [runCancelled EXCEPT ![q] = task[q] = "running" \/ @]
    /\ UNCHANGED <<task, told, row, pending, shutdownVars>>

Cancelled(q) == stopSignal \/ runCancelled[q]

\* `finish`: the run returned, or panicked (`guarded`).  An answer that was ready
\* is kept whatever was cancelled meanwhile; an error of a cancelled run is not
\* told.  The row is recorded here, before anything is told.
RunEnds(q) ==
    /\ Runs /\ task[q] = "running"
    /\ \E how \in {"logged_answer", "logged_error", "logged_cancel"} :
          /\ how = "logged_cancel" => Cancelled(q)
          /\ how = "logged_error" => ~Cancelled(q)
          /\ task' = [task EXCEPT ![q] = how]
    /\ Record(q)
    /\ UNCHANGED <<tab, runCancelled, told, shutdownVars>>

\* The last line of the stream, or the plain response; the stream then ends.  An
\* error whose question was stopped since it was logged is not sent.
Tell(q) ==
    /\ Runs /\ task[q] \in {"logged_answer", "logged_error", "logged_cancel"}
    /\ told' = [told EXCEPT ![q] =
          IF tab[q] # "open" THEN @
          ELSE IF task[q] = "logged_answer" THEN "done"
          ELSE IF task[q] = "logged_error" /\ ~Cancelled(q) THEN "error" ELSE @]
    /\ task' = [task EXCEPT ![q] = "over"]
    /\ UNCHANGED <<tab, runCancelled, row, pending, shutdownVars>>

\* A connection whose response is whole is free to close.
Close(q) ==
    /\ Runs /\ tab[q] = "open" /\ task[q] = "over"
    /\ tab' = [tab EXCEPT ![q] = "closed"]
    /\ UNCHANGED <<task, runCancelled, told, row, pending, shutdownVars>>

\* The row's own task: written, refused by the management DB (or timed out), or
\* ended by a panic, which leaves the counter raised for good.
WriteRow(q) ==
    /\ Runs /\ row[q] = "writing"
    /\ \/ /\ \E how \in {"written", "failed"} : row' = [row EXCEPT ![q] = how]
          /\ pending' = pending - 1
       \/ row' = [row EXCEPT ![q] = "stuck"] /\ UNCHANGED pending
    /\ UNCHANGED <<tab, task, runCancelled, told, shutdownVars>>

\* SIGINT, SIGTERM, SIGHUP or the end of the launcher: the listener closes and
\* every run's token is cancelled.
Signal ==
    /\ server = "serving"
    /\ server' = "draining" /\ stopSignal' = TRUE
    /\ UNCHANGED <<tab, task, runCancelled, told, row, pending, polls, mcpHub, overrun>>

Drained ==
    /\ server = "draining"
    /\ \A q \in Asked : tab[q] # "open"
    /\ server' = "logging"
    /\ UNCHANGED <<stopSignal, tab, task, runCancelled, told, row, pending, polls, mcpHub, overrun>>

\* Mutant: the connections waited for until each has ended.
DrainOverNever ==
    /\ server = "draining" /\ Asked = {}
    /\ UNCHANGED serverVars

\* SHUTDOWN_GRACE has passed: `serve` returns, the connections left as they are.
DrainOver ==
    /\ server = "draining"
    /\ \E q \in Asked : tab[q] = "open"
    /\ server' = "logging" /\ overrun' = overrun \cup {"connections"}
    /\ UNCHANGED <<stopSignal, tab, task, runCancelled, told, row, pending, polls, mcpHub>>

\* Mutant: the pools closed after one look at the pending rows.
LookAtRowsOnce ==
    /\ server = "logging"
    /\ server' = "joining"
    /\ UNCHANGED <<stopSignal, tab, task, runCancelled, told, row, pending, polls, mcpHub, overrun>>

LookAtRows ==
    /\ server = "logging"
    /\ \/ pending = 0 /\ server' = "joining" /\ UNCHANGED <<polls, overrun>>
       \/ pending > 0 /\ polls < Polls /\ polls' = polls + 1 /\ UNCHANGED <<server, overrun>>
       \/ pending > 0 /\ polls = Polls /\ server' = "joining" /\ overrun' = overrun \cup {"rows"} /\ UNCHANGED polls
    /\ UNCHANGED <<stopSignal, tab, task, runCancelled, told, row, pending, mcpHub>>

\* The hub is waited for without a limit here: its own shutdown has one.
HubCloses ==
    /\ Runs /\ stopSignal /\ mcpHub = "up"
    /\ mcpHub' = "closed"
    /\ UNCHANGED <<server, stopSignal, tab, task, runCancelled, told, row, pending, polls, overrun>>

\* Housekeeping, warm-up, embedding sync and log cleanup end at the stop, each within
\* SHUTDOWN_GRACE or not.
LateJobs == SUBSET {"jobs"}

\* The jobs are waited for within their limit, the hub without one here; then the
\* pools begin to close.
JoinJobs ==
    /\ server = "joining" /\ mcpHub = "closed"
    /\ server' = "closing"
    /\ \E late \in LateJobs : overrun' = overrun \cup late
    /\ UNCHANGED <<stopSignal, tab, task, runCancelled, told, row, pending, polls, mcpHub>>

\* `Db::close` returns once every pool has disconnected, however long a database takes
\* for it, and the process ends: what a task of its own was still writing is lost.
Exit ==
    /\ server = "closing"
    /\ server' = "exited"
    /\ row' = [q \in Asked |-> IF row[q] = "writing" THEN "lost" ELSE row[q]]
    /\ UNCHANGED <<stopSignal, tab, task, runCancelled, told, pending, polls, mcpHub, overrun>>

ServerNext ==
    \/ Bind \/ BindFails \/ Signal \/ Drained \/ DrainOver \/ LookAtRows \/ HubCloses
    \/ JoinJobs \/ Exit
    \/ \E q \in Asked : Ask(q) \/ AskRejected(q) \/ Leave(q) \/ RunEnds(q) \/ Tell(q) \/ Close(q) \/ WriteRow(q)

\* The timers of the shutdown and the hub's own, bounded, stop; nothing is assumed
\* of browsers, of runs, of the databases (the exit waits for theirs) or of the jobs.
Limits == DrainOver \/ Drained \/ LookAtRows \/ JoinJobs

ServerSpec == ServerInit /\ [][ServerNext]_serverVars /\ WF_serverVars(Limits) /\ WF_serverVars(HubCloses)

\* A question whose browser was answered has its row dealt with before the process
\* ends: written, refused by the DB, or skipped because too many were pending.  It
\* is never lost to the exit unless the shutdown ran out of time waiting for rows,
\* or a row's task died (web.rs finish, main.rs serve).
AnsweredIsLogged ==
    server = "exited" /\ overrun \cap {"connections", "rows"} = {} =>
        \A q \in Asked : told[q] # "nothing" => row[q] \in {"written", "failed", "skipped"}

\* A signal is followed by the close of the pools, the last step before the exit,
\* whatever the browsers, the runs, the rows and the jobs do (main.rs serve); the close
\* waits for the databases, with no limit of its own (db.rs Db::close).
ServerWindsDown == stopSignal ~> server \in {"closing", "exited"}

=============================================================================
