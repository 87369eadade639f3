------------------------------ MODULE McpCalls ------------------------------
(***************************************************************************)
(* A call of an MCP tool, from the look at its server's connection to the  *)
(* result the model is given (src/backend/src/mcp/mod.rs, Offered::call).  *)
(* A call waits for a permit (HTTP only), then to be taken by the SDK's    *)
(* queue, then for its answer; at each wait a stop or its deadline may end *)
(* it, and meanwhile its connection may close and another be made.  Past   *)
(* the queue nobody knows whether the server ran the tool: it may run it   *)
(* even after the call was given up.                                       *)
(***************************************************************************)
EXTENDS Question

CONSTANTS
    Permits,       \* calls an HTTP connection carries at once (HTTP_CALLS)
    Http,          \* the server is reached over HTTP, not stdio
    Conns          \* connections made during the run, a bound

ASSUME McpAssumption == Permits \in Nat \ {0} /\ Http \in BOOLEAN /\ Conns \in Nat

VARIABLES
    mcpPc,         \* where each call is
    held,          \* the connection it took from the slot (peer, link)
    wire,          \* its request: not sent, in the SDK's hands, known unreached
    ran,           \* the calls whose tool the server ran
    outcome,       \* what the call ends with, by what it tells the model
    conn, up       \* the slot's connection, and whether it is ready

mcpVars == <<mcpPc, held, wire, ran, outcome, conn, up>>

Ends == {"ok", "answered", "unavailable", "unsent", "refused", "maybe", "cancelled",
         "cancelled_maybe", "panicked"}

McpTypeOK ==
    /\ mcpPc \in [Calls -> {"idle", "queued", "sending", "sent", "done"}]
    /\ held \in [Calls -> 0..Conns]
    /\ wire \in [Calls -> {"out", "sent", "never"}]
    /\ ran \subseteq Calls
    /\ outcome \in [Calls -> Ends \cup {"none"}]
    /\ conn \in 0..Conns /\ up \in BOOLEAN

McpInit ==
    /\ mcpPc = [i \in Calls |-> "idle"]
    /\ held = [i \in Calls |-> 0]
    /\ wire = [i \in Calls |-> "out"]
    /\ ran = {}
    /\ outcome = [i \in Calls |-> "none"]
    /\ conn = 0 /\ up = TRUE

Open(g) == up /\ g = conn

Carried(g) == {i \in Calls : mcpPc[i] \in {"sending", "sent"} /\ held[i] = g}

End(i, how) ==
    /\ mcpPc' = [mcpPc EXCEPT ![i] = "done"]
    /\ held' = [held EXCEPT ![i] = 0]
    /\ outcome' = [outcome EXCEPT ![i] = how]

\* `call`, `call_inner` up to the first wait: the server as configured now (gone,
\* off, the tool no longer allowed), the stop, and the connection of this moment.
McpStart(i) ==
    /\ mcpPc[i] = "idle"
    /\ \/ End(i, "unavailable")
       \/ cancel /\ End(i, "cancelled")
       \/ /\ ~cancel /\ up
          /\ held' = [held EXCEPT ![i] = conn]
          /\ mcpPc' = [mcpPc EXCEPT ![i] = IF Http THEN "queued" ELSE "sending"]
          /\ UNCHANGED outcome
    /\ UNCHANGED <<wire, ran, conn, up>>

\* A permit of the call's own connection.
McpCarry(i) ==
    /\ mcpPc[i] = "queued" /\ Cardinality(Carried(held[i])) < Permits
    /\ mcpPc' = [mcpPc EXCEPT ![i] = "sending"]
    /\ UNCHANGED <<held, wire, ran, outcome, conn, up>>

\* Stopped, or overdue, before the SDK took the request.
McpUnsent(i) ==
    /\ \/ mcpPc[i] \in {"queued", "sending"} /\ cancel /\ End(i, "cancelled")
       \/ mcpPc[i] = "queued" /\ End(i, "unsent")
       \/ mcpPc[i] = "sending" /\ End(i, "maybe")
    /\ UNCHANGED <<wire, ran, conn, up>>

\* The queue takes the request, or is closed with its connection.
McpSend(i) ==
    /\ mcpPc[i] = "sending"
    /\ \/ /\ Open(held[i])
          /\ mcpPc' = [mcpPc EXCEPT ![i] = "sent"]
          /\ wire' = [wire EXCEPT ![i] = "sent"]
          /\ UNCHANGED <<held, outcome>>
       \/ ~Open(held[i]) /\ End(i, "unavailable") /\ UNCHANGED wire
    /\ UNCHANGED <<ran, conn, up>>

\* The server runs the tool: while the call waits, or after it was given up.
ServerRuns(i) ==
    /\ wire[i] = "sent" /\ i \notin ran
    /\ ran' = ran \cup {i}
    /\ UNCHANGED <<mcpPc, held, wire, outcome, conn, up>>
-----------------------------------------------------------------------------
\* How the wait for the answer ends.

\* The server's answer: a result, or an error of its own, or one no result.
McpAnswer(i) ==
    /\ mcpPc[i] = "sent" /\ Open(held[i])
    /\ \/ i \in ran /\ End(i, "ok")
       \/ End(i, "answered")
    /\ UNCHANGED <<wire, ran, conn, up>>

\* The request is known not to have reached the tool: not written to a stdio
\* server's input, refused by the connection or with a 4xx, a session gone.
McpRefused(i) ==
    /\ mcpPc[i] = "sent" /\ i \notin ran
    /\ End(i, "refused")
    /\ wire' = [wire EXCEPT ![i] = "never"]
    /\ UNCHANGED <<ran, conn, up>>

\* Mutant: a lost connection is told as one that was not there.
McpCutUnsaid(i) ==
    /\ mcpPc[i] = "sent" /\ (Http \/ ~Open(held[i]))
    /\ End(i, "unavailable")
    /\ UNCHANGED <<wire, ran, conn, up>>

\* The connection closed under the call, or HTTP failed it after it was sent (its
\* stream cut, a 5xx, a proxy's error): what it did is not known, and it says so.
McpCut(i) ==
    /\ mcpPc[i] = "sent" /\ (Http \/ ~Open(held[i]))
    /\ End(i, "maybe")
    /\ UNCHANGED <<wire, ran, conn, up>>

\* Stopped after it was sent: the server is told, and may have run it already.
McpStop(i) ==
    /\ mcpPc[i] = "sent" /\ cancel
    /\ End(i, "cancelled_maybe")
    /\ UNCHANGED <<wire, ran, conn, up>>

\* Overdue after it was sent (the SDK's timeout, or a second later the call's own).
McpOverdue(i) ==
    /\ mcpPc[i] = "sent"
    /\ End(i, "maybe")
    /\ UNCHANGED <<wire, ran, conn, up>>

\* The task of the call panics; the batch ends the call (TOOL_PANIC).
McpPanics(i) ==
    /\ mcpPc[i] # "done"
    /\ End(i, "panicked")
    /\ UNCHANGED <<wire, ran, conn, up>>

-----------------------------------------------------------------------------
\* The slot's supervisor, whose own steps McpHub models: the connection ends (lost,
\* given up, replaced by a new configuration) and another is made.
ConnEnds ==
    /\ up /\ up' = FALSE
    /\ UNCHANGED <<mcpPc, held, wire, ran, outcome, conn>>

ConnMade ==
    /\ ~up /\ conn < Conns
    /\ up' = TRUE /\ conn' = conn + 1
    /\ UNCHANGED <<mcpPc, held, wire, ran, outcome>>

\* The steps a call's own task takes, its deadline among them.
McpTask(i) ==
    \/ McpStart(i) \/ McpCarry(i) \/ McpUnsent(i) \/ McpSend(i) \/ McpAnswer(i)
    \/ McpRefused(i) \/ McpCut(i) \/ McpStop(i) \/ McpOverdue(i) \/ McpPanics(i)

McpWorld == ConnEnds \/ ConnMade \/ \E i \in Calls : ServerRuns(i)

McpNext ==
    \/ (McpWorld \/ \E i \in Calls : McpTask(i)) /\ UNCHANGED cancel
    \/ StopCalls /\ UNCHANGED mcpVars

McpSpec == QuestionInit /\ McpInit /\ [][McpNext]_<<cancel, mcpVars>>
-----------------------------------------------------------------------------
\* A call whose tool the server ran, or will yet run, does not tell the model it had
\* no effect: it gives the server's own answer or says that it may have taken
\* effect, against a blind second call (an issue filed twice).  A panic's result
\* says only that the tool stopped unexpectedly.
EffectIsSaid ==
    \A i \in ran :
        mcpPc[i] = "done" =>
            outcome[i] \in {"ok", "answered", "maybe", "cancelled_maybe", "panicked"}
=============================================================================
