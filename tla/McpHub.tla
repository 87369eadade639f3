-------------------------------- MODULE McpHub --------------------------------
(***************************************************************************)
(* The configured tool servers (`McpHub` of backend/src/mcp/mod.rs): each  *)
(* has a slot, whose supervisor starts the server's process, lists its     *)
(* tools, serves the connection, and connects again after a loss, a wait   *)
(* or a request, until the slot is stopped; a connection check is a task   *)
(* with a slot of its own.  Administrators save and remove servers, ask    *)
(* for reconnections and check drafts, while the backend may stop.         *)
(*                                                                         *)
(* The servers are processes (stdio): external, they may exit, or stop     *)
(* reading and answering (mute).  The connection key of a slot stands for  *)
(* all its settings; those that apply in place are left out.               *)
(***************************************************************************)
EXTENDS Integers, FiniteSets

CONSTANTS
    Names,      \* the servers' names
    Keys,       \* what connections are made from
    Off,        \* the key of a disabled server
    NoKey,
    MaxSlots,   \* bound: slots made, for servers and for checks
    MaxAsks,    \* bound: reconnections asked for
    MaxFaults   \* bound: processes that exit, go mute or cannot be connected

Slots == 1..MaxSlots
NoSlot == 0

ASSUME McpHubAssumption ==
    /\ NoKey \notin Keys \cup {Off}
    /\ MaxSlots \in Nat /\ MaxAsks \in Nat /\ MaxFaults \in Nat

VARIABLES
    current,    \* the hub's slots: the one of each name
    key,        \* the connection key of each slot made
    checks,     \* the slots of connection checks
    down,       \* how far `shutdown` is
    taken,      \* the slots it took and has still to stop
    retired,    \* the slots whose tasks are kept for `shutdown`
    awaited,    \* the slots whose tasks it waits for
    stop,       \* the slots told to stop (a check: given up)
    asked,      \* the slots whose `reconnect` has a permit
    pc,         \* where the task of each slot is
    then,       \* what it does once the connection or the attempt is ended
    phase,      \* what is shown of the slot; `ready` offers its tools
    proc,       \* the process of its connection
    abandoned,  \* the slots with a process of an attempt given up
    ring,       \* the slots whose connection was found broken
    ping,       \* the slots with a ping under way: to this connection, or an older
    unanswered, \* slots asked for a connection newer than theirs (history variable)
    asks, faults

hub == <<current, key, checks>>
ending == <<down, taken, retired, awaited>>
task == <<pc, then, phase, proc, abandoned>>
link == <<ring, ping>>
vars == <<current, key, checks, down, taken, retired, awaited, stop, asked, pc, then, phase,
          proc, abandoned, ring, ping, unanswered, asks, faults>>

\* A task has none of these left to do once ended; a disabled server has no task.
Stages == {"none", "connecting", "listing", "serving", "closing", "attempt", "waiting", "ended"}

TypeOK ==
    /\ current \in [Names -> Slots \cup {NoSlot}]
    /\ key \in [Slots -> Keys \cup {Off, NoKey}]
    /\ checks \subseteq Slots
    /\ down \in {"up", "closed", "cancelled", "stopping", "done"}
    /\ taken \subseteq Slots /\ retired \subseteq Slots /\ awaited \subseteq Slots
    /\ stop \subseteq Slots /\ asked \subseteq Slots
    /\ pc \in [Slots -> Stages]
    /\ then \in [Slots -> {"stop", "again", "wait"}]
    /\ phase \in [Slots -> {"disabled", "connecting", "ready", "failed", "stopped"}]
    /\ proc \in [Slots -> {"none", "live", "mute", "gone"}]
    /\ abandoned \subseteq Slots /\ ring \subseteq Slots
    /\ ping \in [Slots -> {"none", "this", "older"}]
    /\ unanswered \subseteq Slots
    /\ asks \in 0..MaxAsks /\ faults \in 0..MaxFaults

Init ==
    /\ current = [n \in Names |-> NoSlot]
    /\ key = [s \in Slots |-> NoKey]
    /\ checks = {}
    /\ down = "up"
    /\ taken = {} /\ retired = {} /\ awaited = {}
    /\ stop = {} /\ asked = {}
    /\ pc = [s \in Slots |-> "none"]
    /\ then = [s \in Slots |-> "stop"]
    /\ phase = [s \in Slots |-> "disabled"]
    /\ proc = [s \in Slots |-> "none"]
    /\ abandoned = {} /\ ring = {}
    /\ ping = [s \in Slots |-> "none"]
    /\ unanswered = {}
    /\ asks = 0 /\ faults = 0

-----------------------------------------------------------------------------
(* Administrators. *)

\* The next slot to be made.
New(s) == key[s] = NoKey /\ \A t \in Slots : t < s => key[t] # NoKey

HasTask(s) == pc[s] # "none"

\* `spawn_supervisor`, for a server or a check.
Spawn(s) ==
    /\ pc' = [pc EXCEPT ![s] = "connecting"]
    /\ phase' = [phase EXCEPT ![s] = "connecting"]

\* The tasks kept for `shutdown`: those that ended are let go of.
Unended == {s \in retired : pc[s] # "ended"}

\* Mutant: a removed server's task is let go of.
RetireUnkept(old) ==
    /\ stop' = stop \cup (old \ {NoSlot})
    /\ UNCHANGED retired

\* `retire`: the slot a name had is told to stop, its task kept.
Retire(old) ==
    /\ stop' = stop \cup (old \ {NoSlot})
    /\ retired' = IF \E s \in old \cap Slots : HasTask(s) THEN Unended \cup old ELSE retired

\* A save of one server, `apply` (a rename is a removal and a save): a changed
\* connection is made anew in a new slot; once the hub is closed it does nothing.
Apply(n) ==
    /\ down = "up"
    /\ \E k \in Keys \cup {Off}, s \in Slots :
        /\ New(s)
        /\ current[n] # NoSlot => key[current[n]] # k
        /\ current' = [current EXCEPT ![n] = s]
        /\ key' = [key EXCEPT ![s] = k]
        /\ IF k = Off THEN UNCHANGED <<pc, phase>> ELSE Spawn(s)
    /\ Retire({current[n]})
    /\ UNCHANGED <<checks, down, taken, awaited, asked, then, proc, abandoned, link, unanswered,
                   asks, faults>>

\* A server is removed.
Remove(n) ==
    /\ down = "up"
    /\ current[n] # NoSlot
    /\ current' = [current EXCEPT ![n] = NoSlot]
    /\ Retire({current[n]})
    /\ UNCHANGED <<key, checks, down, taken, awaited, asked, task, link, unanswered, asks, faults>>

\* `restart` of an enabled server, whose slot may be replaced once it is found.  A
\* supervisor ends only when its slot is stopped, so none is to be started again.
Restart(s) ==
    /\ asks < MaxAsks /\ asks' = asks + 1
    /\ key[s] \in Keys /\ s \notin checks
    /\ asked' = asked \cup {s} /\ unanswered' = unanswered \cup {s}
    /\ UNCHANGED <<hub, ending, stop, task, link, faults>>

\* A connection check begins, unless the hub is closed.
Probe ==
    /\ down = "up"
    /\ \E k \in Keys, s \in Slots :
        /\ New(s)
        /\ key' = [key EXCEPT ![s] = k]
        /\ checks' = checks \cup {s}
        /\ retired' = Unended \cup {s}
        /\ Spawn(s)
    /\ UNCHANGED <<current, down, taken, awaited, stop, asked, then, proc, abandoned, link,
                   unanswered, asks, faults>>

\* The request of a check is dropped.
GiveUp(s) ==
    /\ s \in checks \ stop
    /\ stop' = stop \cup {s}
    /\ UNCHANGED <<hub, ending, asked, task, link, unanswered, asks, faults>>

-----------------------------------------------------------------------------
(* The server's process, and the calls on its connection. *)

Connection(s) == pc[s] \in {"connecting", "listing", "serving"}

Fault == faults < MaxFaults /\ faults' = faults + 1

\* The process exits, or reads and answers nothing more.
ProcessFails(s) ==
    /\ Fault
    /\ Connection(s) /\ proc[s] \in {"live", "mute"}
    /\ \E state \in {"mute", "gone"} \ {proc[s]} : proc' = [proc EXCEPT ![s] = state]
    /\ UNCHANGED <<hub, ending, stop, asked, pc, then, phase, abandoned, link, unanswered, asks>>

\* The connection is found broken: a request could not be sent, or too many
\* answers wait to be written.
Ring(s) ==
    /\ Connection(s) /\ proc[s] \in {"mute", "gone"} /\ s \notin ring
    /\ ring' = ring \cup {s}
    /\ UNCHANGED <<hub, ending, stop, asked, task, ping, unanswered, asks, faults>>

\* A call is past its limit, or a stopped one is: one ping at a time asks whether
\* the server still answers.
CallLate(s) ==
    /\ phase[s] = "ready" /\ ping[s] = "none"
    /\ ping' = [ping EXCEPT ![s] = "this"]
    /\ UNCHANGED <<hub, ending, stop, asked, task, ring, unanswered, asks, faults>>

\* Mutant: a newer connection is told for an older.
Silent(s) ==
    /\ phase[s] = "ready"
    /\ ping[s] = "older" \/ (ping[s] = "this" /\ proc[s] \in {"mute", "gone"})

\* A ping without an answer is told to the connection it asked, if still there.
SilentThis(s) == ping[s] = "this" /\ phase[s] = "ready" /\ proc[s] \in {"mute", "gone"}

\* The ping is answered, refused or given up; one to a process that is gone may
\* only find the connection closed.
PingEnds(s) ==
    /\ ping[s] # "none"
    /\ ping' = [ping EXCEPT ![s] = "none"]
    /\ \/ SilentThis(s) /\ ring' = ring \cup {s}
       \/ (~SilentThis(s) \/ proc[s] = "gone") /\ UNCHANGED ring
    /\ UNCHANGED <<hub, ending, stop, asked, task, unanswered, asks, faults>>

-----------------------------------------------------------------------------
(* The task of a slot. *)

\* A check that was given up starts and awaits nothing more.
Goes(s) == s \in checks => s \notin stop

\* A new connection is begun (once the task says so).
Begins(s) ==
    /\ ring' = ring \ {s}
    /\ unanswered' = unanswered \ {s}

\* `start`: the connection has its process.
StartProcess(s) ==
    /\ pc[s] = "connecting" /\ proc[s] = "none" /\ Goes(s)
    /\ proc' = [proc EXCEPT ![s] = "live"]
    /\ UNCHANGED <<hub, ending, stop, asked, pc, then, phase, abandoned, link, unanswered, asks, faults>>

\* The session is initialized.
Connected(s) ==
    /\ pc[s] = "connecting" /\ proc[s] = "live" /\ Goes(s)
    /\ pc' = [pc EXCEPT ![s] = "listing"]
    /\ UNCHANGED <<hub, ending, stop, asked, then, phase, proc, abandoned, link, unanswered, asks, faults>>

\* The attempt is given up; its process is left to `end_attempt`.
GivenUp(s, next) ==
    /\ pc' = [pc EXCEPT ![s] = "attempt"]
    /\ then' = [then EXCEPT ![s] = next]
    /\ abandoned' = IF proc[s] = "none" THEN abandoned ELSE abandoned \cup {s}
    /\ proc' = [proc EXCEPT ![s] = "none"]
    /\ UNCHANGED <<hub, ending, stop, link, unanswered, asks>>

\* The connection fails, or its time is over.
ConnectFails(s) ==
    /\ pc[s] = "connecting" /\ Goes(s)
    /\ IF proc[s] \in {"mute", "gone"} THEN UNCHANGED faults ELSE Fault
    /\ GivenUp(s, "wait")
    /\ UNCHANGED <<asked, phase>>

StopConnecting(s) ==
    /\ pc[s] = "connecting" /\ s \in stop
    /\ phase' = [phase EXCEPT ![s] = "stopped"]
    /\ GivenUp(s, "stop")
    /\ UNCHANGED <<asked, faults>>

\* Mutant: the connection is started over beside the old one's process.
AskedConnectingAtOnce(s) ==
    /\ pc[s] = "connecting" /\ s \in asked
    /\ asked' = asked \ {s}
    /\ abandoned' = IF proc[s] = "none" THEN abandoned ELSE abandoned \cup {s}
    /\ proc' = [proc EXCEPT ![s] = "none"]
    /\ Begins(s)
    /\ UNCHANGED <<hub, ending, stop, pc, then, phase, ping, asks, faults>>

\* A reconnection asked for while connecting starts the connection over.
AskedConnecting(s) ==
    /\ pc[s] = "connecting" /\ s \in asked
    /\ asked' = asked \ {s}
    /\ GivenUp(s, "again")
    /\ UNCHANGED <<phase, faults>>

\* Mutant: a connection that failed is not made again.
GoesOnOnce(s) ==
    pc' = [pc EXCEPT ![s] = IF then[s] = "again" THEN "connecting" ELSE "ended"]

After == [stop |-> "ended", again |-> "connecting", wait |-> "waiting"]

\* Where the task goes on; a check has nothing more to do.
GoesOn(s) == pc' = [pc EXCEPT ![s] = IF s \in checks THEN "ended" ELSE After[then[s]]]

\* `end_attempt`: the process of an attempt given up is ended.
EndAttempt(s) ==
    /\ pc[s] = "attempt"
    /\ abandoned' = abandoned \ {s}
    /\ GoesOn(s)
    /\ IF then[s] = "again" THEN Begins(s) ELSE UNCHANGED <<ring, unanswered>>
    /\ phase' = IF then[s] = "wait" THEN [phase EXCEPT ![s] = "failed"] ELSE phase
    /\ UNCHANGED <<hub, ending, stop, asked, then, proc, ping, asks, faults>>

\* The tools are listed: the server is ready; a check has what it wants.
Listed(s) ==
    /\ pc[s] = "listing" /\ proc[s] # "mute" /\ Goes(s)
    /\ pc' = [pc EXCEPT ![s] = IF s \in checks THEN "closing" ELSE "serving"]
    /\ phase' = IF s \in checks THEN phase ELSE [phase EXCEPT ![s] = "ready"]
    /\ UNCHANGED <<hub, ending, stop, asked, then, proc, abandoned, link, unanswered, asks, faults>>

\* The connection ends, its phase said first: no question begun while it closes
\* is offered its tools.
Ends(s, next, shown) ==
    /\ pc' = [pc EXCEPT ![s] = "closing"]
    /\ then' = [then EXCEPT ![s] = next]
    /\ phase' = [phase EXCEPT ![s] = shown]
    /\ UNCHANGED <<hub, ending, stop, proc, abandoned, link, unanswered, asks>>

\* The list fails, or its time is over.
ListFails(s) ==
    /\ pc[s] = "listing" /\ Goes(s)
    /\ IF proc[s] \in {"mute", "gone"} THEN UNCHANGED faults ELSE Fault
    /\ Ends(s, "wait", "failed")
    /\ UNCHANGED asked

StopServing(s) ==
    /\ pc[s] \in {"listing", "serving"} /\ s \in stop
    /\ Ends(s, "stop", "stopped")
    /\ UNCHANGED <<asked, faults>>

AskedServing(s) ==
    /\ pc[s] \in {"listing", "serving"} /\ s \in asked
    /\ asked' = asked \ {s}
    /\ Ends(s, "again", "connecting")
    /\ UNCHANGED faults

\* The connection ended, or was found broken.
Lost(s) ==
    /\ pc[s] = "serving" /\ (proc[s] = "gone" \/ s \in ring)
    /\ Ends(s, "wait", "failed")
    /\ UNCHANGED <<asked, faults>>

\* Mutant: requests made while any connection closes are dropped.
UnaskedAlways(s) == asked \ {s}

\* What is left of the requests once a connection is closed: one made meanwhile
\* is answered by the connection about to be made.
Unasked(s) == IF then[s] = "again" THEN asked \ {s} ELSE asked

\* `close`: the process and its group are ended.  A ping goes on.
Close(s) ==
    /\ pc[s] = "closing"
    /\ proc' = [proc EXCEPT ![s] = "none"]
    /\ ping' = IF ping[s] = "none" THEN ping ELSE [ping EXCEPT ![s] = "older"]
    /\ asked' = Unasked(s)
    /\ GoesOn(s)
    /\ IF then[s] = "again" THEN Begins(s) ELSE ring' = ring \ {s} /\ UNCHANGED unanswered
    /\ UNCHANGED <<hub, ending, stop, then, phase, abandoned, asks, faults>>

\* Connects again: the wait is over, or was cut short.
Retry(s) ==
    /\ Spawn(s)
    /\ Begins(s)
    /\ UNCHANGED <<hub, ending, stop, then, proc, abandoned, ping, asks, faults>>

WaitOver(s) ==
    /\ pc[s] = "waiting"
    /\ Retry(s) /\ UNCHANGED asked

AskedWaiting(s) ==
    /\ pc[s] = "waiting" /\ s \in asked
    /\ asked' = asked \ {s}
    /\ Retry(s)

StopWaiting(s) ==
    /\ pc[s] = "waiting" /\ s \in stop
    /\ pc' = [pc EXCEPT ![s] = "ended"]
    /\ phase' = [phase EXCEPT ![s] = "stopped"]
    /\ UNCHANGED <<hub, ending, stop, asked, then, proc, abandoned, link, unanswered, asks, faults>>

Work(s) ==
    \/ StartProcess(s) \/ Connected(s) \/ ConnectFails(s) \/ StopConnecting(s)
    \/ AskedConnecting(s) \/ EndAttempt(s)
    \/ Listed(s) \/ ListFails(s) \/ StopServing(s) \/ AskedServing(s) \/ Lost(s) \/ Close(s)
    \/ WaitOver(s) \/ AskedWaiting(s) \/ StopWaiting(s)

-----------------------------------------------------------------------------
(* `shutdown`, in the order of its statements. *)

\* The hub is closed and its slots taken, under one lock.
CloseHub ==
    /\ down = "up" /\ down' = "closed"
    /\ taken' = {current[n] : n \in Names} \ {NoSlot}
    /\ current' = [n \in Names |-> NoSlot]
    /\ UNCHANGED <<key, checks, retired, awaited, stop, asked, task, link, unanswered, asks, faults>>

CancelChecks ==
    /\ down = "closed" /\ down' = "cancelled"
    /\ stop' = stop \cup checks
    /\ UNCHANGED <<hub, taken, retired, awaited, asked, task, link, unanswered, asks, faults>>

TakeRetired ==
    /\ down = "cancelled" /\ down' = "stopping"
    /\ awaited' = retired /\ retired' = {}
    /\ UNCHANGED <<hub, taken, stop, asked, task, link, unanswered, asks, faults>>

StopSlot(s) ==
    /\ down = "stopping" /\ s \in taken
    /\ taken' = taken \ {s}
    /\ stop' = stop \cup {s}
    /\ awaited' = IF HasTask(s) THEN awaited \cup {s} ELSE awaited
    /\ UNCHANGED <<hub, down, retired, asked, task, link, unanswered, asks, faults>>

Down ==
    /\ down = "stopping" /\ down' = "done"
    /\ taken = {} /\ \A s \in awaited : pc[s] = "ended"
    /\ UNCHANGED <<hub, taken, retired, awaited, stop, asked, task, link, unanswered, asks, faults>>

Shutdown == CancelChecks \/ TakeRetired \/ (\E s \in Slots : StopSlot(s)) \/ Down

-----------------------------------------------------------------------------
Next ==
    \/ \E n \in Names : Apply(n) \/ Remove(n)
    \/ Probe \/ CloseHub \/ Shutdown
    \/ \E s \in Slots :
        \/ Restart(s) \/ GiveUp(s)
        \/ ProcessFails(s) \/ Ring(s) \/ CallLate(s) \/ PingEnds(s)
        \/ Work(s)

\* Tokio polls the tasks, whose waits have limits; nothing is asked of the servers,
\* of the administrators or of the calls.
Fairness ==
    /\ WF_vars(Shutdown)
    /\ \A s \in Slots : WF_vars(Work(s)) /\ WF_vars(PingEnds(s))

Spec == Init /\ [][Next]_vars
FairSpec == Spec /\ Fairness

-----------------------------------------------------------------------------
(* Properties. *)

\* Once `shutdown` returns no task of the hub runs and no process of a server is
\* left, of those replaced, removed and checked as of those configured.
NothingOutlivesShutdown ==
    down = "done" =>
        \A s \in Slots : pc[s] \in {"none", "ended"} /\ proc[s] = "none" /\ s \notin abandoned

\* A reconnection asked for, whenever it was, is not lost: the task has still to
\* see it, or is about to make a new connection.
NoRequestLost ==
    \A s \in unanswered \ stop : s \in asked \/ (pc[s] \in {"closing", "attempt"} /\ then[s] = "again")

\* A slot starts no process while one of an earlier attempt is left.
OneProcess == \A s \in Slots : proc[s] # "none" => s \notin abandoned

\* A served connection is given up only for a stop, a request or what its own
\* process does: never for an older connection's silence.
HealthyConnectionsStay ==
    [][\A s \in Slots :
          pc[s] = "serving" /\ pc'[s] # "serving" =>
              s \in stop \/ s \in asked \/ proc[s] \in {"mute", "gone"}]_vars

\* A server that stopped answering, once a call was late on it, is let go of.
SilentServersAreLeft ==
    \A s \in Slots : ping[s] = "this" /\ proc[s] = "mute" ~> proc[s] # "mute"

\* Once saves, requests and faults end, every enabled server is connected, and
\* the tasks of the others have ended; a shutdown begun is over; and no connection
\* stays silent.
EveryServerSettles ==
    /\ <>[](down # "up" => down = "done")
    /\ <>[](\A s \in Slots :
               IF s \in {current[n] : n \in Names} /\ key[s] # Off
               THEN phase[s] = "ready" ELSE pc[s] \in {"none", "ended"})
    /\ SilentServersAreLeft
=============================================================================
