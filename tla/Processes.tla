----------------------------- MODULE Processes ------------------------------
(***************************************************************************)
(* The processes of one stdio server (src/backend/src/mcp/mod.rs), and the *)
(* guardian that ends them when the backend ends without doing so          *)
(* (mcp/guardian.rs).  A connection attempt has its process started on a   *)
(* blocking thread, which may come to it, or return, long after the        *)
(* attempt was given up; what the server itself starts shares its process  *)
(* group and may outlive it.                                               *)
(*                                                                         *)
(* Unix only.  Left out: what is written to a process and read from it     *)
(* (Lines, Wire), a group's number given to another program, and why an    *)
(* attempt ends (McpHub).                                                  *)
(***************************************************************************)
EXTENDS Integers, FiniteSets

CONSTANTS
    Attempts,       \* bound: attempts are 1..Attempts
    MaxDeaths       \* bound: guardians that die

Starts == 1..Attempts
NoStart == 0

ASSUME ProcessesAssumption == Attempts \in Nat \ {0} /\ MaxDeaths \in Nat

VARIABLES
    supervisor,     \* what the connection's supervisor does
    attempt,        \* its attempt
    thread,         \* the blocking thread of each start
    stuck,          \* starts that have waited longer than STUCK_START
    handle,         \* who has the child of each start
    group,          \* the live processes of its group
    pid,            \* Slot::pid, the group `kill_group` kills
    groups,         \* Watch::groups
    guardian,       \* Watch::guardian's process
    known,          \* the groups it was told and not told ended
    deaths,
    backend

attemptVars == <<supervisor, attempt, pid>>
startVars == <<thread, stuck>>
childVars == <<handle, group>>
watchVars == <<groups, guardian, known, deaths>>
processVars == <<attemptVars, startVars, childVars, watchVars, backend>>

ProcessesInit ==
    /\ supervisor = "between" /\ attempt = NoStart /\ pid = NoStart
    /\ thread = [s \in Starts |-> "none"] /\ stuck = {}
    /\ handle = [s \in Starts |-> "none"] /\ group = [s \in Starts |-> {}]
    /\ groups = {} /\ guardian = "none" /\ known = {} /\ deaths = 0
    /\ backend = "up"

BackendRuns == backend = "up"

-----------------------------------------------------------------------------
(* The guardian. *)

\* Mutant: a guardian started anew is told the last group only.
TellTheLast(watched) ==
    /\ groups' = watched
    /\ \/ guardian = "up" /\ known' = watched /\ UNCHANGED guardian
       \/ guardian # "up" /\ guardian' = "up" /\ known' = watched \ groups
       \/ guardian # "up" /\ guardian' = "none" /\ known' = {}
    /\ UNCHANGED deaths

\* `tell`: a guardian that is gone, or reads no more, is found so as it is written to;
\* another is started, and told every group, or cannot be.
TellGuardian(watched) ==
    /\ groups' = watched
    /\ \/ guardian = "up" /\ known' = watched /\ UNCHANGED guardian
       \/ guardian # "up" /\ guardian' = "up" /\ known' = watched
       \/ guardian # "up" /\ guardian' = "none" /\ known' = {}
    /\ UNCHANGED deaths

WatchStays == UNCHANGED watchVars

\* A child let go of is no longer watched.
ForgetChildren(gone) == IF gone \cap groups = {} THEN WatchStays ELSE TellGuardian(groups \ gone)

\* GroupKilled, or stopped until its input is full.
GuardianDies ==
    /\ BackendRuns /\ guardian = "up" /\ deaths < MaxDeaths
    /\ guardian' = "dead" /\ known' = {} /\ deaths' = deaths + 1
    /\ UNCHANGED <<groups, attemptVars, startVars, childVars, backend>>

\* The backend ends, killed or on its way out: every handle and input with it.
BackendEnds ==
    /\ BackendRuns
    /\ backend' = "gone"
    /\ UNCHANGED <<attemptVars, startVars, childVars, watchVars>>

\* The script, at the end of its input: time to exit, SIGTERM, time, SIGKILL.
GuardianEndsThem ==
    /\ ~BackendRuns /\ guardian = "up"
    /\ guardian' = "none"
    /\ group' = [s \in Starts |-> IF s \in known THEN {} ELSE group[s]]
    /\ UNCHANGED <<handle, attemptVars, startVars, groups, known, deaths, backend>>

-----------------------------------------------------------------------------
(* A start, on its blocking thread. *)

\* `Starting::begin`: refused while an earlier start of the connection is stuck.
BeginStart ==
    /\ BackendRuns /\ supervisor = "between" /\ attempt < Attempts
    /\ attempt' = attempt + 1
    /\ IF \E s \in stuck : thread[s] # "over"
       THEN supervisor' = "failed" /\ UNCHANGED thread
       ELSE supervisor' = "starting" /\ thread' = [thread EXCEPT ![attempt + 1] = "queued"]
    /\ UNCHANGED <<pid, stuck, childVars, watchVars, backend>>

\* The attempt still waits for what the thread starts.
Awaited(s) == supervisor = "starting" /\ attempt = s

ThreadBegins(s) ==
    /\ BackendRuns /\ thread[s] = "queued"
    /\ thread' = [thread EXCEPT ![s] = IF Awaited(s) THEN "looking" ELSE "over"]
    /\ UNCHANGED <<stuck, attemptVars, childVars, watchVars, backend>>

\* The file system does not answer.
Sticks(s) ==
    /\ BackendRuns /\ thread[s] \in {"queued", "looking"} /\ s \notin stuck
    /\ stuck' = stuck \cup {s}
    /\ UNCHANGED <<thread, attemptVars, childVars, watchVars, backend>>

\* No such command, no such folder.
StartFails(s) ==
    /\ BackendRuns /\ thread[s] = "looking"
    /\ thread' = [thread EXCEPT ![s] = "over"]
    /\ supervisor' = IF Awaited(s) THEN "failed" ELSE supervisor
    /\ UNCHANGED <<stuck, attempt, pid, childVars, watchVars, backend>>

Spawns(s) ==
    /\ BackendRuns /\ thread[s] = "looking"
    /\ thread' = [thread EXCEPT ![s] = "spawned"]
    /\ group' = [group EXCEPT ![s] = {"leader"}]
    /\ UNCHANGED <<stuck, handle, attemptVars, watchVars, backend>>

WatchChild(s) ==
    /\ BackendRuns /\ thread[s] = "spawned"
    /\ thread' = [thread EXCEPT ![s] = "sending"]
    /\ handle' = [handle EXCEPT ![s] = "thread"]
    /\ TellGuardian(groups \cup {s})
    /\ UNCHANGED <<stuck, group, attemptVars, backend>>

\* A child killed with its group as it is let go of (`Started`; an older one abandoned).
DropStarted(s) == [group EXCEPT ![s] = {}]

\* Into the channel; where nobody waits any more the send lets go of it.
SendStarted(s) ==
    /\ BackendRuns /\ thread[s] = "sending"
    /\ thread' = [thread EXCEPT ![s] = "over"]
    /\ IF Awaited(s)
       THEN handle' = [handle EXCEPT ![s] = "channel"] /\ UNCHANGED group /\ WatchStays
       ELSE handle' = [handle EXCEPT ![s] = "gone"] /\ group' = DropStarted(s) /\ ForgetChildren({s})
    /\ UNCHANGED <<stuck, attemptVars, backend>>

\* What the server does: a helper of its own, or its end, before or after the helper's.
ProcessForks(s) ==
    /\ "leader" \in group[s]
    /\ group' = [group EXCEPT ![s] = @ \cup {"helper"}]
    /\ UNCHANGED <<handle, attemptVars, startVars, watchVars, backend>>

ProcessExits(s) ==
    /\ \E one \in group[s] : group' = [group EXCEPT ![s] = @ \ {one}]
    /\ UNCHANGED <<handle, attemptVars, startVars, watchVars, backend>>

-----------------------------------------------------------------------------
(* The attempt, and its connection. *)

TakeStarted ==
    /\ BackendRuns /\ supervisor = "starting" /\ handle[attempt] = "channel"
    /\ handle' = [handle EXCEPT ![attempt] = "transport"]
    /\ pid' = attempt
    /\ supervisor' = "connecting"
    /\ UNCHANGED <<attempt, group, startVars, watchVars, backend>>

\* Children of earlier attempts nobody came to end.
Abandoned == {s \in Starts : handle[s] = "abandoned"}

\* What becomes of the attempt's child when its future is dropped: left in the channel it
\* is killed; the transport's is kept for `end_attempt`, in place of an older one.
LetGo(next) ==
    LET left == IF handle[attempt] = "channel" THEN {attempt}
                ELSE IF handle[attempt] = "transport" THEN Abandoned ELSE {} IN
    /\ handle' = [s \in Starts |->
          IF s \in left THEN "gone"
          ELSE IF s = attempt /\ handle[s] = "transport" THEN "abandoned" ELSE handle[s]]
    /\ group' = [s \in Starts |-> IF s \in left THEN DropStarted(s)[s] ELSE next[s]]
    /\ ForgetChildren(left)

\* Stopped, asked to reconnect, past its limit, or failed in its initialization.
AttemptGivenUp ==
    /\ BackendRuns /\ supervisor \in {"starting", "connecting"}
    /\ supervisor' = "failed"
    /\ LetGo(group)
    /\ UNCHANGED <<attempt, pid, startVars, backend>>

ConnectionMade ==
    /\ BackendRuns /\ supervisor = "connecting"
    /\ supervisor' = "connected"
    /\ UNCHANGED <<attempt, pid, startVars, childVars, watchVars, backend>>

\* Stopped, asked again, lost, or its tools not listed.  The process's own end is not
\* always the end of its output: it is seen (unreaped, `receive`), and where nobody
\* answers on the output then the connection is lost.
ConnectionEnds ==
    /\ BackendRuns /\ supervisor = "connected"
    /\ supervisor' = "closing"
    /\ handle' = [handle EXCEPT ![attempt] = IF @ = "transport" THEN "closing" ELSE @]
    /\ UNCHANGED <<attempt, pid, group, startVars, watchVars, backend>>

\* `end_process`: time to exit, SIGTERM, time, SIGKILL to the group.  It returns with
\* the leader gone; what the leader left may live where the leader went by itself.
EndProcess(s) ==
    /\ BackendRuns /\ handle[s] \in {"closing", "ending"}
    /\ handle' = [handle EXCEPT ![s] = "gone"]
    /\ \E left \in SUBSET (group[s] \ {"leader"}) : group' = [group EXCEPT ![s] = left]
    /\ ForgetChildren({s})
    /\ UNCHANGED <<attemptVars, startVars, backend>>

\* `end_attempt` takes what the attempt left.
TakeAbandoned ==
    /\ BackendRuns /\ supervisor = "failed" /\ Abandoned # {}
    /\ supervisor' = "ending"
    /\ handle' = [s \in Starts |-> IF s \in Abandoned THEN "ending" ELSE handle[s]]
    /\ UNCHANGED <<attempt, pid, group, startVars, watchVars, backend>>

KillGroup == [s \in Starts |-> IF s = pid THEN {} ELSE group[s]]

\* The last step of `close`, which waits CLOSE_SECS at most, and of `end_attempt`.
GroupKilled ==
    /\ BackendRuns
    /\ \/ supervisor = "closing"
       \/ supervisor = "failed" /\ Abandoned = {}
       \/ supervisor = "ending" /\ \A s \in Starts : handle[s] # "ending"
    /\ group' = KillGroup /\ pid' = NoStart
    /\ supervisor' = "between"
    /\ UNCHANGED <<attempt, handle, startVars, watchVars, backend>>

\* A supervisor that panics: what it held is let go of, its group killed; the next
\* request for the server starts another.
SupervisorPanics ==
    /\ BackendRuns /\ supervisor \in {"starting", "connecting", "connected"}
    /\ supervisor' = "between" /\ pid' = NoStart
    /\ IF supervisor = "connected"
       THEN /\ handle' = [handle EXCEPT ![attempt] = IF @ = "transport" THEN "closing" ELSE @]
            /\ group' = KillGroup
            /\ WatchStays
       ELSE LetGo(KillGroup)
    /\ UNCHANGED <<attempt, startVars, backend>>

ProcessesNext ==
    \/ GuardianDies \/ BackendEnds \/ GuardianEndsThem
    \/ BeginStart \/ TakeStarted \/ AttemptGivenUp \/ ConnectionMade \/ ConnectionEnds
    \/ TakeAbandoned \/ GroupKilled \/ SupervisorPanics
    \/ \E s \in Starts :
          \/ ThreadBegins(s) \/ Sticks(s) \/ StartFails(s) \/ Spawns(s) \/ WatchChild(s) \/ SendStarted(s)
          \/ ProcessForks(s) \/ ProcessExits(s) \/ EndProcess(s)

ProcessesSpec == ProcessesInit /\ [][ProcessesNext]_processVars

-----------------------------------------------------------------------------
(* Properties. *)

\* The children the backend holds, each told of.
Held == {s \in Starts : handle[s] \notin {"none", "gone"}}

\* Whatever attempts were given up, panicked or came late, a live process of the server
\* always has someone who will end it: its thread, its attempt, or the group kill that
\* follows (mod.rs Started, end_attempt, kill_group); and a guardian that lives, whichever
\* it is, ends those the backend held when it ended, and no other (guardian.rs tell).
NoProcessIsLost ==
    /\ backend = "up" => \A s \in Starts : group[s] # {} => thread[s] = "spawned" \/ s \in Held \/ pid = s
    /\ guardian = "up" => known = Held

=============================================================================
