----------------------------- MODULE QueryRuns ------------------------------
(***************************************************************************)
(* A registered query run for the model: refused when the question ran it  *)
(* already (src/backend/src/voc_tools.rs, query_run), else run on a session *)
(* of the target's pool, on a blocking thread, while its waiter watches for *)
(* a stop and breaks the statement (src/backend/src/oracle.rs, run).        *)
(* Two runs of one identity share a `Sig`: calls spelled differently (the   *)
(* only target named or left out) may be one run.                           *)
(***************************************************************************)
EXTENDS Question

CONSTANTS
    Sig,           \* the identity of the run each call asks for
    Routines,      \* the calls that run a routine, with a cursor, and not a query
    Sessions,      \* the pool's sessions (POOL_MAX of them)
    NoSession, NoRun

ASSUME RunAssumption ==
    Routines \subseteq Calls /\ NoSession \notin Sessions /\ NoRun \notin Calls

Sigs == {Sig[i] : i \in Calls}

VARIABLES
    runPc,         \* where each run is; "held" to "leaving" on its own thread
    session,       \* the session the run holds
    inSlot,        \* the runs whose session a stop can find and break
    thread,        \* what the thread of the run came to
    stopper,       \* the waiter: waits, took the session to break it, broke, gone on
    runOut,        \* what the run gives the batch
    sess,          \* the pool's sessions: unmade, pooled or used
    fresh,         \* runs whose session was made for them
    formats,       \* sessions whose date and number formats were fixed
    breaks,        \* sessions a break is on: their next call ends with it
    dirty,         \* sessions with a transaction or a cursor open
    started,       \* identities this response's calls have started
    executed,      \* the question's runs: identity -> its stored run
    kept           \* stored runs whose rows the conversation still keeps

runVars == <<runPc, session, inSlot, thread, stopper, runOut, sess, fresh,
             formats, breaks, dirty, started, executed, kept>>

RunTypeOK ==
    /\ runPc \in [Calls -> {"idle", "lookup", "preparing", "waiting", "held", "formats",
                            "working", "cleaning", "leaving", "ended", "done"}]
    /\ session \in [Calls -> Sessions \cup {NoSession}]
    /\ inSlot \subseteq Calls /\ fresh \subseteq Calls
    /\ thread \in [Calls -> {"none", "ok", "failed", "cancelled"}]
    /\ stopper \in [Calls -> {"waits", "took", "broke", "gone"}]
    /\ runOut \in [Calls -> {"none", "stored", "failed", "error", "refused", "cancelled"}]
    /\ sess \in [Sessions -> {"unmade", "pooled", "used"}]
    /\ formats \subseteq Sessions /\ breaks \subseteq Sessions /\ dirty \subseteq Sessions
    /\ started \subseteq Sigs
    /\ executed \in [Sigs -> Calls \cup {NoRun}]
    /\ kept \subseteq Calls

RunInit ==
    /\ runPc = [i \in Calls |-> "idle"]
    /\ session = [i \in Calls |-> NoSession]
    /\ inSlot = {} /\ fresh = {}
    /\ thread = [i \in Calls |-> "none"]
    /\ stopper = [i \in Calls |-> "waits"]
    /\ runOut = [i \in Calls |-> "none"]
    /\ sess = [s \in Sessions |-> "unmade"]
    /\ formats = {} /\ breaks = {} /\ dirty = {}
    /\ started = {}
    /\ executed = [g \in Sigs |-> NoRun]
    /\ kept = {}

Goes(i, at) == runPc' = [runPc EXCEPT ![i] = at]

Gives(i, what) == Goes(i, "done") /\ runOut' = [runOut EXCEPT ![i] = what]

poolVars == <<sess, fresh, formats, breaks, dirty>>
onceVars == <<started, executed, kept>>
-----------------------------------------------------------------------------
\* `query_run` before the target: stopped, the registry not read or without the query.
RunStart(i) ==
    /\ runPc[i] = "idle"
    /\ Goes(i, "lookup")
    /\ UNCHANGED <<session, inSlot, thread, stopper, runOut, poolVars, onceVars>>

RunNotFound(i) ==
    /\ runPc[i] = "lookup"
    /\ \/ cancel /\ Gives(i, "cancelled")
       \/ Gives(i, "error")
    /\ UNCHANGED <<session, inSlot, thread, stopper, poolVars, onceVars>>

\* Mutant: only the runs of earlier responses.
RepeatsEarlier(i) == executed[Sig[i]] # NoRun /\ executed[Sig[i]] \in kept

\* This question ran it and keeps its rows, or this response has started it.
Repeats(i) ==
    \/ executed[Sig[i]] # NoRun /\ executed[Sig[i]] \in kept
    \/ Sig[i] \in started

RunFound(i) ==
    /\ runPc[i] = "lookup"
    /\ IF Repeats(i)
         THEN Gives(i, "refused") /\ UNCHANGED started
         ELSE /\ Goes(i, "preparing")
              /\ started' = started \cup {Sig[i]}
              /\ UNCHANGED runOut
    /\ UNCHANGED <<session, inSlot, thread, stopper, poolVars, executed, kept>>

\* `run`: the routine, its binds, its target's registration, the client library.
RunPrepared(i) ==
    /\ runPc[i] = "preparing"
    /\ \/ cancel /\ Gives(i, "cancelled")
       \/ Gives(i, "failed")
       \/ Goes(i, "waiting") /\ UNCHANGED runOut
    /\ UNCHANGED <<session, inSlot, thread, stopper, poolVars, onceVars>>
-----------------------------------------------------------------------------
\* The thread of the run.

\* A session of the pool, or one made for the run; none within the time limit.
GetSession(i) ==
    /\ runPc[i] = "waiting"
    /\ \E s \in Sessions :
         /\ sess[s] = IF \E t \in Sessions : sess[t] = "pooled" THEN "pooled" ELSE "unmade"
         /\ sess' = [sess EXCEPT ![s] = "used"]
         /\ fresh' = IF sess[s] = "unmade" THEN fresh \cup {i} ELSE fresh
         /\ session' = [session EXCEPT ![i] = s]
    /\ inSlot' = inSlot \cup {i}
    /\ Goes(i, "held")
    /\ UNCHANGED <<thread, stopper, runOut, formats, breaks, dirty, onceVars>>

NoSessionFree(i) ==
    /\ runPc[i] = "waiting"
    /\ Goes(i, "ended")
    /\ thread' = [thread EXCEPT ![i] = "failed"]
    /\ UNCHANGED <<session, inSlot, stopper, runOut, poolVars, onceVars>>

\* The session is closed, its break with it, and the pool may make another.
Drop(i) ==
    LET s == session[i] IN
    /\ sess' = [sess EXCEPT ![s] = "unmade"]
    /\ formats' = formats \ {s} /\ breaks' = breaks \ {s} /\ dirty' = dirty \ {s}
    /\ session' = [session EXCEPT ![i] = NoSession]
    /\ stopper' = [stopper EXCEPT ![i] = IF @ = "took" THEN "gone" ELSE @]

\* Stopped while it waited for its session: the session may be broken, and is closed.
CheckStopped(i) ==
    /\ runPc[i] = "held"
    /\ IF cancel
         THEN /\ inSlot' = inSlot \ {i}
              /\ Drop(i)
              /\ Goes(i, "ended")
              /\ thread' = [thread EXCEPT ![i] = "cancelled"]
         ELSE /\ Goes(i, IF i \in fresh THEN "formats" ELSE "working")
              /\ UNCHANGED <<session, inSlot, thread, stopper, sess, formats, breaks, dirty>>
    /\ UNCHANGED <<runOut, fresh, onceVars>>

\* A new session's formats; an error, a break too, leaves the target's own.
SetFormats(i) ==
    /\ runPc[i] = "formats"
    /\ \/ session[i] \notin breaks /\ formats' = formats \cup {session[i]}
       \/ UNCHANGED formats
    /\ breaks' = breaks \ {session[i]}
    /\ Goes(i, "working")
    /\ UNCHANGED <<session, inSlot, thread, stopper, runOut, sess, fresh, dirty, onceVars>>

\* `execute`: a break, its call timeout or an error of its own fails the statement.
Work(i) ==
    /\ runPc[i] = "working"
    /\ \/ session[i] \notin breaks /\ thread' = [thread EXCEPT ![i] = "ok"]
       \/ thread' = [thread EXCEPT ![i] = "failed"]
    /\ breaks' = breaks \ {session[i]}
    /\ dirty' = IF i \in Routines THEN dirty \cup {session[i]} ELSE dirty
    /\ Goes(i, "cleaning")
    /\ UNCHANGED <<session, inSlot, stopper, runOut, sess, fresh, formats, onceVars>>

\* Mutant: a failed routine's session is cleaned as any other.
MustDropNone(i) == FALSE

\* A failed routine may have left its cursor open: not cleaned, but closed.
MustDrop(i) == i \in Routines /\ thread[i] = "failed"

\* The rollback of a routine and the output buffer cleared (neither closes a cursor);
\* either may fail, of a break or by itself, and the session is then closed.
Clean(i) ==
    /\ runPc[i] = "cleaning"
    /\ \/ /\ ~MustDrop(i) /\ session[i] \notin breaks
          /\ dirty' = IF thread[i] = "ok" THEN dirty \ {session[i]} ELSE dirty
          /\ Goes(i, "leaving")
          /\ UNCHANGED <<session, inSlot, stopper, sess, formats, breaks>>
       \/ /\ inSlot' = inSlot \ {i}
          /\ Drop(i)
          /\ Goes(i, "ended")
    /\ UNCHANGED <<thread, runOut, fresh, onceVars>>

\* Out of the slot; back in the pool once a stop that took it lets it go.
Leave(i) ==
    /\ runPc[i] = "leaving"
    /\ inSlot' = inSlot \ {i}
    /\ sess' = [sess EXCEPT ![session[i]] = IF stopper[i] = "took" THEN "used" ELSE "pooled"]
    /\ session' = [session EXCEPT ![i] = IF stopper[i] = "took" THEN @ ELSE NoSession]
    /\ Goes(i, "ended")
    /\ UNCHANGED <<thread, stopper, runOut, fresh, formats, breaks, dirty, onceVars>>
-----------------------------------------------------------------------------
\* The waiter of the run.
OnThread(i) == runPc[i] \in {"waiting", "held", "formats", "working", "cleaning",
                             "leaving", "ended"}

\* A stop: the session in the slot, if there is one, is taken to be broken.
TakeSession(i) ==
    /\ cancel /\ OnThread(i) /\ stopper[i] = "waits"
    /\ stopper' = [stopper EXCEPT ![i] = IF i \in inSlot THEN "took" ELSE "gone"]
    /\ UNCHANGED <<runPc, session, inSlot, thread, runOut, poolVars, onceVars>>

Break(i) ==
    /\ stopper[i] = "took"
    /\ stopper' = [stopper EXCEPT ![i] = "broke"]
    /\ breaks' = breaks \cup {session[i]}
    /\ IF runPc[i] = "ended"
         THEN /\ sess' = [sess EXCEPT ![session[i]] = "pooled"]
              /\ session' = [session EXCEPT ![i] = NoSession]
         ELSE UNCHANGED <<sess, session>>
    /\ UNCHANGED <<runPc, inSlot, thread, runOut, fresh, formats, dirty, onceVars>>

\* The thread is joined: a stopped run is cancelled whatever it came to.
Joined(i) ==
    /\ runPc[i] = "ended" /\ stopper[i] # "took"
    /\ Gives(i, IF stopper[i] # "waits" \/ thread[i] = "cancelled" THEN "cancelled"
                ELSE IF thread[i] = "ok" THEN "stored" ELSE "failed")
    /\ UNCHANGED <<session, inSlot, thread, stopper, poolVars, onceVars>>

QueryRun(i) ==
    \/ RunStart(i) \/ RunNotFound(i) \/ RunFound(i) \/ RunPrepared(i)
    \/ TakeSession(i) \/ Break(i) \/ Joined(i)

QueryThread(i) ==
    \/ GetSession(i) \/ NoSessionFree(i) \/ CheckStopped(i) \/ SetFormats(i)
    \/ Work(i) \/ Clean(i) \/ Leave(i)
-----------------------------------------------------------------------------
\* What a response's runs leave once its batch is over: their sessions, no more.
Forget(runs) ==
    /\ runPc' = [i \in Calls |-> IF i \in runs THEN "idle" ELSE runPc[i]]
    /\ thread' = [i \in Calls |-> IF i \in runs THEN "none" ELSE thread[i]]
    /\ stopper' = [i \in Calls |-> IF i \in runs THEN "waits" ELSE stopper[i]]
    /\ runOut' = [i \in Calls |-> IF i \in runs THEN "none" ELSE runOut[i]]
    /\ fresh' = fresh \ runs
-----------------------------------------------------------------------------
\* A session that goes back to the pool is free and leaves nothing of its run behind:
\* no transaction, no cursor of a routine that failed, was stopped or timed out (a
\* pool gathered one open cursor per failure, ORA-01000 for everyone), and no run,
\* nor a stop about to break it, that still holds it.
PooledSessionsAreFree ==
    \A s \in Sessions :
        sess[s] = "pooled" => s \notin dirty /\ \A i \in Calls : session[i] # s

=============================================================================
