-------------------------------- MODULE Pools --------------------------------
(***************************************************************************)
(* How a query run comes to a pool of its target's sessions                *)
(* (src/backend/src/oracle.rs, load_by, pool, close_idle and close_later). *)
(* The client library is loaded once per process, on a thread, while the   *)
(* runs that need it wait to be told it ended.  A pool is made for the     *)
(* settings a run has read, in place of one made for others; it is closed  *)
(* on a thread of its own, or as the last run that holds it lets go.       *)
(* One target: pools of several share nothing but the list of those that   *)
(* wait for a thread.  What a run does with its session is in QueryRuns.   *)
(***************************************************************************)
EXTENDS Integers, FiniteSets

CONSTANTS
    PoolRuns,      \* runs of registered queries
    TargetRows,     \* what the target's row and the query limit may say
    MaxPools,      \* bound: pools made are 1..MaxPools
    NoPool

Made == 1..MaxPools

ASSUME PoolsAssumption ==
    MaxPools \in Nat /\ NoPool \notin Made /\ NoPool \notin TargetRows /\ PoolRuns \cap {"map", "closing", "waiting"} = {}

VARIABLES
    client,        \* Oracle::client: unset, loaded or why not
    loading,       \* Oracle::loading
    loadThread,    \* the thread of the load each run began
    panicked,      \* a load has panicked
    runAt,         \* where each run is
    notified,      \* runs listening that were told
    targetRow,     \* the settings registered
    readRow,       \* those each run has read
    poolListed,    \* Oracle::pools: the target's pool
    madeFor,       \* the settings each pool was made with
    owners,        \* the references to each pool: runs, "map", "closing" and "waiting"
    closedBy       \* who closed it, letting the last one go

loadVars == <<client, loading, loadThread, panicked, notified>>
poolListVars == <<poolListed, madeFor, owners, closedBy>>
poolsVars == <<loadVars, runAt, targetRow, readRow, poolListVars>>

PoolsTypeOK ==
    /\ client \in {"unset", "loaded", "failed"}
    /\ loading \in BOOLEAN /\ panicked \in BOOLEAN
    /\ loadThread \in [PoolRuns -> {"none", "loading", "ending", "telling", "over"}]
    /\ runAt \in [PoolRuns -> {"begins", "row", "listening", "unset", "swapped", "waiting",
                               "loaded", "pooled", "done", "unavailable", "stopped"}]
    /\ notified \subseteq PoolRuns
    /\ targetRow \in TargetRows /\ readRow \in [PoolRuns -> TargetRows]
    /\ poolListed \in Made \cup {NoPool}
    /\ madeFor \in [Made -> TargetRows \cup {NoPool}]
    /\ owners \in [Made -> SUBSET (PoolRuns \cup {"map", "closing", "waiting"})]
    /\ closedBy \in [Made -> {"nobody", "thread", "run"}]

PoolsInit ==
    /\ client = "unset" /\ loading = FALSE /\ panicked = FALSE
    /\ loadThread = [r \in PoolRuns |-> "none"]
    /\ runAt = [r \in PoolRuns |-> "begins"]
    /\ notified = {}
    /\ targetRow \in TargetRows
    /\ readRow = [r \in PoolRuns |-> targetRow]
    /\ poolListed = NoPool
    /\ madeFor = [p \in Made |-> NoPool]
    /\ owners = [p \in Made |-> {}]
    /\ closedBy = [p \in Made |-> "nobody"]

RunGoes(r, at) == runAt' = [runAt EXCEPT ![r] = at]

-----------------------------------------------------------------------------
(* The settings, and the client library. *)

\* An administrator saves the target's row, or the query limit.
SaveTarget ==
    /\ targetRow' \in TargetRows \ {targetRow}
    /\ UNCHANGED <<loadVars, runAt, readRow, poolListVars>>

\* `load_target_db`, and the limit of the question's own settings.
ReadTarget(r) ==
    /\ runAt[r] = "begins"
    /\ readRow' = [readRow EXCEPT ![r] = targetRow]
    /\ RunGoes(r, "row")
    /\ UNCHANGED <<loadVars, targetRow, poolListVars>>

\* `ended.enable()`, before the state is read.
Listen(r) ==
    /\ runAt[r] = "row"
    /\ RunGoes(r, "listening")
    /\ notified' = notified \ {r}
    /\ UNCHANGED <<client, loading, loadThread, panicked, targetRow, readRow, poolListVars>>

ClientKnown(r) == IF client = "loaded" THEN "loaded" ELSE "unavailable"

ReadClient(r) ==
    /\ runAt[r] = "listening"
    /\ RunGoes(r, IF client = "unset" THEN "unset" ELSE ClientKnown(r))
    /\ UNCHANGED <<loadVars, targetRow, readRow, poolListVars>>

\* `loading.swap`: the one that finds no load under way begins it.
BeginLoad(r) ==
    /\ runAt[r] = "unset"
    /\ RunGoes(r, "swapped")
    /\ loading' = TRUE
    /\ loadThread' = IF loading THEN loadThread ELSE [loadThread EXCEPT ![r] = "loading"]
    /\ UNCHANGED <<client, panicked, notified, targetRow, readRow, poolListVars>>

\* `ended.await`.
AwaitLoad(r) ==
    /\ runAt[r] = "swapped"
    /\ RunGoes(r, "waiting")
    /\ UNCHANGED <<loadVars, targetRow, readRow, poolListVars>>

\* `get_or_init` on the thread: loads a client that is still unset, or panics.
Load(r) ==
    /\ loadThread[r] = "loading"
    /\ \/ client = "unset" /\ client' \in {"loaded", "failed"} /\ UNCHANGED panicked
       \/ client # "unset" /\ UNCHANGED <<client, panicked>>
       \/ client = "unset" /\ panicked' = TRUE /\ UNCHANGED client
    /\ loadThread' = [loadThread EXCEPT ![r] = "ending"]
    /\ UNCHANGED <<loading, notified, runAt, targetRow, readRow, poolListVars>>

\* `Ending`'s drop: the flag, then those who listen by now.
LoadingOff(r) ==
    /\ loadThread[r] = "ending"
    /\ loading' = FALSE
    /\ loadThread' = [loadThread EXCEPT ![r] = "telling"]
    /\ UNCHANGED <<client, panicked, notified, runAt, targetRow, readRow, poolListVars>>

\* Mutant: a run listens from its wait on.
ListeningOnceWaiting == {r \in PoolRuns : runAt[r] = "waiting"}

\* A run listens from before it reads the state.
Listening == {r \in PoolRuns : runAt[r] \in {"listening", "unset", "swapped", "waiting"}}

TellListeners(r) ==
    /\ loadThread[r] = "telling"
    /\ notified' = notified \cup Listening
    /\ loadThread' = [loadThread EXCEPT ![r] = "over"]
    /\ UNCHANGED <<client, loading, panicked, runAt, targetRow, readRow, poolListVars>>

Told(r) ==
    /\ runAt[r] = "waiting" /\ r \in notified
    /\ RunGoes(r, ClientKnown(r))
    /\ UNCHANGED <<loadVars, targetRow, readRow, poolListVars>>

\* A stop, seen as the row is read or the load waited for.
StopRun(r) ==
    /\ runAt[r] \in {"begins", "row", "waiting"}
    /\ RunGoes(r, "stopped")
    /\ UNCHANGED <<loadVars, targetRow, readRow, poolListVars>>

-----------------------------------------------------------------------------
(* The pool. *)

Waiting == {p \in Made : "waiting" \in owners[p]}

\* `close_later`: those given and those that wait go to a thread, or wait for one.
CloseLater(own, gone) ==
    /\ \E to \in {"closing", "waiting"} :
          owners' = [p \in Made |-> IF p \in gone \cup Waiting THEN (own[p] \ {"map", "waiting"}) \cup {to} ELSE own[p]]
    /\ UNCHANGED closedBy

\* `pool`, under the lock of the list: the pool listed if it is of the settings read,
\* else another in its place.
TakePool(r) ==
    /\ runAt[r] = "loaded"
    /\ IF poolListed # NoPool /\ madeFor[poolListed] = readRow[r]
         THEN /\ owners' = [owners EXCEPT ![poolListed] = @ \cup {r}]
              /\ UNCHANGED <<poolListed, madeFor, closedBy>>
         ELSE \E p \in Made :
              /\ \A o \in Made : o < p <=> madeFor[o] # NoPool
              /\ madeFor' = [madeFor EXCEPT ![p] = readRow[r]]
              /\ poolListed' = p
              /\ LET own == [owners EXCEPT ![p] = {"map", r}] IN
                 IF poolListed = NoPool THEN owners' = own /\ UNCHANGED closedBy ELSE CloseLater(own, {poolListed})
    /\ RunGoes(r, "pooled")
    /\ UNCHANGED <<loadVars, targetRow, readRow>>

\* The builder refuses.
PoolNotMade(r) ==
    /\ runAt[r] = "loaded" /\ ~(poolListed # NoPool /\ madeFor[poolListed] = readRow[r])
    /\ RunGoes(r, "unavailable")
    /\ UNCHANGED <<loadVars, targetRow, readRow, poolListVars>>

\* The run's thread is over: where it held the last reference the pool closes here.
LetPoolGo(r) ==
    /\ runAt[r] = "pooled"
    /\ RunGoes(r, "done")
    /\ owners' = [p \in Made |-> owners[p] \ {r}]
    /\ closedBy' = [p \in Made |-> IF owners[p] = {r} THEN "run" ELSE closedBy[p]]
    /\ UNCHANGED <<loadVars, targetRow, readRow, poolListed, madeFor>>

\* Housekeeping, once no run has taken the pool for POOL_IDLE; one may still hold it.
CloseIdle ==
    /\ poolListed # NoPool
    /\ poolListed' = NoPool
    /\ CloseLater(owners, {poolListed})
    /\ UNCHANGED <<loadVars, runAt, targetRow, readRow, madeFor>>

\* The closing thread: closes a pool nobody else holds, or leaves it to who does.
ClosePool(p) ==
    /\ "closing" \in owners[p]
    /\ owners' = [owners EXCEPT ![p] = @ \ {"closing"}]
    /\ closedBy' = [closedBy EXCEPT ![p] = IF owners[p] = {"closing"} THEN "thread" ELSE @]
    /\ UNCHANGED <<loadVars, runAt, targetRow, readRow, poolListed, madeFor>>

PoolsNext ==
    \/ SaveTarget \/ CloseIdle
    \/ \E p \in Made : ClosePool(p)
    \/ \E r \in PoolRuns :
          \/ ReadTarget(r) \/ Listen(r) \/ ReadClient(r) \/ BeginLoad(r) \/ AwaitLoad(r) \/ Told(r) \/ StopRun(r)
          \/ Load(r) \/ LoadingOff(r) \/ TellListeners(r)
          \/ TakePool(r) \/ PoolNotMade(r) \/ LetPoolGo(r)

PoolsSpec == PoolsInit /\ [][PoolsNext]_poolsVars

-----------------------------------------------------------------------------
(* Properties. *)

\* A run that waits for the client library will be told that its load ended.
LoadersAreTold ==
    \A r \in PoolRuns : runAt[r] = "waiting" /\ r \notin notified =>
        \E l \in PoolRuns : loadThread[l] \in {"loading", "ending", "telling"}

\* A run's pool is of the settings it has read and open; one nobody holds is closed.
PoolsAreLetGo ==
    \A p \in Made :
        /\ closedBy[p] # "nobody" <=> madeFor[p] # NoPool /\ owners[p] = {}
        /\ \A r \in owners[p] \cap PoolRuns : madeFor[p] = readRow[r]

\* Whatever loads fail, settings change, threads cannot start and pools go idle: no run
\* waits for a load nobody will tell it of, and none has a pool that is closed or of
\* other settings, nor is a pool left open with nobody to close it (oracle.rs load_by,
\* pool, close_later_with).
RunsComeToAPool == LoadersAreTold /\ PoolsAreLetGo

=============================================================================
