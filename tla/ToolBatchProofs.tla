---------------------------- MODULE ToolBatchProofs ----------------------------
(***************************************************************************)
(* Proofs about ToolBatch, for any calls, batches, connections and          *)
(* sessions: what an MCP call says of its effect, what a run leaves in the  *)
(* pool, that a query runs once, and that a batch leaves nothing open.      *)
(***************************************************************************)
EXTENDS ToolBatch, FiniteSetTheorems, TLAPS

\* The results that do not tell the model the call had no effect.
Said == {"ok", "answered", "maybe", "cancelled_maybe", "panicked"}

\* What a call's place says of its request, and its result of where that went.
McpKnown ==
    \A i \in Calls :
        /\ mcpPc[i] \in {"idle", "queued", "sending"} => wire[i] = "out"
        /\ mcpPc[i] = "sent" => wire[i] = "sent"
        /\ i \in ran => wire[i] = "sent"
        /\ mcpPc[i] = "done" /\ wire[i] = "sent" => outcome[i] \in Said

McpInv == McpTypeOK /\ McpKnown

\* No call is made yet.
LEMMA McpInitInv == McpInit => McpInv
BY McpAssumption DEF McpInit, McpInv, McpTypeOK, McpKnown

\* A call's own step, and nobody else's.
LEMMA McpTaskKeeps ==
    ASSUME McpInv, NEW i \in Calls, McpTask(i)
    PROVE  /\ McpInv'
           /\ \A j \in Calls \ {i} : mcpPc'[j] = mcpPc[j] /\ outcome'[j] = outcome[j]
           /\ UNCHANGED <<conn, up>>
<1>. USE McpAssumption DEF McpInv
<1>1. CASE McpStart(i)
  BY <1>1, McpAssumption DEF McpStart, End, McpTypeOK, McpKnown, Ends, Said
<1>2. CASE McpCarry(i) \/ McpSend(i)
  BY <1>2 DEF McpCarry, McpSend, End, McpTypeOK, McpKnown, Ends, Said
<1>3. CASE McpUnsent(i)
  BY <1>3 DEF McpUnsent, End, McpTypeOK, McpKnown, Ends, Said
<1>4. CASE McpAnswer(i) \/ McpCut(i) \/ McpStop(i) \/ McpOverdue(i)
  BY <1>4 DEF McpAnswer, McpCut, McpStop, McpOverdue, End, McpTypeOK, McpKnown, Ends, Said
<1>5. CASE McpRefused(i)
  BY <1>5 DEF McpRefused, End, McpTypeOK, McpKnown, Ends, Said
<1>6. CASE McpPanics(i)
  BY <1>6 DEF McpPanics, End, McpTypeOK, McpKnown, Ends, Said
<1>. QED  BY <1>1, <1>2, <1>3, <1>4, <1>5, <1>6 DEF McpTask

\* The connection ends or is made, the server runs a tool: no call's place changes.
LEMMA McpWorldKeeps ==
    ASSUME McpInv, McpWorld
    PROVE  McpInv' /\ UNCHANGED <<mcpPc, outcome>>
<1>1. CASE ConnEnds \/ ConnMade
  <2>1. UNCHANGED <<mcpPc, held, wire, ran, outcome>> /\ up' \in BOOLEAN
    BY <1>1 DEF ConnEnds, ConnMade
  <2>2. conn' \in 0..Conns
    BY <1>1, McpAssumption DEF ConnEnds, ConnMade, McpInv, McpTypeOK
  <2>. QED  BY <2>1, <2>2 DEF McpInv, McpTypeOK, McpKnown
<1>2. CASE \E i \in Calls : ServerRuns(i)
  BY <1>2 DEF ServerRuns, McpInv, McpTypeOK, McpKnown
<1>. QED  BY <1>1, <1>2 DEF McpWorld

\* Steps of the rest of the batch leave the MCP calls alone.
LEMMA McpStays == McpInv /\ UNCHANGED mcpVars => McpInv'
BY DEF McpInv, mcpVars, McpTypeOK, McpKnown

\* A request the server ran was sent, and what was sent is said.
LEMMA KnownIsSaid == McpInv => EffectIsSaid
BY DEF McpInv, McpTypeOK, McpKnown, Said, EffectIsSaid

\* By themselves, against any connections, stops and panics, MCP calls say what they
\* may have done (mcp/mod.rs Offered::call_inner).
THEOREM CallsSayTheirEffect == McpSpec => []EffectIsSaid
<1>1. McpInv /\ [McpNext]_<<cancel, mcpVars>> => McpInv'
  BY McpTaskKeeps, McpWorldKeeps, McpStays DEF McpNext
<1>. QED  BY <1>1, McpInitInv, KnownIsSaid, PTL DEF McpSpec

-----------------------------------------------------------------------------
\* The places of a run whose thread has a session in its slot.
OnSession == {"held", "formats", "working", "cleaning", "leaving"}

RunTypes ==
    /\ runPc \in [Calls -> {"idle", "lookup", "preparing", "waiting", "held", "formats",
                            "working", "cleaning", "leaving", "ended", "done"}]
    /\ session \in [Calls -> Sessions \cup {NoSession}]
    /\ inSlot \subseteq Calls /\ fresh \subseteq Calls
    /\ thread \in [Calls -> {"none", "ok", "failed", "cancelled"}]
    /\ stopper \in [Calls -> {"waits", "took", "broke", "gone"}]
    /\ runOut \in [Calls -> {"none", "stored", "failed", "error", "refused", "cancelled"}]
    /\ sess \in [Sessions -> {"unmade", "pooled", "used"}]
    /\ formats \subseteq Sessions /\ breaks \subseteq Sessions /\ dirty \subseteq Sessions
    /\ kept \subseteq Calls

\* A session is in the slot while its thread works on it, and is held on only by a
\* stop that took it.
SlotOK ==
    \A i \in Calls :
        /\ i \in inSlot <=> runPc[i] \in OnSession
        /\ session[i] # NoSession <=> i \in inSlot \/ stopper[i] = "took"
        /\ stopper[i] = "took" => i \in inSlot \/ runPc[i] = "ended"
        /\ runPc[i] = "cleaning" => thread[i] \in {"ok", "failed"}
        /\ runOut[i] # "none" <=> runPc[i] = "done"

\* A session a run holds is used, and its alone.
HeldOK ==
    /\ \A i \in Calls : session[i] # NoSession => sess[session[i]] = "used"
    /\ \A i, j \in Calls : session[i] = session[j] /\ session[i] # NoSession => i = j

\* Only a routine that is about to be cleaned leaves something in its session.
DirtyOK == \A s \in dirty : \E i \in Routines : session[i] = s /\ runPc[i] = "cleaning"

RunInv == RunTypes /\ SlotOK /\ HeldOK /\ DirtyOK

\* What runs was started by this response, and is not of what an earlier one kept.
OnceOK ==
    \A i \in Calls : Runs(i) =>
        /\ Sig[i] \in started /\ executed[Sig[i]] \notin kept
        /\ \A j \in Calls : Runs(j) /\ Sig[j] = Sig[i] => i = j

\* No session is made.
LEMMA RunInitInv == RunInit => RunInv
BY RunAssumption DEF RunInit, RunInv, RunTypes, SlotOK, HeldOK, DirtyOK, OnSession

\* A pooled session is not used, so nobody holds it nor left anything in it.
LEMMA FreeSessions == RunInv => PooledSessionsAreFree
BY RunAssumption DEF RunInv, RunTypes, HeldOK, DirtyOK, PooledSessionsAreFree

\* A run before its thread: what it starts, nothing runs already.
LEMMA RunBegins ==
    ASSUME RunInv, OnceOK, NEW i \in Calls,
           RunStart(i) \/ RunNotFound(i) \/ RunFound(i) \/ RunPrepared(i)
    PROVE  RunInv' /\ OnceOK'
<1>. USE RunAssumption
<1>1. RunTypes'
  BY DEF RunStart, RunNotFound, RunFound, RunPrepared, Goes, Gives, RunInv, RunTypes,
         poolVars, onceVars
<1>2. SlotOK'
  BY DEF RunStart, RunNotFound, RunFound, RunPrepared, Goes, Gives, RunInv, RunTypes,
         SlotOK, OnSession
<1>3. HeldOK' /\ DirtyOK'
  BY DEF RunStart, RunNotFound, RunFound, RunPrepared, Goes, Gives, RunInv, RunTypes,
         HeldOK, DirtyOK, poolVars
<1>4. OnceOK'
  <2>1. CASE RunFound(i)
    BY <2>1 DEF RunFound, Repeats, Goes, Gives, RunInv, RunTypes, SlotOK, OnceOK, Runs
  <2>2. CASE ~RunFound(i)
    BY <2>2 DEF RunStart, RunNotFound, RunPrepared, Goes, Gives, RunInv, RunTypes,
                SlotOK, OnceOK, Runs, onceVars
  <2>. QED  BY <2>1, <2>2
<1>. QED  BY <1>1, <1>2, <1>3, <1>4 DEF RunInv

\* What the threads and the waiters do with sessions runs nothing anew.
LEMMA OnceStays ==
    ASSUME OnceOK, RunInv, NEW i \in Calls, UNCHANGED onceVars,
           \A j \in Calls : Runs(j)' => Runs(j)
    PROVE  OnceOK'
BY DEF OnceOK, onceVars

\* The session a run is given was held by no other.
LEMMA GetSessionKeeps ==
    ASSUME RunInv, NEW i \in Calls, GetSession(i)
    PROVE  RunInv'
<1>1. PICK s \in Sessions :
         /\ sess[s] = IF \E t \in Sessions : sess[t] = "pooled" THEN "pooled" ELSE "unmade"
         /\ sess' = [sess EXCEPT ![s] = "used"]
         /\ fresh' = IF sess[s] = "unmade" THEN fresh \cup {i} ELSE fresh
         /\ session' = [session EXCEPT ![i] = s]
  BY DEF GetSession
<1>2. sess[s] # "used" /\ s # NoSession
  BY <1>1, RunAssumption
<1>3. RunTypes'
  BY <1>1 DEF GetSession, Goes, RunInv, RunTypes, onceVars
<1>4. SlotOK'
  BY <1>1, <1>2 DEF GetSession, Goes, RunInv, RunTypes, SlotOK, OnSession
<1>5. session[i] = NoSession
  BY DEF GetSession, RunInv, SlotOK, OnSession
<1>6. HeldOK'
  BY <1>1, <1>2 DEF RunInv, RunTypes, HeldOK
<1>7. DirtyOK'
  BY <1>1, <1>5, RunAssumption DEF GetSession, Goes, RunInv, RunTypes, DirtyOK
<1>. QED  BY <1>3, <1>4, <1>6, <1>7 DEF RunInv

\* A session closed is nobody's, whatever it had open.
LEMMA DropKeeps ==
    ASSUME RunInv, NEW i \in inSlot, Drop(i), inSlot' = inSlot \ {i}, Goes(i, "ended"),
           thread' \in [Calls -> {"none", "ok", "failed", "cancelled"}],
           \A j \in Calls \ {i} : thread'[j] = thread[j], UNCHANGED <<runOut, fresh, kept>>
    PROVE  RunInv'
<1>. USE RunAssumption
<1>0. i \in Calls /\ session[i] \in Sessions
  BY DEF RunInv, RunTypes, SlotOK
<1>1. RunTypes'
  BY <1>0 DEF Drop, Goes, RunInv, RunTypes
<1>2. SlotOK'
  BY <1>0 DEF Drop, Goes, RunInv, RunTypes, SlotOK, OnSession
<1>3. HeldOK'
  BY <1>0 DEF Drop, Goes, RunInv, RunTypes, HeldOK
<1>4. DirtyOK'
  BY <1>0 DEF Drop, Goes, RunInv, RunTypes, DirtyOK, HeldOK
<1>. QED  BY <1>1, <1>2, <1>3, <1>4 DEF RunInv

\* The steps of a run's thread.
LEMMA ThreadKeeps ==
    ASSUME RunInv, NEW i \in Calls, QueryThread(i)
    PROVE  RunInv'
<1>. USE RunAssumption
<1>1. CASE GetSession(i)
  BY <1>1, GetSessionKeeps
<1>2. CASE NoSessionFree(i)
  BY <1>2 DEF NoSessionFree, Goes, RunInv, RunTypes, SlotOK, HeldOK, DirtyOK, OnSession,
              poolVars, onceVars
<1>3. CASE CheckStopped(i) /\ cancel
  BY <1>3, DropKeeps DEF CheckStopped, RunInv, RunTypes, SlotOK, OnSession, onceVars
<1>4. CASE CheckStopped(i) /\ ~cancel
  BY <1>4 DEF CheckStopped, Goes, RunInv, RunTypes, SlotOK, HeldOK, DirtyOK, OnSession,
              onceVars
<1>5. CASE SetFormats(i)
  <2>1. session[i] \in Sessions
    BY <1>5 DEF SetFormats, RunInv, RunTypes, SlotOK, OnSession
  <2>. QED
    BY <1>5, <2>1 DEF SetFormats, Goes, RunInv, RunTypes, SlotOK, HeldOK, DirtyOK,
                      OnSession, onceVars
<1>6. CASE Work(i)
  <2>1. session[i] \in Sessions
    BY <1>6 DEF Work, RunInv, RunTypes, SlotOK, OnSession
  <2>2. RunTypes'
    BY <1>6, <2>1 DEF Work, Goes, RunInv, RunTypes, onceVars
  <2>3. SlotOK' /\ HeldOK'
    BY <1>6 DEF Work, Goes, RunInv, RunTypes, SlotOK, HeldOK, OnSession
  <2>4. DirtyOK'
    BY <1>6 DEF Work, Goes, RunInv, RunTypes, DirtyOK
  <2>. QED  BY <2>2, <2>3, <2>4 DEF RunInv
<1>7. CASE Clean(i)
  <2>1. i \in inSlot /\ session[i] \in Sessions
    BY <1>7 DEF Clean, RunInv, RunTypes, SlotOK, OnSession
  <2>2. CASE Drop(i) /\ inSlot' = inSlot \ {i} /\ Goes(i, "ended")
    BY <1>7, <2>1, <2>2, DropKeeps DEF Clean, RunInv, RunTypes, onceVars
  <2>3. CASE /\ ~MustDrop(i)
             /\ dirty' = IF thread[i] = "ok" THEN dirty \ {session[i]} ELSE dirty
             /\ Goes(i, "leaving")
             /\ UNCHANGED <<session, inSlot, stopper, sess, formats, breaks>>
    <3>1. RunTypes' /\ SlotOK' /\ HeldOK'
      BY <1>7, <2>3 DEF Clean, Goes, RunInv, RunTypes, SlotOK, HeldOK, OnSession, onceVars
    <3>2. session[i] \notin dirty'
      BY <1>7, <2>1, <2>3 DEF Clean, MustDrop, RunInv, SlotOK, HeldOK, DirtyOK
    <3>3. DirtyOK'
      BY <1>7, <2>3, <3>2 DEF Clean, Goes, RunInv, RunTypes, DirtyOK
    <3>. QED  BY <3>1, <3>3 DEF RunInv
  <2>. QED  BY <1>7, <2>2, <2>3 DEF Clean
<1>8. CASE Leave(i)
  <2>1. session[i] \in Sessions
    BY <1>8 DEF Leave, RunInv, RunTypes, SlotOK, OnSession
  <2>2. RunTypes'
    BY <1>8, <2>1 DEF Leave, Goes, RunInv, RunTypes, onceVars
  <2>3. SlotOK'
    BY <1>8, <2>1 DEF Leave, Goes, RunInv, RunTypes, SlotOK, OnSession
  <2>4. HeldOK'
    BY <1>8, <2>1 DEF Leave, RunInv, RunTypes, HeldOK
  <2>5. DirtyOK'
    BY <1>8, <2>1 DEF Leave, Goes, RunInv, RunTypes, HeldOK, DirtyOK
  <2>. QED  BY <2>2, <2>3, <2>4, <2>5 DEF RunInv
<1>. QED  BY <1>1, <1>2, <1>3, <1>4, <1>5, <1>6, <1>7, <1>8 DEF QueryThread

\* The steps of a run's waiter: a stop that took a session keeps it until it broke.
LEMMA WaiterKeeps ==
    ASSUME RunInv, NEW i \in Calls, TakeSession(i) \/ Break(i) \/ Joined(i)
    PROVE  RunInv'
<1>. USE RunAssumption
<1>1. CASE TakeSession(i)
  BY <1>1 DEF TakeSession, OnThread, RunInv, RunTypes, SlotOK, HeldOK, DirtyOK, poolVars,
              onceVars, OnSession
<1>2. CASE Break(i)
  <2>1. session[i] \in Sessions
    BY <1>2 DEF Break, RunInv, RunTypes, SlotOK
  <2>2. RunTypes'
    BY <1>2, <2>1 DEF Break, RunInv, RunTypes, onceVars
  <2>3. SlotOK'
    BY <1>2, <2>1 DEF Break, RunInv, RunTypes, SlotOK, OnSession
  <2>4. HeldOK' /\ DirtyOK'
    BY <1>2, <2>1 DEF Break, RunInv, RunTypes, HeldOK, DirtyOK
  <2>. QED  BY <2>2, <2>3, <2>4 DEF RunInv
<1>3. CASE Joined(i)
  BY <1>3 DEF Joined, Goes, Gives, RunInv, RunTypes, SlotOK, HeldOK, DirtyOK, poolVars,
              onceVars, OnSession
<1>. QED  BY <1>1, <1>2, <1>3

\* Every step of a run keeps the pool's invariant and runs nothing twice.
LEMMA QueryKeeps ==
    ASSUME RunInv, OnceOK, NEW i \in Calls, QueryRun(i) \/ QueryThread(i)
    PROVE  RunInv' /\ OnceOK'
<1>1. CASE RunStart(i) \/ RunNotFound(i) \/ RunFound(i) \/ RunPrepared(i)
  BY <1>1, RunBegins
<1>2. CASE TakeSession(i) \/ Break(i) \/ Joined(i)
  <2>1. UNCHANGED onceVars /\ \A j \in Calls : Runs(j)' => Runs(j)
    BY <1>2 DEF TakeSession, Break, Joined, Goes, Gives, Runs, RunInv, RunTypes, SlotOK,
                onceVars
  <2>. QED  BY <1>2, <2>1, WaiterKeeps, OnceStays
<1>3. CASE QueryThread(i)
  <2>1. UNCHANGED onceVars
    BY <1>3 DEF QueryThread, GetSession, NoSessionFree, CheckStopped, SetFormats, Work, Clean,
                Leave
  <2>2. /\ UNCHANGED runOut /\ runPc[i] \notin {"idle", "lookup"}
        /\ \A j \in Calls \ {i} : runPc'[j] = runPc[j]
    BY <1>3 DEF QueryThread, GetSession, NoSessionFree, CheckStopped, SetFormats, Work, Clean,
                Leave, Goes, RunInv, RunTypes
  <2>3. \A j \in Calls : Runs(j)' => Runs(j)
    BY <2>2 DEF Runs
  <2>. QED  BY <1>3, <2>1, <2>3, ThreadKeeps, OnceStays
<1>. QED  BY <1>1, <1>2, <1>3 DEF QueryRun

-----------------------------------------------------------------------------
BatchTypes ==
    /\ phase \in {"none", "locating", "running", "settling"}
    /\ batch \in 0..Batches /\ (phase # "none" => batch \in 1..Batches)
    /\ kind \in [Calls -> {"none", "refused", "mcp", "query", "read", "source"}]
    /\ lines \subseteq Calls /\ ended \subseteq Calls
    /\ finder \in [1..Batches -> {"none", "runs", "abandoned", "done"}]
    /\ thread_ \in [1..Batches -> {"none", "runs", "abandoned", "done", "died"}]
    /\ left \in [1..Batches -> SUBSET Calls]
    /\ taken \in [1..Batches -> SUBSET Calls]
    /\ history \subseteq Calls /\ backup \subseteq Calls /\ offers \subseteq Calls

\* The calls made so far.
Made == {i \in Calls : 0 < i /\ i <= ids}

\* Identities are given without gaps: a call of the model is at most `ids` or to come.
IdsOK == ids \in Nat /\ Cardinality(Made) = ids

\* A call that is yet to be made, or to be begun, has done nothing.
FreshOK ==
    \A i \in Calls :
        /\ kind[i] # "none" => i <= ids
        /\ i > ids => mcpPc[i] = "idle"
        /\ phase = "locating" /\ kind[i] # "none" => mcpPc[i] = "idle"

\* The runs of a response are those of its batch.
PhaseOK ==
    /\ phase \in {"none", "locating"} =>
           lines = {} /\ ended = {} /\ \A i \in Calls : runPc[i] = "idle"
    /\ phase = "running" => \A i \in Calls : kind[i] # "query" => runPc[i] = "idle"
    /\ phase = "settling" => \A i \in Calls : runPc[i] \in {"idle", "done"}

\* The batch's thread is there while it is waited for; one that is done ran its calls.
ThreadOK ==
    /\ phase = "running" => thread_[batch] \in {"runs", "done", "died"}
    /\ \A b \in 1..Batches : thread_[b] = "done" => left[b] = {}

\* Why the line of a call still goes on.
GoesOn(i) ==
    \/ kind[i] = "refused"
    \/ kind[i] = "mcp" /\ (mcpPc[i] = "done" => outcome[i] = "panicked")
    \/ /\ phase = "running"
       /\ \/ kind[i] = "query" /\ runPc[i] # "done"
          \/ kind[i] = "read" /\ i \notin ended
          \/ kind[i] = "source" /\ (i \in left[batch] \/ thread_[batch] = "died")

LinesOK == phase # "none" => \A i \in lines : GoesOn(i)

\* While the thread has the history, it and the copy hold what is offered.
OffersOK ==
    /\ phase # "running" => offers \subseteq history
    /\ phase = "running" => offers \subseteq taken[batch] /\ offers \subseteq backup

BatchOK == BatchTypes /\ IdsOK /\ FreshOK /\ PhaseOK /\ ThreadOK /\ LinesOK /\ OffersOK

\* The inductive invariant.
IInv == McpInv /\ RunInv /\ BatchOK /\ (phase = "running" => OnceOK)

\* It holds before the first batch.
LEMMA InitInv == Init => IInv
<1>. SUFFICES ASSUME Init PROVE IInv
  OBVIOUS
<1>1. McpInv /\ RunInv
  BY McpInitInv, RunInitInv DEF Init
<1>2. BatchTypes
  BY ResponseAssumption DEF Init, BatchTypes
<1>3. IdsOK
  <2>1. ids = 0
    BY DEF Init
  <2>2. Made = {}
    <3>. SUFFICES ASSUME NEW i \in Made PROVE FALSE
      OBVIOUS
    <3>1. i \in Nat /\ 0 < i /\ i <= 0
      BY <2>1, CallsAreNumbered DEF Made
    <3>. QED  BY <3>1
  <2>. QED  BY <2>1, <2>2, FS_EmptySet DEF IdsOK
<1>4. FreshOK /\ PhaseOK
  BY DEF Init, McpInit, RunInit, FreshOK, PhaseOK
<1>5. ThreadOK /\ LinesOK /\ OffersOK
  BY ResponseAssumption DEF Init, ThreadOK, LinesOK, OffersOK
<1>. QED  BY <1>1, <1>2, <1>3, <1>4, <1>5 DEF Init, IInv, BatchOK

\* It implies what the run checks.
LEMMA InvImplies ==
    ASSUME IInv
    PROVE  EffectIsSaid /\ PooledSessionsAreFree /\ BatchLeavesNothingOpen /\ QueriesRunOnce
<1>1. EffectIsSaid /\ PooledSessionsAreFree
  BY KnownIsSaid, FreeSessions DEF IInv
<1>2. BatchLeavesNothingOpen
  BY DEF IInv, BatchOK, PhaseOK, OffersOK, BatchLeavesNothingOpen, LinesAreClosed,
         OffersAreKept
<1>3. QueriesRunOnce
  BY DEF IInv, OnceOK, QueriesRunOnce
<1>. QED  BY <1>1, <1>2, <1>3

\* A step that leaves the identities alone.
LEMMA IdsStay == IdsOK /\ UNCHANGED ids => IdsOK'
BY DEF IdsOK, Made

\* A step that leaves the runs and the pool alone.
LEMMA RunStays ==
    ASSUME RunInv,
           UNCHANGED <<runPc, session, inSlot, thread, stopper, runOut, poolVars, kept>>
    PROVE  RunInv'
BY DEF RunInv, poolVars, RunTypes, SlotOK, HeldOK, DirtyOK

\* The calls of a response are those next in order, not begun and of no earlier one.
LEMMA BatchBeginsKeeps ==
    ASSUME IInv, batch < Batches, NEW response \in Responses[ids], BatchBegins(response)
    PROVE  IInv'
<1>. DEFINE these == {i \in Calls : i > ids /\ i <= ids + Len(response)}
<1>1. ids \in 0..Cardinality(Calls)
  <2>1. Made \in SUBSET Calls
    BY DEF Made
  <2>2. Cardinality(Calls) \in Nat /\ Cardinality(Made) <= Cardinality(Calls)
    BY <2>1, CallsAreNumbered, FS_Subset, FS_CardinalityType
  <2>3. ids \in Nat /\ Cardinality(Made) = ids
    BY DEF IInv, BatchOK, IdsOK
  <2>. QED  BY <2>2, <2>3
<1>2. response \in Seq(Kinds) /\ Len(response) \in Nat
  BY <1>1, ResponseAssumption
<1>3. McpInv'
  BY McpStays DEF BatchBegins, IInv
<1>4. RunInv'
  BY RunStays DEF BatchBegins, IInv
<1>5. IdsOK'
  <2>0. ids \in Nat /\ ids' = ids + Len(response) /\ Calls \subseteq Nat
    BY <1>1, CallsAreNumbered DEF BatchBegins
  <2>1. Made' = Made \cup these /\ Made \cap these = {}
    <3>1. ASSUME NEW i \in Calls
          PROVE  /\ 0 < i /\ i <= ids + Len(response)
                      <=> (0 < i /\ i <= ids) \/ (i > ids /\ i <= ids + Len(response))
                 /\ ~((0 < i /\ i <= ids) /\ (i > ids /\ i <= ids + Len(response)))
      <4>. DEFINE n == Len(response)
      <4>1. i \in Nat /\ ids \in Nat /\ n \in Nat
        BY <2>0, <1>2
      <4>. HIDE DEF n
      <4>. QED  BY <4>1 DEF n
    <3>2. Made' = {i \in Calls : 0 < i /\ i <= ids + Len(response)}
      BY <2>0 DEF Made
    <3>. QED  BY <3>1, <3>2 DEF Made
  <2>2. IsFiniteSet(Made) /\ IsFiniteSet(these)
    BY CallsAreNumbered, FS_Subset DEF Made
  <2>3. Cardinality(Made') = Cardinality(Made) + Cardinality(these)
    <3>. HIDE DEF these
    <3>1. Cardinality(Made \cup these)
            = Cardinality(Made) + Cardinality(these) - Cardinality(Made \cap these)
      BY <2>2, FS_Union
    <3>2. Cardinality(Made \cap these) = 0
      BY <2>1, FS_EmptySet
    <3>3. Cardinality(Made) \in Nat /\ Cardinality(these) \in Nat
      BY <2>2, FS_CardinalityType
    <3>. QED  BY <2>1, <3>1, <3>2, <3>3
  <2>4. Cardinality(these) = Len(response) /\ ids' = ids + Len(response)
    BY DEF BatchBegins
  <2>. QED  BY <1>1, <1>2, <2>3, <2>4 DEF IInv, BatchOK, IdsOK
<1>6. kind' \in [Calls -> {"none", "refused", "mcp", "query", "read", "source"}]
  <2>1. ASSUME NEW i \in these PROVE response[i - ids] \in Kinds
    <3>1. i \in Nat /\ ids \in Nat /\ i > ids /\ i <= ids + Len(response)
      BY <1>1, CallsAreNumbered
    <3>2. i - ids \in 1..Len(response)
      BY <1>2, <3>1
    <3>. QED  BY <1>2, <3>2
  <2>. QED  BY <2>1 DEF BatchBegins, Prepared, Kinds
<1>7. BatchTypes'
  <2>1. batch + 1 \in 1..Batches
    BY ResponseAssumption DEF IInv, BatchOK, BatchTypes
  <2>. QED  BY <1>6, <2>1 DEF BatchBegins, IInv, BatchOK, BatchTypes
<1>8. FreshOK'
  <2>1. ids \in Nat /\ ids' = ids + Len(response) /\ Calls \subseteq Nat /\ UNCHANGED mcpPc
    BY <1>1, CallsAreNumbered DEF BatchBegins, mcpVars
  <2>2. \A i \in Calls : kind'[i] # "none" => i > ids /\ i <= ids'
    BY <2>1 DEF BatchBegins
  <2>3. \A i \in Calls : i > ids => mcpPc[i] = "idle"
    BY DEF IInv, BatchOK, FreshOK
  <2>4. \A i \in Calls : i > ids' => i > ids
    BY <1>2, <2>1
  <2>. QED  BY <2>1, <2>2, <2>3, <2>4 DEF FreshOK
<1>9. PhaseOK' /\ OffersOK' /\ LinesOK'
  BY DEF BatchBegins, IInv, BatchOK, PhaseOK, OffersOK, LinesOK
<1>10. ThreadOK'
  BY DEF BatchBegins, IInv, BatchOK, ThreadOK
<1>. QED  BY <1>3, <1>4, <1>5, <1>7, <1>8, <1>9, <1>10 DEF BatchBegins, IInv, BatchOK

\* The lines that open are those of calls that go on; the copy holds what the thread
\* takes.
LEMMA SpawnsKeeps ==
    ASSUME IInv, phase = "locating", NEW refused \in SUBSET Of("source"), Spawns(refused),
           finder' \in [1..Batches -> {"none", "runs", "abandoned", "done"}]
    PROVE  IInv'
<1>1. McpInv' /\ RunInv' /\ IdsOK'
  BY McpStays, RunStays, IdsStay DEF Spawns, IInv, BatchOK, runVars, poolVars
<1>2. BatchTypes'
  BY DEF Spawns, IInv, BatchOK, BatchTypes, Of
<1>3. FreshOK' /\ PhaseOK'
  BY DEF Spawns, IInv, BatchOK, BatchTypes, FreshOK, PhaseOK, Of, mcpVars, runVars
<1>4. ThreadOK'
  BY DEF Spawns, IInv, BatchOK, BatchTypes, ThreadOK
<1>5. LinesOK'
  BY DEF Spawns, IInv, BatchOK, BatchTypes, FreshOK, PhaseOK, LinesOK, GoesOn, Of, mcpVars,
         runVars
<1>6. OffersOK'
  BY DEF Spawns, IInv, BatchOK, BatchTypes, OffersOK
<1>7. OnceOK'
  BY DEF Spawns, IInv, BatchOK, PhaseOK, OnceOK, Runs, runVars
<1>. QED  BY <1>1, <1>2, <1>3, <1>4, <1>5, <1>6, <1>7 DEF IInv, BatchOK

\* However the search for the projects ends.
LEMMA LocatedKeeps == ASSUME IInv, Located \/ LocateStopped PROVE IInv'
<1>1. finder' \in [1..Batches -> {"none", "runs", "abandoned", "done"}]
  BY DEF Located, LocateStopped, IInv, BatchOK, BatchTypes
<1>. QED  BY <1>1, SpawnsKeeps DEF Located, LocateStopped

\* Steps of the source threads and of the finders.
LEMMA SourceKeeps ==
    ASSUME IInv, NEW b \in 1..Batches, FinderReturns(b) \/ SourceCall(b) \/ SourceEnds(b)
    PROVE  IInv'
<1>1. McpInv' /\ RunInv' /\ IdsOK' /\ (phase' = "running" => OnceOK')
  <2>1. UNCHANGED <<mcpVars, runVars, ids, phase>>
    BY DEF FinderReturns, SourceCall, SourceEnds
  <2>. QED
    BY <2>1, McpStays, RunStays, IdsStay DEF IInv, BatchOK, runVars, poolVars, OnceOK, Runs
<1>2. BatchTypes'
  BY DEF FinderReturns, SourceCall, SourceEnds, IInv, BatchOK, BatchTypes
<1>3. FreshOK' /\ PhaseOK'
  BY DEF FinderReturns, SourceCall, SourceEnds, IInv, BatchOK, BatchTypes, FreshOK,
         PhaseOK, mcpVars, runVars
<1>4. ThreadOK'
  <2>1. CASE FinderReturns(b)
    BY <2>1 DEF FinderReturns, IInv, BatchOK, ThreadOK
  <2>2. CASE SourceCall(b)
    BY <2>2 DEF SourceCall, IInv, BatchOK, BatchTypes, ThreadOK
  <2>3. CASE SourceEnds(b)
    BY <2>3 DEF SourceEnds, IInv, BatchOK, BatchTypes, ThreadOK
  <2>. QED  BY <2>1, <2>2, <2>3
<1>5. LinesOK'
  <2>1. CASE FinderReturns(b)
    BY <2>1 DEF FinderReturns, IInv, BatchOK, LinesOK, GoesOn, mcpVars, runVars
  <2>2. CASE SourceCall(b)
    <3>1. PICK i \in left[b] : left' = [left EXCEPT ![b] = @ \ {i}] /\ lines' = lines \ {i}
      BY <2>2 DEF SourceCall
    <3>2. UNCHANGED <<mcpPc, outcome, runPc, phase, batch, kind, ended, thread_>>
      BY <2>2 DEF SourceCall, mcpVars, runVars
    <3>. QED  BY <3>1, <3>2 DEF IInv, BatchOK, BatchTypes, LinesOK, GoesOn
  <2>3. CASE SourceEnds(b)
    <3>1. UNCHANGED <<mcpPc, outcome, runPc, phase, batch, kind, ended, lines, left>>
      BY <2>3 DEF SourceEnds, mcpVars, runVars
    <3>2. phase # "none" /\ thread_[batch] = "died" => thread_'[batch] = "died"
      BY <2>3 DEF SourceEnds, IInv, BatchOK, BatchTypes
    <3>. QED  BY <3>1, <3>2 DEF IInv, BatchOK, LinesOK, GoesOn
  <2>. QED  BY <2>1, <2>2, <2>3
<1>6. OffersOK'
  <2>1. UNCHANGED <<phase, batch, history, backup, offers>>
    BY DEF FinderReturns, SourceCall, SourceEnds
  <2>2. phase = "running" => taken[batch] \subseteq taken'[batch]
    <3>1. CASE UNCHANGED taken
      BY <3>1
    <3>2. CASE \E i \in left[b] : taken' = [taken EXCEPT ![b] = @ \cup {i}]
      BY <3>2 DEF IInv, BatchOK, BatchTypes
    <3>. QED  BY <3>1, <3>2 DEF FinderReturns, SourceCall, SourceEnds
  <2>. QED  BY <2>1, <2>2 DEF IInv, BatchOK, OffersOK
<1>. QED  BY <1>1, <1>2, <1>3, <1>4, <1>5, <1>6 DEF IInv, BatchOK

\* An MCP call's line closes with it, unless it panicked.
LEMMA McpStepKeeps == ASSUME IInv, NEW i \in Calls, McpStep(i) PROVE IInv'
<1>1. McpInv' /\ \A j \in Calls \ {i} : mcpPc'[j] = mcpPc[j] /\ outcome'[j] = outcome[j]
  BY McpTaskKeeps DEF McpStep, IInv
<1>2. RunInv' /\ IdsOK' /\ (phase' = "running" => OnceOK')
  BY RunStays, IdsStay DEF McpStep, IInv, BatchOK, runVars, poolVars, OnceOK, Runs
<1>3. BatchTypes' /\ PhaseOK' /\ ThreadOK' /\ OffersOK'
  BY DEF McpStep, IInv, BatchOK, BatchTypes, PhaseOK, ThreadOK, OffersOK, runVars
<1>4. FreshOK'
  BY <1>1, CallsAreNumbered DEF McpStep, IInv, BatchOK, IdsOK, FreshOK
<1>5. LinesOK'
  BY <1>1 DEF McpStep, IInv, BatchOK, BatchTypes, LinesOK, GoesOn, runVars
<1>. QED  BY <1>1, <1>2, <1>3, <1>4, <1>5 DEF IInv, BatchOK

\* A run's step is of its own place and result.
LEMMA QueryIsItsOwn ==
    ASSUME RunInv, NEW i \in Calls, QueryRun(i) \/ QueryThread(i)
    PROVE  /\ \A j \in Calls \ {i} : runPc'[j] = runPc[j]
           /\ QueryThread(i) =>
                  runPc[i] \notin {"idle", "done"} /\ runPc'[i] \notin {"idle", "done"}
           /\ runPc'[i] # "idle" \/ UNCHANGED runPc
BY DEF QueryRun, RunStart, RunNotFound, RunFound, RunPrepared, TakeSession, Break, Joined,
       QueryThread, GetSession, NoSessionFree, CheckStopped, SetFormats, Work, Clean, Leave,
       Goes, Gives, RunInv, RunTypes

\* A run steps only while its batch's futures are polled; its line closes with it.
LEMMA QueryStepKeeps ==
    ASSUME IInv, NEW i \in Calls, QueryStep(i) \/ QueryThreadStep(i)
    PROVE  IInv'
<1>1. /\ QueryRun(i) \/ QueryThread(i)
      /\ UNCHANGED <<mcpVars, ids, phase, kind, ended, thread_, left, taken, history, backup,
                     offers, batch, finder>>
  BY DEF QueryStep, QueryThreadStep, batchVars
<1>2. \A j \in Calls \ {i} : runPc'[j] = runPc[j]
  BY <1>1, QueryIsItsOwn DEF IInv
<1>3. phase = "running" /\ kind[i] = "query"
  <2>1. QueryThread(i) => runPc[i] \notin {"idle", "done"}
    BY QueryIsItsOwn DEF IInv
  <2>. QED
    BY <2>1 DEF QueryStep, QueryThreadStep, IInv, BatchOK, BatchTypes, PhaseOK
<1>4. McpInv' /\ RunInv' /\ OnceOK' /\ IdsOK'
  BY <1>1, <1>3, McpStays, QueryKeeps, IdsStay DEF IInv, BatchOK
<1>5. lines' = IF runPc'[i] = "done" THEN lines \ {i} ELSE lines
  BY QueryIsItsOwn DEF QueryStep, QueryThreadStep, batchVars, IInv
<1>6. BatchTypes' /\ FreshOK' /\ PhaseOK' /\ ThreadOK' /\ OffersOK'
  BY <1>1, <1>2, <1>3, <1>5 DEF IInv, BatchOK, BatchTypes, FreshOK, PhaseOK, ThreadOK,
                                OffersOK, mcpVars
<1>7. LinesOK'
  BY <1>1, <1>2, <1>3, <1>5 DEF IInv, BatchOK, BatchTypes, LinesOK, GoesOn, mcpVars
<1>. QED  BY <1>4, <1>6, <1>7 DEF IInv, BatchOK

\* Another knowledge call ends, and its line.
LEMMA ReadKeeps == ASSUME IInv, NEW i \in Calls, Read(i) PROVE IInv'
<1>1. McpInv' /\ RunInv' /\ IdsOK' /\ OnceOK'
  BY McpStays, RunStays, IdsStay DEF Read, IInv, BatchOK, runVars, poolVars, OnceOK, Runs
<1>2. BatchTypes' /\ FreshOK' /\ PhaseOK' /\ ThreadOK' /\ OffersOK'
  BY DEF Read, Of, IInv, BatchOK, BatchTypes, FreshOK, PhaseOK, ThreadOK, OffersOK,
         mcpVars, runVars
<1>3. LinesOK'
  BY DEF Read, Of, IInv, BatchOK, BatchTypes, LinesOK, GoesOn, mcpVars, runVars
<1>. QED  BY <1>1, <1>2, <1>3 DEF IInv, BatchOK

\* Joined or abandoned, the thread gives a history that holds every offer; the lines
\* that go on are the refused and the MCP calls'.
LEMMA SettledKeeps ==
    ASSUME IInv, SourceJoined \/ SourceAbandoned
    PROVE  IInv'
<1>1. kept' \subseteq Calls
  BY DEF SourceJoined, SourceAbandoned, Effects, Of, IInv, RunInv, RunTypes
<1>2. RunInv'
  BY <1>1 DEF SourceJoined, SourceAbandoned, IInv, RunInv, RunTypes, SlotOK, HeldOK,
              DirtyOK, poolVars
<1>3. McpInv' /\ IdsOK'
  BY McpStays, IdsStay DEF SourceJoined, SourceAbandoned, IInv, BatchOK
<1>4. PICK long \in SUBSET Calls :
        /\ history' = GivesBack(batch) \cup long
        /\ offers' = offers \cup long \cup (Of("source") \cap GivesBack(batch))
  BY DEF SourceJoined, SourceAbandoned, Archives, Of
<1>5. GivesBack(batch) \subseteq Calls /\ offers \subseteq GivesBack(batch)
  BY DEF GivesBack, SourceJoined, SourceAbandoned, IInv, BatchOK, BatchTypes, OffersOK
<1>6. OffersOK' /\ history' \subseteq Calls /\ offers' \subseteq Calls
  BY <1>4, <1>5 DEF SourceJoined, SourceAbandoned, OffersOK
<1>7. BatchTypes'
  BY <1>6 DEF SourceJoined, SourceAbandoned, IInv, BatchOK, BatchTypes
<1>8. FreshOK' /\ PhaseOK' /\ ThreadOK'
  <2>0. phase = "running" /\ phase' = "settling"
        /\ UNCHANGED <<mcpPc, runPc, kind, ids, left>>
    BY DEF SourceJoined, SourceAbandoned, mcpVars
  <2>1. FreshOK'
    BY <2>0 DEF IInv, BatchOK, FreshOK
  <2>2. PhaseOK'
    BY <2>0 DEF SourceJoined, SourceAbandoned, FuturesDone, Of, IInv, BatchOK, PhaseOK
  <2>3. ThreadOK'
    BY <2>0 DEF SourceJoined, SourceAbandoned, IInv, BatchOK, BatchTypes, ThreadOK
  <2>. QED  BY <2>1, <2>2, <2>3
<1>9. LinesOK'
  BY DEF SourceJoined, SourceAbandoned, FuturesDone, Of, IInv, BatchOK, BatchTypes,
         ThreadOK, LinesOK, GoesOn, mcpVars
<1>10. phase' # "running"
  BY DEF SourceJoined, SourceAbandoned
<1>. QED  BY <1>2, <1>3, <1>6, <1>7, <1>8, <1>9, <1>10 DEF IInv, BatchOK

\* The batch ends: the lines left are closed, and no run holds a session.
LEMMA ReturnsKeeps ==
    ASSUME IInv, BatchReturns
    PROVE  IInv'
<1>1. McpInv' /\ IdsOK'
  BY McpStays, IdsStay DEF BatchReturns, IInv, BatchOK
<1>2. /\ runPc' = [i \in Calls |-> "idle"] /\ runOut' = [i \in Calls |-> "none"]
      /\ stopper' = [i \in Calls |-> "waits"] /\ thread' = [i \in Calls |-> "none"]
      /\ fresh' \subseteq Calls
  BY DEF BatchReturns, Forget, IInv, RunInv, RunTypes
<1>3. RunInv'
  <2>1. RunTypes'
    BY <1>2 DEF BatchReturns, IInv, RunInv, RunTypes, onceVars
  <2>2. \A i \in Calls : session[i] = NoSession /\ i \notin inSlot /\ runPc[i] # "cleaning"
    BY DEF BatchReturns, IInv, BatchOK, PhaseOK, RunInv, SlotOK, OnSession
  <2>3. SlotOK'
    BY <1>2, <2>2 DEF BatchReturns, SlotOK, OnSession
  <2>4. HeldOK' /\ DirtyOK'
    BY <2>2, RunAssumption DEF BatchReturns, IInv, RunInv, HeldOK, DirtyOK
  <2>. QED  BY <2>1, <2>3, <2>4 DEF RunInv
<1>4. PICK long \in SUBSET Calls : history' = history \cup long /\ offers' = offers \cup long
  BY DEF BatchReturns, IInv, BatchOK, BatchTypes
<1>5. OffersOK'
  BY <1>4 DEF BatchReturns, IInv, BatchOK, OffersOK
<1>6. lines' = {}
  BY DEF BatchReturns, Panicked, Of, IInv, BatchOK, BatchTypes, LinesOK, GoesOn
<1>7. BatchTypes'
  BY <1>4, <1>6 DEF BatchReturns, IInv, BatchOK, BatchTypes
<1>8. FreshOK' /\ PhaseOK' /\ ThreadOK' /\ LinesOK'
  BY <1>2, <1>6 DEF BatchReturns, IInv, BatchOK, FreshOK, PhaseOK, ThreadOK, LinesOK, mcpVars
<1>. QED  BY <1>1, <1>3, <1>5, <1>7, <1>8 DEF BatchReturns, IInv, BatchOK

\* The next question, a stop, the world's own steps.
LEMMA OthersKeep ==
    ASSUME IInv, NextQuestion \/ Stopped \/ World \/ UNCHANGED vars
    PROVE  IInv'
<1>1. McpInv' /\ UNCHANGED <<mcpPc, outcome>>
  <2>1. CASE World
    BY <2>1, McpWorldKeeps DEF World, IInv
  <2>2. CASE UNCHANGED mcpVars
    BY <2>2, McpStays DEF IInv, mcpVars
  <2>. QED  BY <2>1, <2>2 DEF NextQuestion, Stopped, vars
<1>2. UNCHANGED <<batchVars, runPc, session, inSlot, thread, stopper, runOut, poolVars,
                  started, kept>>
  BY DEF NextQuestion, Stopped, World, vars, runVars, poolVars
<1>3. RunInv' /\ IdsOK'
  BY <1>2, RunStays, IdsStay DEF batchVars, IInv, BatchOK
<1>4. BatchTypes' /\ FreshOK' /\ PhaseOK' /\ ThreadOK'
  BY <1>1, <1>2 DEF batchVars, IInv, BatchOK, BatchTypes, FreshOK, PhaseOK, ThreadOK
<1>5. LinesOK' /\ OffersOK'
  BY <1>1, <1>2 DEF batchVars, IInv, BatchOK, LinesOK, GoesOn, OffersOK
<1>6. phase' = "running" => OnceOK'
  BY <1>2 DEF NextQuestion, Stopped, World, vars, runVars, batchVars, IInv, OnceOK, Runs
<1>. QED  BY <1>1, <1>3, <1>4, <1>5, <1>6 DEF IInv, BatchOK

\* Every step keeps the invariant.
LEMMA NextInv == IInv /\ [Next]_vars => IInv'
<1>. SUFFICES ASSUME IInv, [Next]_vars PROVE IInv'
  OBVIOUS
<1>1. ASSUME batch < Batches, NEW r \in Responses[ids], BatchBegins(r) PROVE IInv'
  BY <1>1, BatchBeginsKeeps
<1>2. CASE Located \/ LocateStopped
  BY <1>2, LocatedKeeps
<1>3. CASE SourceJoined \/ SourceAbandoned
  BY <1>3, SettledKeeps
<1>4. CASE BatchReturns
  BY <1>4, ReturnsKeeps
<1>5. ASSUME NEW i \in Calls, McpStep(i) \/ QueryStep(i) \/ QueryThreadStep(i) \/ Read(i)
      PROVE  IInv'
  BY <1>5, McpStepKeeps, QueryStepKeeps, ReadKeeps
<1>6. ASSUME NEW b \in 1..Batches, FinderReturns(b) \/ SourceCall(b) \/ SourceEnds(b) PROVE IInv'
  BY <1>6, SourceKeeps
<1>7. CASE NextQuestion \/ Stopped \/ World \/ UNCHANGED vars
  BY <1>7, OthersKeep
<1>. QED  BY <1>1, <1>2, <1>3, <1>4, <1>5, <1>6, <1>7 DEF Next

\* The inductive invariant holds in every reachable state.
LEMMA AlwaysInv == Spec => []IInv
BY InitInv, NextInv, PTL DEF Spec

\* A call whose tool the server ran, or will yet run, never tells the model that it
\* had no effect, however its connection, its batch and its question end
\* (mcp/mod.rs Offered::call_inner, error).
THEOREM EffectsAreSaid == Spec => []EffectIsSaid
BY AlwaysInv, InvImplies, PTL

\* Whatever is stopped, fails or is broken, a session goes back to the pool with
\* nothing of its run, and no run holds it (oracle.rs run).
THEOREM PoolStaysFree == Spec => []PooledSessionsAreFree
BY AlwaysInv, InvImplies, PTL

\* A batch that is over closed every line it opened and keeps what it offered, though
\* its source thread died or was abandoned with the history (agent.rs execute_batch).
THEOREM BatchesLeaveNothing == Spec => []BatchLeavesNothingOpen
BY AlwaysInv, InvImplies, PTL

\* No identity runs twice in a response, nor again while its rows are kept
\* (voc_tools.rs query_run).
THEOREM QueriesAreOnce == Spec => []QueriesRunOnce
BY AlwaysInv, InvImplies, PTL

=============================================================================
