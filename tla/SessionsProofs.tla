--------------------------- MODULE SessionsProofs ---------------------------
(***************************************************************************)
(* Proofs about Sessions, for any number of ids, questions, entries, clock *)
(* ticks and restarts.                                                     *)
(*                                                                         *)
(* NoClaimLeft and ClaimOwned hold each other up.  A claim that owns its   *)
(* entry is never among what `open` and `sweep` drop, because an entry     *)
(* whose `running` is set neither expires nor counts as idle; a release    *)
(* changes `running` only when it is the run's own.  Opened adds what both *)
(* need of a run between `open` and its release: it has an id and a        *)
(* conversation.                                                           *)
(*                                                                         *)
(* What the model is shown (ContextIsWhatWasSaid) needs more of an         *)
(* interrupted question: its reply may be in the turns of its tab before   *)
(* it is in its conversation, or in place of one that never comes.         *)
(* TalkInv says when each is so, and that a conversation still empty is    *)
(* restored to the same whichever of its runs comes to the lock first.     *)
(***************************************************************************)
EXTENDS Sessions, FiniteSetTheorems, TLAPS

\* A run that claims a conversation has an id and a conversation object.
Opened ==
    \A r \in Runs : pc[r] \in Claiming => asks[r] \in Ids /\ claim[r] \in Runs

IInv == StoreTypeOK /\ Opened /\ NoClaimLeft /\ ClaimOwned

\* NoRun is no run.
LEMMA NoRunIsNone == NoRun \notin Runs
BY DEF NoRun, Runs

\* An entry somebody runs in is stored.
LEMMA RunningIsStored ==
    ASSUME IInv, NEW id \in Ids, entries[id].running # NoRun
    PROVE  id \in Stored /\ entries[id].running \in Runs /\ ~Expired(id)
<1>1. entries[id].running \in Runs
  BY DEF IInv, StoreTypeOK, Entry
<1>2. entries[id].conversation \in Runs
  BY <1>1 DEF IInv, NoClaimLeft, Opened
<1> QED
  BY <1>1, <1>2, NoRunIsNone DEF Stored, Expired

\* What `open` leaves of the other entries: those a run claims, and any change of
\* `running` is to NoRun from NoRun.
LEMMA OpenKeepsTheClaimed ==
    ASSUME IInv, NEW r \in Runs, NEW id \in Ids, Open(r, id),
           NEW k \in Ids, k # id
    PROVE  /\ entries'[k].running = entries[k].running
           /\ entries'[k].running # NoRun => entries'[k] = entries[k]
           /\ entries'[k] \in Entry
<1> DEFINE held == Retained(id)
<1>1. PICK dropped \in SUBSET held :
        /\ IF id \in Stored THEN dropped = {} ELSE MakesRoom(held, dropped)
        /\ entries'[k] = IF k \in held \ dropped THEN entries[k] ELSE NoEntry
  BY DEF Open
<1>2. CASE entries[k].running = NoRun
  BY <1>1, <1>2 DEF NoEntry, Entry, IInv, StoreTypeOK
<1>3. CASE entries[k].running # NoRun
  <2>1. k \in held
    BY <1>3, RunningIsStored DEF Retained
  <2>2. k \notin dropped
    BY <1>1, <1>3 DEF MakesRoom
  <2> QED
    BY <1>1, <2>1, <2>2 DEF IInv, StoreTypeOK
<1> QED
  BY <1>2, <1>3

\* The entry `open` leaves for its own id.
LEMMA OpenClaims ==
    ASSUME IInv, NEW r \in Runs, NEW id \in Ids, Open(r, id)
    PROVE  /\ entries'[id].running = r
           /\ entries'[id].conversation = claim'[r]
           /\ claim' = [claim EXCEPT ![r] = entries'[id].conversation]
           /\ entries'[id].conversation \in Runs
           /\ entries'[id] \in Entry
           /\ entries' \in [Ids -> Entry]
           /\ cancelled' = cancelled \cup ({entries[id].running} \ {NoRun})
<1>1. /\ entries'[id].running = r
      /\ entries'[id].conversation = IF id \in Stored THEN entries[id].conversation ELSE r
      /\ entries'[id].lastUsed = now
      /\ entries' = [k \in Ids |-> entries'[k]]
      /\ entries'[id] \in [conversation : {entries'[id].conversation}, running : {r}, lastUsed : {now}]
  BY DEF Open
<1>2. entries'[id].conversation \in Runs
  BY <1>1 DEF Stored, IInv, StoreTypeOK, Entry
<1>3. /\ claim' = [claim EXCEPT ![r] = entries'[id].conversation]
      /\ cancelled' = cancelled \cup ({entries[id].running} \ {NoRun})
  BY <1>1 DEF Open
<1>4. claim'[r] = entries'[id].conversation
  BY <1>3 DEF IInv, StoreTypeOK
<1>5. entries'[id] \in Entry
  BY <1>1, <1>2 DEF Entry, IInv, StoreTypeOK
<1>6. \A k \in Ids : k # id => entries'[k] \in Entry
  BY OpenKeepsTheClaimed
<1>7. entries' \in [Ids -> Entry]
  BY <1>1, <1>5, <1>6
<1> QED
  BY <1>1, <1>2, <1>3, <1>4, <1>5, <1>7

\* What a release leaves: the run's own claim is gone, any other stays.
LEMMA ReleaseKeepsTheOthers ==
    ASSUME IInv, NEW r \in Runs, Release(r), NEW k \in Ids
    PROVE  /\ entries' \in [Ids -> Entry]
           /\ entries[k].running = r => entries'[k].running = NoRun
           /\ entries[k].running # r =>
                /\ entries'[k].running = entries[k].running
                /\ entries'[k].running # NoRun => entries'[k].conversation = entries[k].conversation
<1> DEFINE id == asks[r]
<1>1. id \in Ids
  BY DEF Release, IInv, Opened, Claiming
<1>2. entries[k].running = r => k = id /\ id \in Stored
  BY RunningIsStored, NoRunIsNone DEF IInv, NoClaimLeft
<1>3. entries \in [Ids -> Entry] /\ now \in Nat
  BY DEF IInv, StoreTypeOK
<1>4. NoEntry \in Entry /\ NoEntry.running = NoRun
  BY DEF NoEntry, Entry
<1>5. CASE entries' = Close(id, r)
  BY <1>1, <1>2, <1>3, <1>4, <1>5 DEF Close
<1>6. CASE entries' = Finish(id, r)
  <2>1. CASE id \notin Stored
    BY <1>2, <1>3, <1>6, <2>1 DEF Finish
  <2>2. CASE id \in Stored
    <3>1. entries' = [entries EXCEPT ![id].running = IF @ = r THEN NoRun ELSE @, ![id].lastUsed = now]
      BY <1>6, <2>2 DEF Finish
    <3>2. /\ entries'[id].running = IF entries[id].running = r THEN NoRun ELSE entries[id].running
          /\ entries'[id].conversation = entries[id].conversation
          /\ entries'[id] \in Entry
      BY <1>1, <1>3, <3>1 DEF Entry
    <3>3. \A l \in Ids : l # id => entries'[l] = entries[l]
      BY <1>1, <1>3, <3>1
    <3>4. entries' \in [Ids -> Entry]
      BY <1>1, <1>3, <3>1, <3>2, <3>3
    <3> QED
      BY <1>2, <3>2, <3>3, <3>4
  <2> QED
    BY <2>1, <2>2
<1> QED
  BY <1>5, <1>6 DEF Release

LEMMA InitIInv == Init => IInv
<1> SUFFICES ASSUME Init PROVE IInv
  OBVIOUS
<1>1. StoreTypeOK
  BY SessionsAssumption DEF Init, StoreTypeOK, Entry, NoEntry, Stages, NoRun, Runs
<1>2. Opened /\ NoClaimLeft /\ ClaimOwned
  BY DEF Init, Opened, NoClaimLeft, ClaimOwned, Claiming, NoEntry
<1> QED
  BY <1>1, <1>2 DEF IInv

\* The steps of a run between its claim and its release move it within Claiming and
\* leave the store alone.
LEMMA MovesInside ==
    ASSUME IInv, NEW r \in Runs,
           Enter(r) \/ Refuse(r) \/ GiveUp(r) \/ Answer(r) \/ Fail(r) \/ Unlock(r)
    PROVE  /\ pc[r] \in Claiming
           /\ \E stage \in Claiming : pc' = [pc EXCEPT ![r] = stage]
           /\ UNCHANGED <<entries, now, asks, claim, cancelled, tab, restarts>>
           /\ answered' \subseteq Runs
<1>1. CASE Enter(r)
  BY <1>1 DEF Enter, Claiming, store, browser, IInv, StoreTypeOK
<1>2. CASE Refuse(r)
  BY <1>2 DEF Refuse, Claiming, store, browser, IInv, StoreTypeOK
<1>3. CASE GiveUp(r)
  BY <1>3 DEF GiveUp, Claiming, store, browser, IInv, StoreTypeOK
<1>4. CASE Answer(r)
  BY <1>4 DEF Answer, Claiming, store, browser, IInv, StoreTypeOK
<1>5. CASE Fail(r)
  BY <1>5 DEF Fail, Claiming, store, browser, IInv, StoreTypeOK
<1>6. CASE Unlock(r)
  BY <1>6 DEF Unlock, Claiming, store, browser, IInv, StoreTypeOK
<1> QED
  BY <1>1, <1>2, <1>3, <1>4, <1>5, <1>6

-----------------------------------------------------------------------------
(* One lemma per kind of step of Next. *)

LEMMA AskKeepsIInv ==
    ASSUME IInv, NEW r \in Runs, NEW id \in Ids, Ask(r, id)
    PROVE  IInv'
<1>1. /\ Open(r, id)
      /\ pc[r] = "new"
      /\ pc' = [pc EXCEPT ![r] = "waiting"]
      /\ asks' = [asks EXCEPT ![r] = id]
      /\ tab' = [tab EXCEPT ![id] = r]
      /\ UNCHANGED <<now, answered, restarts>>
  BY DEF Ask
<1>2. \A q \in Runs : pc[q] \in Claiming => q # r
  BY <1>1 DEF Claiming
<1>3. /\ pc'[r] = "waiting" /\ asks'[r] = id
      /\ \A q \in Runs : q # r => /\ pc'[q] = pc[q] /\ asks'[q] = asks[q]
                                  /\ claim'[q] = claim[q]
  BY <1>1, OpenClaims DEF IInv, StoreTypeOK
<1>4. StoreTypeOK'
  <2>1. claim' \in [Runs -> Runs \cup {NoRun}] /\ cancelled' \subseteq Runs
    <3>1. /\ claim' = [claim EXCEPT ![r] = entries'[id].conversation]
          /\ entries'[id].conversation \in Runs
          /\ cancelled' = cancelled \cup ({entries[id].running} \ {NoRun})
      BY <1>1, OpenClaims
    <3>2. /\ claim \in [Runs -> Runs \cup {NoRun}] /\ cancelled \subseteq Runs
          /\ entries[id].running \in Runs \cup {NoRun}
      BY DEF IInv, StoreTypeOK, Entry
    <3>. QED  BY <3>1, <3>2
  <2>2. entries' \in [Ids -> Entry]
    BY <1>1, OpenClaims
  <2> QED
    BY <1>1, <2>1, <2>2 DEF IInv, StoreTypeOK, Stages
<1>5. Opened'
  BY <1>1, <1>3, OpenClaims DEF IInv, Opened
<1>6. NoClaimLeft'
  <2> SUFFICES ASSUME NEW k \in Ids, entries'[k].running # NoRun
               PROVE  /\ pc'[entries'[k].running] \in Claiming
                      /\ asks'[entries'[k].running] = k
                      /\ claim'[entries'[k].running] = entries'[k].conversation
    BY DEF NoClaimLeft
  <2>1. CASE k = id
    BY <1>1, <1>3, <2>1, OpenClaims DEF Claiming
  <2>2. CASE k # id
    <3>1. entries'[k] = entries[k] /\ entries[k].running # NoRun
      BY <1>1, <2>2, OpenKeepsTheClaimed
    <3>2. entries[k].running \in Runs
      BY <3>1, RunningIsStored
    <3> QED
      BY <1>2, <1>3, <3>1, <3>2 DEF IInv, NoClaimLeft
  <2> QED
    BY <2>1, <2>2
<1>7. ClaimOwned'
  <2> SUFFICES ASSUME NEW q \in Runs, pc'[q] \in Claiming, q \notin cancelled'
               PROVE  entries'[asks'[q]].running = q
    BY DEF ClaimOwned
  <2>1. CASE q = r
    BY <1>1, <1>3, <2>1, OpenClaims
  <2>2. CASE q # r
    <3>1. /\ pc[q] \in Claiming /\ q \notin cancelled /\ asks'[q] = asks[q]
          /\ q # entries[id].running
      BY <1>1, <1>3, <2>2, OpenClaims, NoRunIsNone
    <3>2. entries[asks[q]].running = q /\ asks[q] \in Ids
      BY <3>1 DEF IInv, ClaimOwned, Opened
    <3>3. asks[q] # id
      BY <3>1, <3>2
    <3> QED
      BY <1>1, <3>1, <3>2, <3>3, OpenKeepsTheClaimed
  <2> QED
    BY <2>1, <2>2
<1> QED
  BY <1>4, <1>5, <1>6, <1>7 DEF IInv

LEMMA ReleaseKeepsIInv ==
    ASSUME IInv, NEW r \in Runs, Release(r)
    PROVE  IInv'
<1>1. /\ pc[r] = "releasing"
      /\ pc' = [pc EXCEPT ![r] = "ended"]
      /\ claim' = [claim EXCEPT ![r] = NoRun]
      /\ UNCHANGED <<now, asks, cancelled, answered, tab, restarts>>
  BY DEF Release
<1>2. \A q \in Runs : pc'[q] \in Claiming => q # r /\ pc[q] \in Claiming /\ claim'[q] = claim[q]
  BY <1>1 DEF IInv, StoreTypeOK, Claiming
<1>3. asks[r] \in Ids
  BY <1>1 DEF IInv, Opened, Claiming
<1>4. StoreTypeOK'
  BY <1>1, <1>3, ReleaseKeepsTheOthers DEF IInv, StoreTypeOK, Stages
<1>5. Opened'
  BY <1>1, <1>2 DEF IInv, Opened
<1>6. NoClaimLeft'
  <2> SUFFICES ASSUME NEW k \in Ids, entries'[k].running # NoRun
               PROVE  /\ pc'[entries'[k].running] \in Claiming
                      /\ asks'[entries'[k].running] = k
                      /\ claim'[entries'[k].running] = entries'[k].conversation
    BY DEF NoClaimLeft
  <2>1. /\ entries[k].running # r
        /\ entries'[k].running = entries[k].running
        /\ entries'[k].conversation = entries[k].conversation
    BY ReleaseKeepsTheOthers
  <2>2. entries[k].running \in Runs
    BY <2>1, RunningIsStored
  <2> QED
    BY <1>1, <2>1, <2>2 DEF IInv, StoreTypeOK, NoClaimLeft
<1>7. ClaimOwned'
  <2> SUFFICES ASSUME NEW q \in Runs, pc'[q] \in Claiming, q \notin cancelled'
               PROVE  entries'[asks'[q]].running = q
    BY DEF ClaimOwned
  <2>1. entries[asks[q]].running = q /\ asks[q] \in Ids /\ q # r
    BY <1>1, <1>2 DEF IInv, ClaimOwned, Opened
  <2> QED
    BY <1>1, <2>1, ReleaseKeepsTheOthers
<1> QED
  BY <1>4, <1>5, <1>6, <1>7 DEF IInv

LEMMA MoveKeepsIInv ==
    ASSUME IInv, NEW r \in Runs,
           Enter(r) \/ Refuse(r) \/ GiveUp(r) \/ Answer(r) \/ Fail(r) \/ Unlock(r)
    PROVE  IInv'
<1>1. PICK stage \in Claiming : pc' = [pc EXCEPT ![r] = stage]
  BY MovesInside
<1>2. /\ pc[r] \in Claiming
      /\ UNCHANGED <<entries, now, asks, claim, cancelled, tab, restarts>>
      /\ answered' \subseteq Runs
  BY MovesInside
<1>3. \A q \in Runs : pc'[q] \in Claiming <=> pc[q] \in Claiming
  BY <1>1, <1>2 DEF IInv, StoreTypeOK
<1>4. StoreTypeOK'
  BY <1>1, <1>2 DEF IInv, StoreTypeOK, Claiming, Stages
<1>5. Opened' /\ ClaimOwned'
  BY <1>2, <1>3 DEF IInv, Opened, ClaimOwned
<1>6. NoClaimLeft'
  BY <1>2, <1>3, RunningIsStored DEF IInv, NoClaimLeft
<1> QED
  BY <1>4, <1>5, <1>6 DEF IInv

LEMMA SweepKeepsIInv == ASSUME IInv, Sweep PROVE IInv'
<1>1. /\ entries' = [id \in Ids |-> IF id \in Stored /\ Expired(id) THEN NoEntry ELSE entries[id]]
      /\ UNCHANGED <<now, pc, asks, claim, cancelled, answered, tab, restarts>>
  BY DEF Sweep, runs, browser
<1>2. \A id \in Ids : entries[id].running # NoRun => entries'[id] = entries[id]
  BY <1>1, RunningIsStored
<1>3. \A id \in Ids : entries'[id].running # NoRun => entries'[id] = entries[id]
  BY <1>1 DEF NoEntry
<1>4. StoreTypeOK'
  BY <1>1 DEF IInv, StoreTypeOK, NoEntry, Entry
<1>5. Opened'
  BY <1>1 DEF IInv, Opened
<1>6. NoClaimLeft'
  BY <1>1, <1>3 DEF IInv, NoClaimLeft
<1>7. ClaimOwned'
  <2> SUFFICES ASSUME NEW q \in Runs, pc[q] \in Claiming, q \notin cancelled
               PROVE  entries'[asks[q]].running = q
    BY <1>1 DEF ClaimOwned
  <2>1. entries[asks[q]].running = q /\ asks[q] \in Ids /\ q # NoRun
    BY NoRunIsNone DEF IInv, ClaimOwned, Opened
  <2> QED
    BY <1>2, <2>1
<1> QED
  BY <1>4, <1>5, <1>6, <1>7 DEF IInv

LEMMA RestartKeepsIInv == ASSUME IInv, Restart PROVE IInv'
<1>1. StoreTypeOK'
  BY DEF Restart, IInv, StoreTypeOK, NoEntry, Entry, Stages
<1>2. Opened' /\ NoClaimLeft' /\ ClaimOwned'
  BY DEF Restart, Opened, NoClaimLeft, ClaimOwned, Claiming, NoEntry
<1> QED
  BY <1>1, <1>2 DEF IInv

\* The steps that leave the store and the claims as they are: the tab, the clock,
\* and nothing.
LEMMA RestKeepsIInv ==
    ASSUME IInv,
           UNCHANGED vars \/ Tick \/ \E r \in Runs : Receive(r) \/ Leave(r) \/ SeeClosed(r)
    PROVE  IInv'
<1>1. CASE UNCHANGED vars
  BY <1>1 DEF vars, IInv, StoreTypeOK, Opened, NoClaimLeft, ClaimOwned
<1>2. CASE Tick
  BY <1>2 DEF Tick, runs, browser, IInv, StoreTypeOK, Opened, NoClaimLeft, ClaimOwned
<1>3. ASSUME NEW r \in Runs, Receive(r) \/ Leave(r) PROVE IInv'
  <2>1. UNCHANGED <<entries, now, pc, asks, claim, cancelled, answered, restarts>>
    BY <1>3 DEF Receive, Leave, store, runs
  <2>2. tab' = [tab EXCEPT ![asks[r]] = NoRun]
    BY <1>3 DEF Receive, Leave
  <2> QED
    BY <2>1, <2>2 DEF IInv, StoreTypeOK, Opened, NoClaimLeft, ClaimOwned
<1>4. ASSUME NEW r \in Runs, SeeClosed(r) PROVE IInv'
  BY <1>4 DEF SeeClosed, store, browser, IInv, StoreTypeOK, Opened, NoClaimLeft, ClaimOwned
<1> QED
  BY <1>1, <1>2, <1>3, <1>4

LEMMA NextKeepsIInv == IInv /\ [Next]_vars => IInv'
<1> SUFFICES ASSUME IInv, [Next]_vars PROVE IInv'
  OBVIOUS
<1>1. CASE \E r \in Runs, id \in Ids : Ask(r, id)
  BY <1>1, AskKeepsIInv
<1>2. CASE \E r \in Runs : Release(r)
  BY <1>2, ReleaseKeepsIInv
<1>3. CASE \E r \in Runs : Enter(r) \/ Refuse(r) \/ GiveUp(r) \/ Answer(r) \/ Fail(r) \/ Unlock(r)
  BY <1>3, MoveKeepsIInv
<1>4. CASE Sweep
  BY <1>4, SweepKeepsIInv
<1>5. CASE Restart
  BY <1>5, RestartKeepsIInv
<1>6. CASE UNCHANGED vars \/ Tick \/ \E r \in Runs : Receive(r) \/ Leave(r) \/ SeeClosed(r)
  BY <1>6, RestKeepsIInv
<1> QED
  BY <1>1, <1>2, <1>3, <1>4, <1>5, <1>6 DEF Next, Serve

\* The inductive invariant holds in every reachable state.
THEOREM AlwaysIInv == Spec => []IInv
BY InitIInv, NextKeepsIInv, PTL DEF Spec

\* The store, the stages and the claims keep their types (session.rs, agent.rs
\* `answer`).
THEOREM StoreTyped == Spec => []StoreTypeOK
<1>1. IInv => StoreTypeOK
  BY DEF IInv
<1> QED
  BY <1>1, AlwaysIInv, PTL

\* However a run ends, no entry goes on calling it running (`Release`, `finish`,
\* `close`).
THEOREM NoClaimIsLeft == Spec => []NoClaimLeft
<1>1. IInv => NoClaimLeft
  BY DEF IInv
<1> QED
  BY <1>1, AlwaysIInv, PTL

\* A run nobody cancelled owns its conversation until it releases it: neither
\* expiry, nor the count limit, nor an older run's release takes it (`open`,
\* `sweep`, `finish`, `close`).
THEOREM ClaimIsOwned == Spec => []ClaimOwned
<1>1. IInv => ClaimOwned
  BY DEF IInv
<1> QED
  BY <1>1, AlwaysIInv, PTL

\* The claims the store keeps are those of its runs: `Release`, `finish` and `close`
\* leave none behind, and nothing else takes one away.
THEOREM ClaimsMatchRuns == Spec => []ClaimsAreRuns
<1>1. IInv => ClaimsAreRuns
  BY DEF IInv, ClaimsAreRuns
<1> QED
  BY <1>1, AlwaysIInv, PTL

-----------------------------------------------------------------------------
(* The store implements Claims. *)

owned == [id \in Ids |-> entries[id].running]

\* A claiming run owns a conversation exactly when the entry of its id says so.
LEMMA PhaseOfAClaim ==
    ASSUME IInv, NEW r \in Runs, pc[r] \in Claiming
    PROVE  phaseOf[r] = IF entries[asks[r]].running = r THEN "owns" ELSE "displaced"
<1>1. (\E id \in Ids : entries[id].running = r) <=> entries[asks[r]].running = r
  BY NoRunIsNone DEF IInv, Opened, NoClaimLeft
<1> QED
  BY <1>1 DEF phaseOf, Claiming

LEMMA PhaseOfTheOthers ==
    ASSUME NEW r \in Runs
    PROVE  /\ pc[r] = "new" => phaseOf[r] = "new"
           /\ pc[r] = "ended" => phaseOf[r] = "over"
BY DEF phaseOf

LEMMA AskTakes ==
    ASSUME IInv, IInv', NEW r \in Runs, NEW id \in Ids, Ask(r, id)
    PROVE  ClaimsOf!Take(r, id)
<1>1. /\ Open(r, id)
      /\ pc[r] = "new" /\ pc'[r] = "waiting" /\ asks'[r] = id
      /\ \A q \in Runs : q # r => pc'[q] = pc[q] /\ asks'[q] = asks[q]
  BY DEF Ask, IInv, StoreTypeOK
<1>2. phaseOf[r] = "new"
  BY <1>1, PhaseOfTheOthers
<1>3. owned' = [owned EXCEPT ![id] = r]
  <2>1. entries'[id].running = r
    BY <1>1, OpenClaims
  <2>2. \A k \in Ids : k # id => entries'[k].running = entries[k].running
    BY <1>1, OpenKeepsTheClaimed
  <2> QED
    BY <2>1, <2>2 DEF owned
<1>4. ASSUME NEW q \in Runs
      PROVE  phaseOf'[q] = IF q = r THEN "owns"
                           ELSE IF q = owned[id] THEN "displaced" ELSE phaseOf[q]
  <2>1. CASE q = r
    <3>1. \E k \in Ids : entries'[k].running = r
      BY <1>1, OpenClaims
    <3> QED
      BY <1>1, <2>1, <3>1 DEF phaseOf, Claiming
  <2>2. CASE q # r
    <3>1. (\E k \in Ids : entries'[k].running = q) <=>
          (\E k \in Ids : k # id /\ entries[k].running = q)
      BY <1>1, <2>2, OpenClaims, OpenKeepsTheClaimed
    <3>2. CASE q = owned[id]
      <4>1. pc[q] \in Claiming /\ asks[q] = id
        BY <3>2, NoRunIsNone DEF owned, IInv, NoClaimLeft
      <4>2. \A k \in Ids : entries[k].running = q => k = id
        BY <4>1, NoRunIsNone DEF IInv, NoClaimLeft
      <4> QED
        BY <1>1, <2>2, <3>1, <3>2, <4>1, <4>2 DEF phaseOf, Claiming
    <3>3. CASE q # owned[id]
      BY <1>1, <2>2, <3>1, <3>3 DEF phaseOf, owned
    <3> QED
      BY <3>2, <3>3
  <2> QED
    BY <2>1, <2>2
<1>5. phaseOf' = [q \in Runs |-> IF q = r THEN "owns"
                                 ELSE IF q = owned[id] THEN "displaced" ELSE phaseOf[q]]
  BY <1>4 DEF phaseOf
<1>6. cancelled' = cancelled \cup ({owned[id]} \ {NoRun})
  BY <1>1, OpenClaims DEF owned
<1> QED
  BY <1>2, <1>3, <1>5, <1>6 DEF ClaimsOf!Take, owned

\* A step that changes no `running`, and moves runs only within Claiming, is a
\* stutter of Claims as long as it tells nobody to stop.
LEMMA Stutters ==
    ASSUME \A id \in Ids : entries'[id].running = entries[id].running,
           \A r \in Runs : pc'[r] = pc[r] \/ {pc[r], pc'[r]} \subseteq Claiming
    PROVE  owned' = owned /\ phaseOf' = phaseOf
<1>1. owned' = owned
  BY DEF owned
<1>2. ASSUME NEW r \in Runs PROVE phaseOf'[r] = phaseOf[r]
  <2>1. (\E id \in Ids : entries'[id].running = r) <=> (\E id \in Ids : entries[id].running = r)
    OBVIOUS
  <2> QED
    BY <2>1 DEF phaseOf, Claiming
<1>3. phaseOf' = phaseOf
  BY <1>2 DEF phaseOf
<1> QED
  BY <1>1, <1>3

LEMMA ReleaseGives ==
    ASSUME IInv, IInv', NEW r \in Runs, Release(r)
    PROVE  (\E id \in Ids : ClaimsOf!Give(r, id)) \/ ClaimsOf!EndDisplaced(r)
<1>1. /\ pc[r] = "releasing" /\ pc[r] \in Claiming /\ pc'[r] = "ended"
      /\ \A q \in Runs : q # r => pc'[q] = pc[q]
      /\ cancelled' = cancelled
  BY DEF Release, IInv, StoreTypeOK, Claiming
<1>2. asks[r] \in Ids
  BY <1>1 DEF IInv, Opened
<1>3. \A k \in Ids : entries'[k].running = IF entries[k].running = r THEN NoRun ELSE entries[k].running
  BY ReleaseKeepsTheOthers
<1>4. ASSUME NEW q \in Runs PROVE phaseOf'[q] = IF q = r THEN "over" ELSE phaseOf[q]
  <2>1. CASE q = r
    BY <1>1, <2>1 DEF phaseOf
  <2>2. CASE q # r
    <3>1. (\E k \in Ids : entries'[k].running = q) <=> (\E k \in Ids : entries[k].running = q)
      BY <1>3, <2>2, NoRunIsNone
    <3> QED
      BY <1>1, <2>2, <3>1 DEF phaseOf
  <2> QED
    BY <2>1, <2>2
<1>5. phaseOf' = [phaseOf EXCEPT ![r] = "over"]
  <2>1. phaseOf' = [q \in Runs |-> IF q = r THEN "over" ELSE phaseOf[q]]
    BY <1>4 DEF phaseOf
  <2>2. phaseOf = [q \in Runs |-> phaseOf[q]]
    BY DEF phaseOf
  <2> QED
    BY <2>1, <2>2
<1>6. CASE entries[asks[r]].running = r
  <2>1. phaseOf[r] = "owns"
    BY <1>1, <1>6, PhaseOfAClaim
  <2>2. \A k \in Ids : entries[k].running = r => k = asks[r]
    BY NoRunIsNone DEF IInv, NoClaimLeft
  <2>3. owned' = [owned EXCEPT ![asks[r]] = NoRun]
    BY <1>2, <1>3, <1>6, <2>2 DEF owned
  <2>4. \E id \in Ids : ClaimsOf!Give(r, id)
    BY <1>1, <1>2, <1>5, <1>6, <2>1, <2>3 DEF ClaimsOf!Give, owned
  <2> QED
    BY <2>4
<1>7. CASE entries[asks[r]].running # r
  <2>1. phaseOf[r] = "displaced"
    BY <1>1, <1>7, PhaseOfAClaim
  <2>2. \A k \in Ids : entries[k].running # r
    BY <1>7, NoRunIsNone DEF IInv, NoClaimLeft
  <2>3. owned' = owned
    BY <1>3, <2>2 DEF owned
  <2>4. ClaimsOf!EndDisplaced(r)
    BY <1>1, <1>5, <2>1, <2>3 DEF ClaimsOf!EndDisplaced, owned
  <2> QED
    BY <2>4
<1> QED
  BY <1>6, <1>7

LEMMA SeeClosedTells ==
    ASSUME IInv, NEW r \in Runs, SeeClosed(r)
    PROVE  ClaimsOf!Tell(r)
<1>1. /\ pc[r] \in Claiming /\ cancelled' = cancelled \cup {r}
      /\ UNCHANGED <<entries, pc>>
  BY DEF SeeClosed, store
<1>2. phaseOf[r] \in {"owns", "displaced"}
  BY <1>1, PhaseOfAClaim
<1>3. owned' = owned /\ phaseOf' = phaseOf
  BY <1>1, Stutters
<1> QED
  BY <1>1, <1>2, <1>3 DEF ClaimsOf!Tell, owned

LEMMA RestartLoses ==
    ASSUME IInv, Restart
    PROVE  ClaimsOf!Lose
<1>1. /\ entries' = [id \in Ids |-> NoEntry]
      /\ pc' = [r \in Runs |-> IF pc[r] = "new" THEN "new" ELSE "ended"]
      /\ cancelled' = cancelled
  BY DEF Restart
<1>2. owned' = [id \in Ids |-> NoRun]
  BY <1>1 DEF owned, NoEntry
<1>3. ASSUME NEW r \in Runs PROVE phaseOf'[r] = IF phaseOf[r] = "new" THEN "new" ELSE "over"
  <2>1. CASE pc[r] = "new"
    BY <1>1, <2>1 DEF phaseOf
  <2>2. CASE pc[r] = "ended"
    BY <1>1, <2>2 DEF phaseOf
  <2>3. CASE pc[r] \in Claiming
    BY <1>1, <2>3, PhaseOfAClaim DEF phaseOf, Claiming
  <2> QED
    BY <2>1, <2>2, <2>3 DEF IInv, StoreTypeOK, Stages, Claiming
<1>4. phaseOf' = [r \in Runs |-> IF phaseOf[r] = "new" THEN "new" ELSE "over"]
  BY <1>3 DEF phaseOf
<1> QED
  BY <1>1, <1>2, <1>4 DEF ClaimsOf!Lose, owned

LEMMA NextRefines ==
    ASSUME IInv, IInv', [Next]_vars
    PROVE  [ClaimsOf!Next]_<<owned, phaseOf, cancelled>>
<1>1. ASSUME NEW r \in Runs, NEW id \in Ids, Ask(r, id) PROVE ClaimsOf!Next
  BY <1>1, AskTakes DEF ClaimsOf!Next
<1>2. ASSUME NEW r \in Runs, Release(r) PROVE ClaimsOf!Next
  BY <1>2, ReleaseGives DEF ClaimsOf!Next
<1>3. ASSUME NEW r \in Runs, SeeClosed(r) PROVE ClaimsOf!Next
  BY <1>3, SeeClosedTells DEF ClaimsOf!Next
<1>4. CASE Restart
  BY <1>4, RestartLoses DEF ClaimsOf!Next
<1>5. ASSUME NEW r \in Runs,
             Enter(r) \/ Refuse(r) \/ GiveUp(r) \/ Answer(r) \/ Fail(r) \/ Unlock(r)
      PROVE  UNCHANGED <<owned, phaseOf, cancelled>>
  <2>1. PICK stage \in Claiming : pc' = [pc EXCEPT ![r] = stage]
    BY <1>5, MovesInside
  <2>2. pc[r] \in Claiming /\ UNCHANGED <<entries, cancelled>>
    BY <1>5, MovesInside
  <2>3. \A q \in Runs : pc'[q] = pc[q] \/ {pc[q], pc'[q]} \subseteq Claiming
    BY <2>1, <2>2 DEF IInv, StoreTypeOK
  <2> QED
    BY <2>2, <2>3, Stutters
<1>6. CASE Sweep
  <2>1. UNCHANGED <<pc, cancelled>>
    BY <1>6 DEF Sweep, runs
  <2>2. \A id \in Ids : entries'[id].running = entries[id].running
    BY <1>6 DEF Sweep, Expired, NoEntry
  <2> QED
    BY <2>1, <2>2, Stutters
<1>7. CASE UNCHANGED vars \/ Tick \/ \E r \in Runs : Receive(r) \/ Leave(r)
  <2>1. UNCHANGED <<entries, pc, cancelled>>
    BY <1>7 DEF vars, Tick, Receive, Leave, store, runs
  <2> QED
    BY <2>1, Stutters
<1> QED
  BY <1>1, <1>2, <1>3, <1>4, <1>5, <1>6, <1>7 DEF Next, Serve

\* The store implements Claims: a conversation belongs to the newest question asked
\* in it until that question ends (session.rs `open`, `finish`, `close`, `sweep`).
THEOREM ClaimsAreKept == Spec => KeepsClaims
<1>1. Init => ClaimsOf!Init
  BY DEF Init, ClaimsOf!Init, phaseOf, NoEntry
<1>2. IInv /\ IInv' /\ [Next]_vars => [ClaimsOf!Next]_<<owned, phaseOf, cancelled>>
  BY NextRefines
<1>3. IInv /\ IInv' /\ [Next]_vars => [ClaimsOf!Next]_(ClaimsOf!claims)
  BY <1>2 DEF ClaimsOf!claims, owned
<1> QED
  BY <1>1, <1>3, AlwaysIInv, PTL DEF Spec, KeepsClaims, ClaimsOf!Spec

-----------------------------------------------------------------------------
(* What the model is shown. *)

\* In turns a tab keeps, a reply is to the question before it.  The first turn's
\* question may have left the window.
Talked(turns) ==
    \A i \in 2..Len(turns) :
        turns[i].role = "assistant" => turns[i - 1] = Asked(turns[i].run)

\* The questions whose replies stand among these turns, each after its question.
Replies(turns) ==
    {turns[i].run : i \in {j \in 2..Len(turns) : turns[j].role = "assistant"}}

\* In a conversation no reply stands without its question.
WellReplied(turns) ==
    \A i \in DOMAIN turns :
        turns[i].role = "assistant" => i > 1 /\ turns[i - 1] = Asked(turns[i].run)

\* What it is to be one of them.
LEMMA RepliesAre ==
    \A turns, p : p \in Replies(turns) <=>
        \E i \in 2..Len(turns) : turns[i].role = "assistant" /\ turns[i].run = p
BY Zenon DEF Replies

\* A turn the tab adds stands last and is kept, and no older reply comes back.
LEMMA RememberKeeps ==
    ASSUME NEW turns \in Seq(Turn), Len(turns) <= Window, Talked(turns), NEW t \in Turn,
           t.role = "assistant" => turns # <<>> /\ Last(turns) = Asked(t.run)
    PROVE  /\ Remember(turns, t) \in Seq(Turn)
           /\ Len(Remember(turns, t)) <= Window
           /\ Talked(Remember(turns, t))
           /\ Remember(turns, t) # <<>> /\ Last(Remember(turns, t)) = t
           /\ \A p \in Replies(Remember(turns, t)) :
                p \in Replies(turns) \/ (t.role = "assistant" /\ p = t.run)
<1>. DEFINE all == Append(turns, t)
            n == Len(turns)
<1>1. n \in Nat /\ Window \in Nat \ {0}
  BY SessionsAssumption
<1>2. /\ all \in Seq(Turn) /\ Len(all) = n + 1 /\ all[n + 1] = t
      /\ \A i \in 1..n : all[i] = turns[i]
  OBVIOUS
<1>3. Talked(all)
  <2>1. \A i \in 2..n : i - 1 \in 1..n /\ i \in 1..n
    BY <1>1
  <2>2. \A i \in 2..n : all[i].role = "assistant" => all[i - 1] = Asked(all[i].run)
    <3>. HIDE DEF all
    <3>. QED  BY <1>2, <2>1 DEF Talked
  <2>3. t.role = "assistant" => n \in 1..n /\ turns[n] = Asked(t.run)
    BY <1>1 DEF Last
  <2>. HIDE DEF all
  <2>4. n + 1 \in 2..(n + 1) /\ all[n + 1].role = "assistant" => all[(n + 1) - 1] = Asked(all[n + 1].run)
    BY <1>1, <1>2, <2>3
  <2>5. \A i \in 2..(n + 1) : i \in 2..n \/ i = n + 1
    BY <1>1
  <2>. QED  BY <1>2, <2>2, <2>4, <2>5 DEF Talked
<1>4. \A p \in Replies(all) : p \in Replies(turns) \/ (t.role = "assistant" /\ p = t.run)
  <2>. HIDE DEF all
  <2>1. SUFFICES ASSUME NEW i \in 2..(n + 1), all[i].role = "assistant"
                 PROVE  all[i].run \in Replies(turns) \/ (t.role = "assistant" /\ all[i].run = t.run)
    BY <1>2, RepliesAre
  <2>2. CASE i = n + 1
    BY <1>2, <2>1, <2>2
  <2>3. CASE i \in 2..n
    BY <1>2, <2>1, <2>3, RepliesAre
  <2>. QED  BY <1>1, <2>2, <2>3
<1>5. CASE n + 1 <= Window
  <2>1. Remember(turns, t) = all
    BY <1>1, <1>2, <1>5 DEF Remember
  <2>. HIDE DEF all
  <2>. QED  BY <1>1, <1>2, <1>3, <1>4, <1>5, <2>1 DEF Last
<1>6. CASE ~(n + 1 <= Window)
  <2>. DEFINE left == SubSeq(all, 2, n + 1)
  <2>1. n = Window /\ n \in Nat \ {0}
    BY <1>1, <1>6
  <2>2. Remember(turns, t) = left
    <3>1. Len(all) > Window /\ Len(all) - Window + 1 = 2
      BY <1>1, <1>2, <2>1
    <3>. QED  BY <1>2, <3>1 DEF Remember
  <2>. HIDE DEF all
  <2>3. left \in Seq(Turn) /\ Len(left) = n /\ \A i \in 1..n : left[i] = all[i + 1]
    BY <1>2, <2>1
  <2>. HIDE DEF left
  <2>4. \A i \in 2..n : /\ i - 1 \in 1..n /\ i \in 1..n /\ i + 1 \in 2..(n + 1)
                        /\ (i - 1) + 1 = (i + 1) - 1
    BY <2>1
  <2>5. \A i \in 2..n : left[i] = all[i + 1] /\ left[i - 1] = all[(i + 1) - 1]
    BY <2>3, <2>4
  <2>6. Talked(left)
    <3>1. SUFFICES ASSUME NEW i \in 2..n, left[i].role = "assistant"
                   PROVE  left[i - 1] = Asked(left[i].run)
      BY <2>3 DEF Talked
    <3>2. i + 1 \in 2..Len(all) /\ all[i + 1].role = "assistant"
      BY <1>2, <2>4, <2>5, <3>1
    <3>3. all[(i + 1) - 1] = Asked(all[i + 1].run)
      BY <1>3, <3>2 DEF Talked
    <3>. QED  BY <2>5, <3>3
  <2>7. Replies(left) \subseteq Replies(all)
    <3>1. SUFFICES ASSUME NEW i \in 2..n, left[i].role = "assistant"
                   PROVE  left[i].run \in Replies(all)
      BY <2>3, RepliesAre
    <3>2. i + 1 \in 2..Len(all) /\ all[i + 1] = left[i]
      BY <1>2, <2>4, <2>5
    <3>. QED  BY <3>1, <3>2, RepliesAre
  <2>8. left # <<>> /\ Last(left) = t
    BY <1>2, <2>1, <2>3 DEF Last
  <2>. QED  BY <1>4, <2>1, <2>2, <2>3, <2>6, <2>7, <2>8
<1>. QED  BY <1>5, <1>6

\* A turn added to a conversation: nothing of it goes.
LEMMA AppendTells ==
    ASSUME NEW turns \in Seq(Turn), WellReplied(turns), NEW t \in Turn,
           t.role = "assistant" => turns # <<>> /\ Last(turns) = Asked(t.run)
    PROVE  /\ Append(turns, t) \in Seq(Turn)
           /\ WellReplied(Append(turns, t))
           /\ Append(turns, t) # <<>> /\ Last(Append(turns, t)) = t
           /\ ToSet(turns) \cup {t} \subseteq ToSet(Append(turns, t))
           /\ t.role = "assistant" => Asked(t.run) \in ToSet(Append(turns, t))
<1>. DEFINE all == Append(turns, t)
            n == Len(turns)
<1>1. n \in Nat
  OBVIOUS
<1>2. /\ all \in Seq(Turn) /\ Len(all) = n + 1 /\ all[n + 1] = t
      /\ \A i \in 1..n : all[i] = turns[i]
      /\ DOMAIN turns = 1..n /\ DOMAIN all = 1..(n + 1)
  OBVIOUS
<1>. HIDE DEF all
<1>3. t.role = "assistant" => n \in 1..n /\ turns[n] = Asked(t.run)
  BY <1>1 DEF Last
<1>4. WellReplied(all)
  <2>. SUFFICES ASSUME NEW i \in 1..(n + 1), all[i].role = "assistant"
                PROVE  i > 1 /\ all[i - 1] = Asked(all[i].run)
    BY <1>2 DEF WellReplied
  <2>1. CASE i = n + 1
    BY <1>1, <1>2, <1>3, <2>1
  <2>2. CASE i \in 1..n
    <3>1. all[i] = turns[i]
      BY <1>2, <2>2
    <3>2. i > 1 /\ turns[i - 1] = Asked(turns[i].run)
      BY <1>2, <2>2, <3>1 DEF WellReplied
    <3>3. i - 1 \in 1..n
      BY <1>1, <2>2, <3>2
    <3>. QED  BY <1>2, <3>1, <3>2, <3>3
  <2>. QED  BY <1>1, <2>1, <2>2
<1>5. n + 1 \in 1..(n + 1) /\ \A i \in 1..n : i \in 1..(n + 1)
  BY <1>1
<1>6. ToSet(turns) \cup {t} \subseteq ToSet(all)
  BY <1>2, <1>5 DEF ToSet
<1>7. t.role = "assistant" => Asked(t.run) \in ToSet(all)
  BY <1>2, <1>3, <1>6 DEF ToSet
<1>8. all # <<>> /\ Last(all) = t
  BY <1>1, <1>2 DEF Last
<1>. QED  BY <1>2, <1>4, <1>6, <1>7, <1>8 DEF all

\* Where a member of a set of numbers stands in their order.
Place(S, i) == Cardinality({k \in S : k <= i})

\* Every place is had by one number, and the next number has the next.
LEMMA PlacesAreInOrder ==
    ASSUME NEW n \in Nat, NEW S \in SUBSET (1..n)
    PROVE  /\ Cardinality(S) \in Nat
           /\ \A i \in S : Place(S, i) \in 1..Cardinality(S)
           /\ \A i, j \in S : Place(S, i) = Place(S, j) => i = j
           /\ \A p \in 1..Cardinality(S) : \E i \in S : Place(S, i) = p
           /\ \A i \in S : i - 1 \in S => Place(S, i) = Place(S, i - 1) + 1
<1>. DEFINE UpTo(i) == {k \in S : k <= i}
<1>1. IsFiniteSet(S) /\ Cardinality(S) \in Nat /\ S \in SUBSET Nat
  <2>1. IsFiniteSet(1..n)
    BY FS_Interval
  <2>2. IsFiniteSet(S)
    BY <2>1, FS_Subset
  <2>3. Cardinality(S) \in Nat
    BY <2>2, FS_CardinalityType
  <2>. QED  BY <2>2, <2>3
<1>2. ASSUME NEW i \in S
      PROVE  /\ IsFiniteSet(UpTo(i)) /\ Cardinality(UpTo(i)) \in 1..Cardinality(S)
             /\ i \in UpTo(i)
  <2>1. UpTo(i) \subseteq S /\ i \in UpTo(i)
    BY <1>1
  <2>2. IsFiniteSet(UpTo(i))
    BY <1>1, <2>1, FS_Subset
  <2>3. Cardinality(UpTo(i)) \in Nat /\ Cardinality(UpTo(i)) <= Cardinality(S)
    BY <1>1, <2>1, <2>2, FS_Subset, FS_CardinalityType
  <2>4. Cardinality(UpTo(i)) # 0
    <3>. HIDE DEF UpTo
    <3>. QED  BY <2>1, <2>2, FS_EmptySet
  <2>. QED  BY <1>1, <2>1, <2>2, <2>3, <2>4
<1>3. ASSUME NEW i \in S, NEW j \in S, i < j
      PROVE  Cardinality(UpTo(i)) < Cardinality(UpTo(j))
  <2>1. UpTo(i) \subseteq UpTo(j) /\ j \in UpTo(j) /\ j \notin UpTo(i)
    <3>1. i \in Nat /\ j \in Nat /\ \A k \in S : k \in Nat
      BY <1>1
    <3>2. j <= j /\ ~(j <= i) /\ \A k \in S : k <= i => k <= j
      BY <1>3, <3>1
    <3>. QED  BY <3>2
  <2>. HIDE DEF UpTo
  <2>2. UpTo(i) \in SUBSET UpTo(j) /\ UpTo(i) # UpTo(j)
    BY <2>1
  <2>3. /\ Cardinality(UpTo(i)) <= Cardinality(UpTo(j))
        /\ Cardinality(UpTo(i)) # Cardinality(UpTo(j))
    BY <1>2, <2>2, FS_Subset
  <2>. QED  BY <1>1, <1>2, <2>3
<1>4. \A i, j \in S : Cardinality(UpTo(i)) = Cardinality(UpTo(j)) => i = j
  <2>. SUFFICES ASSUME NEW i \in S, NEW j \in S, Cardinality(UpTo(i)) = Cardinality(UpTo(j))
                PROVE  i = j
    OBVIOUS
  <2>1. Cardinality(UpTo(i)) \in Nat
    BY <1>1, <1>2
  <2>. HIDE DEF UpTo
  <2>2. ~(i < j) /\ ~(j < i)
    BY <1>3, <2>1
  <2>. QED  BY <1>1, <2>2
<1>5. ASSUME NEW p \in 1..Cardinality(S) PROVE \E i \in S : Cardinality(UpTo(i)) = p
  <2>. DEFINE f == [i \in S |-> Cardinality(UpTo(i))]
              N == 1..Cardinality(S)
  <2>1. f \in Injection(S, N)
    <3>1. f \in [S -> N]
      BY <1>2
    <3>2. \A i, j \in S : f[i] = f[j] => i = j
      BY <1>4
    <3>. HIDE DEF f, N
    <3>. QED  BY <3>1, <3>2 DEF Injection, IsInjective
  <2>2. IsFiniteSet(N) /\ Cardinality(N) = Cardinality(S)
    BY <1>1, FS_Interval
  <2>3. f \in Surjection(S, N)
    <3>. HIDE DEF f, N
    <3>. QED  BY <1>1, <2>1, <2>2, FS_Injection
  <2>4. \E i \in S : f[i] = p
    <3>. HIDE DEF f
    <3>. QED  BY <2>3 DEF Surjection
  <2>. QED  BY <2>4
<1>6. ASSUME NEW i \in S, i - 1 \in S
      PROVE  Cardinality(UpTo(i)) = Cardinality(UpTo(i - 1)) + 1
  <2>1. UpTo(i) = UpTo(i - 1) \cup {i} /\ i \notin UpTo(i - 1)
    <3>1. i \in Nat /\ \A k \in S : k \in Nat
      BY <1>1
    <3>2. ~(i <= i - 1) /\ \A k \in S : k <= i <=> (k <= i - 1 \/ k = i)
      BY <3>1
    <3>. QED  BY <3>2
  <2>2. IsFiniteSet(UpTo(i - 1))
    BY <1>2, <1>6
  <2>. HIDE DEF UpTo
  <2>. QED  BY <2>1, <2>2, FS_AddElement
<1>. QED  BY <1>1, <1>2, <1>4, <1>5, <1>6 DEF Place

Exchange(q) == {Asked(q), Said(q)}

\* What a conversation is restored from it has: every exchange the tab kept whole,
\* and no reply but with its question.
LEMMA RestorableTells ==
    ASSUME NEW turns \in Seq(Turn), Talked(turns)
    PROVE  /\ Restorable(turns) \in Seq(Turn)
           /\ WellReplied(Restorable(turns))
           /\ \A p \in Replies(turns) : Exchange(p) \subseteq ToSet(Restorable(turns))
<1>. DEFINE n == Len(turns)
            goes == {i \in 1..n : \/ turns[i].role = "user"
                                  \/ i > 1 /\ turns[i - 1].role = "user"}
            size == Cardinality(goes)
            at(p) == CHOOSE i \in goes : Place(goes, i) = p
            R == Restorable(turns)
<1>1. n \in Nat /\ \A i \in 1..n : turns[i] \in Turn
  OBVIOUS
<1>2. R = [p \in 1..size |-> turns[at(p)]]
  BY DEF Restorable, Place
<1>3. goes \in SUBSET (1..n)
  OBVIOUS
<1>4. \A i \in 1..n : i \in goes <=> (turns[i].role = "user" \/ (i > 1 /\ turns[i - 1].role = "user"))
  OBVIOUS
<1>. HIDE DEF goes, R
<1>5. /\ size \in Nat
      /\ \A i \in goes : Place(goes, i) \in 1..size
      /\ \A i, j \in goes : Place(goes, i) = Place(goes, j) => i = j
      /\ \A p \in 1..size : \E i \in goes : Place(goes, i) = p
      /\ \A i \in goes : i - 1 \in goes => Place(goes, i) = Place(goes, i - 1) + 1
  BY <1>1, <1>3, PlacesAreInOrder
<1>6. \A p \in 1..size : at(p) \in goes /\ Place(goes, at(p)) = p
  BY <1>5
<1>7. \A i \in goes : at(Place(goes, i)) = i
  BY <1>5, <1>6
<1>. HIDE DEF at, size
<1>8. R \in Seq(Turn) /\ DOMAIN R = 1..size /\ Len(R) = size
  <2>1. \A p \in 1..size : turns[at(p)] \in Turn
    BY <1>1, <1>3, <1>6
  <2>. QED  BY <1>2, <1>5, <2>1
<1>9. \A i \in goes : Place(goes, i) \in DOMAIN R /\ R[Place(goes, i)] = turns[i]
  BY <1>2, <1>5, <1>7, <1>8
<1>10. WellReplied(R)
  <2>. SUFFICES ASSUME NEW p \in 1..size, R[p].role = "assistant"
                PROVE  p > 1 /\ R[p - 1] = Asked(R[p].run)
    BY <1>8 DEF WellReplied
  <2>. DEFINE i == at(p)
  <2>1. i \in goes /\ i \in 1..n /\ Place(goes, i) = p /\ R[p] = turns[i]
    BY <1>2, <1>3, <1>6
  <2>. HIDE DEF i
  <2>2. i > 1 /\ turns[i - 1].role = "user"
    BY <1>4, <2>1
  <2>3. i - 1 \in 1..n /\ i \in 2..n
    BY <1>1, <2>1, <2>2
  <2>4. i - 1 \in goes
    BY <1>4, <2>2, <2>3
  <2>5. Place(goes, i - 1) \in 1..size /\ p = Place(goes, i - 1) + 1
    BY <1>5, <2>1, <2>4
  <2>6. p > 1 /\ p - 1 = Place(goes, i - 1)
    BY <1>5, <2>5
  <2>7. turns[i - 1] = Asked(turns[i].run)
    BY <2>1, <2>3 DEF Talked
  <2>. QED  BY <1>9, <2>1, <2>4, <2>6, <2>7
<1>11. ASSUME NEW p \in Replies(turns) PROVE Exchange(p) \subseteq ToSet(R)
  <2>1. PICK i \in 2..n : turns[i].role = "assistant" /\ turns[i].run = p
    BY RepliesAre
  <2>2. i \in 1..n /\ i - 1 \in 1..n /\ i > 1
    BY <1>1
  <2>3. turns[i] = Said(p)
    BY <1>1, <2>1, <2>2 DEF Turn, Said
  <2>4. turns[i - 1] = Asked(p)
    BY <2>1 DEF Talked
  <2>5. turns[i - 1].role = "user"
    BY <2>4 DEF Asked
  <2>6. i \in goes /\ i - 1 \in goes
    BY <1>4, <2>2, <2>5
  <2>7. Said(p) \in ToSet(R) /\ Asked(p) \in ToSet(R)
    BY <1>9, <2>3, <2>4, <2>6 DEF ToSet
  <2>. QED  BY <2>7 DEF Exchange
<1>. QED  BY <1>8, <1>10, <1>11 DEF R

\* A run that is past the model and returned no answer: it never will.
Unanswered(q) == pc[q] \in {"done", "releasing", "ended"} /\ q \notin answered

\* Conversation o has q's exchange, or will have it if q is answered at all.
Held(q, o) ==
    \/ Exchange(q) \subseteq ToSet(log[o])
    \/ pc[q] = "asking" /\ claim[q] = o
    \/ Unanswered(q)

\* q's reply is among the turns the tab of id keeps, or sent with its question.
IsShown(q, id) ==
    \/ q \in Replies(kept[id])
    \/ \E r \in Runs : /\ tab[id] = r /\ pc[r] \in {"waiting", "asking"}
                       /\ q \in Replies(sent[r])

\* A question has one id for good, its conversation's, and the run a tab waits for
\* is not told to stop.
NamesOK ==
    /\ \A r \in Runs : pc[r] = "new" => log[r] = <<>> /\ r \notin cancelled
    /\ \A r \in Runs : pc[r] # "new" => asks[r] \in Ids
    /\ \A r, o \in Runs : claim[r] = o =>
         pc[r] \in Claiming /\ pc[o] # "new" /\ asks[o] = asks[r]
    /\ \A id \in Ids, o \in Runs : entries[id].conversation = o => pc[o] # "new" /\ asks[o] = id
    /\ \A r \in answered : pc[r] \in {"done", "releasing", "ended"}
    /\ \A id \in Ids, r \in Runs : tab[id] = r =>
         pc[r] # "new" /\ asks[r] = id /\ (pc[r] \in Claiming => r \notin cancelled)

\* The lock: one run at a time is inside a conversation.
Alone ==
    \A q, r \in Runs :
        pc[q] \in Inside /\ pc[r] \in Inside /\ claim[q] = claim[r] => q = r

\* While the model is asked, the conversation ends with the question.
LogOK ==
    /\ \A o \in Runs : WellReplied(log[o])
    /\ \A r \in Runs : pc[r] = "asking" =>
         log[claim[r]] # <<>> /\ Last(log[claim[r]]) = Asked(r)

\* While a tab waits, the last turn it keeps is the question.
TabOK ==
    /\ \A id \in Ids : Talked(kept[id])
    /\ \A r \in Runs : Talked(sent[r])
    /\ \A id \in Ids, r \in Runs : tab[id] = r => kept[id] # <<>> /\ Last(kept[id]) = Asked(r)

\* A conversation that goes on holds what its tab shows.
HoldsWhatIsShown ==
    \A id \in Ids, o \in Runs :
        entries[id].conversation = o /\ log[o] # <<>> =>
            \A p \in Runs : IsShown(p, id) => Held(p, o)

\* One that is to be restored will hold it, whichever of its runs comes first.
BringsWhatIsShown ==
    \A id \in Ids : \A q, o \in Runs :
        pc[q] = "waiting" /\ asks[q] = id /\ claim[q] = o =>
            (entries[id].conversation = o /\ log[o] = <<>> =>
                \A p \in Runs : IsShown(p, id) => p \in Replies(sent[q]) \/ Unanswered(p))

\* An answer on its way to its tab is in the conversation.
AnswerIsHeld ==
    \A id \in Ids : \A o, q \in Runs :
        entries[id].conversation = o /\ tab[id] = q /\ q \in answered =>
            Exchange(q) \subseteq ToSet(log[o])

TalkInv ==
    /\ TalkTypeOK /\ NamesOK /\ Alone /\ LogOK /\ TabOK
    /\ HoldsWhatIsShown /\ BringsWhatIsShown /\ AnswerIsHeld

LEMMA EmptyTalk ==
    <<>> \in Seq(Turn) /\ Len(<<>>) <= Window /\ Talked(<<>>) /\ WellReplied(<<>>)
<1>1. Len(<<>>) = 0 /\ <<>> \in Seq(Turn) /\ DOMAIN <<>> = 1..0
  OBVIOUS
<1>2. 2..0 = {} /\ 1..0 = {}
  OBVIOUS
<1>. QED  BY <1>1, <1>2, SessionsAssumption DEF Talked, WellReplied

LEMMA InitTalkInv == Init => TalkInv
<1>. SUFFICES ASSUME Init PROVE TalkInv
  OBVIOUS
<1>0. /\ \A r \in Runs : pc[r] = "new" /\ claim[r] = NoRun /\ log[r] = <<>> /\ sent[r] = <<>>
      /\ \A id \in Ids : tab[id] = NoRun /\ kept[id] = <<>> /\ entries[id].conversation = NoRun
      /\ cancelled = {} /\ answered = {}
      /\ log = [r \in Runs |-> <<>>] /\ sent = [r \in Runs |-> <<>>] /\ kept = [id \in Ids |-> <<>>]
  BY DEF Init, NoEntry
<1>1. TalkTypeOK
  BY <1>0, EmptyTalk DEF TalkTypeOK
<1>2. NamesOK
  BY <1>0, NoRunIsNone DEF NamesOK
<1>3. Alone /\ LogOK /\ TabOK
  BY <1>0, EmptyTalk, NoRunIsNone DEF Alone, LogOK, TabOK, Inside
<1>4. HoldsWhatIsShown /\ BringsWhatIsShown /\ AnswerIsHeld
  <2>1. \A id \in Ids, o \in Runs : entries[id].conversation # o
    BY <1>0, NoRunIsNone
  <2>. QED  BY <2>1 DEF HoldsWhatIsShown, BringsWhatIsShown, AnswerIsHeld
<1>. QED  BY <1>1, <1>2, <1>3, <1>4 DEF TalkInv

\* The conversation of a run its tab waits for is the one the store has.
LEMMA TabsRunOwns ==
    ASSUME IInv, NamesOK, NEW id \in Ids, NEW r \in Runs, tab[id] = r, pc[r] \in Claiming
    PROVE  asks[r] = id /\ claim[r] \in Runs /\ entries[id].conversation = claim[r]
<1>1. asks[r] = id /\ r \notin cancelled
  BY DEF NamesOK
<1>2. entries[id].running = r
  BY <1>1 DEF IInv, ClaimOwned
<1>3. r # NoRun
  BY NoRunIsNone
<1>. QED  BY <1>1, <1>2, <1>3 DEF IInv, NoClaimLeft, Opened

\* What the model is shown has every exchange the tab sent with the question.
LEMMA TalkIsWhatWasSaid == IInv /\ TalkInv => ContextIsWhatWasSaid
<1>. SUFFICES ASSUME IInv, TalkInv PROVE ContextHasTheAnswers /\ ReplyFollowsItsQuestion
  BY DEF ContextIsWhatWasSaid
<1>1. ReplyFollowsItsQuestion
  BY DEF TalkInv, LogOK, WellReplied, ReplyFollowsItsQuestion
<1>2. ContextHasTheAnswers
  <2>. SUFFICES ASSUME NEW r \in Runs, pc[r] = "asking", tab[asks[r]] = r,
                       NEW i \in 2..Len(sent[r]), sent[r][i].role = "assistant",
                       sent[r][i].run \in answered
                PROVE  {Asked(sent[r][i].run), sent[r][i]} \subseteq ToSet(log[claim[r]])
    BY DEF ContextHasTheAnswers
  <2>. DEFINE p == sent[r][i].run
              id == asks[r]
  <2>1. sent[r] \in Seq(Turn) /\ sent[r][i] \in Turn
    <3>1. sent[r] \in Seq(Turn)
      BY DEF TalkInv, TalkTypeOK
    <3>. QED  BY <3>1
  <2>2. p \in Runs /\ sent[r][i] = Said(p) /\ p \in Replies(sent[r])
    BY <2>1, RepliesAre DEF Turn, Said
  <2>3. id \in Ids /\ claim[r] \in Runs /\ entries[id].conversation = claim[r]
    <3>1. pc[r] \in Claiming
      BY DEF Claiming
    <3>2. id \in Ids
      BY <3>1 DEF IInv, Opened
    <3>. QED  BY <3>1, <3>2, TabsRunOwns DEF TalkInv
  <2>4. IsShown(p, id)
    BY <2>2 DEF IsShown
  <2>5. log[claim[r]] # <<>>
    BY DEF TalkInv, LogOK
  <2>6. Held(p, claim[r])
    BY <2>2, <2>3, <2>4, <2>5 DEF TalkInv, HoldsWhatIsShown
  <2>7. p \in answered /\ pc[p] \in {"done", "releasing", "ended"}
    BY DEF TalkInv, NamesOK
  <2>. QED  BY <2>2, <2>6, <2>7 DEF Held, Unanswered, Exchange
<1>. QED  BY <1>1, <1>2

-----------------------------------------------------------------------------
(* One lemma per kind of step, for the turns. *)

\* The steps that say nothing: a run leaves the lock or its place before it, gives
\* its claim back, is told to stop; the store drops entries; time passes.
QuietStep ==
    /\ UNCHANGED <<asks, answered, log, kept, tab>>
    /\ \A r \in Runs :
         /\ \/ pc'[r] = pc[r]
            \/ pc[r] \in {"waiting", "done"} /\ pc'[r] = "releasing"
            \/ pc[r] = "releasing" /\ pc'[r] = "ended" /\ claim'[r] = NoRun
         /\ \/ claim'[r] = claim[r] /\ sent'[r] = sent[r]
            \/ pc'[r] = "ended" /\ claim'[r] = NoRun /\ sent'[r] = <<>>
         /\ r \in cancelled' => r \in cancelled \/ (pc[r] \in Claiming /\ tab[asks[r]] # r)
    /\ \A id \in Ids, o \in Runs : entries'[id].conversation = o => entries[id].conversation = o
    /\ sent' \in [Runs -> Seq(Turn)]

LEMMA QuietSteps ==
    ASSUME IInv, TalkInv,
           \/ Sweep \/ Tick \/ UNCHANGED vars
           \/ \E r \in Runs : GiveUp(r) \/ Unlock(r) \/ Release(r) \/ SeeClosed(r)
    PROVE  QuietStep
<1>. USE DEF IInv, StoreTypeOK, TalkInv, TalkTypeOK
<1>1. CASE Sweep
  <2>1. \A id \in Ids : entries'[id] = entries[id] \/ entries'[id] = NoEntry
    BY <1>1 DEF Sweep
  <2>. QED  BY <1>1, <2>1, NoRunIsNone DEF Sweep, runs, browser, QuietStep, NoEntry
<1>2. CASE Tick
  BY <1>2 DEF Tick, runs, browser, QuietStep
<1>3. CASE UNCHANGED vars
  BY <1>3 DEF vars, QuietStep
<1>4. ASSUME NEW r \in Runs, GiveUp(r) PROVE QuietStep
  BY <1>4 DEF GiveUp, store, browser, QuietStep
<1>5. ASSUME NEW r \in Runs, Unlock(r) PROVE QuietStep
  BY <1>5 DEF Unlock, store, browser, QuietStep
<1>6. ASSUME NEW r \in Runs, SeeClosed(r) PROVE QuietStep
  BY <1>6 DEF SeeClosed, store, browser, QuietStep
<1>7. ASSUME NEW r \in Runs, Release(r) PROVE QuietStep
  <2>1. \A id \in Ids : \/ entries'[id] = NoEntry
                        \/ entries'[id].conversation = entries[id].conversation
    <3>1. entries' = Close(asks[r], r) \/ entries' = Finish(asks[r], r)
      BY <1>7 DEF Release
    <3>2. asks[r] \in Ids /\ entries \in [Ids -> Entry]
      BY <1>7 DEF Release, Opened, Claiming
    <3>3. CASE entries' = Close(asks[r], r)
      BY <3>2, <3>3 DEF Close
    <3>4. CASE entries' = Finish(asks[r], r)
      <4>1. \A k \in Ids : entries[k].conversation = [entries[k] EXCEPT !.lastUsed = now].conversation
        BY <3>2 DEF Entry
      <4>. QED  BY <3>2, <3>4 DEF Finish, Entry
    <3>. QED  BY <3>1, <3>3, <3>4
  <2>2. \A id \in Ids, o \in Runs : entries'[id].conversation = o => entries[id].conversation = o
    <3>1. NoEntry.conversation = NoRun
      BY DEF NoEntry
    <3>. QED  BY <2>1, <3>1, NoRunIsNone
  <2>3. /\ pc[r] = "releasing" /\ pc' = [pc EXCEPT ![r] = "ended"]
        /\ claim' = [claim EXCEPT ![r] = NoRun] /\ sent' = [sent EXCEPT ![r] = <<>>]
        /\ UNCHANGED <<asks, cancelled, answered, log, kept, tab>>
    BY <1>7 DEF Release
  <2>4. sent' \in [Runs -> Seq(Turn)]
    BY <2>3, EmptyTalk
  <2>. QED  BY <2>2, <2>3, <2>4 DEF QuietStep
<1>. QED  BY <1>1, <1>2, <1>3, <1>4, <1>5, <1>6, <1>7

LEMMA QuietKeepsTalk ==
    ASSUME IInv, TalkInv, QuietStep
    PROVE  TalkInv'
<1>0. /\ TalkTypeOK /\ NamesOK /\ Alone /\ LogOK /\ TabOK
      /\ HoldsWhatIsShown /\ BringsWhatIsShown /\ AnswerIsHeld
  BY DEF TalkInv
<1>1. TalkTypeOK'
  BY <1>0 DEF QuietStep, TalkTypeOK
<1>2. NamesOK'
  <2>1. \A r \in Runs : (pc'[r] = "new" <=> pc[r] = "new") /\ (pc'[r] \in Claiming => pc[r] \in Claiming)
    BY DEF QuietStep, Claiming
  <2>2. \A r \in Runs : pc'[r] = "new" => log'[r] = <<>> /\ r \notin cancelled'
    BY <1>0, <2>1 DEF QuietStep, NamesOK, Claiming
  <2>3. \A r, o \in Runs : claim'[r] = o =>
          pc'[r] \in Claiming /\ pc'[o] # "new" /\ asks'[o] = asks'[r]
    <3>. SUFFICES ASSUME NEW r \in Runs, NEW o \in Runs, claim'[r] = o
                  PROVE  pc'[r] \in Claiming /\ pc'[o] # "new" /\ asks'[o] = asks'[r]
      OBVIOUS
    <3>1. claim[r] = o
      BY NoRunIsNone DEF QuietStep
    <3>2. pc[r] \in Claiming /\ pc[o] # "new" /\ asks[o] = asks[r]
      BY <1>0, <3>1 DEF NamesOK
    <3>3. pc'[r] \in Claiming
      BY <3>2, NoRunIsNone DEF QuietStep, Claiming
    <3>. QED  BY <2>1, <3>2, <3>3 DEF QuietStep
  <2>4. \A id \in Ids, r \in Runs : tab'[id] = r =>
          pc'[r] # "new" /\ asks'[r] = id /\ (pc'[r] \in Claiming => r \notin cancelled')
    BY <1>0, <2>1 DEF QuietStep, NamesOK
  <2>5. \A r \in answered' : pc'[r] \in {"done", "releasing", "ended"}
    <3>1. answered \subseteq Runs
      BY DEF IInv, StoreTypeOK
    <3>. QED  BY <1>0, <3>1 DEF QuietStep, NamesOK
  <2>6. \A id \in Ids, o \in Runs : entries'[id].conversation = o => pc'[o] # "new" /\ asks'[o] = id
    BY <1>0, <2>1 DEF QuietStep, NamesOK
  <2>7. \A r \in Runs : pc'[r] # "new" => asks'[r] \in Ids
    BY <1>0, <2>1 DEF QuietStep, NamesOK
  <2>. QED  BY <2>2, <2>3, <2>4, <2>5, <2>6, <2>7 DEF NamesOK
<1>3. Alone' /\ LogOK'
  <2>1. \A r \in Runs : pc'[r] \in Inside => pc[r] = pc'[r] /\ claim'[r] = claim[r]
    BY DEF QuietStep, Inside
  <2>2. Alone'
    BY <1>0, <2>1 DEF Alone
  <2>3. \A r \in Runs : pc'[r] = "asking" => pc[r] = "asking" /\ claim'[r] = claim[r]
    BY DEF QuietStep
  <2>. QED  BY <1>0, <2>2, <2>3 DEF LogOK, QuietStep
<1>4. TabOK'
  BY <1>0, EmptyTalk DEF QuietStep, TabOK
<1>5. \A p \in Runs, id \in Ids : IsShown(p, id)' => IsShown(p, id)
  <2>1. \A r \in Runs : pc'[r] \in {"waiting", "asking"} => pc[r] = pc'[r] /\ sent'[r] = sent[r]
    BY DEF QuietStep
  <2>. QED  BY <2>1 DEF QuietStep, IsShown
<1>6. \A p \in Runs : Unanswered(p) => Unanswered(p)'
  BY DEF QuietStep, Unanswered
<1>7. \A p, o \in Runs : Held(p, o) => Held(p, o)'
  <2>1. \A r \in Runs : pc[r] = "asking" => pc'[r] = "asking" /\ claim'[r] = claim[r]
    BY DEF QuietStep
  <2>. QED  BY <1>6, <2>1 DEF QuietStep, Held
<1>8. HoldsWhatIsShown'
  BY <1>0, <1>5, <1>7 DEF HoldsWhatIsShown, QuietStep
<1>9. BringsWhatIsShown'
  <2>1. \A r \in Runs : pc'[r] = "waiting" => pc[r] = "waiting" /\ sent'[r] = sent[r] /\ claim'[r] = claim[r]
    BY DEF QuietStep
  <2>2. SUFFICES ASSUME NEW id \in Ids, NEW q \in Runs, NEW o \in Runs,
                        pc'[q] = "waiting", asks'[q] = id, claim'[q] = o,
                        entries'[id].conversation = o, log'[o] = <<>>,
                        NEW p \in Runs, IsShown(p, id)'
                 PROVE  p \in Replies(sent'[q]) \/ Unanswered(p)'
    BY DEF BringsWhatIsShown
  <2>3. /\ pc[q] = "waiting" /\ asks[q] = id /\ claim[q] = o /\ sent'[q] = sent[q]
        /\ entries[id].conversation = o /\ log[o] = <<>>
    BY <2>1, <2>2 DEF QuietStep
  <2>4. IsShown(p, id)
    BY <1>5, <2>2
  <2>5. p \in Replies(sent[q]) \/ Unanswered(p)
    BY <1>0, <2>3, <2>4 DEF BringsWhatIsShown
  <2>. QED  BY <1>6, <2>3, <2>5
<1>10. AnswerIsHeld'
  <2>. SUFFICES ASSUME NEW id \in Ids, NEW o \in Runs, NEW q \in Runs,
                       entries'[id].conversation = o, tab'[id] = q, q \in answered'
                PROVE  Exchange(q) \subseteq ToSet(log'[o])
    BY DEF AnswerIsHeld
  <2>1. entries[id].conversation = o /\ tab[id] = q /\ q \in answered /\ log' = log
    BY DEF QuietStep
  <2>. QED  BY <1>0, <2>1 DEF AnswerIsHeld
<1>. QED  BY <1>1, <1>2, <1>3, <1>4, <1>8, <1>9, <1>10 DEF TalkInv

\* The tab takes the last line or leaves: it waits no more, and may keep a reply.
LEMMA TabKeepsTalk ==
    ASSUME IInv, TalkInv, NEW r \in Runs, Receive(r) \/ Leave(r)
    PROVE  TalkInv'
<1>0. /\ TalkTypeOK /\ NamesOK /\ Alone /\ LogOK /\ TabOK
      /\ HoldsWhatIsShown /\ BringsWhatIsShown /\ AnswerIsHeld
  BY DEF TalkInv
<1>. DEFINE here == asks[r]
<1>1. /\ UNCHANGED <<entries, pc, asks, claim, cancelled, answered, log, sent>>
      /\ tab' = [tab EXCEPT ![here] = NoRun] /\ pc[r] # "new" /\ tab[here] = r
      /\ \/ kept' = kept
         \/ /\ r \in answered \/ pc[r] \in {"asking", "done", "releasing", "ended"}
            /\ kept' = [kept EXCEPT ![here] = Remember(kept[here], Said(r))]
  BY DEF Receive, Leave, store, runs
<1>2. here \in Ids
  BY <1>0, <1>1 DEF NamesOK
<1>3. /\ tab \in [Ids -> Runs \cup {NoRun}]
      /\ kept \in [Ids -> {turns \in Seq(Turn) : Len(turns) <= Window}]
  BY <1>0 DEF IInv, StoreTypeOK, TalkTypeOK
<1>. DEFINE now1 == Remember(kept[here], Said(r))
<1>4. /\ now1 \in Seq(Turn) /\ Len(now1) <= Window /\ Talked(now1)
      /\ \A p \in Replies(now1) : p \in Replies(kept[here]) \/ p = r
  <2>1. kept[here] \in Seq(Turn) /\ Len(kept[here]) <= Window /\ Talked(kept[here])
    BY <1>0, <1>2, <1>3 DEF TabOK
  <2>2. kept[here] # <<>> /\ Last(kept[here]) = Asked(r)
    BY <1>0, <1>1, <1>2 DEF TabOK
  <2>3. Said(r) \in Turn /\ Said(r).run = r
    BY DEF Said, Turn
  <2>. QED  BY <2>1, <2>2, <2>3, RememberKeeps
<1>. HIDE DEF now1
<1>5. \A id \in Ids : /\ id # here => kept'[id] = kept[id] /\ tab'[id] = tab[id]
                      /\ tab'[here] = NoRun
                      /\ kept'[here] = kept[here] \/
                         (/\ r \in answered \/ pc[r] \in {"asking", "done", "releasing", "ended"}
                          /\ kept'[here] = now1)
  BY <1>1, <1>2, <1>3 DEF now1
<1>6. TalkTypeOK'
  <2>1. kept' \in [Ids -> {turns \in Seq(Turn) : Len(turns) <= Window}]
    BY <1>1, <1>3, <1>4 DEF now1
  <2>. QED  BY <1>0, <1>1, <2>1 DEF TalkTypeOK
<1>7. NamesOK' /\ Alone' /\ LogOK'
  <2>1. \A id \in Ids, q \in Runs : tab'[id] = q => tab[id] = q
    BY <1>2, <1>5, NoRunIsNone
  <2>2. NamesOK'
    BY <1>0, <1>1, <2>1 DEF NamesOK
  <2>. QED  BY <1>0, <1>1, <2>2 DEF Alone, LogOK
<1>8. TabOK'
  BY <1>0, <1>1, <1>2, <1>4, <1>5, NoRunIsNone DEF TabOK
<1>9. ASSUME NEW p \in Runs, NEW id \in Ids, IsShown(p, id)'
      PROVE  \/ IsShown(p, id)
             \/ /\ id = here /\ p = r
                /\ r \in answered \/ pc[r] \in {"asking", "done", "releasing", "ended"}
  <2>1. CASE id # here
    BY <1>1, <1>5, <1>9, <2>1 DEF IsShown
  <2>2. CASE id = here
    <3>1. p \in Replies(kept'[here])
      BY <1>2, <1>5, <1>9, <2>2, NoRunIsNone DEF IsShown
    <3>. QED  BY <1>2, <1>4, <1>5, <2>2, <3>1 DEF IsShown
  <2>. QED  BY <2>1, <2>2
<1>10. ASSUME NEW o \in Runs, entries[here].conversation = o,
              r \in answered \/ pc[r] \in {"asking", "done", "releasing", "ended"}
       PROVE  Held(r, o) /\ (log[o] = <<>> => Unanswered(r))
  <2>1. CASE pc[r] = "asking"
    <3>1. claim[r] = o
      BY <1>0, <1>1, <1>2, <1>10, <2>1, TabsRunOwns DEF Claiming
    <3>. QED  BY <1>0, <2>1, <3>1 DEF Held, LogOK
  <2>2. CASE r \in answered
    <3>1. Exchange(r) \subseteq ToSet(log[o])
      BY <1>0, <1>1, <1>2, <1>10, <2>2 DEF AnswerIsHeld
    <3>2. log[o] # <<>>
      <4>1. Said(r) \in ToSet(log[o])
        BY <3>1 DEF Exchange
      <4>2. DOMAIN <<>> = {}
        OBVIOUS
      <4>. QED  BY <4>1, <4>2 DEF ToSet
    <3>. QED  BY <3>1, <3>2 DEF Held
  <2>3. CASE r \notin answered /\ pc[r] # "asking"
    BY <1>10, <2>3 DEF Held, Unanswered
  <2>. QED  BY <2>1, <2>2, <2>3
<1>11. HoldsWhatIsShown'
  <2>. SUFFICES ASSUME NEW id \in Ids, NEW o \in Runs, entries[id].conversation = o, log[o] # <<>>,
                       NEW p \in Runs, IsShown(p, id)'
                PROVE  Held(p, o)'
    BY <1>1 DEF HoldsWhatIsShown
  <2>1. Held(p, o)
    BY <1>0, <1>9, <1>10 DEF HoldsWhatIsShown
  <2>. QED  BY <1>1, <2>1 DEF Held, Unanswered
<1>12. BringsWhatIsShown'
  <2>. SUFFICES ASSUME NEW q \in Runs, NEW id \in Ids, NEW o \in Runs,
                       pc[q] = "waiting", asks[q] = id, claim[q] = o,
                       entries[id].conversation = o, log[o] = <<>>,
                       NEW p \in Runs, IsShown(p, id)'
                PROVE  p \in Replies(sent[q]) \/ Unanswered(p)'
    BY <1>1 DEF BringsWhatIsShown
  <2>1. p \in Replies(sent[q]) \/ Unanswered(p)
    BY <1>0, <1>9, <1>10 DEF BringsWhatIsShown
  <2>. QED  BY <1>1, <2>1 DEF Unanswered
<1>13. AnswerIsHeld'
  <2>1. \A id \in Ids, q \in Runs : tab'[id] = q => tab[id] = q
    BY <1>2, <1>5, NoRunIsNone
  <2>. QED  BY <1>0, <1>1, <2>1 DEF AnswerIsHeld
<1>. QED  BY <1>6, <1>7, <1>8, <1>11, <1>12, <1>13 DEF TalkInv

\* What a run in its conversation changes: its own stage and that conversation,
\* of which nothing goes.
SpeakStep(r) ==
    /\ UNCHANGED <<entries, asks, claim, cancelled, sent, kept, tab>>
    /\ pc' = [pc EXCEPT ![r] = pc'[r]]
    /\ log' = [log EXCEPT ![claim[r]] = log'[claim[r]]]
    /\ log'[claim[r]] \in Seq(Turn) /\ WellReplied(log'[claim[r]])
    /\ ToSet(log[claim[r]]) \subseteq ToSet(log'[claim[r]])
    /\ log[claim[r]] # <<>> => log'[claim[r]] # <<>>

\* A waiting run comes in: the conversation is restored from what it brings, unless
\* it has something, and ends with the question or refuses it.
BeginStep(r) ==
    /\ pc[r] = "waiting" /\ Free(claim[r])
    /\ answered' = answered
    /\ \/ /\ pc'[r] = "asking"
          /\ log'[claim[r]] # <<>> /\ Last(log'[claim[r]]) = Asked(r)
       \/ pc'[r] = "done"
    /\ log[claim[r]] = <<>> =>
         \A p \in Replies(sent[r]) : Exchange(p) \subseteq ToSet(log'[claim[r]])

\* The model is done: an answer is in the conversation before it is returned.
EndStep(r) ==
    /\ pc[r] = "asking" /\ pc'[r] = "done"
    /\ \/ answered' = answered
       \/ /\ answered' = answered \cup {r}
          /\ Exchange(r) \subseteq ToSet(log'[claim[r]])

LEMMA Begins ==
    ASSUME IInv, TalkInv, NEW r \in Runs, Enter(r) \/ Refuse(r)
    PROVE  SpeakStep(r) /\ BeginStep(r)
<1>. DEFINE o == claim[r]
            new == log'[o]
<1>1. /\ pc[r] = "waiting" /\ Free(o)
      /\ UNCHANGED <<entries, asks, claim, cancelled, answered, sent, kept, tab>>
      /\ \/ /\ log' = [log EXCEPT ![o] = Append(Begin(r), Asked(r))]
            /\ pc' = [pc EXCEPT ![r] = "asking"]
         \/ log' = [log EXCEPT ![o] = Begin(r)] /\ pc' = [pc EXCEPT ![r] = "done"]
  BY DEF Enter, Refuse, store, browser
<1>2. o \in Runs
  BY <1>1 DEF IInv, Opened, Claiming
<1>3. log \in [Runs -> Seq(Turn)] /\ sent[r] \in Seq(Turn) /\ pc \in [Runs -> Stages]
  BY DEF TalkInv, TalkTypeOK, IInv, StoreTypeOK
<1>4. /\ Begin(r) \in Seq(Turn) /\ WellReplied(Begin(r))
      /\ log[o] # <<>> => Begin(r) = log[o]
      /\ log[o] = <<>> => \A p \in Replies(sent[r]) : Exchange(p) \subseteq ToSet(Begin(r))
  <2>1. CASE log[o] = <<>>
    <3>1. Begin(r) = Restorable(sent[r])
      BY <2>1 DEF Begin
    <3>2. Talked(sent[r])
      BY DEF TalkInv, TabOK
    <3>. QED  BY <1>3, <2>1, <3>1, <3>2, RestorableTells
  <2>2. CASE log[o] # <<>>
    <3>1. Begin(r) = log[o]
      BY <2>2 DEF Begin
    <3>2. WellReplied(log[o])
      BY <1>2 DEF TalkInv, LogOK
    <3>. QED  BY <1>2, <1>3, <2>2, <3>1, <3>2
  <2>. QED  BY <2>1, <2>2
<1>5. ToSet(log[o]) \subseteq ToSet(Begin(r))
  <2>1. ToSet(<<>>) = {}
    <3>1. DOMAIN <<>> = {}
      OBVIOUS
    <3>. QED  BY <3>1 DEF ToSet
  <2>. QED  BY <1>4, <2>1
<1>6. Asked(r) \in Turn /\ Asked(r).role = "user"
  BY DEF Asked, Turn
<1>7. /\ Append(Begin(r), Asked(r)) \in Seq(Turn) /\ WellReplied(Append(Begin(r), Asked(r)))
      /\ Append(Begin(r), Asked(r)) # <<>> /\ Last(Append(Begin(r), Asked(r))) = Asked(r)
      /\ ToSet(Begin(r)) \subseteq ToSet(Append(Begin(r), Asked(r)))
  BY <1>4, <1>6, AppendTells
<1>8. \/ new = Append(Begin(r), Asked(r)) /\ pc'[r] = "asking"
      \/ new = Begin(r) /\ pc'[r] = "done"
  BY <1>1, <1>2, <1>3
<1>9. log' = [log EXCEPT ![o] = new] /\ pc' = [pc EXCEPT ![r] = pc'[r]]
  BY <1>1, <1>2, <1>3
<1>. HIDE DEF new, o
<1>10. SpeakStep(r)
  <2>1. new \in Seq(Turn) /\ WellReplied(new) /\ ToSet(log[o]) \subseteq ToSet(new)
    BY <1>4, <1>5, <1>7, <1>8
  <2>2. log[o] # <<>> => new # <<>>
    BY <1>4, <1>7, <1>8
  <2>. QED  BY <1>1, <1>9, <2>1, <2>2 DEF SpeakStep, o, new
<1>11. BeginStep(r)
  <2>1. log[o] = <<>> => \A p \in Replies(sent[r]) : Exchange(p) \subseteq ToSet(new)
    BY <1>4, <1>7, <1>8
  <2>. QED  BY <1>1, <1>7, <1>8, <2>1 DEF BeginStep, o, new
<1>. QED  BY <1>10, <1>11

LEMMA Ends ==
    ASSUME IInv, TalkInv, NEW r \in Runs, Answer(r) \/ Fail(r)
    PROVE  SpeakStep(r) /\ EndStep(r)
<1>. DEFINE o == claim[r]
            new == log'[o]
<1>1. /\ pc[r] = "asking" /\ pc' = [pc EXCEPT ![r] = "done"]
      /\ UNCHANGED <<entries, asks, claim, cancelled, sent, kept, tab>>
      /\ \/ log' = log /\ answered' = answered
         \/ /\ log' = [log EXCEPT ![o] = Append(log[o], Said(r))]
            /\ answered' \in {answered, answered \cup {r}}
  BY DEF Answer, Fail, store, browser
<1>2. o \in Runs
  BY <1>1 DEF IInv, Opened, Claiming
<1>3. log \in [Runs -> Seq(Turn)] /\ pc \in [Runs -> Stages]
  BY DEF TalkInv, TalkTypeOK, IInv, StoreTypeOK
<1>4. log[o] \in Seq(Turn) /\ WellReplied(log[o]) /\ log[o] # <<>> /\ Last(log[o]) = Asked(r)
  BY <1>1, <1>2, <1>3 DEF TalkInv, LogOK
<1>5. Said(r) \in Turn /\ Said(r).run = r
  BY DEF Said, Turn
<1>. DEFINE more == Append(log[o], Said(r))
<1>6. /\ more \in Seq(Turn) /\ WellReplied(more) /\ more # <<>>
      /\ ToSet(log[o]) \cup {Said(r)} \subseteq ToSet(more)
      /\ Asked(r) \in ToSet(more)
  <2>1. Said(r).role = "assistant"
    BY DEF Said
  <2>. QED  BY <1>4, <1>5, <2>1, AppendTells
<1>. HIDE DEF more
<1>7. \/ new = log[o] /\ answered' = answered
      \/ new = more /\ answered' \in {answered, answered \cup {r}}
  BY <1>1, <1>2, <1>3 DEF more
<1>8. /\ log' = [log EXCEPT ![o] = new] /\ pc' = [pc EXCEPT ![r] = pc'[r]] /\ pc'[r] = "done"
  BY <1>1, <1>2, <1>3
<1>. HIDE DEF new, o
<1>9. SpeakStep(r)
  BY <1>1, <1>4, <1>6, <1>7, <1>8 DEF SpeakStep, o, new
<1>10. EndStep(r)
  BY <1>1, <1>6, <1>7, <1>8 DEF EndStep, Exchange, o, new
<1>. QED  BY <1>9, <1>10

\* What holds of either step, whichever of the two it is.
LEMMA SpeakGrows ==
    ASSUME IInv, TalkInv, NEW r \in Runs, SpeakStep(r), pc[r] \in Claiming
    PROVE  /\ claim[r] \in Runs
           /\ \A q \in Runs : q # r => pc'[q] = pc[q]
           /\ \A o \in Runs : o # claim[r] => log'[o] = log[o]
           /\ \A o \in Runs : /\ ToSet(log[o]) \subseteq ToSet(log'[o])
                              /\ log[o] # <<>> => log'[o] # <<>>
                              /\ WellReplied(log'[o])
           /\ TalkTypeOK'
<1>1. claim[r] \in Runs
  BY DEF IInv, Opened
<1>2. log \in [Runs -> Seq(Turn)] /\ pc \in [Runs -> Stages]
  BY DEF TalkInv, TalkTypeOK, IInv, StoreTypeOK
<1>3. /\ \A q \in Runs : q # r => pc'[q] = pc[q]
      /\ \A o \in Runs : o # claim[r] => log'[o] = log[o]
  BY <1>1, <1>2 DEF SpeakStep
<1>4. \A o \in Runs : /\ ToSet(log[o]) \subseteq ToSet(log'[o])
                      /\ log[o] # <<>> => log'[o] # <<>>
                      /\ WellReplied(log'[o])
  <2>. SUFFICES ASSUME NEW o \in Runs
                PROVE  /\ ToSet(log[o]) \subseteq ToSet(log'[o])
                       /\ log[o] # <<>> => log'[o] # <<>>
                       /\ WellReplied(log'[o])
    OBVIOUS
  <2>1. CASE o = claim[r]
    BY <2>1 DEF SpeakStep
  <2>2. CASE o # claim[r]
    BY <1>3, <2>2 DEF TalkInv, LogOK
  <2>. QED  BY <2>1, <2>2
<1>5. TalkTypeOK'
  <2>1. log' \in [Runs -> Seq(Turn)]
    BY <1>1, <1>2 DEF SpeakStep
  <2>. QED  BY <2>1 DEF TalkInv, TalkTypeOK, SpeakStep
<1>. QED  BY <1>1, <1>3, <1>4, <1>5

LEMMA SpeakKeepsNames ==
    ASSUME IInv, TalkInv, NEW r \in Runs, SpeakStep(r),
           pc[r] \in {"waiting", "asking"}, pc'[r] \in {"asking", "done"},
           answered' = answered \/ (answered' = answered \cup {r} /\ pc'[r] = "done")
    PROVE  NamesOK' /\ TabOK'
<1>0. NamesOK /\ TabOK /\ pc[r] \in Claiming /\ answered \subseteq Runs
  BY DEF TalkInv, Claiming, IInv, StoreTypeOK
<1>1. /\ claim[r] \in Runs
      /\ \A q \in Runs : q # r => pc'[q] = pc[q]
      /\ \A o \in Runs : o # claim[r] => log'[o] = log[o]
  BY <1>0, SpeakGrows
<1>2. \A q \in Runs : (pc'[q] = "new" <=> pc[q] = "new") /\ (pc'[q] \in Claiming <=> pc[q] \in Claiming)
  BY <1>1 DEF Claiming
<1>3. pc[claim[r]] # "new"
  BY <1>0, <1>1 DEF NamesOK
<1>4. UNCHANGED <<entries, asks, claim, cancelled, sent, kept, tab>>
  BY DEF SpeakStep
<1>5. \A q \in Runs : pc'[q] = "new" => log'[q] = <<>> /\ q \notin cancelled'
  BY <1>0, <1>1, <1>2, <1>3, <1>4 DEF NamesOK
<1>6. \A q \in answered' : pc'[q] \in {"done", "releasing", "ended"}
  <2>. SUFFICES ASSUME NEW q \in answered' PROVE pc'[q] \in {"done", "releasing", "ended"}
    OBVIOUS
  <2>1. CASE q = r /\ answered' # answered
    BY <2>1
  <2>2. CASE q \in answered
    <3>1. pc[q] \in {"done", "releasing", "ended"} /\ q \in Runs
      BY <1>0, <2>2 DEF NamesOK
    <3>2. q # r
      BY <3>1
    <3>. QED  BY <1>1, <3>1, <3>2
  <2>. QED  BY <2>1, <2>2
<1>7. NamesOK'
  BY <1>0, <1>2, <1>4, <1>5, <1>6 DEF NamesOK
<1>8. TabOK'
  BY <1>0, <1>4 DEF TabOK
<1>. QED  BY <1>7, <1>8

LEMMA BeginKeepsTalk ==
    ASSUME IInv, TalkInv, NEW r \in Runs, SpeakStep(r), BeginStep(r)
    PROVE  TalkInv'
<1>0. /\ TalkTypeOK /\ NamesOK /\ Alone /\ LogOK /\ TabOK
      /\ HoldsWhatIsShown /\ BringsWhatIsShown /\ AnswerIsHeld
  BY DEF TalkInv
<1>. DEFINE c == claim[r]
<1>1. pc[r] = "waiting" /\ pc'[r] \in {"asking", "done"} /\ answered' = answered /\ pc[r] \in Claiming
  BY DEF BeginStep, Claiming
<1>2. /\ c \in Runs
      /\ \A q \in Runs : q # r => pc'[q] = pc[q]
      /\ \A o \in Runs : o # c => log'[o] = log[o]
      /\ \A o \in Runs : /\ ToSet(log[o]) \subseteq ToSet(log'[o])
                         /\ log[o] # <<>> => log'[o] # <<>>
                         /\ WellReplied(log'[o])
      /\ TalkTypeOK'
  BY <1>1, SpeakGrows
<1>3. UNCHANGED <<entries, asks, claim, cancelled, sent, kept, tab>>
  BY DEF SpeakStep
<1>4. NamesOK' /\ TabOK'
  BY <1>1, SpeakKeepsNames
<1>5. \A q \in Runs : pc[q] \in Inside => claim[q] # c
  BY DEF BeginStep, Free
<1>6. Alone'
  BY <1>0, <1>2, <1>3, <1>5 DEF Alone
<1>7. LogOK'
  <2>. SUFFICES ASSUME NEW q \in Runs, pc'[q] = "asking"
                PROVE  log'[claim[q]] # <<>> /\ Last(log'[claim[q]]) = Asked(q)
    BY <1>2, <1>3 DEF LogOK
  <2>1. CASE q = r
    BY <2>1 DEF BeginStep
  <2>2. CASE q # r
    <3>1. pc[q] = "asking" /\ pc[q] \in Inside /\ claim[q] \in Runs
      BY <1>2, <2>2 DEF Inside, IInv, Opened, Claiming
    <3>2. log'[claim[q]] = log[claim[q]]
      BY <1>2, <1>5, <3>1
    <3>. QED  BY <1>0, <3>1, <3>2 DEF LogOK
  <2>. QED  BY <2>1, <2>2
<1>8. \A p \in Runs, id \in Ids : IsShown(p, id)' => IsShown(p, id)
  <2>1. \A q \in Runs : pc'[q] \in {"waiting", "asking"} => pc[q] \in {"waiting", "asking"}
    BY <1>1, <1>2
  <2>. QED  BY <1>3, <2>1 DEF IsShown
<1>9. \A p \in Runs : Unanswered(p) => Unanswered(p)'
  BY <1>1, <1>2 DEF Unanswered
<1>10. \A p, o \in Runs : Held(p, o) => Held(p, o)'
  BY <1>1, <1>2, <1>3, <1>9 DEF Held
<1>11. HoldsWhatIsShown'
  <2>. SUFFICES ASSUME NEW id \in Ids, NEW o \in Runs, entries[id].conversation = o,
                       log'[o] # <<>>, NEW p \in Runs, IsShown(p, id)
                PROVE  Held(p, o)'
    BY <1>3, <1>8 DEF HoldsWhatIsShown
  <2>1. CASE log[o] # <<>>
    BY <1>0, <1>10, <2>1 DEF HoldsWhatIsShown
  <2>2. CASE log[o] = <<>>
    <3>1. o = c
      BY <1>2, <2>2
    <3>2. asks[r] = id
      BY <1>0, <3>1 DEF NamesOK
    <3>3. p \in Replies(sent[r]) \/ Unanswered(p)
      BY <1>0, <1>1, <2>2, <3>1, <3>2 DEF BringsWhatIsShown
    <3>4. p \in Replies(sent[r]) => Exchange(p) \subseteq ToSet(log'[o])
      BY <2>2, <3>1 DEF BeginStep
    <3>. QED  BY <1>9, <3>3, <3>4 DEF Held
  <2>. QED  BY <2>1, <2>2
<1>12. BringsWhatIsShown'
  <2>. SUFFICES ASSUME NEW q \in Runs, NEW id \in Ids, NEW o \in Runs,
                       pc'[q] = "waiting", asks[q] = id, claim[q] = o,
                       entries[id].conversation = o, log'[o] = <<>>,
                       NEW p \in Runs, IsShown(p, id)
                PROVE  p \in Replies(sent[q]) \/ Unanswered(p)'
    BY <1>3, <1>8 DEF BringsWhatIsShown
  <2>1. pc[q] = "waiting" /\ log[o] = <<>>
    BY <1>1, <1>2
  <2>2. p \in Replies(sent[q]) \/ Unanswered(p)
    BY <1>0, <2>1 DEF BringsWhatIsShown
  <2>. QED  BY <1>9, <2>2
<1>13. AnswerIsHeld'
  BY <1>0, <1>1, <1>2, <1>3 DEF AnswerIsHeld
<1>. QED  BY <1>2, <1>4, <1>6, <1>7, <1>11, <1>12, <1>13 DEF TalkInv

LEMMA EndKeepsTalk ==
    ASSUME IInv, TalkInv, NEW r \in Runs, SpeakStep(r), EndStep(r)
    PROVE  TalkInv'
<1>0. /\ TalkTypeOK /\ NamesOK /\ Alone /\ LogOK /\ TabOK
      /\ HoldsWhatIsShown /\ BringsWhatIsShown /\ AnswerIsHeld
  BY DEF TalkInv
<1>. DEFINE c == claim[r]
<1>1. /\ pc[r] = "asking" /\ pc'[r] = "done" /\ pc[r] \in Claiming /\ pc[r] \in Inside
      /\ \/ answered' = answered
         \/ answered' = answered \cup {r} /\ Exchange(r) \subseteq ToSet(log'[c])
  BY DEF EndStep, Claiming, Inside
<1>2. /\ c \in Runs
      /\ \A q \in Runs : q # r => pc'[q] = pc[q]
      /\ \A o \in Runs : o # c => log'[o] = log[o]
      /\ \A o \in Runs : /\ ToSet(log[o]) \subseteq ToSet(log'[o])
                         /\ log[o] # <<>> => log'[o] # <<>>
                         /\ WellReplied(log'[o])
      /\ TalkTypeOK'
  BY <1>1, SpeakGrows
<1>3. UNCHANGED <<entries, asks, claim, cancelled, sent, kept, tab>>
  BY DEF SpeakStep
<1>4. NamesOK' /\ TabOK'
  BY <1>1, SpeakKeepsNames
<1>5. log[c] # <<>> /\ r \notin answered
  BY <1>0, <1>1 DEF LogOK, NamesOK
<1>6. Alone' /\ LogOK'
  <2>1. \A q \in Runs : pc'[q] \in Inside => pc[q] \in Inside
    BY <1>1, <1>2
  <2>2. Alone'
    BY <1>0, <1>3, <2>1 DEF Alone
  <2>3. ASSUME NEW q \in Runs, pc'[q] = "asking"
        PROVE  log'[claim[q]] # <<>> /\ Last(log'[claim[q]]) = Asked(q)
    <3>1. q # r /\ pc[q] = "asking" /\ pc[q] \in Inside /\ claim[q] \in Runs
      BY <1>1, <1>2, <2>3 DEF Inside, IInv, Opened, Claiming
    <3>2. log'[claim[q]] = log[claim[q]]
      BY <1>0, <1>1, <1>2, <3>1 DEF Alone
    <3>. QED  BY <1>0, <3>1, <3>2 DEF LogOK
  <2>. QED  BY <1>2, <1>3, <2>2, <2>3 DEF LogOK
<1>7. \A p \in Runs, id \in Ids : IsShown(p, id)' => IsShown(p, id)
  <2>1. \A q \in Runs : pc'[q] \in {"waiting", "asking"} => pc[q] \in {"waiting", "asking"}
    BY <1>1, <1>2
  <2>. QED  BY <1>3, <2>1 DEF IsShown
<1>8. \A p \in Runs : Unanswered(p) => Unanswered(p)'
  <2>. SUFFICES ASSUME NEW p \in Runs, Unanswered(p) PROVE Unanswered(p)'
    OBVIOUS
  <2>1. p # r
    BY <1>1 DEF Unanswered
  <2>. QED  BY <1>1, <1>2, <2>1 DEF Unanswered
<1>9. ASSUME NEW p \in Runs, NEW o \in Runs, Held(p, o) PROVE Held(p, o)'
  <2>1. CASE Exchange(p) \subseteq ToSet(log[o])
    BY <1>2, <2>1 DEF Held
  <2>2. CASE Unanswered(p)
    BY <1>8, <2>2 DEF Held
  <2>3. CASE pc[p] = "asking" /\ claim[p] = o /\ p # r
    BY <1>2, <1>3, <2>3 DEF Held
  <2>4. CASE p = r /\ c = o
    <3>1. CASE answered' = answered
      BY <1>1, <1>5, <2>4, <3>1 DEF Held, Unanswered
    <3>2. CASE Exchange(r) \subseteq ToSet(log'[c])
      BY <2>4, <3>2 DEF Held
    <3>. QED  BY <1>1, <3>1, <3>2
  <2>. QED  BY <1>9, <2>1, <2>2, <2>3, <2>4 DEF Held
<1>10. HoldsWhatIsShown'
  <2>. SUFFICES ASSUME NEW id \in Ids, NEW o \in Runs, entries[id].conversation = o,
                       log'[o] # <<>>, NEW p \in Runs, IsShown(p, id)
                PROVE  Held(p, o)'
    BY <1>3, <1>7 DEF HoldsWhatIsShown
  <2>1. log[o] # <<>>
    BY <1>2, <1>5
  <2>. QED  BY <1>0, <1>9, <2>1 DEF HoldsWhatIsShown
<1>11. BringsWhatIsShown'
  <2>. SUFFICES ASSUME NEW q \in Runs, NEW id \in Ids, NEW o \in Runs,
                       pc'[q] = "waiting", asks[q] = id, claim[q] = o,
                       entries[id].conversation = o, log'[o] = <<>>,
                       NEW p \in Runs, IsShown(p, id)
                PROVE  p \in Replies(sent[q]) \/ Unanswered(p)'
    BY <1>3, <1>7 DEF BringsWhatIsShown
  <2>1. pc[q] = "waiting" /\ log[o] = <<>>
    BY <1>1, <1>2
  <2>2. p \in Replies(sent[q]) \/ Unanswered(p)
    BY <1>0, <2>1 DEF BringsWhatIsShown
  <2>. QED  BY <1>8, <2>2
<1>12. AnswerIsHeld'
  <2>. SUFFICES ASSUME NEW id \in Ids, NEW o \in Runs, NEW q \in Runs,
                       entries[id].conversation = o, tab[id] = q, q \in answered'
                PROVE  Exchange(q) \subseteq ToSet(log'[o])
    BY <1>3 DEF AnswerIsHeld
  <2>1. CASE q \in answered
    BY <1>0, <1>2, <2>1 DEF AnswerIsHeld
  <2>2. CASE q \notin answered
    <3>1. q = r /\ Exchange(r) \subseteq ToSet(log'[c])
      BY <1>1, <2>2
    <3>2. o = c
      BY <1>0, <1>1, <3>1, TabsRunOwns
    <3>. QED  BY <3>1, <3>2
  <2>. QED  BY <2>1, <2>2
<1>. QED  BY <1>2, <1>4, <1>6, <1>10, <1>11, <1>12 DEF TalkInv

-----------------------------------------------------------------------------
(* A question asked, a restart, and the theorem. *)

\* The conversation of each entry after `open`: a new one is named after its run.
LEMMA OpenNames ==
    ASSUME IInv, NEW r \in Runs, NEW id \in Ids, Open(r, id)
    PROVE  /\ entries'[id].conversation = IF id \in Stored THEN entries[id].conversation ELSE r
           /\ \A k \in Ids, o \in Runs :
                k # id /\ entries'[k].conversation = o => entries[k].conversation = o
<1>1. entries'[id].conversation = IF id \in Stored THEN entries[id].conversation ELSE r
  BY DEF Open
<1>2. \A k \in Ids : k # id => entries'[k] = entries[k] \/ entries'[k] = NoEntry
  BY DEF Open
<1>3. NoEntry.conversation = NoRun
  BY DEF NoEntry
<1>. QED  BY <1>1, <1>2, <1>3, NoRunIsNone

LEMMA AskKeepsTalk ==
    ASSUME IInv, TalkInv, NEW r \in Runs, NEW here \in Ids, Ask(r, here)
    PROVE  TalkInv'
<1>0. /\ TalkTypeOK /\ NamesOK /\ Alone /\ LogOK /\ TabOK
      /\ HoldsWhatIsShown /\ BringsWhatIsShown /\ AnswerIsHeld
  BY DEF TalkInv
<1>1. /\ pc[r] = "new" /\ tab[here] = NoRun /\ Open(r, here)
      /\ pc' = [pc EXCEPT ![r] = "waiting"]
      /\ asks' = [asks EXCEPT ![r] = here]
      /\ sent' = [sent EXCEPT ![r] = kept[here]]
      /\ kept' = [kept EXCEPT ![here] = Remember(kept[here], Asked(r))]
      /\ tab' = [tab EXCEPT ![here] = r]
      /\ UNCHANGED <<answered, log>>
  BY DEF Ask
<1>. DEFINE c == entries'[here].conversation
            more == Remember(kept[here], Asked(r))
<1>2. /\ pc \in [Runs -> Stages] /\ asks \in [Runs -> Ids \cup {NoId}]
      /\ tab \in [Ids -> Runs \cup {NoRun}] /\ claim \in [Runs -> Runs \cup {NoRun}]
      /\ sent \in [Runs -> Seq(Turn)] /\ entries \in [Ids -> Entry]
      /\ kept \in [Ids -> {turns \in Seq(Turn) : Len(turns) <= Window}]
      /\ answered \subseteq Runs
  BY <1>0 DEF IInv, StoreTypeOK, TalkTypeOK
<1>3. /\ c \in Runs /\ claim' = [claim EXCEPT ![r] = c]
      /\ cancelled' = cancelled \cup ({entries[here].running} \ {NoRun})
  BY <1>1, OpenClaims
<1>4. /\ c = r \/ entries[here].conversation = c
      /\ \A k \in Ids, o \in Runs :
           k # here /\ entries'[k].conversation = o => entries[k].conversation = o
  BY <1>1, OpenNames
<1>. HIDE DEF c
<1>5. /\ pc'[r] = "waiting" /\ asks'[r] = here /\ sent'[r] = kept[here] /\ claim'[r] = c
      /\ \A q \in Runs : q # r => /\ pc'[q] = pc[q] /\ asks'[q] = asks[q]
                                  /\ sent'[q] = sent[q] /\ claim'[q] = claim[q]
      /\ tab'[here] = r /\ kept'[here] = more
      /\ \A k \in Ids : k # here => tab'[k] = tab[k] /\ kept'[k] = kept[k]
  BY <1>1, <1>2, <1>3
<1>6. /\ more \in Seq(Turn) /\ Len(more) <= Window /\ Talked(more)
      /\ more # <<>> /\ Last(more) = Asked(r)
      /\ \A p \in Replies(more) : p \in Replies(kept[here])
  <2>1. kept[here] \in Seq(Turn) /\ Len(kept[here]) <= Window /\ Talked(kept[here])
    BY <1>0, <1>2 DEF TabOK
  <2>2. Asked(r) \in Turn /\ Asked(r).role = "user" /\ Asked(r).role # "assistant"
    BY DEF Asked, Turn
  <2>. QED  BY <2>1, <2>2, RememberKeeps
<1>. HIDE DEF more
<1>7. /\ log[r] = <<>> /\ r \notin cancelled /\ r \notin answered
      /\ \A k \in Ids : tab[k] # r
      /\ \A q \in Runs : claim[q] # r
      /\ \A k \in Ids : entries[k].conversation # r
      /\ \A q \in Runs : pc[q] # "new" => q # r
  BY <1>0, <1>1 DEF NamesOK
<1>8. \A q \in Runs : (pc'[q] = "new" => pc[q] = "new" /\ q # r) /\ (pc[q] # "new" => pc'[q] # "new")
  BY <1>1, <1>5
<1>9. TalkTypeOK'
  <2>1. kept[here] \in Seq(Turn)
    BY <1>2
  <2>2. sent' \in [Runs -> Seq(Turn)]
    BY <1>1, <1>2, <2>1
  <2>3. kept' \in [Ids -> {turns \in Seq(Turn) : Len(turns) <= Window}]
    BY <1>1, <1>2, <1>6 DEF more
  <2>. QED  BY <1>0, <1>1, <2>2, <2>3 DEF TalkTypeOK
<1>10. NamesOK'
  <2>1. \A q \in Runs : q \in cancelled' /\ q \notin cancelled =>
          /\ q = entries[here].running /\ pc[q] \in Claiming /\ asks[q] = here /\ q # r
    <3>. SUFFICES ASSUME NEW q \in Runs, q \in cancelled', q \notin cancelled
                  PROVE  /\ q = entries[here].running /\ pc[q] \in Claiming /\ asks[q] = here
                         /\ q # r
      OBVIOUS
    <3>1. q = entries[here].running /\ q # NoRun
      BY <1>3
    <3>2. pc[q] \in Claiming /\ asks[q] = here
      BY <3>1 DEF IInv, NoClaimLeft
    <3>. QED  BY <1>1, <3>1, <3>2 DEF Claiming
  <2>2. \A q \in Runs : pc'[q] = "new" => log'[q] = <<>> /\ q \notin cancelled'
    BY <1>0, <1>1, <1>8, <2>1 DEF NamesOK, Claiming
  <2>3. \A q \in Runs : pc'[q] # "new" => asks'[q] \in Ids
    BY <1>0, <1>5 DEF NamesOK
  <2>4. pc'[c] # "new" /\ asks'[c] = here
    <3>1. CASE c = r
      BY <1>5, <3>1
    <3>2. CASE c # r
      BY <1>0, <1>3, <1>4, <1>5, <3>2 DEF NamesOK
    <3>. QED  BY <3>1, <3>2
  <2>5. ASSUME NEW q \in Runs, NEW o \in Runs, claim'[q] = o
        PROVE  pc'[q] \in Claiming /\ pc'[o] # "new" /\ asks'[o] = asks'[q]
    <3>1. CASE q = r
      BY <1>5, <2>4, <2>5, <3>1 DEF Claiming
    <3>2. CASE q # r
      <4>1. claim[q] = o /\ o # r
        BY <1>5, <1>7, <2>5, <3>2
      <4>2. pc[q] \in Claiming /\ pc[o] # "new" /\ asks[o] = asks[q]
        BY <1>0, <4>1 DEF NamesOK
      <4>. QED  BY <1>5, <3>2, <4>1, <4>2
    <3>. QED  BY <3>1, <3>2
  <2>6. ASSUME NEW id \in Ids, NEW o \in Runs, entries'[id].conversation = o
        PROVE  pc'[o] # "new" /\ asks'[o] = id
    <3>1. CASE id = here
      BY <2>4, <2>6, <3>1 DEF c
    <3>2. CASE id # here
      <4>1. entries[id].conversation = o
        BY <1>4, <2>6, <3>2
      <4>. QED  BY <1>0, <1>5, <1>7, <4>1 DEF NamesOK
    <3>. QED  BY <3>1, <3>2
  <2>7. \A q \in answered' : pc'[q] \in {"done", "releasing", "ended"}
    BY <1>0, <1>1, <1>2, <1>5, <1>7 DEF NamesOK
  <2>8. ASSUME NEW id \in Ids, NEW q \in Runs, tab'[id] = q
        PROVE  pc'[q] # "new" /\ asks'[q] = id /\ (pc'[q] \in Claiming => q \notin cancelled')
    <3>1. CASE id = here
      BY <1>5, <1>7, <2>1, <2>8, <3>1
    <3>2. CASE id # here
      <4>1. tab[id] = q /\ q # r
        BY <1>5, <1>7, <2>8, <3>2
      <4>2. pc[q] # "new" /\ asks[q] = id /\ (pc[q] \in Claiming => q \notin cancelled)
        BY <1>0, <4>1 DEF NamesOK
      <4>. QED  BY <1>5, <2>1, <3>2, <4>1, <4>2
    <3>. QED  BY <3>1, <3>2
  <2>. QED  BY <2>2, <2>3, <2>5, <2>6, <2>7, <2>8 DEF NamesOK
<1>11. Alone' /\ LogOK'
  <2>1. \A q \in Runs : pc'[q] \in Inside => q # r /\ pc[q] \in Inside /\ claim'[q] = claim[q]
    BY <1>5 DEF Inside
  <2>2. \A q \in Runs : pc'[q] = "asking" => pc[q] = "asking" /\ claim'[q] = claim[q]
    BY <1>5
  <2>3. Alone'
    BY <1>0, <2>1 DEF Alone
  <2>. QED  BY <1>0, <1>1, <2>2, <2>3 DEF LogOK
<1>12. TabOK'
  <2>1. \A id \in Ids : Talked(kept'[id])
    BY <1>0, <1>5, <1>6 DEF TabOK
  <2>2. \A q \in Runs : Talked(sent'[q])
    BY <1>0, <1>5 DEF TabOK
  <2>3. \A id \in Ids, q \in Runs : tab'[id] = q => kept'[id] # <<>> /\ Last(kept'[id]) = Asked(q)
    BY <1>0, <1>5, <1>6 DEF TabOK
  <2>. QED  BY <2>1, <2>2, <2>3 DEF TabOK
<1>13. ASSUME NEW p \in Runs, NEW id \in Ids, IsShown(p, id)'
       PROVE  IsShown(p, id) /\ (id = here => p \in Replies(kept[here]))
  <2>1. CASE id = here
    <3>1. p \in Replies(kept'[here]) \/ p \in Replies(sent'[r])
      BY <1>5, <1>13, <2>1 DEF IsShown
    <3>2. p \in Replies(kept[here])
      BY <1>5, <1>6, <3>1
    <3>. QED  BY <2>1, <3>2 DEF IsShown
  <2>2. CASE id # here
    BY <1>5, <1>7, <1>13, <2>2 DEF IsShown
  <2>. QED  BY <2>1, <2>2
<1>14. \A p \in Runs : Unanswered(p) => Unanswered(p)'
  BY <1>1, <1>5 DEF Unanswered
<1>15. \A p, o \in Runs : Held(p, o) => Held(p, o)'
  BY <1>1, <1>5, <1>14 DEF Held
<1>16. HoldsWhatIsShown'
  <2>. SUFFICES ASSUME NEW id \in Ids, NEW o \in Runs, entries'[id].conversation = o,
                       log[o] # <<>>, NEW p \in Runs, IsShown(p, id)'
                PROVE  Held(p, o)'
    BY <1>1 DEF HoldsWhatIsShown
  <2>1. entries[id].conversation = o
    BY <1>4, <1>7 DEF c
  <2>2. IsShown(p, id)
    BY <1>13
  <2>. QED  BY <1>0, <1>15, <2>1, <2>2 DEF HoldsWhatIsShown
<1>17. BringsWhatIsShown'
  <2>. SUFFICES ASSUME NEW q \in Runs, NEW id \in Ids, NEW o \in Runs,
                       pc'[q] = "waiting", asks'[q] = id, claim'[q] = o,
                       entries'[id].conversation = o, log[o] = <<>>,
                       NEW p \in Runs, IsShown(p, id)'
                PROVE  p \in Replies(sent'[q]) \/ Unanswered(p)'
    BY <1>1 DEF BringsWhatIsShown
  <2>1. CASE q = r
    BY <1>5, <1>13, <2>1
  <2>2. CASE q # r
    <3>1. pc[q] = "waiting" /\ asks[q] = id /\ claim[q] = o /\ o # r /\ sent'[q] = sent[q]
      BY <1>5, <1>7, <2>2
    <3>2. entries[id].conversation = o
      BY <1>4, <3>1 DEF c
    <3>3. p \in Replies(sent[q]) \/ Unanswered(p)
      BY <1>0, <1>13, <3>1, <3>2 DEF BringsWhatIsShown
    <3>. QED  BY <1>14, <3>1, <3>3
  <2>. QED  BY <2>1, <2>2
<1>18. AnswerIsHeld'
  <2>. SUFFICES ASSUME NEW id \in Ids, NEW o \in Runs, NEW q \in Runs,
                       entries'[id].conversation = o, tab'[id] = q, q \in answered
                PROVE  Exchange(q) \subseteq ToSet(log[o])
    BY <1>1 DEF AnswerIsHeld
  <2>1. id # here
    BY <1>5, <1>7
  <2>2. entries[id].conversation = o /\ tab[id] = q
    BY <1>4, <1>5, <2>1
  <2>. QED  BY <1>0, <2>2 DEF AnswerIsHeld
<1>. QED  BY <1>9, <1>10, <1>11, <1>12, <1>16, <1>17, <1>18 DEF TalkInv

\* A restart leaves the tabs what they keep, and nothing else to be true to.
LEMMA RestartKeepsTalk ==
    ASSUME IInv, TalkInv, Restart
    PROVE  TalkInv'
<1>0. /\ TalkTypeOK /\ NamesOK /\ TabOK /\ answered \subseteq Runs
      /\ \A r \in Runs : pc[r] \in Stages
  BY DEF TalkInv, IInv, StoreTypeOK
<1>1. /\ \A id \in Ids : entries'[id].conversation = NoRun
      /\ log' = [r \in Runs |-> <<>>] /\ sent' = [r \in Runs |-> <<>>]
      /\ \A r \in Runs : /\ log'[r] = <<>> /\ claim'[r] = NoRun /\ sent'[r] = <<>>
                         /\ pc'[r] = IF pc[r] = "new" THEN "new" ELSE "ended"
      /\ answered' = {r \in answered : pc[r] = "ended"}
      /\ UNCHANGED <<asks, cancelled, tab, kept>>
  BY DEF Restart, NoEntry
<1>2. TalkTypeOK'
  BY <1>0, <1>1, EmptyTalk DEF TalkTypeOK
<1>3. \A id \in Ids, o \in Runs : entries'[id].conversation # o
  BY <1>1, NoRunIsNone
<1>4. NamesOK'
  <2>1. \A r \in Runs : (pc'[r] = "new" <=> pc[r] = "new") /\ pc'[r] \notin Claiming
    BY <1>1 DEF Claiming
  <2>2. \A r, o \in Runs : claim'[r] # o
    BY <1>1, NoRunIsNone
  <2>3. \A r \in answered' : pc'[r] \in {"done", "releasing", "ended"}
    BY <1>0, <1>1
  <2>. QED  BY <1>0, <1>1, <1>3, <2>1, <2>2, <2>3 DEF NamesOK
<1>5. Alone' /\ LogOK'
  BY <1>1, EmptyTalk DEF Alone, LogOK, Inside
<1>6. TabOK'
  BY <1>0, <1>1, EmptyTalk DEF TabOK
<1>7. HoldsWhatIsShown' /\ BringsWhatIsShown' /\ AnswerIsHeld'
  BY <1>3 DEF HoldsWhatIsShown, BringsWhatIsShown, AnswerIsHeld
<1>. QED  BY <1>2, <1>4, <1>5, <1>6, <1>7 DEF TalkInv

LEMMA NextKeepsTalk == IInv /\ TalkInv /\ [Next]_vars => TalkInv'
<1>. SUFFICES ASSUME IInv, TalkInv, [Next]_vars PROVE TalkInv'
  OBVIOUS
<1>1. CASE \E r \in Runs, id \in Ids : Ask(r, id)
  BY <1>1, AskKeepsTalk
<1>2. CASE \E r \in Runs : Receive(r) \/ Leave(r)
  BY <1>2, TabKeepsTalk
<1>3. CASE \E r \in Runs : Enter(r) \/ Refuse(r)
  BY <1>3, Begins, BeginKeepsTalk
<1>4. CASE \E r \in Runs : Answer(r) \/ Fail(r)
  BY <1>4, Ends, EndKeepsTalk
<1>5. CASE Restart
  BY <1>5, RestartKeepsTalk
<1>6. CASE \/ Sweep \/ Tick \/ UNCHANGED vars
           \/ \E r \in Runs : GiveUp(r) \/ Unlock(r) \/ Release(r) \/ SeeClosed(r)
  BY <1>6, QuietSteps, QuietKeepsTalk
<1>. QED  BY <1>1, <1>2, <1>3, <1>4, <1>5, <1>6 DEF Next, Serve

\* The inductive invariant of the turns holds in every reachable state.
THEOREM AlwaysTalkInv == Spec => []TalkInv
BY InitTalkInv, NextKeepsTalk, AlwaysIInv, PTL DEF Spec

\* The tabs keep `Window` turns at most (`rememberTurn`), and the types of all else.
THEOREM Typed == Spec => []TypeOK
<1>1. IInv /\ TalkInv => TypeOK
  BY DEF IInv, TalkInv, TypeOK
<1>. QED  BY <1>1, AlwaysIInv, AlwaysTalkInv, PTL

\* However runs of a conversation are cancelled, displaced, expired, refused or lost,
\* the model is shown every exchange the tab saw answered, and each reply right after
\* its question (agent.rs `answer` and `restore`).
THEOREM ContextIsTrue == Spec => []ContextIsWhatWasSaid
BY TalkIsWhatWasSaid, AlwaysIInv, AlwaysTalkInv, PTL
=============================================================================
