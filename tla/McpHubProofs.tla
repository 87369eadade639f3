----------------------------- MODULE McpHubProofs -----------------------------
(***************************************************************************)
(* Proofs about McpHub, for any names, keys, slots, requests and faults:   *)
(* nothing outlives a shutdown, a slot has one process at most, no request *)
(* for a reconnection is lost, and a healthy connection stays.             *)
(***************************************************************************)
EXTENDS McpHub, TLAPS

HubTypeOK ==
    /\ current \in [Names -> Slots \cup {NoSlot}]
    /\ key \in [Slots -> Keys \cup {Off, NoKey}]
    /\ pc \in [Slots -> Stages]
    /\ proc \in [Slots -> {"none", "live", "mute", "gone"}]
    /\ then \in [Slots -> {"stop", "again", "wait"}]
    /\ down \in {"up", "closed", "cancelled", "stopping", "done"}

\* What a task has of processes goes by its stage; a slot not made has no task.
ProcOK(s) ==
    /\ proc[s] # "none" => pc[s] \in {"connecting", "listing", "serving", "closing"}
    /\ s \in abandoned => pc[s] = "attempt"
    /\ key[s] = NoKey => pc[s] = "none"

\* The slots `shutdown` will stop, or whose tasks it waits for.
Kept(s) ==
    \/ \E n \in Names : current[n] = s
    \/ s \in taken \cup retired \cup awaited

Running(s) == pc[s] \notin {"none", "ended"}

\* What is behind `shutdown` at each of its steps.
DownOK ==
    /\ down = "up" => taken = {}
    /\ down # "up" => \A n \in Names : current[n] = NoSlot
    /\ down \in {"up", "closed", "cancelled"} => awaited = {}
    /\ down \in {"stopping", "done"} => retired = {}
    /\ down = "done" => taken = {} /\ \A s \in awaited \cap Slots : ~Running(s)

IInv ==
    /\ HubTypeOK
    /\ \A s \in Slots : ProcOK(s)
    /\ \A s \in Slots : Running(s) => Kept(s)
    /\ DownOK

LEMMA SlotsAreNumbers == NoSlot \notin Slots
BY McpHubAssumption DEF Slots, NoSlot

LEMMA InitIInv == Init => IInv
BY DEF Init, IInv, HubTypeOK, ProcOK, Kept, Running, DownOK, Stages

\* A step of a task that is not ended, of its own.
LEMMA OwnStep ==
    ASSUME IInv, NEW s \in Slots, UNCHANGED <<hub, ending>>, HubTypeOK', Running(s), ProcOK(s)',
           \A t \in Slots \ {s} : pc'[t] = pc[t] /\ proc'[t] = proc[t],
           abandoned' \ {s} \subseteq abandoned
    PROVE  IInv'
<1>1. ASSUME NEW t \in Slots PROVE ProcOK(t)'
  BY DEF IInv, ProcOK, hub
<1>2. ASSUME NEW t \in Slots, Running(t)' PROVE Kept(t)'
  BY <1>2 DEF IInv, Running, Kept, hub, ending
<1>3. DownOK'
  BY DEF IInv, DownOK, Running, hub, ending, Kept
<1> QED
  BY <1>1, <1>2, <1>3 DEF IInv

\* What the tasks are is left alone.
LEMMA StillStep ==
    ASSUME IInv, UNCHANGED <<hub, ending, pc, then, proc, abandoned>>
    PROVE  IInv'
BY DEF IInv, HubTypeOK, ProcOK, Kept, Running, DownOK, hub, ending

LEMMA RetireStep ==
    ASSUME IInv, NEW n \in Names, Retire({current[n]})
    PROVE  /\ \A t \in retired : pc[t] # "ended" => t \in retired'
           /\ current[n] # NoSlot /\ Running(current[n]) => current[n] \in retired'
BY SlotsAreNumbers DEF IInv, HubTypeOK, Retire, Unended, HasTask, Running

LEMMA ApplyIInv == ASSUME IInv, NEW n \in Names, Apply(n) PROVE IInv'
<1>1. PICK s \in Slots : \E k \in Keys \cup {Off} :
        /\ New(s)
        /\ current' = [current EXCEPT ![n] = s]
        /\ key' = [key EXCEPT ![s] = k]
        /\ IF k = Off THEN UNCHANGED <<pc, phase>> ELSE Spawn(s)
  BY DEF Apply
<1>2. PICK k \in Keys \cup {Off} :
        /\ New(s)
        /\ current' = [current EXCEPT ![n] = s]
        /\ key' = [key EXCEPT ![s] = k]
        /\ IF k = Off THEN UNCHANGED <<pc, phase>> ELSE Spawn(s)
  BY <1>1
<1>3. /\ UNCHANGED <<checks, down, taken, awaited, then, proc, abandoned>>
      /\ down = "up" /\ Retire({current[n]})
  BY DEF Apply
<1>4. pc[s] = "none" /\ proc[s] = "none" /\ s \notin abandoned
  BY <1>2 DEF IInv, ProcOK, New
<1>5. pc' \in [Slots -> Stages] /\ \A t \in Slots \ {s} : pc'[t] = pc[t]
  BY <1>2 DEF IInv, HubTypeOK, Spawn, Stages
<1>6. HubTypeOK'
  BY <1>2, <1>3, <1>5 DEF IInv, HubTypeOK
<1>7. ASSUME NEW t \in Slots PROVE ProcOK(t)'
  <2>1. key'[t] = NoKey => t # s /\ key[t] = NoKey
    BY <1>2, McpHubAssumption DEF IInv, HubTypeOK
  <2> QED
    BY <1>3, <1>4, <1>5, <2>1 DEF IInv, ProcOK
<1>8. ASSUME NEW t \in Slots, Running(t)' PROVE Kept(t)'
  <2>1. CASE t = s
    BY <1>2, <2>1 DEF IInv, HubTypeOK, Kept
  <2>2. CASE t # s
    <3>1. Running(t) /\ Kept(t)
      BY <1>5, <1>8, <2>2 DEF IInv, Running
    <3>2. t \in retired \/ t = current[n] => t \in retired'
      BY <1>3, <3>1, RetireStep, SlotsAreNumbers DEF Running
    <3>3. \A m \in Names \ {n} : current'[m] = current[m]
      BY <1>2 DEF IInv, HubTypeOK
    <3> QED
      BY <1>3, <3>1, <3>2, <3>3 DEF Kept
  <2> QED
    BY <2>1, <2>2
<1>9. DownOK'
  BY <1>3 DEF IInv, DownOK
<1> QED
  BY <1>6, <1>7, <1>8, <1>9 DEF IInv

LEMMA RemoveIInv == ASSUME IInv, NEW n \in Names, Remove(n) PROVE IInv'
<1>1. /\ UNCHANGED <<key, checks, down, taken, awaited, task>>
      /\ down = "up" /\ Retire({current[n]})
      /\ current' = [current EXCEPT ![n] = NoSlot]
  BY DEF Remove
<1>2. HubTypeOK' /\ DownOK'
  BY <1>1 DEF IInv, HubTypeOK, DownOK, task
<1>3. ASSUME NEW t \in Slots PROVE ProcOK(t)'
  BY <1>1 DEF IInv, ProcOK, task
<1>4. ASSUME NEW t \in Slots, Running(t)' PROVE Kept(t)'
  <2>1. Running(t) /\ Kept(t)
    BY <1>1, <1>4 DEF IInv, Running, task
  <2>2. t \in retired \/ t = current[n] => t \in retired'
    BY <1>1, <2>1, RetireStep, SlotsAreNumbers DEF Running
  <2>3. \A m \in Names \ {n} : current'[m] = current[m]
    BY <1>1 DEF IInv, HubTypeOK
  <2> QED
    BY <1>1, <2>1, <2>2, <2>3 DEF Kept
<1> QED
  BY <1>2, <1>3, <1>4 DEF IInv

LEMMA ProbeIInv == ASSUME IInv, Probe PROVE IInv'
<1>1. PICK s \in Slots : \E k \in Keys :
        /\ New(s)
        /\ key' = [key EXCEPT ![s] = k]
        /\ retired' = Unended \cup {s}
        /\ Spawn(s)
  BY DEF Probe
<1>2. PICK k \in Keys : key' = [key EXCEPT ![s] = k]
  BY <1>1
<1>3. /\ UNCHANGED <<current, down, taken, awaited, then, proc, abandoned>>
      /\ down = "up"
  BY DEF Probe
<1>4. pc[s] = "none" /\ proc[s] = "none" /\ s \notin abandoned
  BY <1>1 DEF IInv, ProcOK, New
<1>5. pc' \in [Slots -> Stages] /\ \A t \in Slots \ {s} : pc'[t] = pc[t]
  BY <1>1 DEF IInv, HubTypeOK, Spawn, Stages
<1>6. HubTypeOK' /\ DownOK'
  BY <1>2, <1>3, <1>5 DEF IInv, HubTypeOK, DownOK
<1>7. ASSUME NEW t \in Slots PROVE ProcOK(t)'
  <2>1. key'[t] = NoKey => t # s /\ key[t] = NoKey
    BY <1>2, McpHubAssumption DEF IInv, HubTypeOK
  <2> QED
    BY <1>3, <1>4, <1>5, <2>1 DEF IInv, ProcOK
<1>8. ASSUME NEW t \in Slots, Running(t)' PROVE Kept(t)'
  <2>1. CASE t = s
    BY <1>1, <2>1 DEF Kept
  <2>2. CASE t # s
    <3>1. Running(t) /\ Kept(t)
      BY <1>5, <1>8, <2>2 DEF IInv, Running
    <3> QED
      BY <1>1, <1>3, <3>1 DEF Kept, Running, Unended
  <2> QED
    BY <2>1, <2>2
<1> QED
  BY <1>6, <1>7, <1>8 DEF IInv

LEMMA EnvironmentIInv ==
    ASSUME IInv, NEW s \in Slots,
           Restart(s) \/ GiveUp(s) \/ ProcessFails(s) \/ Ring(s) \/ CallLate(s) \/ PingEnds(s)
    PROVE  IInv'
<1>1. CASE ProcessFails(s)
  <2>1. PICK state \in {"mute", "gone"} : proc' = [proc EXCEPT ![s] = state]
    BY <1>1 DEF ProcessFails
  <2>2. UNCHANGED <<hub, ending, pc, then, abandoned>> /\ Connection(s)
    BY <1>1 DEF ProcessFails
  <2>3. HubTypeOK' /\ ProcOK(s)'
    BY <2>1, <2>2 DEF IInv, HubTypeOK, ProcOK, Connection, hub, ending
  <2>4. \A t \in Slots \ {s} : pc'[t] = pc[t] /\ proc'[t] = proc[t]
    BY <2>1, <2>2 DEF IInv, HubTypeOK
  <2>5. Running(s)
    BY <2>2 DEF Running, Connection
  <2> QED
    BY <2>2, <2>3, <2>4, <2>5, OwnStep
<1>2. CASE Restart(s) \/ GiveUp(s) \/ Ring(s) \/ CallLate(s) \/ PingEnds(s)
  <2>1. UNCHANGED <<hub, ending, pc, then, proc, abandoned>>
    BY <1>2 DEF Restart, GiveUp, Ring, CallLate, PingEnds, task
  <2> QED
    BY <2>1, StillStep
<1> QED
  BY <1>1, <1>2

\* A step of a task that changes neither its processes nor another's.
LEMMA StageStep ==
    ASSUME IInv, NEW s \in Slots, NEW stage \in Stages, UNCHANGED <<hub, ending, proc, abandoned>>,
           Running(s), pc' = [pc EXCEPT ![s] = stage],
           then' \in [Slots -> {"stop", "again", "wait"}],
           proc[s] # "none" => stage \in {"listing", "serving", "closing"},
           s \notin abandoned
    PROVE  IInv'
<1>1. HubTypeOK' /\ ProcOK(s)'
  BY DEF IInv, HubTypeOK, ProcOK, Running, hub, ending
<1>2. \A t \in Slots \ {s} : pc'[t] = pc[t] /\ proc'[t] = proc[t]
  BY DEF IInv, HubTypeOK
<1> QED
  BY <1>1, <1>2, OwnStep

LEMMA GivenUpIInv ==
    ASSUME IInv, NEW s \in Slots, pc[s] = "connecting",
           NEW next \in {"stop", "again", "wait"}, GivenUp(s, next)
    PROVE  IInv'
<1>1. /\ pc' = [pc EXCEPT ![s] = "attempt"]
      /\ then' = [then EXCEPT ![s] = next]
      /\ proc' = [proc EXCEPT ![s] = "none"]
      /\ UNCHANGED <<hub, ending>>
      /\ abandoned' \ {s} \subseteq abandoned
  BY DEF GivenUp
<1>2. HubTypeOK' /\ ProcOK(s)'
  BY <1>1 DEF IInv, HubTypeOK, ProcOK, Stages, hub, ending
<1>3. \A t \in Slots \ {s} : pc'[t] = pc[t] /\ proc'[t] = proc[t]
  BY <1>1 DEF IInv, HubTypeOK
<1> QED
  BY <1>1, <1>2, <1>3, OwnStep DEF Running

LEMMA GoesOnStage ==
    ASSUME IInv, NEW s \in Slots, GoesOn(s)
    PROVE  \E stage \in {"ended", "connecting", "waiting"} : pc' = [pc EXCEPT ![s] = stage]
<1>1. After[then[s]] \in {"ended", "connecting", "waiting"}
  BY DEF IInv, HubTypeOK, After
<1> QED
  BY <1>1 DEF GoesOn

\* The last process of a task is ended as it goes on.
LEMMA EndedStep ==
    ASSUME IInv, NEW s \in Slots, pc[s] \in {"closing", "attempt"}, GoesOn(s),
           proc' = [proc EXCEPT ![s] = "none"], abandoned' = abandoned \ {s},
           UNCHANGED <<hub, ending, then>>
    PROVE  IInv'
<1>1. PICK stage \in {"ended", "connecting", "waiting"} : pc' = [pc EXCEPT ![s] = stage]
  BY GoesOnStage
<1>2. HubTypeOK' /\ ProcOK(s)'
  BY <1>1 DEF IInv, HubTypeOK, ProcOK, Stages, hub, ending
<1>3. \A t \in Slots \ {s} : pc'[t] = pc[t] /\ proc'[t] = proc[t]
  BY <1>1 DEF IInv, HubTypeOK
<1> QED
  BY <1>2, <1>3, OwnStep DEF Running

LEMMA ConnectingIInv ==
    ASSUME IInv, NEW s \in Slots,
           StartProcess(s) \/ Connected(s) \/ ConnectFails(s) \/ StopConnecting(s) \/ AskedConnecting(s)
    PROVE  IInv'
<1>1. CASE StartProcess(s)
  <2>1. /\ UNCHANGED <<hub, ending, pc, then, abandoned>> /\ pc[s] = "connecting"
        /\ proc' = [proc EXCEPT ![s] = "live"]
    BY <1>1 DEF StartProcess
  <2>2. HubTypeOK' /\ ProcOK(s)'
    BY <2>1 DEF IInv, HubTypeOK, ProcOK, hub, ending
  <2>3. \A t \in Slots \ {s} : pc'[t] = pc[t] /\ proc'[t] = proc[t]
    BY <2>1 DEF IInv, HubTypeOK
  <2> QED
    BY <2>1, <2>2, <2>3, OwnStep DEF Running
<1>2. CASE Connected(s)
  <2>1. s \notin abandoned /\ pc[s] = "connecting"
    BY <1>2 DEF IInv, ProcOK, Connected
  <2>2. UNCHANGED <<hub, ending, proc, abandoned, then>> /\ pc' = [pc EXCEPT ![s] = "listing"]
    BY <1>2 DEF Connected
  <2>3. then' \in [Slots -> {"stop", "again", "wait"}] /\ "listing" \in Stages
    BY <2>2 DEF IInv, HubTypeOK, Stages
  <2> QED
    BY <2>1, <2>2, <2>3, StageStep DEF Running
<1>3. CASE ConnectFails(s)
  BY <1>3, GivenUpIInv DEF ConnectFails
<1>4. CASE StopConnecting(s)
  BY <1>4, GivenUpIInv DEF StopConnecting
<1>5. CASE AskedConnecting(s)
  BY <1>5, GivenUpIInv DEF AskedConnecting
<1> QED
  BY <1>1, <1>2, <1>3, <1>4, <1>5

LEMMA ServingIInv ==
    ASSUME IInv, NEW s \in Slots,
           Listed(s) \/ ListFails(s) \/ StopServing(s) \/ AskedServing(s) \/ Lost(s)
    PROVE  IInv'
<1>1. s \notin abandoned /\ Running(s)
  BY DEF IInv, ProcOK, Running, Listed, ListFails, StopServing, AskedServing, Lost
<1>2. UNCHANGED <<hub, ending, proc, abandoned>>
  BY DEF Listed, ListFails, StopServing, AskedServing, Lost, Ends
<1>3. then' \in [Slots -> {"stop", "again", "wait"}]
  BY DEF IInv, HubTypeOK, Listed, ListFails, StopServing, AskedServing, Lost, Ends
<1>4. PICK stage \in {"serving", "closing"} : pc' = [pc EXCEPT ![s] = stage]
  BY DEF Listed, ListFails, StopServing, AskedServing, Lost, Ends
<1>5. stage \in Stages
  BY DEF Stages
<1> QED
  BY <1>1, <1>2, <1>3, <1>4, <1>5, StageStep

LEMMA EndingIInv ==
    ASSUME IInv, NEW s \in Slots, EndAttempt(s) \/ Close(s)
    PROVE  IInv'
<1>1. UNCHANGED <<hub, ending, then>> /\ GoesOn(s) /\ pc[s] \in {"closing", "attempt"}
  BY DEF EndAttempt, Close
<1>2. proc' = [proc EXCEPT ![s] = "none"]
  BY DEF IInv, HubTypeOK, ProcOK, EndAttempt, Close
<1>3. abandoned' = abandoned \ {s}
  BY DEF IInv, ProcOK, EndAttempt, Close
<1> QED
  BY <1>1, <1>2, <1>3, EndedStep

LEMMA WaitingIInv ==
    ASSUME IInv, NEW s \in Slots, WaitOver(s) \/ AskedWaiting(s) \/ StopWaiting(s)
    PROVE  IInv'
<1>1. s \notin abandoned /\ Running(s) /\ proc[s] = "none"
  BY DEF IInv, ProcOK, Running, HubTypeOK, WaitOver, AskedWaiting, StopWaiting
<1>2. UNCHANGED <<hub, ending, proc, abandoned, then>>
  BY DEF WaitOver, AskedWaiting, StopWaiting, Retry
<1>3. PICK stage \in {"connecting", "ended"} : pc' = [pc EXCEPT ![s] = stage]
  BY DEF WaitOver, AskedWaiting, StopWaiting, Retry, Spawn
<1>4. stage \in Stages /\ then' \in [Slots -> {"stop", "again", "wait"}]
  BY <1>2 DEF Stages, IInv, HubTypeOK
<1> QED
  BY <1>1, <1>2, <1>3, <1>4, StageStep

LEMMA ShutdownIInv ==
    ASSUME IInv, CloseHub \/ CancelChecks \/ TakeRetired \/ (\E s \in Slots : StopSlot(s)) \/ Down
    PROVE  IInv'
<1>1. UNCHANGED <<key, checks, task>>
  BY DEF CloseHub, CancelChecks, TakeRetired, StopSlot, Down, hub
<1>2. HubTypeOK'
  BY <1>1 DEF IInv, HubTypeOK, CloseHub, CancelChecks, TakeRetired, StopSlot, Down, hub, task
<1>3. ASSUME NEW t \in Slots PROVE ProcOK(t)'
  BY <1>1 DEF IInv, ProcOK, task
<1>4. ASSUME NEW t \in Slots, Running(t)' PROVE Kept(t)'
  <2>1. Running(t) /\ Kept(t)
    BY <1>1, <1>4 DEF IInv, Running, task
  <2>2. CASE CloseHub
    BY <2>1, <2>2, SlotsAreNumbers DEF IInv, DownOK, Kept, CloseHub
  <2>3. CASE CancelChecks \/ Down
    BY <2>1, <2>3 DEF Kept, CancelChecks, Down, hub
  <2>4. CASE TakeRetired
    <3>1. UNCHANGED <<current, taken>> /\ awaited = {} /\ awaited' = retired
      BY <2>4 DEF IInv, DownOK, TakeRetired, hub
    <3> QED
      BY <2>1, <3>1 DEF Kept
  <2>5. ASSUME NEW s \in Slots, StopSlot(s) PROVE Kept(t)'
    <3>1. current' = current /\ retired' = retired /\ taken' = taken \ {s}
      BY <2>5 DEF StopSlot, hub
    <3>2. awaited \subseteq awaited' /\ (t = s => t \in awaited')
      BY <2>1, <2>5 DEF StopSlot, HasTask, Running
    <3> QED
      BY <2>1, <3>1, <3>2 DEF Kept
  <2> QED
    BY <2>2, <2>3, <2>4, <2>5
<1>5. DownOK'
  <2>1. CASE CloseHub
    BY <2>1 DEF IInv, DownOK, CloseHub
  <2>2. CASE CancelChecks \/ TakeRetired
    BY <2>2 DEF IInv, DownOK, CancelChecks, TakeRetired, hub
  <2>3. CASE \E s \in Slots : StopSlot(s)
    BY <2>3 DEF IInv, DownOK, StopSlot, hub
  <2>4. CASE Down
    BY <2>4 DEF IInv, DownOK, Down, Running, hub, task
  <2> QED
    BY <2>1, <2>2, <2>3, <2>4
<1> QED
  BY <1>2, <1>3, <1>4, <1>5 DEF IInv

LEMMA NextIInv == IInv /\ [Next]_vars => IInv'
<1> SUFFICES ASSUME IInv, [Next]_vars PROVE IInv'
  OBVIOUS
<1>1. CASE UNCHANGED vars
  BY <1>1, StillStep DEF vars, hub, ending
<1>2. ASSUME NEW n \in Names, Apply(n) \/ Remove(n) PROVE IInv'
  BY <1>2, ApplyIInv, RemoveIInv
<1>3. CASE Probe
  BY <1>3, ProbeIInv
<1>4. CASE CloseHub \/ Shutdown
  BY <1>4, ShutdownIInv DEF Shutdown
<1>5. ASSUME NEW s \in Slots, Work(s) PROVE IInv'
  BY <1>5, ConnectingIInv, ServingIInv, EndingIInv, WaitingIInv DEF Work
<1>6. ASSUME NEW s \in Slots,
             Restart(s) \/ GiveUp(s) \/ ProcessFails(s) \/ Ring(s) \/ CallLate(s) \/ PingEnds(s)
      PROVE  IInv'
  BY <1>6, EnvironmentIInv
<1> QED
  BY <1>1, <1>2, <1>3, <1>4, <1>5, <1>6 DEF Next

\* Every task that runs is one `shutdown` stops or waits for, so that none is
\* left when it returns, nor a process, which only a running task has.
THEOREM ShutdownLeavesNothing == Spec => []NothingOutlivesShutdown
<1>1. IInv => NothingOutlivesShutdown
  <2> SUFFICES ASSUME IInv, down = "done", NEW s \in Slots
               PROVE  pc[s] \in {"none", "ended"} /\ proc[s] = "none" /\ s \notin abandoned
    BY DEF NothingOutlivesShutdown
  <2>1. ~Running(s)
    BY SlotsAreNumbers DEF IInv, DownOK, Kept
  <2> QED
    BY <2>1 DEF IInv, ProcOK, HubTypeOK, Running
<1> QED
  BY <1>1, InitIInv, NextIInv, PTL DEF Spec

\* A slot starts a process only once that of the attempt before is ended.
THEOREM SlotsHaveOneProcess == Spec => []OneProcess
<1>1. IInv => OneProcess
  BY DEF IInv, ProcOK, OneProcess
<1> QED
  BY <1>1, InitIInv, NextIInv, PTL DEF Spec

-----------------------------------------------------------------------------
(* Requests. *)

RInv ==
    /\ then \in [Slots -> {"stop", "again", "wait"}] /\ pc \in [Slots -> Stages]
    /\ unanswered \subseteq Slots
    /\ NoRequestLost

LEMMA InitRInv == Init => RInv
BY DEF Init, RInv, NoRequestLost, Stages

\* Where a request of a slot is kept.
RequestKept(s) == s \in asked \/ (pc[s] \in {"closing", "attempt"} /\ then[s] = "again")

\* A step that leaves the requests of all slots but one where they were.
LEMMA RequestStep ==
    ASSUME RInv, NEW s \in Slots, stop \subseteq stop', unanswered' \ {s} \subseteq unanswered,
           asked \ {s} \subseteq asked',
           \E stage \in Stages : pc' = [pc EXCEPT ![s] = stage],
           \E next \in {"stop", "again", "wait"} : then' = [then EXCEPT ![s] = next],
           unanswered' \subseteq Slots, s \in unanswered' \ stop' => RequestKept(s)'
    PROVE  RInv'
<1>1. /\ then' \in [Slots -> {"stop", "again", "wait"}] /\ pc' \in [Slots -> Stages]
      /\ \A t \in Slots \ {s} : pc'[t] = pc[t] /\ then'[t] = then[t]
  BY DEF RInv
<1> QED
  BY <1>1 DEF RInv, NoRequestLost, RequestKept

\* A step that leaves the requests alone, and the tasks that may hold one.
LEMMA RequestsStay ==
    ASSUME RInv, stop \subseteq stop', UNCHANGED <<asked, unanswered, then>>,
           pc' \in [Slots -> Stages],
           \A t \in Slots : pc[t] \in {"closing", "attempt"} => pc'[t] = pc[t]
    PROVE  RInv'
BY DEF RInv, NoRequestLost

\* A task goes on: a new connection answers the requests there were.
LEMMA GoesOnRequests ==
    ASSUME RInv, NEW s \in Slots, GoesOn(s), UNCHANGED <<stop, then>>,
           IF then[s] = "again" THEN Begins(s) /\ asked \ {s} \subseteq asked'
                               ELSE UNCHANGED <<unanswered, asked>>
    PROVE  RInv'
<1>1. PICK stage \in Stages : pc' = [pc EXCEPT ![s] = stage]
  <2>1. After[then[s]] \in Stages /\ "ended" \in Stages
    BY DEF RInv, After, Stages
  <2> QED
    BY <2>1 DEF GoesOn
<1>2. then' = [then EXCEPT ![s] = then[s]] /\ then[s] \in {"stop", "again", "wait"}
  BY DEF RInv
<1>3. CASE then[s] = "again"
  BY <1>1, <1>2, <1>3, RequestStep DEF RInv, Begins
<1>4. CASE then[s] # "again"
  <2>1. s \in unanswered' \ stop' => RequestKept(s)'
    BY <1>4 DEF RInv, NoRequestLost, RequestKept
  <2> QED
    BY <1>1, <1>2, <1>4, <2>1, RequestStep DEF RInv
<1> QED
  BY <1>3, <1>4

\* A connection or an attempt ends: a request seen is kept as what to do next.
LEMMA EndsRequests ==
    ASSUME RInv, NEW s \in Slots, pc[s] \notin {"closing", "attempt"},
           NEW stage \in {"closing", "attempt"}, NEW next \in {"stop", "again", "wait"},
           pc' = [pc EXCEPT ![s] = stage], then' = [then EXCEPT ![s] = next],
           UNCHANGED <<stop, unanswered>>,
           asked' = asked \/ (next = "again" /\ asked' = asked \ {s})
    PROVE  RInv'
<1>1. stage \in Stages
  BY DEF Stages
<1>2. s \in unanswered' \ stop' => RequestKept(s)'
  BY DEF RInv, NoRequestLost, RequestKept
<1> QED
  BY <1>1, <1>2, RequestStep DEF RInv

LEMMA WorkRInv == ASSUME RInv, NEW s \in Slots, Work(s) PROVE RInv'
<1>1. CASE StartProcess(s) \/ Connected(s) \/ Listed(s) \/ StopWaiting(s)
  <2>1. UNCHANGED <<asked, unanswered, then, stop>>
    BY <1>1 DEF StartProcess, Connected, Listed, StopWaiting
  <2>2. /\ pc' \in [Slots -> Stages]
        /\ \A t \in Slots : pc[t] \in {"closing", "attempt"} => pc'[t] = pc[t]
    BY <1>1 DEF RInv, StartProcess, Connected, Listed, StopWaiting, Stages
  <2> QED
    BY <2>1, <2>2, RequestsStay
<1>2. CASE ConnectFails(s) \/ StopConnecting(s) \/ AskedConnecting(s)
  BY <1>2, EndsRequests DEF ConnectFails, StopConnecting, AskedConnecting, GivenUp
<1>3. CASE ListFails(s) \/ StopServing(s) \/ AskedServing(s) \/ Lost(s)
  BY <1>3, EndsRequests DEF ListFails, StopServing, AskedServing, Lost, Ends
<1>4. CASE EndAttempt(s)
  BY <1>4, GoesOnRequests DEF EndAttempt
<1>5. CASE Close(s)
  BY <1>5, GoesOnRequests DEF Close, Unasked
<1>6. CASE WaitOver(s) \/ AskedWaiting(s)
  <2>1. /\ pc' = [pc EXCEPT ![s] = "connecting"] /\ "connecting" \in Stages
        /\ UNCHANGED <<stop, then>> /\ unanswered' = unanswered \ {s}
        /\ asked \ {s} \subseteq asked'
    BY <1>6 DEF WaitOver, AskedWaiting, Retry, Spawn, Begins, Stages
  <2>2. then' = [then EXCEPT ![s] = then[s]] /\ then[s] \in {"stop", "again", "wait"}
    BY <2>1 DEF RInv
  <2> QED
    BY <2>1, <2>2, RequestStep DEF RInv
<1> QED
  BY <1>1, <1>2, <1>3, <1>4, <1>5, <1>6 DEF Work

LEMMA NextRInv == RInv /\ IInv /\ [Next]_vars => RInv'
<1> SUFFICES ASSUME RInv, IInv, [Next]_vars PROVE RInv'
  OBVIOUS
<1>1. CASE UNCHANGED vars
  BY <1>1 DEF vars, RInv, NoRequestLost
<1>2. ASSUME NEW n \in Names, Apply(n) \/ Remove(n) PROVE RInv'
  <2>1. /\ UNCHANGED <<asked, unanswered, then>> /\ stop \subseteq stop'
        /\ pc' \in [Slots -> Stages]
    BY <1>2 DEF RInv, Apply, Remove, Retire, Spawn, Stages, task
  <2>2. \A t \in Slots : pc[t] \in {"closing", "attempt"} => pc'[t] = pc[t]
    BY <1>2 DEF RInv, IInv, ProcOK, Apply, Remove, New, Spawn, task
  <2> QED
    BY <2>1, <2>2, RequestsStay
<1>3. CASE Probe
  <2>1. /\ UNCHANGED <<asked, unanswered, then, stop>>
        /\ pc' \in [Slots -> Stages]
    BY <1>3 DEF RInv, Probe, Spawn, Stages
  <2>2. \A t \in Slots : pc[t] \in {"closing", "attempt"} => pc'[t] = pc[t]
    BY <1>3 DEF RInv, IInv, ProcOK, Probe, New, Spawn
  <2> QED
    BY <2>1, <2>2, RequestsStay
<1>4. CASE CloseHub \/ Shutdown
  <2>1. UNCHANGED <<asked, unanswered, then, pc>> /\ stop \subseteq stop'
    BY <1>4 DEF Shutdown, CloseHub, CancelChecks, TakeRetired, StopSlot, Down, task
  <2> QED
    BY <2>1, RequestsStay DEF RInv
<1>5. ASSUME NEW s \in Slots, Work(s) PROVE RInv'
  BY <1>5, WorkRInv
<1>6. ASSUME NEW s \in Slots, Restart(s) PROVE RInv'
  <2>1. /\ asked' = asked \cup {s} /\ unanswered' = unanswered \cup {s}
        /\ UNCHANGED <<then, pc, stop>>
    BY <1>6 DEF Restart, task
  <2> QED
    BY <2>1 DEF RInv, NoRequestLost
<1>7. ASSUME NEW s \in Slots, GiveUp(s) \/ ProcessFails(s) \/ Ring(s) \/ CallLate(s) \/ PingEnds(s)
      PROVE  RInv'
  <2>1. UNCHANGED <<asked, unanswered, then, pc>> /\ stop \subseteq stop'
    BY <1>7 DEF GiveUp, ProcessFails, Ring, CallLate, PingEnds, task
  <2> QED
    BY <2>1, RequestsStay DEF RInv
<1> QED
  BY <1>1, <1>2, <1>3, <1>4, <1>5, <1>6, <1>7 DEF Next

\* A request is dropped only by a task that has yet to begin the connection
\* that answers it.
THEOREM RequestsAreNotLost == Spec => []NoRequestLost
<1>1. RInv => NoRequestLost
  BY DEF RInv
<1> QED
  BY <1>1, InitIInv, NextIInv, InitRInv, NextRInv, PTL DEF Spec

-----------------------------------------------------------------------------
(* A connection found broken is one whose process fails. *)

RingOK(s) ==
    s \in ring => key[s] # NoKey /\ (Connection(s) => proc[s] \in {"mute", "gone"})

LInv == IInv /\ \A s \in Slots : RingOK(s)

\* What a step does to the served connection of a slot.
Spared(s) ==
    pc[s] = "serving" /\ pc'[s] # "serving" =>
        s \in stop \/ s \in asked \/ proc[s] \in {"mute", "gone"}

\* A step of slot s: the others stay as they are, and none of them rings.
LEMMA OneSlotStep ==
    ASSUME LInv, NEW s \in Slots, RingOK(s)', Spared(s),
           \A t \in Slots \ {s} :
               /\ pc'[t] = pc[t] /\ proc'[t] = proc[t] /\ key'[t] = key[t]
               /\ t \in ring' => t \in ring
    PROVE  \A t \in Slots : RingOK(t)' /\ Spared(t)
BY DEF LInv, RingOK, Connection, Spared

\* A slot is made: no ring is left in it.
LEMMA NewRings ==
    ASSUME LInv, NEW s \in Slots, New(s), UNCHANGED <<proc, ring>>, NEW k \in Keys \cup {Off},
           key' = [key EXCEPT ![s] = k],
           pc' = pc \/ pc' = [pc EXCEPT ![s] = "connecting"]
    PROVE  \A t \in Slots : RingOK(t)' /\ Spared(t)
<1>1. s \notin ring /\ pc[s] = "none"
  BY DEF LInv, RingOK, IInv, ProcOK, New
<1>2. \A t \in Slots \ {s} : pc'[t] = pc[t] /\ key'[t] = key[t]
  BY DEF LInv, IInv, HubTypeOK
<1> QED
  BY <1>1, <1>2, OneSlotStep DEF RingOK, Spared

LEMMA AdminRings ==
    ASSUME LInv, Probe \/ \E n \in Names : Apply(n) \/ Remove(n)
    PROVE  \A t \in Slots : RingOK(t)' /\ Spared(t)
<1>1. ASSUME NEW n \in Names, Remove(n) PROVE \A t \in Slots : RingOK(t)' /\ Spared(t)
  BY <1>1 DEF Remove, task, link, LInv, RingOK, Connection, Spared
<1>2. ASSUME NEW n \in Names, Apply(n) PROVE \A t \in Slots : RingOK(t)' /\ Spared(t)
  <2>1. PICK s \in Slots : \E k \in Keys \cup {Off} :
          /\ New(s) /\ key' = [key EXCEPT ![s] = k]
          /\ IF k = Off THEN UNCHANGED <<pc, phase>> ELSE Spawn(s)
    BY <1>2 DEF Apply
  <2>2. PICK k \in Keys \cup {Off} :
          /\ New(s) /\ key' = [key EXCEPT ![s] = k]
          /\ pc' = pc \/ pc' = [pc EXCEPT ![s] = "connecting"]
    BY <2>1 DEF Spawn
  <2>3. UNCHANGED <<proc, ring>>
    BY <1>2 DEF Apply, link
  <2> QED
    BY <2>2, <2>3, NewRings
<1>3. CASE Probe
  <2>1. PICK s \in Slots : \E k \in Keys :
          New(s) /\ key' = [key EXCEPT ![s] = k] /\ pc' = [pc EXCEPT ![s] = "connecting"]
    BY <1>3 DEF Probe, Spawn
  <2>2. UNCHANGED <<proc, ring>>
    BY <1>3 DEF Probe, link
  <2> QED
    BY <2>1, <2>2, NewRings
<1> QED
  BY <1>1, <1>2, <1>3

LEMMA WorldRings ==
    ASSUME LInv, NEW s \in Slots,
           Restart(s) \/ GiveUp(s) \/ ProcessFails(s) \/ Ring(s) \/ CallLate(s) \/ PingEnds(s)
    PROVE  \A t \in Slots : RingOK(t)' /\ Spared(t)
<1>1. CASE Restart(s) \/ GiveUp(s) \/ CallLate(s)
  BY <1>1 DEF Restart, GiveUp, CallLate, hub, task, link, LInv, RingOK, Connection, Spared
<1>2. CASE ProcessFails(s)
  <2>1. PICK state \in {"mute", "gone"} : proc' = [proc EXCEPT ![s] = state]
    BY <1>2 DEF ProcessFails
  <2>2. UNCHANGED <<pc, key, ring>>
    BY <1>2 DEF ProcessFails, hub, link
  <2> QED
    BY <2>1, <2>2, OneSlotStep DEF LInv, IInv, HubTypeOK, RingOK, Connection, Spared
<1>3. CASE Ring(s)
  <2>1. Connection(s) /\ proc[s] \in {"mute", "gone"} /\ ring' = ring \cup {s} /\ UNCHANGED <<pc, proc, key>>
    BY <1>3 DEF Ring, hub, task
  <2>2. key[s] # NoKey
    BY <2>1 DEF Connection, LInv, IInv, ProcOK
  <2> QED
    BY <2>1, <2>2, OneSlotStep DEF RingOK, Connection, Spared
<1>4. CASE PingEnds(s)
  <2>1. /\ UNCHANGED <<pc, proc, key>>
        /\ ring' = ring \/ (ring' = ring \cup {s} /\ phase[s] = "ready" /\ proc[s] \in {"mute", "gone"})
    BY <1>4 DEF PingEnds, SilentThis, hub, task
  <2>2. proc[s] \in {"mute", "gone"} => key[s] # NoKey
    BY DEF LInv, IInv, ProcOK
  <2>3. RingOK(s)
    BY DEF LInv
  <2> QED
    BY <2>1, <2>2, <2>3, OneSlotStep DEF RingOK, Connection, Spared
<1> QED
  BY <1>1, <1>2, <1>3, <1>4

\* An attempt or a connection ends, or begins with no ring left.
LEMMA WorkRings ==
    ASSUME LInv, NEW s \in Slots, Work(s)
    PROVE  \A t \in Slots : RingOK(t)' /\ Spared(t)
<1> USE DEF LInv, IInv, HubTypeOK
<1>0. key' = key /\ RingOK(s) /\ pc \in [Slots -> Stages] /\ proc[s] \in {"none", "live", "mute", "gone"}
  BY DEF Work, StartProcess, Connected, ConnectFails, StopConnecting, AskedConnecting, EndAttempt, Listed,
         ListFails, StopServing, AskedServing, Lost, Close, WaitOver, AskedWaiting, StopWaiting,
         GivenUp, Ends, Retry, hub
<1>1. CASE StartProcess(s)
  <2>1. UNCHANGED <<pc, ring>> /\ proc' = [proc EXCEPT ![s] = "live"] /\ pc[s] = "connecting" /\ proc[s] = "none"
    BY <1>1 DEF StartProcess, link
  <2>2. s \notin ring
    BY <1>0, <2>1 DEF RingOK, Connection
  <2> QED
    BY <1>0, <2>1, <2>2, OneSlotStep DEF RingOK, Spared
<1>2. CASE Connected(s) \/ Listed(s)
  <2>1. /\ UNCHANGED <<proc, ring>> /\ pc[s] \in {"connecting", "listing"}
        /\ pc' = [pc EXCEPT ![s] = "listing"] \/ pc' = [pc EXCEPT ![s] = "closing"]
           \/ pc' = [pc EXCEPT ![s] = "serving"]
    BY <1>2 DEF Connected, Listed, link
  <2> QED
    BY <1>0, <2>1, OneSlotStep DEF RingOK, Connection, Spared
<1>3. CASE ConnectFails(s) \/ StopConnecting(s) \/ AskedConnecting(s)
  <2>1. /\ UNCHANGED ring /\ pc[s] = "connecting" /\ pc' = [pc EXCEPT ![s] = "attempt"]
        /\ proc' = [proc EXCEPT ![s] = "none"]
    BY <1>3 DEF ConnectFails, StopConnecting, AskedConnecting, GivenUp, link
  <2> QED
    BY <1>0, <2>1, OneSlotStep DEF RingOK, Connection, Spared
<1>4. CASE ListFails(s) \/ StopServing(s) \/ AskedServing(s) \/ Lost(s)
  <2>1. UNCHANGED <<proc, ring>> /\ pc' = [pc EXCEPT ![s] = "closing"]
    BY <1>4 DEF ListFails, StopServing, AskedServing, Lost, Ends, link
  <2>2. pc[s] = "serving" => s \in stop \/ s \in asked \/ proc[s] = "gone" \/ s \in ring
    BY <1>4 DEF ListFails, StopServing, AskedServing, Lost
  <2>3. Spared(s)
    BY <1>0, <2>2 DEF RingOK, Connection, Spared
  <2> QED
    BY <1>0, <2>1, <2>3, OneSlotStep DEF RingOK, Connection
<1>5. CASE EndAttempt(s) \/ Close(s)
  <2>1. /\ pc[s] \in {"attempt", "closing"} /\ GoesOn(s)
        /\ proc' = proc \/ proc' = [proc EXCEPT ![s] = "none"]
    BY <1>5 DEF EndAttempt, Close
  <2>2. /\ pc' = [pc EXCEPT ![s] = pc'[s]]
        /\ pc'[s] \in {"ended", "waiting"} \/ (pc'[s] = "connecting" /\ then[s] = "again")
    BY <2>1 DEF GoesOn, After
  <2>3. ring' \subseteq ring /\ (then[s] = "again" => s \notin ring')
    BY <1>5 DEF EndAttempt, Close, Begins
  <2> QED
    BY <1>0, <2>1, <2>2, <2>3, OneSlotStep DEF RingOK, Connection, Spared
<1>6. CASE WaitOver(s) \/ AskedWaiting(s)
  <2>1. /\ pc[s] = "waiting" /\ pc' = [pc EXCEPT ![s] = "connecting"] /\ ring' = ring \ {s}
        /\ proc' = proc
    BY <1>6 DEF WaitOver, AskedWaiting, Retry, Spawn, Begins
  <2> QED
    BY <1>0, <2>1, OneSlotStep DEF RingOK, Spared
<1>7. CASE StopWaiting(s)
  <2>1. UNCHANGED <<proc, ring>> /\ pc[s] = "waiting" /\ pc' = [pc EXCEPT ![s] = "ended"]
    BY <1>7 DEF StopWaiting, link
  <2> QED
    BY <1>0, <2>1, OneSlotStep DEF RingOK, Connection, Spared
<1> QED
  BY <1>1, <1>2, <1>3, <1>4, <1>5, <1>6, <1>7 DEF Work

LEMMA NextLInv == LInv /\ [Next]_vars => LInv' /\ \A s \in Slots : Spared(s)
<1> SUFFICES ASSUME LInv, [Next]_vars PROVE LInv' /\ \A s \in Slots : Spared(s)
  OBVIOUS
<1>1. IInv'
  BY NextIInv DEF LInv
<1>2. \A s \in Slots : RingOK(s)' /\ Spared(s)
  <2>1. CASE UNCHANGED vars
    BY <2>1 DEF vars, LInv, RingOK, Connection, Spared
  <2>2. CASE CloseHub \/ Shutdown
    BY <2>2 DEF CloseHub, Shutdown, CancelChecks, TakeRetired, StopSlot, Down, hub, task, link,
                LInv, RingOK, Connection, Spared
  <2>3. CASE Probe \/ \E n \in Names : Apply(n) \/ Remove(n)
    BY <2>3, AdminRings
  <2>4. ASSUME NEW s \in Slots, Work(s) PROVE \A t \in Slots : RingOK(t)' /\ Spared(t)
    BY <2>4, WorkRings
  <2>5. ASSUME NEW s \in Slots,
               Restart(s) \/ GiveUp(s) \/ ProcessFails(s) \/ Ring(s) \/ CallLate(s) \/ PingEnds(s)
        PROVE  \A t \in Slots : RingOK(t)' /\ Spared(t)
    BY <2>5, WorldRings
  <2> QED
    BY <2>1, <2>2, <2>3, <2>4, <2>5 DEF Next
<1> QED
  BY <1>1, <1>2 DEF LInv

\* No silence of an older connection, and no ring meant for it, takes a served one
\* down: only a stop, a request or its own process does.
THEOREM HealthyStay == Spec => HealthyConnectionsStay
<1>1. Init => LInv
  BY InitIInv DEF LInv, RingOK, Init
<1>2. LInv /\ [Next]_vars =>
        [\A s \in Slots :
            pc[s] = "serving" /\ pc'[s] # "serving" =>
                s \in stop \/ s \in asked \/ proc[s] \in {"mute", "gone"}]_vars
  BY NextLInv DEF Spared
<1> QED
  BY <1>1, <1>2, NextLInv, PTL DEF Spec, HealthyConnectionsStay
=============================================================================
