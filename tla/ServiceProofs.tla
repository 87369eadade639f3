---------------------------- MODULE ServiceProofs ----------------------------
(***************************************************************************)
(* What the parts around the answer promise, for every value of their      *)
(* constants: the rows of the log at the server's end, the lookups that    *)
(* share a thread, the secrets and their addresses, the pools and the load *)
(* they wait for, the processes of a server's attempts, the records of the *)
(* admin screen, the messages of the MCP servers and the listings of their *)
(* tools, the requests to the model, the lines read from chunks of bytes.  *)
(* Each section has the conjuncts that make its property inductive, the    *)
(* lemmas on the actions that need more than their own definition, the     *)
(* step and the theorem.                                                   *)
(***************************************************************************)
EXTENDS Server, Lookups, Settings, Pools, Processes, Records, Wire, Catalogue, Completion, Lines,
        FiniteSetTheorems, SequenceTheorems, WellFoundedInduction, TLAPS

-----------------------------------------------------------------------------
\* The rows of the log at the end of the service.

\* Rows the counter counts: being written, or left by a task that died.
Counted == {q \in Asked : row[q] \in {"writing", "stuck"}}

Settled == {"written", "failed", "skipped"}

ServerTypes ==
    /\ server \in Stages
    /\ stopSignal \in BOOLEAN
    /\ tab \in [Asked -> {"none", "open", "closed"}]
    /\ task \in [Asked -> {"none", "running", "logged_answer", "logged_error", "logged_cancel", "over"}]
    /\ runCancelled \in [Asked -> BOOLEAN]
    /\ told \in [Asked -> {"nothing", "done", "error", "rejected"}]
    /\ row \in [Asked -> {"none", "writing", "written", "failed", "skipped", "stuck", "lost"}]
    /\ pending \in Nat
    /\ polls \in 0..Polls
    /\ mcpHub \in {"up", "closed"}
    /\ overrun \subseteq {"connections", "rows", "jobs"}

\* A question that was told anything has its row begun.
RowsOK ==
    \A q \in Asked :
        /\ task[q] \in {"none", "running"} <=> row[q] = "none"
        /\ told[q] # "nothing" => row[q] # "none"
        /\ row[q] = "lost" => server = "exited"

\* A question that has no request runs nowhere.
TabOK == \A q \in Asked : tab[q] = "none" => task[q] = "none"

\* The counter is that of the rows counted.
PendingOK == Runs => pending = Cardinality(Counted)

\* Once the connections have ended, nobody is told anything.
ClosedOK ==
    /\ server = "binding" => \A q \in Asked : tab[q] = "none" /\ told[q] = "nothing"
    /\ server \in {"logging", "joining", "closing", "exited"} /\ "connections" \notin overrun =>
          \A q \in Asked : tab[q] # "open"

\* And once the rows were waited for, each that was told has its own.
LoggedOK ==
    server \in {"joining", "closing", "exited"} /\ overrun \cap {"connections", "rows"} = {} =>
        \A q \in Asked : told[q] # "nothing" => row[q] \in Settled

ServerInv == ServerTypes /\ TabOK /\ RowsOK /\ PendingOK /\ ClosedOK /\ LoggedOK

-----------------------------------------------------------------------------

LEMMA ServerInitInv == ServerInit => ServerInv
<1>. SUFFICES ASSUME ServerInit PROVE ServerInv
  OBVIOUS
<1>1. PendingOK
  <2>1. Counted = {}
    BY DEF ServerInit, Counted
  <2>. QED  BY <2>1, FS_EmptySet DEF ServerInit, PendingOK
<1>2. ServerTypes
  <2>1. 0 \in Nat /\ 0 \in 0..Polls
    BY ServerAssumption
  <2>. QED  BY <2>1 DEF ServerInit, ServerTypes, Stages
<1>3. TabOK /\ RowsOK /\ ClosedOK /\ LoggedOK
  BY DEF ServerInit, TabOK, RowsOK, ClosedOK, LoggedOK
<1>. QED  BY <1>1, <1>2, <1>3 DEF ServerInv

\* Counting a row more, or one less.
LEMMA CountedIsFinite == IsFiniteSet(Counted)
BY ServerAssumption, FS_Subset DEF Counted

LEMMA RecordCounts ==
    ASSUME ServerInv, Runs, NEW q \in Asked, row[q] = "none", Record(q)
    PROVE  /\ row'[q] \in {"writing", "skipped"} /\ \E r \in {"writing", "skipped"} : row' = [row EXCEPT ![q] = r]
           /\ pending' \in Nat /\ pending' = Cardinality(Counted')
<1>1. pending = Cardinality(Counted) /\ pending \in Nat
      /\ row \in [Asked -> {"none", "writing", "written", "failed", "skipped", "stuck", "lost"}]
  BY DEF ServerInv, PendingOK, ServerTypes
<1>2. CASE pending >= MaxPending
  <2>1. row' = [row EXCEPT ![q] = "skipped"] /\ pending' = pending
    BY <1>2 DEF Record
  <2>2. Counted' = Counted
    BY <1>1, <2>1 DEF Counted
  <2>. QED  BY <1>1, <2>1, <2>2
<1>3. CASE ~(pending >= MaxPending)
  <2>1. row' = [row EXCEPT ![q] = "writing"] /\ pending' = pending + 1
    BY <1>3 DEF Record
  <2>2. Counted' = Counted \cup {q} /\ q \notin Counted
    BY <1>1, <2>1 DEF Counted
  <2>3. Cardinality(Counted') = Cardinality(Counted) + 1
    BY <2>2, CountedIsFinite, FS_AddElement
  <2>. QED  BY <1>1, <2>1, <2>3
<1>. QED  BY <1>2, <1>3

LEMMA WriteRowCounts ==
    ASSUME ServerInv, NEW q \in Asked, WriteRow(q)
    PROVE  pending' \in Nat /\ pending' = Cardinality(Counted')
<1>1. pending = Cardinality(Counted) /\ pending \in Nat
      /\ row \in [Asked -> {"none", "writing", "written", "failed", "skipped", "stuck", "lost"}]
  BY DEF ServerInv, PendingOK, ServerTypes, WriteRow
<1>2. q \in Counted
  BY DEF WriteRow, Counted
<1>3. CASE row' = [row EXCEPT ![q] = "stuck"] /\ UNCHANGED pending
  <2>1. Counted' = Counted
    BY <1>1, <1>2, <1>3 DEF Counted
  <2>. QED  BY <1>1, <1>3, <2>1
<1>4. CASE (\E how \in {"written", "failed"} : row' = [row EXCEPT ![q] = how]) /\ pending' = pending - 1
  <2>1. Counted' = Counted \ {q}
    BY <1>1, <1>4 DEF Counted
  <2>2. Cardinality(Counted') = Cardinality(Counted) - 1
    BY <1>2, <2>1, CountedIsFinite, FS_RemoveElement
  <2>3. Cardinality(Counted') \in Nat
    BY <2>1, CountedIsFinite, FS_RemoveElement, FS_CardinalityType
  <2>. QED  BY <1>1, <1>4, <2>2, <2>3
<1>. QED  BY <1>3, <1>4 DEF WriteRow

LEMMA ServerNextInv == ServerInv /\ [ServerNext]_serverVars => ServerInv'
<1>. SUFFICES ASSUME ServerInv, [ServerNext]_serverVars PROVE ServerInv'
  OBVIOUS
<1>. USE DEF ServerInv
<1>1. CASE UNCHANGED serverVars
  BY <1>1 DEF serverVars, ServerTypes, TabOK, RowsOK, PendingOK, ClosedOK, LoggedOK, Counted, Runs
<1>2. ASSUME NEW q \in Asked, Ask(q) PROVE ServerInv'
  BY <1>2 DEF Ask, shutdownVars, ServerTypes, Stages, TabOK, RowsOK, PendingOK, ClosedOK, LoggedOK, Counted, Runs
<1>3. ASSUME NEW q \in Asked, AskRejected(q) PROVE ServerInv'
  <2>1. Runs /\ row[q] = "none" /\ Record(q) /\ server \in {"serving", "draining"}
    BY <1>3 DEF AskRejected, RowsOK, Runs, TabOK
  <2>2. PICK r \in {"writing", "skipped"} : row' = [row EXCEPT ![q] = r]
    BY <2>1, RecordCounts
  <2>3. pending' \in Nat /\ PendingOK'
    BY <2>1, RecordCounts DEF PendingOK
  <2>4. ServerTypes' /\ TabOK'
    BY <1>3, <2>2, <2>3 DEF AskRejected, ServerTypes, shutdownVars, TabOK
  <2>5. RowsOK' /\ ClosedOK' /\ LoggedOK'
    BY <1>3, <2>1, <2>2 DEF AskRejected, ServerTypes, shutdownVars, RowsOK, ClosedOK, LoggedOK, Settled
  <2>. QED  BY <2>3, <2>4, <2>5
<1>4. ASSUME NEW q \in Asked, Leave(q) PROVE ServerInv'
  BY <1>4 DEF Leave, shutdownVars, ServerTypes, Stages, TabOK, RowsOK, PendingOK, ClosedOK, LoggedOK, Counted, Runs
<1>5. ASSUME NEW q \in Asked, RunEnds(q) PROVE ServerInv'
  <2>1. Runs /\ row[q] = "none" /\ Record(q) /\ task[q] = "running"
    BY <1>5 DEF RunEnds, RowsOK
  <2>2. PICK r \in {"writing", "skipped"} : row' = [row EXCEPT ![q] = r]
    BY <2>1, RecordCounts
  <2>3. pending' \in Nat /\ PendingOK'
    BY <2>1, RecordCounts DEF PendingOK
  <2>4. PICK how \in {"logged_answer", "logged_error", "logged_cancel"} : task' = [task EXCEPT ![q] = how]
    BY <1>5 DEF RunEnds
  <2>5. ServerTypes' /\ TabOK'
    BY <1>5, <2>2, <2>3, <2>4 DEF RunEnds, ServerTypes, TabOK, shutdownVars
  <2>6. RowsOK' /\ ClosedOK' /\ LoggedOK'
    BY <1>5, <2>1, <2>2, <2>4 DEF RunEnds, ServerTypes, shutdownVars, RowsOK, ClosedOK, LoggedOK, Settled
  <2>. QED  BY <2>3, <2>5, <2>6
<1>6. ASSUME NEW q \in Asked, Tell(q) PROVE ServerInv'
  BY <1>6 DEF Tell, shutdownVars, ServerTypes, Stages, TabOK, RowsOK, PendingOK, ClosedOK, LoggedOK, Counted, Runs
<1>7. ASSUME NEW q \in Asked, Close(q) PROVE ServerInv'
  BY <1>7 DEF Close, shutdownVars, ServerTypes, Stages, TabOK, RowsOK, PendingOK, ClosedOK, LoggedOK, Counted, Runs
<1>8. ASSUME NEW q \in Asked, WriteRow(q) PROVE ServerInv'
  <2>1. pending' \in Nat /\ PendingOK'
    BY <1>8, WriteRowCounts DEF PendingOK
  <2>2. PICK how \in {"written", "failed", "stuck"} : row' = [row EXCEPT ![q] = how]
    BY <1>8 DEF WriteRow
  <2>3. ServerTypes' /\ TabOK' /\ RowsOK' /\ ClosedOK'
    BY <1>8, <2>1, <2>2 DEF WriteRow, ServerTypes, shutdownVars, TabOK, RowsOK, ClosedOK
  <2>4. LoggedOK'
    BY <1>8, <2>2 DEF WriteRow, ServerTypes, shutdownVars, LoggedOK, Settled
  <2>. QED  BY <2>1, <2>3, <2>4
<1>9. CASE Bind \/ BindFails \/ Signal \/ HubCloses
  <2>1. PendingOK'
    BY <1>9 DEF Bind, BindFails, Signal, HubCloses, PendingOK, Counted, Runs
  <2>2. ServerTypes'
    BY <1>9 DEF Bind, BindFails, Signal, HubCloses, ServerTypes, Stages
  <2>. QED
    BY <1>9, <2>1, <2>2 DEF Bind, BindFails, Signal, HubCloses, Runs, TabOK, RowsOK, ClosedOK, LoggedOK
<1>10. CASE Drained \/ DrainOver
  <2>1. PendingOK'
    BY <1>10 DEF Drained, DrainOver, PendingOK, Counted, Runs
  <2>2. ServerTypes'
    BY <1>10 DEF Drained, DrainOver, ServerTypes, Stages
  <2>. QED
    BY <1>10, <2>1, <2>2 DEF Drained, DrainOver, TabOK, RowsOK, ClosedOK, LoggedOK
<1>11. CASE LookAtRows
  <2>1. UNCHANGED <<stopSignal, tab, task, runCancelled, told, row, pending, mcpHub>> /\ server = "logging"
    BY <1>11 DEF LookAtRows
  <2>2. CASE pending = 0 /\ server' = "joining" /\ UNCHANGED <<polls, overrun>>
    <3>1. Counted = {}
      BY <2>1, <2>2, CountedIsFinite, FS_EmptySet DEF PendingOK, Runs
    <3>2. LoggedOK'
      BY <2>1, <2>2, <3>1 DEF LoggedOK, Settled, Counted, RowsOK, ServerTypes
    <3>3. PendingOK'
      BY <2>1, <2>2 DEF PendingOK, Counted, Runs
    <3>. QED
      BY <2>1, <2>2, <3>2, <3>3 DEF ServerTypes, Stages, TabOK, RowsOK, ClosedOK
  <2>3. CASE pending > 0 /\ polls < Polls /\ polls' = polls + 1 /\ UNCHANGED <<server, overrun>>
    <3>1. ServerTypes'
      BY <2>1, <2>3, ServerAssumption DEF ServerTypes
    <3>. QED
      BY <2>1, <2>3, <3>1 DEF TabOK, RowsOK, PendingOK, ClosedOK, LoggedOK, Counted, Runs
  <2>4. CASE pending > 0 /\ polls = Polls /\ server' = "joining" /\ overrun' = overrun \cup {"rows"} /\ UNCHANGED polls
    <3>1. PendingOK'
      BY <2>1, <2>4 DEF PendingOK, Counted, Runs
    <3>. QED
      BY <2>1, <2>4, <3>1 DEF ServerTypes, Stages, TabOK, RowsOK, ClosedOK, LoggedOK
  <2>. QED  BY <1>11, <2>2, <2>3, <2>4 DEF LookAtRows
<1>12. CASE JoinJobs
  BY <1>12 DEF JoinJobs, LateJobs, ServerTypes, Stages, TabOK, RowsOK, PendingOK, ClosedOK, LoggedOK,
      Counted, Runs
<1>13. CASE Exit
  <2>1. ServerTypes' /\ TabOK' /\ RowsOK' /\ PendingOK' /\ ClosedOK'
    BY <1>13 DEF Exit, ServerTypes, Stages, TabOK, RowsOK, PendingOK, ClosedOK, Runs
  <2>2. LoggedOK'
    BY <1>13 DEF Exit, ServerTypes, LoggedOK, Settled
  <2>. QED  BY <2>1, <2>2
<1>. QED
  BY <1>1, <1>2, <1>3, <1>4, <1>5, <1>6, <1>7, <1>8, <1>9, <1>10, <1>11, <1>12, <1>13 DEF ServerNext

\* Once the server has ended without running out of time for its connections or its
\* rows, every question whose browser was told its outcome has a row that was
\* written, refused by the DB or skipped for want of room (main.rs serve, web.rs finish).
THEOREM AnswersAreLogged == ServerSpec => []AnsweredIsLogged
<1>1. ServerInv => AnsweredIsLogged
  BY DEF ServerInv, LoggedOK, Settled, AnsweredIsLogged
<1>. QED  BY <1>1, ServerInitInv, ServerNextInv, PTL DEF ServerSpec

-----------------------------------------------------------------------------
\* Lookups that share a thread.

\* An ask that has not begun a flight, or has nothing of it on a thread, has no answer
\* of one; a refused ask has said so.
AsksOK ==
    \A a \in Asks :
        /\ askAt[a] \in {"none", "asks", "joined", "begun", "refusing", "dropping"} => dnsThread[a] = "none"
        /\ askAt[a] \in {"none", "asks", "joined", "begun", "dropping"} => answer[a] = "none"
        /\ askAt[a] = "refusing" => answer[a] # "none"
        /\ askAt[a] = "joined" => joins[a] \in Asks
        /\ dnsThread[a] = "looking" => answer[a] = "none"

\* A flight is listed for its own name, from its beginning until its thread knows.
FlightsOK ==
    /\ \A f \in Asks : askAt[f] = "begun" \/ dnsThread[f] = "looking" => flights[needs[f]] = f
    /\ \A n \in Domains : flights[n] # NoFlight => needs[flights[n]] = n

LookupsInv == LookupsTypeOK /\ AsksOK /\ FlightsOK /\ LookupsAreShared

LEMMA LookupsInitInv == LookupsInit => LookupsInv
BY DEF LookupsInit, LookupsInv, LookupsTypeOK, AsksOK, FlightsOK, LookupsAreShared

LEMMA LookupsNextInv == LookupsInv /\ [LookupsNext]_dnsVars => LookupsInv'
<1>. SUFFICES ASSUME LookupsInv, [LookupsNext]_dnsVars PROVE LookupsInv'
  OBVIOUS
<1>. USE LookupsAssumption DEF LookupsInv
<1>1. CASE UNCHANGED dnsVars
  BY <1>1 DEF dnsVars, LookupsTypeOK, AsksOK, FlightsOK, LookupsAreShared
<1>2. ASSUME NEW a \in Asks, AskForName(a) PROVE LookupsInv'
  BY <1>2 DEF AskForName, AskGoes, LookupsTypeOK, AsksOK, FlightsOK, LookupsAreShared
<1>3. ASSUME NEW a \in Asks, JoinOrBegin(a) PROVE LookupsInv'
  <2>1. LookupsTypeOK'
    BY <1>3 DEF JoinOrBegin, AskGoes, LookupsTypeOK
  <2>2. AsksOK' /\ FlightsOK'
    BY <1>3 DEF JoinOrBegin, AskGoes, LookupsTypeOK, AsksOK, FlightsOK
  <2>3. LookupsAreShared'
    BY <1>3 DEF JoinOrBegin, AskGoes, LookupsTypeOK, AsksOK, FlightsOK, LookupsAreShared
  <2>. QED  BY <2>1, <2>2, <2>3
<1>4. ASSUME NEW a \in Asks, JoinedAnswer(a) PROVE LookupsInv'
  BY <1>4 DEF JoinedAnswer, AskGoes, LookupsTypeOK, AsksOK, FlightsOK, LookupsAreShared
<1>5. ASSUME NEW a \in Asks, JoinedNothing(a) PROVE LookupsInv'
  <2>1. LookupsTypeOK'
    BY <1>5 DEF JoinedNothing, LeaveFlight, AskGoes, LookupsTypeOK, AsksOK
  <2>2. AsksOK' /\ FlightsOK'
    BY <1>5 DEF JoinedNothing, LeaveFlight, AskGoes, LookupsTypeOK, AsksOK, FlightsOK
  <2>3. LookupsAreShared'
    BY <1>5 DEF JoinedNothing, LeaveFlight, AskGoes, LookupsTypeOK, AsksOK, FlightsOK, LookupsAreShared
  <2>. QED  BY <2>1, <2>2, <2>3
<1>6. ASSUME NEW a \in Asks, NoWorker(a) PROVE LookupsInv'
  BY <1>6 DEF NoWorker, AskGoes, LookupsTypeOK, AsksOK, FlightsOK, LookupsAreShared
<1>7. ASSUME NEW a \in Asks, BeginLookup(a) PROVE LookupsInv'
  <2>1. LookupsTypeOK'
    BY <1>7 DEF BeginLookup, AskGoes, LookupsTypeOK
  <2>2. AsksOK' /\ FlightsOK'
    BY <1>7 DEF BeginLookup, AskGoes, LookupsTypeOK, AsksOK, FlightsOK
  <2>3. LookupsAreShared'
    BY <1>7, <2>2 DEF BeginLookup, AskGoes, LookupsTypeOK, AsksOK, FlightsOK, LookupsAreShared
  <2>. QED  BY <2>1, <2>2, <2>3
<1>8. ASSUME NEW a \in Asks, AskRefused(a) PROVE LookupsInv'
  BY <1>8 DEF AskRefused, LeaveFlight, AskGoes, LookupsTypeOK, AsksOK, FlightsOK, LookupsAreShared
<1>9. ASSUME NEW a \in Asks, GiveUpAsk(a) PROVE LookupsInv'
  <2>1. LookupsTypeOK'
    BY <1>9 DEF GiveUpAsk, LeaveFlight, AskGoes, LookupsTypeOK
  <2>2. AsksOK' /\ FlightsOK'
    BY <1>9 DEF GiveUpAsk, LeaveFlight, AskGoes, LookupsTypeOK, AsksOK, FlightsOK
  <2>3. LookupsAreShared'
    BY <1>9 DEF GiveUpAsk, LeaveFlight, AskGoes, LookupsTypeOK, AsksOK, FlightsOK, LookupsAreShared
  <2>. QED  BY <2>1, <2>2, <2>3
<1>10. ASSUME NEW a \in Asks, DropVoice(a) PROVE LookupsInv'
  BY <1>10 DEF DropVoice, AskGoes, LookupsTypeOK, AsksOK, FlightsOK, LookupsAreShared
<1>11. ASSUME NEW a \in Asks, LookupReturns(a) PROVE LookupsInv'
  BY <1>11 DEF LookupReturns, LeaveFlight, ThreadGoes, LookupsTypeOK, AsksOK, FlightsOK, LookupsAreShared
<1>12. ASSUME NEW a \in Asks, TellAnswer(a) PROVE LookupsInv'
  BY <1>12 DEF TellAnswer, ThreadGoes, LookupsTypeOK, AsksOK, FlightsOK, LookupsAreShared
<1>13. ASSUME NEW a \in Asks, ThreadEnds(a) PROVE LookupsInv'
  BY <1>13 DEF ThreadEnds, ThreadGoes, LookupsTypeOK, AsksOK, FlightsOK, LookupsAreShared
<1>14. ASSUME NEW a \in Asks, LookupPanics(a) PROVE LookupsInv'
  BY <1>14 DEF LookupPanics, ThreadGoes, LookupsTypeOK, AsksOK, FlightsOK, LookupsAreShared
<1>. QED
  BY <1>1, <1>2, <1>3, <1>4, <1>5, <1>6, <1>7, <1>8, <1>9, <1>10, <1>11, <1>12, <1>13, <1>14 DEF LookupsNext

\* However asks are given up, refused and begun anew, a name is looked up once at a
\* time, and who joined a flight waits for someone still to speak (llm/dns.rs answer).
THEOREM NamesAreLookedUpOnce == LookupsSpec => []LookupsAreShared
<1>1. LookupsInv => LookupsAreShared
  BY DEF LookupsInv
<1>. QED  BY <1>1, LookupsInitInv, LookupsNextInv, PTL DEF LookupsSpec

-----------------------------------------------------------------------------
\* The settings and their secrets.

\* A configuration whose secrets are at home.
SafeConfig(c) == Home(c.apiKey, c.llm) /\ Home(c.token, c.server)

\* What a save is about to store is such a configuration; once it has replaced the
\* secrets they are its own, and once the settings too both are.
SavingOK ==
    saving # None =>
        /\ saving \in [next : Configs, written : {"none", "secrets", "both"}]
        /\ SafeConfig(saving.next)
        /\ saving.written = "secrets" =>
              /\ secretsFile = SecretsPart(saving.next)
              /\ ~behind => settingsFile = SettingsPart(saving.next)

FilesOK ==
    /\ settingsFile \in [llm : Addresses, server : Addresses \cup {None, "stdio"}]
    /\ secretsFile \in [apiKey : Secrets, token : Secrets, adminKey : BOOLEAN]

SecretsInv == config \in Configs /\ FilesOK /\ SavingOK /\ SecretsStayHome

LEMMA DraftsAreSafe ==
    ASSUME NEW c \in Configs, SafeConfig(c), NEW d \in Drafts(c)
    PROVE  d \in Configs /\ SafeConfig(d)
BY DEF Drafts, AfterAnswer, Moved, SafeConfig, Home

LEMMA ServerDraftsAreSafe ==
    ASSUME NEW c \in Configs, SafeConfig(c), NEW d \in ServerDrafts(c)
    PROVE  d \in Configs /\ SafeConfig(d)
<1>1. CASE d = [c EXCEPT !.server = "stdio", !.token = None]
  BY <1>1 DEF Configs, SafeConfig, Home, Secrets
<1>2. CASE \E u \in Addresses : d \in {[c EXCEPT !.server = u, !.token = t] : t \in AfterAnswer(c.server, c.token, u)}
  <2>1. PICK u \in Addresses : d \in {[c EXCEPT !.server = u, !.token = t] : t \in AfterAnswer(c.server, c.token, u)}
    BY <1>2
  <2>2. PICK t \in AfterAnswer(c.server, c.token, u) : d = [c EXCEPT !.server = u, !.token = t]
    BY <2>1
  <2>3. t \in Secrets /\ Home(t, u)
    BY <2>2 DEF SafeConfig, Home, AfterAnswer, Moved, Configs, Secrets
  <2>. QED  BY <2>2, <2>3 DEF Configs, SafeConfig
<1>. QED  BY <1>1, <1>2, Zenon DEF ServerDrafts

LEMMA BeginKeeps ==
    ASSUME SecretsInv, NEW c \in Configs, SafeConfig(c), Begin(c)
    PROVE  SecretsInv'
BY DEF SecretsInv, FilesOK, SavingOK, SecretsStayHome, Begin

LEMMA SettingsInitInv == SettingsInit => SecretsInv
BY SettingsAssumption DEF SettingsInit, SecretsInv, FilesOK, SavingOK, SecretsStayHome, Configs, Secrets, Home,
     SettingsPart, SecretsPart

LEMMA SettingsNextInv == SecretsInv /\ [SettingsNext]_settingsVars => SecretsInv'
<1>. SUFFICES ASSUME SecretsInv, [SettingsNext]_settingsVars PROVE SecretsInv'
  OBVIOUS
<1>0. config \in Configs /\ SafeConfig(config)
  BY DEF SecretsInv, SecretsStayHome, SafeConfig
<1>1. CASE UNCHANGED settingsVars
  BY <1>1 DEF settingsVars, SecretsInv, FilesOK, SavingOK, SecretsStayHome
<1>2. ASSUME NEW s \in Screens, Refused(s) \/ \E what \in {"settings", "server"} : Open(s, what) PROVE SecretsInv'
  BY <1>2 DEF Refused, Open, SecretsInv, FilesOK, SavingOK, SecretsStayHome
<1>3. ASSUME NEW s \in Screens, Put(s) PROVE SecretsInv'
  BY <1>0, <1>3, DraftsAreSafe, BeginKeeps DEF Put
<1>4. ASSUME NEW s \in Screens, PutServer(s) PROVE SecretsInv'
  <2>1. PICK c \in ServerDrafts(config) \cup {[config EXCEPT !.server = None, !.token = None]} : Begin(c)
    BY <1>4 DEF PutServer
  <2>2. c \in Configs /\ SafeConfig(c)
    BY <1>0, <2>1, ServerDraftsAreSafe DEF Configs, Secrets, SafeConfig, Home
  <2>. QED  BY <2>1, <2>2, BeginKeeps
<1>5. CASE CreateServer
  BY <1>0, <1>5, ServerDraftsAreSafe, BeginKeeps DEF CreateServer
<1>6. CASE SaveProject
  BY <1>0, <1>6, BeginKeeps DEF SaveProject
<1>7. CASE CannotWrite \/ SettingsNotReplaced
  BY <1>7 DEF CannotWrite, SettingsNotReplaced, SecretsInv, FilesOK, SavingOK, SecretsStayHome
<1>8. CASE PersistFirst
  <2>1. saving \in [next : Configs, written : {"none", "secrets", "both"}] /\ SafeConfig(saving.next)
    BY <1>8 DEF PersistFirst, SecretsInv, SavingOK
  <2>2. FilesOK'
    BY <1>8, <2>1 DEF PersistFirst, SecretsInv, FilesOK, SecretsPart, Configs
  <2>3. SavingOK'
    BY <1>8, <2>1 DEF PersistFirst, SavingOK
  <2>4. ~behind' => settingsFile'.llm = saving.next.llm /\ settingsFile'.server = saving.next.server
    <3>1. ~behind' => SettingsPart(saving.next) = settingsFile /\ settingsFile' = settingsFile
      BY <1>8 DEF PersistFirst
    <3>2. SettingsPart(saving.next).llm = saving.next.llm /\ SettingsPart(saving.next).server = saving.next.server
      BY DEF SettingsPart
    <3>. QED  BY <3>1, <3>2
  <2>5. SecretsStayHome'
    BY <1>0, <1>8, <2>1, <2>4 DEF PersistFirst, SecretsInv, SecretsStayHome, SecretsPart, SettingsPart, SafeConfig
  <2>. QED  BY <1>0, <1>8, <2>2, <2>3, <2>5 DEF PersistFirst, SecretsInv
<1>9. CASE PersistSettings
  <2>1. saving \in [next : Configs, written : {"none", "secrets", "both"}] /\ SafeConfig(saving.next)
        /\ secretsFile = SecretsPart(saving.next)
    BY <1>9 DEF PersistSettings, SecretsInv, SavingOK
  <2>2. FilesOK'
    BY <1>9, <2>1 DEF PersistSettings, SecretsInv, FilesOK, SettingsPart, Configs
  <2>3. SavingOK'
    BY <1>9, <2>1 DEF PersistSettings, SavingOK
  <2>4. SecretsStayHome'
    BY <1>0, <1>9, <2>1 DEF PersistSettings, SecretsInv, SecretsStayHome, SecretsPart, SettingsPart, SafeConfig
  <2>. QED  BY <1>0, <1>9, <2>2, <2>3, <2>4 DEF PersistSettings, SecretsInv
<1>10. CASE Publish
  BY <1>10 DEF Publish, SecretsInv, FilesOK, SavingOK, SecretsStayHome, SafeConfig
<1>11. CASE CheckConnection
  <2>1. ~strayed'
    <3>1. CASE \E c \in Drafts(config) : strayed' = (strayed \/ ~Home(c.apiKey, c.llm))
      BY <1>0, <3>1, DraftsAreSafe DEF SecretsInv, SecretsStayHome, SafeConfig
    <3>2. CASE \E c \in ServerDrafts(config) : c.server # "stdio" /\ strayed' = (strayed \/ ~Home(c.token, c.server))
      BY <1>0, <3>2, ServerDraftsAreSafe DEF SecretsInv, SecretsStayHome, SafeConfig
    <3>. QED  BY <1>11, <3>1, <3>2 DEF CheckConnection
  <2>. QED  BY <1>11, <2>1 DEF CheckConnection, SecretsInv, FilesOK, SavingOK, SecretsStayHome
<1>12. CASE Restart
  <2>1. config' \in Configs
    BY <1>12 DEF Restart, Paired, SecretsInv, FilesOK, Configs, Secrets
  <2>2. SafeConfig(config')
    BY <1>12 DEF Restart, Paired, SecretsInv, FilesOK, SecretsStayHome, SafeConfig, Home
  <2>. QED  BY <1>12, <2>1, <2>2 DEF Restart, SecretsInv, FilesOK, SavingOK, SecretsStayHome, SafeConfig
<1>. QED
  BY <1>1, <1>2, <1>3, <1>4, <1>5, <1>6, <1>7, <1>8, <1>9, <1>10, <1>11, <1>12 DEF SettingsNext

\* Whatever the screens save over each other and wherever the process stops, a secret
\* is used, sent and stored for the address it was entered for, but in files that a save
\* left out of step (admin.rs draft, mcp_draft; config.rs save).
THEOREM SecretsAreHome == SettingsSpec => []SecretsStayHome
<1>1. SecretsInv => SecretsStayHome
  BY DEF SecretsInv
<1>. QED  BY <1>1, SettingsInitInv, SettingsNextInv, PTL DEF SettingsSpec

-----------------------------------------------------------------------------
\* The pools and the load of the client.

\* A load under way has a thread that will end it, and whoever was not told waits
\* for a thread that is yet to tell.
LoadOK ==
    /\ loading => \E l \in PoolRuns : loadThread[l] \in {"loading", "ending"}
    /\ \A r \in PoolRuns : runAt[r] \in {"swapped", "waiting"} /\ r \notin notified =>
           \E l \in PoolRuns : loadThread[l] \in {"loading", "ending", "telling"}

\* The list holds its pool; who holds one holds a pool that was made, a run while it
\* has come to it.
OwnersOK ==
    /\ \A p \in Made :
        /\ "map" \in owners[p] <=> poolListed = p
        /\ madeFor[p] = NoPool => owners[p] = {} /\ closedBy[p] = "nobody"
        /\ closedBy[p] # "nobody" => owners[p] = {}
        /\ \A r \in owners[p] \cap PoolRuns : runAt[r] = "pooled"

PoolsInv == PoolsTypeOK /\ LoadOK /\ OwnersOK /\ PoolsAreLetGo

USE PoolsAssumption

LEMMA PoolsInitInv == PoolsInit => PoolsInv
<1>. SUFFICES ASSUME PoolsInit PROVE PoolsInv
  OBVIOUS
<1>1. PoolsTypeOK
  BY DEF PoolsInit, PoolsTypeOK
<1>2. LoadOK
  BY DEF PoolsInit, LoadOK
<1>3. OwnersOK /\ PoolsAreLetGo
  BY DEF PoolsInit, OwnersOK, PoolsAreLetGo
<1>. QED  BY <1>1, <1>2, <1>3 DEF PoolsInv

\* What leaves the list of pools alone, and what each run has read of a pool it holds.
LEMMA PoolsStay ==
    ASSUME PoolsInv, UNCHANGED poolListVars, PoolsTypeOK', 
           \A r \in PoolRuns : runAt[r] = "pooled" => runAt'[r] = "pooled" /\ readRow'[r] = readRow[r]
    PROVE  OwnersOK' /\ PoolsAreLetGo'
BY DEF PoolsInv, poolListVars, OwnersOK, PoolsAreLetGo

\* What leaves the loading of the client alone, and makes nobody wait.
LEMMA LoadStays ==
    ASSUME PoolsInv, UNCHANGED <<loading, loadThread, notified>>, PoolsTypeOK',
           \A r \in PoolRuns : runAt'[r] \in {"swapped", "waiting"} => runAt[r] \in {"swapped", "waiting"}
    PROVE  LoadOK'
BY DEF PoolsInv, LoadOK

LEMMA CloseLaterKeeps ==
    ASSUME PoolsTypeOK, NEW own \in [Made -> SUBSET (PoolRuns \cup {"map", "closing", "waiting"})],
           NEW gone \in SUBSET Made, CloseLater(own, gone), \A p \in gone \cup Waiting : own[p] # {}
    PROVE  /\ owners' \in [Made -> SUBSET (PoolRuns \cup {"map", "closing", "waiting"})]
           /\ UNCHANGED closedBy
           /\ \A p \in Made :
                 /\ owners'[p] \cap PoolRuns = own[p] \cap PoolRuns
                 /\ owners'[p] = {} <=> own[p] = {}
                 /\ "map" \in owners'[p] <=> "map" \in own[p] /\ p \notin gone \cup Waiting
<1>1. PICK to \in {"closing", "waiting"} :
        owners' = [p \in Made |-> IF p \in gone \cup Waiting THEN (own[p] \ {"map", "waiting"}) \cup {to} ELSE own[p]]
  BY DEF CloseLater
<1>2. owners' \in [Made -> SUBSET (PoolRuns \cup {"map", "closing", "waiting"})]
  BY <1>1
<1>3. ASSUME NEW p \in Made
      PROVE  owners'[p] \cap PoolRuns = own[p] \cap PoolRuns
  <2>1. CASE p \in gone \cup Waiting
    BY <1>1, <2>1
  <2>2. CASE p \notin gone \cup Waiting
    BY <1>1, <2>2
  <2>. QED  BY <2>1, <2>2
<1>4. ASSUME NEW p \in Made
      PROVE  /\ owners'[p] = {} <=> own[p] = {}
             /\ ("map" \in owners'[p] <=> "map" \in own[p] /\ p \notin gone \cup Waiting)
  BY <1>1
<1>. QED  BY <1>2, <1>3, <1>4 DEF CloseLater

LEMMA PoolsNextInv == PoolsInv /\ [PoolsNext]_poolsVars => PoolsInv'
<1>. SUFFICES ASSUME PoolsInv, [PoolsNext]_poolsVars PROVE PoolsInv'
  OBVIOUS
<1>1. CASE UNCHANGED poolsVars
  BY <1>1 DEF poolsVars, loadVars, poolListVars, PoolsInv, PoolsTypeOK, LoadOK, OwnersOK, PoolsAreLetGo
<1>2. CASE SaveTarget
  <2>1. PoolsTypeOK'
    BY <1>2 DEF SaveTarget, loadVars, poolListVars, PoolsInv, PoolsTypeOK
  <2>. QED  BY <1>2, <2>1, PoolsStay, LoadStays DEF SaveTarget, loadVars, PoolsInv
<1>3. ASSUME NEW r \in PoolRuns,
             ReadTarget(r) \/ ReadClient(r) \/ AwaitLoad(r) \/ Told(r) \/ StopRun(r) \/ PoolNotMade(r)
      PROVE  PoolsInv'
  <2>1. PoolsTypeOK'
    BY <1>3 DEF ReadTarget, ReadClient, AwaitLoad, Told, StopRun, PoolNotMade, ClientKnown, RunGoes,
           loadVars, poolListVars, PoolsInv, PoolsTypeOK
  <2>2. LoadOK'
    BY <1>3, <2>1, LoadStays DEF ReadTarget, ReadClient, AwaitLoad, Told, StopRun, PoolNotMade, ClientKnown, RunGoes,
           loadVars, PoolsInv, PoolsTypeOK
  <2>3. OwnersOK' /\ PoolsAreLetGo'
    BY <1>3, <2>1, PoolsStay DEF ReadTarget, ReadClient, AwaitLoad, Told, StopRun, PoolNotMade, RunGoes,
           PoolsInv, PoolsTypeOK
  <2>. QED  BY <2>1, <2>2, <2>3 DEF PoolsInv
<1>4. ASSUME NEW r \in PoolRuns, Listen(r) PROVE PoolsInv'
  <2>1. PoolsTypeOK'
    BY <1>4 DEF Listen, RunGoes, poolListVars, PoolsInv, PoolsTypeOK
  <2>2. LoadOK'
    BY <1>4 DEF Listen, RunGoes, PoolsInv, PoolsTypeOK, LoadOK
  <2>3. OwnersOK' /\ PoolsAreLetGo'
    BY <1>4, <2>1, PoolsStay DEF Listen, RunGoes, PoolsInv, PoolsTypeOK
  <2>. QED  BY <2>1, <2>2, <2>3 DEF PoolsInv
<1>5. ASSUME NEW r \in PoolRuns, BeginLoad(r) PROVE PoolsInv'
  <2>1. PoolsTypeOK'
    BY <1>5 DEF BeginLoad, RunGoes, poolListVars, PoolsInv, PoolsTypeOK
  <2>2. LoadOK'
    BY <1>5 DEF BeginLoad, RunGoes, PoolsInv, PoolsTypeOK, LoadOK
  <2>3. OwnersOK' /\ PoolsAreLetGo'
    BY <1>5, <2>1, PoolsStay DEF BeginLoad, RunGoes, PoolsInv, PoolsTypeOK
  <2>. QED  BY <2>1, <2>2, <2>3 DEF PoolsInv
<1>6. ASSUME NEW r \in PoolRuns, Load(r) \/ LoadingOff(r) \/ TellListeners(r) PROVE PoolsInv'
  <2>1. PoolsTypeOK'
    <3>1. CASE Load(r)
      BY <3>1 DEF Load, poolListVars, PoolsInv, PoolsTypeOK
    <3>2. CASE LoadingOff(r)
      BY <3>2 DEF LoadingOff, poolListVars, PoolsInv, PoolsTypeOK
    <3>3. CASE TellListeners(r)
      BY <3>3 DEF TellListeners, Listening, poolListVars, PoolsInv, PoolsTypeOK
    <3>. QED  BY <1>6, <3>1, <3>2, <3>3
  <2>2. LoadOK'
    BY <1>6 DEF Load, LoadingOff, TellListeners, Listening, PoolsInv, PoolsTypeOK, LoadOK
  <2>3. OwnersOK' /\ PoolsAreLetGo'
    BY <1>6, <2>1, PoolsStay DEF Load, LoadingOff, TellListeners, PoolsInv, PoolsTypeOK
  <2>. QED  BY <2>1, <2>2, <2>3 DEF PoolsInv
<1>7. ASSUME NEW r \in PoolRuns, TakePool(r) PROVE PoolsInv'
  <2>1. LoadOK'
    BY <1>7 DEF TakePool, RunGoes, loadVars, PoolsInv, PoolsTypeOK, LoadOK
  <2>2. CASE poolListed # NoPool /\ madeFor[poolListed] = readRow[r]
    BY <1>7, <2>1, <2>2 DEF TakePool, RunGoes, loadVars, PoolsInv, PoolsTypeOK, OwnersOK, PoolsAreLetGo
  <2>3. CASE ~(poolListed # NoPool /\ madeFor[poolListed] = readRow[r])
    <3>1. PICK p \in Made :
            /\ \A o \in Made : o < p <=> madeFor[o] # NoPool
            /\ madeFor' = [madeFor EXCEPT ![p] = readRow[r]]
            /\ poolListed' = p
            /\ LET own == [owners EXCEPT ![p] = {"map", r}] IN
               IF poolListed = NoPool THEN owners' = own /\ UNCHANGED closedBy ELSE CloseLater(own, {poolListed})
      BY <1>7, <2>3 DEF TakePool
    <3>. DEFINE own == [owners EXCEPT ![p] = {"map", r}]
    <3>2. madeFor[p] = NoPool /\ owners[p] = {} /\ closedBy[p] = "nobody" /\ p # poolListed
      BY <3>1 DEF PoolsInv, OwnersOK, PoolsTypeOK, Made
    <3>3. own \in [Made -> SUBSET (PoolRuns \cup {"map", "closing", "waiting"})]
      BY DEF PoolsInv, PoolsTypeOK
    <3>4. /\ owners' \in [Made -> SUBSET (PoolRuns \cup {"map", "closing", "waiting"})]
          /\ UNCHANGED closedBy
          /\ \A o \in Made :
                /\ owners'[o] \cap PoolRuns = own[o] \cap PoolRuns
                /\ owners'[o] = {} <=> own[o] = {}
                /\ "map" \in owners'[o] <=> o = p
      <4>1. CASE poolListed = NoPool
        BY <3>1, <3>2, <3>3, <4>1 DEF PoolsInv, OwnersOK, PoolsTypeOK
      <4>2. CASE poolListed # NoPool
        <5>1. CloseLater(own, {poolListed}) /\ {poolListed} \in SUBSET Made
          BY <3>1, <4>2 DEF PoolsInv, PoolsTypeOK
        <5>2. \A o \in {poolListed} \cup Waiting : own[o] # {} /\ o # p
          BY <3>2, <4>2 DEF Waiting, PoolsInv, OwnersOK, PoolsTypeOK
        <5>3. PoolsTypeOK
          BY DEF PoolsInv
        <5>. HIDE DEF own
        <5>4. /\ owners' \in [Made -> SUBSET (PoolRuns \cup {"map", "closing", "waiting"})]
              /\ UNCHANGED closedBy
              /\ \A o \in Made :
                    /\ owners'[o] \cap PoolRuns = own[o] \cap PoolRuns
                    /\ owners'[o] = {} <=> own[o] = {}
                    /\ "map" \in owners'[o] <=> "map" \in own[o] /\ o \notin {poolListed} \cup Waiting
          BY <3>3, <5>1, <5>2, <5>3, CloseLaterKeeps
        <5>5. \A o \in Made : "map" \in own[o] /\ o \notin {poolListed} \cup Waiting <=> o = p
          BY <3>2, <5>2 DEF own, PoolsInv, OwnersOK, PoolsTypeOK
        <5>. QED  BY <5>4, <5>5
      <4>. QED  BY <4>1, <4>2
    <3>5. PoolsTypeOK'
      BY <1>7, <3>1, <3>4 DEF TakePool, RunGoes, loadVars, PoolsInv, PoolsTypeOK
    <3>6. OwnersOK'
      BY <1>7, <3>1, <3>2, <3>4 DEF TakePool, RunGoes, PoolsInv, PoolsTypeOK, OwnersOK
    <3>7. PoolsAreLetGo'
      BY <1>7, <3>1, <3>2, <3>4 DEF TakePool, RunGoes, PoolsInv, PoolsTypeOK, OwnersOK, PoolsAreLetGo
    <3>. QED  BY <2>1, <3>5, <3>6, <3>7 DEF PoolsInv
  <2>. QED  BY <2>2, <2>3
<1>8. ASSUME NEW r \in PoolRuns, LetPoolGo(r) PROVE PoolsInv'
  <2>1. PoolsTypeOK'
    BY <1>8 DEF LetPoolGo, RunGoes, loadVars, PoolsInv, PoolsTypeOK
  <2>2. LoadOK'
    BY <1>8, <2>1, LoadStays DEF LetPoolGo, RunGoes, loadVars, PoolsInv, PoolsTypeOK
  <2>3. OwnersOK' /\ PoolsAreLetGo'
    BY <1>8 DEF LetPoolGo, RunGoes, PoolsInv, PoolsTypeOK, OwnersOK, PoolsAreLetGo
  <2>. QED  BY <2>1, <2>2, <2>3 DEF PoolsInv
<1>9. CASE CloseIdle
  <2>1. LoadOK'
    BY <1>9 DEF CloseIdle, loadVars, PoolsInv, LoadOK
  <2>2. poolListed \in Made /\ CloseLater(owners, {poolListed}) /\ {poolListed} \in SUBSET Made
    BY <1>9 DEF CloseIdle, PoolsInv, PoolsTypeOK
  <2>3. PoolsTypeOK /\ owners \in [Made -> SUBSET (PoolRuns \cup {"map", "closing", "waiting"})]
    BY DEF PoolsInv, PoolsTypeOK
  <2>4. \A p \in {poolListed} \cup Waiting : owners[p] # {}
    BY <2>2 DEF Waiting, PoolsInv, OwnersOK
  <2>5. /\ owners' \in [Made -> SUBSET (PoolRuns \cup {"map", "closing", "waiting"})]
        /\ UNCHANGED closedBy
        /\ \A p \in Made :
              /\ owners'[p] \cap PoolRuns = owners[p] \cap PoolRuns
              /\ owners'[p] = {} <=> owners[p] = {}
              /\ "map" \in owners'[p] <=> "map" \in owners[p] /\ p \notin {poolListed} \cup Waiting
    BY <2>2, <2>3, <2>4, CloseLaterKeeps
  <2>6. PoolsTypeOK'
    BY <1>9, <2>5 DEF CloseIdle, loadVars, PoolsInv, PoolsTypeOK
  <2>7. OwnersOK' /\ PoolsAreLetGo'
    BY <1>9, <2>2, <2>5 DEF CloseIdle, PoolsInv, PoolsTypeOK, OwnersOK, PoolsAreLetGo
  <2>. QED  BY <2>1, <2>6, <2>7 DEF PoolsInv
<1>10. ASSUME NEW p \in Made, ClosePool(p) PROVE PoolsInv'
  <2>1. PoolsTypeOK'
    BY <1>10 DEF ClosePool, loadVars, PoolsInv, PoolsTypeOK
  <2>2. LoadOK'
    BY <1>10 DEF ClosePool, loadVars, PoolsInv, LoadOK
  <2>3. OwnersOK' /\ PoolsAreLetGo'
    BY <1>10 DEF ClosePool, PoolsInv, PoolsTypeOK, OwnersOK, PoolsAreLetGo
  <2>. QED  BY <2>1, <2>2, <2>3 DEF PoolsInv
<1>. QED
  BY <1>1, <1>2, <1>3, <1>4, <1>5, <1>6, <1>7, <1>8, <1>9, <1>10 DEF PoolsNext

\* Wherever a run waits for the client's load there is a thread left to tell it, and
\* a pool that is held is open and of the settings of the run holding it (oracle.rs).
THEOREM RunsHaveTheirPool == PoolsSpec => []RunsComeToAPool
<1>1. PoolsInv => RunsComeToAPool
  BY DEF PoolsInv, LoadOK, RunsComeToAPool, LoadersAreTold
<1>. QED  BY <1>1, PoolsInitInv, PoolsNextInv, PTL DEF PoolsSpec

-----------------------------------------------------------------------------
\* The processes.  The strengthening follows a child from hand to hand: its thread,
\* the channel, the attempt's transport, and whoever ends it (HandsOK); and says
\* that one let go of while its group lives is the one of Slot::pid, whose group the
\* supervisor kills next (PidOK).

ProcessesTypeOK ==
    /\ supervisor \in {"between", "starting", "connecting", "connected", "closing", "failed", "ending"}
    /\ attempt \in 0..Attempts
    /\ thread \in [Starts -> {"none", "queued", "looking", "spawned", "sending", "over"}]
    /\ stuck \subseteq Starts
    /\ handle \in [Starts -> {"none", "thread", "channel", "transport", "abandoned", "closing", "ending", "gone"}]
    /\ group \in [Starts -> SUBSET {"leader", "helper"}]
    /\ pid \in 0..Attempts
    /\ groups \subseteq Starts /\ known \subseteq Starts

\* Who has the child, and what its thread and the attempt then do.
HandsOK ==
    /\ supervisor \in {"starting", "connecting", "connected", "closing"} => attempt \in Starts
    /\ \A s \in Starts :
          /\ s > attempt => thread[s] = "none"
          /\ thread[s] \in {"none", "queued", "looking", "spawned"} => handle[s] = "none"
          /\ thread[s] = "sending" <=> handle[s] = "thread"
          /\ handle[s] = "channel" => s = attempt /\ supervisor = "starting"
          /\ handle[s] = "transport" => s = attempt /\ supervisor \in {"connecting", "connected"}

\* The group that lives with nobody in charge of it but the kill to come.
PidOK ==
    /\ supervisor \in {"between", "starting"} => pid = NoStart
    /\ \A s \in Starts :
          /\ handle[s] = "none" => thread[s] = "spawned" \/ group[s] = {}
          /\ handle[s] \in {"transport", "abandoned", "closing", "ending", "gone"} => pid = s \/ group[s] = {}

WatchOK ==
    /\ groups = Held
    /\ guardian = "up" => known = groups

ProcessesInv == ProcessesTypeOK /\ HandsOK /\ PidOK /\ WatchOK

USE ProcessesAssumption DEF Starts, NoStart

-----------------------------------------------------------------------------

LEMMA ProcessesInitInv == ProcessesInit => ProcessesInv
BY DEF ProcessesInit, ProcessesInv, ProcessesTypeOK, HandsOK, PidOK, WatchOK, Held

\* A guardian that is told, or started to be told, knows every group watched.
LEMMA ToldKnowsAll ==
    ASSUME NEW watched \in SUBSET Starts, TellGuardian(watched)
    PROVE  groups' = watched /\ known' \in SUBSET Starts /\ (guardian' = "up" => known' = groups')
BY DEF TellGuardian

\* Letting go of children leaves those still held watched, and no other.
LEMMA ForgottenAreUnwatched ==
    ASSUME WatchOK, NEW gone \in SUBSET Starts, ForgetChildren(gone), Held' = Held \ gone
    PROVE  WatchOK' /\ groups' \subseteq Starts /\ (known \subseteq Starts => known' \subseteq Starts)
<1>1. groups = Held /\ groups \subseteq Starts
  BY DEF WatchOK, Held
<1>2. CASE gone \cap groups = {}
  BY <1>1, <1>2 DEF ForgetChildren, WatchStays, watchVars, WatchOK
<1>3. CASE gone \cap groups # {}
  <2>1. TellGuardian(groups \ gone) /\ groups \ gone \in SUBSET Starts
    BY <1>1, <1>3 DEF ForgetChildren
  <2>2. groups' = groups \ gone /\ known' \in SUBSET Starts /\ (guardian' = "up" => known' = groups')
    BY <2>1, ToldKnowsAll
  <2> QED
    BY <1>1, <2>2 DEF WatchOK
<1> QED
  BY <1>2, <1>3

-----------------------------------------------------------------------------
(* Steps that move no child. *)

LEMMA WatchedStay ==
    ASSUME WatchOK, WatchStays, Held' = Held
    PROVE  WatchOK'
BY DEF WatchOK, WatchStays, watchVars

LEMMA GuardianKeeps ==
    ASSUME ProcessesInv, GuardianDies \/ BackendEnds \/ GuardianEndsThem
    PROVE  ProcessesInv'
<1>1. ProcessesTypeOK' /\ HandsOK' /\ PidOK'
  <2>1. ProcessesTypeOK'
    BY DEF ProcessesInv, ProcessesTypeOK, GuardianDies, BackendEnds, GuardianEndsThem,
           attemptVars, startVars, childVars, watchVars
  <2>2. HandsOK'
    BY DEF ProcessesInv, HandsOK, GuardianDies, BackendEnds, GuardianEndsThem, attemptVars, startVars, childVars
  <2>3. PidOK'
    BY DEF ProcessesInv, ProcessesTypeOK, PidOK, GuardianDies, BackendEnds, GuardianEndsThem,
           attemptVars, startVars, childVars
  <2> QED
    BY <2>1, <2>2, <2>3
<1>2. WatchOK'
  BY DEF ProcessesInv, WatchOK, Held, GuardianDies, BackendEnds, GuardianEndsThem,
         attemptVars, startVars, childVars, watchVars
<1> QED
  BY <1>1, <1>2 DEF ProcessesInv

LEMMA ThreadKeeps ==
    ASSUME ProcessesInv, NEW s \in Starts, ThreadBegins(s) \/ Sticks(s) \/ StartFails(s) \/ Spawns(s)
    PROVE  ProcessesInv'
<1>1. ProcessesTypeOK'
  <2>1. CASE ThreadBegins(s) \/ Sticks(s)
    BY <2>1 DEF ProcessesInv, ProcessesTypeOK, ThreadBegins, Sticks, attemptVars, childVars, watchVars
  <2>2. CASE StartFails(s)
    BY <2>2 DEF ProcessesInv, ProcessesTypeOK, StartFails, childVars, watchVars
  <2>3. CASE Spawns(s)
    BY <2>3 DEF ProcessesInv, ProcessesTypeOK, Spawns, attemptVars, watchVars
  <2> QED
    BY <2>1, <2>2, <2>3
<1>2. HandsOK'
  <2>1. CASE ThreadBegins(s) \/ Sticks(s)
    BY <2>1 DEF ProcessesInv, ProcessesTypeOK, HandsOK, ThreadBegins, Sticks, attemptVars, childVars
  <2>2. CASE StartFails(s)
    BY <2>2 DEF ProcessesInv, ProcessesTypeOK, HandsOK, StartFails, Awaited, childVars
  <2>3. CASE Spawns(s)
    BY <2>3 DEF ProcessesInv, ProcessesTypeOK, HandsOK, Spawns, attemptVars
  <2> QED
    BY <2>1, <2>2, <2>3
<1>3. PidOK'
  <2>1. CASE ThreadBegins(s) \/ Sticks(s)
    BY <2>1 DEF ProcessesInv, ProcessesTypeOK, HandsOK, PidOK, ThreadBegins, Sticks, attemptVars, childVars
  <2>2. CASE StartFails(s)
    BY <2>2 DEF ProcessesInv, ProcessesTypeOK, HandsOK, PidOK, StartFails, Awaited, childVars
  <2>3. CASE Spawns(s)
    BY <2>3 DEF ProcessesInv, ProcessesTypeOK, HandsOK, PidOK, Spawns, attemptVars
  <2> QED
    BY <2>1, <2>2, <2>3
<1>4. WatchStays /\ Held' = Held
  BY DEF ThreadBegins, Sticks, StartFails, Spawns, WatchStays, Held, childVars, watchVars
<1> QED
  BY <1>1, <1>2, <1>3, <1>4, WatchedStay DEF ProcessesInv

LEMMA ServerKeeps ==
    ASSUME ProcessesInv, NEW s \in Starts, ProcessForks(s) \/ ProcessExits(s)
    PROVE  ProcessesInv'
<1>1. /\ group' \in [Starts -> SUBSET {"leader", "helper"}]
      /\ \A r \in Starts : group[r] = {} => group'[r] = {}
      /\ UNCHANGED <<handle, attemptVars, startVars, watchVars, backend>>
  BY DEF ProcessesInv, ProcessesTypeOK, ProcessForks, ProcessExits
<1>2. ProcessesTypeOK' /\ HandsOK' /\ PidOK'
  BY <1>1 DEF ProcessesInv, ProcessesTypeOK, HandsOK, PidOK, attemptVars, startVars, watchVars
<1>3. WatchStays /\ Held' = Held
  BY <1>1 DEF WatchStays, Held
<1> QED
  BY <1>2, <1>3, WatchedStay DEF ProcessesInv

LEMMA AttemptKeeps ==
    ASSUME ProcessesInv, BeginStart \/ ConnectionMade
    PROVE  ProcessesInv'
<1>1. ProcessesTypeOK'
  <2>1. CASE BeginStart
    <3>1. attempt' = attempt + 1 /\ attempt' \in 0..Attempts
      BY <2>1 DEF ProcessesInv, ProcessesTypeOK, BeginStart
    <3>2. supervisor' \in {"failed", "starting"}
      BY <2>1 DEF BeginStart
    <3>3. thread' \in [Starts -> {"none", "queued", "looking", "spawned", "sending", "over"}]
      BY <2>1 DEF ProcessesInv, ProcessesTypeOK, BeginStart
    <3> QED
      BY <2>1, <3>1, <3>2, <3>3 DEF ProcessesInv, ProcessesTypeOK, BeginStart, childVars, watchVars
  <2>2. CASE ConnectionMade
    BY <2>2 DEF ProcessesInv, ProcessesTypeOK, ConnectionMade, startVars, childVars, watchVars
  <2> QED
    BY <2>1, <2>2
<1>2. HandsOK'
  BY DEF ProcessesInv, ProcessesTypeOK, HandsOK, BeginStart, ConnectionMade, startVars, childVars, watchVars
<1>3. PidOK'
  BY DEF ProcessesInv, ProcessesTypeOK, HandsOK, PidOK, BeginStart, ConnectionMade, startVars, childVars, watchVars
<1>4. WatchStays /\ Held' = Held
  BY DEF BeginStart, ConnectionMade, WatchStays, Held, childVars, watchVars
<1> QED
  BY <1>1, <1>2, <1>3, <1>4, WatchedStay DEF ProcessesInv

-----------------------------------------------------------------------------
(* Steps that pass a child on. *)

LEMMA WatchChildKeeps ==
    ASSUME ProcessesInv, NEW s \in Starts, WatchChild(s)
    PROVE  ProcessesInv'
<1>1. groups \cup {s} \in SUBSET Starts /\ TellGuardian(groups \cup {s})
  BY DEF ProcessesInv, ProcessesTypeOK, WatchChild
<1>2. groups' = groups \cup {s} /\ known' \in SUBSET Starts /\ (guardian' = "up" => known' = groups')
  BY <1>1, ToldKnowsAll
<1>3. ProcessesTypeOK' /\ HandsOK' /\ PidOK'
  BY <1>2 DEF ProcessesInv, ProcessesTypeOK, HandsOK, PidOK, WatchChild, attemptVars
<1>4. Held' = Held \cup {s}
  BY DEF ProcessesInv, ProcessesTypeOK, Held, WatchChild
<1> QED
  BY <1>2, <1>3, <1>4 DEF ProcessesInv, WatchOK

LEMMA SendKeeps ==
    ASSUME ProcessesInv, NEW s \in Starts, SendStarted(s)
    PROVE  ProcessesInv'
<1>1. CASE Awaited(s)
  <2>1. ProcessesTypeOK' /\ HandsOK' /\ PidOK'
    <3>1. ProcessesTypeOK'
      BY <1>1 DEF ProcessesInv, ProcessesTypeOK, SendStarted, WatchStays, attemptVars, watchVars
    <3>2. HandsOK'
      BY <1>1 DEF ProcessesInv, ProcessesTypeOK, HandsOK, SendStarted, Awaited, attemptVars
    <3>3. PidOK'
      BY <1>1 DEF ProcessesInv, ProcessesTypeOK, HandsOK, PidOK, SendStarted, Awaited, attemptVars
    <3> QED
      BY <3>1, <3>2, <3>3
  <2>2. WatchStays /\ Held' = Held
    BY <1>1 DEF ProcessesInv, ProcessesTypeOK, HandsOK, SendStarted, Held
  <2> QED
    BY <2>1, <2>2, WatchedStay DEF ProcessesInv
<1>2. CASE ~Awaited(s)
  <2>1. Held' = Held \ {s} /\ ForgetChildren({s})
    BY <1>2 DEF ProcessesInv, ProcessesTypeOK, SendStarted, Held
  <2>2. WatchOK' /\ groups' \subseteq Starts /\ known' \subseteq Starts
    BY <2>1, ForgottenAreUnwatched DEF ProcessesInv, ProcessesTypeOK
  <2>3. ProcessesTypeOK' /\ HandsOK' /\ PidOK'
    <3>1. ProcessesTypeOK'
      BY <1>2, <2>2 DEF ProcessesInv, ProcessesTypeOK, SendStarted, DropStarted, attemptVars
    <3>2. HandsOK'
      BY <1>2 DEF ProcessesInv, ProcessesTypeOK, HandsOK, SendStarted, DropStarted, attemptVars
    <3>3. PidOK'
      BY <1>2 DEF ProcessesInv, ProcessesTypeOK, HandsOK, PidOK, SendStarted, DropStarted, attemptVars
    <3> QED
      BY <3>1, <3>2, <3>3
  <2> QED
    BY <2>2, <2>3 DEF ProcessesInv
<1> QED
  BY <1>1, <1>2

LEMMA TakeKeeps ==
    ASSUME ProcessesInv, TakeStarted \/ ConnectionEnds \/ TakeAbandoned
    PROVE  ProcessesInv'
<1>1. ProcessesTypeOK'
  <2>1. CASE TakeStarted \/ ConnectionEnds
    BY <2>1 DEF ProcessesInv, ProcessesTypeOK, HandsOK, TakeStarted, ConnectionEnds, startVars, watchVars
  <2>2. CASE TakeAbandoned
    BY <2>2 DEF ProcessesInv, ProcessesTypeOK, HandsOK, TakeAbandoned, Abandoned, startVars, watchVars
  <2> QED
    BY <2>1, <2>2
<1>2. HandsOK'
  BY DEF ProcessesInv, ProcessesTypeOK, HandsOK, TakeStarted, ConnectionEnds, TakeAbandoned, Abandoned, startVars, watchVars
<1>3. PidOK'
  BY DEF ProcessesInv, ProcessesTypeOK, HandsOK, PidOK, TakeStarted, ConnectionEnds, TakeAbandoned, Abandoned, startVars
<1>4. WatchStays /\ Held' = Held
  BY DEF ProcessesInv, ProcessesTypeOK, HandsOK, TakeStarted, ConnectionEnds, TakeAbandoned, Abandoned, WatchStays, Held
<1> QED
  BY <1>1, <1>2, <1>3, <1>4, WatchedStay DEF ProcessesInv

LEMMA EndProcessKeeps ==
    ASSUME ProcessesInv, NEW s \in Starts, EndProcess(s)
    PROVE  ProcessesInv'
<1>1. Held' = Held \ {s} /\ ForgetChildren({s})
  BY DEF ProcessesInv, ProcessesTypeOK, EndProcess, Held
<1>2. WatchOK' /\ groups' \subseteq Starts /\ known' \subseteq Starts
  BY <1>1, ForgottenAreUnwatched DEF ProcessesInv, ProcessesTypeOK
<1>3. PICK left \in SUBSET (group[s] \ {"leader"}) : group' = [group EXCEPT ![s] = left]
  BY DEF EndProcess
<1>4. ProcessesTypeOK' /\ HandsOK' /\ PidOK'
  <2>1. ProcessesTypeOK'
    BY <1>2, <1>3 DEF ProcessesInv, ProcessesTypeOK, EndProcess, attemptVars, startVars
  <2>2. HandsOK'
    BY <1>3 DEF ProcessesInv, ProcessesTypeOK, HandsOK, EndProcess, attemptVars, startVars
  <2>3. PidOK'
    BY <1>3 DEF ProcessesInv, ProcessesTypeOK, HandsOK, PidOK, EndProcess, attemptVars, startVars
  <2> QED
    BY <2>1, <2>2, <2>3
<1> QED
  BY <1>2, <1>4 DEF ProcessesInv

LEMMA GroupKilledKeeps ==
    ASSUME ProcessesInv, GroupKilled
    PROVE  ProcessesInv'
<1>1. ProcessesTypeOK' /\ HandsOK' /\ PidOK'
  BY DEF ProcessesInv, ProcessesTypeOK, HandsOK, PidOK, GroupKilled, KillGroup, startVars, watchVars
<1>2. WatchStays /\ Held' = Held
  BY DEF GroupKilled, WatchStays, Held
<1> QED
  BY <1>1, <1>2, WatchedStay DEF ProcessesInv

-----------------------------------------------------------------------------
(* An attempt whose future is dropped: given up, or panicked. *)

LEMMA LetGoHands ==
    ASSUME ProcessesInv, attempt \in Starts, NEW next \in [Starts -> SUBSET {"leader", "helper"}], LetGo(next)
    PROVE  /\ WatchOK' /\ groups' \subseteq Starts /\ known' \subseteq Starts
           /\ handle' \in [Starts -> {"none", "thread", "channel", "transport", "abandoned", "closing", "ending", "gone"}]
           /\ group' \in [Starts -> SUBSET {"leader", "helper"}]
           /\ \A s \in Starts :
                 \/ handle'[s] = handle[s] /\ group'[s] = next[s]
                 \/ handle'[s] = "gone" /\ group'[s] = {} /\ handle[s] \in {"channel", "abandoned"}
                 \/ handle'[s] = "abandoned" /\ handle[s] = "transport" /\ group'[s] = next[s]
           /\ handle'[attempt] \notin {"channel", "transport"}
<1> DEFINE left == IF handle[attempt] = "channel" THEN {attempt}
                   ELSE IF handle[attempt] = "transport" THEN Abandoned ELSE {}
<1>1. /\ left \in SUBSET Starts /\ ForgetChildren(left)
      /\ handle' = [s \in Starts |->
            IF s \in left THEN "gone"
            ELSE IF s = attempt /\ handle[s] = "transport" THEN "abandoned" ELSE handle[s]]
      /\ group' = [s \in Starts |-> IF s \in left THEN {} ELSE next[s]]
  BY DEF LetGo, Abandoned, DropStarted, ProcessesInv, ProcessesTypeOK
<1>2. \A s \in left : handle[s] \in {"channel", "abandoned"} /\ (s = attempt => handle[s] = "channel")
  BY DEF Abandoned
<1>3. Held' = Held \ left
  BY <1>1, <1>2 DEF Held
<1>4. WatchOK' /\ groups' \subseteq Starts /\ known' \subseteq Starts
  BY <1>1, <1>3, ForgottenAreUnwatched DEF ProcessesInv, ProcessesTypeOK
<1>5. handle'[attempt] \notin {"channel", "transport"}
  BY <1>1
<1> HIDE DEF left
<1> QED
  BY <1>1, <1>2, <1>4, <1>5 DEF ProcessesInv, ProcessesTypeOK

LEMMA GivenUpKeeps ==
    ASSUME ProcessesInv, AttemptGivenUp
    PROVE  ProcessesInv'
<1>1. attempt \in Starts /\ group \in [Starts -> SUBSET {"leader", "helper"}] /\ LetGo(group)
  BY DEF ProcessesInv, ProcessesTypeOK, HandsOK, AttemptGivenUp
<1>2. /\ WatchOK' /\ groups' \subseteq Starts /\ known' \subseteq Starts
      /\ handle' \in [Starts -> {"none", "thread", "channel", "transport", "abandoned", "closing", "ending", "gone"}]
      /\ group' \in [Starts -> SUBSET {"leader", "helper"}]
      /\ \A s \in Starts :
            \/ handle'[s] = handle[s] /\ group'[s] = group[s]
            \/ handle'[s] = "gone" /\ group'[s] = {} /\ handle[s] \in {"channel", "abandoned"}
            \/ handle'[s] = "abandoned" /\ handle[s] = "transport" /\ group'[s] = group[s]
      /\ handle'[attempt] \notin {"channel", "transport"}
  BY <1>1, LetGoHands
<1>3. UNCHANGED <<attempt, pid, thread, stuck, backend>> /\ supervisor' = "failed"
  BY DEF AttemptGivenUp, startVars
<1>4. ProcessesTypeOK'
  BY <1>2, <1>3 DEF ProcessesInv, ProcessesTypeOK
<1>5. HandsOK'
  BY <1>2, <1>3 DEF ProcessesInv, ProcessesTypeOK, HandsOK
<1>6. PidOK'
  BY <1>2, <1>3 DEF ProcessesInv, ProcessesTypeOK, PidOK
<1> QED
  BY <1>2, <1>4, <1>5, <1>6 DEF ProcessesInv

LEMMA PanicKeeps ==
    ASSUME ProcessesInv, SupervisorPanics
    PROVE  ProcessesInv'
<1>1. /\ attempt \in Starts /\ KillGroup \in [Starts -> SUBSET {"leader", "helper"}]
      /\ UNCHANGED <<attempt, thread, stuck, backend>> /\ supervisor' = "between" /\ pid' = NoStart
  BY DEF ProcessesInv, ProcessesTypeOK, HandsOK, SupervisorPanics, KillGroup, startVars
<1>2. CASE supervisor = "connected"
  <2> DEFINE ended == [handle EXCEPT ![attempt] = IF @ = "transport" THEN "closing" ELSE @]
  <2>0. handle' = ended /\ group' = KillGroup /\ UNCHANGED <<groups, known>>
    BY <1>2 DEF SupervisorPanics, WatchStays, watchVars
  <2>1. ProcessesTypeOK' /\ HandsOK' /\ PidOK'
    <3>1. ProcessesTypeOK'
      BY <1>1, <2>0 DEF ProcessesInv, ProcessesTypeOK
    <3>2. HandsOK'
      BY <1>1, <1>2, <2>0 DEF ProcessesInv, ProcessesTypeOK, HandsOK
    <3>3. PidOK'
      BY <1>1, <1>2, <2>0 DEF ProcessesInv, ProcessesTypeOK, PidOK, KillGroup
    <3> QED
      BY <3>1, <3>2, <3>3
  <2>2. WatchStays /\ Held' = Held
    BY <1>1, <1>2 DEF ProcessesInv, ProcessesTypeOK, SupervisorPanics, Held
  <2> QED
    BY <2>1, <2>2, WatchedStay DEF ProcessesInv
<1>3. CASE supervisor # "connected"
  <2>1. /\ WatchOK' /\ groups' \subseteq Starts /\ known' \subseteq Starts
        /\ handle' \in [Starts -> {"none", "thread", "channel", "transport", "abandoned", "closing", "ending", "gone"}]
        /\ group' \in [Starts -> SUBSET {"leader", "helper"}]
        /\ \A s \in Starts :
              \/ handle'[s] = handle[s] /\ group'[s] = KillGroup[s]
              \/ handle'[s] = "gone" /\ group'[s] = {} /\ handle[s] \in {"channel", "abandoned"}
              \/ handle'[s] = "abandoned" /\ handle[s] = "transport" /\ group'[s] = KillGroup[s]
        /\ handle'[attempt] \notin {"channel", "transport"}
    BY <1>1, <1>3, LetGoHands DEF SupervisorPanics
  <2>2. \A s \in Starts : KillGroup[s] = IF s = pid THEN {} ELSE group[s]
    BY DEF KillGroup
  <2>3. ProcessesTypeOK'
    BY <1>1, <2>1 DEF ProcessesInv, ProcessesTypeOK
  <2>4. HandsOK'
    BY <1>1, <2>1 DEF ProcessesInv, ProcessesTypeOK, HandsOK
  <2>5. PidOK'
    BY <1>1, <2>1, <2>2 DEF ProcessesInv, ProcessesTypeOK, PidOK
  <2> QED
    BY <2>1, <2>3, <2>4, <2>5 DEF ProcessesInv
<1> QED
  BY <1>2, <1>3

-----------------------------------------------------------------------------

LEMMA ProcessesNextInv == ProcessesInv /\ [ProcessesNext]_processVars => ProcessesInv'
<1> SUFFICES ASSUME ProcessesInv, [ProcessesNext]_processVars PROVE ProcessesInv'
  OBVIOUS
<1>1. CASE ProcessesNext
  BY <1>1, GuardianKeeps, ThreadKeeps, ServerKeeps, AttemptKeeps, WatchChildKeeps, SendKeeps, TakeKeeps,
     EndProcessKeeps, GroupKilledKeeps, GivenUpKeeps, PanicKeeps DEF ProcessesNext
<1>2. CASE UNCHANGED processVars
  BY <1>2 DEF ProcessesInv, ProcessesTypeOK, HandsOK, PidOK, WatchOK, Held,
              processVars, attemptVars, startVars, childVars, watchVars
<1> QED
  BY <1>1, <1>2

\* A live process of a server is always someone's to end, and a guardian that lives
\* knows the groups the backend holds and no other (mod.rs Started, end_attempt and
\* kill_group; guardian.rs tell).
THEOREM ProcessesAreKept == ProcessesSpec => []NoProcessIsLost
<1>1. ProcessesInv => NoProcessIsLost
  BY DEF ProcessesInv, ProcessesTypeOK, HandsOK, PidOK, WatchOK, Held, NoProcessIsLost
<1> QED
  BY <1>1, ProcessesInitInv, ProcessesNextInv, PTL DEF ProcessesSpec

-----------------------------------------------------------------------------
\* The records of the admin screen.  A request that has begun to check has the lock
\* until its session is over (AdminLockOK), so what it checked still holds when it
\* commits (ChecksOK): the lock is what makes two tables one.

Holding == {"locked", "checked", "written", "refused", "ended", "dropped"}

\* What a screen may send.
FormOK(f) ==
    /\ f.kind \in {"database", "query"}
    /\ f.entered \in BOOLEAN
    /\ f.kind = "database" => /\ f.at \in Databases
                              /\ f.to \in [name : Names, address : Hosts] \cup {NoRow}
                              /\ f.seen \in DatabaseRows \cup {NoRow}
                              /\ f.seen = NoRow => f.to # NoRow /\ f.entered
    /\ f.kind = "query" => f.at \in Queries /\ f.to \in QueryRows \cup {NoRow}

TablesOK ==
    /\ RecordTypeOK
    /\ DOMAIN form = Admins
    /\ \A a \in Admins : step[a] # "closed" => FormOK(form[a])

AdminLockOK == \A a \in Admins : step[a] \in Holding => adminLock = a

Checked(f) == Current(f) /\ PasswordMayStay(f) /\ Unreferenced(f) /\ TargetsExist(f)

ChecksOK ==
    \A a \in Admins :
        /\ step[a] \in {"checked", "written"} => Checked(form[a])
        /\ step[a] = "written" => ~Duplicate(form[a])

RecordsInv == TablesOK /\ AdminLockOK /\ ChecksOK /\ TargetsAreRegistered /\ PasswordsStayHome

LEMMA RecordsInitInv == RecordInit => RecordsInv
BY DEF RecordInit, RecordsInv, TablesOK, RecordTypeOK, AdminLockOK, ChecksOK, TargetsAreRegistered, PasswordsStayHome, Holding

\* The tables are the same: what was checked of them is checked.
LEMMA ChecksStay ==
    ASSUME UNCHANGED <<target_db, query_registry>>, NEW f
    PROVE  /\ Checked(f) => Checked(f)'
           /\ ~Duplicate(f) => ~Duplicate(f)'
BY DEF Checked, Current, PasswordMayStay, Unreferenced, TargetsExist, Duplicate, Row, Registered

\* A step that writes no table and takes no lock another has.
LEMMA TablesStay ==
    ASSUME RecordsInv, UNCHANGED <<target_db, query_registry>>, TablesOK', AdminLockOK',
           \A a \in Admins :
               /\ step'[a] \in {"checked", "written"} => Checked(form'[a])
               /\ step'[a] = "written" => ~Duplicate(form'[a])
    PROVE  RecordsInv'
<1>1. ChecksOK'
  BY ChecksStay DEF ChecksOK, Checked, Current, PasswordMayStay, Unreferenced, TargetsExist, Duplicate, Row, Registered
<1>2. TargetsAreRegistered' /\ PasswordsStayHome'
  BY DEF RecordsInv, TargetsAreRegistered, PasswordsStayHome, Registered
<1> QED
  BY <1>1, <1>2 DEF RecordsInv

LEMMA SubmitKeeps ==
    ASSUME RecordsInv, NEW a \in Admins, Submit(a)
    PROVE  RecordsInv'
<1>1. PICK f \in DatabaseForms \cup QueryForms :
          /\ f.seen = NoRow => f.to # NoRow /\ (f.kind = "database" => f.entered)
          /\ form' = [form EXCEPT ![a] = f]
  BY DEF Submit
<1>2. FormOK(f)
  <2>1. CASE f \in DatabaseForms
    BY <1>1, <2>1 DEF DatabaseForms, FormOK, RecordsInv, TablesOK, RecordTypeOK
  <2>2. CASE f \in QueryForms
    <3>1. PICK q \in Queries, to \in QueryRows \cup {NoRow} :
              f = [kind |-> "query", at |-> q, seen |-> query_registry[q], to |-> to, entered |-> FALSE]
      BY <2>2 DEF QueryForms
    <3>2. f.kind = "query" /\ f.at = q /\ f.to = to /\ f.entered = FALSE
      BY <3>1
    <3> QED
      BY <3>2 DEF FormOK
  <2> QED
    BY <1>1, <2>1, <2>2
<1>3. TablesOK' /\ AdminLockOK'
  BY <1>1, <1>2 DEF Submit, RecordsInv, TablesOK, RecordTypeOK, AdminLockOK, Holding, FormOK
<1> QED
  BY <1>1, <1>3, TablesStay DEF Submit, RecordsInv, ChecksOK, TablesOK, RecordTypeOK

\* The steps that move a request and its lock, and no table.
LEMMA LockKeeps ==
    ASSUME RecordsInv, NEW a \in Admins, Lock(a) \/ LockNotHad(a) \/ Rollback(a) \/ Release(a) \/ Drop(a) \/ SessionEnds(a)
    PROVE  RecordsInv'
<1>1. TablesOK'
  BY DEF RecordsInv, TablesOK, RecordTypeOK, FormOK, Lock, LockNotHad, Rollback, Release, Drop, SessionEnds, Answer, Holding
<1>2. AdminLockOK'
  BY RecordsAssumption DEF RecordsInv, TablesOK, RecordTypeOK, AdminLockOK, Lock, LockNotHad, Rollback, Release, Drop, SessionEnds, Answer, Holding
<1>3. \A b \in Admins :
          /\ step'[b] \in {"checked", "written"} => Checked(form'[b])
          /\ step'[b] = "written" => ~Duplicate(form'[b])
  BY DEF RecordsInv, TablesOK, RecordTypeOK, ChecksOK, Lock, LockNotHad, Rollback, Release, Drop, SessionEnds, Answer
<1>4. UNCHANGED <<target_db, query_registry>>
  BY DEF Lock, LockNotHad, Rollback, Release, Drop, SessionEnds
<1> QED
  BY <1>1, <1>2, <1>3, <1>4, TablesStay

LEMMA CheckKeeps ==
    ASSUME RecordsInv, NEW a \in Admins, CheckRecord(a) \/ WriteRecord(a)
    PROVE  RecordsInv'
<1>1. TablesOK' /\ AdminLockOK'
  BY DEF RecordsInv, TablesOK, RecordTypeOK, AdminLockOK, FormOK, CheckRecord, WriteRecord, Holding
<1>2. \A b \in Admins :
          /\ step'[b] \in {"checked", "written"} => Checked(form'[b])
          /\ step'[b] = "written" => ~Duplicate(form'[b])
  BY DEF RecordsInv, TablesOK, RecordTypeOK, ChecksOK, CheckRecord, WriteRecord, Checked
<1>3. UNCHANGED <<target_db, query_registry>>
  BY DEF CheckRecord, WriteRecord
<1> QED
  BY <1>1, <1>2, <1>3, TablesStay

\* Only the one that commits has checked anything.
LEMMA CommitIsAlone ==
    ASSUME RecordsInv, NEW a \in Admins, Commit(a)
    PROVE  /\ \A b \in Admins \ {a} : step'[b] \notin Holding
           /\ step'[a] \in {"ended", "dropped"}
           /\ AdminLockOK' /\ ChecksOK'
<1>1. \A b \in Admins \ {a} : step[b] \notin Holding
  BY DEF RecordsInv, TablesOK, RecordTypeOK, AdminLockOK, Commit, Holding
<1> QED
  BY <1>1 DEF RecordsInv, TablesOK, RecordTypeOK, AdminLockOK, ChecksOK, Commit, Holding

LEMMA CommitDatabase ==
    ASSUME RecordsInv, NEW a \in Admins, Commit(a), form[a].kind = "database"
    PROVE  RecordsInv'
<1> DEFINE f == form[a]
           d == f.at
<1>1. /\ FormOK(f) /\ Checked(f) /\ ~Duplicate(f) /\ d \in Databases
      /\ target_db' = [target_db EXCEPT ![d] = IF f.to = NoRow THEN NoRow ELSE Stored(f)]
      /\ UNCHANGED <<query_registry, form>>
  BY DEF RecordsInv, TablesOK, RecordTypeOK, ChecksOK, Commit, Committed, FormOK
<1>2. f.seen = target_db[d]
  BY <1>1 DEF Checked, Current, Duplicate, Row
<1>3. f.to # NoRow => Stored(f) \in DatabaseRows /\ Stored(f).password = Stored(f).address
                      /\ Stored(f).name = f.to.name
  <2>1. CASE f.entered
    BY <1>1, <2>1 DEF FormOK, Stored, DatabaseRows
  <2>2. CASE ~f.entered
    <3>1. f.seen # NoRow /\ f.seen \in DatabaseRows
      BY <1>1, <2>2 DEF FormOK
    <3>2. f.to # NoRow => f.seen.address = f.to.address
      BY <1>1, <1>2, <2>2, <3>1 DEF Checked, PasswordMayStay, Row
    <3>3. f.seen.password = f.seen.address
      BY <1>1, <1>2, <3>1 DEF RecordsInv, PasswordsStayHome
    <3> QED
      BY <1>1, <2>2, <3>1, <3>2, <3>3 DEF FormOK, Stored, DatabaseRows
  <2> QED
    BY <2>1, <2>2
<1>4. TablesOK'
  BY <1>1, <1>3 DEF RecordsInv, TablesOK, RecordTypeOK, Commit, Holding, FormOK
<1>5. PasswordsStayHome'
  BY <1>1, <1>3 DEF RecordsInv, TablesOK, RecordTypeOK, PasswordsStayHome
<1>6. TargetsAreRegistered'
  <2>1. SUFFICES ASSUME NEW q \in Queries, query_registry[q] # NoRow, NEW n \in query_registry[q]
                 PROVE  n \in Registered(target_db')
    BY <1>1 DEF TargetsAreRegistered
  <2>2. PICK e \in Databases : target_db[e] # NoRow /\ target_db[e].name = n
    BY <2>1 DEF RecordsInv, TargetsAreRegistered, Registered
  <2>3. CASE e # d
    BY <1>1, <2>2, <2>3 DEF RecordsInv, TablesOK, RecordTypeOK, Registered
  <2>4. CASE e = d
    <3>1. f.to # NoRow /\ f.to.name = n
      BY <1>1, <1>2, <2>1, <2>2, <2>4 DEF Checked, Unreferenced, Row
    <3>2. target_db'[d] # NoRow /\ target_db'[d].name = n
      BY <1>1, <1>3, <3>1, RecordsAssumption DEF RecordsInv, TablesOK, RecordTypeOK
    <3> QED
      BY <1>1, <3>2 DEF Registered
  <2> QED
    BY <2>3, <2>4
<1> QED
  BY <1>4, <1>5, <1>6, CommitIsAlone DEF RecordsInv

LEMMA CommitQuery ==
    ASSUME RecordsInv, NEW a \in Admins, Commit(a), form[a].kind = "query"
    PROVE  RecordsInv'
<1> DEFINE f == form[a]
<1>1. /\ FormOK(f) /\ Checked(f) /\ f.at \in Queries
      /\ query_registry' = [query_registry EXCEPT ![f.at] = f.to]
      /\ UNCHANGED <<target_db, form>>
  BY DEF RecordsInv, TablesOK, RecordTypeOK, ChecksOK, Commit, Committed, FormOK
<1>2. TablesOK' /\ PasswordsStayHome'
  BY <1>1 DEF RecordsInv, TablesOK, RecordTypeOK, PasswordsStayHome, Commit, Holding, FormOK
<1>3. TargetsAreRegistered'
  BY <1>1 DEF RecordsInv, TablesOK, RecordTypeOK, TargetsAreRegistered, Registered, Checked, TargetsExist
<1> QED
  BY <1>2, <1>3, CommitIsAlone DEF RecordsInv

LEMMA RecordsNextInv == RecordsInv /\ [RecordNext]_recordVars => RecordsInv'
<1> SUFFICES ASSUME RecordsInv, [RecordNext]_recordVars PROVE RecordsInv'
  OBVIOUS
<1>1. CASE RecordNext
  <2>1. PICK a \in Admins :
            Submit(a) \/ Lock(a) \/ LockNotHad(a) \/ CheckRecord(a) \/ WriteRecord(a) \/ Commit(a)
              \/ Rollback(a) \/ Release(a) \/ Drop(a) \/ SessionEnds(a)
    BY <1>1 DEF RecordNext
  <2>2. CASE Commit(a)
    <3>1. form[a].kind \in {"database", "query"}
      BY <2>2 DEF Commit, RecordsInv, TablesOK, RecordTypeOK, FormOK
    <3> QED
      BY <2>2, <3>1, CommitDatabase, CommitQuery
  <2> QED
    BY <2>1, <2>2, SubmitKeeps, LockKeeps, CheckKeeps
<1>2. CASE UNCHANGED recordVars
  <2>1. TablesOK' /\ AdminLockOK'
    BY <1>2 DEF recordVars, RecordsInv, TablesOK, RecordTypeOK, AdminLockOK
  <2> QED
    BY <1>2, <2>1, TablesStay DEF recordVars, RecordsInv, ChecksOK
<1> QED
  BY <1>1, <1>2

LEMMA RecordsAlways == RecordSpec => []RecordsInv
BY RecordsInitInv, RecordsNextInv, PTL DEF RecordSpec

\* Every target of a registered query is a registered database (admin.rs save_record
\* and check_references, under the lock of write_transaction).
THEOREM TargetsStayRegistered == RecordSpec => []TargetsAreRegistered
<1>1. RecordsInv => TargetsAreRegistered
  BY DEF RecordsInv
<1> QED
  BY <1>1, RecordsAlways, PTL

\* A stored password is only ever kept beside the address it was entered for
\* (admin.rs save_record).
THEOREM PasswordsAreHome == RecordSpec => []PasswordsStayHome
<1>1. RecordsInv => PasswordsStayHome
  BY DEF RecordsInv
<1> QED
  BY <1>1, RecordsAlways, PTL

-----------------------------------------------------------------------------
\* The requests to an MCP server and the messages that come back.  A message that is
\* mended says nothing the one sent did not (MendIsSafe), so a request is answered by
\* what the server said of it.

WireTexts == {"fine", "escaped", "unwritable", "deep", "cut", "noise"}

WireTypes ==
    /\ exchange \in [Requests -> {"idle", "waiting", "answered", "unexpected", "error", "failed"}]
    /\ posted \in [Requests -> {"none", "sent", "accepted", "streaming", "elsewhere", "closed"}]
    /\ came \in [Requests -> Message]

\* What came before a request was sent was not for it.
IdleOK ==
    \A i \in Requests : exchange[i] = "idle" => posted[i] = "none" /\ ~MeantFor(i, came[i])

WireInv == WireTypes /\ IdleOK /\ AnswersFindTheirRequest

\* What a message given to the SDK makes of a request.
Given(i) ==
    /\ exchange'[i] \in {"idle", "waiting", "answered", "unexpected", "error", "failed"}
    /\ came'[i] \in Message
    /\ exchange'[i] = "idle" => exchange[i] = "idle" /\ came'[i] = came[i]
    /\ exchange'[i] = "waiting" => exchange[i] = "waiting"
    /\ exchange'[i] = "waiting" /\ MeantFor(i, came'[i]) => LeftUnread(came'[i])
    /\ exchange'[i] = "answered" => came'[i].id = i /\ came'[i].result = "value"
    /\ exchange'[i] = "unexpected" => came'[i].error = "absent"

\* A message as it is read says no more than it said, and no less of an answer.
Faithful(m, heard) ==
    /\ heard.id = m.id
    /\ heard.result = "value" => m.result = "value"
    /\ SdkReads(heard) = "response" => heard.result \in {"null", "value"}
    /\ SdkReads(heard) = "response" /\ heard.result = "null" => m.error = "absent"
    /\ \A i \in Requests :
           MeantFor(i, m) /\ ~LeftUnread(m) => SdkReads(heard) \in {"response", "error"}

\* What mending keeps of a message, and what it makes of it.
LEMMA MendIsSafe ==
    ASSUME NEW m \in Message
    PROVE  Faithful(m, Mend(m))
<1>. USE WireAssumption
<1>0. /\ m.text \in WireTexts /\ m.version \in BOOLEAN /\ m.id \in Ids /\ m.result \in Results
      /\ m.error \in {"absent", "good", "bad"} /\ m.method \in BOOLEAN
      /\ m.text # "fine" => m.error # "good" /\ ~m.method
      /\ m = [text |-> m.text, version |-> m.version, id |-> m.id, result |-> m.result, error |-> m.error, method |-> m.method]
  BY DEF Message, WireTexts
<1>. HIDE DEF Message
<1>1. CASE m.text = "fine"
  BY <1>0, <1>1 DEF Faithful, Mend, PutRight, Resultless, NullResult, SdkReads, MeantFor, LeftUnread, IsAnswer, Results, WireTexts, Ids
<1>2. CASE m.text = "escaped"
  BY <1>0, <1>2 DEF Faithful, Mend, PutRight, Resultless, NullResult, SdkReads, MeantFor, LeftUnread, IsAnswer, Results, WireTexts, Ids
<1>3. CASE m.text = "unwritable"
  <2>1. CASE ~(IsAnswer(m) \/ m.method)
    BY <1>0, <1>3, <2>1 DEF Faithful, Mend, Read, SdkReads, MeantFor, LeftUnread, IsAnswer, Resultless, Results, Ids
  <2>2. CASE IsAnswer(m) \/ m.method
    <3>1. Mend(m) = PutRight([m EXCEPT !.text = "fine"])
      BY <1>3, <2>2 DEF Mend, Read
    <3>2. ASSUME NEW w, w = [text |-> "fine", version |-> m.version, id |-> m.id, result |-> m.result,
                             error |-> m.error, method |-> m.method]
          PROVE  Faithful(m, PutRight(w))
      BY <1>0, <1>3, <2>2, <3>2 DEF Faithful, PutRight, Resultless, NullResult, SdkReads, MeantFor, LeftUnread, IsAnswer, Results, Ids
    <3>3. [m EXCEPT !.text = "fine"] = [text |-> "fine", version |-> m.version, id |-> m.id, result |-> m.result,
                                        error |-> m.error, method |-> m.method]
      BY <1>0
    <3>. QED  BY <3>1, <3>2, <3>3
  <2>. QED  BY <2>1, <2>2
<1>4. CASE m.text = "deep"
  BY <1>0, <1>4 DEF Faithful, Mend, Read, PutRight, Resultless, NullResult, SdkReads, MeantFor, LeftUnread, IsAnswer, Results, WireTexts, Ids
<1>5. CASE m.text \in {"cut", "noise"}
  BY <1>0, <1>5 DEF Faithful, Mend, Read, PutRight, Resultless, NullResult, SdkReads, MeantFor, LeftUnread, IsAnswer, Results, WireTexts, Ids
<1>. QED  BY <1>0, <1>1, <1>2, <1>3, <1>4, <1>5 DEF WireTexts

\* No request is sent yet, and nothing came.
LEMMA WireInitInv == WireInit => WireInv
<1>1. NoMessage \in Message
  BY DEF NoMessage, Message, Ids, Results
<1>2. \A i \in Requests : ~MeantFor(i, NoMessage)
  BY WireAssumption DEF NoMessage, MeantFor
<1>. QED  BY <1>1, <1>2 DEF WireInit, WireInv, WireTypes, IdleOK, AnswersFindTheirRequest

\* A message given to the SDK: the request it answers ends as it says.
LEMMA GivenKeeps ==
    ASSUME WireTypes, AnswersFindTheirRequest, NEW m \in Message, NEW heard,
           exchange' = Resolved(heard), Came(m),
           Faithful(m, heard),
           NEW i \in Requests
    PROVE  Given(i)
<1>1. CASE exchange[i] = "waiting" /\ m.id = i
  <2>1. came'[i] = m
    BY <1>1 DEF Came, Faithful
  <2>2. exchange'[i] = CASE SdkReads(heard) = "response" /\ heard.result = "value" -> "answered"
                         [] SdkReads(heard) = "response" /\ heard.result = "null" -> "unexpected"
                         [] SdkReads(heard) = "error" -> "error"
                         [] OTHER -> "waiting"
    BY <1>1 DEF Resolved, Faithful
  <2>3. CASE SdkReads(heard) = "response" /\ heard.result = "value"
    BY <1>1, <2>1, <2>2, <2>3 DEF Given, Faithful
  <2>4. CASE SdkReads(heard) = "response" /\ heard.result = "null"
    BY <1>1, <2>1, <2>2, <2>4 DEF Given, Faithful
  <2>5. CASE SdkReads(heard) = "error"
    BY <1>1, <2>1, <2>2, <2>5 DEF Given
  <2>6. CASE SdkReads(heard) \notin {"response", "error"}
    <3>1. MeantFor(i, m) => LeftUnread(m)
      BY <2>6 DEF Faithful
    <3>. QED  BY <1>1, <2>1, <2>2, <2>6, <3>1 DEF Given
  <2>. QED  BY <2>3, <2>4, <2>5, <2>6 DEF Faithful
<1>2. CASE ~(exchange[i] = "waiting" /\ m.id = i)
  <2>1. exchange'[i] = exchange[i] /\ came'[i] = came[i]
    BY <1>2 DEF Resolved, Came, Faithful
  <2>. QED  BY <2>1 DEF Given, WireTypes, AnswersFindTheirRequest
<1>. QED  BY <1>1, <1>2

\* A message of a stream or a line.
LEMMA HeardKeeps ==
    ASSUME WireInv, ReadMessage \/ Event
    PROVE  WireInv'
<1>1. PICK m \in Message : exchange' = Resolved(Mend(m)) /\ Came(m) /\ UNCHANGED posted
  BY DEF ReadMessage, Event
<1>2. ASSUME NEW i \in Requests
      PROVE  Given(i)
  BY <1>1, MendIsSafe, GivenKeeps DEF WireInv
<1>3. WireTypes'
  <2>1. DOMAIN exchange' = Requests /\ exchange' = [i \in Requests |-> exchange'[i]]
    BY <1>1 DEF Resolved
  <2>2. came' = [i \in Requests |-> came'[i]]
    BY <1>1 DEF Came, Faithful
  <2>. QED  BY <1>1, <1>2, <2>1, <2>2 DEF Given, WireInv, WireTypes
<1>4. IdleOK'
  BY <1>1, <1>2 DEF Given, WireInv, IdleOK
<1>5. AnswersFindTheirRequest'
  BY <1>1, <1>2 DEF Given, WireInv, AnswersFindTheirRequest
<1>. QED  BY <1>3, <1>4, <1>5 DEF WireInv

\* The body of a POST's answer, given on or not.
LEMMA BodyKeeps ==
    ASSUME WireInv, NEW i \in Requests, JsonBody(i)
    PROVE  WireInv'
<1>1. PICK m \in Message, refusal \in BOOLEAN :
          LET heard == IF refusal THEN m ELSE Mend(m)
              fails == \/ SdkReads(heard) = "nothing" \/ ForNoRequest(i, heard)
                       \/ refusal /\ SdkReads(heard) # "error"
              elsewhere == SdkReads(heard) = "own" \/ (SdkReads(heard) = "response" /\ heard.id # i) IN
          IF fails THEN Ends(i, "failed") /\ UNCHANGED came
             ELSE /\ Came(m)
                  /\ exchange' = Resolved(heard)
                  /\ posted' = [posted EXCEPT ![i] = IF elsewhere THEN "elsewhere" ELSE "closed"]
  BY DEF JsonBody
<1>. DEFINE heard == IF refusal THEN m ELSE Mend(m)
            fails == \/ SdkReads(heard) = "nothing" \/ ForNoRequest(i, heard)
                     \/ refusal /\ SdkReads(heard) # "error"
            elsewhere == SdkReads(heard) = "own" \/ (SdkReads(heard) = "response" /\ heard.id # i)
<1>2. CASE fails
  <2>1. Ends(i, "failed") /\ UNCHANGED came
    BY <1>1, <1>2
  <2>. HIDE DEF fails, heard
  <2>. QED  BY <2>1 DEF Ends, JsonBody, Sent, WireInv, WireTypes, IdleOK, AnswersFindTheirRequest
<1>3. CASE ~fails
  <2>1. /\ Came(m) /\ exchange' = Resolved(heard)
        /\ posted' = [posted EXCEPT ![i] = IF elsewhere THEN "elsewhere" ELSE "closed"]
    BY <1>1, <1>3
  <2>2. Faithful(m, heard)
    <3>1. CASE refusal
      BY <1>3, <3>1 DEF Faithful
    <3>2. CASE ~refusal
      BY <3>2, MendIsSafe
    <3>. QED  BY <3>1, <3>2
  <2>3. posted[i] = "sent" /\ exchange[i] # "idle"
    BY DEF JsonBody, Sent, WireInv, IdleOK
  <2>4. ~elsewhere => (SdkReads(heard) = "error" \/ SdkReads(heard) = "response") /\ heard.id = i
    BY <1>3 DEF SdkReads, ForNoRequest
  <2>. HIDE DEF heard, fails, elsewhere
  <2>5. ASSUME NEW j \in Requests
        PROVE  Given(j)
    BY <2>1, <2>2, GivenKeeps DEF WireInv
  <2>6. WireTypes'
    <3>1. exchange' = [j \in Requests |-> exchange'[j]]
      BY <2>1 DEF Resolved
    <3>2. came' = [j \in Requests |-> came'[j]]
      BY <2>1 DEF Came
    <3>3. posted' \in [Requests -> {"none", "sent", "accepted", "streaming", "elsewhere", "closed"}]
      BY <2>1 DEF WireInv, WireTypes
    <3>. QED  BY <2>5, <3>1, <3>2, <3>3 DEF Given, WireTypes
  <2>7. IdleOK'
    BY <2>1, <2>3, <2>5 DEF Given, WireInv, WireTypes, IdleOK
  <2>8. ~elsewhere => exchange'[i] # "waiting"
    BY <2>1, <2>2, <2>4 DEF Resolved, Faithful
  <2>9. AnswersFindTheirRequest'
    BY <2>1, <2>5, <2>8 DEF Given, WireInv, WireTypes, AnswersFindTheirRequest
  <2>. QED  BY <2>6, <2>7, <2>9 DEF WireInv
<1>. QED  BY <1>2, <1>3

\* The steps that hand the SDK no message.
LEMMA OwnWireKeeps ==
    ASSUME WireInv, NEW i \in Requests,
           \/ Request(i) \/ GivesUp(i) \/ Accepted(i) \/ SessionExpired(i) \/ PostFails(i)
           \/ AnsweredWithError(i) \/ EventStream(i) \/ EventTooLong(i) \/ StreamEnds(i)
    PROVE  WireInv'
<1>1. CASE Request(i)
  BY <1>1, WireAssumption DEF Request, WireInv, WireTypes, IdleOK, AnswersFindTheirRequest
<1>2. CASE GivesUp(i)
  BY <1>2 DEF GivesUp, WireInv, WireTypes, IdleOK, AnswersFindTheirRequest
<1>3. CASE Accepted(i) \/ EventStream(i)
  BY <1>3 DEF Accepted, EventStream, Sent, WireInv, WireTypes, IdleOK, AnswersFindTheirRequest
<1>4. ASSUME NEW how \in {"failed", "error"}, posted[i] # "none", Ends(i, how), UNCHANGED came
      PROVE  WireInv'
  BY <1>4 DEF Ends, WireInv, WireTypes, IdleOK, AnswersFindTheirRequest
<1>5. CASE SessionExpired(i) \/ PostFails(i) \/ StreamEnds(i)
  BY <1>4, <1>5 DEF SessionExpired, PostFails, StreamEnds, Sent
<1>6. CASE AnsweredWithError(i) \/ EventTooLong(i)
  BY <1>4, <1>6 DEF AnsweredWithError, EventTooLong, Sent
<1>. QED  BY <1>1, <1>2, <1>3, <1>5, <1>6

LEMMA WireNextInv == WireInv /\ [WireNext]_wireVars => WireInv'
<1>1. CASE UNCHANGED wireVars
  BY <1>1 DEF wireVars, WireInv, WireTypes, IdleOK, AnswersFindTheirRequest
<1>2. WireInv /\ Initialized => WireInv'
  BY DEF Initialized, WireInv, WireTypes, IdleOK, AnswersFindTheirRequest
<1>. QED  BY <1>1, <1>2, HeardKeeps, BodyKeeps, OwnWireKeeps DEF WireNext

\* A request ends with the answer to it and no other, a success is only read where a
\* result was written, and none waits on after its answer was handed to the SDK, except
\* where the message is left as it came (wire.rs mend, put_right, mended_response).
THEOREM AnswersAreFound == WireSpec => []AnswersFindTheirRequest
<1>1. WireInv => AnswersFindTheirRequest
  BY DEF WireInv
<1>. QED  BY <1>1, WireInitInv, WireNextInv, PTL DEF WireSpec

-----------------------------------------------------------------------------
\* The listings of a server's tools.

\* A tool is listed once.
ListedOnce == \A a, b \in listed : a.tool = b.tool => a = b

LEMMA CatalogueInitInv == CatalogueInit => ListedOnce
BY DEF CatalogueInit, ListedOnce

\* What is listed for a tool is its own; unchanged, it is the one there was.
LEMMA ListedAsIsOwn ==
    ASSUME ListedOnce, NEW t, NEW names, NEW versions
    PROVE  /\ ListedAs(t, names, versions).tool = t
           /\ ListedAs(t, names, versions).name = names[t]
           /\ ListedAs(t, names, versions).version = versions[t]
           /\ \A a \in listed :
                  a.tool = t /\ a.name = names[t] /\ a.version = versions[t]
                      => ListedAs(t, names, versions) = a
<1>. DEFINE same == {a \in listed : a.tool = t /\ a.name = names[t] /\ a.version = versions[t]}
<1>1. CASE same = {}
  BY <1>1 DEF ListedAs
<1>2. CASE same # {}
  <2>1. ListedAs(t, names, versions) = CHOOSE a \in same : TRUE
    BY <1>2 DEF ListedAs
  <2>2. (CHOOSE a \in same : TRUE) \in same
    BY <1>2
  <2>. QED  BY <2>1, <2>2 DEF ListedOnce
<1>. QED  BY <1>1, <1>2

\* The name a listed tool is known by.
LEMMA KnownIsItsName ==
    ASSUME ListedOnce, NEW a \in listed
    PROVE  a.tool \in DOMAIN Known /\ Known[a.tool] = a.name
<1>1. (CHOOSE b \in listed : b.tool = a.tool) = a
  BY DEF ListedOnce
<1>. QED  BY <1>1 DEF Known

\* A listing keeps the names of the tools listed again, and the refusals of those unchanged.
LEMMA SetToolsKeeps ==
    ASSUME ListedOnce, NEW versions, SetTools(versions)
    PROVE  /\ ListedOnce'
           /\ \A a \in listed, b \in listed' : a.tool = b.tool =>
                  /\ b.name = a.name
                  /\ b.version = a.version => refused'[b] = refused[a]
<1>. DEFINE names == Exposed(DOMAIN versions, Known)
<1>1. /\ listed' = {ListedAs(t, names, versions) : t \in DOMAIN versions}
      /\ refused' = [a \in listed' |-> IF a \in listed THEN refused[a] ELSE NoEndpoint]
  BY DEF SetTools
<1>2. ASSUME NEW b \in listed'
      PROVE  b.tool \in DOMAIN versions /\ b = ListedAs(b.tool, names, versions)
  BY <1>1, ListedAsIsOwn
<1>3. ListedOnce'
  BY <1>2 DEF ListedOnce
<1>4. ASSUME NEW a \in listed, NEW b \in listed', a.tool = b.tool
      PROVE  b.name = a.name /\ (b.version = a.version => refused'[b] = refused[a])
  <2>1. a.tool \in DOMAIN versions \cap DOMAIN Known
    BY <1>2, <1>4, KnownIsItsName
  <2>2. names[a.tool] = Known[a.tool]
    BY <2>1 DEF Exposed
  <2>3. names[a.tool] = a.name
    BY <2>2, KnownIsItsName
  <2>4. b.name = a.name /\ b.version = versions[a.tool]
    BY <1>2, <1>4, <2>3, ListedAsIsOwn
  <2>5. b.version = a.version => b = a
    BY <1>2, <1>4, <2>3, <2>4, ListedAsIsOwn
  <2>. QED  BY <1>1, <2>4, <2>5
<1>. QED  BY <1>3, <1>4

LEMMA CatalogueNextInv ==
    ASSUME ListedOnce, [CatalogueNext]_catalogueVars
    PROVE  /\ ListedOnce'
           /\ listed' # listed =>
                \A a \in listed, b \in listed' : a.tool = b.tool =>
                    /\ b.name = a.name
                    /\ b.version = a.version => refused'[b] = refused[a]
<1>1. CASE ListEnds
  BY <1>1, SetToolsKeeps DEF ListEnds
<1>2. CASE ~ListEnds
  <2>1. UNCHANGED listed
    BY <1>2 DEF CatalogueNext, catalogueVars, ServeOther, BeginList, ReadPage, ListFails, Disconnect, ForgetRefusals,
                TakeSnapshot, RefuseTools, QuestionEnds
  <2>. QED  BY <2>1 DEF ListedOnce
<1>. QED  BY <1>1, <1>2

\* A tool listed again keeps the name the model knows it by and, unchanged, the
\* endpoint that refused it (mod.rs set_tools and names.rs expose).
THEOREM NamesAndRefusalsStay == CatalogueSpec => ListedAgainStays
BY CatalogueInitInv, CatalogueNextInv, PTL DEF CatalogueSpec, ListedAgainStays

-----------------------------------------------------------------------------
\* The requests to the model.  A request that may be sent again has shown nothing, so
\* the pieces on the screen are those of one attempt.

ReplyBodies ==
    [text : Nat, call : {"none", "whole", "broken", "unnamed"}, begun : BOOLEAN,
     finish : {"none", "stop", "tool_calls", "length"}]

ModelRequests ==
    [at : {"new", "sending", "reading", "waiting", "answered", "failed", "cancelled"},
     withheld : BOOLEAN, tools : {"offered", "withheld", "dropped"}, params : SUBSET Optional,
     without : SUBSET Optional, fallback : BOOLEAN, attempt : Nat, retries : Nat, unbilled : Nat,
     limit : {"completion", "max"}, body : ReplyBodies]

\* What the screen has of a request by where it is.
ScreenOK(r) ==
    /\ request[r] \in ModelRequests /\ shown[r] \in Seq(Nat)
    /\ request[r].at \in {"new", "sending", "waiting"} => shown[r] = <<>> /\ request[r].body = Nothing
    /\ request[r].at \in {"reading", "answered"} =>
           /\ Len(shown[r]) = request[r].body.text
           /\ \A i \in DOMAIN shown[r] : shown[r][i] = request[r].attempt
    /\ \A i, j \in DOMAIN shown[r] : shown[r][i] = shown[r][j]

CompletionInv ==
    /\ DOMAIN request = Completions /\ DOMAIN shown = Completions
    /\ request = [r \in Completions |-> request[r]] /\ shown = [r \in Completions |-> shown[r]]
    /\ leftOut \subseteq Optional
    /\ \A r \in Completions : ScreenOK(r)

LEMMA NewIsRequest ==
    ASSUME NEW w \in BOOLEAN
    PROVE  NewRequest(w) \in ModelRequests /\ NewRequest(w).at = "new" /\ NewRequest(w).body = Nothing
BY DEF NewRequest, ModelRequests, ReplyBodies, Nothing

LEMMA CompletionInitInv == CompletionInit => CompletionInv
<1>. SUFFICES ASSUME CompletionInit PROVE CompletionInv
  OBVIOUS
<1>1. ASSUME NEW r \in Completions PROVE \E w \in BOOLEAN : request[r] = NewRequest(w)
  BY DEF CompletionInit
<1>2. ASSUME NEW r \in Completions PROVE ScreenOK(r)
  <2>1. request[r] \in ModelRequests /\ request[r].at = "new" /\ request[r].body = Nothing
    BY <1>1, NewIsRequest
  <2>2. shown[r] = <<>>
    BY DEF CompletionInit
  <2>. QED  BY <2>1, <2>2 DEF ScreenOK
<1>. QED  BY <1>2 DEF CompletionInit, CompletionInv

\* A step of one request.
LEMMA OneRequest ==
    ASSUME CompletionInv, NEW r \in Completions, NEW next, Becomes(r, next),
           leftOut' \subseteq Optional, ScreenOK(r)',
           NEW piece, shown' = [shown EXCEPT ![r] = piece]
    PROVE  CompletionInv'
<1>1. ASSUME NEW t \in Completions \ {r} PROVE ScreenOK(t)'
  <2>1. request'[t] = request[t] /\ shown'[t] = shown[t]
    BY DEF Becomes, CompletionInv
  <2>. QED  BY <2>1 DEF CompletionInv, ScreenOK
<1>. QED  BY <1>1 DEF Becomes, CompletionInv

\* One that shows nothing.
LEMMA ShowsNothing ==
    ASSUME CompletionInv, NEW r \in Completions, NEW next \in ModelRequests, Becomes(r, next),
           leftOut' \subseteq Optional, UNCHANGED shown,
           next.at \in {"new", "sending", "waiting"} => shown[r] = <<>> /\ next.body = Nothing,
           next.at \in {"reading", "answered"} =>
               /\ Len(shown[r]) = next.body.text
               /\ \A i \in DOMAIN shown[r] : shown[r][i] = next.attempt
    PROVE  CompletionInv'
<1>1. request'[r] = next /\ shown'[r] = shown[r] /\ shown' = [shown EXCEPT ![r] = shown[r]]
  BY DEF Becomes, CompletionInv
<1>2. ScreenOK(r)'
  BY <1>1 DEF CompletionInv, ScreenOK
<1>. QED  BY <1>1, <1>2, OneRequest

\* A failed attempt.
LEMMA FailsKeeps ==
    ASSUME CompletionInv, NEW r \in Completions, NEW e, Fails(r, e),
           request[r].at \in {"sending", "reading"},
           e.kind = "bad_request" => request[r].at = "sending"
    PROVE  CompletionInv'
<1>. DEFINE now == request[r]
            after(c) == [c EXCEPT !.attempt = @ + 1, !.body = Nothing,
                                  !.unbilled = @ + IF Unbilled(e) THEN 1 ELSE 0]
<1>1. now \in ModelRequests /\ shown[r] \in Seq(Nat)
  BY DEF CompletionInv, ScreenOK
<1>2. now.at = "sending" => shown[r] = <<>>
  BY DEF CompletionInv, ScreenOK
<1>3. leftOut' \subseteq Optional /\ UNCHANGED shown
  BY DEF Fails, memory, CompletionInv
<1>4. Nothing \in ReplyBodies
  BY DEF Nothing, ReplyBodies
<1>5. ASSUME NEW c \in ModelRequests, Again(r, e, c),
             c.at \in {"sending", "waiting", "failed"}, c.at # "failed" => shown[r] = <<>>
      PROVE  CompletionInv'
  <2>0. /\ c.attempt + 1 \in Nat
        /\ c.unbilled + (IF Unbilled(e) THEN 1 ELSE 0) \in Nat
    BY DEF ModelRequests
  <2>1. after(c) \in ModelRequests /\ after(c).at = c.at /\ after(c).body = Nothing
    <3>1. ASSUME NEW n \in Nat, NEW u \in Nat
          PROVE  LET d == [c EXCEPT !.attempt = n, !.body = Nothing, !.unbilled = u]
                 IN  d \in ModelRequests /\ d.at = c.at /\ d.body = Nothing
      BY <1>4 DEF ModelRequests
    <3>. QED  BY <2>0, <3>1
  <2>2. Becomes(r, after(c))
    BY <1>5 DEF Again
  <2>. HIDE DEF after
  <2>. QED  BY <1>3, <1>5, <2>1, <2>2, ShowsNothing
<1>6. CASE DropsParameter(r, e)
  <2>. DEFINE c == [now EXCEPT !.at = "sending", !.params = @ \ {e.named}, !.without = @ \cup {e.named}]
  <2>1. c \in ModelRequests /\ c.at = "sending"
    BY <1>1, <1>6 DEF DropsParameter, ModelRequests
  <2>2. shown[r] = <<>> /\ Again(r, e, c)
    BY <1>2, <1>6 DEF Fails, DropsParameter
  <2>. HIDE DEF c
  <2>. QED  BY <1>5, <2>1, <2>2
<1>7. CASE ~DropsParameter(r, e) /\ DropsTools(r, e)
  <2>. DEFINE c == [now EXCEPT !.at = "sending", !.tools = "dropped", !.fallback = TRUE]
  <2>1. c \in ModelRequests /\ c.at = "sending"
    BY <1>1 DEF ModelRequests
  <2>2. shown[r] = <<>> /\ Again(r, e, c)
    BY <1>2, <1>7 DEF Fails, DropsTools
  <2>. HIDE DEF c
  <2>. QED  BY <1>5, <2>1, <2>2
<1>8. CASE ~DropsParameter(r, e) /\ ~DropsTools(r, e) /\ MayRetry(r, e) /\ request[r].retries < Retries
  <2>. DEFINE c == [now EXCEPT !.at = "waiting", !.retries = @ + 1]
  <2>1. c \in ModelRequests /\ c.at = "waiting"
    <3>1. now.retries + 1 \in Nat
      BY <1>1 DEF ModelRequests
    <3>2. ASSUME NEW n \in Nat
          PROVE  LET d == [now EXCEPT !.at = "waiting", !.retries = n]
                 IN  d \in ModelRequests /\ d.at = "waiting"
      BY <1>1 DEF ModelRequests
    <3>. QED  BY <3>1, <3>2
  <2>2. shown[r] = <<>> /\ Again(r, e, c)
    BY <1>8 DEF Fails, MayRetry
  <2>. HIDE DEF c
  <2>. QED  BY <1>5, <2>1, <2>2
<1>9. CASE ~DropsParameter(r, e) /\ ~DropsTools(r, e) /\ ~(MayRetry(r, e) /\ request[r].retries < Retries)
  <2>. DEFINE c == [now EXCEPT !.at = "failed"]
  <2>1. c \in ModelRequests /\ c.at = "failed"
    BY <1>1 DEF ModelRequests
  <2>2. Again(r, e, c)
    BY <1>9 DEF Fails
  <2>. HIDE DEF c
  <2>. QED  BY <1>5, <2>1, <2>2
<1>. QED  BY <1>6, <1>7, <1>8, <1>9

LEMMA RefusedKeeps ==
    ASSUME CompletionInv, NEW r \in Completions, RequestRefused(r) \/ StreamFails(r) \/ Spoiled(r)
    PROVE  CompletionInv'
<1>1. CASE RequestRefused(r)
  BY <1>1, FailsKeeps DEF RequestRefused, Is
<1>2. CASE StreamFails(r)
  <2>1. PICK e : Fails(r, e) /\ e.kind # "bad_request"
    BY <1>2 DEF StreamFails, Error
  <2>. QED  BY <1>2, <2>1, FailsKeeps DEF StreamFails, Is
<1>3. CASE Spoiled(r)
  <2>. DEFINE e == Error(Flaw(request[r].body), FALSE, NoneNamed)
  <2>1. Fails(r, e) /\ e.kind # "bad_request"
    BY <1>3 DEF Spoiled, Error, Flaw
  <2>. HIDE DEF e
  <2>. QED  BY <1>3, <2>1, FailsKeeps DEF Spoiled, Is
<1>. QED  BY <1>1, <1>2, <1>3

\* A piece of text is the attempt's.
LEMMA TextKeeps ==
    ASSUME CompletionInv, NEW r \in Completions, Text(r)
    PROVE  CompletionInv'
<1>. DEFINE now == request[r]
            next == [now EXCEPT !.body = [now.body EXCEPT !.text = @ + 1]]
            pieces == Append(shown[r], now.attempt)
<1>1. /\ now \in ModelRequests /\ now.at = "reading" /\ shown[r] \in Seq(Nat)
      /\ Len(shown[r]) = now.body.text /\ \A i \in DOMAIN shown[r] : shown[r][i] = now.attempt
  BY DEF Text, Is, CompletionInv, ScreenOK
<1>2. next \in ModelRequests /\ next.at = "reading" /\ next.attempt = now.attempt
      /\ next.body.text = now.body.text + 1
  <2>1. now.body \in ReplyBodies /\ now.body.text + 1 \in Nat
    BY <1>1 DEF ModelRequests, ReplyBodies
  <2>2. ASSUME NEW n \in Nat
        PROVE  [now.body EXCEPT !.text = n] \in ReplyBodies /\ [now.body EXCEPT !.text = n].text = n
    BY <2>1 DEF ReplyBodies
  <2>3. ASSUME NEW b \in ReplyBodies
        PROVE  LET d == [now EXCEPT !.body = b]
               IN  d \in ModelRequests /\ d.at = now.at /\ d.attempt = now.attempt /\ d.body = b
    BY <1>1 DEF ModelRequests
  <2>. DEFINE body == [now.body EXCEPT !.text = @ + 1]
  <2>4. body \in ReplyBodies /\ body.text = now.body.text + 1
    BY <2>1, <2>2
  <2>. HIDE DEF body
  <2>5. [now EXCEPT !.body = body] = next
    BY DEF body
  <2>. HIDE DEF next
  <2>. QED  BY <1>1, <2>3, <2>4, <2>5
<1>3. Becomes(r, next) /\ shown' = [shown EXCEPT ![r] = pieces] /\ UNCHANGED leftOut
  BY DEF Text, Reads, memory
<1>4. now.attempt \in Nat
  BY <1>1 DEF ModelRequests
<1>5. pieces \in Seq(Nat) /\ Len(pieces) = Len(shown[r]) + 1
      /\ \A i \in DOMAIN pieces : pieces[i] = now.attempt
  BY <1>1, <1>4
<1>6. request'[r] = next /\ shown'[r] = pieces
  BY <1>3 DEF Becomes, CompletionInv
<1>. HIDE DEF next, pieces
<1>7. ScreenOK(r)'
  BY <1>1, <1>2, <1>5, <1>6 DEF ScreenOK
<1>. QED  BY <1>3, <1>7, OneRequest DEF CompletionInv

LEMMA OthersComplete ==
    ASSUME CompletionInv, NEW r \in Completions,
           Compose(r) \/ Streams(r) \/ Call(r) \/ Reasons(r) \/ Finish(r) \/ Succeeds(r) \/ WaitOver(r) \/ Cancel(r)
    PROVE  CompletionInv'
<1>. DEFINE now == request[r]
<1>1. now \in ModelRequests /\ ScreenOK(r)
  BY DEF CompletionInv, ScreenOK
<1>2. UNCHANGED shown /\ leftOut' \subseteq Optional
  BY <1>1 DEF Compose, Streams, Call, Reasons, Finish, Succeeds, WaitOver, Cancel, memory, ModelRequests, CompletionInv
<1>3. CASE Compose(r)
  <2>. DEFINE next == [now EXCEPT !.at = "sending", !.params = Optional \ leftOut,
                                  !.tools = IF request[r].withheld /\ noneIgnored THEN "dropped" ELSE @]
  <2>1. Becomes(r, next) /\ next \in ModelRequests /\ next.at = "sending" /\ next.body = now.body
    BY <1>1, <1>3 DEF Compose, ModelRequests
  <2>2. shown[r] = <<>> /\ now.body = Nothing
    BY <1>1, <1>3 DEF Compose, Is, ScreenOK
  <2>. HIDE DEF next
  <2>. QED  BY <1>2, <2>1, <2>2, ShowsNothing
<1>4. CASE Streams(r)
  <2>. DEFINE next == [now EXCEPT !.at = "reading", !.limit = IF limitIgnored THEN "max" ELSE "completion"]
  <2>1. Becomes(r, next) /\ next \in ModelRequests /\ next.at = "reading" /\ next.body = now.body
    BY <1>1, <1>4 DEF Streams, ModelRequests
  <2>2. shown[r] = <<>> /\ now.body.text = 0
    BY <1>1, <1>4 DEF Streams, Is, ScreenOK, Nothing
  <2>. HIDE DEF next
  <2>. QED  BY <1>2, <2>1, <2>2, ShowsNothing
<1>5. ASSUME NEW body \in ReplyBodies, body.text = now.body.text, Is(r, "reading"), Reads(r, body)
      PROVE  CompletionInv'
  <2>. DEFINE next == [now EXCEPT !.body = body]
  <2>1. Becomes(r, next) /\ next \in ModelRequests /\ next.at = "reading" /\ next.body = body
        /\ next.attempt = now.attempt
    BY <1>1, <1>5 DEF Reads, Is, ModelRequests
  <2>2. Len(shown[r]) = body.text /\ \A i \in DOMAIN shown[r] : shown[r][i] = now.attempt
    BY <1>1, <1>5 DEF Is, ScreenOK
  <2>. HIDE DEF next
  <2>. QED  BY <1>2, <2>1, <2>2, ShowsNothing
<1>6. CASE Call(r)
  <2>1. PICK c \in {"whole", "broken", "unnamed"} : Reads(r, [now.body EXCEPT !.call = c])
    BY <1>6 DEF Call
  <2>2. [now.body EXCEPT !.call = c] \in ReplyBodies /\ [now.body EXCEPT !.call = c].text = now.body.text
    BY <1>1 DEF ModelRequests, ReplyBodies
  <2>. QED  BY <1>5, <1>6, <2>1, <2>2 DEF Call
<1>7. CASE Reasons(r)
  <2>1. [now.body EXCEPT !.begun = TRUE] \in ReplyBodies /\ [now.body EXCEPT !.begun = TRUE].text = now.body.text
    BY <1>1 DEF ModelRequests, ReplyBodies
  <2>. QED  BY <1>5, <1>7, <2>1 DEF Reasons
<1>8. CASE Finish(r)
  <2>1. PICK c \in {"stop", "tool_calls", "length"} : Reads(r, [now.body EXCEPT !.finish = c])
    BY <1>8 DEF Finish
  <2>2. [now.body EXCEPT !.finish = c] \in ReplyBodies /\ [now.body EXCEPT !.finish = c].text = now.body.text
    BY <1>1 DEF ModelRequests, ReplyBodies
  <2>. QED  BY <1>5, <1>8, <2>1, <2>2 DEF Finish
<1>9. ASSUME NEW at \in {"answered", "sending", "cancelled"}, Goes(r, at),
             at = "answered" => now.at = "reading", at = "sending" => now.at = "waiting"
      PROVE  CompletionInv'
  <2>. DEFINE next == [now EXCEPT !.at = at]
  <2>1. Becomes(r, next) /\ next \in ModelRequests /\ next.at = at /\ next.body = now.body
        /\ next.attempt = now.attempt
    BY <1>1, <1>9 DEF Goes, ModelRequests
  <2>. HIDE DEF next
  <2>. QED  BY <1>1, <1>2, <1>9, <2>1, ShowsNothing DEF ScreenOK
<1>10. CASE Succeeds(r) \/ WaitOver(r) \/ Cancel(r)
  BY <1>9, <1>10 DEF Succeeds, WaitOver, Cancel, Is
<1>. QED  BY <1>3, <1>4, <1>6, <1>7, <1>8, <1>10

LEMMA CompletionNextInv == CompletionInv /\ [CompletionNext]_completionVars => CompletionInv'
<1>. SUFFICES ASSUME CompletionInv, [CompletionNext]_completionVars PROVE CompletionInv'
  OBVIOUS
<1>1. ASSUME NEW r \in Completions, NextRequest(r) PROVE CompletionInv'
  <2>1. PICK w \in BOOLEAN : request' = [request EXCEPT ![r] = NewRequest(w)]
    BY <1>1 DEF NextRequest
  <2>2. shown' = [shown EXCEPT ![r] = <<>>] /\ UNCHANGED leftOut
    BY <1>1 DEF NextRequest, memory
  <2>3. ScreenOK(r)'
    BY <2>1, <2>2, NewIsRequest DEF CompletionInv, ScreenOK
  <2>. QED  BY <2>1, <2>2, <2>3, OneRequest DEF Becomes, CompletionInv
<1>2. CASE Forget \/ UNCHANGED completionVars
  <2>1. UNCHANGED <<request, shown>> /\ leftOut' \subseteq Optional
    BY <1>2 DEF Forget, completionVars, CompletionInv
  <2>2. ASSUME NEW r \in Completions PROVE ScreenOK(r)'
    BY <2>1 DEF CompletionInv, ScreenOK
  <2>. QED  BY <2>1, <2>2 DEF CompletionInv
<1>. QED  BY <1>1, <1>2, RefusedKeeps, TextKeeps, OthersComplete DEF CompletionNext

\* What is on the screen of a request is from one attempt, and of one answered the
\* whole of that attempt's text (llm.rs complete: an answer begun is not asked again).
THEOREM ShownIsAnswered == CompletionSpec => []ShownIsTheAnswer
<1>1. CompletionInv => ShownIsTheAnswer
  <2>. SUFFICES ASSUME CompletionInv, NEW r \in Completions
                PROVE  /\ \A i, j \in DOMAIN shown[r] : shown[r][i] = shown[r][j]
                       /\ Is(r, "answered") => shown[r] = [i \in 1..request[r].body.text |-> request[r].attempt]
    BY DEF ShownIsTheAnswer
  <2>1. ScreenOK(r)
    BY DEF CompletionInv
  <2>2. CASE Is(r, "answered")
    <3>1. shown[r] \in Seq(Nat) /\ Len(shown[r]) = request[r].body.text
          /\ \A i \in DOMAIN shown[r] : shown[r][i] = request[r].attempt
      BY <2>1, <2>2 DEF ScreenOK, Is
    <3>2. DOMAIN shown[r] = 1..request[r].body.text /\ shown[r] = [i \in DOMAIN shown[r] |-> shown[r][i]]
      BY <3>1
    <3>3. shown[r] = [i \in 1..request[r].body.text |-> request[r].attempt]
      BY <3>1, <3>2
    <3>4. \A i, j \in DOMAIN shown[r] : shown[r][i] = shown[r][j]
      BY <3>1
    <3>. QED  BY <3>3, <3>4
  <2>. QED  BY <2>1, <2>2 DEF ScreenOK
<1>. QED  BY <1>1, CompletionInitInv, CompletionNextInv, PTL DEF CompletionSpec

-----------------------------------------------------------------------------
\* The lines read from chunks of bytes: places, and what is at them.

\* A set of places up to n has a last one, unless it is empty.
LEMMA LastIsLast ==
    ASSUME NEW n \in Nat, NEW S \in SUBSET (1..n)
    PROVE  /\ S = {} => LastOf(S) = 0
           /\ S # {} => LastOf(S) \in S /\ \A j \in S : j <= LastOf(S)
           /\ LastOf(S) \in 0..n
<1>1. CASE S = {}
  BY <1>1 DEF LastOf
<1>2. CASE S # {}
  <2> DEFINE T == {n - j : j \in S}
  <2>1. T \subseteq Nat /\ T # {}
    <3>1. \A j \in S : n - j \in Nat /\ n - j \in T
      OBVIOUS
    <3>2. PICK j \in S : TRUE
      BY <1>2
    <3> QED
      BY <3>1, <3>2
  <2>2. IsWellFoundedOn(OpToRel(<, Nat), Nat)
    BY NatLessThanWellFounded
  <2> HIDE DEF T
  <2>3. PICK d \in T : \A y \in T : ~(<<y, d>> \in OpToRel(<, Nat))
    BY <2>1, <2>2, WFMin
  <2>4. PICK i \in S : d = n - i
    BY DEF T
  <2>5. \A j \in S : i >= j
    <3>1. SUFFICES ASSUME NEW j \in S PROVE i >= j
      OBVIOUS
    <3>2. n - j \in T /\ n - j \in Nat /\ d \in Nat
      BY <2>1 DEF T
    <3>3. ~(n - j < d)
      BY <2>3, <3>2 DEF OpToRel
    <3> QED
      BY <2>4, <3>2, <3>3
  <2>6. LastOf(S) \in S /\ \A j \in S : LastOf(S) >= j
    <3>1. \E k \in S : \A j \in S : k >= j
      BY <2>5
    <3> QED
      BY <1>2, <3>1 DEF LastOf
  <2>7. LastOf(S) \in 1..n
    BY <2>6
  <2> QED
    BY <1>2, <2>6, <2>7
<1> QED
  BY <1>1, <1>2

LEMMA TheLast ==
    ASSUME NEW S \in SUBSET Nat, NEW m \in S, \A j \in S : j <= m
    PROVE  LastOf(S) = m
<1>1. \A i \in S : (\A j \in S : i >= j) => i = m
  OBVIOUS
<1>2. S # {} /\ \A j \in S : m >= j
  OBVIOUS
<1>3. LastOf(S) \in S /\ \A j \in S : LastOf(S) >= j
  BY <1>2 DEF LastOf
<1> QED
  BY <1>1, <1>3

\* The values at the places of a set that grows at its end grow at their end.
LEMMA EachGrows ==
    ASSUME NEW f, NEW S \in SUBSET Nat, IsFiniteSet(S), NEW m \in Nat, \A i \in S : i < m
    PROVE  Each(f, S \cup {m}) = Append(Each(f, S), f[m])
<1> DEFINE T == S \cup {m}
           N == Cardinality(S)
           To(X, i) == {j \in X : j <= i}
<1>1. m \notin S /\ N \in Nat /\ Cardinality(T) = N + 1 /\ IsFiniteSet(T)
  BY FS_AddElement, FS_CardinalityType
<1>2. \A i \in S : To(T, i) = To(S, i)
  <2>1. SUFFICES ASSUME NEW i \in S PROVE To(T, i) = To(S, i)
    OBVIOUS
  <2>2. i \in Nat /\ i < m
    OBVIOUS
  <2> QED
    BY <2>2
<1>3. To(T, m) = T
  <2>1. \A j \in T : j <= m
    OBVIOUS
  <2> QED
    BY <2>1
<1>4. \A i \in S : IsFiniteSet(To(S, i)) /\ Cardinality(To(S, i)) \in Nat /\ Cardinality(To(S, i)) <= N
  <2>1. SUFFICES ASSUME NEW i \in S PROVE IsFiniteSet(To(S, i)) /\ Cardinality(To(S, i)) \in Nat /\ Cardinality(To(S, i)) <= N
    OBVIOUS
  <2>2. To(S, i) \subseteq S
    OBVIOUS
  <2> HIDE DEF To
  <2> QED
    BY <2>2, FS_Subset, FS_CardinalityType
<1>5. ASSUME NEW k \in 1..N PROVE At(T, k) = At(S, k)
  <2>1. {i \in T : Cardinality(To(T, i)) = k} = {i \in S : Cardinality(To(S, i)) = k}
    <3>1. Cardinality(To(T, m)) # k
      BY <1>1, <1>3
    <3>2. \A i \in S : Cardinality(To(T, i)) = Cardinality(To(S, i))
      BY <1>2
    <3> HIDE DEF To
    <3> QED
      BY <3>1, <3>2
  <2> QED
    BY <2>1 DEF At
<1>6. At(T, N + 1) = m
  <2>1. {i \in T : Cardinality(To(T, i)) = N + 1} = {m}
    <3>1. Cardinality(To(T, m)) = N + 1
      BY <1>1, <1>3
    <3>2. \A i \in S : Cardinality(To(T, i)) # N + 1
      <4>1. SUFFICES ASSUME NEW i \in S PROVE Cardinality(To(T, i)) # N + 1
        OBVIOUS
      <4>2. Cardinality(To(T, i)) = Cardinality(To(S, i))
        BY <1>2
      <4>3. Cardinality(To(S, i)) \in Nat /\ Cardinality(To(S, i)) <= N
        BY <1>4
      <4> HIDE DEF To, N
      <4> QED
        BY <1>1, <4>2, <4>3
    <3> HIDE DEF To, N
    <3> QED
      BY <3>1, <3>2
  <2> QED
    BY <2>1 DEF At, The
<1> HIDE DEF T, N
<1> DEFINE R == {Each(f, S)[k] : k \in 1..N} \cup {f[m]}
<1>7. Each(f, S) = [k \in 1..N |-> f[At(S, k)]] /\ Each(f, T) = [k \in 1..(N + 1) |-> f[At(T, k)]]
  BY <1>1 DEF Each, N
<1>8. Each(f, S) \in Seq(R) /\ Len(Each(f, S)) = N /\ \A k \in 1..N : Each(f, S)[k] = f[At(S, k)]
  BY <1>1, <1>7
<1>9. Each(f, T) \in Seq(R) /\ Len(Each(f, T)) = N + 1 /\ \A k \in 1..(N + 1) : Each(f, T)[k] = f[At(T, k)]
  <2>1. \A k \in 1..(N + 1) : f[At(T, k)] \in R
    <3>1. SUFFICES ASSUME NEW k \in 1..(N + 1) PROVE f[At(T, k)] \in R
      OBVIOUS
    <3>2. CASE k = N + 1
      BY <1>6, <3>2
    <3>3. CASE k \in 1..N
      BY <1>5, <1>8, <3>3
    <3> QED
      BY <1>1, <3>2, <3>3
  <2> HIDE DEF R
  <2> QED
    BY <1>1, <1>7, <2>1
<1>10. /\ Append(Each(f, S), f[m]) \in Seq(R) /\ Len(Append(Each(f, S), f[m])) = N + 1
       /\ \A k \in 1..(N + 1) : Append(Each(f, S), f[m])[k] = IF k = N + 1 THEN f[m] ELSE Each(f, S)[k]
  <2>1. f[m] \in R
    OBVIOUS
  <2> HIDE DEF R
  <2> QED
    BY <1>1, <1>8, <2>1
<1>11. \A k \in 1..(N + 1) : Each(f, T)[k] = Append(Each(f, S), f[m])[k]
  <2>1. SUFFICES ASSUME NEW k \in 1..(N + 1) PROVE Each(f, T)[k] = Append(Each(f, S), f[m])[k]
    OBVIOUS
  <2>2. CASE k = N + 1
    BY <1>1, <1>6, <1>9, <1>10, <2>2
  <2>3. CASE k # N + 1
    <3>1. k \in 1..N
      BY <1>1, <2>3
    <3> QED
      BY <1>5, <1>8, <1>9, <1>10, <2>3, <3>1
  <2> QED
    BY <2>2, <2>3
<1> HIDE DEF R
<1>12. Each(f, T) = Append(Each(f, S), f[m])
  BY <1>9, <1>10, <1>11, SeqEqual
<1> QED
  BY <1>12 DEF T

LEMMA EachOfNone == ASSUME NEW f PROVE Each(f, {}) = <<>>
BY FS_EmptySet DEF Each

\* The line at hand.
LEMMA LineTyped ==
    ASSUME NEW R, NEW w \in Seq(R), NEW n \in Nat, n < Len(w), NEW ends
    PROVE  /\ Breaks(w, n, ends) \in SUBSET (1..n) /\ IsFiniteSet(Breaks(w, n, ends))
           /\ LineBegin(w, n + 1, ends) \in 1..(n + 1)
           /\ \A i \in LineBegin(w, n + 1, ends)..n : w[i] \notin ends
           /\ Line(w, n + 1, ends) \in Seq(R)
<1> DEFINE B == Breaks(w, n, ends)
           b == LineBegin(w, n + 1, ends)
<1>1. B \in SUBSET (1..n) /\ IsFiniteSet(B)
  <2>1. B \in SUBSET (1..n)
    BY DEF Breaks
  <2>2. IsFiniteSet(1..n)
    BY FS_Interval
  <2> QED
    BY <2>1, <2>2, FS_Subset
<1>2. (n + 1) - 1 = n /\ (n + 2) - 1 = n + 1
  OBVIOUS
<1>3. b = LastOf(B) + 1
  BY <1>2 DEF LineBegin
<1>4. b \in 1..(n + 1)
  BY <1>1, <1>3, LastIsLast
<1>5. \A i \in b..n : w[i] \notin ends
  <2>1. SUFFICES ASSUME NEW i \in b..n, w[i] \in ends PROVE FALSE
    OBVIOUS
  <2>2. i \in B
    BY <1>4, <2>1 DEF Breaks
  <2>3. LastOf(B) \in Nat /\ i <= LastOf(B)
    BY <1>1, <2>2, LastIsLast
  <2> QED
    BY <1>3, <2>1, <2>3
<1>6. \A i \in 1..Len(w) : w[i] \in R
  OBVIOUS
<1>7. Line(w, n + 1, ends) = SubSeq(w, b, n)
  BY <1>2 DEF Line
<1>8. Line(w, n + 1, ends) \in Seq(R)
  <2>1. \A i \in b..n : w[i] \in R
    BY <1>4, <1>6
  <2>2. b \in Int /\ n \in Int
    BY <1>4
  <2> HIDE DEF b
  <2>3. SubSeq(w, b, n) \in Seq(R)
    BY <2>1, <2>2, SubSeqProperties
  <2> QED
    BY <1>7, <2>3
<1> QED
  BY <1>1, <1>4, <1>5, <1>8

\* A break begins another line.
LEMMA BreakBegins ==
    ASSUME NEW w, NEW n \in Nat, NEW ends, w[n + 1] \in ends
    PROVE  /\ Breaks(w, n + 1, ends) = Breaks(w, n, ends) \cup {n + 1}
           /\ LineBegin(w, n + 2, ends) = n + 2
           /\ Line(w, n + 2, ends) = <<>>
<1> DEFINE B == Breaks(w, n, ends)
<1>1. Breaks(w, n + 1, ends) = B \cup {n + 1}
  BY DEF Breaks
<1>2. (n + 2) - 1 = n + 1 /\ n + 1 \in Nat
  OBVIOUS
<1>3. LastOf(B \cup {n + 1}) = n + 1
  <2>1. B \cup {n + 1} \in SUBSET Nat /\ n + 1 \in B \cup {n + 1} /\ \A j \in B \cup {n + 1} : j <= n + 1
    BY DEF Breaks
  <2> QED
    BY <2>1, TheLast
<1>4. LineBegin(w, n + 2, ends) = n + 2
  <2>1. Breaks(w, (n + 2) - 1, ends) = B \cup {n + 1}
    BY <1>1, <1>2
  <2>2. LineBegin(w, n + 2, ends) = LastOf(B \cup {n + 1}) + 1
    BY <2>1 DEF LineBegin
  <2> QED
    BY <1>3, <2>2
<1>5. Line(w, n + 2, ends) = SubSeq(w, n + 2, n + 1)
  BY <1>2, <1>4 DEF Line
<1>6. SubSeq(w, n + 2, n + 1) = <<>>
  BY SubSeqEmpty
<1> QED
  BY <1>1, <1>4, <1>5, <1>6

\* Any other byte goes on with the line it is in.
LEMMA LineGoesOn ==
    ASSUME NEW R, NEW w \in Seq(R), NEW n \in Nat, n < Len(w), NEW ends, w[n + 1] \notin ends
    PROVE  /\ Breaks(w, n + 1, ends) = Breaks(w, n, ends)
           /\ LineBegin(w, n + 2, ends) = LineBegin(w, n + 1, ends)
           /\ Line(w, n + 2, ends) = Append(Line(w, n + 1, ends), w[n + 1])
<1> DEFINE b == LineBegin(w, n + 1, ends)
<1>1. Breaks(w, n + 1, ends) = Breaks(w, n, ends)
  BY DEF Breaks
<1>2. (n + 1) - 1 = n /\ (n + 2) - 1 = n + 1 /\ n + 1 \in 1..Len(w)
  OBVIOUS
<1>3. LineBegin(w, n + 2, ends) = b
  <2>1. Breaks(w, (n + 2) - 1, ends) = Breaks(w, (n + 1) - 1, ends)
    BY <1>1, <1>2
  <2> QED
    BY <2>1 DEF LineBegin
<1>4. b \in 1..(n + 1) /\ Line(w, n + 1, ends) \in Seq(R)
  BY LineTyped
<1>5. Line(w, n + 1, ends) = SubSeq(w, b, n) /\ Line(w, n + 2, ends) = SubSeq(w, b, n + 1)
  BY <1>2, <1>3 DEF Line
<1>6. SubSeq(w, b, n + 1) = SubSeq(w, b, n) \o <<w[n + 1]>>
  <2>1. b \in 1..Len(w) /\ n + 1 \in b..Len(w) /\ (n + 1) - 1 = n
    BY <1>2, <1>4
  <2> HIDE DEF b
  <2>2. SubSeq(w, b, n + 1) = SubSeq(w, b, (n + 1) - 1) \o <<w[n + 1]>>
    BY <2>1, SubSeqRecursiveSecond
  <2> QED
    BY <2>1, <2>2
<1>7. w[n + 1] \in R /\ SubSeq(w, b, n) \in Seq(R)
  BY <1>2, <1>4, <1>5
<1> HIDE DEF b
<1>8. SubSeq(w, b, n) \o <<w[n + 1]>> = Append(SubSeq(w, b, n), w[n + 1])
  BY <1>7, AppendIsConcat
<1> QED
  BY <1>1, <1>3, <1>5, <1>6, <1>8 DEF b

-----------------------------------------------------------------------------
\* A server's output.

Signs == {"CR", "LF", "data", "x", "BOM", "lead", "tail", "step", "end", ":", "?", "char", "too large"}

OutputState == [line : Seq(Signs), out : Seq(Seq(Signs)), failed : BOOLEAN]

\* Of the first n bytes of w the whole lines are out, and the rest is the line.
OutputOK(s, w, n) ==
    /\ s \in OutputState
    /\ s.out = OutputLines(w, n)
    /\ ~s.failed => s.line = Line(w, n + 1, {"LF"})

LEMMA EndedIsALine == ASSUME NEW line \in Seq(Signs) PROVE Ended(line) \in Seq(Signs)
<1> DEFINE solid == {i \in DOMAIN line : line[i] \notin {"CR", "LF"}}
<1>1. solid \in SUBSET (1..Len(line)) /\ Len(line) \in Nat
  OBVIOUS
<1> HIDE DEF solid
<1>2. LastOf(solid) \in 0..Len(line)
  BY <1>1, LastIsLast
<1>3. \A i \in 1..LastOf(solid) : line[i] \in Signs
  BY <1>1, <1>2
<1>4. SubSeq(line, 1, LastOf(solid)) \in Seq(Signs)
  BY <1>1, <1>2, <1>3, SubSeqProperties
<1> QED
  BY <1>4 DEF Ended, solid

LEMMA TakeByteKeeps ==
    ASSUME NEW w \in Seq(Signs), NEW n \in Nat, n < Len(w), NEW s, OutputOK(s, w, n), ~s.failed
    PROVE  OutputOK(TakeByte(s, w[n + 1]), w, n + 1)
<1> DEFINE t == TakeByte(s, w[n + 1])
           B == Breaks(w, n, {"LF"})
           f == [i \in DOMAIN w |-> Ended(Line(w, i, {"LF"}))]
<1>1. /\ B \in SUBSET (1..n) /\ IsFiniteSet(B)
      /\ w[n + 1] = "LF" => Breaks(w, n + 1, {"LF"}) = B \cup {n + 1} /\ Line(w, n + 2, {"LF"}) = <<>>
      /\ w[n + 1] # "LF" => /\ Breaks(w, n + 1, {"LF"}) = B
                            /\ Line(w, n + 2, {"LF"}) = Append(Line(w, n + 1, {"LF"}), w[n + 1])
  <2>1. B \in SUBSET (1..n) /\ IsFiniteSet(B)
    BY LineTyped
  <2>2. w[n + 1] = "LF" => Breaks(w, n + 1, {"LF"}) = B \cup {n + 1} /\ Line(w, n + 2, {"LF"}) = <<>>
    BY BreakBegins
  <2>3. w[n + 1] # "LF" => /\ Breaks(w, n + 1, {"LF"}) = B
                           /\ Line(w, n + 2, {"LF"}) = Append(Line(w, n + 1, {"LF"}), w[n + 1])
    BY LineGoesOn
  <2> QED
    BY <2>1, <2>2, <2>3
<1>2. s \in OutputState /\ s.out = OutputLines(w, n) /\ s.line = Line(w, n + 1, {"LF"})
  BY DEF OutputOK
<1>3. n + 1 \in DOMAIN w /\ w[n + 1] \in Signs /\ (n + 1) + 1 = n + 2
  OBVIOUS
<1>4. OutputLines(w, n) = Each(f, B) /\ OutputLines(w, n + 1) = Each(f, Breaks(w, n + 1, {"LF"}))
  BY DEF OutputLines
<1>5. f[n + 1] = Ended(s.line)
  BY <1>2, <1>3
<1>6. CASE w[n + 1] = "LF"
  <2>1. t = [s EXCEPT !.line = <<>>, !.out = Append(s.out, Ended(s.line))]
    BY <1>6 DEF TakeByte
  <2>2. Ended(s.line) \in Seq(Signs)
    BY <1>2, EndedIsALine DEF OutputState
  <2>3. t \in OutputState /\ t.line = <<>> /\ t.out = Append(s.out, Ended(s.line))
    <3>1. Append(s.out, Ended(s.line)) \in Seq(Seq(Signs))
      BY <1>2, <2>2 DEF OutputState
    <3>2. <<>> \in Seq(Signs)
      OBVIOUS
    <3> DEFINE o == Append(s.out, Ended(s.line))
    <3>3. t = [s EXCEPT !.line = <<>>, !.out = o] /\ o \in Seq(Seq(Signs))
      BY <2>1, <3>1
    <3> HIDE DEF o, t, f, B
    <3>4. t \in OutputState /\ t.line = <<>> /\ t.out = o
      BY <1>2, <3>2, <3>3 DEF OutputState
    <3> QED
      BY <3>4 DEF o
  <2>4. Each(f, B \cup {n + 1}) = Append(Each(f, B), f[n + 1])
    <3>1. B \in SUBSET Nat /\ n + 1 \in Nat /\ \A i \in B : i < n + 1
      BY <1>1
    <3> HIDE DEF f, B
    <3> QED
      BY <1>1, <3>1, EachGrows
  <2>5. t.out = OutputLines(w, n + 1)
    BY <1>1, <1>2, <1>4, <1>5, <1>6, <2>3, <2>4
  <2> QED
    BY <1>1, <1>3, <1>6, <2>3, <2>5 DEF OutputOK
<1>7. CASE w[n + 1] # "LF"
  <2>1. t = [s EXCEPT !.line = Append(s.line, w[n + 1])]
    BY <1>7 DEF TakeByte
  <2>2. t \in OutputState /\ t.line = Append(s.line, w[n + 1]) /\ t.out = s.out
    <3>1. Append(s.line, w[n + 1]) \in Seq(Signs)
      BY <1>2, <1>3 DEF OutputState
    <3> QED
      BY <1>2, <2>1, <3>1 DEF OutputState
  <2> QED
    BY <1>1, <1>2, <1>3, <1>4, <1>7, <2>2 DEF OutputOK
<1> QED
  BY <1>6, <1>7

-----------------------------------------------------------------------------
\* The provider's events.

LEMMA EndsGrow ==
    ASSUME NEW w \in Seq(Signs), NEW n \in Nat, n < Len(w)
    PROVE  /\ LineEnds(w, n) \in SUBSET (1..n) /\ IsFiniteSet(LineEnds(w, n))
           /\ LineEnds(w, n + 1) = IF w[n + 1] \in Either /\ ~(w[n + 1] = "LF" /\ n > 0 /\ w[n] = "CR")
                                   THEN LineEnds(w, n) \cup {n + 1} ELSE LineEnds(w, n)
<1>1. /\ Breaks(w, n, Either) \in SUBSET (1..n) /\ IsFiniteSet(Breaks(w, n, Either))
      /\ w[n + 1] \in Either => Breaks(w, n + 1, Either) = Breaks(w, n, Either) \cup {n + 1}
      /\ w[n + 1] \notin Either => Breaks(w, n + 1, Either) = Breaks(w, n, Either)
  <2>1. Breaks(w, n, Either) \in SUBSET (1..n) /\ IsFiniteSet(Breaks(w, n, Either))
    BY LineTyped
  <2>2. w[n + 1] \in Either => Breaks(w, n + 1, Either) = Breaks(w, n, Either) \cup {n + 1}
    BY BreakBegins
  <2>3. w[n + 1] \notin Either => Breaks(w, n + 1, Either) = Breaks(w, n, Either)
    BY LineGoesOn
  <2> QED
    BY <2>1, <2>2, <2>3
<1>2. LineEnds(w, n) \subseteq Breaks(w, n, Either)
  BY DEF LineEnds
<1>3. LineEnds(w, n) \in SUBSET (1..n) /\ IsFiniteSet(LineEnds(w, n))
  BY <1>1, <1>2, FS_Subset
<1>4. (n + 1) - 1 = n /\ (n + 1 > 1 <=> n > 0)
  OBVIOUS
<1> DEFINE Rest(i) == w[i] = "LF" /\ i > 1 /\ w[i - 1] = "CR"
<1>5. /\ LineEnds(w, n) = {i \in Breaks(w, n, Either) : ~Rest(i)}
      /\ LineEnds(w, n + 1) = {i \in Breaks(w, n + 1, Either) : ~Rest(i)}
  BY DEF LineEnds
<1>6. Rest(n + 1) <=> w[n + 1] = "LF" /\ n > 0 /\ w[n] = "CR"
  BY <1>4
<1> HIDE DEF Rest
<1>7. CASE w[n + 1] \in Either /\ ~Rest(n + 1)
  <2>1. LineEnds(w, n + 1) = LineEnds(w, n) \cup {n + 1}
    BY <1>1, <1>5, <1>7
  <2> QED
    BY <1>3, <1>6, <1>7, <2>1
<1>8. CASE ~(w[n + 1] \in Either /\ ~Rest(n + 1))
  <2>1. LineEnds(w, n + 1) = LineEnds(w, n)
    BY <1>1, <1>5, <1>8
  <2> QED
    BY <1>3, <1>6, <1>8, <2>1
<1> QED
  BY <1>7, <1>8

LEMMA DataGrows ==
    ASSUME NEW w \in Seq(Signs), NEW n \in Nat, n < Len(w)
    PROVE  /\ DataSince(w, n) \in SUBSET (1..n) /\ IsFiniteSet(DataSince(w, n))
           /\ EventEnds(w, n) \in SUBSET (1..n) /\ IsFiniteSet(EventEnds(w, n))
           /\ LineEnds(w, n + 1) = LineEnds(w, n) =>
                 DataSince(w, n + 1) = DataSince(w, n) /\ EventEnds(w, n + 1) = EventEnds(w, n)
           /\ LineEnds(w, n + 1) = LineEnds(w, n) \cup {n + 1} =>
                 /\ DataSince(w, n + 1) = IF LineText(w, n + 1) = <<>> THEN {}
                                          ELSE IF IsData(LineText(w, n + 1)) THEN DataSince(w, n) \cup {n + 1}
                                          ELSE DataSince(w, n)
                 /\ EventEnds(w, n + 1) = IF LineText(w, n + 1) = <<>> /\ DataSince(w, n) # {}
                                          THEN EventEnds(w, n) \cup {n + 1} ELSE EventEnds(w, n)
<1>1. LineEnds(w, n) \in SUBSET (1..n) /\ IsFiniteSet(LineEnds(w, n))
  BY EndsGrow
<1>2. DataSince(w, n) \subseteq LineEnds(w, n) /\ EventEnds(w, n) \subseteq LineEnds(w, n)
  BY DEF DataSince, EventEnds
<1>3. /\ DataSince(w, n) \in SUBSET (1..n) /\ IsFiniteSet(DataSince(w, n))
      /\ EventEnds(w, n) \in SUBSET (1..n) /\ IsFiniteSet(EventEnds(w, n))
  BY <1>1, <1>2, FS_Subset
<1>4. ASSUME LineEnds(w, n + 1) = LineEnds(w, n)
      PROVE  DataSince(w, n + 1) = DataSince(w, n) /\ EventEnds(w, n + 1) = EventEnds(w, n)
  BY <1>4 DEF DataSince, EventEnds
<1>5. ASSUME LineEnds(w, n + 1) = LineEnds(w, n) \cup {n + 1}
      PROVE  DataSince(w, n + 1) = IF LineText(w, n + 1) = <<>> THEN {}
                                   ELSE IF IsData(LineText(w, n + 1)) THEN DataSince(w, n) \cup {n + 1}
                                   ELSE DataSince(w, n)
  <2>1. \A i \in LineEnds(w, n) : i \in Nat /\ n + 1 > i /\ ~(i > n + 1)
    BY <1>1
  <2>2. IsData(LineText(w, n + 1)) => LineText(w, n + 1) # <<>>
    BY DEF IsData
  <2>3. CASE LineText(w, n + 1) = <<>>
    <3>1. \A i \in LineEnds(w, n) : i \notin DataSince(w, n + 1)
      BY <1>5, <2>1, <2>3 DEF DataSince
    <3>2. n + 1 \notin DataSince(w, n + 1)
      BY <2>2, <2>3 DEF DataSince
    <3>3. DataSince(w, n + 1) \subseteq LineEnds(w, n) \cup {n + 1}
      BY <1>5 DEF DataSince
    <3> QED
      BY <2>3, <3>1, <3>2, <3>3
  <2>4. CASE LineText(w, n + 1) # <<>>
    <3>1. \A i \in LineEnds(w, n) : i \in DataSince(w, n + 1) <=> i \in DataSince(w, n)
      BY <1>5, <2>4 DEF DataSince
    <3>2. n + 1 \in DataSince(w, n + 1) <=> IsData(LineText(w, n + 1))
      BY <1>5, <2>1 DEF DataSince
    <3>3. DataSince(w, n + 1) \subseteq LineEnds(w, n) \cup {n + 1}
      BY <1>5 DEF DataSince
    <3>4. n + 1 \notin LineEnds(w, n) /\ DataSince(w, n) \subseteq LineEnds(w, n)
      BY <1>2, <2>1
    <3>5. CASE IsData(LineText(w, n + 1))
      <4>1. DataSince(w, n + 1) = DataSince(w, n) \cup {n + 1}
        BY <3>1, <3>2, <3>3, <3>4, <3>5
      <4> QED
        BY <2>4, <3>5, <4>1
    <3>6. CASE ~IsData(LineText(w, n + 1))
      <4>1. DataSince(w, n + 1) = DataSince(w, n)
        BY <3>1, <3>2, <3>3, <3>4, <3>6
      <4> QED
        BY <2>4, <3>6, <4>1
    <3> QED
      BY <3>5, <3>6
  <2> QED
    BY <2>3, <2>4
<1>6. ASSUME LineEnds(w, n + 1) = LineEnds(w, n) \cup {n + 1}
      PROVE  EventEnds(w, n + 1) = IF LineText(w, n + 1) = <<>> /\ DataSince(w, n) # {}
                                   THEN EventEnds(w, n) \cup {n + 1} ELSE EventEnds(w, n)
  <2>1. (n + 1) - 1 = n
    OBVIOUS
  <2> QED
    BY <1>6, <2>1 DEF EventEnds
<1> QED
  BY <1>3, <1>4, <1>5, <1>6

ProviderState == [line : Seq(Signs), data : Seq(Seq(Signs)), size : Nat, skip : BOOLEAN, started : BOOLEAN,
                  hasData : BOOLEAN, out : Seq(Seq(Seq(Signs))), failed : BOOLEAN]

\* Of the first n bytes of w the events are out, and the data lines since the last
\* empty line and the line begun are kept.
ProviderOK(s, w, n) ==
    /\ s \in ProviderState
    /\ ~s.failed =>
          /\ s.out = ProviderEvents(w, n)
          /\ s.line = Line(w, n + 1, Either)
          /\ s.data = Each(Values(w), DataSince(w, n))
          /\ s.hasData <=> DataSince(w, n) # {}
          /\ s.started <=> Breaks(w, n, Either) # {}
          /\ s.skip <=> n > 0 /\ w[n] = "CR"

LEMMA UnmarkedIsALine ==
    ASSUME NEW line \in Seq(Signs)
    PROVE  /\ Unmarked(line) \in Seq(Signs)
           /\ line # <<>> => Tail(line) \in Seq(Signs)
<1>1. line # <<>> => Tail(line) \in Seq(Signs)
  BY HeadTailProperties
<1> QED
  BY <1>1 DEF Unmarked

\* A line ended: its text is what is to be read of it.
LEMMA FinishLineKeeps ==
    ASSUME NEW w \in Seq(Signs), NEW n \in Nat, n < Len(w), NEW s, ProviderOK(s, w, n), ~s.failed,
           w[n + 1] \in Either, LineEnds(w, n + 1) = LineEnds(w, n) \cup {n + 1}, NEW size \in Nat
    PROVE  ProviderOK([FinishLine([s EXCEPT !.skip = FALSE, !.size = size]) EXCEPT !.skip = w[n + 1] = "CR"], w, n + 1)
<1> DEFINE line == IF s.started THEN s.line ELSE Unmarked(s.line)
           r == [s EXCEPT !.skip = FALSE, !.size = size]
           t == [FinishLine(r) EXCEPT !.skip = w[n + 1] = "CR"]
<1>1. /\ s \in ProviderState /\ s.out = ProviderEvents(w, n) /\ s.line = Line(w, n + 1, Either)
      /\ s.data = Each(Values(w), DataSince(w, n)) /\ (s.hasData <=> DataSince(w, n) # {})
      /\ (s.started <=> Breaks(w, n, Either) # {})
  BY DEF ProviderOK
<1>2. line = LineText(w, n + 1)
  <2>1. (n + 1) - 1 = n
    OBVIOUS
  <2> QED
    BY <1>1, <2>1 DEF LineText
<1>3. Breaks(w, n + 1, Either) # {} /\ Line(w, n + 2, Either) = <<>>
  <2>1. Breaks(w, n + 1, Either) = Breaks(w, n, Either) \cup {n + 1} /\ Line(w, n + 2, Either) = <<>>
    BY BreakBegins
  <2> QED
    BY <2>1
<1>4. /\ r \in ProviderState /\ r.line = s.line /\ r.started = s.started /\ r.data = s.data /\ r.out = s.out
      /\ r.hasData = s.hasData /\ r.failed = s.failed
  BY <1>1 DEF ProviderState
<1>5. line \in Seq(Signs) /\ (line # <<>> => Tail(line) \in Seq(Signs))
  BY <1>1, UnmarkedIsALine DEF ProviderState
<1>6. n + 1 \in DOMAIN w /\ n + 2 = (n + 1) + 1 /\ n + 1 > 0
  OBVIOUS
<1>7. /\ DataSince(w, n) \in SUBSET Nat /\ IsFiniteSet(DataSince(w, n)) /\ \A i \in DataSince(w, n) : i < n + 1
      /\ EventEnds(w, n) \in SUBSET Nat /\ IsFiniteSet(EventEnds(w, n)) /\ \A i \in EventEnds(w, n) : i < n + 1
      /\ DataSince(w, n + 1) = IF line = <<>> THEN {} ELSE IF IsData(line) THEN DataSince(w, n) \cup {n + 1} ELSE DataSince(w, n)
      /\ EventEnds(w, n + 1) = IF line = <<>> /\ DataSince(w, n) # {} THEN EventEnds(w, n) \cup {n + 1} ELSE EventEnds(w, n)
  <2>1. /\ DataSince(w, n) \in SUBSET (1..n) /\ IsFiniteSet(DataSince(w, n))
        /\ EventEnds(w, n) \in SUBSET (1..n) /\ IsFiniteSet(EventEnds(w, n))
    BY DataGrows
  <2>2. DataSince(w, n + 1) = IF LineText(w, n + 1) = <<>> THEN {}
                              ELSE IF IsData(LineText(w, n + 1)) THEN DataSince(w, n) \cup {n + 1}
                              ELSE DataSince(w, n)
    BY DataGrows
  <2>3. EventEnds(w, n + 1) = IF LineText(w, n + 1) = <<>> /\ DataSince(w, n) # {}
                              THEN EventEnds(w, n) \cup {n + 1} ELSE EventEnds(w, n)
    BY DataGrows
  <2> HIDE DEF line
  <2> QED
    BY <1>2, <2>1, <2>2, <2>3
<1> DEFINE next == [r EXCEPT !.line = <<>>, !.started = TRUE]
<1> HIDE DEF line
<1>8. next \in ProviderState /\ next.line = <<>> /\ next.started = TRUE /\ next.data = s.data /\ next.out = s.out
      /\ next.hasData = s.hasData /\ next.failed = s.failed
  <2>1. <<>> \in Seq(Signs)
    OBVIOUS
  <2> HIDE DEF r
  <2> QED
    BY <1>4, <2>1 DEF ProviderState
<1>9. FinishLine(r) = IF line = <<>>
                      THEN [next EXCEPT !.size = 0, !.hasData = FALSE, !.data = <<>>,
                                        !.out = IF s.hasData THEN Append(next.out, s.data) ELSE next.out]
                      ELSE IF IsData(line) THEN [next EXCEPT !.data = Append(next.data, Tail(line)), !.hasData = TRUE]
                      ELSE next
  BY <1>4 DEF FinishLine, line, next
<1> HIDE DEF line, r, next, t
<1>10. CASE line = <<>>
  <2> DEFINE o == IF s.hasData THEN Append(s.out, s.data) ELSE s.out
  <2>1. o \in Seq(Seq(Seq(Signs)))
    <3>1. Append(s.out, s.data) \in Seq(Seq(Seq(Signs)))
      BY <1>1, AppendProperties DEF ProviderState
    <3> QED
      BY <1>1, <3>1 DEF ProviderState
  <2>2. <<>> \in Seq(Seq(Signs))
    OBVIOUS
  <2>3. FinishLine(r) = [next EXCEPT !.size = 0, !.hasData = FALSE, !.data = <<>>, !.out = o]
    BY <1>8, <1>9, <1>10
  <2>4. o = ProviderEvents(w, n + 1)
    <3>1. CASE s.hasData
      <4>1. DataEvents(w)[n + 1] = s.data
        <5>1. (n + 1) - 1 = n
          OBVIOUS
        <5> QED
          BY <1>1, <1>6, <5>1 DEF DataEvents, DataEvent
      <4>2. Each(DataEvents(w), EventEnds(w, n) \cup {n + 1}) = Append(Each(DataEvents(w), EventEnds(w, n)), DataEvents(w)[n + 1])
        <5> DEFINE S == EventEnds(w, n)
        <5>1. S \in SUBSET Nat /\ IsFiniteSet(S) /\ n + 1 \in Nat /\ \A i \in S : i < n + 1
          BY <1>7
        <5> HIDE DEF S
        <5>2. Each(DataEvents(w), S \cup {n + 1}) = Append(Each(DataEvents(w), S), DataEvents(w)[n + 1])
          BY <5>1, EachGrows
        <5> QED
          BY <5>2 DEF S
      <4> QED
        BY <1>1, <1>7, <1>10, <3>1, <4>1, <4>2 DEF ProviderEvents
    <3>2. CASE ~s.hasData
      BY <1>1, <1>7, <3>2 DEF ProviderEvents
    <3> QED
      BY <3>1, <3>2
  <2> HIDE DEF o
  <2>5. /\ FinishLine(r) \in ProviderState /\ FinishLine(r).line = <<>> /\ FinishLine(r).started = TRUE
        /\ FinishLine(r).data = <<>> /\ FinishLine(r).hasData = FALSE /\ FinishLine(r).out = o
    <3>1. next \in ProviderState /\ next.line = <<>> /\ next.started = TRUE
      BY <1>8
    <3> DEFINE none == <<>>
    <3>2. none \in Seq(Seq(Signs)) /\ FinishLine(r) = [next EXCEPT !.size = 0, !.hasData = FALSE, !.data = none, !.out = o]
      BY <2>2, <2>3
    <3> HIDE DEF none
    <3>3. /\ FinishLine(r) \in ProviderState /\ FinishLine(r).line = next.line /\ FinishLine(r).started = next.started
          /\ FinishLine(r).data = none /\ FinishLine(r).hasData = FALSE /\ FinishLine(r).out = o
      <4> DEFINE m == [next EXCEPT !.size = 0, !.hasData = FALSE]
      <4>1. m \in ProviderState /\ m.line = next.line /\ m.started = next.started /\ m.hasData = FALSE
        BY <3>1 DEF ProviderState
      <4>2. FinishLine(r) = [m EXCEPT !.data = none, !.out = o]
        BY <3>2
      <4> HIDE DEF m
      <4> QED
        BY <2>1, <3>2, <4>1, <4>2 DEF ProviderState
    <3> QED
      BY <3>1, <3>3 DEF none
  <2>6. t \in ProviderState /\ t.line = <<>> /\ t.started = TRUE /\ t.data = <<>> /\ t.hasData = FALSE
        /\ t.out = o /\ t.skip = (w[n + 1] = "CR")
    BY <2>5 DEF ProviderState, t
  <2>7. DataSince(w, n + 1) = {} /\ Each(Values(w), {}) = <<>>
    BY <1>7, <1>10, EachOfNone
  <2>8. ProviderOK(t, w, n + 1)
    BY <1>3, <1>6, <2>4, <2>6, <2>7 DEF ProviderOK
  <2> QED
    BY <2>8 DEF t, r
<1>11. CASE line # <<>> /\ IsData(line)
  <2> DEFINE d == Append(s.data, Tail(line))
  <2>1. d \in Seq(Seq(Signs))
    BY <1>1, <1>5, <1>11 DEF ProviderState
  <2>2. FinishLine(r) = [next EXCEPT !.data = d, !.hasData = TRUE]
    BY <1>8, <1>9, <1>11
  <2>3. d = Each(Values(w), DataSince(w, n + 1))
    <3>1. Values(w)[n + 1] = Tail(line)
      BY <1>2, <1>6 DEF Values
    <3>2. Each(Values(w), DataSince(w, n) \cup {n + 1}) = Append(Each(Values(w), DataSince(w, n)), Values(w)[n + 1])
      <4> DEFINE S == DataSince(w, n)
      <4>1. S \in SUBSET Nat /\ IsFiniteSet(S) /\ n + 1 \in Nat /\ \A i \in S : i < n + 1
        BY <1>7
      <4> HIDE DEF S
      <4>2. Each(Values(w), S \cup {n + 1}) = Append(Each(Values(w), S), Values(w)[n + 1])
        BY <4>1, EachGrows
      <4> QED
        BY <4>2 DEF S
    <3> QED
      BY <1>1, <1>7, <1>11, <3>1, <3>2
  <2> HIDE DEF d
  <2>4. /\ FinishLine(r) \in ProviderState /\ FinishLine(r).line = <<>> /\ FinishLine(r).started = TRUE
        /\ FinishLine(r).data = d /\ FinishLine(r).hasData = TRUE /\ FinishLine(r).out = s.out
    BY <1>8, <2>1, <2>2 DEF ProviderState
  <2>5. t \in ProviderState /\ t.line = <<>> /\ t.started = TRUE /\ t.data = d /\ t.hasData = TRUE
        /\ t.out = s.out /\ t.skip = (w[n + 1] = "CR")
    BY <2>4 DEF ProviderState, t
  <2>6. DataSince(w, n + 1) # {} /\ s.out = ProviderEvents(w, n + 1)
    BY <1>1, <1>7, <1>11 DEF ProviderEvents
  <2>7. ProviderOK(t, w, n + 1)
    BY <1>3, <1>6, <2>3, <2>5, <2>6 DEF ProviderOK
  <2> QED
    BY <2>7 DEF t, r
<1>12. CASE line # <<>> /\ ~IsData(line)
  <2>1. FinishLine(r) = next
    BY <1>9, <1>12
  <2>2. t \in ProviderState /\ t.line = <<>> /\ t.started = TRUE /\ t.data = s.data /\ t.hasData = s.hasData
        /\ t.out = s.out /\ t.skip = (w[n + 1] = "CR")
    BY <1>8, <2>1 DEF ProviderState, t
  <2>3. DataSince(w, n + 1) = DataSince(w, n) /\ s.out = ProviderEvents(w, n + 1)
    BY <1>1, <1>7, <1>12 DEF ProviderEvents
  <2>4. ProviderOK(t, w, n + 1)
    BY <1>1, <1>3, <1>6, <2>2, <2>3 DEF ProviderOK
  <2> QED
    BY <2>4 DEF t, r
<1> QED
  BY <1>10, <1>11, <1>12

LEMMA FeedByteKeeps ==
    ASSUME NEW w \in Seq(Signs), NEW n \in Nat, n < Len(w), NEW s, ProviderOK(s, w, n), ~s.failed
    PROVE  ProviderOK(FeedByte(s, w[n + 1]), w, n + 1)
<1> DEFINE b == w[n + 1]
           t == FeedByte(s, b)
           size == s.size + 1
           r == [s EXCEPT !.skip = FALSE, !.size = size]
<1>1. /\ s \in ProviderState /\ s.out = ProviderEvents(w, n) /\ s.line = Line(w, n + 1, Either)
      /\ s.data = Each(Values(w), DataSince(w, n)) /\ (s.hasData <=> DataSince(w, n) # {})
      /\ (s.started <=> Breaks(w, n, Either) # {}) /\ (s.skip <=> n > 0 /\ w[n] = "CR")
  BY DEF ProviderOK
<1>2. b \in Signs /\ n + 1 > 0 /\ (n + 1) + 1 = n + 2 /\ size \in Nat
  BY <1>1 DEF ProviderState
<1>3. r \in ProviderState /\ r.size = size /\ r.line = s.line
  BY <1>1, <1>2 DEF ProviderState
<1>4. LineEnds(w, n + 1) = IF b \in Either /\ ~(b = "LF" /\ s.skip) THEN LineEnds(w, n) \cup {n + 1} ELSE LineEnds(w, n)
  BY <1>1, EndsGrow
<1>5. LineEnds(w, n + 1) = LineEnds(w, n) =>
          DataSince(w, n + 1) = DataSince(w, n) /\ ProviderEvents(w, n + 1) = ProviderEvents(w, n)
  <2>1. LineEnds(w, n + 1) = LineEnds(w, n) =>
            DataSince(w, n + 1) = DataSince(w, n) /\ EventEnds(w, n + 1) = EventEnds(w, n)
    BY DataGrows
  <2> QED
    BY <2>1 DEF ProviderEvents
<1>6. CASE s.skip /\ b = "LF"
  <2>1. t = [s EXCEPT !.skip = FALSE]
    BY <1>6 DEF FeedByte
  <2>2. t \in ProviderState /\ t.skip = FALSE /\ t.line = s.line /\ t.data = s.data /\ t.hasData = s.hasData
        /\ t.started = s.started /\ t.out = s.out
    BY <1>1, <2>1 DEF ProviderState
  <2>3. s.line = <<>> /\ Breaks(w, n, Either) # {}
    <3> DEFINE k == n - 1
    <3>1. k + 1 = n /\ k + 2 = n + 1
      BY <1>1, <1>6
    <3>2. k \in Nat
      BY <1>1, <1>6
    <3>3. w[k + 1] \in Either
      BY <1>1, <1>6, <3>1 DEF Either
    <3> HIDE DEF k
    <3>4. Breaks(w, k + 1, Either) = Breaks(w, k, Either) \cup {k + 1} /\ Line(w, k + 2, Either) = <<>>
      BY <3>2, <3>3, BreakBegins
    <3> QED
      BY <1>1, <3>1, <3>4
  <2>4. b \in Either
    BY <1>6 DEF Either
  <2>5. Line(w, n + 2, Either) = <<>> /\ Breaks(w, n + 1, Either) # {}
    <3>1. Breaks(w, n + 1, Either) = Breaks(w, n, Either) \cup {n + 1} /\ Line(w, n + 2, Either) = <<>>
      BY <2>4, BreakBegins
    <3> QED
      BY <3>1
  <2>6. LineEnds(w, n + 1) = LineEnds(w, n) /\ ~(n + 1 > 0 /\ b = "CR")
    BY <1>4, <1>6
  <2> HIDE DEF t, r, size
  <2>7. ProviderOK(t, w, n + 1)
    BY <1>1, <1>2, <1>5, <2>2, <2>3, <2>5, <2>6 DEF ProviderOK
  <2> QED
    BY <2>7 DEF t
<1>7. CASE ~(s.skip /\ b = "LF") /\ size > MaxSize
  <2>1. t = [r EXCEPT !.failed = TRUE]
    BY <1>3, <1>7 DEF FeedByte
  <2> HIDE DEF r
  <2>2. t \in ProviderState /\ t.failed = TRUE
    BY <1>3, <2>1 DEF ProviderState
  <2> QED
    BY <2>2 DEF ProviderOK
<1>8. CASE ~(s.skip /\ b = "LF") /\ ~(size > MaxSize) /\ b \in Either
  <2>1. t = [FinishLine(r) EXCEPT !.skip = b = "CR"]
    BY <1>3, <1>7, <1>8 DEF FeedByte, Either
  <2>2. LineEnds(w, n + 1) = LineEnds(w, n) \cup {n + 1}
    BY <1>4, <1>8
  <2>3. ProviderOK([FinishLine([s EXCEPT !.skip = FALSE, !.size = size]) EXCEPT !.skip = w[n + 1] = "CR"], w, n + 1)
    <3> HIDE DEF size
    <3> QED
      BY <1>2, <1>8, <2>2, FinishLineKeeps
  <2> QED
    BY <2>1, <2>3
<1>9. CASE ~(s.skip /\ b = "LF") /\ ~(size > MaxSize) /\ b \notin Either
  <2>1. t = [r EXCEPT !.line = Append(r.line, b)]
    BY <1>3, <1>9 DEF FeedByte, Either
  <2>2. Append(s.line, b) \in Seq(Signs)
    BY <1>1, <1>2 DEF ProviderState
  <2>3. /\ t \in ProviderState /\ t.line = Append(s.line, b) /\ t.data = s.data /\ t.hasData = s.hasData
        /\ t.started = s.started /\ t.out = s.out /\ t.skip = FALSE
    <3>1. r \in ProviderState /\ r.data = s.data /\ r.hasData = s.hasData /\ r.started = s.started /\ r.out = s.out /\ r.skip = FALSE
      BY <1>1, <1>3 DEF ProviderState
    <3> HIDE DEF r
    <3> QED
      BY <1>3, <2>1, <2>2, <3>1 DEF ProviderState
  <2>4. Line(w, n + 2, Either) = Append(Line(w, n + 1, Either), b) /\ Breaks(w, n + 1, Either) = Breaks(w, n, Either)
    BY <1>9, LineGoesOn
  <2>5. LineEnds(w, n + 1) = LineEnds(w, n) /\ ~(n + 1 > 0 /\ b = "CR")
    BY <1>4, <1>9 DEF Either
  <2> HIDE DEF t, r, size
  <2>6. ProviderOK(t, w, n + 1)
    BY <1>1, <1>2, <1>5, <2>3, <2>4, <2>5 DEF ProviderOK
  <2> QED
    BY <2>6 DEF t
<1> QED
  BY <1>6, <1>7, <1>8, <1>9

-----------------------------------------------------------------------------
\* The page's events.

PageState == [held : BOOLEAN, part : Seq(Signs), out : Seq({Trimmed(line) : line \in Seq(Signs)}), failed : {FALSE}]

\* Of the first n bytes of w the events are out, up to the last, and the whole
\* characters of the line begun are its part.
PageOK(s, w, n) ==
    /\ s \in PageState
    /\ s.held <=> n > 0 /\ w[n] = "lead"
    /\ s.part = Each(Chars(w), CharEnds(w, LineBegin(w, n + 1, {"LF"}), IF s.held THEN n - 1 ELSE n))
    /\ s.out = PageEvents(w, n)
    /\ Over(s.out) <=> \E j \in Breaks(w, n, {"LF"}) : IsLast(w, j)

LEMMA CharEndsGrow ==
    ASSUME NEW w, NEW n \in Nat, NEW from \in 1..(n + 1)
    PROVE  /\ CharEnds(w, from, n) \in SUBSET (1..n) /\ IsFiniteSet(CharEnds(w, from, n))
           /\ CharEnds(w, from, n + 1) = IF w[n + 1] = "lead" /\ w[n + 2] = "tail"
                                         THEN CharEnds(w, from, n) ELSE CharEnds(w, from, n) \cup {n + 1}
<1> DEFINE Waits(i) == w[i] = "lead" /\ w[i + 1] = "tail"
<1>1. /\ CharEnds(w, from, n) = {i \in from..n : ~Waits(i)}
      /\ CharEnds(w, from, n + 1) = {i \in from..(n + 1) : ~Waits(i)}
  BY DEF CharEnds
<1>2. Waits(n + 1) <=> w[n + 1] = "lead" /\ w[n + 2] = "tail"
  <2>1. (n + 1) + 1 = n + 2
    OBVIOUS
  <2> QED
    BY <2>1
<1> HIDE DEF Waits
<1>3. CharEnds(w, from, n) \in SUBSET (1..n)
  BY <1>1
<1>4. IsFiniteSet(CharEnds(w, from, n))
  <2>1. IsFiniteSet(1..n)
    BY FS_Interval
  <2> QED
    BY <1>3, <2>1, FS_Subset
<1>5. from..(n + 1) = (from..n) \cup {n + 1}
  OBVIOUS
<1>6. CharEnds(w, from, n + 1) = IF Waits(n + 1) THEN CharEnds(w, from, n) ELSE CharEnds(w, from, n) \cup {n + 1}
  BY <1>1, <1>5
<1> QED
  BY <1>2, <1>3, <1>4, <1>6

\* A character goes on with the part of its line.
LEMMA CharGoesOn ==
    ASSUME NEW s, s \in PageState, NEW char \in Signs, char # "LF"
    PROVE  /\ TakeChar(s, char) \in PageState /\ TakeChar(s, char).part = Append(s.part, char)
           /\ TakeChar(s, char).out = s.out /\ TakeChar(s, char).held = s.held
<1>1. TakeChar(s, char) = [s EXCEPT !.part = Append(s.part, char)]
  BY DEF TakeChar
<1>2. Append(s.part, char) \in Seq(Signs)
  BY DEF PageState
<1> QED
  BY <1>1, <1>2 DEF PageState

\* Once the byte after it is known, the character that waited is whole or cut.
LEMMA HeldIsSettled ==
    ASSUME NEW w \in Seq(Signs), NEW n \in Nat, n < Len(w), NEW s, PageOK(s, w, n)
    PROVE  LET t == IF s.held /\ w[n + 1] # "tail" THEN TakeChar(s, "?") ELSE s IN
           /\ t \in PageState /\ t.out = s.out
           /\ t.part = Each(Chars(w), CharEnds(w, LineBegin(w, n + 1, {"LF"}), n))
<1> DEFINE from == LineBegin(w, n + 1, {"LF"})
           t == IF s.held /\ w[n + 1] # "tail" THEN TakeChar(s, "?") ELSE s
<1>1. s \in PageState /\ (s.held <=> n > 0 /\ w[n] = "lead")
      /\ s.part = Each(Chars(w), CharEnds(w, from, IF s.held THEN n - 1 ELSE n))
  BY DEF PageOK
<1>2. CASE ~s.held
  BY <1>1, <1>2
<1>3. CASE s.held
  <2>1. n - 1 \in Nat /\ n - 1 < Len(w) /\ (n - 1) + 1 = n /\ (n - 1) + 2 = n + 1 /\ n \in DOMAIN w
        /\ w[n] = "lead" /\ w[n] \notin {"LF"}
    BY <1>1, <1>3
  <2>2. from \in 1..n
    <3> DEFINE k == n - 1
               lf == {"LF"}
    <3>1. k \in Nat /\ k < Len(w) /\ k + 1 = n /\ k + 2 = n + 1
      BY <2>1
    <3>2. w[k + 1] \notin lf
      BY <2>1, <3>1
    <3> HIDE DEF k, lf
    <3>3. LineBegin(w, k + 2, lf) = LineBegin(w, k + 1, lf)
      BY <3>1, <3>2, LineGoesOn
    <3>4. LineBegin(w, k + 1, lf) \in 1..(k + 1)
      BY <3>1, LineTyped
    <3> QED
      BY <3>1, <3>3, <3>4 DEF lf
  <2> HIDE DEF from
  <2>3. /\ CharEnds(w, from, n - 1) \in SUBSET (1..(n - 1)) /\ IsFiniteSet(CharEnds(w, from, n - 1))
        /\ CharEnds(w, from, n) = IF w[n + 1] = "tail" THEN CharEnds(w, from, n - 1) ELSE CharEnds(w, from, n - 1) \cup {n}
    <3>1. from \in 1..((n - 1) + 1)
      BY <2>1, <2>2
    <3>2. CharEnds(w, from, (n - 1) + 1) = IF w[(n - 1) + 1] = "lead" /\ w[(n - 1) + 2] = "tail"
                                           THEN CharEnds(w, from, n - 1) ELSE CharEnds(w, from, n - 1) \cup {(n - 1) + 1}
      BY <2>1, <3>1, CharEndsGrow
    <3>3. CharEnds(w, from, n - 1) \in SUBSET (1..(n - 1)) /\ IsFiniteSet(CharEnds(w, from, n - 1))
      BY <2>1, <3>1, CharEndsGrow
    <3> QED
      BY <2>1, <3>2, <3>3
  <2>4. s.part = Each(Chars(w), CharEnds(w, from, n - 1))
    BY <1>1, <1>3
  <2>5. CASE w[n + 1] = "tail"
    BY <1>1, <2>3, <2>4, <2>5 DEF from
  <2>6. CASE w[n + 1] # "tail"
    <3>1. t = TakeChar(s, "?")
      BY <1>3, <2>6
    <3>2. t \in PageState /\ t.out = s.out /\ t.part = Append(s.part, "?")
      <4>1. "?" \in Signs /\ "?" # "LF"
        BY DEF Signs
      <4>2. TakeChar(s, "?") \in PageState /\ TakeChar(s, "?").out = s.out /\ TakeChar(s, "?").part = Append(s.part, "?")
        BY <1>1, <4>1, CharGoesOn
      <4> HIDE DEF t
      <4> QED
        BY <3>1, <4>2
    <3>3. Chars(w)[n] = "?"
      BY <2>1 DEF Chars
    <3>4. Each(Chars(w), CharEnds(w, from, n - 1) \cup {n}) = Append(Each(Chars(w), CharEnds(w, from, n - 1)), Chars(w)[n])
      <4>1. CharEnds(w, from, n - 1) \in SUBSET Nat /\ \A i \in CharEnds(w, from, n - 1) : i < n
        BY <2>1, <2>3
      <4> QED
        BY <2>3, <4>1, EachGrows
    <3>5. t.part = Each(Chars(w), CharEnds(w, from, n))
      BY <2>3, <2>4, <2>6, <3>2, <3>3, <3>4
    <3> HIDE DEF t
    <3>6. t \in PageState /\ t.out = s.out /\ t.part = Each(Chars(w), CharEnds(w, LineBegin(w, n + 1, {"LF"}), n))
      BY <3>2, <3>5 DEF from
    <3> QED
      BY <3>6 DEF t
  <2> QED
    BY <2>5, <2>6
<1> QED
  BY <1>2, <1>3

\* At a newline the line's event is out, unless the last was before.
LEMMA PageLineEnds ==
    ASSUME NEW w \in Seq(Signs), NEW n \in Nat, n < Len(w), w[n + 1] = "LF",
           NEW s, s \in PageState, s.out = PageEvents(w, n),
           Over(s.out) <=> \E j \in Breaks(w, n, {"LF"}) : IsLast(w, j),
           s.part = Each(Chars(w), CharEnds(w, LineBegin(w, n + 1, {"LF"}), n))
    PROVE  LET t == TakeChar(s, "LF") IN
           /\ t \in PageState /\ t.part = <<>> /\ t.out = PageEvents(w, n + 1)
           /\ Over(t.out) <=> \E j \in Breaks(w, n + 1, {"LF"}) : IsLast(w, j)
<1> DEFINE t == TakeChar(s, "LF")
           B == Breaks(w, n, {"LF"})
           line == Trimmed(s.part)
           gives == ~Over(s.out) /\ IsEvent(line)
           out == IF gives THEN Append(s.out, line) ELSE s.out
<1>1. line = PageLine(w, n + 1)
  <2>1. (n + 1) - 1 = n
    OBVIOUS
  <2> QED
    BY <2>1 DEF PageLine
<1>2. Breaks(w, n + 1, {"LF"}) = B \cup {n + 1}
  BY BreakBegins
<1>3. B \in SUBSET (1..n) /\ IsFiniteSet(B)
  BY LineTyped
<1>4. PageEnding(w, n) \in SUBSET (1..n) /\ IsFiniteSet(PageEnding(w, n))
  <2>1. PageEnding(w, n) \subseteq B
    BY DEF PageEnding
  <2> QED
    BY <1>3, <2>1, FS_Subset
<1>5. PageEnding(w, n + 1) = IF gives THEN PageEnding(w, n) \cup {n + 1} ELSE PageEnding(w, n)
  <2> DEFINE Gives(i) == IsEvent(PageLine(w, i)) /\ \A j \in Breaks(w, i - 1, {"LF"}) : ~IsLast(w, j)
  <2>1. /\ PageEnding(w, n) = {i \in B : Gives(i)}
        /\ PageEnding(w, n + 1) = {i \in B \cup {n + 1} : Gives(i)}
    BY <1>2 DEF PageEnding
  <2>2. Gives(n + 1) <=> gives
    <3>1. (n + 1) - 1 = n
      OBVIOUS
    <3> QED
      BY <1>1, <3>1
  <2> HIDE DEF Gives, gives
  <2> QED
    BY <2>1, <2>2
<1>6. out = PageEvents(w, n + 1)
  <2>1. PageLines(w)[n + 1] = line
    <3>1. n + 1 \in DOMAIN w
      OBVIOUS
    <3> QED
      BY <1>1, <3>1 DEF PageLines
  <2>2. Each(PageLines(w), PageEnding(w, n) \cup {n + 1}) = Append(Each(PageLines(w), PageEnding(w, n)), PageLines(w)[n + 1])
    <3>1. PageEnding(w, n) \in SUBSET Nat /\ n + 1 \in Nat /\ \A i \in PageEnding(w, n) : i < n + 1
      BY <1>4
    <3> QED
      BY <1>4, <3>1, EachGrows
  <2> HIDE DEF line, gives
  <2> QED
    BY <1>5, <2>1, <2>2 DEF PageEvents
<1>7. t = [s EXCEPT !.part = <<>>, !.out = out]
  BY DEF TakeChar
<1>8. line \in {Trimmed(l) : l \in Seq(Signs)}
  BY DEF PageState
<1>9. out \in Seq({Trimmed(l) : l \in Seq(Signs)})
  <2> DEFINE L == {Trimmed(l) : l \in Seq(Signs)}
  <2>1. line \in L /\ s.out \in Seq(L)
    BY <1>8 DEF PageState
  <2> HIDE DEF L, line, gives
  <2>2. out \in Seq(L)
    BY <2>1
  <2> QED
    BY <2>2 DEF L
<1>10. Over(out) <=> \E j \in Breaks(w, n + 1, {"LF"}) : IsLast(w, j)
  <2>1. IsLast(w, n + 1) <=> IsEvent(line) /\ IsFinal(line)
    BY <1>1 DEF IsLast
  <2>2. CASE gives
    <3>1. out = Append(s.out, line) /\ out # <<>> /\ out[Len(out)] = line
      <4> DEFINE L == {Trimmed(l) : l \in Seq(Signs)}
      <4>1. line \in L /\ s.out \in Seq(L)
        BY <1>8 DEF PageState
      <4>2. out = Append(s.out, line)
        BY <2>2
      <4> HIDE DEF L, line, gives, out
      <4> QED
        BY <4>1, <4>2, AppendProperties
    <3>2. Over(out) <=> IsFinal(line)
      BY <3>1 DEF Over
    <3>3. \A j \in B : ~IsLast(w, j)
      BY <2>2
    <3>4. IsEvent(line)
      BY <2>2
    <3> HIDE DEF line, out, B
    <3> QED
      BY <1>2, <2>1, <3>2, <3>3, <3>4
  <2>3. CASE ~gives
    <3>1. out = s.out
      BY <2>3
    <3>2. IsEvent(line) => Over(s.out)
      BY <2>3
    <3> HIDE DEF line, out
    <3> QED
      BY <1>2, <2>1, <3>1, <3>2
  <2> QED
    BY <2>2, <2>3
<1>11. t \in PageState /\ t.part = <<>> /\ t.out = out
  <2> DEFINE none == <<>>
  <2>1. none \in Seq(Signs) /\ t = [s EXCEPT !.part = none, !.out = out]
    BY <1>7
  <2> HIDE DEF out, t, none
  <2>2. t \in PageState /\ t.part = none /\ t.out = out
    BY <1>9, <2>1 DEF PageState
  <2> QED
    BY <2>2 DEF none
<1> HIDE DEF t, out
<1>12. t \in PageState /\ t.part = <<>> /\ t.out = PageEvents(w, n + 1)
       /\ (Over(t.out) <=> \E j \in Breaks(w, n + 1, {"LF"}) : IsLast(w, j))
  BY <1>6, <1>10, <1>11
<1> QED
  BY <1>12 DEF t

LEMMA PageByteKeeps ==
    ASSUME NEW w \in Seq(Signs), NEW n \in Nat, n < Len(w), NEW s, PageOK(s, w, n)
    PROVE  PageOK(PageByte(s, w[n + 1]), w, n + 1)
<1> DEFINE b == w[n + 1]
           from == LineBegin(w, n + 1, {"LF"})
           t == IF s.held /\ b # "tail" THEN TakeChar(s, "?") ELSE s
           r == PageByte(s, b)
<1>1. t \in PageState /\ t.out = s.out /\ t.part = Each(Chars(w), CharEnds(w, from, n))
  BY HeldIsSettled
<1>2. s \in PageState /\ (s.held <=> n > 0 /\ w[n] = "lead") /\ s.out = PageEvents(w, n)
      /\ (Over(s.out) <=> \E j \in Breaks(w, n, {"LF"}) : IsLast(w, j))
  BY DEF PageOK
<1>3. b \in Signs /\ n + 1 \in DOMAIN w /\ n + 1 > 0 /\ (n + 1) + 1 = n + 2 /\ (n + 1) - 1 = n
  OBVIOUS
<1>4. r = IF b = "lead" THEN [t EXCEPT !.held = TRUE] ELSE [TakeChar(t, CharOf(s.held, b)) EXCEPT !.held = FALSE]
  BY DEF PageByte
<1>5. b # "LF" => /\ LineBegin(w, n + 2, {"LF"}) = from /\ Breaks(w, n + 1, {"LF"}) = Breaks(w, n, {"LF"})
                  /\ PageEvents(w, n + 1) = PageEvents(w, n)
  <2>1. b # "LF" => LineBegin(w, n + 2, {"LF"}) = from /\ Breaks(w, n + 1, {"LF"}) = Breaks(w, n, {"LF"})
    BY LineGoesOn
  <2> QED
    BY <2>1 DEF PageEvents, PageEnding
<1>6. CharEnds(w, from, n) \in SUBSET (1..n) /\ IsFiniteSet(CharEnds(w, from, n))
      /\ (b # "lead" => CharEnds(w, from, n + 1) = CharEnds(w, from, n) \cup {n + 1})
  <2>1. from \in 1..(n + 1)
    BY LineTyped
  <2> HIDE DEF from
  <2> QED
    BY <2>1, CharEndsGrow
<1>7. b # "lead" => Chars(w)[n + 1] = CharOf(s.held, b)
  <2>1. n + 1 > 1 <=> n > 0
    OBVIOUS
  <2>2. b # "lead" => Chars(w)[n + 1] = CharOf(n + 1 > 1 /\ w[(n + 1) - 1] = "lead", b)
    BY <1>3 DEF Chars
  <2>3. (n + 1 > 1 /\ w[(n + 1) - 1] = "lead") = s.held
    BY <1>2, <1>3, <2>1 DEF PageState
  <2> QED
    BY <2>2, <2>3
<1> HIDE DEF t
<1>8. CASE b = "lead"
  <2>1. r \in PageState /\ r.held = TRUE /\ r.part = t.part /\ r.out = s.out
    BY <1>1, <1>4, <1>8 DEF PageState
  <2> HIDE DEF r, from
  <2>2. PageOK(r, w, n + 1)
    <3>1. r.part = Each(Chars(w), CharEnds(w, LineBegin(w, (n + 1) + 1, {"LF"}), IF r.held THEN (n + 1) - 1 ELSE n + 1))
      BY <1>1, <1>3, <1>5, <1>8, <2>1
    <3> QED
      BY <1>2, <1>3, <1>5, <1>8, <2>1, <3>1 DEF PageOK
  <2> QED
    BY <2>2 DEF r
<1>9. CASE b = "LF"
  <2> DEFINE u == TakeChar(t, "LF")
  <2>1. u \in PageState /\ u.part = <<>> /\ u.out = PageEvents(w, n + 1)
        /\ (Over(u.out) <=> \E j \in Breaks(w, n + 1, {"LF"}) : IsLast(w, j))
    BY <1>1, <1>2, <1>9, PageLineEnds
  <2>2. r = [u EXCEPT !.held = FALSE]
    BY <1>4, <1>9 DEF CharOf
  <2> HIDE DEF u, r, from
  <2>3. r \in PageState /\ r.held = FALSE /\ r.part = <<>> /\ r.out = u.out
    BY <2>1, <2>2 DEF PageState
  <2>4. Each(Chars(w), CharEnds(w, LineBegin(w, (n + 1) + 1, {"LF"}), n + 1)) = <<>>
    <3>1. LineBegin(w, n + 2, {"LF"}) = n + 2
      BY <1>9, BreakBegins
    <3>2. CharEnds(w, n + 2, n + 1) = {}
      BY DEF CharEnds
    <3> QED
      BY <1>3, <3>1, <3>2, EachOfNone
  <2>5. PageOK(r, w, n + 1)
    BY <1>9, <2>1, <2>3, <2>4 DEF PageOK
  <2> QED
    BY <2>5 DEF r
<1>10. CASE b # "lead" /\ b # "LF"
  <2> DEFINE char == CharOf(s.held, b)
             u == TakeChar(t, char)
  <2>1. char \in Signs /\ char # "LF"
    BY <1>3, <1>10 DEF CharOf, Signs
  <2>2. r = [u EXCEPT !.held = FALSE]
    BY <1>4, <1>10
  <2>3. Each(Chars(w), CharEnds(w, from, n + 1)) = Append(t.part, char)
    <3>1. CharEnds(w, from, n) \in SUBSET Nat /\ n + 1 \in Nat /\ \A i \in CharEnds(w, from, n) : i < n + 1
      BY <1>6
    <3>2. Each(Chars(w), CharEnds(w, from, n) \cup {n + 1}) = Append(Each(Chars(w), CharEnds(w, from, n)), Chars(w)[n + 1])
      BY <1>6, <3>1, EachGrows
    <3> HIDE DEF char
    <3> QED
      BY <1>1, <1>6, <1>7, <1>10, <3>2 DEF char
  <2> HIDE DEF char
  <2>4. u \in PageState /\ u.part = Append(t.part, char) /\ u.out = t.out
    BY <1>1, <2>1, CharGoesOn
  <2> HIDE DEF u, r, from
  <2>5. r \in PageState /\ r.held = FALSE /\ r.part = u.part /\ r.out = u.out
    BY <2>2, <2>4 DEF PageState
  <2>6. r.part = Each(Chars(w), CharEnds(w, LineBegin(w, (n + 1) + 1, {"LF"}), IF r.held THEN (n + 1) - 1 ELSE n + 1))
    BY <1>3, <1>5, <1>10, <2>3, <2>4, <2>5
  <2>7. PageOK(r, w, n + 1)
    BY <1>1, <1>2, <1>3, <1>5, <1>10, <2>4, <2>5, <2>6 DEF PageOK
  <2> QED
    BY <2>7 DEF r
<1> QED
  BY <1>8, <1>9, <1>10

-----------------------------------------------------------------------------
\* An event stream.

EventsState == [event : Nat, size : Nat, comment : BOOLEAN, afterCr : BOOLEAN, line : Seq(Signs), out : Seq(Signs),
                failed : BOOLEAN]

\* What of w was passed on: whole lines with their chunk, then all of it, or what
\* came before the line refused.
EventsOK(s, w, n, chunk, ended) ==
    /\ s \in EventsState
    /\ IF s.failed THEN s.out = SubSeq(w, 1, LastOf(Breaks(w, n - 1, Either))) \o TooLarge
       ELSE IF ended THEN s.out = SubSeq(w, 1, n)
       ELSE LET m == LastOf(Breaks(w, n - chunk, Either)) IN
            s.out = SubSeq(w, 1, m) /\ s.line = SubSeq(w, m + 1, n)

LEMMA SizeTyped ==
    ASSUME NEW s, s \in EventsState, NEW byte
    PROVE  LET t == SizeByte(s, byte) IN
           t \in EventsState /\ t.line = s.line /\ t.out = s.out /\ t.failed = s.failed
<1> DEFINE t == SizeByte(s, byte)
<1>1. CASE s.afterCr /\ byte = "LF"
  BY <1>1 DEF SizeByte, EventsState
<1>2. CASE ~(s.afterCr /\ byte = "LF") /\ byte \in {"CR", "LF"}
  <2> DEFINE event == IF s.size = 0 THEN 0 ELSE IF s.comment THEN s.event ELSE s.event + s.size + 1
             cr == byte = "CR"
  <2>1. t = [s EXCEPT !.event = event, !.size = 0, !.comment = FALSE, !.afterCr = cr]
    BY <1>2 DEF SizeByte
  <2>2. event \in Nat /\ cr \in BOOLEAN
    <3>1. s.size \in Nat /\ s.event \in Nat
      BY DEF EventsState
    <3> QED
      BY <3>1
  <2> HIDE DEF event, cr
  <2> DEFINE u == [s EXCEPT !.event = event, !.size = 0]
  <2>3. u \in EventsState /\ u.line = s.line /\ u.out = s.out /\ u.failed = s.failed
    BY <2>2 DEF EventsState
  <2>4. t = [u EXCEPT !.comment = FALSE, !.afterCr = cr]
    BY <2>1
  <2> HIDE DEF u, t
  <2>5. t \in EventsState /\ t.line = s.line /\ t.out = s.out /\ t.failed = s.failed
    BY <2>2, <2>3, <2>4 DEF EventsState
  <2> QED
    BY <2>5 DEF t
<1>3. CASE ~(s.afterCr /\ byte = "LF") /\ byte \notin {"CR", "LF"}
  <2> DEFINE comment == IF s.size = 0 THEN byte = ":" ELSE s.comment
             size == s.size + 1
  <2>1. t = [s EXCEPT !.comment = comment, !.size = size, !.afterCr = FALSE]
    BY <1>3 DEF SizeByte
  <2>2. comment \in BOOLEAN /\ size \in Nat
    <3>1. s.size \in Nat /\ s.comment \in BOOLEAN
      BY DEF EventsState
    <3>2. comment \in BOOLEAN
      BY <3>1, Zenon
    <3> QED
      BY <3>1, <3>2
  <2> HIDE DEF comment, size
  <2> QED
    BY <2>1, <2>2 DEF EventsState
<1> QED
  BY <1>1, <1>2, <1>3

\* What is up to a place of a sequence.
LEMMA Beginning ==
    ASSUME NEW R, NEW w \in Seq(R), NEW d \in 0..Len(w)
    PROVE  /\ SubSeq(w, 1, d) \in Seq(R) /\ Len(SubSeq(w, 1, d)) = d
           /\ \A i \in 1..d : SubSeq(w, 1, d)[i] = w[i]
<1>0. d \in Int /\ 1 \in Int /\ \A i \in 1..d : w[i] \in R
  OBVIOUS
<1>1. /\ SubSeq(w, 1, d) \in Seq(R)
      /\ Len(SubSeq(w, 1, d)) = IF 1 <= d THEN d - 1 + 1 ELSE 0
      /\ \A i \in 1..(d - 1 + 1) : SubSeq(w, 1, d)[i] = w[1 + i - 1]
  BY <1>0, SubSeqProperties
<1>2. d - 1 + 1 = d /\ (IF 1 <= d THEN d - 1 + 1 ELSE 0) = d /\ \A i \in 1..d : 1 + i - 1 = i
  OBVIOUS
<1> QED
  BY <1>1, <1>2

\* What is between two places of a sequence.
LEMMA Between ==
    ASSUME NEW R, NEW w \in Seq(R), NEW b \in 0..Len(w), NEW a \in 0..b
    PROVE  /\ SubSeq(w, a + 1, b) \in Seq(R) /\ Len(SubSeq(w, a + 1, b)) = b - a
           /\ \A i \in 1..(b - a) : SubSeq(w, a + 1, b)[i] = w[a + i]
<1> DEFINE from == a + 1
<1>1. /\ a \in Int /\ b \in Int /\ from \in Int /\ b - from + 1 = b - a
      /\ (IF from <= b THEN b - from + 1 ELSE 0) = b - a
      /\ \A i \in 1..(b - a) : from + i - 1 = a + i
  OBVIOUS
<1>2. \A i \in from..b : w[i] \in R
  OBVIOUS
<1> HIDE DEF from
<1>3. /\ SubSeq(w, from, b) \in Seq(R)
      /\ Len(SubSeq(w, from, b)) = IF from <= b THEN b - from + 1 ELSE 0
      /\ \A i \in 1..(b - from + 1) : SubSeq(w, from, b)[i] = w[from + i - 1]
  BY <1>1, <1>2, SubSeqProperties
<1> QED
  BY <1>1, <1>3 DEF from

\* A line is what follows a break, or the beginning, up to n.
Follows(w, m, n, line) == m \in 0..n /\ (m > 0 => w[m] \in Either) /\ line = SubSeq(w, m + 1, n)

\* The whole lines of what follows a break reach to the last break.
LEMMA WholeToTheLast ==
    ASSUME NEW w \in Seq(Signs), NEW n \in 0..Len(w), NEW m, NEW line, Follows(w, m, n, line)
    PROVE  LET p == LastOf(Breaks(w, n, Either)) IN
           /\ p \in m..n /\ line \in Seq(Signs)
           /\ WholeLines(line) = SubSeq(w, m + 1, p)
           /\ SubSeq(line, Len(WholeLines(line)) + 1, Len(line)) = SubSeq(w, p + 1, n)
<1> DEFINE p == LastOf(Breaks(w, n, Either))
           E == {i \in DOMAIN line : line[i] \in {"CR", "LF"}}
           d == LastOf(E)
<1>0. m \in 0..n /\ (m > 0 => w[m] \in Either) /\ line = SubSeq(w, m + 1, n)
  BY DEF Follows
<1>1. m \in Nat /\ n \in Nat /\ m <= n /\ n - m \in Nat /\ n <= Len(w) /\ \A i \in 1..Len(w) : w[i] \in Signs
  BY <1>0
<1>2. line \in Seq(Signs) /\ Len(line) = n - m /\ DOMAIN line = 1..(n - m) /\ \A i \in 1..(n - m) : line[i] = w[m + i]
  <2>1. /\ SubSeq(w, m + 1, n) \in Seq(Signs) /\ Len(SubSeq(w, m + 1, n)) = n - m
        /\ \A i \in 1..(n - m) : SubSeq(w, m + 1, n)[i] = w[m + i]
    BY <1>0, Between
  <2> QED
    BY <1>0, <1>1, <2>1
<1>3. E \in SUBSET (1..(n - m)) /\ \A i \in 1..(n - m) : i \in E <=> w[m + i] \in Either
  BY <1>2 DEF Either
<1> HIDE DEF E
<1>4. d \in 0..(n - m) /\ (d > 0 => d \in E) /\ \A i \in E : i <= d
  BY <1>1, <1>3, LastIsLast
<1>5. \A j \in Breaks(w, n, Either) : j <= m + d
  <2>1. SUFFICES ASSUME NEW j \in Breaks(w, n, Either), j > m PROVE j <= m + d
    BY <1>1, <1>4 DEF Breaks
  <2>2. j \in 1..n /\ w[j] \in Either
    BY DEF Breaks
  <2>3. j - m \in 1..(n - m) /\ m + (j - m) = j
    BY <1>1, <2>1, <2>2
  <2>4. j - m \in E
    BY <1>3, <2>2, <2>3
  <2> QED
    BY <1>1, <1>4, <2>2, <2>4
<1>6. p = m + d
  <2>1. CASE m + d > 0
    <3>1. m + d \in 1..n
      BY <1>1, <1>4, <2>1
    <3>2. w[m + d] \in Either
      <4>1. CASE d > 0
        BY <1>3, <1>4, <4>1
      <4>2. CASE d = 0
        <5>1. m + d = m /\ m > 0
          BY <1>1, <2>1, <4>2
        <5> QED
          BY <1>0, <5>1
      <4> QED
        BY <1>4, <4>1, <4>2
    <3>3. m + d \in Breaks(w, n, Either)
      BY <3>1, <3>2 DEF Breaks
    <3>4. Breaks(w, n, Either) \in SUBSET Nat
      BY DEF Breaks
    <3> HIDE DEF d
    <3> QED
      BY <1>5, <3>3, <3>4, TheLast
  <2>2. CASE m + d = 0
    <3>1. Breaks(w, n, Either) = {}
      <4>1. \A j \in Breaks(w, n, Either) : j \in Nat /\ j > 0
        BY DEF Breaks
      <4> QED
        BY <1>5, <2>2, <4>1
    <3> QED
      BY <2>2, <3>1 DEF LastOf
  <2> QED
    BY <1>1, <1>4, <2>1, <2>2
<1>7. p \in m..n
  BY <1>1, <1>4, <1>6
<1> HIDE DEF d, p
<1>8. WholeLines(line) = SubSeq(w, m + 1, p) /\ Len(WholeLines(line)) = d
  <2>1. WholeLines(line) = SubSeq(line, 1, d)
    BY DEF WholeLines, d, E
  <2>2. /\ SubSeq(line, 1, d) \in Seq(Signs) /\ Len(SubSeq(line, 1, d)) = d
        /\ \A i \in 1..d : SubSeq(line, 1, d)[i] = line[i]
    <3>1. line \in Seq(Signs) /\ d \in 0..Len(line)
      BY <1>1, <1>2, <1>4
    <3> QED
      BY <3>1, Beginning
  <2>3. /\ SubSeq(w, m + 1, p) \in Seq(Signs) /\ Len(SubSeq(w, m + 1, p)) = d
        /\ \A i \in 1..d : SubSeq(w, m + 1, p)[i] = w[m + i]
    <3>1. p \in 0..Len(w) /\ m \in 0..p /\ p - m = d
      BY <1>1, <1>4, <1>6, <1>7
    <3>2. /\ SubSeq(w, m + 1, p) \in Seq(Signs) /\ Len(SubSeq(w, m + 1, p)) = p - m
          /\ \A i \in 1..(p - m) : SubSeq(w, m + 1, p)[i] = w[m + i]
      BY <3>1, Between
    <3> QED
      BY <3>1, <3>2
  <2>4. \A i \in 1..d : SubSeq(line, 1, d)[i] = SubSeq(w, m + 1, p)[i]
    <3>1. \A i \in 1..d : i \in 1..(n - m)
      BY <1>1, <1>4
    <3> QED
      BY <1>2, <2>2, <2>3, <3>1
  <2>5. SubSeq(line, 1, d) = SubSeq(w, m + 1, p)
    BY <2>2, <2>3, <2>4, SeqEqual
  <2> QED
    BY <2>1, <2>2, <2>5
<1>9. SubSeq(line, d + 1, n - m) = SubSeq(w, p + 1, n)
  <2> DEFINE k == n - p
  <2>1. k = n - m - d /\ k \in Nat
    BY <1>1, <1>4, <1>6
  <2>2. /\ SubSeq(line, d + 1, n - m) \in Seq(Signs) /\ Len(SubSeq(line, d + 1, n - m)) = k
        /\ \A i \in 1..k : SubSeq(line, d + 1, n - m)[i] = line[d + i]
    <3> DEFINE b == n - m
    <3>1. b \in 0..Len(line) /\ d \in 0..b /\ b - d = k
      BY <1>1, <1>2, <1>4, <2>1
    <3>2. line \in Seq(Signs)
      BY <1>2
    <3> HIDE DEF b, k
    <3>3. /\ SubSeq(line, d + 1, b) \in Seq(Signs) /\ Len(SubSeq(line, d + 1, b)) = b - d
          /\ \A i \in 1..(b - d) : SubSeq(line, d + 1, b)[i] = line[d + i]
      BY <3>1, <3>2, Between
    <3> QED
      BY <3>1, <3>3 DEF b
  <2>3. /\ SubSeq(w, p + 1, n) \in Seq(Signs) /\ Len(SubSeq(w, p + 1, n)) = k
        /\ \A i \in 1..k : SubSeq(w, p + 1, n)[i] = w[p + i]
    <3>1. p \in 0..n
      BY <1>1, <1>7
    <3>2. /\ SubSeq(w, p + 1, n) \in Seq(Signs) /\ Len(SubSeq(w, p + 1, n)) = n - p
          /\ \A i \in 1..(n - p) : SubSeq(w, p + 1, n)[i] = w[p + i]
      BY <3>1, Between
    <3> QED
      BY <3>2
  <2>4. \A i \in 1..k : d + i \in 1..(n - m) /\ m + (d + i) = p + i
    BY <1>1, <1>4, <1>6, <2>1
  <2>5. \A i \in 1..k : SubSeq(line, d + 1, n - m)[i] = SubSeq(w, p + 1, n)[i]
    <3>1. SUFFICES ASSUME NEW i \in 1..k PROVE SubSeq(line, d + 1, n - m)[i] = SubSeq(w, p + 1, n)[i]
      OBVIOUS
    <3>2. SubSeq(line, d + 1, n - m)[i] = line[d + i]
      BY <2>2
    <3>3. SubSeq(w, p + 1, n)[i] = w[p + i]
      BY <2>3
    <3>4. line[d + i] = w[m + (d + i)]
      BY <1>2, <2>4
    <3> QED
      BY <2>4, <3>2, <3>3, <3>4
  <2> HIDE DEF k
  <2> QED
    BY <2>2, <2>3, <2>5, SeqEqual
<1>10. SubSeq(line, Len(WholeLines(line)) + 1, Len(line)) = SubSeq(w, p + 1, n)
  BY <1>2, <1>8, <1>9
<1> QED
  BY <1>2, <1>7, <1>8, <1>10 DEF p

LEMMA BoundedByteKeeps ==
    ASSUME NEW w \in Seq(Signs), NEW n \in Nat, n < Len(w), NEW chunk \in 0..n, NEW s,
           EventsOK(s, w, n, chunk, FALSE), ~s.failed
    PROVE  EventsOK(BoundedByte(s, w[n + 1]), w, n + 1, chunk + 1, FALSE)
<1> DEFINE b == w[n + 1]
           t == SizeByte(s, b)
           r == BoundedByte(s, b)
           m == LastOf(Breaks(w, n - chunk, Either))
           p == LastOf(Breaks(w, n, Either))
<1>1. /\ s \in EventsState /\ s.out = SubSeq(w, 1, m) /\ s.line = SubSeq(w, m + 1, n)
  BY DEF EventsOK
<1>2. t \in EventsState /\ t.line = s.line /\ t.out = s.out /\ t.failed = s.failed
  BY <1>1, SizeTyped
<1>3. m \in 0..n /\ (m > 0 => w[m] \in Either)
  <2>1. n - chunk \in Nat /\ n - chunk <= n
    OBVIOUS
  <2>2. Breaks(w, n - chunk, Either) \in SUBSET (1..(n - chunk)) /\ \A i \in Breaks(w, n - chunk, Either) : w[i] \in Either
    BY DEF Breaks
  <2>3. m \in 0..(n - chunk) /\ (m > 0 => m \in Breaks(w, n - chunk, Either))
    BY <2>1, <2>2, LastIsLast
  <2> HIDE DEF m
  <2> QED
    BY <2>1, <2>2, <2>3
<1>4. n \in 0..Len(w) /\ n + 1 \in 1..Len(w) /\ b \in Signs /\ (n + 1) - (chunk + 1) = n - chunk /\ (n + 1) - 1 = n
  OBVIOUS
<1> HIDE DEF m, p
<1> HIDE DEF b, t, r
<1>5. p \in m..n /\ s.line \in Seq(Signs) /\ WholeLines(s.line) = SubSeq(w, m + 1, p)
  <2> DEFINE line == s.line
  <2>1. n \in 0..Len(w) /\ Follows(w, m, n, line)
    BY <1>1, <1>3, <1>4 DEF Follows
  <2> HIDE DEF line
  <2>2. /\ p \in m..n /\ line \in Seq(Signs)
        /\ WholeLines(line) = SubSeq(w, m + 1, p)
    BY <2>1, WholeToTheLast DEF p
  <2> QED
    BY <2>2 DEF line
<1>6. s.out \o WholeLines(s.line) = SubSeq(w, 1, p)
  <2>1. 1 \in 1..(Len(w) + 1) /\ m \in (1 - 1)..Len(w) /\ p \in m..Len(w)
    BY <1>3, <1>4, <1>5
  <2>2. SubSeq(w, 1, m) \o SubSeq(w, m + 1, p) = SubSeq(w, 1, p)
    BY <2>1, ConcatAdjacentSubSeq
  <2> QED
    BY <1>1, <1>5, <2>2
<1>7. r = IF t.event + t.size > MaxSize
             THEN [t EXCEPT !.line = <<>>, !.out = t.out \o WholeLines(s.line) \o TooLarge, !.failed = TRUE]
             ELSE [t EXCEPT !.line = Append(t.line, b)]
  BY DEF BoundedByte, t, r
<1>8. CASE t.event + t.size > MaxSize
  <2> DEFINE o == SubSeq(w, 1, p) \o TooLarge
             none == <<>>
  <2>1. o \in Seq(Signs)
    <3>1. TooLarge \in Seq(Signs)
      <4> DEFINE c == "LF"
                 d == "too large"
      <4>1. c \in Signs /\ d \in Signs
        BY DEF Signs
      <4>2. TooLarge = <<c, c, d>>
        BY DEF TooLarge
      <4> HIDE DEF c, d
      <4> QED
        BY <4>1, <4>2
    <3>2. \A i \in 1..p : w[i] \in Signs
      BY <1>3, <1>4, <1>5
    <3>3. p \in Int /\ 1 \in Int
      BY <1>3, <1>5
    <3>4. SubSeq(w, 1, p) \in Seq(Signs)
      BY <3>2, <3>3, SubSeqProperties
    <3> QED
      BY <3>1, <3>4, ConcatProperties
  <2>2. none \in Seq(Signs)
    OBVIOUS
  <2>3. r = [t EXCEPT !.line = none, !.out = o, !.failed = TRUE]
    <3>1. t.out \o WholeLines(s.line) \o TooLarge = o
      BY <1>2, <1>6
    <3> HIDE DEF o
    <3> QED
      BY <1>7, <1>8, <3>1
  <2> HIDE DEF o, none
  <2>4. r \in EventsState /\ r.out = o /\ r.failed = TRUE
    BY <1>2, <2>1, <2>2, <2>3 DEF EventsState
  <2>5. EventsOK(r, w, n + 1, chunk + 1, FALSE)
    BY <1>4, <2>4 DEF EventsOK, o, p
  <2> QED
    BY <2>5 DEF r, b
<1>9. CASE ~(t.event + t.size > MaxSize)
  <2> DEFINE l == Append(s.line, b)
  <2>1. l \in Seq(Signs)
    BY <1>4, <1>5
  <2>2. l = SubSeq(w, m + 1, n + 1)
    <3>1. m + 1 \in 1..Len(w) /\ n + 1 \in (m + 1)..Len(w)
      BY <1>3, <1>4
    <3>2. SubSeq(w, m + 1, n + 1) = SubSeq(w, m + 1, (n + 1) - 1) \o <<b>>
      BY <3>1, SubSeqRecursiveSecond DEF b
    <3>3. Append(s.line, b) = s.line \o <<b>>
      BY <1>4, <1>5, AppendIsConcat
    <3> QED
      BY <1>1, <1>4, <3>2, <3>3
  <2>3. r = [t EXCEPT !.line = l]
    BY <1>2, <1>7, <1>9
  <2> HIDE DEF l
  <2>4. r \in EventsState /\ r.line = l /\ r.out = s.out /\ r.failed = FALSE
    BY <1>2, <2>1, <2>3 DEF EventsState
  <2>5. EventsOK(r, w, n + 1, chunk + 1, FALSE)
    BY <1>1, <1>4, <2>2, <2>4 DEF EventsOK, m
  <2> QED
    BY <2>5 DEF r, b
<1> QED
  BY <1>8, <1>9

LEMMA PassLinesKeeps ==
    ASSUME NEW w \in Seq(Signs), NEW n \in 0..Len(w), NEW chunk \in 0..n, NEW s,
           EventsOK(s, w, n, chunk, FALSE), ~s.failed
    PROVE  EventsOK(PassLines(s), w, n, 0, FALSE)
<1> DEFINE r == PassLines(s)
           m == LastOf(Breaks(w, n - chunk, Either))
           p == LastOf(Breaks(w, n, Either))
<1>1. /\ s \in EventsState /\ s.out = SubSeq(w, 1, m) /\ s.line = SubSeq(w, m + 1, n)
  BY DEF EventsOK
<1>2. n \in Nat /\ n - 0 = n
  OBVIOUS
<1>3. m \in 0..n /\ (m > 0 => w[m] \in Either)
  <2>1. n - chunk \in Nat /\ n - chunk <= n
    BY <1>2
  <2>2. Breaks(w, n - chunk, Either) \in SUBSET (1..(n - chunk)) /\ \A i \in Breaks(w, n - chunk, Either) : w[i] \in Either
    BY DEF Breaks
  <2>3. m \in 0..(n - chunk) /\ (m > 0 => m \in Breaks(w, n - chunk, Either))
    BY <2>1, <2>2, LastIsLast
  <2> HIDE DEF m
  <2> QED
    BY <2>1, <2>2, <2>3
<1> HIDE DEF m, p
<1>4. /\ p \in m..n /\ WholeLines(s.line) = SubSeq(w, m + 1, p)
      /\ SubSeq(s.line, Len(WholeLines(s.line)) + 1, Len(s.line)) = SubSeq(w, p + 1, n)
  <2> DEFINE line == s.line
  <2>1. Follows(w, m, n, line)
    BY <1>1, <1>3 DEF Follows
  <2> HIDE DEF line
  <2>2. /\ p \in m..n /\ WholeLines(line) = SubSeq(w, m + 1, p)
        /\ SubSeq(line, Len(WholeLines(line)) + 1, Len(line)) = SubSeq(w, p + 1, n)
    BY <2>1, WholeToTheLast DEF p
  <2> QED
    BY <2>2 DEF line
<1>5. s.out \o WholeLines(s.line) = SubSeq(w, 1, p)
  <2>1. 1 \in 1..(Len(w) + 1) /\ m \in (1 - 1)..Len(w) /\ p \in m..Len(w)
    BY <1>2, <1>3, <1>4
  <2>2. SubSeq(w, 1, m) \o SubSeq(w, m + 1, p) = SubSeq(w, 1, p)
    BY <2>1, ConcatAdjacentSubSeq
  <2> QED
    BY <1>1, <1>4, <2>2
<1> DEFINE l == SubSeq(w, p + 1, n)
           o == SubSeq(w, 1, p)
<1>6. l \in Seq(Signs) /\ o \in Seq(Signs)
  <2>1. p \in Int /\ n \in Int /\ 1 \in Int /\ p + 1 \in Int
        /\ (\A i \in 1..p : w[i] \in Signs) /\ (\A i \in (p + 1)..n : w[i] \in Signs)
    BY <1>2, <1>3, <1>4
  <2> QED
    BY <2>1, SubSeqProperties
<1>7. r = [s EXCEPT !.line = l, !.out = o]
  BY <1>4, <1>5 DEF PassLines
<1> HIDE DEF l, o, r
<1>8. r \in EventsState /\ r.line = l /\ r.out = o /\ r.failed = FALSE
  BY <1>1, <1>6, <1>7 DEF EventsState
<1>9. EventsOK(r, w, n, 0, FALSE)
  BY <1>2, <1>8 DEF EventsOK, l, o, p
<1> QED
  BY <1>9 DEF r

\* At the end the rest goes on, whole lines or not.
LEMMA EventsEndKeeps ==
    ASSUME NEW w \in Seq(Signs), NEW n \in 0..Len(w), NEW s, EventsOK(s, w, n, 0, FALSE), ~s.failed
    PROVE  EventsOK([s EXCEPT !.line = <<>>, !.out = s.out \o s.line], w, n, 0, TRUE)
<1> DEFINE p == LastOf(Breaks(w, n, Either))
           o == SubSeq(w, 1, n)
           none == <<>>
           r == [s EXCEPT !.line = none, !.out = o]
<1>1. n \in Nat /\ n - 0 = n
  OBVIOUS
<1>2. s \in EventsState /\ s.out = SubSeq(w, 1, p) /\ s.line = SubSeq(w, p + 1, n)
  BY <1>1 DEF EventsOK
<1>3. p \in 0..n
  <2>1. Breaks(w, n, Either) \in SUBSET (1..n)
    BY DEF Breaks
  <2> QED
    BY <1>1, <2>1, LastIsLast
<1> HIDE DEF p
<1>4. s.out \o s.line = o
  <2>1. 1 \in 1..(Len(w) + 1) /\ p \in (1 - 1)..Len(w) /\ n \in p..Len(w)
    BY <1>1, <1>3
  <2> QED
    BY <1>2, <2>1, ConcatAdjacentSubSeq
<1>5. o \in Seq(Signs) /\ none \in Seq(Signs)
  <2>1. n \in Int /\ 1 \in Int /\ \A i \in 1..n : w[i] \in Signs
    BY <1>1
  <2>2. o \in Seq(Signs)
    BY <2>1, SubSeqProperties
  <2> QED
    BY <2>2
<1>6. [s EXCEPT !.line = <<>>, !.out = s.out \o s.line] = r
  BY <1>4
<1> HIDE DEF o, none
<1>7. r \in EventsState /\ r.out = o /\ r.failed = FALSE
  BY <1>2, <1>5 DEF EventsState
<1> HIDE DEF r
<1>8. EventsOK(r, w, n, 0, TRUE)
  BY <1>7 DEF EventsOK, o
<1> QED
  BY <1>6, <1>8

-----------------------------------------------------------------------------
\* All four, however the network cuts them.

StreamState == [of : Readers, bytes : Seq(Signs), at : Nat, chunk : Nat, ended : BOOLEAN]

StreamOK(r) == r \in StreamState /\ r.at <= Len(r.bytes) /\ r.chunk <= r.at

\* Where the page's bytes and a server's end, a last line goes without its LF.
ReaderOK(r, s) ==
    LET w == r.bytes
        n == r.at
        e == Append(w, "LF") IN
    /\ r.of = "provider" => ProviderOK(s, w, n)
    /\ r.of = "browser" => PageOK(s, e, IF r.ended THEN n + 1 ELSE n)
    /\ r.of = "output" => OutputOK(s, e, IF r.ended /\ Line(e, n + 1, {"LF"}) # <<>> THEN n + 1 ELSE n)
    /\ r.of = "events" => EventsOK(s, w, n, r.chunk, r.ended)

LinesInv == StreamOK(stream) /\ ReaderOK(stream, read)

LEMMA NothingIsRead ==
    ASSUME NEW w, NEW ends
    PROVE  Breaks(w, 0, ends) = {} /\ LineBegin(w, 1, ends) = 1 /\ Line(w, 1, ends) = <<>>
<1>1. Breaks(w, 0, ends) = {}
  BY DEF Breaks
<1>2. LineBegin(w, 1, ends) = 1
  <2>1. Breaks(w, 1 - 1, ends) = {}
    BY <1>1
  <2> QED
    BY <2>1 DEF LineBegin, LastOf
<1>3. SubSeq(w, 1, 0) = <<>>
  BY SubSeqEmpty
<1>4. Line(w, 1, ends) = SubSeq(w, 1, 1 - 1)
  BY <1>2 DEF Line
<1> QED
  BY <1>1, <1>2, <1>3, <1>4

LEMMA EachStarts ==
    ASSUME NEW w
    PROVE  /\ ProviderOK(ProviderStart, w, 0) /\ PageOK(BrowserStart, w, 0)
           /\ OutputOK(OutputStart, w, 0) /\ EventsOK(EventsStart, w, 0, 0, FALSE)
<1> DEFINE none == <<>>
<1>1. none \in Seq(Signs) /\ none \in Seq(Seq(Signs)) /\ none \in Seq(Seq(Seq(Signs)))
  OBVIOUS
<1>2. /\ Breaks(w, 0, Either) = {} /\ Line(w, 1, Either) = none
      /\ Breaks(w, 0, {"LF"}) = {} /\ LineBegin(w, 1, {"LF"}) = 1 /\ Line(w, 1, {"LF"}) = none
  BY NothingIsRead
<1>3. \A f : Each(f, {}) = none
  BY EachOfNone
<1>4. SubSeq(w, 1, 0) = none
  BY SubSeqEmpty
<1>5. 0 + 1 = 1 /\ 0 - 0 = 0 /\ ~(0 > 0) /\ 0 \in Nat
  OBVIOUS
<1>6. ProviderOK(ProviderStart, w, 0)
  <2>1. LineEnds(w, 0) = {} /\ DataSince(w, 0) = {} /\ EventEnds(w, 0) = {}
    BY <1>2 DEF LineEnds, DataSince, EventEnds
  <2>2. ProviderStart = [line |-> none, data |-> none, size |-> 0, skip |-> FALSE, started |-> FALSE,
                         hasData |-> FALSE, out |-> none, failed |-> FALSE]
    BY DEF ProviderStart
  <2> HIDE DEF none
  <2>3. ProviderStart \in ProviderState
    BY <1>1, <1>5, <2>2 DEF ProviderState
  <2>4. ProviderEvents(w, 0) = none /\ Each(Values(w), DataSince(w, 0)) = none
    BY <1>3, <2>1 DEF ProviderEvents
  <2> QED
    BY <1>2, <1>5, <2>1, <2>2, <2>3, <2>4 DEF ProviderOK
<1>7. PageOK(BrowserStart, w, 0)
  <2>1. PageEnding(w, 0) = {} /\ CharEnds(w, 1, 0) = {}
    BY <1>2 DEF PageEnding, CharEnds
  <2>2. BrowserStart = [held |-> FALSE, part |-> none, out |-> none, failed |-> FALSE] /\ ~Over(none)
    BY DEF BrowserStart, Over
  <2> HIDE DEF none
  <2>3. BrowserStart \in PageState
    <3>1. none \in Seq({Trimmed(line) : line \in Seq(Signs)})
      BY DEF none
    <3> QED
      BY <1>1, <2>2, <3>1 DEF PageState
  <2>4. PageEvents(w, 0) = none /\ Each(Chars(w), CharEnds(w, 1, 0)) = none
    BY <1>3, <2>1 DEF PageEvents
  <2> QED
    BY <1>2, <1>5, <2>2, <2>3, <2>4 DEF PageOK
<1>8. OutputOK(OutputStart, w, 0)
  <2>1. OutputStart = [line |-> none, out |-> none, failed |-> FALSE]
    BY DEF OutputStart
  <2> HIDE DEF none
  <2>2. OutputStart \in OutputState
    BY <1>1, <2>1 DEF OutputState
  <2>3. OutputLines(w, 0) = none
    BY <1>2, <1>3 DEF OutputLines
  <2> QED
    BY <1>2, <1>5, <2>1, <2>2, <2>3 DEF OutputOK
<1>9. EventsOK(EventsStart, w, 0, 0, FALSE)
  <2>1. LastOf(Breaks(w, 0 - 0, Either)) = 0
    BY <1>2, <1>5 DEF LastOf
  <2>2. EventsStart = [event |-> 0, size |-> 0, comment |-> FALSE, afterCr |-> FALSE, line |-> none, out |-> none,
                       failed |-> FALSE]
    BY DEF EventsStart
  <2> HIDE DEF none
  <2>3. EventsStart \in EventsState
    BY <1>1, <1>5, <2>2 DEF EventsState
  <2> QED
    BY <1>4, <1>5, <2>1, <2>2, <2>3 DEF EventsOK
<1> QED
  BY <1>6, <1>7, <1>8, <1>9

LEMMA StreamStarts == LinesInit => LinesInv
<1> SUFFICES ASSUME LinesInit PROVE LinesInv
  OBVIOUS
<1>1. PICK r \in Readers :
         stream \in [of : {r}, bytes : UNION {[1..n -> Bytes[r]] : n \in 0..MaxBytes}, at : {0}, chunk : {0}, ended : {FALSE}]
  BY DEF LinesInit
<1>2. /\ stream.of = r /\ stream.at = 0 /\ stream.chunk = 0 /\ stream.ended = FALSE
      /\ stream = [of |-> stream.of, bytes |-> stream.bytes, at |-> stream.at, chunk |-> stream.chunk, ended |-> stream.ended]
      /\ stream.bytes \in UNION {[1..n -> Bytes[r]] : n \in 0..MaxBytes}
  BY <1>1
<1>3. PICK n \in 0..MaxBytes : stream.bytes \in [1..n -> Bytes[r]]
  BY <1>2
<1>4. Bytes[r] \subseteq Signs
  <2>1. CASE r = "provider"
    BY <2>1 DEF Bytes, Signs
  <2>2. CASE r = "browser"
    BY <2>2 DEF Bytes, Signs
  <2>3. CASE r = "output"
    BY <2>3 DEF Bytes, Signs
  <2>4. CASE r = "events"
    BY <2>4 DEF Bytes, Signs
  <2> QED
    BY <2>1, <2>2, <2>3, <2>4 DEF Readers
<1>5. stream.bytes \in Seq(Signs)
  <2>1. n \in Nat
    OBVIOUS
  <2> QED
    BY <1>3, <1>4, <2>1
<1>6. StreamOK(stream)
  <2>1. stream.at \in Nat /\ stream.chunk \in Nat /\ stream.ended \in BOOLEAN
    <3>1. stream.at = 0 /\ stream.chunk = 0 /\ stream.ended = FALSE
      BY <1>2
    <3>2. stream.ended \in BOOLEAN
      BY <3>1, Zenon
    <3> QED
      BY <3>1, <3>2
  <2>2. stream.of \in Readers
    BY <1>2, Zenon
  <2>3. stream \in StreamState
    BY <1>2, <1>5, <2>1, <2>2 DEF StreamState
  <2>4. 0 <= Len(stream.bytes)
    BY <1>5
  <2> QED
    BY <1>2, <2>3, <2>4 DEF StreamOK
<1>7. read = Start[stream.of]
  BY DEF LinesInit
<1>8. ReaderOK(stream, read)
  <2> DEFINE w == stream.bytes
             e == Append(w, "LF")
  <2>0. /\ Start["provider"] = ProviderStart /\ Start["browser"] = BrowserStart
        /\ Start["output"] = OutputStart /\ Start["events"] = EventsStart
    BY DEF Start
  <2>1. Line(e, 0 + 1, {"LF"}) = <<>>
    BY NothingIsRead
  <2>2. stream.of = "provider" => ProviderOK(read, w, 0)
    BY <1>7, <2>0, EachStarts
  <2>3. stream.of = "browser" => PageOK(read, e, 0)
    BY <1>7, <2>0, EachStarts
  <2>4. stream.of = "output" => OutputOK(read, e, 0)
    BY <1>7, <2>0, EachStarts
  <2>5. stream.of = "events" => EventsOK(read, w, 0, 0, FALSE)
    BY <1>7, <2>0, EachStarts
  <2> QED
    BY <1>2, <2>1, <2>2, <2>3, <2>4, <2>5 DEF ReaderOK
<1> QED
  BY <1>6, <1>8 DEF LinesInv

\* The last byte of what ends with an LF.
LEMMA WithItsEnd ==
    ASSUME NEW w \in Seq(Signs)
    PROVE  LET e == Append(w, "LF") IN
           /\ e \in Seq(Signs) /\ Len(e) = Len(w) + 1
           /\ \A n \in 1..Len(w) : e[n] = w[n]
           /\ e[Len(w) + 1] = "LF"
<1> DEFINE c == "LF"
<1>1. c \in Signs
  BY DEF Signs
<1> HIDE DEF c
<1>2. /\ Append(w, c) \in Seq(Signs) /\ Len(Append(w, c)) = Len(w) + 1
      /\ \A n \in 1..Len(w) : Append(w, c)[n] = w[n]
      /\ Append(w, c)[Len(w) + 1] = c
  BY <1>1, AppendProperties
<1> QED
  BY <1>2 DEF c

\* What each step does with the stream.
LEMMA ByteStep ==
    ASSUME NEW reader \in Readers, LinesInv, NextByte(reader)
    PROVE  LET w == stream.bytes
               n == stream.at IN
           /\ stream'.of = stream.of /\ stream'.bytes = w /\ stream'.ended = stream.ended
           /\ stream'.at = n + 1 /\ stream'.chunk = stream.chunk + 1
           /\ StreamOK(stream') /\ stream.of = reader /\ stream.ended = FALSE /\ ~read.failed
           /\ w \in Seq(Signs) /\ n \in Nat /\ n < Len(w) /\ stream.chunk \in 0..n
<1>1. stream \in StreamState /\ stream.at <= Len(stream.bytes) /\ stream.chunk <= stream.at
  BY DEF LinesInv, StreamOK
<1>2. stream.bytes \in Seq(Signs) /\ stream.at \in Nat /\ stream.chunk \in Nat /\ stream.ended \in BOOLEAN
  BY <1>1 DEF StreamState
<1>3. /\ stream.of = reader /\ ~stream.ended /\ ~read.failed /\ stream.at < Len(stream.bytes)
      /\ stream' = [stream EXCEPT !.at = stream.at + 1, !.chunk = stream.chunk + 1]
  BY DEF NextByte, Listens
<1>4. stream.at + 1 \in Nat /\ stream.chunk + 1 \in Nat /\ stream.at + 1 <= Len(stream.bytes)
      /\ stream.chunk + 1 <= stream.at + 1 /\ stream.chunk \in 0..stream.at
  BY <1>1, <1>2, <1>3
<1>5. /\ stream' \in StreamState /\ stream'.of = stream.of /\ stream'.bytes = stream.bytes /\ stream'.ended = stream.ended
      /\ stream'.at = stream.at + 1 /\ stream'.chunk = stream.chunk + 1
  BY <1>1, <1>3, <1>4 DEF StreamState
<1>6. StreamOK(stream')
  BY <1>4, <1>5 DEF StreamOK
<1> QED
  BY <1>2, <1>3, <1>4, <1>5, <1>6

LEMMA ChunkStep ==
    ASSUME NEW reader \in Readers, LinesInv, ChunkEnds(reader)
    PROVE  LET w == stream.bytes
               n == stream.at IN
           /\ stream'.of = stream.of /\ stream'.bytes = w /\ stream'.ended = stream.ended
           /\ stream'.at = n /\ stream'.chunk = 0
           /\ StreamOK(stream') /\ stream.of = reader /\ stream.ended = FALSE /\ ~read.failed
           /\ w \in Seq(Signs) /\ n \in 0..Len(w) /\ stream.chunk \in 0..n
<1>1. stream \in StreamState /\ stream.at <= Len(stream.bytes) /\ stream.chunk <= stream.at
  BY DEF LinesInv, StreamOK
<1>2. stream.bytes \in Seq(Signs) /\ stream.at \in Nat /\ stream.chunk \in Nat /\ stream.ended \in BOOLEAN
  BY <1>1 DEF StreamState
<1>3. /\ stream.of = reader /\ ~stream.ended /\ ~read.failed
      /\ stream' = [stream EXCEPT !.chunk = 0]
  BY DEF ChunkEnds, Listens
<1>4. stream.at \in 0..Len(stream.bytes) /\ stream.chunk \in 0..stream.at
  BY <1>1, <1>2
<1>5. /\ stream' \in StreamState /\ stream'.of = stream.of /\ stream'.bytes = stream.bytes /\ stream'.ended = stream.ended
      /\ stream'.at = stream.at /\ stream'.chunk = 0
  BY <1>1, <1>3 DEF StreamState
<1>6. StreamOK(stream')
  BY <1>1, <1>2, <1>5 DEF StreamOK
<1> QED
  BY <1>2, <1>3, <1>4, <1>5, <1>6

LEMMA EndStep ==
    ASSUME NEW reader \in Readers, LinesInv, InputEnds(reader)
    PROVE  LET w == stream.bytes
               n == stream.at IN
           /\ stream'.of = stream.of /\ stream'.bytes = w /\ stream'.ended = TRUE
           /\ stream'.at = n /\ stream'.chunk = 0 /\ stream.chunk = 0
           /\ StreamOK(stream') /\ stream.of = reader /\ stream.ended = FALSE /\ ~read.failed
           /\ w \in Seq(Signs) /\ n \in Nat /\ n = Len(w)
<1>1. stream \in StreamState /\ stream.at <= Len(stream.bytes) /\ stream.chunk <= stream.at
  BY DEF LinesInv, StreamOK
<1>2. stream.bytes \in Seq(Signs) /\ stream.at \in Nat /\ stream.ended \in BOOLEAN
  BY <1>1 DEF StreamState
<1>3. /\ stream.of = reader /\ ~stream.ended /\ ~read.failed /\ stream.chunk = 0 /\ stream.at = Len(stream.bytes)
      /\ stream' = [stream EXCEPT !.ended = TRUE]
  BY DEF InputEnds, Listens
<1>4. /\ stream' \in StreamState /\ stream'.of = stream.of /\ stream'.bytes = stream.bytes /\ stream'.ended = TRUE
      /\ stream'.at = stream.at /\ stream'.chunk = stream.chunk
  BY <1>1, <1>3 DEF StreamState
<1>5. StreamOK(stream')
  BY <1>1, <1>4 DEF StreamOK
<1> QED
  BY <1>2, <1>3, <1>4, <1>5

LEMMA LinesStep == LinesInv /\ [LinesNext]_lineVars => LinesInv'
<1> SUFFICES ASSUME LinesInv, [LinesNext]_lineVars PROVE LinesInv'
  OBVIOUS
<1> USE DEF Readers
<1> DEFINE w == stream.bytes
           n == stream.at
           e == Append(w, "LF")
<1>0. ReaderOK(stream, read) /\ ("provider" \in Readers /\ "browser" \in Readers /\ "output" \in Readers /\ "events" \in Readers)
  BY DEF LinesInv
<1>1. CASE FeedProvider
  <2>1. NextByte("provider") /\ read' = FeedByte(read, w[n + 1])
    BY <1>1 DEF FeedProvider, Byte
  <2>2. /\ stream'.of = "provider" /\ stream'.bytes = w /\ stream'.at = n + 1 /\ StreamOK(stream')
        /\ stream.of = "provider" /\ ~read.failed /\ w \in Seq(Signs) /\ n \in Nat /\ n < Len(w)
    BY <1>0, <2>1, ByteStep
  <2>3. ProviderOK(read, w, n)
    BY <1>0, <2>2 DEF ReaderOK
  <2>4. ProviderOK(read', w, n + 1)
    BY <2>1, <2>2, <2>3, FeedByteKeeps
  <2> QED
    BY <2>2, <2>4 DEF LinesInv, ReaderOK
<1>2. CASE ProviderChunkEnds
  <2>1. ChunkEnds("provider") /\ read' = read
    BY <1>2 DEF ProviderChunkEnds
  <2>2. /\ stream'.of = "provider" /\ stream'.bytes = w /\ stream'.at = n /\ StreamOK(stream') /\ stream.of = "provider"
    BY <1>0, <2>1, ChunkStep
  <2>3. ProviderOK(read', w, n)
    BY <1>0, <2>1, <2>2 DEF ReaderOK
  <2> QED
    BY <2>2, <2>3 DEF LinesInv, ReaderOK
<1>3. CASE ProviderEnds
  <2>1. InputEnds("provider") /\ read' = read
    BY <1>3 DEF ProviderEnds
  <2>2. /\ stream'.of = "provider" /\ stream'.bytes = w /\ stream'.at = n /\ StreamOK(stream') /\ stream.of = "provider"
    BY <1>0, <2>1, EndStep
  <2>3. ProviderOK(read', w, n)
    BY <1>0, <2>1, <2>2 DEF ReaderOK
  <2> QED
    BY <2>2, <2>3 DEF LinesInv, ReaderOK
<1>4. CASE FeedPage
  <2>1. NextByte("browser") /\ read' = PageByte(read, w[n + 1])
    BY <1>4 DEF FeedPage, Byte
  <2>2. /\ stream'.of = "browser" /\ stream'.bytes = w /\ stream'.at = n + 1 /\ StreamOK(stream') /\ stream'.ended = FALSE
        /\ stream.of = "browser" /\ stream.ended = FALSE /\ w \in Seq(Signs) /\ n \in Nat /\ n < Len(w)
    BY <1>0, <2>1, ByteStep
  <2>3. PageOK(read, e, n)
    BY <1>0, <2>2 DEF ReaderOK
  <2>4. e \in Seq(Signs) /\ n < Len(e) /\ e[n + 1] = w[n + 1]
    BY <2>2, WithItsEnd
  <2>5. PageOK(read', e, n + 1)
    <3> HIDE DEF e
    <3> QED
      BY <2>1, <2>2, <2>3, <2>4, PageByteKeeps
  <2> QED
    BY <2>2, <2>5 DEF LinesInv, ReaderOK
<1>5. CASE PageChunkEnds
  <2>1. ChunkEnds("browser") /\ read' = read
    BY <1>5 DEF PageChunkEnds
  <2>2. /\ stream'.of = "browser" /\ stream'.bytes = w /\ stream'.at = n /\ StreamOK(stream') /\ stream'.ended = FALSE
        /\ stream.of = "browser" /\ stream.ended = FALSE
    BY <1>0, <2>1, ChunkStep
  <2>3. PageOK(read', e, n)
    BY <1>0, <2>1, <2>2 DEF ReaderOK
  <2> QED
    BY <2>2, <2>3 DEF LinesInv, ReaderOK
<1>6. CASE PageEnds
  <2>1. InputEnds("browser") /\ read' = PageByte(read, "LF")
    BY <1>6 DEF PageEnds
  <2>2. /\ stream'.of = "browser" /\ stream'.bytes = w /\ stream'.at = n /\ StreamOK(stream') /\ stream'.ended = TRUE
        /\ stream.of = "browser" /\ stream.ended = FALSE /\ w \in Seq(Signs) /\ n \in Nat /\ n = Len(w)
    BY <1>0, <2>1, EndStep
  <2>3. PageOK(read, e, n)
    BY <1>0, <2>2 DEF ReaderOK
  <2>4. e \in Seq(Signs) /\ n < Len(e) /\ e[n + 1] = "LF"
    BY <2>2, WithItsEnd
  <2>5. PageOK(read', e, n + 1)
    <3> HIDE DEF e
    <3> QED
      BY <2>1, <2>2, <2>3, <2>4, PageByteKeeps
  <2> QED
    BY <2>2, <2>5 DEF LinesInv, ReaderOK
<1>7. CASE FeedOutput
  <2>1. NextByte("output") /\ read' = TakeByte(read, w[n + 1])
    BY <1>7 DEF FeedOutput, Byte
  <2>2. /\ stream'.of = "output" /\ stream'.bytes = w /\ stream'.at = n + 1 /\ StreamOK(stream') /\ stream'.ended = FALSE
        /\ stream.of = "output" /\ stream.ended = FALSE /\ ~read.failed /\ w \in Seq(Signs) /\ n \in Nat /\ n < Len(w)
    BY <1>0, <2>1, ByteStep
  <2>3. OutputOK(read, e, n)
    BY <1>0, <2>2 DEF ReaderOK
  <2>4. e \in Seq(Signs) /\ n < Len(e) /\ e[n + 1] = w[n + 1]
    BY <2>2, WithItsEnd
  <2>5. OutputOK(read', e, n + 1)
    <3> HIDE DEF e
    <3> QED
      BY <2>1, <2>2, <2>3, <2>4, TakeByteKeeps
  <2> QED
    BY <2>2, <2>5 DEF LinesInv, ReaderOK
<1>8. CASE OutputChunkEnds
  <2>1. ChunkEnds("output")
        /\ read' = IF Len(read.line) > MaxSize THEN [read EXCEPT !.line = <<>>, !.failed = TRUE] ELSE read
    BY <1>8 DEF OutputChunkEnds
  <2>2. /\ stream'.of = "output" /\ stream'.bytes = w /\ stream'.at = n /\ StreamOK(stream') /\ stream'.ended = FALSE
        /\ stream.of = "output" /\ stream.ended = FALSE
    BY <1>0, <2>1, ChunkStep
  <2>3. OutputOK(read, e, n)
    BY <1>0, <2>2 DEF ReaderOK
  <2>4. OutputOK(read', e, n)
    <3>1. CASE Len(read.line) > MaxSize
      <4> DEFINE none == <<>>
      <4>1. none \in Seq(Signs)
        OBVIOUS
      <4>2. read' = [read EXCEPT !.line = none, !.failed = TRUE]
        BY <2>1, <3>1
      <4> HIDE DEF none, e
      <4>3. read \in OutputState /\ read.out = OutputLines(e, n)
        BY <2>3 DEF OutputOK
      <4>4. read' \in OutputState /\ read'.out = read.out /\ read'.failed = TRUE
        BY <4>1, <4>2, <4>3 DEF OutputState
      <4> QED
        BY <4>3, <4>4 DEF OutputOK
    <3>2. CASE ~(Len(read.line) > MaxSize)
      BY <2>1, <2>3, <3>2
    <3> QED
      BY <3>1, <3>2
  <2> QED
    BY <2>2, <2>4 DEF LinesInv, ReaderOK
<1>9. CASE OutputEnds
  <2>1. InputEnds("output") /\ read' = IF read.line = <<>> THEN read ELSE TakeByte(read, "LF")
    BY <1>9 DEF OutputEnds
  <2>2. /\ stream'.of = "output" /\ stream'.bytes = w /\ stream'.at = n /\ StreamOK(stream') /\ stream'.ended = TRUE
        /\ stream.of = "output" /\ stream.ended = FALSE /\ ~read.failed /\ w \in Seq(Signs) /\ n \in Nat /\ n = Len(w)
    BY <1>0, <2>1, EndStep
  <2>3. OutputOK(read, e, n)
    BY <1>0, <2>2 DEF ReaderOK
  <2>4. e \in Seq(Signs) /\ n < Len(e) /\ e[n + 1] = "LF"
    BY <2>2, WithItsEnd
  <2> HIDE DEF e
  <2>5. read.line = Line(e, n + 1, {"LF"})
    BY <2>2, <2>3 DEF OutputOK
  <2>6. OutputOK(read', e, IF Line(e, n + 1, {"LF"}) # <<>> THEN n + 1 ELSE n)
    <3>1. CASE read.line = <<>>
      BY <2>1, <2>3, <2>5, <3>1
    <3>2. CASE read.line # <<>>
      <4>1. OutputOK(TakeByte(read, e[n + 1]), e, n + 1)
        BY <2>2, <2>3, <2>4, TakeByteKeeps
      <4> QED
        BY <2>1, <2>4, <2>5, <3>2, <4>1
    <3> QED
      BY <3>1, <3>2
  <2> QED
    BY <2>2, <2>6 DEF LinesInv, ReaderOK, e
<1>10. CASE FeedEvents
  <2>1. NextByte("events") /\ read' = BoundedByte(read, w[n + 1])
    BY <1>10 DEF FeedEvents, Byte
  <2>2. /\ stream'.of = "events" /\ stream'.bytes = w /\ stream'.at = n + 1 /\ stream'.chunk = stream.chunk + 1
        /\ StreamOK(stream') /\ stream'.ended = FALSE
        /\ stream.of = "events" /\ stream.ended = FALSE /\ ~read.failed /\ w \in Seq(Signs) /\ n \in Nat /\ n < Len(w)
        /\ stream.chunk \in 0..n
    BY <1>0, <2>1, ByteStep
  <2>3. EventsOK(read, w, n, stream.chunk, FALSE)
    BY <1>0, <2>2 DEF ReaderOK
  <2>4. EventsOK(read', w, n + 1, stream.chunk + 1, FALSE)
    BY <2>1, <2>2, <2>3, BoundedByteKeeps
  <2> QED
    BY <2>2, <2>4 DEF LinesInv, ReaderOK
<1>11. CASE EventsChunkEnds
  <2>1. ChunkEnds("events") /\ read' = PassLines(read)
    BY <1>11 DEF EventsChunkEnds
  <2>2. /\ stream'.of = "events" /\ stream'.bytes = w /\ stream'.at = n /\ stream'.chunk = 0
        /\ StreamOK(stream') /\ stream'.ended = FALSE
        /\ stream.of = "events" /\ stream.ended = FALSE /\ ~read.failed /\ w \in Seq(Signs) /\ n \in 0..Len(w)
        /\ stream.chunk \in 0..n
    BY <1>0, <2>1, ChunkStep
  <2>3. EventsOK(read, w, n, stream.chunk, FALSE)
    BY <1>0, <2>2 DEF ReaderOK
  <2>4. EventsOK(read', w, n, 0, FALSE)
    BY <2>1, <2>2, <2>3, PassLinesKeeps
  <2> QED
    BY <2>2, <2>4 DEF LinesInv, ReaderOK
<1>12. CASE EventsEnd
  <2>1. InputEnds("events") /\ read' = [read EXCEPT !.line = <<>>, !.out = read.out \o read.line]
    BY <1>12 DEF EventsEnd
  <2>2. /\ stream'.of = "events" /\ stream'.bytes = w /\ stream'.at = n /\ stream'.chunk = 0 /\ stream.chunk = 0
        /\ StreamOK(stream') /\ stream'.ended = TRUE
        /\ stream.of = "events" /\ stream.ended = FALSE /\ ~read.failed /\ w \in Seq(Signs) /\ n \in Nat /\ n = Len(w)
    BY <1>0, <2>1, EndStep
  <2>3. EventsOK(read, w, n, 0, FALSE)
    BY <1>0, <2>2 DEF ReaderOK
  <2>4. EventsOK(read', w, n, 0, TRUE)
    <3>1. n \in 0..Len(w)
      BY <2>2
    <3> QED
      BY <2>1, <2>2, <2>3, <3>1, EventsEndKeeps
  <2> QED
    BY <2>2, <2>4 DEF LinesInv, ReaderOK
<1>13. CASE UNCHANGED lineVars
  BY <1>13 DEF LinesInv, lineVars
<1> QED
  BY <1>1, <1>2, <1>3, <1>4, <1>5, <1>6, <1>7, <1>8, <1>9, <1>10, <1>11, <1>12, <1>13 DEF LinesNext

\* However the network cuts a stream, of whatever length, its reader has given out what
\* is to be read of the bytes it has (LinesAreWhole).
THEOREM ChunksReadWhole == LinesSpec => []LinesAreWhole
<1>1. LinesInv => LinesAreWhole
  <2> SUFFICES ASSUME LinesInv PROVE LinesAreWhole
    OBVIOUS
  <2> DEFINE w == stream.bytes
             n == stream.at
             e == Append(w, "LF")
  <2>1. ReaderOK(stream, read) /\ stream.of \in Readers
    BY DEF LinesInv, StreamOK, StreamState
  <2>2. stream.of = "provider" => (~read.failed => read.out = ProviderEvents(w, n))
    BY <2>1 DEF ReaderOK, ProviderOK
  <2>3. stream.of = "browser" => read.out = PageEvents(e, IF stream.ended THEN n + 1 ELSE n)
    BY <2>1 DEF ReaderOK, PageOK
  <2>4. stream.of = "output" =>
            read.out = OutputLines(e, IF stream.ended /\ Line(e, n + 1, {"LF"}) # <<>> THEN n + 1 ELSE n)
    BY <2>1 DEF ReaderOK, OutputOK
  <2>5. stream.of = "events" =>
            IF read.failed THEN read.out = SubSeq(w, 1, LastOf(Breaks(w, n - 1, Either))) \o TooLarge
            ELSE read.out = SubSeq(w, 1, IF stream.ended THEN n ELSE LastOf(Breaks(w, n - stream.chunk, Either)))
    BY <2>1 DEF ReaderOK, EventsOK
  <2> HIDE DEF e
  <2>6. CASE stream.of = "provider"
    BY <2>2, <2>6 DEF LinesAreWhole
  <2>7. CASE stream.of = "browser"
    BY <2>3, <2>7 DEF LinesAreWhole, e
  <2>8. CASE stream.of = "output"
    BY <2>4, <2>8 DEF LinesAreWhole, e
  <2>9. CASE stream.of = "events"
    BY <2>5, <2>9 DEF LinesAreWhole
  <2> QED
    BY <2>1, <2>6, <2>7, <2>8, <2>9 DEF Readers
<1> QED
  BY <1>1, StreamStarts, LinesStep, PTL DEF LinesSpec

=============================================================================
