------------------------------- MODULE Lookups -------------------------------
(***************************************************************************)
(* Names looked up for the HTTP clients and the management DB              *)
(* (src/backend/src/llm/dns.rs, worker.rs).  The first to ask for a name   *)
(* begins its flight; who asks meanwhile shares its answer.  The system's  *)
(* lookup cannot be stopped: it runs on a thread that keeps one of a few   *)
(* workers whatever becomes of the ask, and tells whoever still waits.     *)
(* One resolver: its lookups wait for a worker, or fail without one.       *)
(***************************************************************************)
EXTENDS Integers, FiniteSets

CONSTANTS
    Asks,           \* requests that need an address, each once
    Domains,        \* the names they ask for
    DnsWorkers,     \* threads at once (16)
    NoFlight

ASSUME LookupsAssumption == DnsWorkers \in Nat \ {0} /\ NoFlight \notin Asks

\* An ask begins one flight at most: a flight is named after the ask that began it.
VARIABLES
    waitsForWorker, \* SystemDns::wait
    needs,          \* the name of each ask
    askAt,          \* where each ask is
    joins,          \* the flight it shares
    flights,        \* name -> the flight listed for it
    answer,         \* what each flight said: nothing, what the system said, no worker, or never (closed)
    dnsThread       \* the thread of each flight

dnsVars == <<waitsForWorker, needs, askAt, joins, flights, answer, dnsThread>>

LookupsTypeOK ==
    /\ waitsForWorker \in BOOLEAN
    /\ needs \in [Asks -> Domains]
    /\ askAt \in [Asks -> {"none", "asks", "joined", "begun", "looks", "refusing", "dropping",
                           "answered", "failed", "gone"}]
    /\ joins \in [Asks -> Asks \cup {NoFlight}]
    /\ flights \in [Domains -> Asks \cup {NoFlight}]
    /\ answer \in [Asks -> {"none", "system", "capacity", "closed"}]
    /\ dnsThread \in [Asks -> {"none", "looking", "found", "told", "over"}]

LookupsInit ==
    /\ waitsForWorker \in BOOLEAN
    /\ needs \in [Asks -> Domains]
    /\ askAt = [a \in Asks |-> "none"]
    /\ joins = [a \in Asks |-> NoFlight]
    /\ flights = [n \in Domains |-> NoFlight]
    /\ answer = [a \in Asks |-> "none"]
    /\ dnsThread = [a \in Asks |-> "none"]

AskGoes(a, at) == askAt' = [askAt EXCEPT ![a] = at]

\* Mutant: the flight listed for the name is removed, whichever it is.
LeaveAnyFlight(f) == flights' = [flights EXCEPT ![needs[f]] = NoFlight]

\* `leave`: removed only if it is still the one listed.
LeaveFlight(f) == flights' = IF flights[needs[f]] = f THEN [flights EXCEPT ![needs[f]] = NoFlight] ELSE flights

\* Until its thread ends, a lookup has its worker.
Busy == {f \in Asks : dnsThread[f] \in {"looking", "found", "told"}}

-----------------------------------------------------------------------------
(* The ask. *)

AskForName(a) ==
    /\ askAt[a] = "none"
    /\ AskGoes(a, "asks")
    /\ UNCHANGED <<waitsForWorker, needs, joins, flights, answer, dnsThread>>

\* A look at the flights, under their lock: one to join, or the ask's own.
JoinOrBegin(a) ==
    /\ askAt[a] = "asks"
    /\ IF flights[needs[a]] # NoFlight
         THEN AskGoes(a, "joined") /\ joins' = [joins EXCEPT ![a] = flights[needs[a]]] /\ UNCHANGED flights
         ELSE AskGoes(a, "begun") /\ flights' = [flights EXCEPT ![needs[a]] = a] /\ UNCHANGED joins
    /\ UNCHANGED <<waitsForWorker, needs, answer, dnsThread>>

JoinedAnswer(a) ==
    /\ askAt[a] = "joined" /\ answer[joins[a]] \in {"system", "capacity"}
    /\ AskGoes(a, IF answer[joins[a]] = "system" THEN "answered" ELSE "failed")
    /\ UNCHANGED <<waitsForWorker, needs, joins, flights, answer, dnsThread>>

\* The flight ended without a word: this ask looks again, and may begin its own.
JoinedNothing(a) ==
    /\ askAt[a] = "joined" /\ answer[joins[a]] = "closed"
    /\ LeaveFlight(joins[a])
    /\ AskGoes(a, "asks")
    /\ joins' = [joins EXCEPT ![a] = NoFlight]
    /\ UNCHANGED <<waitsForWorker, needs, answer, dnsThread>>

\* No worker free and no wait for one: who joined is told so before the flight is left.
NoWorker(a) ==
    /\ askAt[a] = "begun" /\ ~waitsForWorker /\ Cardinality(Busy) = DnsWorkers
    /\ answer' = [answer EXCEPT ![a] = "capacity"]
    /\ AskGoes(a, "refusing")
    /\ UNCHANGED <<waitsForWorker, needs, joins, flights, dnsThread>>

\* `spawn_permitted`; a thread the system cannot start takes the flight's voice with it.
BeginLookup(a) ==
    /\ askAt[a] = "begun" /\ Cardinality(Busy) < DnsWorkers
    /\ \/ /\ dnsThread' = [dnsThread EXCEPT ![a] = "looking"]
          /\ AskGoes(a, "looks")
          /\ UNCHANGED answer
       \/ /\ answer' = [answer EXCEPT ![a] = "closed"]
          /\ AskGoes(a, "refusing")
          /\ UNCHANGED dnsThread
    /\ UNCHANGED <<waitsForWorker, needs, joins, flights>>

\* The guard of the flight (`Leave`), at the end of a refused ask.
AskRefused(a) ==
    /\ askAt[a] = "refusing"
    /\ LeaveFlight(a)
    /\ AskGoes(a, "failed")
    /\ UNCHANGED <<waitsForWorker, needs, joins, answer, dnsThread>>

\* The request is given up on.  Waiting for a worker its guard leaves the flight
\* first, then its voice goes; a thread that looks goes on for those who joined.
GiveUpAsk(a) ==
    /\ \/ askAt[a] \in {"joined", "looks"} /\ AskGoes(a, "gone") /\ UNCHANGED flights
       \/ askAt[a] = "begun" /\ waitsForWorker /\ AskGoes(a, "dropping") /\ LeaveFlight(a)
    /\ UNCHANGED <<waitsForWorker, needs, joins, answer, dnsThread>>

DropVoice(a) ==
    /\ askAt[a] = "dropping"
    /\ answer' = [answer EXCEPT ![a] = "closed"]
    /\ AskGoes(a, "gone")
    /\ UNCHANGED <<waitsForWorker, needs, joins, flights, dnsThread>>

-----------------------------------------------------------------------------
(* The thread. *)

ThreadGoes(f, at) == dnsThread' = [dnsThread EXCEPT ![f] = at]

\* The system answers, addresses or an error: the flight is left, then told.
LookupReturns(f) ==
    /\ dnsThread[f] = "looking"
    /\ LeaveFlight(f)
    /\ ThreadGoes(f, "found")
    /\ UNCHANGED <<waitsForWorker, needs, askAt, joins, answer>>

TellAnswer(f) ==
    /\ dnsThread[f] = "found"
    /\ answer' = [answer EXCEPT ![f] = "system"]
    /\ ThreadGoes(f, "told")
    /\ UNCHANGED <<waitsForWorker, needs, askAt, joins, flights>>

\* It answers its own ask and lets its worker go.
ThreadEnds(f) ==
    /\ dnsThread[f] = "told"
    /\ ThreadGoes(f, "over")
    /\ askAt' = [askAt EXCEPT ![f] = IF @ = "looks" THEN "answered" ELSE @]
    /\ UNCHANGED <<waitsForWorker, needs, joins, flights, answer>>

\* A lookup that panics says nothing, and leaves its flight listed.
LookupPanics(f) ==
    /\ dnsThread[f] = "looking"
    /\ ThreadGoes(f, "over")
    /\ answer' = [answer EXCEPT ![f] = "closed"]
    /\ askAt' = [askAt EXCEPT ![f] = IF @ = "looks" THEN "failed" ELSE @]
    /\ UNCHANGED <<waitsForWorker, needs, joins, flights>>

LookupsNext ==
    \E a \in Asks :
        \/ AskForName(a) \/ JoinOrBegin(a) \/ JoinedAnswer(a) \/ JoinedNothing(a)
        \/ NoWorker(a) \/ BeginLookup(a) \/ AskRefused(a) \/ GiveUpAsk(a) \/ DropVoice(a)
        \/ LookupReturns(a) \/ TellAnswer(a) \/ ThreadEnds(a) \/ LookupPanics(a)

LookupsSpec == LookupsInit /\ [][LookupsNext]_dnsVars

-----------------------------------------------------------------------------
(* Properties. *)

\* However asks are given up, refused and begun anew, a name is looked up once at a
\* time; who joined a flight waits for an ask or a thread that is still to speak, or was
\* told; and a flight stays listed past its end only after a lookup that panicked, until
\* the name is asked for again (llm/dns.rs answer, leave).
LookupsAreShared ==
    /\ \A f, g \in Asks : dnsThread[f] = "looking" /\ dnsThread[g] = "looking" /\ needs[f] = needs[g] => f = g
    /\ \A a \in Asks : askAt[a] = "joined" /\ answer[joins[a]] = "none" =>
          askAt[joins[a]] \in {"begun", "dropping"} \/ dnsThread[joins[a]] \in {"looking", "found"}
    /\ \A n \in Domains : flights[n] # NoFlight =>
          \/ askAt[flights[n]] \in {"begun", "refusing"}
          \/ dnsThread[flights[n]] = "looking"
          \/ dnsThread[flights[n]] = "over" /\ answer[flights[n]] = "closed"

=============================================================================
