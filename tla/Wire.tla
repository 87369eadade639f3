-------------------------------- MODULE Wire --------------------------------
(***************************************************************************)
(* How an answer of an MCP server finds the request it answers             *)
(* (src/backend/src/mcp/wire.rs; mod.rs for a stdio server).  The SDK      *)
(* drops what it cannot read and the request waits on, so every message is *)
(* mended first: a stdio line, an HTTP answer, an event of a stream.       *)
(*                                                                         *)
(* The SDK (rmcp) is modelled by how the code around it uses it: a         *)
(* response is looked for before an error, and only in a message of        *)
(* JSON-RPC 2.0.  Left out: pacing of streams, headers, what errors say.   *)
(***************************************************************************)
CONSTANTS
    Requests,       \* ids of requests, each sent once
    NoRequest,      \* no id (null)
    OtherRequest    \* an id nothing waits for

ASSUME WireAssumption == {NoRequest, OtherRequest} \cap Requests = {} /\ NoRequest # OtherRequest

VARIABLES
    transport,   \* "stdio" or "http"
    exchange,    \* what became of each request
    posted,      \* its own HTTP answer
    came,        \* the last message with its id the SDK was given while it waited
    session,     \* the HTTP session
    renewed      \* `renewed` was rung: the SDK made a session for one the server forgot

wireVars == <<transport, exchange, posted, came, session, renewed>>

\* A message as far as its reading tells one from another.  `text`: read as it is;
\* with escapes no character has; with a number JSON cannot write; refused by the
\* parser otherwise (nested too deep, a comma too many); cut short; no JSON.
Ids == Requests \cup {NoRequest, OtherRequest}
Results == {"absent", "null", "value"}
Message ==
    [text : {"fine"}, version : BOOLEAN, id : Ids, result : Results, error : {"absent", "good", "bad"}, method : BOOLEAN]
    \cup [text : {"escaped", "unwritable", "deep", "cut", "noise"}, version : BOOLEAN, id : Ids, result : Results,
           error : {"absent", "bad"}, method : {FALSE}]

NoMessage == [text |-> "noise", version |-> FALSE, id |-> NoRequest, result |-> "absent", error |-> "absent", method |-> FALSE]

WireInit ==
    /\ transport \in {"stdio", "http"}
    /\ exchange = [i \in Requests |-> "idle"] /\ posted = [i \in Requests |-> "none"]
    /\ came = [i \in Requests |-> NoMessage]
    /\ session = "none" /\ renewed = FALSE

-----------------------------------------------------------------------------
(* Mending. *)

\* An answer with neither a result nor an error.
Resultless(m) == m.version /\ m.id # NoRequest /\ m.result = "absent" /\ m.error = "absent" /\ ~m.method

\* An error beside a null result would be read as a success.
NullResult(m) == m.error # "absent" /\ m.result = "null"

\* Mutant: a null result is left beside an error.
PutRightKeepingNull(m) ==
    IF \/ m.result # "value" /\ ~m.method /\ m.error = "absent" /\ ~Resultless(m)
       \/ m.version /\ m.error # "bad" /\ ~Resultless(m)
    THEN m
    ELSE [m EXCEPT !.version = TRUE,
                   !.result = IF Resultless(m) THEN "null" ELSE @,
                   !.error = IF @ = "bad" THEN "good" ELSE @]

PutRight(m) ==
    IF \/ m.result # "value" /\ ~m.method /\ m.error = "absent" /\ ~Resultless(m)
       \/ m.version /\ m.error # "bad" /\ ~NullResult(m) /\ ~Resultless(m)
    THEN m
    ELSE [m EXCEPT !.version = TRUE,
                   !.result = IF NullResult(m) THEN "absent" ELSE IF Resultless(m) THEN "null" ELSE @,
                   !.error = IF @ = "bad" THEN "good" ELSE @]

IsAnswer(m) == m.result # "absent" \/ m.error # "absent"

\* What the parser refuses: numbers become null or strings; an answer refused all the
\* same becomes an error for its request.
Read(m) ==
    IF m.text = "unwritable" /\ (IsAnswer(m) \/ m.method) THEN PutRight([m EXCEPT !.text = "fine"])
    ELSE IF m.text = "deep" /\ IsAnswer(m) /\ ~m.method /\ m.id # NoRequest
    THEN [m EXCEPT !.text = "fine", !.version = TRUE, !.result = "absent", !.error = "good"]
    ELSE m

Mend(m) ==
    CASE m.text = "fine" -> PutRight(m)
      [] m.text = "escaped" -> PutRight([m EXCEPT !.text = "fine"])
      [] OTHER -> Read(m)

\* What the SDK reads in a message.
SdkReads(m) ==
    IF m.text # "fine" \/ ~m.version THEN "nothing"
    ELSE IF m.method THEN "own"
    ELSE IF m.id # NoRequest /\ m.result # "absent" THEN "response"
    ELSE IF m.error = "good" THEN "error" ELSE "nothing"

\* The request waiting for it ends; a null result is no answer to a call.
Resolved(m) ==
    [i \in Requests |->
        IF exchange[i] # "waiting" \/ m.id # i THEN exchange[i]
        ELSE CASE SdkReads(m) = "response" /\ m.result = "value" -> "answered"
               [] SdkReads(m) = "response" /\ m.result = "null" -> "unexpected"
               [] SdkReads(m) = "error" -> "error"
               [] OTHER -> exchange[i]]

Came(m) == came' = [i \in Requests |-> IF m.id = i /\ exchange[i] = "waiting" THEN m ELSE came[i]]

-----------------------------------------------------------------------------
Request(i) ==
    /\ exchange[i] = "idle"
    /\ exchange' = [exchange EXCEPT ![i] = "waiting"]
    /\ posted' = [posted EXCEPT ![i] = IF transport = "http" THEN "sent" ELSE "none"]
    /\ UNCHANGED <<transport, came, session, renewed>>

\* The call's time is up, or its connection is given up.
GivesUp(i) ==
    /\ exchange[i] = "waiting"
    /\ exchange' = [exchange EXCEPT ![i] = "failed"]
    /\ UNCHANGED <<transport, posted, came, session, renewed>>

\* A line of a stdio server.  One that is no message is passed over, or answered as an
\* invalid request while nothing else is written; neither ends a request.
ReadMessage ==
    /\ transport = "stdio"
    /\ \E m \in Message : ~m.method /\ exchange' = Resolved(Mend(m)) /\ Came(m)
    /\ UNCHANGED <<transport, posted, session, renewed>>

\* An initialization the server answered: the first, or one the SDK made by itself once
\* the server had forgotten its session.
Initialized ==
    /\ transport = "http" /\ session # "open"
    /\ session' = "open" /\ renewed' = (renewed \/ session = "lost")
    /\ UNCHANGED <<transport, exchange, posted, came>>

-----------------------------------------------------------------------------
(* The HTTP answer to a request's POST. *)

Ends(i, how) ==
    /\ exchange' = [exchange EXCEPT ![i] = IF @ = "waiting" THEN how ELSE @]
    /\ posted' = [posted EXCEPT ![i] = "closed"]

Sent(i) == posted[i] = "sent"

\* 202 or 204: the answer comes on the standing stream, if ever.
Accepted(i) ==
    /\ Sent(i)
    /\ posted' = [posted EXCEPT ![i] = "accepted"]
    /\ UNCHANGED <<transport, exchange, came, session, renewed>>

\* 404 with a session: the server no longer knows it.
SessionExpired(i) ==
    /\ Sent(i) /\ session = "open"
    /\ session' = "lost"
    /\ Ends(i, "failed")
    /\ UNCHANGED <<transport, came, renewed>>

\* No connection, a challenge, a type that is neither JSON nor events, a refusal that
\* is no JSON-RPC error, a body that breaks off.
PostFails(i) ==
    /\ Sent(i)
    /\ Ends(i, "failed")
    /\ UNCHANGED <<transport, came, session, renewed>>

\* A refused server/discover without a session is answered by an error of its own, and
\* an answer too long is not read: the request is answered with an error.
AnsweredWithError(i) ==
    /\ Sent(i)
    /\ Ends(i, "error")
    /\ UNCHANGED <<transport, came, session, renewed>>

\* An error for another request or for none (`mended_response`).
ForNoRequest(i, m) == SdkReads(m) = "error" /\ m.id # i

\* A JSON body: of a success, mended; of a refusal, a JSON-RPC error as it is.  A
\* request of the server's own, or an answer to another, goes where it belongs.
JsonBody(i) ==
    /\ Sent(i)
    /\ \E m \in Message, refusal \in BOOLEAN :
          LET read == IF refusal THEN m ELSE Mend(m)
              fails == \/ SdkReads(read) = "nothing" \/ ForNoRequest(i, read)
                       \/ refusal /\ SdkReads(read) # "error"
              elsewhere == SdkReads(read) = "own" \/ (SdkReads(read) = "response" /\ read.id # i) IN
          IF fails THEN Ends(i, "failed") /\ UNCHANGED came
             ELSE /\ Came(m)
                  /\ exchange' = Resolved(read)
                  /\ posted' = [posted EXCEPT ![i] = IF elsewhere THEN "elsewhere" ELSE "closed"]
    /\ UNCHANGED <<transport, session, renewed>>

EventStream(i) ==
    /\ Sent(i)
    /\ posted' = [posted EXCEPT ![i] = "streaming"]
    /\ UNCHANGED <<transport, exchange, came, session, renewed>>

\* An event of a request's stream, or of the standing one, which is read no further
\* once an event of it is too long.
Event ==
    /\ transport = "http"
    /\ \E m \in Message : ~m.method /\ exchange' = Resolved(Mend(m)) /\ Came(m)
    /\ UNCHANGED <<transport, posted, session, renewed>>

\* An event past the limit answers the request of its stream and ends it.
EventTooLong(i) ==
    /\ posted[i] = "streaming"
    /\ Ends(i, "error")
    /\ UNCHANGED <<transport, came, session, renewed>>

StreamEnds(i) ==
    /\ posted[i] = "streaming"
    /\ Ends(i, "failed")
    /\ UNCHANGED <<transport, came, session, renewed>>

WireNext ==
    \/ \E i \in Requests :
          \/ Request(i) \/ GivesUp(i) \/ Accepted(i) \/ SessionExpired(i) \/ PostFails(i)
          \/ AnsweredWithError(i) \/ JsonBody(i) \/ EventStream(i) \/ EventTooLong(i) \/ StreamEnds(i)
    \/ ReadMessage \/ Initialized \/ Event

WireSpec == WireInit /\ [][WireNext]_wireVars

-----------------------------------------------------------------------------
(* Properties. *)

\* A message a server means as the answer to a request: a result, an error, or what
\* JSON.stringify leaves of an undefined result; all of it there.
MeantFor(i, m) ==
    /\ m.id = i /\ ~m.method
    /\ \/ IsAnswer(m) /\ m.text \notin {"cut", "noise"}
       \/ Resultless(m) /\ m.text \in {"fine", "escaped"}

\* An answer of null without a version is not mended (README, Findings).
LeftUnread(m) == ~m.version /\ m.result = "null" /\ m.error = "absent" /\ m.text # "deep"

\* An answer ends its request, however badly it is written; a success is only read in
\* a message that has a result for it, an error is never read as an empty success, and
\* a POST's own JSON answer ends it unless it answers another (wire.rs mend, put_right,
\* readable, mended_response).
AnswersFindTheirRequest ==
    \A i \in Requests :
        /\ exchange[i] = "waiting" /\ MeantFor(i, came[i]) => LeftUnread(came[i])
        /\ exchange[i] = "answered" => came[i].id = i /\ came[i].result = "value"
        /\ exchange[i] = "unexpected" => came[i].error = "absent"
        /\ posted[i] = "closed" => exchange[i] # "waiting"

=============================================================================
