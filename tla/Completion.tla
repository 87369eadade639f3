----------------------------- MODULE Completion -----------------------------
(***************************************************************************)
(* A request to the language model's server, asked again as often as its   *)
(* failures allow (src/backend/src/llm.rs, OpenAiClient::complete and      *)
(* attempt).  Every attempt streams: its text goes to the screen as it     *)
(* comes, its calls are kept until the end.  What the endpoint refused and *)
(* was then answered without is remembered for every later request, in     *)
(* caches all requests share.  No caller of this client asks for a         *)
(* response format, so its fallbacks are not here.                         *)
(***************************************************************************)
EXTENDS Naturals, Sequences, FiniteSets

CONSTANTS
    Completions,   \* callers, each with one request at a time
    Optional,      \* parameters a server may not know (OPTIONAL_PARAMETERS)
    Retries,       \* config.retries
    RetryTimeouts, \* config.retry_timeouts: false for a follow-up answer
    Texts          \* pieces of text one attempt may send

VARIABLES
    request,       \* each request, and the attempt under way
    leftOut,       \* OPTIONAL_PARAMETER_REJECTED of this endpoint
    noneIgnored,   \* TOOL_CHOICE_NONE_UNSUPPORTED
    limitIgnored,  \* COMPLETION_LIMIT_IGNORED
    shown          \* what each request sent to the screen: the attempt of each piece

completionVars == <<request, leftOut, noneIgnored, limitIgnored, shown>>
memory == <<leftOut, noneIgnored, limitIgnored>>

Nothing == [text |-> 0, call |-> "none", begun |-> FALSE, finish |-> "none"]

\* `tools`: offered, withheld with tool_choice "none", or withheld by leaving their
\* definitions out.  `withheld` is what the caller asked for.
NewRequest(withheld) ==
    [at |-> "new", withheld |-> withheld, tools |-> IF withheld THEN "withheld" ELSE "offered",
     params |-> {}, without |-> {}, fallback |-> FALSE, attempt |-> 0, retries |-> 0,
     unbilled |-> 0, limit |-> "completion", body |-> Nothing]

CompletionTypeOK ==
    /\ \A r \in Completions :
          /\ request[r].at \in {"new", "sending", "reading", "waiting", "answered", "failed", "cancelled"}
          /\ request[r].tools \in {"offered", "withheld", "dropped"}
          /\ request[r].params \subseteq Optional /\ request[r].without \subseteq Optional
          /\ request[r].body \in [text : 0..Texts, call : {"none", "whole", "broken", "unnamed"},
                                  begun : BOOLEAN, finish : {"none", "stop", "tool_calls", "length"}]
          /\ shown[r] \in Seq(Nat)
    /\ leftOut \subseteq Optional /\ noneIgnored \in BOOLEAN /\ limitIgnored \in BOOLEAN

CompletionInit ==
    /\ request \in [Completions -> {NewRequest(w) : w \in BOOLEAN}]
    /\ leftOut = {} /\ noneIgnored = FALSE /\ limitIgnored = FALSE
    /\ shown = [r \in Completions |-> <<>>]

Is(r, at) == request[r].at = at
Becomes(r, next) == request' = [request EXCEPT ![r] = next]
Goes(r, at) == Becomes(r, [request[r] EXCEPT !.at = at])

\* `complete` before its loop.
Compose(r) ==
    /\ Is(r, "new")
    /\ Becomes(r, [request[r] EXCEPT
           !.at = "sending", !.params = Optional \ leftOut,
           !.tools = IF request[r].withheld /\ noneIgnored THEN "dropped" ELSE @])
    /\ UNCHANGED <<memory, shown>>

\* A failure, by what the loop tells apart of its text.  `named` is the optional
\* parameter of this request that a 400 or 422 names.
NoneNamed == "none"
Error(kind, timeout, named) == [kind |-> kind, timeout |-> timeout, named |-> named]

\* transient_error
Transient(e) == e.kind \in {"overload", "unreachable", "silence", "interrupted", "stream_refused", "stream_failed"}

\* unbilled_attempts: refused by status, or by an event before any output.
Unbilled(e) == e.kind \in {"bad_request", "overflow", "denied", "overload", "stream_refused"}

\* What an attempt shows of having generated anything (`unstarted`).
Started(body) == body # Nothing

\* The failed attempt is recorded; the request as it is changed for the next one.
Again(r, e, changed) ==
    Becomes(r, [changed EXCEPT !.attempt = @ + 1, !.body = Nothing,
                               !.unbilled = @ + IF Unbilled(e) THEN 1 ELSE 0])

DropsParameter(r, e) == e.kind = "bad_request" /\ e.named \in request[r].params

DropsTools(r, e) ==
    e.kind = "bad_request" /\ request[r].tools = "withheld" /\ ~request[r].fallback

\* Mutant: an attempt that showed its text is retried too.
MayRetryAfterText(r, e) ==
    /\ ~(e.timeout /\ ~RetryTimeouts)
    /\ Transient(e) \/ (request[r].attempt = 0 /\ e.kind \in {"invalid_arguments", "invalid_event"})

\* Only before any text went out: a partial response is discarded, never merged.
MayRetry(r, e) ==
    /\ shown[r] = <<>>
    /\ ~(e.timeout /\ ~RetryTimeouts)
    /\ Transient(e) \/ (request[r].attempt = 0 /\ e.kind \in {"invalid_arguments", "invalid_event"})

\* The Err arm, its fallbacks in their order.
Fails(r, e) ==
    /\ \/ /\ DropsParameter(r, e)
          /\ Again(r, e, [request[r] EXCEPT !.at = "sending", !.params = @ \ {e.named},
                                             !.without = @ \cup {e.named}])
       \/ /\ ~DropsParameter(r, e) /\ DropsTools(r, e)
          /\ Again(r, e, [request[r] EXCEPT !.at = "sending", !.tools = "dropped",
                                             !.fallback = TRUE])
       \/ /\ ~DropsParameter(r, e) /\ ~DropsTools(r, e)
          /\ IF MayRetry(r, e) /\ request[r].retries < Retries
               THEN Again(r, e, [request[r] EXCEPT !.at = "waiting", !.retries = @ + 1])
               ELSE Again(r, e, [request[r] EXCEPT !.at = "failed"])
    /\ UNCHANGED <<memory, shown>>

\* The answer to the request is not a success, or does not come: a status, an
\* unreachable server, nothing within the request timeout.
RequestRefused(r) ==
    /\ Is(r, "sending")
    /\ \E e \in {Error("bad_request", FALSE, p) : p \in request[r].params \cup {NoneNamed}}
              \cup {Error(k, FALSE, NoneNamed) : k \in {"overflow", "denied", "overload", "unreachable"}}
              \cup {Error(k, TRUE, NoneNamed) : k \in {"overload", "silence"}} : Fails(r, e)

\* Success, and the stream begins.  The name the limit goes under is looked up for
\* each attempt (output_limit_field).
Streams(r) ==
    /\ Is(r, "sending")
    /\ Becomes(r, [request[r] EXCEPT !.at = "reading",
                                   !.limit = IF limitIgnored THEN "max" ELSE "completion"])
    /\ UNCHANGED <<memory, shown>>

\* What an event adds to the attempt; output after the finish reason is refused.
Reads(r, body) == Becomes(r, [request[r] EXCEPT !.body = body])

Text(r) ==
    /\ Is(r, "reading") /\ request[r].body.finish = "none" /\ request[r].body.text < Texts
    /\ Reads(r, [request[r].body EXCEPT !.text = @ + 1])
    /\ shown' = [shown EXCEPT ![r] = Append(@, request[r].attempt)]
    /\ UNCHANGED memory

\* Parts of calls: put together so far they are whole, or lack a name, or the end
\* of their arguments.
Call(r) ==
    /\ Is(r, "reading") /\ request[r].body.finish = "none"
    /\ \E c \in {"whole", "broken", "unnamed"} \ {request[r].body.call} :
          Reads(r, [request[r].body EXCEPT !.call = c])
    /\ UNCHANGED <<memory, shown>>

\* Reasoning, of which only the size is kept, or a usage.
Reasons(r) ==
    /\ Is(r, "reading") /\ ~request[r].body.begun
    /\ Reads(r, [request[r].body EXCEPT !.begun = TRUE])
    /\ UNCHANGED <<memory, shown>>

Finish(r) ==
    /\ Is(r, "reading") /\ request[r].body.finish = "none"
    /\ \E reason \in {"stop", "tool_calls", "length"} : Reads(r, [request[r].body EXCEPT !.finish = reason])
    /\ UNCHANGED <<memory, shown>>

\* An error event or finish_reason "error", a second finish reason or output after
\* it, an event that is no JSON, a broken connection, silence.
StreamFails(r) ==
    /\ Is(r, "reading")
    /\ LET given == IF Started(request[r].body) THEN "stream_failed" ELSE "stream_refused" IN
       \E e \in {Error(given, t, NoneNamed) : t \in BOOLEAN}
              \cup {Error(k, FALSE, NoneNamed) : k \in {"stream_failed", "unusable", "invalid_event", "interrupted"}}
              \cup {Error("silence", TRUE, NoneNamed)} : Fails(r, e)

\* [DONE]: what is wrong with the attempt, if anything.
Flaw(body) ==
    CASE body.finish = "none" -> "interrupted"
      [] body.finish = "length" -> "none"
      [] body.finish = "tool_calls" /\ body.call = "none" -> "unusable"
      [] body.finish # "length" /\ body.call = "unnamed" -> "unusable"
      [] body.finish # "length" /\ body.call = "broken" -> "invalid_arguments"
      [] OTHER -> "none"

Spoiled(r) ==
    /\ Is(r, "reading") /\ Flaw(request[r].body) # "none"
    /\ Fails(r, Error(Flaw(request[r].body), FALSE, NoneNamed))

\* The Ok arm.  A withheld tool that was called all the same, a fallback that was
\* answered and an answer past its limit are what the endpoint is remembered for.
Succeeds(r) ==
    /\ Is(r, "reading") /\ Flaw(request[r].body) = "none"
    /\ \E over \in IF request[r].body.begun THEN BOOLEAN ELSE {FALSE} :
          LET called == request[r].tools = "withheld" /\ request[r].body.call # "none" IN
          /\ Goes(r, "answered")
          /\ leftOut' = leftOut \cup request[r].without
          /\ noneIgnored' = (noneIgnored \/ request[r].fallback \/ called)
          /\ limitIgnored' = (limitIgnored \/ over)
    /\ UNCHANGED shown

\* 500 ms doubled for each attempt, up to 32 times.
WaitOver(r) ==
    /\ Is(r, "waiting")
    /\ Goes(r, "sending")
    /\ UNCHANGED <<memory, shown>>

\* The question was stopped, or its time is over: every wait sees it.
Cancel(r) ==
    /\ request[r].at \in {"sending", "reading", "waiting"}
    /\ Goes(r, "cancelled")
    /\ UNCHANGED <<memory, shown>>

\* `complete` has returned; the caller's next request.
NextRequest(r) ==
    /\ request[r].at \in {"answered", "failed", "cancelled"}
    /\ \E withheld \in BOOLEAN : request' = [request EXCEPT ![r] = NewRequest(withheld)]
    /\ shown' = [shown EXCEPT ![r] = <<>>]
    /\ UNCHANGED memory

\* Each cache keeps 128 entries: other endpoints may push this one's out.
Forget ==
    /\ memory # <<{}, FALSE, FALSE>>
    /\ leftOut' = {} /\ noneIgnored' = FALSE /\ limitIgnored' = FALSE
    /\ UNCHANGED <<request, shown>>

CompletionNext ==
    \/ Forget
    \/ \E r \in Completions :
          \/ Compose(r) \/ RequestRefused(r) \/ Streams(r) \/ Text(r) \/ Call(r) \/ Reasons(r) \/ Finish(r)
          \/ StreamFails(r) \/ Spoiled(r) \/ Succeeds(r) \/ WaitOver(r) \/ Cancel(r)
          \/ NextRequest(r)

CompletionSpec == CompletionInit /\ [][CompletionNext]_completionVars

\* The screen never has pieces of two attempts, and an answer is all of what its
\* own attempt showed and nothing else, however many attempts came before it
\* (llm.rs complete, `silent`).
ShownIsTheAnswer ==
    \A r \in Completions :
        /\ \A i, j \in DOMAIN shown[r] : shown[r][i] = shown[r][j]
        /\ Is(r, "answered") => shown[r] = [i \in 1..request[r].body.text |-> request[r].attempt]

=============================================================================
