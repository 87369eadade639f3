-------------------------- MODULE AnswerLoopProofs --------------------------
(***************************************************************************)
(* The answer loop, for every value of its constants: its state keeps its  *)
(* type, the context stays whole, the screen shows the answer and nothing  *)
(* else, what a question said and did stays in its conversation, and       *)
(* pruning is safe.                                                        *)
(*                                                                         *)
(* What the context holds is TalkOK: the history is well formed (see       *)
(* HistoryProofs) and the question asked stands in it, protected from      *)
(* eviction by its bundle's id.  ScreenIsTheAnswer needs ReplyOK, which    *)
(* ties what a response has shown to what it has written, for a response's *)
(* whole text joins the answer when it ends.  Each way a question goes on  *)
(* or ends (Finish, Bail, Continue) is a lemma, each action a lemma above  *)
(* those.                                                                  *)
(***************************************************************************)
EXTENDS AnswerLoop, HistoryProofs, FiniteSetTheorems

\* TypeOK without the screen, which the actions give a value apart from the rest.
LoopTypeOK ==
    /\ history \in HistoryType
    /\ question \in Nat /\ bundle \in Nat
    /\ pc \in {"idle", "top", "asking", "waiting", "calling"}
    /\ left \in 0..Early /\ cancelled \in BOOLEAN
    /\ pieces \in 0..Continuations /\ written \in Nat
    /\ reply \in Reply /\ final \in BOOLEAN
    /\ tries \in Tries /\ asksSearch \in BOOLEAN /\ counted \in BOOLEAN
    /\ outcome \in {"none", "answered", "failed", "cancelled"} /\ answer \in Nat
    /\ ran \in Nat

\* What the relay passed on is what the response wrote, as long as nobody stopped
\* it; what is still held was not passed on.
ReplyOK ==
    /\ reply.shown <= reply.text
    /\ reply.lead # "free" => reply.shown = 0
    /\ reply.lead = "free" /\ ~cancelled => reply.shown = reply.text
    /\ pc # "asking" => reply = NoReply

\* The history is well formed and holds the question asked.
TalkOK ==
    /\ WellFormed(history, question)
    /\ pc # "idle" => Standing(history, question, bundle)

LoopInv == LoopTypeOK /\ ReplyOK /\ TalkOK
\* What the screen shows, and what is written of the answer, while the question
\* goes on and when it ended.
ScreenOK ==
    /\ screen \in Nat
    /\ pieces = 0 => written = 0
    /\ pc # "idle" => outcome = "none"
    /\ ScreenIsTheAnswer

IInv == LoopInv /\ ScreenOK

-----------------------------------------------------------------------------
(* How a question goes on or ends. *)

USE AnswerLoopAssumption DEF AnswerLoopAssumption

LEMMA NoReplyTyped == NoReply \in Reply /\ NoTries \in Tries
BY DEF NoReply, Reply, NoTries, Tries

LEMMA FinishKeeps ==
    ASSUME LoopInv, NEW h, WellFormed(h, question), Standing(h, question, bundle),
           NEW text \in Nat, Finish(h, text)
    PROVE  LoopInv' /\ pc' = "idle" /\ outcome' = "answered" /\ answer' = text
           /\ cancelled' = cancelled
<1> DEFINE m == Message("reply", question, text)
<1>1. question \in Nat
    BY DEF LoopInv, LoopTypeOK
<1>2. m \in Messages /\ m.question = question /\ m.kind # "user"
    BY <1>1 DEF Message, Messages, Kinds
<1>3. WellFormed(PopPiece(h), question) /\ Standing(PopPiece(h), question, bundle)
    BY <1>1, PopKeeps
<1>4. WellFormed(Push(PopPiece(h), m), question) /\ Standing(Push(PopPiece(h), m), question, bundle)
    <2> HIDE DEF m
    <2> QED BY <1>1, <1>2, <1>3, JoinKeeps
<1>5. WellFormed(history', question)
    BY <1>1, <1>4, PruneKeeps DEF Finish
<1>6. TalkOK'
    BY <1>5 DEF TalkOK, Finish, Leave
<1>7. ReplyOK'
    BY DEF ReplyOK, Finish, Leave, NoReply
<1>8. LoopTypeOK'
    <2>1. history' \in HistoryType
        BY <1>5 DEF WellFormed
    <2>2. left' \in 0..Early /\ pieces' \in 0..Continuations
        BY DEF Finish, Leave, Early
    <2>3. cancelled' \in BOOLEAN /\ final' \in BOOLEAN /\ asksSearch' \in BOOLEAN /\ counted' \in BOOLEAN
        BY DEF LoopTypeOK, LoopInv, Finish, Leave
    <2> QED BY <2>1, <2>2, <2>3, NoReplyTyped DEF LoopTypeOK, LoopInv, Finish, Leave
<1> QED BY <1>6, <1>7, <1>8 DEF LoopInv, Finish, Leave

LEMMA BailKeeps ==
    ASSUME LoopInv, NEW h, WellFormed(h, question), NEW how \in {"failed", "cancelled"}, Bail(h, how)
    PROVE  LoopInv' /\ pc' = "idle" /\ outcome' = how /\ cancelled' = cancelled
<1>1. TalkOK'
    BY DEF TalkOK, Bail, Leave
<1>2. ReplyOK'
    BY DEF ReplyOK, Bail, Leave, NoReply
<1>3. LoopTypeOK'
    <2>1. history' \in HistoryType
        BY DEF WellFormed, Bail
    <2>2. left' \in 0..Early /\ pieces' \in 0..Continuations
        BY DEF Bail, Leave, Early
    <2>3. cancelled' \in BOOLEAN /\ final' \in BOOLEAN /\ asksSearch' \in BOOLEAN /\ counted' \in BOOLEAN
        BY DEF LoopTypeOK, LoopInv, Bail, Leave
    <2> QED BY <2>1, <2>2, <2>3, NoReplyTyped DEF LoopTypeOK, LoopInv, Bail, Leave
<1> QED BY <1>1, <1>2, <1>3 DEF LoopInv, Bail, Leave

LEMMA ContinueKeeps ==
    ASSUME LoopInv, NEW h, WellFormed(h, question), Standing(h, question, bundle),
           NEW counters \in Tries, Continue(h, counters),
           asksSearch' \in BOOLEAN, counted' \in BOOLEAN
    PROVE  /\ LoopInv' /\ pc' = "top" /\ reply' = NoReply
           /\ UNCHANGED <<cancelled, written, pieces, outcome, answer>>
<1>1. TalkOK'
    BY DEF TalkOK, Continue
<1>2. ReplyOK'
    BY DEF ReplyOK, Continue, NoReply
<1>3. LoopTypeOK'
    BY NoReplyTyped DEF LoopTypeOK, LoopInv, Continue, WellFormed, turn, result
<1> QED BY <1>1, <1>2, <1>3 DEF LoopInv, Continue, turn, result

\* What a response ends as.
LEMMA EndsTyped ==
    ASSUME NEW s \in Reply, s.shown <= s.text, s.lead # "free" => s.shown = 0,
           s.lead = "free" /\ ~cancelled => s.shown = s.text,
           NEW r \in EndOfStream(s)
    PROVE  /\ r \in Reply /\ r.shown >= s.shown /\ r.shown <= r.text /\ r.text = s.text
           /\ ~cancelled /\ r.lead = "free" => r.shown = r.text
           /\ r.lead # "free" => r.shown = 0
           /\ r.text > 0 => r.lead # "undecided"
           /\ ~cancelled => r.shown \in {0, r.text}
<1>1. CASE s.lead = "undecided" /\ s.text > 0
    <2>1. \/ r = [s EXCEPT !.lead = "claims"]
          \/ cancelled /\ r = [s EXCEPT !.lead = "free", !.shown = s.shown]
          \/ ~cancelled /\ r = [s EXCEPT !.lead = "free", !.shown = s.text]
        BY <1>1 DEF EndOfStream
    <2>2. \/ r = [text |-> s.text, shown |-> s.shown, lead |-> "claims"]
          \/ cancelled /\ r = [text |-> s.text, shown |-> s.shown, lead |-> "free"]
          \/ ~cancelled /\ r = [text |-> s.text, shown |-> s.text, lead |-> "free"]
        BY <2>1 DEF Reply
    <2> QED BY <1>1, <2>2 DEF Reply
<1>2. CASE ~(s.lead = "undecided" /\ s.text > 0)
    BY <1>2 DEF EndOfStream, Reply
<1> QED BY <1>1, <1>2

LEMMA WroteTyped ==
    ASSUME NEW s \in Reply, s.shown <= s.text, s.lead # "free" => s.shown = 0,
           s.lead = "free" /\ ~cancelled => s.shown = s.text,
           NEW r \in Wrote(s)
    PROVE  /\ r \in Reply /\ r.shown >= s.shown /\ r.shown <= r.text /\ r.text = s.text + 1
           /\ ~cancelled /\ r.lead = "free" => r.shown = r.text
           /\ r.lead # "free" => r.shown = 0
<1>1. CASE cancelled
    BY <1>1 DEF Wrote, Reply
<1>2. CASE ~cancelled /\ s.lead = "free"
    <2>1. r = [[s EXCEPT !.text = s.text + 1] EXCEPT !.shown = s.shown + 1]
        BY <1>2 DEF Wrote, Reply
    <2>2. r = [text |-> s.text + 1, shown |-> s.shown + 1, lead |-> s.lead]
        BY <2>1 DEF Reply
    <2> QED BY <1>2, <2>2 DEF Reply
<1>3. CASE ~cancelled /\ s.lead = "claims"
    BY <1>3 DEF Wrote, Reply
<1>4. CASE ~cancelled /\ s.lead = "undecided"
    <2>1. \/ r = [s EXCEPT !.text = s.text + 1]
          \/ r = [[s EXCEPT !.text = s.text + 1] EXCEPT !.lead = "claims"]
          \/ r = [[s EXCEPT !.text = s.text + 1] EXCEPT !.lead = "free", !.shown = s.text + 1]
        BY <1>4 DEF Wrote, Reply
    <2>2. \/ r = [text |-> s.text + 1, shown |-> s.shown, lead |-> s.lead]
          \/ r = [text |-> s.text + 1, shown |-> s.shown, lead |-> "claims"]
          \/ r = [text |-> s.text + 1, shown |-> s.text + 1, lead |-> "free"]
        BY <2>1 DEF Reply
    <2> QED BY <1>4, <2>2 DEF Reply
<1> QED BY <1>1, <1>2, <1>3, <1>4 DEF Reply

-----------------------------------------------------------------------------
(* What each way to go on or end does to the invariant. *)

LEMMA FinishEnds ==
    ASSUME IInv, NEW h, WellFormed(h, question), Standing(h, question, bundle),
           NEW text \in Nat, Finish(h, text), screen' \in Nat, ~cancelled => screen' = text
    PROVE  IInv'
<1>1. LoopInv' /\ pc' = "idle" /\ outcome' = "answered" /\ answer' = text /\ cancelled' = cancelled
    BY FinishKeeps DEF IInv
<1>2. written' = 0
    BY DEF Finish, Leave
<1> QED BY <1>1, <1>2 DEF IInv, ScreenOK, ScreenIsTheAnswer

LEMMA BailEnds ==
    ASSUME IInv, NEW h, WellFormed(h, question), NEW how \in {"failed", "cancelled"}, Bail(h, how),
           screen' \in Nat, how = "failed" /\ ~cancelled => screen' = 0
    PROVE  IInv'
<1>1. LoopInv' /\ pc' = "idle" /\ outcome' = how /\ cancelled' = cancelled
    BY BailKeeps DEF IInv
<1>2. written' = 0
    BY DEF Bail, Leave
<1> QED BY <1>1, <1>2 DEF IInv, ScreenOK, ScreenIsTheAnswer

LEMMA ContinueGoesOn ==
    ASSUME IInv, pc # "idle", NEW h, WellFormed(h, question), Standing(h, question, bundle),
           NEW counters \in Tries, Continue(h, counters),
           asksSearch' \in BOOLEAN, counted' \in BOOLEAN,
           screen' \in Nat, ~cancelled => screen' = written
    PROVE  IInv'
<1>1. LoopInv' /\ pc' = "top" /\ reply' = NoReply
      /\ UNCHANGED <<cancelled, written, pieces, outcome, answer>>
    BY ContinueKeeps DEF IInv
<1>2. written \in Nat
    BY DEF IInv, LoopInv, LoopTypeOK
<1> QED BY <1>1, <1>2 DEF IInv, ScreenOK, ScreenIsTheAnswer, NoReply

LEMMA AskingFacts ==
    ASSUME IInv, pc = "asking", NEW r \in Ends
    PROVE  /\ r \in Reply /\ r.text = reply.text /\ r.shown <= r.text /\ r.shown >= reply.shown
           /\ r.shown \in Nat /\ r.text \in Nat
           /\ ~cancelled => r.shown \in {0, r.text}
           /\ ~cancelled /\ r.lead = "free" => r.shown = r.text
           /\ r.lead # "free" => r.shown = 0
           /\ r.text > 0 => r.lead # "undecided"
           /\ Shown(r) \in Nat /\ (~cancelled => Shown(r) = written + r.shown)
           /\ Retracted(r) \in Nat /\ (~cancelled => Retracted(r) = written)
<1>1. reply \in Reply /\ reply.shown <= reply.text /\ (reply.lead # "free" => reply.shown = 0)
      /\ (reply.lead = "free" /\ ~cancelled => reply.shown = reply.text)
    BY DEF IInv, LoopInv, LoopTypeOK, ReplyOK
<1>2. /\ r \in Reply /\ r.shown >= reply.shown /\ r.shown <= r.text /\ r.text = reply.text
      /\ ~cancelled /\ r.lead = "free" => r.shown = r.text
      /\ r.lead # "free" => r.shown = 0
      /\ r.text > 0 => r.lead # "undecided"
      /\ ~cancelled => r.shown \in {0, r.text}
    BY <1>1, EndsTyped DEF Ends
<1>3. r.shown \in Nat /\ r.text \in Nat /\ reply.shown \in Nat
    BY <1>1, <1>2 DEF Reply
<1>4. screen \in Nat /\ written \in Nat /\ (~cancelled => screen = written + reply.shown)
    BY DEF IInv, LoopInv, LoopTypeOK, ScreenOK, ScreenIsTheAnswer
<1> QED BY <1>2, <1>3, <1>4 DEF Shown, Retracted

\* The conversation as the asking run sees it.
LEMMA TalkFacts ==
    ASSUME IInv, pc # "idle"
    PROVE  /\ question \in Nat /\ written \in Nat /\ tries \in Tries /\ Answered \in Tries
           /\ asksSearch \in BOOLEAN /\ counted \in BOOLEAN /\ cancelled \in BOOLEAN
           /\ screen \in Nat /\ ran \in Nat
           /\ WellFormed(history, question) /\ Standing(history, question, bundle)
           /\ (~Continuing => written = 0)
<1>1. tries \in Tries
    BY DEF IInv, LoopInv, LoopTypeOK
<1>2. Answered \in Tries
    BY <1>1 DEF Answered, Tries
<1>3. ~Continuing => written = 0
    BY DEF IInv, LoopInv, LoopTypeOK, ScreenOK, Continuing
<1>4. asksSearch \in BOOLEAN /\ counted \in BOOLEAN /\ cancelled \in BOOLEAN
    BY DEF IInv, LoopInv, LoopTypeOK
<1> QED BY <1>1, <1>2, <1>3, <1>4 DEF IInv, LoopInv, LoopTypeOK, TalkOK, ScreenOK

LEMMA StandOrFailKeeps ==
    ASSUME IInv, pc = "asking", NEW r \in Ends, NEW h, WellFormed(h, question),
           Standing(h, question, bundle), StandOrFail(h, r)
    PROVE  IInv'
<1>1. CASE Continuing
    <2>1. Finish(h, written + r.shown) /\ screen' = Shown(r)
        BY <1>1 DEF StandOrFail
    <2>2. written + r.shown \in Nat
        BY AskingFacts, TalkFacts
    <2> QED BY <2>1, <2>2, AskingFacts, FinishEnds
<1>2. CASE ~Continuing
    <2>1. Bail(h, "failed") /\ screen' = Retracted(r)
        BY <1>2 DEF StandOrFail
    <2>2. ~cancelled => screen' = 0
        BY <1>2, <2>1, AskingFacts, TalkFacts
    <2> QED BY <2>1, <2>2, AskingFacts, BailEnds
<1> QED BY <1>1, <1>2

LEMMA AgainOrEndKeeps ==
    ASSUME IInv, pc = "asking", NEW counters \in Tries, NEW spent \in BOOLEAN,
           AgainOrEnd(counters, spent), screen' \in Nat, ~cancelled => screen' = written
    PROVE  IInv'
<1>1. CASE ~spent
    <2>1. Continue(history, counters) /\ counted' \in BOOLEAN /\ asksSearch' \in BOOLEAN
        BY <1>1, TalkFacts DEF AgainOrEnd
    <2> QED BY <2>1, TalkFacts, ContinueGoesOn
<1>2. CASE spent /\ Continuing
    <2>1. Finish(history, written)
        BY <1>2 DEF AgainOrEnd
    <2> QED BY <2>1, TalkFacts, FinishEnds
<1>3. CASE spent /\ ~Continuing
    <2>1. Bail(history, "failed")
        BY <1>3 DEF AgainOrEnd
    <2> QED BY <1>3, <2>1, TalkFacts, BailEnds
<1> QED BY <1>1, <1>2, <1>3

\* What eviction and pruning make of the history the question stands in.
LEMMA EvictThenPrune ==
    ASSUME IInv, pc # "idle", NEW excess
    PROVE  LET h == Prune(EvictDownTo(history, bundle, excess), HistoryBytes)
           IN  WellFormed(h, question) /\ Standing(h, question, bundle)
BY TalkFacts, EvictKeeps, PruneKeeps

-----------------------------------------------------------------------------
(* The conversation begins. *)

\* What is restored is well formed: pairs of a question and its answer.
LEMMA RestoredKeeps ==
    ASSUME NEW k \in Nat
    PROVE  WellFormed(Restored(k), k)
<1> DEFINE kept(i) == [id |-> i, kind |-> IF i % 2 = 1 THEN "user" ELSE "reply",
                       question |-> (i + 1) \div 2, text |-> 0, size |-> 1,
                       continues |-> {}, found |-> {}, active |-> TRUE]
           h == Restored(k)
<1>1. h.bundles = {kept(i) : i \in 1..(2 * k)} /\ h.nextId = 2 * k /\ h.prunedThrough = 0
    BY DEF Restored
<1>2. \A i \in 1..(2 * k) :
        /\ i \in Nat \ {0} /\ i <= 2 * k
        /\ (i + 1) \div 2 \in Nat /\ (i + 1) \div 2 <= k
        /\ i % 2 = 0 => (i - 1) \in 1..(2 * k) /\ (i - 1) % 2 = 1 /\ i \div 2 = (i + 1) \div 2
    OBVIOUS
<1>3. \A i \in 1..(2 * k) :
        /\ kept(i).id = i /\ kept(i).question = (i + 1) \div 2 /\ kept(i).active
        /\ kept(i).kind = (IF i % 2 = 1 THEN "user" ELSE "reply")
        /\ kept(i) \in Bundle
    BY <1>2 DEF Bundle, Kinds
<1>4. h \in HistoryType
    BY <1>1, <1>3 DEF Restored, HistoryType
<1> HIDE DEF kept, h
<1>5. Ordered(h.bundles)
    <2>1. SUFFICES ASSUME NEW i \in 1..(2 * k), NEW j \in 1..(2 * k)
                   PROVE  /\ kept(i).id = kept(j).id => kept(i) = kept(j)
                          /\ kept(i).id < kept(j).id => kept(i).question <= kept(j).question
                          /\ kept(i).kind = "user" /\ kept(j).question = kept(i).question
                               => kept(i).id <= kept(j).id
        BY <1>1 DEF Ordered
    <2>2. /\ i < j => (i + 1) \div 2 <= (j + 1) \div 2
          /\ i % 2 = 1 /\ (j + 1) \div 2 = (i + 1) \div 2 => i <= j
        OBVIOUS
    <2> QED BY <1>3, <2>2
<1>6. QuestionInContext(h)
    <2>1. SUFFICES ASSUME NEW i \in 1..(2 * k), kept(i).kind # "user"
                   PROVE  \E u \in h.bundles : /\ u.active /\ u.kind = "user"
                                               /\ u.question = kept(i).question /\ u.id < kept(i).id
        BY <1>1 DEF QuestionInContext, Active
    <2>2. i % 2 = 0
        BY <1>3, <2>1
    <2>3. i - 1 \in 1..(2 * k) /\ (i - 1) % 2 = 1 /\ ((i - 1) + 1) \div 2 = (i + 1) \div 2
        BY <1>2, <2>2
    <2>4. kept(i - 1) \in h.bundles
        BY <1>1, <2>3
    <2>5. kept(i - 1).kind = "user" /\ kept(i - 1).active
        BY <1>3, <2>3
    <2>6. kept(i - 1).id < kept(i).id
        BY <1>3, <2>3
    <2>7. kept(i - 1).question = kept(i).question
        BY <1>3, <2>3
    <2> QED BY <2>4, <2>5, <2>6, <2>7
<1> QED BY <1>1, <1>2, <1>3, <1>4, <1>5, <1>6 DEF WellFormed, h

LEMMA InitInv == Init => IInv
<1> SUFFICES ASSUME Init PROVE IInv
    OBVIOUS
<1>1. PICK k \in 0..MaxRestored : history = Restored(k) /\ question = k
    BY DEF Init
<1>2. WellFormed(history, question) /\ question \in Nat
    BY <1>1, RestoredKeeps
<1>3. TalkOK
    BY <1>2 DEF TalkOK, Init
<1>4. LoopTypeOK
    <2>1. cancelled \in BOOLEAN /\ final \in BOOLEAN /\ asksSearch \in BOOLEAN /\ counted \in BOOLEAN
        BY DEF Init
    <2>2. left \in 0..Early /\ pieces \in 0..Continuations
        BY DEF Init, Early
    <2> QED BY <1>2, <2>1, <2>2, NoReplyTyped DEF LoopTypeOK, Init, WellFormed
<1>5. ReplyOK
    BY DEF ReplyOK, Init, NoReply
<1>6. ScreenOK
    BY DEF ScreenOK, ScreenIsTheAnswer, Init
<1> QED BY <1>3, <1>4, <1>5, <1>6 DEF IInv, LoopInv

-----------------------------------------------------------------------------
(* The steps outside a response. *)

\* Between responses the screen shows what is written.
LEMMA QuietScreen ==
    ASSUME IInv, pc # "idle", pc # "asking"
    PROVE  screen \in Nat /\ (~cancelled => screen = written) /\ reply = NoReply
<1>1. reply = NoReply /\ written \in Nat
    BY DEF IInv, LoopInv, LoopTypeOK, ReplyOK
<1> QED BY <1>1 DEF IInv, ScreenOK, ScreenIsTheAnswer, NoReply

LEMMA AskStep == IInv /\ Ask => IInv'
<1> SUFFICES ASSUME IInv, Ask PROVE IInv'
    OBVIOUS
<1>1. question \in Nat /\ WellFormed(history, question) /\ history.nextId \in Nat
    BY DEF IInv, LoopInv, LoopTypeOK, TalkOK, WellFormed, HistoryType
<1>2. WellFormed(history', question') /\ Standing(history', question', bundle') /\ bundle' \in Nat
    BY <1>1, AskKeeps DEF Ask
<1>3. TalkOK'
    BY <1>2 DEF TalkOK
<1>4. LoopTypeOK'
    <2>1. cancelled' \in BOOLEAN /\ final' \in BOOLEAN /\ asksSearch' \in BOOLEAN /\ counted' \in BOOLEAN
        BY DEF Ask
    <2>2. left' \in 0..Early /\ pieces' \in 0..Continuations
        BY DEF Ask, Early
    <2> QED BY <1>1, <1>2, <2>1, <2>2, NoReplyTyped DEF LoopTypeOK, Ask, WellFormed, IInv, LoopInv
<1>5. ReplyOK'
    BY DEF ReplyOK, Ask, NoReply
<1>6. ScreenOK'
    BY DEF ScreenOK, ScreenIsTheAnswer, Ask, NoReply
<1> QED BY <1>3, <1>4, <1>5, <1>6 DEF IInv, LoopInv

LEMMA StopStep == IInv /\ Stop => IInv'
<1> SUFFICES ASSUME IInv, Stop PROVE IInv'
    OBVIOUS
<1>1. LoopTypeOK' /\ TalkOK'
    BY DEF IInv, LoopInv, LoopTypeOK, TalkOK, Stop, talk, loop, result
<1>2. ReplyOK'
    BY DEF IInv, LoopInv, ReplyOK, Stop
<1>3. ScreenOK'
    BY DEF IInv, ScreenOK, ScreenIsTheAnswer, Stop, loop, result
<1> QED BY <1>1, <1>2, <1>3 DEF IInv, LoopInv

LEMMA TickStep == IInv /\ Tick => IInv'
<1> SUFFICES ASSUME IInv, Tick PROVE IInv'
    OBVIOUS
<1>1. LoopTypeOK'
    <2>1. left' \in 0..Early
        BY DEF IInv, LoopInv, LoopTypeOK, Tick, Early
    <2> QED BY <2>1 DEF IInv, LoopInv, LoopTypeOK, Tick, talk, loop, result
<1>2. ReplyOK' /\ TalkOK'
    BY DEF IInv, LoopInv, ReplyOK, TalkOK, Tick, talk
<1>3. ScreenOK'
    BY DEF IInv, ScreenOK, ScreenIsTheAnswer, Tick, loop, result
<1> QED BY <1>1, <1>2, <1>3 DEF IInv, LoopInv

LEMMA StopAtTopStep == IInv /\ StopAtTop => IInv'
BY TalkFacts, BailEnds DEF StopAtTop

LEMMA TimeOverStep == IInv /\ TimeOver => IInv'
<1> SUFFICES ASSUME IInv, TimeOver PROVE IInv'
    OBVIOUS
<1>1. pc = "top" /\ screen' = screen
    BY DEF TimeOver
<1>2. CASE Continuing
    BY <1>1, <1>2, TalkFacts, QuietScreen, FinishEnds DEF TimeOver
<1>3. CASE ~Continuing
    BY <1>1, <1>3, TalkFacts, QuietScreen, BailEnds DEF TimeOver
<1> QED BY <1>2, <1>3

LEMMA RequestStep == IInv /\ Request => IInv'
<1> SUFFICES ASSUME IInv, Request PROVE IInv'
    OBVIOUS
<1>1. pc = "top" /\ screen' = screen
    BY DEF Request
<1>2. PICK excess \in 0..MaxExcess :
        LET evicted == LeavesContext(history, bundle, excess)
            h == Prune(EvictDownTo(history, bundle, excess), HistoryBytes)
        IN  \/ /\ pc' = "asking"
               /\ history' = h
               /\ final' = (left = 1)
               /\ counted' = (counted /\ evicted = {})
               /\ reply' = [NoReply EXCEPT !.lead =
                     IF asksSearch /\ left # 1 /\ ~Continuing THEN "undecided" ELSE "free"]
               /\ UNCHANGED <<question, bundle, turn, pieces, written, tries, asksSearch, result, ran>>
            \/ IF Continuing THEN Finish(h, written) ELSE Bail(h, "failed")
    BY DEF Request
<1> DEFINE h == Prune(EvictDownTo(history, bundle, excess), HistoryBytes)
<1>3. WellFormed(h, question) /\ Standing(h, question, bundle)
    BY <1>1, EvictThenPrune
<1> HIDE DEF h
<1>4. CASE Finish(h, written)
    BY <1>1, <1>3, <1>4, TalkFacts, QuietScreen, FinishEnds
<1>5. CASE ~Continuing /\ Bail(h, "failed")
    BY <1>1, <1>3, <1>5, TalkFacts, QuietScreen, BailEnds
<1>6. CASE /\ pc' = "asking" /\ history' = h
           /\ final' = (left = 1)
           /\ counted' \in BOOLEAN
           /\ reply' = [NoReply EXCEPT !.lead =
                 IF asksSearch /\ left # 1 /\ ~Continuing THEN "undecided" ELSE "free"]
           /\ UNCHANGED <<question, bundle, turn, pieces, written, tries, asksSearch, result, ran>>
    <2>1. TalkOK'
        BY <1>3, <1>6 DEF TalkOK
    <2>2. reply' \in Reply /\ reply'.text = 0 /\ reply'.shown = 0
        BY <1>6 DEF Reply, NoReply
    <2>3. ReplyOK'
        BY <1>6, <2>2 DEF ReplyOK
    <2>4. LoopTypeOK'
        <3>1. final' \in BOOLEAN /\ counted' \in BOOLEAN
            BY <1>6
        <3> QED BY <1>3, <1>6, <2>2, <3>1 DEF LoopTypeOK, IInv, LoopInv, WellFormed, turn, result
    <2>5. ScreenOK'
        BY <1>1, <1>6, <2>2, QuietScreen, TalkFacts DEF IInv, ScreenOK, ScreenIsTheAnswer, turn, result
    <2> QED BY <2>1, <2>3, <2>4, <2>5 DEF IInv, LoopInv
<1>7. (counted /\ LeavesContext(history, bundle, excess) = {}) \in BOOLEAN
    OBVIOUS
<1> QED BY <1>2, <1>4, <1>5, <1>6, <1>7 DEF h

LEMMA WriteStep == IInv /\ Write => IInv'
<1> SUFFICES ASSUME IInv, Write PROVE IInv'
    OBVIOUS
<1>1. reply \in Reply /\ reply.shown <= reply.text /\ (reply.lead # "free" => reply.shown = 0)
      /\ (reply.lead = "free" /\ ~cancelled => reply.shown = reply.text) /\ pc = "asking"
    BY DEF IInv, LoopInv, LoopTypeOK, ReplyOK, Write
<1>2. /\ reply' \in Reply /\ reply'.shown >= reply.shown /\ reply'.shown <= reply'.text
      /\ ~cancelled /\ reply'.lead = "free" => reply'.shown = reply'.text
      /\ reply'.lead # "free" => reply'.shown = 0
    <2>1. reply' \in Wrote(reply)
        BY DEF Write
    <2> HIDE DEF Write
    <2> QED BY <1>1, <2>1, WroteTyped
<1>3. TalkOK'
    BY DEF IInv, LoopInv, TalkOK, Write, talk
<1>4. ReplyOK'
    BY <1>1, <1>2 DEF ReplyOK, Write, turn
<1>5. LoopTypeOK'
    BY <1>2 DEF IInv, LoopInv, LoopTypeOK, Write, talk, turn, loop, result
<1>6. ScreenOK'
    <2>1. reply.shown \in Nat /\ reply'.shown \in Nat /\ screen \in Nat /\ written \in Nat
        BY <1>1, <1>2 DEF Reply, IInv, ScreenOK, LoopInv, LoopTypeOK
    <2>2. screen' = screen + (reply'.shown - reply.shown) /\ screen' \in Nat
        BY <1>2, <2>1 DEF Write
    <2> QED BY <1>1, <2>1, <2>2 DEF IInv, ScreenOK, ScreenIsTheAnswer, Write, turn, loop, result
<1> QED BY <1>3, <1>4, <1>5, <1>6 DEF IInv, LoopInv

LEMMA WaitOverStep == IInv /\ WaitOver => IInv'
<1> SUFFICES ASSUME IInv, WaitOver PROVE IInv'
    OBVIOUS
<1>1. pc = "waiting" /\ screen' = screen
    BY DEF WaitOver
<1>2. CASE Continue(history, tries) /\ UNCHANGED <<asksSearch, counted>>
    BY <1>1, <1>2, TalkFacts, QuietScreen, ContinueGoesOn
<1>3. CASE Bail(history, "cancelled")
    BY <1>1, <1>3, TalkFacts, QuietScreen, BailEnds
<1> QED BY <1>2, <1>3 DEF WaitOver

\* Whatever calls leave joins the history the question stands in.
LEMMA CallResultsKeep ==
    ASSUME IInv, pc # "idle", NEW h \in CallResults
    PROVE  WellFormed(h, question) /\ Standing(h, question, bundle)
<1> DEFINE message == Message("calls", question, ran)
           archive == Message("archive", question, 0)
           archived == Push(history, archive)
<1>1. question \in Nat /\ ran \in Nat /\ history \in HistoryType /\ history.nextId \in Nat
      /\ \A id \in Ids(history) : id \in Nat \ {0}
    BY TalkFacts DEF WellFormed, HistoryType, Ids, Bundle
<1>2. message \in Messages /\ message.kind # "user" /\ message.question = question
    BY <1>1 DEF Message, Messages, Kinds
<1>3. archive \in Messages /\ archive.kind # "user" /\ archive.question = question
    BY <1>1 DEF Message, Messages, Kinds
<1>4. WellFormed(archived, question) /\ Standing(archived, question, bundle)
    <2> HIDE DEF archive
    <2> QED BY <1>1, <1>3, TalkFacts, JoinKeeps
<1>5. archived.nextId \in Nat \ {0}
    <2> HIDE DEF archive
    <2> QED BY <1>1, <1>3, PushFields
<1>6. \A id \in Nat \ {0} :
        /\ [message EXCEPT !.continues = {id}] \in Messages
        /\ [message EXCEPT !.continues = {id}].kind # "user"
        /\ [message EXCEPT !.continues = {id}].question = question
        /\ [message EXCEPT !.found = {id}] \in Messages
        /\ [message EXCEPT !.found = {id}].kind # "user"
        /\ [message EXCEPT !.found = {id}].question = question
    <2> HIDE DEF message
    <2> QED BY <1>2 DEF Messages
<1>7. \/ h = Push(history, message)
      \/ h = Push(archived, [message EXCEPT !.continues = {archived.nextId}])
      \/ \E id \in Ids(history) : h = Push(history, [message EXCEPT !.continues = {id}])
      \/ \E id \in Ids(history) : h = Push(history, [message EXCEPT !.found = {id}])
    BY DEF CallResults
<1> HIDE DEF message, archive, archived
<1>8. CASE h = Push(history, message)
    BY <1>1, <1>2, <1>8, TalkFacts, JoinKeeps
<1>9. CASE h = Push(archived, [message EXCEPT !.continues = {archived.nextId}])
    BY <1>1, <1>4, <1>5, <1>6, <1>9, JoinKeeps
<1>10. ASSUME NEW id \in Ids(history), h = Push(history, [message EXCEPT !.continues = {id}])
       PROVE  WellFormed(h, question) /\ Standing(h, question, bundle)
    BY <1>1, <1>6, <1>10, TalkFacts, JoinKeeps
<1>11. ASSUME NEW id \in Ids(history), h = Push(history, [message EXCEPT !.found = {id}])
       PROVE  WellFormed(h, question) /\ Standing(h, question, bundle)
    BY <1>1, <1>6, <1>11, TalkFacts, JoinKeeps
<1> QED BY <1>7, <1>8, <1>9, <1>10, <1>11

LEMMA CallsEndStep == IInv /\ CallsEnd => IInv'
<1> SUFFICES ASSUME IInv, CallsEnd PROVE IInv'
    OBVIOUS
<1>1. pc = "calling" /\ screen' = screen
    BY DEF CallsEnd
<1>2. PICK h \in CallResults :
        IF cancelled
        THEN Bail(h, "cancelled")
        ELSE /\ Continue(h, tries)
             /\ asksSearch' \in {asksSearch, FALSE}
             /\ UNCHANGED counted
    BY DEF CallsEnd
<1>3. WellFormed(h, question) /\ Standing(h, question, bundle)
    BY <1>1, CallResultsKeep
<1>4. CASE cancelled
    BY <1>1, <1>2, <1>3, <1>4, QuietScreen, BailEnds
<1>5. CASE ~cancelled
    <2>1. Continue(h, tries) /\ asksSearch' \in BOOLEAN /\ counted' \in BOOLEAN
        BY <1>1, <1>2, <1>5, TalkFacts
    <2> QED BY <1>1, <1>3, <2>1, TalkFacts, QuietScreen, ContinueGoesOn
<1> QED BY <1>4, <1>5

-----------------------------------------------------------------------------
(* The steps that end a response. *)

LEMMA ReserveRetracts ==
    ASSUME IInv, ReserveReached
    PROVE  \E r \in Reply : r.shown \in Nat /\ r.shown >= reply.shown /\ screen' = Retracted(r)
<1>1. reply \in Reply /\ reply.shown <= reply.text /\ (reply.lead # "free" => reply.shown = 0)
      /\ (reply.lead = "free" /\ ~cancelled => reply.shown = reply.text)
    BY DEF IInv, LoopInv, LoopTypeOK, ReplyOK
<1>2. PICK s \in {reply} \cup Wrote(reply) : \E r \in EndOfStream(s) : screen' = Retracted(r)
    BY DEF ReserveReached
<1>3. PICK r \in EndOfStream(s) : screen' = Retracted(r)
    BY <1>2
<1>4. /\ s \in Reply /\ s.shown <= s.text /\ s.shown >= reply.shown
      /\ s.lead # "free" => s.shown = 0
      /\ s.lead = "free" /\ ~cancelled => s.shown = s.text
    <2>1. CASE s = reply
        BY <1>1, <2>1 DEF Reply
    <2>2. CASE s \in Wrote(reply)
        BY <1>1, <2>2, WroteTyped
    <2> QED BY <1>2, <2>1, <2>2
<1>5. r \in Reply /\ r.shown >= s.shown
    BY <1>4, EndsTyped
<1>6. r.shown \in Nat /\ r.shown >= reply.shown
    BY <1>1, <1>4, <1>5 DEF Reply
<1> QED BY <1>3, <1>5, <1>6

LEMMA ReserveReachedStep == IInv /\ ReserveReached => IInv'
<1> SUFFICES ASSUME IInv, ReserveReached PROVE IInv'
    OBVIOUS
<1>1. pc = "asking" /\ Continue(history, tries) /\ UNCHANGED <<asksSearch, counted>>
    BY DEF ReserveReached
<1>2. PICK r \in Reply : r.shown \in Nat /\ r.shown >= reply.shown /\ screen' = Retracted(r)
    BY ReserveRetracts
<1>3. reply.shown \in Nat
    BY DEF IInv, LoopInv, LoopTypeOK, Reply
<1>4. screen' \in Nat /\ (~cancelled => screen' = written)
    BY <1>1, <1>2, <1>3, TalkFacts DEF Retracted, IInv, ScreenOK, ScreenIsTheAnswer
<1>5. asksSearch' \in BOOLEAN /\ counted' \in BOOLEAN
    BY <1>1, TalkFacts
<1> QED BY <1>1, <1>4, <1>5, TalkFacts, ContinueGoesOn

\* The counters stay naturals.
LEMMA CountersTyped ==
    ASSUME IInv, pc # "idle"
    PROVE  /\ [tries EXCEPT !.unusable = @ + 1] \in Tries
           /\ [tries EXCEPT !.outages = @ + 1] \in Tries
           /\ [Answered EXCEPT !.empty = @ + 1] \in Tries
           /\ [Answered EXCEPT !.empty = 0, !.withheld = 0] \in Tries
           /\ [Answered EXCEPT !.empty = 0, !.oversized = 0] \in Tries
           /\ [Answered EXCEPT !.empty = 0, !.withheld = @ + 1] \in Tries
           /\ [Answered EXCEPT !.empty = 0, !.oversized = @ + 1] \in Tries
<1>1. tries \in Tries /\ Answered \in Tries
    BY TalkFacts
<1> SUFFICES ASSUME NEW t \in Tries
             PROVE  /\ [t EXCEPT !.unusable = @ + 1] \in Tries
                    /\ [t EXCEPT !.outages = @ + 1] \in Tries
                    /\ [t EXCEPT !.empty = @ + 1] \in Tries
                    /\ [t EXCEPT !.empty = 0, !.withheld = 0] \in Tries
                    /\ [t EXCEPT !.empty = 0, !.oversized = 0] \in Tries
                    /\ [t EXCEPT !.empty = 0, !.withheld = @ + 1] \in Tries
                    /\ [t EXCEPT !.empty = 0, !.oversized = @ + 1] \in Tries
    BY <1>1
<1>2. t.unusable + 1 \in Nat /\ t.outages + 1 \in Nat /\ t.empty + 1 \in Nat
      /\ t.withheld + 1 \in Nat /\ t.oversized + 1 \in Nat
    BY DEF Tries
<1>3. [t EXCEPT !.empty = 0] \in Tries
    BY DEF Tries
<1>4. [t EXCEPT !.empty = 0].withheld = t.withheld /\ [t EXCEPT !.empty = 0].oversized = t.oversized
    BY DEF Tries
<1> QED BY <1>2, <1>3, <1>4, Zenon DEF Tries

LEMMA KeepStoppedStep == ASSUME IInv, NEW r \in Ends, KeepStopped(r) PROVE IInv'
<1> DEFINE m == Message("reply", question, written + r.shown)
<1>1. pc = "asking" /\ screen' = Shown(r)
    BY DEF KeepStopped
<1>2. question \in Nat /\ written + r.shown \in Nat
    BY <1>1, TalkFacts, AskingFacts
<1>3. m \in Messages /\ m.kind # "user" /\ m.question = question
    BY <1>2 DEF Message, Messages, Kinds
<1>4. WellFormed(PopPiece(history), question) /\ Standing(PopPiece(history), question, bundle)
    BY <1>1, <1>2, TalkFacts, PopKeeps
<1>5. Bail(Push(PopPiece(history), m), "cancelled") \/ Bail(history, "cancelled")
    BY DEF KeepStopped
<1> HIDE DEF m
<1>6. WellFormed(Push(PopPiece(history), m), question)
    BY <1>2, <1>3, <1>4, JoinKeeps
<1> QED BY <1>1, <1>5, <1>6, TalkFacts, AskingFacts, BailEnds

\* The history goes on as it is, and what the response showed is taken back.
LEMMA RetractedGoesOn ==
    ASSUME IInv, pc = "asking", NEW r \in Ends, NEW counters \in Tries,
           Continue(history, counters), asksSearch' \in BOOLEAN, counted' \in BOOLEAN,
           screen' = Retracted(r)
    PROVE  IInv'
BY TalkFacts, AskingFacts, ContinueGoesOn

LEMMA SearchFirstStep == ASSUME IInv, NEW r \in Ends, SearchFirst(r) PROVE IInv'
<1>1. pc = "asking" /\ Continue(history, tries) /\ screen' = Retracted(r) /\ asksSearch' = FALSE
      /\ counted' = counted
    BY DEF SearchFirst
<1> QED BY <1>1, TalkFacts, RetractedGoesOn

LEMMA AskAgainStep == ASSUME IInv, NEW r \in Ends, AskAgain(r) PROVE IInv'
<1>1. pc = "asking" /\ Continue(history, tries) /\ screen' = Retracted(r)
      /\ asksSearch' = asksSearch /\ counted' = counted
    BY DEF AskAgain
<1> QED BY <1>1, TalkFacts, RetractedGoesOn

LEMMA OverflowStep == ASSUME IInv, NEW r \in Ends, Overflow(r) PROVE IInv'
<1> DEFINE everything == Size(Active(history)) + 1
           h == Prune(EvictDownTo(history, bundle, everything), HistoryBytes)
<1>1. pc = "asking"
    BY DEF Overflow
<1>2. WellFormed(h, question) /\ Standing(h, question, bundle)
    <2> HIDE DEF everything
    <2> QED BY <1>1, EvictThenPrune
<1>3. \/ Continue(h, tries) /\ counted' = FALSE /\ screen' = Retracted(r) /\ asksSearch' = asksSearch
      \/ StandOrFail(h, r)
    BY DEF Overflow
<1> HIDE DEF h
<1>4. CASE StandOrFail(h, r)
    BY <1>1, <1>2, <1>4, StandOrFailKeeps
<1>5. CASE Continue(h, tries) /\ counted' = FALSE /\ screen' = Retracted(r) /\ asksSearch' = asksSearch
    BY <1>1, <1>2, <1>5, TalkFacts, AskingFacts, ContinueGoesOn
<1> QED BY <1>3, <1>4, <1>5

LEMMA UnusableStep == ASSUME IInv, NEW r \in Ends, Unusable(r) PROVE IInv'
<1>1. pc = "asking"
    BY DEF Unusable
<1>2. CASE StandOrFail(history, r)
    BY <1>1, <1>2, TalkFacts, StandOrFailKeeps
<1>3. CASE /\ Continue(history, [tries EXCEPT !.unusable = @ + 1]) /\ screen' = Retracted(r)
           /\ UNCHANGED <<asksSearch, counted>>
    <2>1. asksSearch' \in BOOLEAN /\ counted' \in BOOLEAN
        BY <1>1, <1>3, TalkFacts
    <2> QED BY <1>1, <1>3, <2>1, CountersTyped, RetractedGoesOn
<1> QED BY <1>2, <1>3 DEF Unusable

LEMMA RequestFailsStep ==
    ASSUME IInv, NEW r \in Ends, RequestFails(r) \/ RunTimeout(r) PROVE IInv'
<1>1. pc = "asking" /\ StandOrFail(history, r)
    BY DEF RequestFails, RunTimeout
<1> QED BY <1>1, TalkFacts, StandOrFailKeeps

LEMMA OutageStep == ASSUME IInv, NEW r \in Ends, Outage(r) PROVE IInv'
<1>1. /\ pc = "asking" /\ pc' = "waiting" /\ reply' = NoReply /\ screen' = Retracted(r)
      /\ tries' = [tries EXCEPT !.outages = @ + 1]
      /\ UNCHANGED <<talk, turn, pieces, written, final, asksSearch, counted, result, ran>>
    BY DEF Outage
<1>2. tries' \in Tries
    BY <1>1, CountersTyped
<1>3. LoopTypeOK'
    BY <1>1, <1>2, NoReplyTyped DEF IInv, LoopInv, LoopTypeOK, talk, turn, result
<1>4. ReplyOK' /\ TalkOK'
    BY <1>1 DEF IInv, LoopInv, ReplyOK, TalkOK, NoReply, talk, turn
<1>5. ScreenOK'
    BY <1>1, TalkFacts, AskingFacts DEF IInv, ScreenOK, ScreenIsTheAnswer, NoReply, talk, turn, result
<1> QED BY <1>3, <1>4, <1>5 DEF IInv, LoopInv

LEMMA CallsStep == ASSUME IInv, NEW r \in Ends, Calls(r) PROVE IInv'
<1>1. /\ pc = "asking" /\ pc' = "calling" /\ reply' = NoReply /\ screen' = Retracted(r)
      /\ tries' = [Answered EXCEPT !.empty = 0, !.oversized = 0]
      /\ counted' \in {counted, TRUE} /\ ran' = ran + 1
      /\ UNCHANGED <<talk, turn, pieces, written, final, asksSearch, result>>
    BY DEF Calls
<1>2. tries' \in Tries /\ counted' \in BOOLEAN /\ ran' \in Nat
    <2>1. tries' \in Tries
        BY <1>1, CountersTyped
    <2>2. counted' \in BOOLEAN
        BY <1>1, TalkFacts
    <2>3. ran' \in Nat
        BY <1>1, TalkFacts
    <2> QED BY <2>1, <2>2, <2>3
<1>3. LoopTypeOK'
    BY <1>1, <1>2, NoReplyTyped DEF IInv, LoopInv, LoopTypeOK, talk, turn, result
<1>4. ReplyOK' /\ TalkOK'
    BY <1>1 DEF IInv, LoopInv, ReplyOK, TalkOK, NoReply, talk, turn
<1>5. ScreenOK'
    BY <1>1, TalkFacts, AskingFacts DEF IInv, ScreenOK, ScreenIsTheAnswer, NoReply, talk, turn, result
<1> QED BY <1>3, <1>4, <1>5 DEF IInv, LoopInv

LEMMA ServedCutStep == ASSUME IInv, NEW r \in Ends, ServedCut(r) PROVE IInv'
<1>1. pc = "asking" /\ Bail(PopPiece(history), "failed")
      /\ screen' = (IF ~cancelled /\ (r.shown > 0 \/ Continuing) THEN 0 ELSE screen)
    BY DEF ServedCut
<1>2. WellFormed(PopPiece(history), question)
    BY <1>1, TalkFacts, PopKeeps
<1>3. screen' \in Nat
    BY <1>1, TalkFacts
<1>4. ~cancelled => screen' = 0
    <2>1. CASE r.shown > 0 \/ Continuing
        BY <1>1, <2>1
    <2>2. CASE ~(r.shown > 0 \/ Continuing)
        <3>1. r.shown = 0 /\ written = 0
            BY <1>1, <2>2, AskingFacts, TalkFacts
        <3>2. ~cancelled => Shown(r) = 0 /\ screen = Shown(r)
            <4>1. reply.shown \in Nat /\ reply.shown <= r.shown
                BY <1>1, AskingFacts DEF IInv, LoopInv, LoopTypeOK, Reply
            <4>2. reply.shown = 0
                BY <3>1, <4>1
            <4> QED BY <1>1, <3>1, <4>2, AskingFacts, TalkFacts DEF Shown
        <3> QED BY <1>1, <2>2, <3>2
    <2> QED BY <2>1, <2>2
<1> QED BY <1>1, <1>2, <1>3, <1>4, BailEnds

\* While nothing of the response is shown, the screen shows what is written.
LEMMA NothingShown ==
    ASSUME IInv, pc = "asking", NEW r \in Ends, r.shown = 0
    PROVE  ~cancelled => screen = written
<1>1. reply.shown \in Nat /\ reply.shown <= r.shown
    BY AskingFacts DEF IInv, LoopInv, LoopTypeOK, Reply
<1>2. reply.shown = 0
    BY <1>1
<1> QED BY <1>2, TalkFacts, AskingFacts DEF Shown

LEMMA RefuseClaimStep == ASSUME IInv, NEW r \in Ends, RefuseClaim(r) PROVE IInv'
<1>1. pc = "asking" /\ r.shown = 0 /\ screen' = screen /\ asksSearch' = FALSE
      /\ counted' \in {counted, TRUE} /\ Continue(history, Answered)
    BY DEF RefuseClaim
<1>2. counted' \in BOOLEAN /\ asksSearch' \in BOOLEAN
    BY <1>1, TalkFacts
<1> QED BY <1>1, <1>2, TalkFacts, NothingShown, ContinueGoesOn

\* A text that is shown at all is shown whole.
LEMMA TextShown ==
    ASSUME IInv, pc = "asking", NEW r \in Ends, r.text > 0, ~(r.lead = "claims" /\ r.shown = 0)
    PROVE  /\ written + r.text \in Nat /\ Shown(r) \in Nat
           /\ ~cancelled => Shown(r) = written + r.text
<1>1. r.lead = "free"
    BY AskingFacts DEF Reply
<1> QED BY <1>1, AskingFacts, TalkFacts

LEMMA WholeStep == ASSUME IInv, NEW r \in Ends, Whole(r) PROVE IInv'
<1>1. pc = "asking" /\ Finish(history, written + r.text) /\ screen' = Shown(r)
      /\ r.text > 0 /\ ~(r.lead = "claims" /\ r.shown = 0)
    BY DEF Whole
<1> QED BY <1>1, TalkFacts, TextShown, FinishEnds

LEMMA CutStep == ASSUME IInv, NEW r \in Ends, Cut(r) PROVE IInv'
<1> DEFINE m == Message("piece", question, written + r.text)
<1>1. /\ pc = "asking" /\ r.text > 0 /\ ~(r.lead = "claims" /\ r.shown = 0)
      /\ pieces < Continuations /\ pieces' = pieces + 1 /\ written' = written + r.text
      /\ tries' = [Answered EXCEPT !.empty = 0, !.withheld = 0]
      /\ history' = Push(PopPiece(history), m)
      /\ pc' = "top" /\ reply' = NoReply /\ screen' = Shown(r)
      /\ counted' \in {counted, TRUE}
      /\ UNCHANGED <<question, bundle, turn, final, asksSearch, result, ran>>
    BY DEF Cut
<1>2. question \in Nat /\ written + r.text \in Nat /\ Shown(r) \in Nat
      /\ (~cancelled => Shown(r) = written + r.text)
    BY <1>1, TalkFacts, TextShown
<1>3. m \in Messages /\ m.kind # "user" /\ m.question = question
    BY <1>2 DEF Message, Messages, Kinds
<1>4. WellFormed(PopPiece(history), question) /\ Standing(PopPiece(history), question, bundle)
    BY <1>1, <1>2, TalkFacts, PopKeeps
<1> HIDE DEF m
<1>5. WellFormed(history', question) /\ Standing(history', question, bundle)
    BY <1>1, <1>2, <1>3, <1>4, JoinKeeps
<1>6. pieces' \in 1..Continuations
    <2>1. pieces \in 0..Continuations
        BY DEF IInv, LoopInv, LoopTypeOK
    <2> QED BY <1>1, <2>1
<1>7. tries' \in Tries
    BY <1>1, CountersTyped
<1>8. counted' \in BOOLEAN
    BY <1>1, TalkFacts
<1>9. LoopTypeOK'
    <2>1. history' \in HistoryType
        BY <1>5 DEF WellFormed
    <2>2. pieces' \in 0..Continuations
        BY <1>6
    <2> QED BY <1>1, <1>2, <1>7, <1>8, <2>1, <2>2, NoReplyTyped
        DEF IInv, LoopInv, LoopTypeOK, turn, result
<1>10. ReplyOK' /\ TalkOK'
    BY <1>1, <1>5 DEF ReplyOK, TalkOK, NoReply
<1>11. ScreenOK'
    BY <1>1, <1>2, <1>6 DEF IInv, ScreenOK, ScreenIsTheAnswer, NoReply, turn, result
<1> QED BY <1>9, <1>10, <1>11 DEF IInv, LoopInv

LEMMA BlankStep == ASSUME IInv, NEW r \in Ends, Blank(r) PROVE IInv'
<1>1. pc = "asking" /\ r.text = 0 /\ screen' = screen
      /\ AgainOrEnd([Answered EXCEPT !.empty = @ + 1], tries.empty >= Retries)
    BY DEF Blank
<1>2. r.shown = 0
    BY <1>1, AskingFacts
<1>3. (tries.empty >= Retries) \in BOOLEAN
    OBVIOUS
<1> QED BY <1>1, <1>2, <1>3, TalkFacts, NothingShown, CountersTyped, AgainOrEndKeeps

LEMMA CutCallsStep == ASSUME IInv, NEW r \in Ends, CutCalls(r) PROVE IInv'
<1>1. pc = "asking" /\ Continue(history, Answered) /\ counted' \in {counted, TRUE}
      /\ screen' = Retracted(r) /\ asksSearch' = asksSearch
    BY DEF CutCalls
<1>2. counted' \in BOOLEAN /\ asksSearch' \in BOOLEAN
    BY <1>1, TalkFacts
<1> QED BY <1>1, <1>2, TalkFacts, RetractedGoesOn

LEMMA WithheldCallsStep == ASSUME IInv, NEW r \in Ends, WithheldCalls(r) PROVE IInv'
<1>1. pc = "asking" /\ screen' = Retracted(r)
      /\ AgainOrEnd([Answered EXCEPT !.empty = 0, !.withheld = @ + 1], tries.withheld >= Retries)
    BY DEF WithheldCalls
<1>2. (tries.withheld >= Retries) \in BOOLEAN
    OBVIOUS
<1> QED BY <1>1, <1>2, AskingFacts, CountersTyped, AgainOrEndKeeps

LEMMA OversizedCallsStep == ASSUME IInv, NEW r \in Ends, OversizedCalls(r) PROVE IInv'
<1>1. pc = "asking" /\ screen' = Retracted(r)
      /\ AgainOrEnd([Answered EXCEPT !.empty = 0, !.oversized = @ + 1], tries.oversized >= Retries)
    BY DEF OversizedCalls
<1>2. (tries.oversized >= Retries) \in BOOLEAN
    OBVIOUS
<1> QED BY <1>1, <1>2, AskingFacts, CountersTyped, AgainOrEndKeeps

-----------------------------------------------------------------------------
(* The invariant, and what it says. *)

LEMMA StutterStep == IInv /\ UNCHANGED vars => IInv'
BY DEF vars, IInv, LoopInv, LoopTypeOK, ReplyOK, TalkOK, ScreenOK, ScreenIsTheAnswer

LEMMA NextInv == IInv /\ [Next]_vars => IInv'
<1> SUFFICES ASSUME IInv, [Next]_vars PROVE IInv'
    OBVIOUS
<1>1. CASE Ask
    BY <1>1, AskStep
<1>2. CASE Stop \/ Tick
    BY <1>2, StopStep, TickStep
<1>3. CASE StopAtTop \/ TimeOver \/ Request
    BY <1>3, StopAtTopStep, TimeOverStep, RequestStep
<1>4. CASE Write \/ ReserveReached
    BY <1>4, WriteStep, ReserveReachedStep
<1>5. CASE WaitOver \/ CallsEnd
    BY <1>5, WaitOverStep, CallsEndStep
<1>6. ASSUME NEW r \in Ends, Fails(r) PROVE IInv'
    BY <1>6, KeepStoppedStep, SearchFirstStep, AskAgainStep, OverflowStep, UnusableStep,
       OutageStep, RequestFailsStep DEF Fails
<1>7. ASSUME NEW r \in Ends, Completes(r) PROVE IInv'
    BY <1>7, ServedCutStep, RefuseClaimStep, WholeStep, CutStep, BlankStep, CutCallsStep,
       WithheldCallsStep, OversizedCallsStep, CallsStep DEF Completes
<1>8. CASE UNCHANGED vars
    BY <1>8, StutterStep
<1> QED BY <1>1, <1>2, <1>3, <1>4, <1>5, <1>6, <1>7, <1>8 DEF Next

LEMMA Invariance == Spec => []IInv
BY InitInv, NextInv, PTL DEF Spec

\* The state of the loop keeps its type, for any limits and however long the
\* responses: no counter, text or history leaves it.
THEOREM TypeCorrect == Spec => []TypeOK
<1>1. IInv => TypeOK
    BY DEF IInv, LoopInv, LoopTypeOK, ScreenOK, TypeOK
<1> QED BY <1>1, Invariance, PTL

\* However the context is evicted and pruned, every tool result and reply in it
\* has its question before it, and the question asked is there.
THEOREM ContextStaysWhole == Spec => []ContextIsWhole
<1>1. IInv => ContextIsWhole
    <2> SUFFICES ASSUME IInv PROVE ContextIsWhole
        OBVIOUS
    <2>1. QuestionInContext(history)
        BY DEF IInv, LoopInv, TalkOK, WellFormed
    <2>2. ASSUME pc # "idle" PROVE \E b \in Active(history) : b.id = bundle
        BY <2>2 DEF IInv, LoopInv, TalkOK, Standing, Active
    <2> QED BY <2>1, <2>2 DEF ContextIsWhole
<1> QED BY <1>1, Invariance, PTL

\* What the browser shows is the answer written so far and nothing else, through
\* every retry, eviction, continuation and failure.
THEOREM ScreenIsRight == Spec => []ScreenIsTheAnswer
<1>1. IInv => ScreenIsTheAnswer
    BY DEF IInv, ScreenOK
<1> QED BY <1>1, Invariance, PTL

-----------------------------------------------------------------------------
(***************************************************************************)
(* What stays in the conversation: the pieces of an answer as one message, *)
(* what a stop cuts off and what calls did, and the messages of the        *)
(* context.  Every step goes one of eleven ways (HowItGoes), and each way  *)
(* is looked at once.                                                      *)
(***************************************************************************)

PiecesOK ==
    /\ pc # "idle" => Pieced(history, question, pieces, written)
    /\ pc = "calling" => pieces = 0
    /\ outcome \in {"answered", "failed"} => NoPiece(history, question)

\* While a response streams, stopped or not, the screen shows no more than what is
\* written (between two responses, that of a stopped question may still show what was
\* taken back after the stop).
TextOK == pc = "asking" => screen <= written + reply.shown

KeepInv == IInv /\ PiecesOK /\ TextOK /\ CallsAreRecorded

\* What of the history's context a request leaves.
Trimmed(h) == h = history \/ \E e : h = Prune(EvictDownTo(history, bundle, e), HistoryBytes)

GoesOn(h) ==
    /\ pc # "idle" /\ pc' # "idle" /\ history' = h
    /\ UNCHANGED <<question, bundle, pieces, written, outcome>>
    /\ pc' = "asking" => screen' <= written + reply'.shown

Proceeds == \E h : Trimmed(h) /\ GoesOn(h) /\ ran' = ran /\ (pc' = "calling" <=> pc = "calling")
CallsBegin == GoesOn(history) /\ pc = "asking" /\ pc' = "calling" /\ pieces = 0 /\ ran' = ran + 1
CallsJoin == pc = "calling" /\ \E h \in CallResults : GoesOn(h) /\ ran' = ran /\ pc' # "calling"
Stands ==
    /\ pc \notin {"idle", "calling"}
    /\ \E h, text : Trimmed(h) /\ text \in Nat /\ text >= written /\ Finish(h, text)
GivesUp == pc \notin {"idle", "calling"} /\ pieces = 0 /\ \E h : Trimmed(h) /\ Bail(h, "failed")
Withdraws == pc \notin {"idle", "calling"} /\ Bail(PopPiece(history), "failed")
Stops ==
    /\ pc \notin {"idle", "calling"} /\ (pc = "asking" => screen <= written)
    /\ Bail(history, "cancelled")
StopsWriting ==
    /\ pc = "asking"
    /\ \E text : /\ text \in Nat /\ text >= written /\ text >= screen
                 /\ Bail(Push(PopPiece(history), Message("reply", question, text)), "cancelled")
StopsCalls == pc = "calling" /\ \E h \in CallResults : Bail(h, "cancelled")
AddsPiece ==
    /\ pc \notin {"idle", "calling"} /\ pc' = "top"
    /\ \E text : /\ text \in Nat /\ text >= written
                 /\ history' = Push(PopPiece(history), Message("piece", question, text))
                 /\ written' = text /\ pieces' > 0
    /\ UNCHANGED <<question, bundle, outcome, ran>>

LosesNothing ==
    \A b \in Active(history) : b.id \notin Ids(history') =>
        (b.kind = "piece" /\ outcome' = "failed") \/ GoesRightly(b, history', bundle)

\* What a step must do to keep all of it.
Keeps == PiecesOK' /\ TextOK' /\ CallsAreRecorded' /\ StopKeepsAnswer /\ LosesNothing

-----------------------------------------------------------------------------
(* Each way keeps it. *)

LEMMA KeepFacts ==
    ASSUME KeepInv, pc # "idle"
    PROVE  /\ question \in Nat /\ written \in Nat /\ ran \in Nat /\ outcome = "none"
           /\ history \in HistoryType
           /\ WellFormed(history, question) /\ Standing(history, question, bundle)
           /\ Pieced(history, question, pieces, written)
           /\ CallsAreRecorded
           /\ pieces \in Nat /\ (pieces = 0 => written = 0)
BY TalkFacts DEF KeepInv, PiecesOK, WellFormed, IInv, ScreenOK, LoopInv, LoopTypeOK

LEMMA TrimmedLeaves ==
    ASSUME KeepInv, pc # "idle", NEW h, Trimmed(h)
    PROVE  /\ WellFormed(h, question) /\ Standing(h, question, bundle)
           /\ TrimsTo(history, h, question, bundle)
<1>1. CASE h = history
    <2>1. KeepsCalls(history, history) /\ LeavesInOrder(history, history, bundle)
        BY DEF KeepsCalls, LeavesInOrder, Ids, Active
    <2>2. history.prunedThrough \in Nat
        BY KeepFacts DEF HistoryType
    <2> QED BY <1>1, <2>1, <2>2, KeepFacts DEF TrimsTo
<1>2. ASSUME NEW e, h = Prune(EvictDownTo(history, bundle, e), HistoryBytes)
      PROVE  /\ WellFormed(h, question) /\ Standing(h, question, bundle)
             /\ TrimsTo(history, h, question, bundle)
    <2>1. TrimsTo(history, h, question, bundle)
        BY <1>2, KeepFacts, TrimLeaves
    <2>2. IInv
        BY DEF KeepInv
    <2> QED BY <1>2, <2>1, <2>2, EvictThenPrune
<1> QED BY <1>1, <1>2 DEF Trimmed

\* Calls once recorded stay so as long as nothing is dropped.
LEMMA CallsStay ==
    ASSUME CallsAreRecorded, KeepsCalls(history, history'), ran' = ran,
           pc = "calling" => pc' = "calling"
    PROVE  CallsAreRecorded'
<1> SUFFICES ASSUME history'.prunedThrough = 0, NEW n \in 1..ran, ~(pc' = "calling" /\ n = ran)
             PROVE  \E b \in history'.bundles : b.kind = "calls" /\ b.text = n
    BY DEF CallsAreRecorded
<1>1. history.prunedThrough = 0
    BY DEF KeepsCalls
<1>2. PICK b \in history.bundles : b.kind = "calls" /\ b.text = n
    BY <1>1 DEF CallsAreRecorded
<1> QED BY <1>2 DEF KeepsCalls

\* Nothing leaves the context while everything in the history stays.
LEMMA AllStays ==
    ASSUME history.bundles \subseteq history'.bundles
    PROVE  LosesNothing
BY DEF LosesNothing, Active, Ids

LEMMA TrimmedLoses ==
    ASSUME TrimsTo(history, history', question, bundle),
           WellFormed(history, question)
    PROVE  LosesNothing
<1> SUFFICES ASSUME NEW b \in Active(history), b.id \notin Ids(history')
             PROVE  GoesRightly(b, history', bundle)
    BY DEF LosesNothing
<1>1. b \notin Active(history')
    BY DEF Active, Ids
<1> QED BY <1>1 DEF TrimsTo, LeavesInOrder, GoesRightly

LEMMA AskKeepsAll == KeepInv /\ Ask => Keeps
<1> SUFFICES ASSUME KeepInv, Ask PROVE Keeps
    OBVIOUS
<1> DEFINE m == Message("user", question + 1, 0)
<1>1. question \in Nat /\ WellFormed(history, question) /\ history \in HistoryType /\ CallsAreRecorded
    BY DEF KeepInv, IInv, LoopInv, LoopTypeOK, TalkOK
<1>2. /\ question' = question + 1 /\ history' = Push(history, m) /\ pc = "idle" /\ pc' = "top"
      /\ pieces' = 0 /\ written' = 0 /\ reply' = NoReply /\ screen' = 0 /\ outcome' = "none"
      /\ ran' = ran
    BY DEF Ask
<1>3. m \in Messages /\ m.kind = "user"
    BY <1>1 DEF Message, Messages, Kinds
<1>4. NoPiece(history, question + 1)
    <2>1. \A b \in history.bundles : b.question \in Nat /\ b.question <= question
        BY <1>1 DEF WellFormed, HistoryType, Bundle
    <2> QED BY <1>1, <2>1 DEF NoPiece
<1> HIDE DEF m
<1>5. /\ KeepsCalls(history, history') /\ history.bundles \subseteq history'.bundles
      /\ NoPiece(history', question')
    BY <1>1, <1>2, <1>3, <1>4, PushLeaves
<1>6. PiecesOK'
    BY <1>2, <1>5 DEF PiecesOK, Pieced
<1>7. TextOK'
    BY <1>2 DEF TextOK, NoReply
<1>8. CallsAreRecorded'
    BY <1>1, <1>2, <1>5, CallsStay
<1>9. StopKeepsAnswer
    BY DEF Ask, StopKeepsAnswer
<1>10. LosesNothing
    BY <1>5, AllStays
<1> QED BY <1>6, <1>7, <1>8, <1>9, <1>10 DEF Keeps

LEMMA ProceedsKeepsAll == KeepInv /\ Proceeds => Keeps
<1> SUFFICES ASSUME KeepInv, NEW h, Trimmed(h), GoesOn(h), ran' = ran, pc' = "calling" <=> pc = "calling"
             PROVE  Keeps
    BY DEF Proceeds
<1>1. pc # "idle" /\ history' = h /\ pc' # "idle" /\ UNCHANGED <<question, bundle, pieces, written, outcome>>
      /\ (pc' = "asking" => screen' <= written + reply'.shown)
    BY DEF GoesOn
<1>2. TrimsTo(history, history', question, bundle)
    BY <1>1, TrimmedLeaves
<1>3. PiecesOK'
    <2>1. Pieced(history', question', pieces', written')
        BY <1>1, <1>2, KeepFacts DEF TrimsTo
    <2>2. outcome' = "none"
        BY <1>1, KeepFacts
    <2>3. pc = "calling" => pieces = 0
        BY DEF KeepInv, PiecesOK
    <2> QED BY <1>1, <2>1, <2>2, <2>3 DEF PiecesOK
<1>4. TextOK'
    BY <1>1 DEF TextOK
<1>5. CallsAreRecorded'
    BY <1>1, <1>2, KeepFacts, CallsStay DEF TrimsTo
<1>6. StopKeepsAnswer
    BY <1>1, KeepFacts DEF StopKeepsAnswer
<1>7. LosesNothing
    BY <1>1, <1>2, KeepFacts, TrimmedLoses
<1> QED BY <1>3, <1>4, <1>5, <1>6, <1>7 DEF Keeps

LEMMA CallsBeginKeepsAll == KeepInv /\ CallsBegin => Keeps
<1> SUFFICES ASSUME KeepInv, CallsBegin PROVE Keeps
    OBVIOUS
<1>1. pc = "asking" /\ history' = history /\ pc' = "calling"
      /\ UNCHANGED <<question, bundle, pieces, written, outcome>>
      /\ pieces = 0 /\ ran' = ran + 1
    BY DEF GoesOn, CallsBegin
<1>2. PiecesOK'
    BY <1>1, KeepFacts DEF PiecesOK
<1>3. TextOK'
    BY <1>1 DEF TextOK
<1>4. CallsAreRecorded'
    <2>1. SUFFICES ASSUME history.prunedThrough = 0, NEW n \in 1..(ran + 1), n # ran + 1
                   PROVE  \E b \in history.bundles : b.kind = "calls" /\ b.text = n
        BY <1>1 DEF CallsAreRecorded
    <2>2. n \in 1..ran
        BY <1>1, <2>1, KeepFacts
    <2> QED BY <1>1, <2>1, <2>2, KeepFacts DEF CallsAreRecorded
<1>5. StopKeepsAnswer
    BY <1>1, KeepFacts DEF StopKeepsAnswer
<1>6. LosesNothing
    BY <1>1, AllStays
<1> QED BY <1>2, <1>3, <1>4, <1>5, <1>6 DEF Keeps

\* Whatever calls leave holds what was there, and the calls.
LEMMA CallResultsLeave ==
    ASSUME KeepInv, pc # "idle", NEW h \in CallResults
    PROVE  /\ KeepsCalls(history, h) /\ history.bundles \subseteq h.bundles
           /\ NoPiece(history, question) => NoPiece(h, question)
           /\ \E b \in h.bundles : b.kind = "calls" /\ b.text = ran
<1> DEFINE Leaves(g, k) ==
               /\ KeepsCalls(g, k) /\ g.bundles \subseteq k.bundles
               /\ NoPiece(g, question) => NoPiece(k, question)
           message == Message("calls", question, ran)
           archive == Message("archive", question, 0)
           archived == Push(history, archive)
<1>1. question \in Nat /\ ran \in Nat /\ history \in HistoryType /\ history.nextId \in Nat
      /\ \A id \in Ids(history) : id \in Nat \ {0}
    BY KeepFacts DEF WellFormed, HistoryType, Ids, Bundle
<1>2. message \in Messages /\ message.kind = "calls" /\ message.text = ran
    BY <1>1 DEF Message, Messages, Kinds
<1>3. archive \in Messages /\ archive.kind = "archive"
    BY <1>1 DEF Message, Messages, Kinds
<1> HIDE DEF message, archive
<1>4. archived \in HistoryType /\ archived.nextId \in Nat \ {0} /\ Leaves(history, archived)
    BY <1>1, <1>3, PushFields, PushLeaves
<1> HIDE DEF archived
<1>5. ASSUME NEW g \in HistoryType, NEW m \in Messages, m.kind = "calls", m.text = ran
      PROVE  Leaves(g, Push(g, m)) /\ \E b \in Push(g, m).bundles : b.kind = "calls" /\ b.text = ran
    <2>1. Push(g, m).bundles = g.bundles \cup {Pushed(g, m)}
        BY <1>5, PushFields
    <2>2. Pushed(g, m).kind = "calls" /\ Pushed(g, m).text = ran
        BY <1>5 DEF Pushed
    <2> QED BY <1>5, <2>1, <2>2, PushLeaves
<1>6. \A id \in Nat \ {0} :
        /\ [message EXCEPT !.continues = {id}] \in Messages
        /\ [message EXCEPT !.continues = {id}].kind = "calls"
        /\ [message EXCEPT !.continues = {id}].text = ran
        /\ [message EXCEPT !.found = {id}] \in Messages
        /\ [message EXCEPT !.found = {id}].kind = "calls"
        /\ [message EXCEPT !.found = {id}].text = ran
    BY <1>2 DEF Messages
<1>7. \/ h = Push(history, message)
      \/ h = Push(archived, [message EXCEPT !.continues = {archived.nextId}])
      \/ \E id \in Ids(history) : h = Push(history, [message EXCEPT !.continues = {id}])
      \/ \E id \in Ids(history) : h = Push(history, [message EXCEPT !.found = {id}])
    BY DEF CallResults, message, archive, archived
<1>8. ASSUME NEW g, NEW m \in Messages, g = history \/ g = archived, m.kind = "calls", m.text = ran,
             h = Push(g, m)
      PROVE  Leaves(history, h) /\ \E b \in h.bundles : b.kind = "calls" /\ b.text = ran
    <2>1. g \in HistoryType
        BY <1>1, <1>4, <1>8
    <2>2. Leaves(g, h) /\ \E b \in h.bundles : b.kind = "calls" /\ b.text = ran
        BY <1>5, <1>8, <2>1
    <2>3. Leaves(history, h)
        <3>1. CASE g = history
            BY <2>2, <3>1
        <3>2. CASE g = archived
            <4>1. KeepsCalls(history, h)
                BY <1>4, <2>2, <3>2, KeepsCallsOn
            <4> QED BY <1>4, <2>2, <3>2, <4>1
        <3> QED BY <1>8, <3>1, <3>2
    <2> QED BY <2>2, <2>3
<1>9. CASE h = Push(history, message)
    BY <1>2, <1>8, <1>9
<1>10. CASE h = Push(archived, [message EXCEPT !.continues = {archived.nextId}])
    BY <1>4, <1>6, <1>8, <1>10
<1>11. ASSUME NEW id \in Ids(history), h = Push(history, [message EXCEPT !.continues = {id}])
       PROVE  Leaves(history, h) /\ \E b \in h.bundles : b.kind = "calls" /\ b.text = ran
    BY <1>1, <1>6, <1>8, <1>11
<1>12. ASSUME NEW id \in Ids(history), h = Push(history, [message EXCEPT !.found = {id}])
       PROVE  Leaves(history, h) /\ \E b \in h.bundles : b.kind = "calls" /\ b.text = ran
    BY <1>1, <1>6, <1>8, <1>12
<1> QED BY <1>7, <1>9, <1>10, <1>11, <1>12

\* The calls that ended are recorded with the rest.
LEMMA CallsRecorded ==
    ASSUME KeepInv, pc = "calling", NEW h \in CallResults, history' = h, ran' = ran
    PROVE  CallsAreRecorded' /\ LosesNothing
<1>1. /\ KeepsCalls(history, h) /\ history.bundles \subseteq h.bundles
      /\ \E b \in h.bundles : b.kind = "calls" /\ b.text = ran
    BY CallResultsLeave
<1>2. CallsAreRecorded'
    <2>1. SUFFICES ASSUME h.prunedThrough = 0, NEW n \in 1..ran, n # ran
                   PROVE  \E b \in h.bundles : b.kind = "calls" /\ b.text = n
        BY <1>1 DEF CallsAreRecorded
    <2>2. history.prunedThrough = 0
        BY <1>1, <2>1 DEF KeepsCalls
    <2>3. PICK b \in history.bundles : b.kind = "calls" /\ b.text = n
        BY <2>1, <2>2, KeepFacts DEF CallsAreRecorded
    <2> QED BY <1>1, <2>1, <2>3 DEF KeepsCalls
<1> QED BY <1>1, <1>2, AllStays

LEMMA CallsJoinKeepsAll == KeepInv /\ CallsJoin => Keeps
<1> SUFFICES ASSUME KeepInv, pc = "calling", NEW h \in CallResults, GoesOn(h), ran' = ran, pc' # "calling"
             PROVE  Keeps
    BY DEF CallsJoin
<1>1. history' = h /\ pc' # "idle" /\ UNCHANGED <<question, bundle, pieces, written, outcome>>
      /\ (pc' = "asking" => screen' <= written + reply'.shown)
    BY DEF GoesOn
<1>2. PiecesOK'
    <2>1. pieces = 0 /\ NoPiece(history, question)
        BY KeepFacts DEF KeepInv, PiecesOK, Pieced
    <2>2. NoPiece(history', question')
        BY <1>1, <2>1, CallResultsLeave
    <2>3. Pieced(history', question', pieces', written')
        BY <1>1, <2>1, <2>2 DEF Pieced
    <2> QED BY <1>1, <2>2, <2>3 DEF PiecesOK
<1>3. TextOK'
    BY <1>1 DEF TextOK
<1>4. CallsAreRecorded' /\ LosesNothing
    BY <1>1, CallsRecorded
<1>5. StopKeepsAnswer
    BY <1>1, KeepFacts DEF StopKeepsAnswer
<1> QED BY <1>2, <1>3, <1>4, <1>5 DEF Keeps

LEMMA StandsKeepsAll == KeepInv /\ Stands => Keeps
<1> SUFFICES ASSUME KeepInv, pc \notin {"idle", "calling"}, NEW h, NEW text \in Nat, Trimmed(h),
                    text >= written, Finish(h, text)
             PROVE  Keeps
    BY DEF Stands
<1> DEFINE m == Message("reply", question, text)
<1>1. /\ history' = Prune(Push(PopPiece(h), m), HistoryBytes) /\ outcome' = "answered"
      /\ pc' = "idle" /\ question' = question /\ ran' = ran
    BY DEF Finish, Leave
<1>2. m \in Messages /\ m.kind = "reply" /\ m.question = question /\ m.text >= written
    BY KeepFacts DEF Message, Messages, Kinds
<1>3. WellFormed(h, question) /\ Standing(h, question, bundle) /\ TrimsTo(history, h, question, bundle)
    BY TrimmedLeaves
<1> HIDE DEF m
<1>4. /\ NoPiece(history', question) /\ KeepsCalls(history, history')
      /\ \A b \in Active(history) : b.id \notin Ids(history') => GoesRightly(b, history', bundle)
    BY <1>1, <1>2, <1>3, KeepFacts, FinishLeaves
<1>5. PiecesOK' /\ TextOK' /\ StopKeepsAnswer
    BY <1>1, <1>4 DEF PiecesOK, TextOK, StopKeepsAnswer
<1>6. CallsAreRecorded'
    BY <1>1, <1>4, KeepFacts, CallsStay
<1>7. LosesNothing
    BY <1>4 DEF LosesNothing
<1> QED BY <1>5, <1>6, <1>7 DEF Keeps

LEMMA GivesUpKeepsAll == KeepInv /\ GivesUp => Keeps
<1> SUFFICES ASSUME KeepInv, pc \notin {"idle", "calling"}, pieces = 0, NEW h, Trimmed(h), Bail(h, "failed")
             PROVE  Keeps
    BY DEF GivesUp
<1>1. history' = h /\ outcome' = "failed" /\ pc' = "idle" /\ question' = question /\ ran' = ran
    BY DEF Bail, Leave
<1>2. TrimsTo(history, history', question, bundle)
    BY <1>1, TrimmedLeaves
<1>3. NoPiece(history', question')
    <2>1. Pieced(history', question, pieces, written)
        BY <1>2, KeepFacts DEF TrimsTo
    <2> QED BY <1>1, <2>1 DEF Pieced
<1>4. PiecesOK' /\ TextOK' /\ StopKeepsAnswer
    BY <1>1, <1>3 DEF PiecesOK, TextOK, StopKeepsAnswer
<1>5. CallsAreRecorded'
    BY <1>1, <1>2, KeepFacts, CallsStay DEF TrimsTo
<1>6. LosesNothing
    BY <1>1, <1>2, KeepFacts, TrimmedLoses
<1> QED BY <1>4, <1>5, <1>6 DEF Keeps

LEMMA WithdrawsKeepsAll == KeepInv /\ Withdraws => Keeps
<1> SUFFICES ASSUME KeepInv, pc \notin {"idle", "calling"}, Bail(PopPiece(history), "failed")
             PROVE  Keeps
    BY DEF Withdraws
<1>1. history' = PopPiece(history) /\ outcome' = "failed" /\ pc' = "idle" /\ question' = question
      /\ ran' = ran
    BY DEF Bail, Leave
<1>2. /\ NoPiece(history', question) /\ KeepsCalls(history, history')
      /\ \A b \in history.bundles : b \notin history'.bundles => b.kind = "piece"
    BY <1>1, KeepFacts, PopLeaves
<1>3. PiecesOK' /\ TextOK' /\ StopKeepsAnswer
    BY <1>1, <1>2 DEF PiecesOK, TextOK, StopKeepsAnswer
<1>4. CallsAreRecorded'
    BY <1>1, <1>2, KeepFacts, CallsStay
<1>5. LosesNothing
    BY <1>1, <1>2 DEF LosesNothing, Active, Ids
<1> QED BY <1>3, <1>4, <1>5 DEF Keeps

LEMMA StopsKeepsAll == KeepInv /\ Stops => Keeps
<1> SUFFICES ASSUME KeepInv, Stops PROVE Keeps
    OBVIOUS
<1>1. pc # "idle" /\ pc # "calling" /\ history' = history /\ outcome' = "cancelled" /\ pc' = "idle"
      /\ question' = question /\ ran' = ran /\ (pc = "asking" => screen <= written)
    BY DEF Stops, Bail, Leave
<1>2. PiecesOK' /\ TextOK'
    BY <1>1 DEF PiecesOK, TextOK
<1>3. StopKeepsAnswer
    <2>1. written \in Nat /\ screen \in Nat
        BY <1>1, KeepFacts DEF KeepInv, IInv, ScreenOK
    <2>2. ASSUME written > 0
          PROVE  \E b \in Active(history) : b.question = question /\ b.kind = "piece" /\ b.text = written
        <3>1. pieces > 0 /\ Pieced(history, question, pieces, written)
            BY <1>1, <2>2, KeepFacts
        <3>2. PICK b \in history.bundles : b.kind = "piece" /\ b.question = question /\ b.text = written /\ b.active
            BY <3>1 DEF Pieced, OnePiece
        <3> QED BY <3>2 DEF Active
    <2>3. CASE written > 0
        <3>1. PICK b \in Active(history) : b.question = question /\ b.kind = "piece" /\ b.text = written
            BY <2>2, <2>3
        <3>2. /\ b \in Active(history') /\ b.kind \in {"reply", "piece"}
              /\ b.text >= (IF pc = "asking" THEN screen ELSE written)
            BY <1>1, <2>1, <3>1
        <3> QED BY <3>1, <3>2 DEF StopKeepsAnswer
    <2>4. CASE ~(written > 0)
        <3>1. ~((IF pc = "asking" THEN screen ELSE written) > 0)
            BY <1>1, <2>1, <2>4
        <3> QED BY <3>1 DEF StopKeepsAnswer
    <2> QED BY <2>3, <2>4
<1>4. KeepsCalls(history, history')
    BY <1>1 DEF KeepsCalls
<1>5. CallsAreRecorded'
    BY <1>1, <1>4, KeepFacts, CallsStay
<1>6. LosesNothing
    BY <1>1, AllStays
<1> QED BY <1>2, <1>3, <1>5, <1>6 DEF Keeps

LEMMA StopsWritingKeepsAll == KeepInv /\ StopsWriting => Keeps
<1> SUFFICES ASSUME KeepInv, pc = "asking", NEW text \in Nat,
                    text >= written, text >= screen,
                    Bail(Push(PopPiece(history), Message("reply", question, text)), "cancelled")
             PROVE  Keeps
    BY DEF StopsWriting
<1> DEFINE m == Message("reply", question, text)
           p == Pushed(PopPiece(history), m)
<1>1. /\ history' = Push(PopPiece(history), m) /\ outcome' = "cancelled" /\ pc' = "idle"
      /\ question' = question /\ ran' = ran
    BY DEF Bail, Leave
<1>2. m \in Messages /\ m.kind = "reply" /\ m.question = question /\ m.text = text
    BY KeepFacts DEF Message, Messages, Kinds
<1>3. p.kind = "reply" /\ p.question = question /\ p.text = text /\ p.active
    BY <1>2 DEF Pushed
<1> HIDE DEF m
<1>4. /\ KeepsCalls(history, history')
      /\ \A b \in history.bundles : b \notin history'.bundles => b.active /\ GoesRightly(b, history', bundle)
      /\ history'.bundles = PopPiece(history).bundles \cup {p}
    BY <1>1, <1>2, KeepFacts, ReplaceLeaves
<1> HIDE DEF p
<1>5. PiecesOK' /\ TextOK'
    BY <1>1 DEF PiecesOK, TextOK
<1>6. StopKeepsAnswer
    <2>1. p \in Active(history')
        BY <1>3, <1>4 DEF Active
    <2> QED BY <1>3, <2>1 DEF StopKeepsAnswer
<1>7. CallsAreRecorded'
    BY <1>1, <1>4, KeepFacts, CallsStay
<1>8. LosesNothing
    BY <1>4 DEF LosesNothing, Active, Ids
<1> QED BY <1>5, <1>6, <1>7, <1>8 DEF Keeps

LEMMA StopsCallsKeepsAll == KeepInv /\ StopsCalls => Keeps
<1> SUFFICES ASSUME KeepInv, pc = "calling", NEW h \in CallResults, Bail(h, "cancelled")
             PROVE  Keeps
    BY DEF StopsCalls
<1>1. history' = h /\ outcome' = "cancelled" /\ pc' = "idle" /\ question' = question /\ ran' = ran
    BY DEF Bail, Leave
<1>2. PiecesOK' /\ TextOK'
    BY <1>1 DEF PiecesOK, TextOK
<1>3. StopKeepsAnswer
    <2>1. written = 0
        BY KeepFacts DEF KeepInv, PiecesOK
    <2>2. ~((IF pc = "asking" THEN screen ELSE written) > 0)
        BY <2>1
    <2> QED BY <2>2 DEF StopKeepsAnswer
<1>4. CallsAreRecorded' /\ LosesNothing
    BY <1>1, CallsRecorded
<1> QED BY <1>2, <1>3, <1>4 DEF Keeps

LEMMA AddsPieceKeepsAll == KeepInv /\ AddsPiece => Keeps
<1> SUFFICES ASSUME KeepInv, pc \notin {"idle", "calling"}, pc' = "top",
                    NEW text \in Nat, text >= written,
                    history' = Push(PopPiece(history), Message("piece", question, text)),
                    written' = text, pieces' > 0, UNCHANGED <<question, bundle, outcome, ran>>
             PROVE  Keeps
    BY DEF AddsPiece
<1> DEFINE m == Message("piece", question, text)
<1>1. m \in Messages /\ m.kind = "piece" /\ m.question = question /\ m.text = text
    BY KeepFacts DEF Message, Messages, Kinds
<1>2. history' = Push(PopPiece(history), m)
    OBVIOUS
<1> HIDE DEF m
<1>3. /\ KeepsCalls(history, history')
      /\ \A b \in history.bundles : b \notin history'.bundles => b.active /\ GoesRightly(b, history', bundle)
    BY <1>1, <1>2, KeepFacts, ReplaceLeaves
<1>4. OnePiece(history', question, text)
    <2>1. WellFormed(PopPiece(history), question) /\ NoPiece(PopPiece(history), question)
        BY KeepFacts, PopKeeps, PopLeaves
    <2> QED BY <1>1, <1>2, <2>1, KeepFacts, PieceJoins
<1>5. PiecesOK'
    BY <1>4, KeepFacts DEF PiecesOK, Pieced
<1>6. TextOK'
    BY DEF TextOK
<1>7. CallsAreRecorded'
    BY <1>3, KeepFacts, CallsStay
<1>8. StopKeepsAnswer
    BY KeepFacts DEF StopKeepsAnswer
<1>9. LosesNothing
    BY <1>3 DEF LosesNothing, Active, Ids
<1> QED BY <1>5, <1>6, <1>7, <1>8, <1>9 DEF Keeps

LEMMA StutterKeepsAll == KeepInv /\ UNCHANGED vars => Keeps
<1> SUFFICES ASSUME KeepInv, UNCHANGED vars PROVE Keeps
    OBVIOUS
<1>1. PiecesOK'
    BY DEF vars, KeepInv, PiecesOK
<1>2. TextOK'
    BY DEF vars, KeepInv, TextOK
<1>3. StopKeepsAnswer
    BY KeepFacts DEF vars, StopKeepsAnswer
<1>4. CallsAreRecorded'
    BY DEF vars, KeepInv, CallsAreRecorded
<1>5. LosesNothing
    BY AllStays DEF vars
<1> QED BY <1>1, <1>2, <1>3, <1>4, <1>5 DEF Keeps

-----------------------------------------------------------------------------
(* Each step goes one of these ways. *)

\* What a continued question does to the history.
LEMMA ContinueGoes ==
    ASSUME KeepInv, pc \notin {"idle", "calling"}, NEW h, Trimmed(h), NEW counters,
           Continue(h, counters)
    PROVE  Proceeds
<1>1. /\ history' = h /\ pc' = "top" /\ ran' = ran
      /\ UNCHANGED <<question, bundle, pieces, written, outcome>>
    BY DEF Continue, result
<1> QED BY <1>1 DEF Proceeds, GoesOn

\* However a response ends, the screen shows no more than what stands with it.
LEMMA EndsAtMost ==
    ASSUME KeepInv, pc = "asking", NEW r \in Ends
    PROVE  /\ r.shown \in Nat /\ r.text \in Nat /\ r.shown <= r.text
           /\ screen \in Nat /\ written \in Nat /\ screen <= written + r.shown
<1>1. IInv
    BY DEF KeepInv
<1>2. r.shown \in Nat /\ r.text \in Nat /\ r.shown <= r.text /\ r.shown >= reply.shown
    BY <1>1, AskingFacts
<1>3. screen \in Nat /\ reply.shown \in Nat /\ screen <= written + reply.shown /\ written \in Nat
    BY KeepFacts DEF KeepInv, IInv, ScreenOK, LoopInv, LoopTypeOK, Reply, TextOK
<1> QED BY <1>2, <1>3

LEMMA TrimmedItself == Trimmed(history)
BY DEF Trimmed

LEMMA StandOrFailGoes ==
    ASSUME KeepInv, pc = "asking", NEW r \in Ends, NEW h, Trimmed(h), StandOrFail(h, r)
    PROVE  Stands \/ GivesUp
<1>1. written + r.shown \in Nat /\ written + r.shown >= written
    BY EndsAtMost
<1>2. pieces \in Nat
    BY KeepFacts
<1>3. CASE Continuing
    <2>1. Finish(h, written + r.shown)
        BY <1>3 DEF StandOrFail
    <2> QED BY <1>1, <2>1 DEF Stands
<1>4. CASE ~Continuing
    <2>1. pieces = 0 /\ Bail(h, "failed")
        BY <1>2, <1>4 DEF StandOrFail, Continuing
    <2> QED BY <2>1 DEF GivesUp
<1> QED BY <1>3, <1>4

LEMMA AgainOrEndGoes ==
    ASSUME KeepInv, pc = "asking", NEW counters, NEW spent \in BOOLEAN,
           AgainOrEnd(counters, spent)
    PROVE  Proceeds \/ Stands \/ GivesUp
<1>1. pieces \in Nat /\ written \in Nat
    BY KeepFacts
<1>2. CASE ~spent
    <2>1. Continue(history, counters)
        BY <1>2 DEF AgainOrEnd
    <2> QED BY <2>1, TrimmedItself, ContinueGoes
<1>3. CASE spent /\ Continuing
    <2>1. Finish(history, written)
        BY <1>3 DEF AgainOrEnd
    <2> QED BY <1>1, <2>1, TrimmedItself DEF Stands
<1>4. CASE spent /\ ~Continuing
    <2>1. pieces = 0 /\ Bail(history, "failed")
        BY <1>1, <1>4 DEF AgainOrEnd, Continuing
    <2> QED BY <2>1, TrimmedItself DEF GivesUp
<1> QED BY <1>2, <1>3, <1>4

LEMMA StopTickGo == KeepInv /\ (Stop \/ Tick) => Proceeds
<1> SUFFICES ASSUME KeepInv, Stop \/ Tick PROVE Proceeds
    OBVIOUS
<1>1. /\ pc # "idle" /\ history' = history /\ pc' = pc /\ ran' = ran
      /\ UNCHANGED <<question, bundle, pieces, written, outcome, screen, reply>>
    BY DEF Stop, Tick, talk, loop, result
<1>2. pc' = "asking" => screen' <= written + reply'.shown
    BY <1>1 DEF KeepInv, TextOK
<1> QED BY <1>1, <1>2, TrimmedItself DEF Proceeds, GoesOn

LEMMA WriteGoes == KeepInv /\ Write => Proceeds
<1> SUFFICES ASSUME KeepInv, Write PROVE Proceeds
    OBVIOUS
<1>1. /\ pc = "asking" /\ history' = history /\ pc' = pc /\ ran' = ran
      /\ UNCHANGED <<question, bundle, pieces, written, outcome>>
      /\ screen' = screen + (reply'.shown - reply.shown) /\ reply' \in Wrote(reply)
    BY DEF Write, talk, loop, result
<1>2. reply \in Reply /\ reply.shown <= reply.text /\ (reply.lead # "free" => reply.shown = 0)
      /\ (reply.lead = "free" /\ ~cancelled => reply.shown = reply.text)
    BY <1>1 DEF KeepInv, IInv, LoopInv, LoopTypeOK, ReplyOK
<1>3. reply' \in Reply
    <2> DEFINE r == reply'
    <2>1. r \in Wrote(reply)
        BY <1>1
    <2> HIDE DEF r
    <2>2. r \in Reply
        BY <1>2, <2>1, WroteTyped
    <2> QED BY <2>2 DEF r
<1>4. reply.shown \in Nat /\ reply'.shown \in Nat /\ screen \in Nat /\ written \in Nat
      /\ screen <= written + reply.shown
    BY <1>1, <1>2, <1>3, KeepFacts DEF Reply, KeepInv, TextOK, IInv, ScreenOK
<1>5. screen' <= written + reply'.shown
    BY <1>1, <1>4
<1> QED BY <1>1, <1>5, TrimmedItself DEF Proceeds, GoesOn

LEMMA TopGoes == KeepInv /\ (StopAtTop \/ TimeOver) => Stops \/ Stands \/ GivesUp
<1> SUFFICES ASSUME KeepInv, StopAtTop \/ TimeOver PROVE Stops \/ Stands \/ GivesUp
    OBVIOUS
<1>1. pc = "top"
    BY DEF StopAtTop, TimeOver
<1>2. pieces \in Nat /\ written \in Nat
    BY <1>1, KeepFacts
<1>3. CASE StopAtTop
    BY <1>1, <1>2, <1>3 DEF StopAtTop, Stops
<1>4. CASE TimeOver /\ Continuing
    <2>1. Finish(history, written)
        BY <1>4 DEF TimeOver
    <2> QED BY <1>1, <1>2, <2>1, TrimmedItself DEF Stands
<1>5. CASE TimeOver /\ ~Continuing
    <2>1. Bail(history, "failed") /\ pieces = 0
        BY <1>2, <1>5 DEF TimeOver, Continuing
    <2> QED BY <1>1, <2>1, TrimmedItself DEF GivesUp
<1> QED BY <1>3, <1>4, <1>5

LEMMA RequestGoes == KeepInv /\ Request => Proceeds \/ Stands \/ GivesUp
<1> SUFFICES ASSUME KeepInv, Request PROVE Proceeds \/ Stands \/ GivesUp
    OBVIOUS
<1>1. pc = "top" /\ ~cancelled /\ screen' = screen
    BY DEF Request
<1>2. PICK excess \in 0..MaxExcess :
        LET h == Prune(EvictDownTo(history, bundle, excess), HistoryBytes)
        IN  \/ /\ pc' = "asking" /\ history' = h
               /\ reply' = [NoReply EXCEPT !.lead =
                     IF asksSearch /\ left # 1 /\ ~Continuing THEN "undecided" ELSE "free"]
               /\ UNCHANGED <<question, bundle, turn, pieces, written, tries, asksSearch, result, ran>>
            \/ IF Continuing THEN Finish(h, written) ELSE Bail(h, "failed")
    BY DEF Request
<1> DEFINE h == Prune(EvictDownTo(history, bundle, excess), HistoryBytes)
<1>3. Trimmed(h)
    BY DEF Trimmed
<1>4. pieces \in Nat /\ written \in Nat /\ screen = written
    <2>1. reply = NoReply
        BY <1>1 DEF KeepInv, IInv, LoopInv, ReplyOK
    <2> QED BY <1>1, <2>1, KeepFacts DEF KeepInv, IInv, ScreenOK, ScreenIsTheAnswer, NoReply
<1> HIDE DEF h
<1>5. CASE Continuing /\ Finish(h, written)
    BY <1>1, <1>3, <1>4, <1>5 DEF Stands
<1>6. CASE ~Continuing /\ Bail(h, "failed")
    <2>1. pieces = 0
        BY <1>4, <1>6 DEF Continuing
    <2> QED BY <1>1, <1>3, <1>6, <2>1 DEF GivesUp
<1>7. CASE /\ pc' = "asking" /\ history' = h
           /\ reply' = [NoReply EXCEPT !.lead =
                 IF asksSearch /\ left # 1 /\ ~Continuing THEN "undecided" ELSE "free"]
           /\ UNCHANGED <<question, bundle, turn, pieces, written, tries, asksSearch, result, ran>>
    <2>1. reply'.shown = 0
        BY <1>7 DEF NoReply
    <2>2. screen' <= written + reply'.shown
        BY <1>1, <1>4, <2>1
    <2>3. GoesOn(h) /\ ran' = ran /\ (pc' = "calling" <=> pc = "calling")
        BY <1>1, <1>7, <2>2 DEF GoesOn, result
    <2> QED BY <1>3, <2>3 DEF Proceeds
<1> QED BY <1>2, <1>5, <1>6, <1>7 DEF h

LEMMA ReserveGoes == KeepInv /\ ReserveReached => Proceeds
<1> SUFFICES ASSUME KeepInv, ReserveReached PROVE Proceeds
    OBVIOUS
<1>1. pc = "asking" /\ Continue(history, tries)
    BY DEF ReserveReached
<1> QED BY <1>1, TrimmedItself, ContinueGoes

LEMMA WaitOverGoes == KeepInv /\ WaitOver => Proceeds \/ Stops
<1> SUFFICES ASSUME KeepInv, WaitOver PROVE Proceeds \/ Stops
    OBVIOUS
<1>1. pc = "waiting"
    BY DEF WaitOver
<1>2. CASE Continue(history, tries)
    BY <1>1, <1>2, TrimmedItself, ContinueGoes
<1>3. CASE Bail(history, "cancelled")
    BY <1>1, <1>3 DEF Stops
<1> QED BY <1>2, <1>3 DEF WaitOver

LEMMA CallsEndGoes == KeepInv /\ CallsEnd => CallsJoin \/ StopsCalls
<1> SUFFICES ASSUME KeepInv, CallsEnd PROVE CallsJoin \/ StopsCalls
    OBVIOUS
<1>1. pc = "calling"
    BY DEF CallsEnd
<1>2. PICK h \in CallResults : IF cancelled THEN Bail(h, "cancelled") ELSE Continue(h, tries)
    BY DEF CallsEnd
<1>3. CASE Bail(h, "cancelled")
    BY <1>1, <1>3 DEF StopsCalls
<1>4. CASE Continue(h, tries)
    <2>1. /\ history' = h /\ pc' = "top" /\ ran' = ran
          /\ UNCHANGED <<question, bundle, pieces, written, outcome>>
        BY <1>4 DEF Continue, result
    <2> QED BY <1>1, <2>1 DEF CallsJoin, GoesOn
<1> QED BY <1>2, <1>3, <1>4

LEMMA FailsGo ==
    ASSUME KeepInv, NEW r \in Ends, Fails(r)
    PROVE  Proceeds \/ Stands \/ GivesUp \/ Stops \/ StopsWriting
<1>1. pc = "asking"
    BY DEF Fails, KeepStopped, SearchFirst, AskAgain, Overflow, Unusable, Outage, RequestFails, RunTimeout
<1>2. r.shown \in Nat /\ written \in Nat /\ screen \in Nat /\ screen <= written + r.shown
    BY <1>1, EndsAtMost
<1>3. CASE KeepStopped(r)
    <2>1. CASE written + r.shown > 0
        <3>1. Bail(Push(PopPiece(history), Message("reply", question, written + r.shown)), "cancelled")
            BY <1>3, <2>1 DEF KeepStopped
        <3>2. written + r.shown \in Nat /\ written + r.shown >= written /\ written + r.shown >= screen
            BY <1>2
        <3> QED BY <1>1, <3>1, <3>2 DEF StopsWriting
    <2>2. CASE ~(written + r.shown > 0)
        <3>1. Bail(history, "cancelled")
            BY <1>3, <2>2 DEF KeepStopped
        <3>2. screen <= written
            BY <1>2, <2>2
        <3> QED BY <1>1, <3>1, <3>2 DEF Stops
    <2> QED BY <2>1, <2>2
<1>4. CASE SearchFirst(r) \/ AskAgain(r)
    <2>1. Continue(history, tries)
        BY <1>4 DEF SearchFirst, AskAgain
    <2> QED BY <1>1, <2>1, TrimmedItself, ContinueGoes
<1>5. CASE Overflow(r)
    <2> DEFINE everything == Size(Active(history)) + 1
               h == Prune(EvictDownTo(history, bundle, everything), HistoryBytes)
    <2>1. Trimmed(h)
        BY DEF Trimmed
    <2>2. Continue(h, tries) \/ StandOrFail(h, r)
        BY <1>5 DEF Overflow
    <2> HIDE DEF h
    <2> QED BY <1>1, <2>1, <2>2, ContinueGoes, StandOrFailGoes
<1>6. CASE Unusable(r)
    <2>1. Continue(history, [tries EXCEPT !.unusable = @ + 1]) \/ StandOrFail(history, r)
        BY <1>6 DEF Unusable
    <2> QED BY <1>1, <2>1, TrimmedItself, ContinueGoes, StandOrFailGoes
<1>7. CASE Outage(r)
    <2>1. /\ history' = history /\ pc' = "waiting" /\ ran' = ran
          /\ UNCHANGED <<question, bundle, pieces, written, outcome>>
        BY <1>7 DEF Outage, talk, result
    <2> QED BY <1>1, <2>1, TrimmedItself DEF Proceeds, GoesOn
<1>8. CASE RequestFails(r) \/ RunTimeout(r)
    <2>1. StandOrFail(history, r)
        BY <1>8 DEF RequestFails, RunTimeout
    <2> QED BY <1>1, <2>1, TrimmedItself, StandOrFailGoes
<1> QED BY <1>3, <1>4, <1>5, <1>6, <1>7, <1>8 DEF Fails

LEMMA CompletesGo ==
    ASSUME KeepInv, NEW r \in Ends, Completes(r)
    PROVE  Proceeds \/ Stands \/ GivesUp \/ Withdraws \/ AddsPiece \/ CallsBegin
<1>1. pc = "asking"
    BY DEF Completes, ServedCut, RefuseClaim, Whole, Cut, Blank, CutCalls, WithheldCalls,
       OversizedCalls, Calls
<1>2. r.text \in Nat /\ written \in Nat
    BY <1>1, EndsAtMost
<1>3. CASE ServedCut(r)
    BY <1>1, <1>3 DEF ServedCut, Withdraws
<1>4. CASE RefuseClaim(r)
    <2>1. Continue(history, Answered)
        BY <1>4 DEF RefuseClaim
    <2> QED BY <1>1, <2>1, TrimmedItself, ContinueGoes
<1>5. CASE Whole(r)
    <2>1. Finish(history, written + r.text)
        BY <1>5 DEF Whole
    <2>2. written + r.text \in Nat /\ written + r.text >= written
        BY <1>2
    <2> QED BY <1>1, <2>1, <2>2, TrimmedItself DEF Stands
<1>6. CASE Cut(r)
    <2>1. /\ pc' = "top" /\ pieces' = pieces + 1 /\ written' = written + r.text
          /\ history' = Push(PopPiece(history), Message("piece", question, written + r.text))
          /\ UNCHANGED <<question, bundle, outcome, ran>>
        BY <1>6 DEF Cut, result
    <2>2. written + r.text \in Nat /\ written + r.text >= written
        BY <1>2
    <2>3. pieces' > 0
        BY <1>1, <2>1, KeepFacts
    <2> QED BY <1>1, <2>1, <2>2, <2>3 DEF AddsPiece
<1>7. CASE Blank(r)
    <2>1. AgainOrEnd([Answered EXCEPT !.empty = @ + 1], tries.empty >= Retries)
        BY <1>7 DEF Blank
    <2>2. (tries.empty >= Retries) \in BOOLEAN
        OBVIOUS
    <2> QED BY <1>1, <2>1, <2>2, AgainOrEndGoes
<1>8. CASE CutCalls(r)
    <2>1. Continue(history, Answered)
        BY <1>8 DEF CutCalls
    <2> QED BY <1>1, <2>1, TrimmedItself, ContinueGoes
<1>9. CASE WithheldCalls(r)
    <2>1. AgainOrEnd([Answered EXCEPT !.empty = 0, !.withheld = @ + 1], tries.withheld >= Retries)
        BY <1>9 DEF WithheldCalls
    <2>2. (tries.withheld >= Retries) \in BOOLEAN
        OBVIOUS
    <2> QED BY <1>1, <2>1, <2>2, AgainOrEndGoes
<1>10. CASE OversizedCalls(r)
    <2>1. AgainOrEnd([Answered EXCEPT !.empty = 0, !.oversized = @ + 1], tries.oversized >= Retries)
        BY <1>10 DEF OversizedCalls
    <2>2. (tries.oversized >= Retries) \in BOOLEAN
        OBVIOUS
    <2> QED BY <1>1, <2>1, <2>2, AgainOrEndGoes
<1>11. CASE Calls(r)
    <2>1. /\ history' = history /\ pc' = "calling" /\ ran' = ran + 1
          /\ UNCHANGED <<question, bundle, pieces, written, outcome>> /\ ~Continuing
        BY <1>11 DEF Calls, talk, result, Withheld
    <2>2. pieces = 0
        BY <1>1, <2>1, KeepFacts DEF Continuing
    <2> QED BY <1>1, <2>1, <2>2 DEF CallsBegin, GoesOn
<1> QED BY <1>3, <1>4, <1>5, <1>6, <1>7, <1>8, <1>9, <1>10, <1>11 DEF Completes

LEMMA HowItGoes ==
    ASSUME KeepInv, Next
    PROVE  \/ Ask \/ Proceeds \/ CallsBegin \/ CallsJoin \/ Stands \/ GivesUp \/ Withdraws
           \/ Stops \/ StopsWriting \/ StopsCalls \/ AddsPiece
<1>1. CASE Ask
    BY <1>1
<1>2. CASE Stop \/ Tick
    BY <1>2, StopTickGo
<1>3. CASE StopAtTop \/ TimeOver
    BY <1>3, TopGoes
<1>4. CASE Request
    BY <1>4, RequestGoes
<1>5. CASE Write
    BY <1>5, WriteGoes
<1>6. CASE ReserveReached
    BY <1>6, ReserveGoes
<1>7. CASE WaitOver
    BY <1>7, WaitOverGoes
<1>8. CASE CallsEnd
    BY <1>8, CallsEndGoes
<1>9. ASSUME NEW r \in Ends, Fails(r)
      PROVE  Proceeds \/ Stands \/ GivesUp \/ Stops \/ StopsWriting
    BY <1>9, FailsGo
<1>10. ASSUME NEW r \in Ends, Completes(r)
       PROVE  Proceeds \/ Stands \/ GivesUp \/ Withdraws \/ AddsPiece \/ CallsBegin
    BY <1>10, CompletesGo
<1> QED BY <1>1, <1>2, <1>3, <1>4, <1>5, <1>6, <1>7, <1>8, <1>9, <1>10 DEF Next

LEMMA InitKeep == Init => KeepInv
<1> SUFFICES ASSUME Init PROVE KeepInv
    OBVIOUS
<1>1. IInv
    BY InitInv
<1>2. PiecesOK /\ TextOK
    BY DEF Init, PiecesOK, TextOK
<1>3. CallsAreRecorded
    BY DEF Init, CallsAreRecorded
<1> QED BY <1>1, <1>2, <1>3 DEF KeepInv

LEMMA NextKeeps == KeepInv /\ [Next]_vars => KeepInv' /\ StopKeepsAnswer /\ LosesNothing
<1> SUFFICES ASSUME KeepInv, [Next]_vars PROVE KeepInv' /\ StopKeepsAnswer /\ LosesNothing
    OBVIOUS
<1>1. IInv'
    BY NextInv DEF KeepInv
<1>2. CASE Next
    <2>1. Keeps
        BY <1>2, HowItGoes, AskKeepsAll, ProceedsKeepsAll, CallsBeginKeepsAll, CallsJoinKeepsAll,
           StandsKeepsAll, GivesUpKeepsAll, WithdrawsKeepsAll, StopsKeepsAll, StopsWritingKeepsAll,
           StopsCallsKeepsAll, AddsPieceKeepsAll
    <2> QED BY <1>1, <2>1 DEF Keeps, KeepInv
<1>3. CASE UNCHANGED vars
    BY <1>1, <1>3, StutterKeepsAll DEF Keeps, KeepInv
<1> QED BY <1>2, <1>3

LEMMA KeepInvariance == Spec => []KeepInv
BY InitKeep, NextKeeps, PTL DEF Spec

\* However an answer is cut, continued, evicted around, stopped or failed, its
\* pieces are one message of the conversation, its last, and none stays beside
\* the answer or after a failure.
THEOREM PiecesStayOne == Spec => []PiecesAreOneMessage
<1>1. KeepInv => PiecesAreOneMessage
    <2> SUFFICES ASSUME KeepInv PROVE PiecesAreOneMessage
        OBVIOUS
    <2>1. ASSUME NoPiece(history, question) PROVE PiecesOf(question) = {}
        BY <2>1 DEF NoPiece, PiecesOf
    <2>2. ASSUME pc # "idle", ~Continuing PROVE PiecesOf(question) = {}
        <3>1. NoPiece(history, question)
            BY <2>2 DEF KeepInv, PiecesOK, Pieced, Continuing
        <3> QED BY <2>1, <3>1
    <2>3. ASSUME pc # "idle", Continuing
          PROVE  /\ \E b \in PiecesOf(question) : b.text = written /\ IsLast(b, history.bundles)
                 /\ Cardinality(PiecesOf(question)) = 1
        <3>1. OnePiece(history, question, written)
            BY <2>3 DEF KeepInv, PiecesOK, Pieced, Continuing
        <3>2. PICK b \in history.bundles :
                  /\ b.kind = "piece" /\ b.question = question /\ b.text = written
                  /\ IsLast(b, history.bundles)
                  /\ \A c \in history.bundles : c.kind = "piece" /\ c.question = question => c = b
            BY <3>1 DEF OnePiece
        <3>3. PiecesOf(question) = {b}
            BY <3>2 DEF PiecesOf
        <3>4. Cardinality({b}) = 1
            BY FS_Singleton
        <3> QED BY <3>2, <3>3, <3>4
    <2>4. outcome \in {"answered", "failed"} => PiecesOf(question) = {}
        BY <2>1 DEF KeepInv, PiecesOK
    <2> QED BY <2>2, <2>3, <2>4 DEF PiecesAreOneMessage
<1> QED BY <1>1, KeepInvariance, PTL

\* A question that ends stopped leaves in its conversation all the browser shows when
\* the stop ended its response, and the pieces of its answer when the stop was seen
\* between two responses; and what calls did stays there.
THEOREM StoppedWorkStays == Spec => WhatWasDoneStays
<1>1. KeepInv => CallsAreRecorded
    BY DEF KeepInv
<1>2. KeepInv /\ [Next]_vars => [StopKeepsAnswer]_vars
    BY NextKeeps
<1> QED BY <1>1, <1>2, KeepInvariance, PTL DEF Spec, WhatWasDoneStays

\* No message of the context is lost: it goes on in the answer it is a piece of, or
\* leaves in order, and the history knows it did.
THEOREM ContextIsNotLost == Spec => NothingInContextIsLost
<1>1. KeepInv /\ [Next]_vars =>
          [\A b \in Active(history) : b.id \notin Ids(history') =>
              \/ /\ b.kind = "piece"
                 /\ \/ outcome' = "failed"
                    \/ \E c \in Active(history') : c.id > b.id /\ c.text >= b.text
              \/ /\ b.id <= history'.prunedThrough
                 /\ \A c \in Active(history') : c.id < b.id => c.id = bundle]_vars
    <2> SUFFICES ASSUME KeepInv, [Next]_vars, NEW b \in Active(history), b.id \notin Ids(history')
                 PROVE  \/ /\ b.kind = "piece"
                           /\ \/ outcome' = "failed"
                              \/ \E c \in Active(history') : c.id > b.id /\ c.text >= b.text
                        \/ /\ b.id <= history'.prunedThrough
                           /\ \A c \in Active(history') : c.id < b.id => c.id = bundle
        OBVIOUS
    <2>1. LosesNothing
        BY NextKeeps
    <2> QED BY <2>1 DEF LosesNothing, GoesRightly
<1> QED BY <1>1, KeepInvariance, PTL DEF Spec, NothingInContextIsLost

-----------------------------------------------------------------------------
(***************************************************************************)
(* What a request offers to read on: nothing of it is pruned, and pruning  *)
(* reaches its limit.                                                      *)
(***************************************************************************)

Readable(h) == RefersBack(h) /\ ReadsOn(h) /\ FindsThere(h)

ReadInv ==
    /\ RefersBack(history) /\ ReadsOn(history)
    /\ pc # "idle" => FindsThere(history)
    /\ HistoryIsBounded

LEMMA TrimmedReads ==
    ASSUME KeepInv, pc # "idle", Readable(history), NEW h, Trimmed(h)
    PROVE  Readable(h)
<1>1. ASSUME NEW e, h = Prune(EvictDownTo(history, bundle, e), HistoryBytes)
      PROVE  Readable(h)
    <2> DEFINE k == EvictDownTo(history, bundle, e)
    <2>1. question \in Nat /\ WellFormed(history, question) /\ Standing(history, question, bundle)
        BY KeepFacts
    <2>2. RefersBack(k) /\ ReadsOn(k) /\ FindsThere(k)
        BY <2>1, EvictReads DEF Readable
    <2>3. k \in HistoryType
        BY <2>1, EvictKeeps DEF WellFormed
    <2> HIDE DEF k
    <2> QED BY <1>1, <2>2, <2>3, PruneReads DEF Readable, k
<1> QED BY <1>1 DEF Trimmed

\* A message that takes the place of the pieces and offers nothing.
LEMMA ReplaceReads ==
    ASSUME KeepInv, pc # "idle", NEW h, WellFormed(h, question), Standing(h, question, bundle),
           RefersBack(h), ReadsOn(h),
           NEW kind \in Kinds, kind # "archive", NEW text \in Nat
    PROVE  LET g == Push(PopPiece(h), Message(kind, question, text))
           IN  Readable(g) /\ g \in HistoryType
<1> DEFINE m == Message(kind, question, text)
           k == PopPiece(h)
<1>1. question \in Nat
    BY KeepFacts
<1>2. m \in Messages /\ m.kind = kind /\ m.continues = {} /\ m.found = {}
    BY <1>1 DEF Message, Messages
<1>3. WellFormed(k, question) /\ h \in HistoryType
    BY <1>1, PopKeeps DEF WellFormed
<1>4. RefersBack(k) /\ ReadsOn(k)
    BY <1>3, PopReads
<1>5. k \in HistoryType /\ \A b \in k.bundles : b.id <= k.nextId
    BY <1>3 DEF WellFormed
<1>6. m.continues \subseteq Ids(k) /\ m.found \subseteq Ids(k)
    BY <1>2
<1> HIDE DEF m, k
<1>7. Push(k, m) \in HistoryType
    BY <1>2, <1>5, PushFields
<1> QED BY <1>2, <1>4, <1>5, <1>6, <1>7, PushReads DEF Readable, m, k

LEMMA CallResultsRead ==
    ASSUME KeepInv, pc # "idle", Readable(history), NEW h \in CallResults
    PROVE  Readable(h)
<1> DEFINE message == Message("calls", question, ran)
           archive == Message("archive", question, 0)
           archived == Push(history, archive)
<1>1. /\ question \in Nat /\ ran \in Nat /\ history \in HistoryType /\ history.nextId \in Nat
      /\ \A b \in history.bundles : b.id <= history.nextId
      /\ \A id \in Ids(history) : id \in Nat \ {0}
    BY KeepFacts DEF WellFormed, HistoryType, Ids, Bundle
<1>2. /\ message \in Messages /\ message.kind = "calls"
      /\ message.continues = {} /\ message.found = {}
    BY <1>1 DEF Message, Messages, Kinds
<1>3. /\ archive \in Messages /\ archive.kind = "archive"
      /\ archive.continues = {} /\ archive.found = {}
    BY <1>1 DEF Message, Messages, Kinds
<1>4. \A id \in Nat \ {0} :
        /\ [message EXCEPT !.continues = {id}] \in Messages
        /\ [message EXCEPT !.continues = {id}].kind = "calls"
        /\ [message EXCEPT !.continues = {id}].continues = {id}
        /\ [message EXCEPT !.continues = {id}].found = {}
        /\ [message EXCEPT !.found = {id}] \in Messages
        /\ [message EXCEPT !.found = {id}].kind = "calls"
        /\ [message EXCEPT !.found = {id}].continues = {}
        /\ [message EXCEPT !.found = {id}].found = {id}
    <2> HIDE DEF message
    <2> QED BY <1>2 DEF Messages
<1>5. \/ h = Push(history, message)
      \/ h = Push(archived, [message EXCEPT !.continues = {archived.nextId}])
      \/ \E id \in Ids(history) : h = Push(history, [message EXCEPT !.continues = {id}])
      \/ \E id \in Ids(history) : h = Push(history, [message EXCEPT !.found = {id}])
    BY DEF CallResults
<1> HIDE DEF message, archive
<1>6. /\ archived \in HistoryType /\ archived.nextId = history.nextId + 1
      /\ archived.bundles = history.bundles \cup {Pushed(history, archive)}
    BY <1>1, <1>3, PushFields
<1>7. Pushed(history, archive).id = history.nextId + 1
    BY DEF Pushed
<1>8. RefersBack(archived) /\ ReadsOn(archived)
    BY <1>1, <1>3, PushReads DEF Readable
<1> HIDE DEF archived
<1>9. /\ \A b \in archived.bundles : b.id <= archived.nextId
      /\ archived.nextId \in Ids(archived) /\ archived.nextId \in Nat \ {0}
    <2>1. \A b \in history.bundles : b.id \in Nat
        BY <1>1 DEF HistoryType, Bundle
    <2> QED BY <1>1, <1>6, <1>7, <2>1 DEF Ids
<1>10. ASSUME NEW g \in HistoryType, \A b \in g.bundles : b.id <= g.nextId, RefersBack(g), ReadsOn(g),
              NEW m \in Messages, m.kind = "calls", m.continues \subseteq Ids(g), m.found \subseteq Ids(g),
              h = Push(g, m)
       PROVE  Readable(h)
    BY <1>10, PushReads DEF Readable
<1>11. RefersBack(history) /\ ReadsOn(history)
    BY DEF Readable
<1>12. CASE h = Push(history, message)
    BY <1>1, <1>2, <1>10, <1>11, <1>12
<1>13. CASE h = Push(archived, [message EXCEPT !.continues = {archived.nextId}])
    <2> DEFINE m == [message EXCEPT !.continues = {archived.nextId}]
    <2>1. h = Push(archived, m)
        BY <1>13
    <2>2. archived.nextId \in Nat \ {0} /\ archived.nextId \in Ids(archived)
        BY <1>9
    <2>3. m \in Messages /\ m.kind = "calls" /\ m.continues = {archived.nextId} /\ m.found = {}
        BY <1>4, <2>2
    <2> HIDE DEF m
    <2>4. m.continues \subseteq Ids(archived) /\ m.found \subseteq Ids(archived)
        BY <2>2, <2>3
    <2> QED BY <1>6, <1>8, <1>9, <1>10, <2>1, <2>3, <2>4
<1>14. ASSUME NEW id \in Ids(history), h = Push(history, [message EXCEPT !.continues = {id}])
       PROVE  Readable(h)
    <2> DEFINE m == [message EXCEPT !.continues = {id}]
    <2>1. h = Push(history, m)
        BY <1>14
    <2>2. id \in Nat \ {0} /\ id \in Ids(history)
        BY <1>1, <1>14
    <2>3. m \in Messages /\ m.kind = "calls" /\ m.continues = {id} /\ m.found = {}
        BY <1>4, <2>2
    <2> HIDE DEF m
    <2>4. m.continues \subseteq Ids(history) /\ m.found \subseteq Ids(history)
        BY <2>2, <2>3
    <2> QED BY <1>1, <1>10, <1>11, <2>1, <2>3, <2>4
<1>15. ASSUME NEW id \in Ids(history), h = Push(history, [message EXCEPT !.found = {id}])
       PROVE  Readable(h)
    <2> DEFINE m == [message EXCEPT !.found = {id}]
    <2>1. h = Push(history, m)
        BY <1>15
    <2>2. id \in Nat \ {0} /\ id \in Ids(history)
        BY <1>1, <1>15
    <2>3. m \in Messages /\ m.kind = "calls" /\ m.continues = {} /\ m.found = {id}
        BY <1>4, <2>2
    <2> HIDE DEF m
    <2>4. m.continues \subseteq Ids(history) /\ m.found \subseteq Ids(history)
        BY <2>2, <2>3
    <2> QED BY <1>1, <1>10, <1>11, <2>1, <2>3, <2>4
<1> QED BY <1>5, <1>12, <1>13, <1>14, <1>15

-----------------------------------------------------------------------------
\* What each way leaves can be read on.
LEMMA AskReads == KeepInv /\ ReadInv /\ Ask => Readable(history')
<1> SUFFICES ASSUME KeepInv, ReadInv, Ask PROVE Readable(history')
    OBVIOUS
<1> DEFINE m == Message("user", question + 1, 0)
<1>1. question \in Nat /\ WellFormed(history, question)
    BY DEF KeepInv, IInv, LoopInv, LoopTypeOK, TalkOK
<1>2. history \in HistoryType /\ \A b \in history.bundles : b.id <= history.nextId
    BY <1>1 DEF WellFormed
<1>3. m \in Messages /\ m.kind = "user" /\ m.continues = {} /\ m.found = {}
    BY <1>1 DEF Message, Messages, Kinds
<1>4. history' = Push(history, m)
    BY DEF Ask
<1>5. RefersBack(history) /\ ReadsOn(history)
    BY DEF ReadInv
<1> HIDE DEF m
<1> QED BY <1>2, <1>3, <1>4, <1>5, PushReads DEF Readable

\* An answer joins and the history is pruned to its limit.
LEMMA StandsReads ==
    ASSUME KeepInv, ReadInv, Stands
    PROVE  RefersBack(history') /\ ReadsOn(history') /\ WithinLimit(history', HistoryBytes)
           /\ pc' = "idle"
<1>1. PICK h, text : pc # "idle" /\ Trimmed(h) /\ text \in Nat /\ Finish(h, text)
    BY DEF Stands
<1> DEFINE k == Push(PopPiece(h), Message("reply", question, text))
<1>2. history' = Prune(k, HistoryBytes) /\ pc' = "idle"
    BY <1>1 DEF Finish, Leave
<1>3. WellFormed(h, question) /\ Standing(h, question, bundle)
    BY <1>1, TrimmedLeaves
<1>4. Readable(h)
    BY <1>1, TrimmedReads DEF ReadInv, Readable
<1>5. Readable(k) /\ k \in HistoryType
    BY <1>1, <1>3, <1>4, ReplaceReads DEF Readable, Kinds
<1> HIDE DEF k
<1>6. RefersBack(history') /\ ReadsOn(history')
    BY <1>2, <1>5, PruneReads DEF Readable
<1>7. HistoryBytes \in Nat /\ IsFiniteSet(k.bundles)
    BY <1>5, AnswerLoopAssumption DEF Readable, RefersBack
<1>8. WithinLimit(history', HistoryBytes)
    BY <1>2, <1>5, <1>7, PruneFits
<1> QED BY <1>2, <1>6, <1>8

\* A question goes on with what can be read on.
LEMMA GoesOnReads ==
    ASSUME KeepInv, ReadInv, Proceeds \/ CallsBegin \/ CallsJoin \/ AddsPiece
    PROVE  Readable(history')
<1>1. pc # "idle"
    BY DEF Proceeds, CallsBegin, CallsJoin, AddsPiece, GoesOn
<1>2. Readable(history)
    BY <1>1 DEF ReadInv, Readable
<1>3. CASE Proceeds
    BY <1>1, <1>2, <1>3, TrimmedReads DEF Proceeds, GoesOn
<1>4. CASE CallsBegin
    BY <1>2, <1>4 DEF CallsBegin, GoesOn
<1>5. CASE CallsJoin
    BY <1>1, <1>2, <1>5, CallResultsRead DEF CallsJoin, GoesOn
<1>6. CASE AddsPiece
    <2>1. PICK text \in Nat : history' = Push(PopPiece(history), Message("piece", question, text))
        BY <1>6 DEF AddsPiece
    <2>2. WellFormed(history, question) /\ Standing(history, question, bundle)
        BY <1>1, KeepFacts
    <2> QED BY <1>1, <1>2, <2>1, <2>2, ReplaceReads DEF Readable, Kinds
<1> QED BY <1>3, <1>4, <1>5, <1>6

\* What a question leaves that ends without an answer.
LEMMA EndsRead ==
    ASSUME KeepInv, ReadInv, GivesUp \/ Withdraws \/ Stops \/ StopsWriting \/ StopsCalls
    PROVE  RefersBack(history') /\ ReadsOn(history') /\ pc' = "idle" /\ outcome' # "answered"
<1>1. pc # "idle" /\ pc' = "idle" /\ outcome' # "answered"
    BY DEF GivesUp, Withdraws, Stops, StopsWriting, StopsCalls, Bail, Leave
<1>2. Readable(history)
    BY <1>1 DEF ReadInv, Readable
<1>3. WellFormed(history, question) /\ Standing(history, question, bundle) /\ history \in HistoryType
    BY <1>1, KeepFacts
<1>4. CASE GivesUp
    <2>1. PICK h : Trimmed(h) /\ history' = h
        BY <1>4 DEF GivesUp, Bail
    <2> QED BY <1>1, <1>2, <2>1, TrimmedReads DEF Readable
<1>5. CASE Withdraws
    <2>1. history' = PopPiece(history)
        BY <1>5 DEF Withdraws, Bail
    <2> QED BY <1>1, <1>2, <1>3, <2>1, PopReads DEF Readable
<1>6. CASE Stops
    BY <1>1, <1>2, <1>6 DEF Stops, Bail, Readable
<1>7. CASE StopsWriting
    <2>1. PICK text \in Nat : history' = Push(PopPiece(history), Message("reply", question, text))
        BY <1>7 DEF StopsWriting, Bail
    <2> QED BY <1>1, <1>2, <1>3, <2>1, ReplaceReads DEF Readable, Kinds
<1>8. CASE StopsCalls
    <2>1. history' \in CallResults
        BY <1>8 DEF StopsCalls, Bail
    <2> QED BY <1>1, <1>2, <2>1, CallResultsRead DEF Readable
<1> QED BY <1>4, <1>5, <1>6, <1>7, <1>8

-----------------------------------------------------------------------------
\* A request is out because it was, or because the history was pruned for it.
LEMMA AsksPruned ==
    ASSUME KeepInv, Next, pc' = "asking"
    PROVE  \/ pc = "asking" /\ history' = history
           \/ pc # "idle" /\ \E e : history' = Prune(EvictDownTo(history, bundle, e), HistoryBytes)
<1>1. ASSUME NEW h, NEW counters, Continue(h, counters) PROVE FALSE
    BY <1>1 DEF Continue
<1>2. ASSUME NEW h, NEW text, Finish(h, text) PROVE FALSE
    BY <1>2 DEF Finish, Leave
<1>3. ASSUME NEW h, NEW how, Bail(h, how) PROVE FALSE
    BY <1>3 DEF Bail, Leave
<1>4. CASE Ask
    BY <1>4 DEF Ask
<1>5. CASE Stop \/ Tick \/ Write
    BY <1>5 DEF Stop, Tick, Write, talk
<1>6. CASE StopAtTop \/ TimeOver \/ WaitOver \/ CallsEnd \/ ReserveReached
    BY <1>1, <1>2, <1>3, <1>6 DEF StopAtTop, TimeOver, WaitOver, CallsEnd, ReserveReached
<1>7. CASE Request
    <2>1. PICK e \in 0..MaxExcess :
            LET h == Prune(EvictDownTo(history, bundle, e), HistoryBytes)
            IN  history' = h \/ Finish(h, written) \/ Bail(h, "failed")
        BY <1>7 DEF Request
    <2>2. history' = Prune(EvictDownTo(history, bundle, e), HistoryBytes)
        BY <1>2, <1>3, <2>1
    <2> QED BY <1>7, <2>2 DEF Request
<1>8. ASSUME NEW r \in Ends, NEW h, StandOrFail(h, r) PROVE FALSE
    BY <1>2, <1>3, <1>8 DEF StandOrFail
<1>9. ASSUME NEW counters, NEW spent, AgainOrEnd(counters, spent) PROVE FALSE
    BY <1>1, <1>2, <1>3, <1>9 DEF AgainOrEnd
<1>10. ASSUME NEW r \in Ends, Fails(r) PROVE FALSE
    <2>1. CASE KeepStopped(r) \/ SearchFirst(r) \/ AskAgain(r)
        BY <1>1, <1>3, <2>1 DEF KeepStopped, SearchFirst, AskAgain
    <2>2. CASE Overflow(r)
        BY <1>1, <1>8, <2>2 DEF Overflow
    <2>3. CASE Unusable(r) \/ RequestFails(r) \/ RunTimeout(r)
        BY <1>1, <1>8, <2>3 DEF Unusable, RequestFails, RunTimeout
    <2>4. CASE Outage(r)
        BY <2>4 DEF Outage
    <2> QED BY <1>10, <2>1, <2>2, <2>3, <2>4 DEF Fails
<1>11. ASSUME NEW r \in Ends, Completes(r) PROVE FALSE
    <2>1. CASE ServedCut(r) \/ RefuseClaim(r) \/ Whole(r) \/ CutCalls(r)
        BY <1>1, <1>2, <1>3, <2>1 DEF ServedCut, RefuseClaim, Whole, CutCalls
    <2>2. CASE Blank(r) \/ WithheldCalls(r) \/ OversizedCalls(r)
        BY <1>9, <2>2 DEF Blank, WithheldCalls, OversizedCalls
    <2>3. CASE Cut(r) \/ Calls(r)
        BY <2>3 DEF Cut, Calls
    <2> QED BY <1>11, <2>1, <2>2, <2>3 DEF Completes
<1> QED BY <1>4, <1>5, <1>6, <1>7, <1>10, <1>11 DEF Next

LEMMA AskingFits ==
    ASSUME KeepInv, ReadInv, Next, pc' = "asking"
    PROVE  WithinLimit(history', HistoryBytes)
<1>1. CASE pc = "asking" /\ history' = history
    BY <1>1 DEF ReadInv, HistoryIsBounded
<1>2. ASSUME NEW e, pc # "idle", history' = Prune(EvictDownTo(history, bundle, e), HistoryBytes)
      PROVE  WithinLimit(history', HistoryBytes)
    <2> DEFINE k == EvictDownTo(history, bundle, e)
    <2>1. question \in Nat /\ WellFormed(history, question) /\ Standing(history, question, bundle)
        BY <1>2, KeepFacts
    <2>2. k \in HistoryType
        BY <2>1, EvictKeeps DEF WellFormed
    <2>3. IsFiniteSet(k.bundles)
        BY <2>1, EvictReads DEF ReadInv, RefersBack
    <2>4. HistoryBytes \in Nat
        BY AnswerLoopAssumption
    <2> HIDE DEF k
    <2>5. WithinLimit(Prune(k, HistoryBytes), HistoryBytes)
        BY <2>2, <2>3, <2>4, PruneFits
    <2> QED BY <1>2, <2>5 DEF k
<1> QED BY <1>1, <1>2, AsksPruned

LEMMA NextReads == KeepInv /\ ReadInv /\ [Next]_vars => ReadInv'
<1> SUFFICES ASSUME KeepInv, ReadInv, [Next]_vars PROVE ReadInv'
    OBVIOUS
<1>1. CASE UNCHANGED vars
    BY <1>1 DEF vars, ReadInv, HistoryIsBounded
<1>2. CASE Next
    <2>1. /\ RefersBack(history') /\ ReadsOn(history')
          /\ pc' # "idle" => FindsThere(history')
        BY <1>2, HowItGoes, AskReads, StandsReads, GoesOnReads, EndsRead DEF Readable
    <2>2. outcome' = "answered" => WithinLimit(history', HistoryBytes)
        <3>1. CASE Ask
            BY <3>1 DEF Ask
        <3>2. CASE Proceeds \/ CallsBegin \/ CallsJoin \/ AddsPiece
            <4>1. pc # "idle" /\ outcome' = outcome
                BY <3>2 DEF Proceeds, CallsBegin, CallsJoin, AddsPiece, GoesOn
            <4> QED BY <4>1, KeepFacts
        <3>3. CASE Stands
            BY <3>3, StandsReads
        <3>4. CASE GivesUp \/ Withdraws \/ Stops \/ StopsWriting \/ StopsCalls
            BY <3>4, EndsRead
        <3> QED BY <1>2, <3>1, <3>2, <3>3, <3>4, HowItGoes
    <2>3. pc' = "asking" => WithinLimit(history', HistoryBytes)
        BY <1>2, AskingFits
    <2> QED BY <2>1, <2>2, <2>3 DEF ReadInv, HistoryIsBounded
<1> QED BY <1>1, <1>2

LEMMA InitReads == Init => ReadInv
<1> SUFFICES ASSUME Init PROVE ReadInv
    OBVIOUS
<1>1. PICK k \in Nat : history = Restored(k)
    BY AnswerLoopAssumption DEF Init
<1> DEFINE kept(i) == [id |-> i, kind |-> IF i % 2 = 1 THEN "user" ELSE "reply",
                       question |-> (i + 1) \div 2, text |-> 0, size |-> 1,
                       continues |-> {}, found |-> {}, active |-> TRUE]
           f == [i \in 1..(2 * k) |-> kept(i)]
<1>2. history.bundles = {kept(i) : i \in 1..(2 * k)}
    BY <1>1 DEF Restored
<1>3. \A b \in history.bundles : b.continues = {} /\ b.found = {}
    BY <1>2
<1>4. IsFiniteSet(history.bundles)
    <2>1. f \in [1..(2 * k) -> history.bundles] /\ history.bundles = {f[i] : i \in 1..(2 * k)}
        BY <1>2
    <2>2. IsFiniteSet(1..(2 * k))
        <3>1. 1 \in Int /\ 2 * k \in Int
            OBVIOUS
        <3> QED BY <3>1, FS_Interval
    <2> HIDE DEF f
    <2> QED BY <2>1, <2>2, RangeIsFinite
<1>5. RefersBack(history) /\ ReadsOn(history) /\ FindsThere(history)
    BY <1>3, <1>4 DEF RefersBack, ReadsOn, FindsThere, Active
<1>6. HistoryIsBounded
    BY DEF Init, HistoryIsBounded
<1> QED BY <1>5, <1>6 DEF ReadInv

LEMMA ReadInvariance == Spec => []ReadInv
<1>1. Init => ReadInv
    BY InitReads
<1>2. KeepInv /\ ReadInv /\ [Next]_vars => ReadInv'
    BY NextReads
<1> QED BY <1>1, <1>2, KeepInvariance, PTL DEF Spec

\* A request's newest results offer nothing the history dropped, and the history
\* is within its limit whenever one is made or an answer returned.
THEOREM PruningStaysSafe == Spec => []PruningIsSafe
<1>1. ReadInv => PruningIsSafe
    BY ReadableWhen DEF ReadInv, PruningIsSafe, WhatIsOfferedIsReadable
<1> QED BY <1>1, ReadInvariance, PTL
=============================================================================
