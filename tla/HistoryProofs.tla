---------------------------- MODULE HistoryProofs ----------------------------
(***************************************************************************)
(* What the operators of History keep: the lemmas the proofs about the     *)
(* answer loop rest on.  Nothing is assumed about sizes and limits:        *)
(* however much is evicted or pruned, the context stays whole, what it     *)
(* goes on in can be read, and pruning reaches its limit.                  *)
(***************************************************************************)
EXTENDS History, FiniteSetTheorems, WellFoundedInduction, TLAPS

\* A history well formed for a conversation that asked q questions: ids tell its
\* bundles apart and are given in order, each question comes before all that
\* belongs to it, and the context is whole.
Ordered(bundles) ==
    \A b, c \in bundles :
        /\ b.id = c.id => b = c
        /\ b.id < c.id => b.question <= c.question
        /\ b.kind = "user" /\ c.question = b.question => b.id <= c.id

WellFormed(h, q) ==
    /\ h \in HistoryType
    /\ h.prunedThrough <= h.nextId
    /\ \A b \in h.bundles : b.id <= h.nextId /\ b.question <= q
    /\ Ordered(h.bundles)
    /\ QuestionInContext(h)

\* The question q is in the context, as bundle id.
Standing(h, q, id) ==
    \E u \in h.bundles : u.active /\ u.kind = "user" /\ u.question = q /\ u.id = id

-----------------------------------------------------------------------------
\* A set of naturals with a bound has a greatest member.
LEMMA MaxOfBounded ==
    ASSUME NEW S, S \subseteq Nat, S # {}, NEW n \in Nat, \A x \in S : x <= n
    PROVE  Max(S) \in S /\ \A x \in S : x <= Max(S)
<1> DEFINE T == {k \in Nat : \A x \in S : x <= k}
           R == OpToRel(<, Nat)
<1>1. T \subseteq Nat /\ n \in T
    OBVIOUS
<1>2. IsWellFoundedOn(R, Nat)
    BY NatLessThanWellFounded
<1>3. PICK m \in T : \A y \in T : ~(<<y, m>> \in R)
    <2> HIDE DEF T, R
    <2> QED BY <1>1, <1>2, WFMin
<1>4. \A y \in T : ~(y < m)
    BY <1>1, <1>3 DEF OpToRel
<1>5. m \in S
    <2>1. SUFFICES ASSUME m \notin S PROVE FALSE
        OBVIOUS
    <2>2. m > 0
        <3>1. PICK x \in S : TRUE
            OBVIOUS
        <3>2. x \in Nat /\ x <= m /\ x # m
            BY <2>1
        <3> QED BY <3>2
    <2>3. m - 1 \in T
        BY <2>1, <2>2
    <2> QED BY <2>3, <1>4
<1>6. \E x \in S : \A y \in S : x >= y
    BY <1>5
<1>7. Max(S) \in S /\ \A y \in S : Max(S) >= y
    BY <1>6 DEF Max
<1> QED BY <1>7

-----------------------------------------------------------------------------
\* What `push` makes.
Pushed(h, m) ==
    [id |-> h.nextId + 1, kind |-> m.kind, question |-> m.question, text |-> m.text,
     size |-> m.size, continues |-> m.continues, found |-> m.found,
     active |-> m.kind # "archive"]

Messages == [kind : Kinds, question : Nat, text : Nat, size : Nat,
             continues : SUBSET (Nat \ {0}), found : SUBSET (Nat \ {0})]

LEMMA PushFields ==
    ASSUME NEW h \in HistoryType, NEW m \in Messages
    PROVE  /\ Push(h, m) \in HistoryType
           /\ Push(h, m).bundles = h.bundles \cup {Pushed(h, m)}
           /\ Push(h, m).nextId = h.nextId + 1
           /\ Push(h, m).prunedThrough = h.prunedThrough
           /\ Pushed(h, m) \in Bundle
<1>1. Pushed(h, m) \in Bundle
    BY DEF Pushed, Bundle, Messages, HistoryType
<1>2. Push(h, m) = [bundles |-> h.bundles \cup {Pushed(h, m)}, nextId |-> h.nextId + 1,
                    prunedThrough |-> h.prunedThrough]
    <2>1. Push(h, m) = [h EXCEPT !.nextId = @ + 1, !.bundles = @ \cup {Pushed(h, m)}]
        BY Zenon DEF Push, Pushed
    <2> QED BY <2>1 DEF HistoryType
<1> QED BY <1>1, <1>2 DEF HistoryType

\* A new question keeps the history well formed and stands in its context.
LEMMA AskKeeps ==
    ASSUME NEW q \in Nat, NEW h, WellFormed(h, q)
    PROVE  LET g == Push(h, Message("user", q + 1, 0))
           IN  WellFormed(g, q + 1) /\ Standing(g, q + 1, h.nextId + 1)
<1> DEFINE m == Message("user", q + 1, 0)
           n == Pushed(h, m)
           g == Push(h, m)
<1>1. h \in HistoryType /\ h.nextId \in Nat /\ \A b \in h.bundles : b \in Bundle
    BY DEF WellFormed, HistoryType
<1>2. m \in Messages /\ m.kind = "user" /\ m.question = q + 1
    BY DEF Message, Messages, Kinds
<1>3. /\ g \in HistoryType /\ g.bundles = h.bundles \cup {n} /\ g.nextId = h.nextId + 1
      /\ g.prunedThrough = h.prunedThrough /\ n \in Bundle
    BY <1>1, <1>2, PushFields
<1>4. n.id = h.nextId + 1 /\ n.kind = "user" /\ n.question = q + 1 /\ n.active
    BY <1>2 DEF Pushed
<1>5. \A b \in h.bundles : b.id \in Nat /\ b.question \in Nat /\ b.id < n.id /\ b.question < n.question
    BY <1>1, <1>4 DEF WellFormed, Bundle
<1> HIDE DEF m, n, g
<1>6. Ordered(g.bundles)
    BY <1>1, <1>3, <1>4, <1>5 DEF Ordered, WellFormed
<1>7. QuestionInContext(g)
    BY <1>3, <1>4 DEF QuestionInContext, Active, WellFormed
<1>8. /\ g.prunedThrough <= g.nextId
      /\ \A b \in g.bundles : b.id <= g.nextId /\ b.question <= q + 1
    BY <1>1, <1>3, <1>4, <1>5 DEF WellFormed, HistoryType
<1> QED BY <1>3, <1>4, <1>6, <1>7, <1>8 DEF WellFormed, Standing, g, m

\* So does what joins the conversation while a question stands.
LEMMA JoinKeeps ==
    ASSUME NEW q \in Nat, NEW h, NEW id, WellFormed(h, q), Standing(h, q, id),
           NEW m \in Messages, m.question = q, m.kind # "user"
    PROVE  WellFormed(Push(h, m), q) /\ Standing(Push(h, m), q, id)
<1> DEFINE n == Pushed(h, m)
           g == Push(h, m)
<1>1. h \in HistoryType /\ h.nextId \in Nat /\ \A b \in h.bundles : b \in Bundle
    BY DEF WellFormed, HistoryType
<1>2. /\ g \in HistoryType /\ g.bundles = h.bundles \cup {n} /\ g.nextId = h.nextId + 1
      /\ g.prunedThrough = h.prunedThrough /\ n \in Bundle
    BY <1>1, PushFields
<1>3. n.id = h.nextId + 1 /\ n.kind # "user" /\ n.question = q
    BY DEF Pushed
<1>4. \A b \in h.bundles : b.id \in Nat /\ b.question \in Nat /\ b.id < n.id /\ b.question <= q
    BY <1>1, <1>3 DEF WellFormed, Bundle
<1>5. PICK u \in h.bundles : u.active /\ u.kind = "user" /\ u.question = q /\ u.id = id
    BY DEF Standing
<1> HIDE DEF n, g
<1>6. Ordered(g.bundles)
    BY <1>1, <1>2, <1>3, <1>4 DEF Ordered, WellFormed
<1>7. QuestionInContext(g)
    BY <1>2, <1>3, <1>4, <1>5 DEF QuestionInContext, Active, WellFormed
<1>8. /\ g.prunedThrough <= g.nextId
      /\ \A b \in g.bundles : b.id <= g.nextId /\ b.question <= q
    BY <1>1, <1>2, <1>3, <1>4 DEF WellFormed, HistoryType
<1>9. Standing(g, q, id)
    BY <1>2, <1>5 DEF Standing
<1> QED BY <1>2, <1>6, <1>7, <1>8, <1>9 DEF WellFormed, g

-----------------------------------------------------------------------------
\* The pieces of an answer leave without a trace: no question goes with them.
LEMMA PopKeeps ==
    ASSUME NEW q \in Nat, NEW h, NEW id, WellFormed(h, q), Standing(h, q, id)
    PROVE  WellFormed(PopPiece(h), q) /\ Standing(PopPiece(h), q, id)
<1> DEFINE g == PopPiece(h)
<1>1. /\ g \in HistoryType /\ g.nextId = h.nextId /\ g.prunedThrough = h.prunedThrough
      /\ g.bundles \subseteq h.bundles
      /\ \A b \in h.bundles : b.kind = "user" => b \in g.bundles
    BY DEF PopPiece, WellFormed, HistoryType
<1> HIDE DEF g
<1>2. Ordered(g.bundles)
    BY <1>1 DEF Ordered, WellFormed
<1>3. QuestionInContext(g)
    BY <1>1 DEF QuestionInContext, Active, WellFormed
<1> QED BY <1>1, <1>2, <1>3 DEF WellFormed, Standing, g

\* Pruning drops only what left the context.
LEMMA PruneKeeps ==
    ASSUME NEW q \in Nat, NEW h, NEW id, NEW limit, WellFormed(h, q), Standing(h, q, id)
    PROVE  WellFormed(Prune(h, limit), q) /\ Standing(Prune(h, limit), q, id)
<1> DEFINE g == Prune(h, limit)
           gone == {h.prunedThrough} \cup {b.id : b \in Dropped(h, limit)}
<1>1. /\ h \in HistoryType /\ h.nextId \in Nat /\ h.prunedThrough \in Nat
      /\ \A b \in h.bundles : b \in Bundle /\ b.id \in Nat /\ b.id <= h.nextId
    BY DEF WellFormed, HistoryType, Bundle
<1>2. Dropped(h, limit) \subseteq Inactive(h)
    BY DEF Dropped, Droppable
<1>3. \A b \in Dropped(h, limit) : b \in h.bundles /\ ~b.active
    BY <1>2 DEF Inactive
<1>4. gone \subseteq Nat /\ gone # {} /\ \A x \in gone : x <= h.nextId
    BY <1>1, <1>3 DEF WellFormed
<1>5. Max(gone) \in Nat /\ Max(gone) <= h.nextId
    <2> HIDE DEF gone
    <2> QED BY <1>1, <1>4, MaxOfBounded
<1>6. /\ g.bundles = h.bundles \ Dropped(h, limit) /\ g.nextId = h.nextId
      /\ g.prunedThrough = Max(gone) /\ g \in HistoryType
    BY <1>1, <1>5 DEF Prune, HistoryType
<1> HIDE DEF g, gone
<1>7. \A b \in h.bundles : b.active => b \in g.bundles
    BY <1>3, <1>6
<1>8. Ordered(g.bundles)
    BY <1>6 DEF Ordered, WellFormed
<1>9. QuestionInContext(g)
    BY <1>6, <1>7 DEF QuestionInContext, Active, WellFormed
<1>10. Standing(g, q, id)
    BY <1>7 DEF Standing
<1> QED BY <1>1, <1>5, <1>6, <1>8, <1>9, <1>10 DEF WellFormed, g

\* Eviction takes nothing from the context whose question it leaves there without
\* it, nor a question without all that follows it: what it evicts opens the
\* context, and so does what its second loop takes after it.
LEMMA EvictKeeps ==
    ASSUME NEW q \in Nat, NEW h, NEW id, NEW excess, WellFormed(h, q), Standing(h, q, id)
    PROVE  WellFormed(EvictDownTo(h, id, excess), q) /\ Standing(EvictDownTo(h, id, excess), q, id)
<1> DEFINE g == EvictDownTo(h, id, excess)
           gone == Evicted(h, id, excess)
           leaving == LeavesContext(h, id, excess)
           after(b) == [b EXCEPT !.active = @ /\ b \notin leaving]
<1>1. /\ h \in HistoryType /\ \A b \in h.bundles : b \in Bundle
    BY DEF WellFormed, HistoryType
<1>2. /\ g.bundles = {after(b) : b \in h.bundles} /\ g.nextId = h.nextId
      /\ g.prunedThrough = h.prunedThrough
    BY <1>1 DEF EvictDownTo, HistoryType
<1>3. \A b \in h.bundles :
        /\ after(b) \in Bundle /\ after(b).id = b.id /\ after(b).kind = b.kind
        /\ after(b).question = b.question
        /\ after(b).active => b.active /\ b \notin leaving
        /\ b.active /\ b \notin leaving => after(b).active
    BY <1>1 DEF Bundle
<1>4. g \in HistoryType
    <2>1. g.bundles \subseteq Bundle
        BY <1>2, <1>3
    <2> QED BY <1>1, <2>1 DEF EvictDownTo, HistoryType
<1>5. gone \subseteq Evictable(h, id)
    BY DEF Evicted
<1>6. \A b \in gone, c \in Evictable(h, id) : c.id <= b.id => c \in gone
    <2>1. Evictable(h, id) \subseteq Bundle
        BY <1>1 DEF Evictable, Active
    <2>2. \A b \in Evictable(h, id) : b.id \in Nat
        BY <2>1 DEF Bundle
    <2>3. SUFFICES ASSUME NEW b \in gone, NEW c \in Evictable(h, id), c.id <= b.id
                   PROVE  c \in gone
        OBVIOUS
    <2>4. \A d \in Evictable(h, id) : d.id <= c.id => d.id <= b.id
        BY <1>5, <2>2, <2>3
    <2> QED BY <2>3, <2>4 DEF Evicted
<1>7. leaving \subseteq Active(h) /\ \A b \in leaving : b.id # id /\ ~IsLast(b, Active(h))
    <2>1. \A b \in gone : b \in Active(h) /\ b.id # id /\ ~IsLast(b, Active(h))
        BY <1>5 DEF Evictable
    <2>2. \A b \in Leading(h, id, gone) : b \in Active(h) /\ b.id # id /\ ~IsLast(b, Active(h))
        <3>1. \A b \in Leading(h, id, gone) : b \in Active(h) /\ b \in Bundle
            BY <1>1 DEF Leading, Active
        <3>2. \A b \in Bundle : b.id <= b.id
            BY DEF Bundle
        <3> QED BY <3>1, <3>2 DEF Leading
    <2> QED BY <2>1, <2>2 DEF LeavesContext
<1>8. PICK p \in h.bundles : p.active /\ p.kind = "user" /\ p.question = q /\ p.id = id
    BY DEF Standing
<1> HIDE DEF g, after, leaving, gone
<1>9. Standing(g, q, id)
    <2>1. p \notin leaving
        BY <1>7, <1>8
    <2>2. after(p) \in g.bundles
        BY <1>2
    <2> QED BY <1>3, <1>8, <2>1, <2>2 DEF Standing
<1>10. Ordered(g.bundles)
    <2>1. SUFFICES ASSUME NEW b \in h.bundles, NEW c \in h.bundles
                   PROVE  /\ after(b).id = after(c).id => after(b) = after(c)
                          /\ after(b).id < after(c).id => after(b).question <= after(c).question
                          /\ after(b).kind = "user" /\ after(c).question = after(b).question
                               => after(b).id <= after(c).id
        BY <1>2 DEF Ordered
    <2> QED BY <1>3 DEF Ordered, WellFormed
<1>11. QuestionInContext(g)
    <2>1. SUFFICES ASSUME NEW b \in h.bundles, b.active, b \notin leaving, b.kind # "user"
                   PROVE  \E u \in h.bundles : /\ u.active /\ u \notin leaving /\ u.kind = "user"
                                               /\ u.question = b.question /\ u.id < b.id
        <3>1. SUFFICES ASSUME NEW d \in g.bundles, d.active, d.kind # "user"
                       PROVE  \E v \in g.bundles : /\ v.active /\ v.kind = "user"
                                                   /\ v.question = d.question /\ v.id < d.id
            BY DEF QuestionInContext, Active
        <3>2. PICK e \in h.bundles : d = after(e)
            BY <1>2
        <3>3. e.active /\ e \notin leaving /\ e.kind # "user"
            BY <1>3, <3>1, <3>2
        <3>4. PICK u \in h.bundles : /\ u.active /\ u \notin leaving /\ u.kind = "user"
                                     /\ u.question = e.question /\ u.id < e.id
            BY <2>1, <3>3
        <3>5. after(u) \in g.bundles
            BY <1>2
        <3> QED BY <1>3, <3>2, <3>4, <3>5
    <2>2. PICK u \in h.bundles : u.active /\ u.kind = "user" /\ u.question = b.question /\ u.id < b.id
        BY <2>1 DEF QuestionInContext, Active, WellFormed
    <2>3. CASE u \notin leaving
        BY <2>2, <2>3
    <2>4. CASE u \in leaving
        \* The question left in the first loop, so b left in the second.
        <3>1. /\ \A x \in h.bundles : x.id \in Nat /\ x.question \in Nat
              /\ u \in Active(h) /\ b \in Active(h) /\ p \in Active(h)
            BY <1>1, <1>8, <2>1, <2>2 DEF Bundle, Active
        <3>2. u \in gone
            <4>1. u \notin Leading(h, id, gone)
                BY <2>2, <3>1 DEF Leading
            <4> QED BY <2>4, <4>1 DEF LeavesContext, leaving, gone
        <3>3. b \notin gone /\ b \notin Leading(h, id, gone)
            BY <2>1, <3>2 DEF LeavesContext, leaving, gone
        <3>4. b.question # q
            <4>1. SUFFICES ASSUME b.question = q PROVE FALSE
                OBVIOUS
            <4>2. u.id = p.id
                BY <1>8, <2>2, <3>1, <4>1 DEF Ordered, WellFormed
            <4> QED BY <1>7, <1>8, <2>4, <4>2
        <3>5. b.id < p.id
            <4>1. b.question < p.question
                BY <1>8, <3>1, <3>4 DEF WellFormed
            <4> QED BY <1>8, <3>1, <4>1 DEF Ordered, WellFormed
        <3>6. PICK x \in Active(h) \ gone :
                  /\ x.id <= b.id
                  /\ x.kind = "user" \/ IsLast(x, Active(h)) \/ x.id = id
            BY <3>1, <3>3 DEF Leading
        <3>7. x.id # id /\ ~IsLast(x, Active(h)) /\ x.id \in Nat /\ x \in h.bundles
            BY <1>8, <3>1, <3>5, <3>6 DEF IsLast, Active
        <3>8. x \in Evictable(h, id) /\ x.kind = "user"
            BY <3>6, <3>7 DEF Evictable
        <3>9. u.id < x.id
            BY <1>6, <3>1, <3>2, <3>6, <3>7, <3>8
        <3>10. x.question = b.question
            <4>1. u.question <= x.question
                BY <3>7, <3>9 DEF Ordered, WellFormed
            <4>2. x.id < b.id \/ x = b
                BY <3>1, <3>6, <3>7 DEF Ordered, WellFormed
            <4>3. x.question <= b.question
                <5>1. CASE x.id < b.id
                    BY <3>7, <5>1 DEF Ordered, WellFormed
                <5>2. CASE x = b
                    BY <3>1, <5>2
                <5> QED BY <4>2, <5>1, <5>2
            <4> QED BY <2>2, <3>1, <3>7, <4>1, <4>3
        <3>11. x.id <= u.id
            BY <2>2, <3>7, <3>8, <3>10 DEF Ordered, WellFormed
        <3> QED BY <3>1, <3>7, <3>9, <3>11
    <2> QED BY <2>3, <2>4
<1> QED BY <1>2, <1>3, <1>4, <1>9, <1>10, <1>11 DEF WellFormed, g

-----------------------------------------------------------------------------
(* What stays: the pieces of an answer, the calls that ran, the context. *)

\* No piece of the answer to question q, or one, the last message of all.
NoPiece(h, q) == \A b \in h.bundles : b.kind = "piece" => b.question # q

OnePiece(h, q, text) ==
    \E b \in h.bundles :
        /\ b.kind = "piece" /\ b.question = q /\ b.text = text /\ b.active
        /\ IsLast(b, h.bundles)
        /\ \A c \in h.bundles : c.kind = "piece" /\ c.question = q => c = b

Pieced(h, q, n, text) == IF n > 0 THEN OnePiece(h, q, text) ELSE NoPiece(h, q)

\* The calls h records are recorded in g, unless something was dropped.
KeepsCalls(h, g) ==
    g.prunedThrough = 0 =>
        /\ h.prunedThrough = 0
        /\ \A b \in h.bundles : b.kind = "calls" =>
               \E c \in g.bundles : c.kind = "calls" /\ c.text = b.text

\* What left h's context took all before it along but bundle id, and what left
\* altogether is known to be dropped.
LeavesInOrder(h, g, id) ==
    \A b \in Active(h) :
        /\ b.id \notin Ids(g) => b.id <= g.prunedThrough
        /\ b \notin Active(g) => \A c \in Active(g) : c.id < b.id => c.id = id

\* g is h evicted and pruned: nothing joined, and what left did so in order.
TrimsTo(h, g, q, id) ==
    /\ KeepsCalls(h, g)
    /\ LeavesInOrder(h, g, id)
    /\ g.nextId = h.nextId /\ g.prunedThrough >= h.prunedThrough
    /\ Active(g) \subseteq Active(h)
    /\ \A n, text : Pieced(h, q, n, text) => Pieced(g, q, n, text)

\* A message of the context leaves h as a piece that goes on in a later message of
\* g, or in order.
GoesRightly(b, g, id) ==
    \/ b.kind = "piece" /\ \E c \in Active(g) : c.id > b.id /\ c.text >= b.text
    \/ /\ b.id <= g.prunedThrough
       /\ \A c \in Active(g) : c.id < b.id => c.id = id

LEMMA KeepsCallsOn ==
    ASSUME NEW h, NEW g, NEW k, KeepsCalls(h, g), KeepsCalls(g, k)
    PROVE  KeepsCalls(h, k)
<1> SUFFICES ASSUME k.prunedThrough = 0
             PROVE  /\ h.prunedThrough = 0
                    /\ \A b \in h.bundles : b.kind = "calls" =>
                           \E c \in k.bundles : c.kind = "calls" /\ c.text = b.text
    BY DEF KeepsCalls
<1>1. g.prunedThrough = 0
    BY DEF KeepsCalls
<1> QED BY <1>1 DEF KeepsCalls

\* While a question stands, a piece at the back is a piece of its answer.
LEMMA LastPieceIsOwn ==
    ASSUME NEW q \in Nat, NEW h, NEW id, WellFormed(h, q), Standing(h, q, id),
           NEW b \in h.bundles, b.kind = "piece", IsLast(b, h.bundles)
    PROVE  b.question = q
<1>1. PICK u \in h.bundles : u.kind = "user" /\ u.question = q
    BY DEF Standing
<1>2. u.id \in Nat /\ b.id \in Nat /\ b.question \in Nat /\ u.id <= b.id /\ u # b
    BY <1>1 DEF WellFormed, HistoryType, Bundle, IsLast
<1>3. u.id < b.id
    BY <1>2 DEF WellFormed, Ordered
<1>4. u.question <= b.question /\ b.question <= q
    BY <1>3 DEF WellFormed, Ordered
<1> QED BY <1>1, <1>2, <1>4

\* The pieces so far leave, and nothing else.
LEMMA PopLeaves ==
    ASSUME NEW q \in Nat, NEW h, NEW id, WellFormed(h, q), Standing(h, q, id),
           NEW n, NEW text, Pieced(h, q, n, text)
    PROVE  /\ NoPiece(PopPiece(h), q)
           /\ KeepsCalls(h, PopPiece(h))
           /\ PopPiece(h).prunedThrough = h.prunedThrough /\ PopPiece(h).nextId = h.nextId
           /\ PopPiece(h).bundles \subseteq h.bundles
           /\ \A b \in h.bundles : b \notin PopPiece(h).bundles =>
                  b.kind = "piece" /\ b.text = text /\ b.active
<1> DEFINE g == PopPiece(h)
<1>1. /\ g.prunedThrough = h.prunedThrough /\ g.nextId = h.nextId
      /\ g.bundles = {b \in h.bundles : ~(b.kind = "piece" /\ IsLast(b, h.bundles))}
    BY DEF PopPiece, WellFormed, HistoryType
<1> HIDE DEF g
<1>2. NoPiece(g, q)
    BY <1>1 DEF NoPiece, Pieced, OnePiece
<1>3. KeepsCalls(h, g)
    BY <1>1 DEF KeepsCalls
<1>4. ASSUME NEW b \in h.bundles, b \notin g.bundles
      PROVE  b.kind = "piece" /\ b.text = text /\ b.active
    <2>1. b.kind = "piece" /\ IsLast(b, h.bundles)
        BY <1>1, <1>4
    <2>2. b.question = q
        BY <2>1, LastPieceIsOwn
    <2> QED BY <2>1, <2>2 DEF Pieced, NoPiece, OnePiece
<1> QED BY <1>1, <1>2, <1>3, <1>4 DEF g

\* A message that joins leaves what was there; only a piece makes a piece.
LEMMA PushLeaves ==
    ASSUME NEW h \in HistoryType, NEW m \in Messages, NEW q
    PROVE  /\ KeepsCalls(h, Push(h, m))
           /\ h.bundles \subseteq Push(h, m).bundles
           /\ m.kind # "piece" /\ NoPiece(h, q) => NoPiece(Push(h, m), q)
<1>1. /\ Push(h, m).bundles = h.bundles \cup {Pushed(h, m)}
      /\ Push(h, m).prunedThrough = h.prunedThrough
    BY PushFields
<1>2. Pushed(h, m).kind = m.kind
    BY DEF Pushed
<1>3. KeepsCalls(h, Push(h, m))
    BY <1>1 DEF KeepsCalls
<1> QED BY <1>1, <1>2, <1>3 DEF NoPiece

LEMMA PieceJoins ==
    ASSUME NEW q \in Nat, NEW h, WellFormed(h, q), NoPiece(h, q), NEW m \in Messages,
           m.kind = "piece", m.question = q
    PROVE  OnePiece(Push(h, m), q, m.text)
<1> DEFINE p == Pushed(h, m)
<1>1. h \in HistoryType /\ h.nextId \in Nat /\ \A b \in h.bundles : b.id <= h.nextId /\ b.id \in Nat
    BY DEF WellFormed, HistoryType, Bundle
<1>2. Push(h, m).bundles = h.bundles \cup {p}
    BY <1>1, PushFields
<1>3. p.kind = "piece" /\ p.question = q /\ p.text = m.text /\ p.active /\ p.id = h.nextId + 1
    BY DEF Pushed
<1> HIDE DEF p
<1>4. IsLast(p, Push(h, m).bundles)
    BY <1>1, <1>2, <1>3 DEF IsLast
<1> QED BY <1>2, <1>3, <1>4 DEF OnePiece, NoPiece

-----------------------------------------------------------------------------
\* Pruning leaves the context, and the calls unless it drops something; a piece is
\* in the context.
LEMMA PruneLeaves ==
    ASSUME NEW q \in Nat, NEW h, NEW limit, WellFormed(h, q)
    PROVE  LET g == Prune(h, limit)
           IN  /\ KeepsCalls(h, g)
               /\ g.bundles \subseteq h.bundles /\ Active(h) = Active(g)
               /\ \A b \in h.bundles : b \notin g.bundles => b.id <= g.prunedThrough
               /\ g.prunedThrough >= h.prunedThrough /\ g.nextId = h.nextId
               /\ \A n, text : Pieced(h, q, n, text) => Pieced(g, q, n, text)
<1> DEFINE g == Prune(h, limit)
           gone == {h.prunedThrough} \cup {b.id : b \in Dropped(h, limit)}
<1>1. /\ h \in HistoryType /\ h.nextId \in Nat /\ h.prunedThrough \in Nat
      /\ \A b \in h.bundles : b.id \in Nat \ {0} /\ b.id <= h.nextId
    BY DEF WellFormed, HistoryType, Bundle
<1>2. \A b \in Dropped(h, limit) : b \in h.bundles /\ ~b.active
    BY DEF Dropped, Droppable, Inactive
<1>3. gone \subseteq Nat /\ gone # {} /\ \A x \in gone : x <= h.nextId
    BY <1>1, <1>2 DEF WellFormed
<1>4. Max(gone) \in Nat /\ \A x \in gone : x <= Max(gone)
    <2> HIDE DEF gone
    <2> QED BY <1>1, <1>3, MaxOfBounded
<1>5. /\ g.bundles = h.bundles \ Dropped(h, limit) /\ g.prunedThrough = Max(gone)
      /\ g.nextId = h.nextId
    BY <1>1 DEF Prune, HistoryType
<1>6. \A b \in Dropped(h, limit) : b.id <= g.prunedThrough
    BY <1>4, <1>5
<1>7. g.prunedThrough >= h.prunedThrough /\ g.prunedThrough \in Nat
    BY <1>4, <1>5
<1> HIDE DEF g, gone
<1>8. Active(h) = Active(g) /\ g.bundles \subseteq h.bundles
    BY <1>2, <1>5 DEF Active
<1>9. KeepsCalls(h, g)
    <2>1. SUFFICES ASSUME g.prunedThrough = 0 PROVE Dropped(h, limit) = {} /\ h.prunedThrough = 0
        BY <1>5 DEF KeepsCalls
    <2>2. h.prunedThrough = 0
        BY <1>1, <1>7, <2>1
    <2>3. \A b \in Dropped(h, limit) : FALSE
        BY <1>1, <1>2, <1>6, <2>1
    <2> QED BY <2>2, <2>3
<1>10. ASSUME NEW n, NEW text, Pieced(h, q, n, text) PROVE Pieced(g, q, n, text)
    <2>1. CASE n > 0
        <3>1. PICK b \in h.bundles :
                  /\ b.kind = "piece" /\ b.question = q /\ b.text = text /\ b.active
                  /\ IsLast(b, h.bundles)
                  /\ \A c \in h.bundles : c.kind = "piece" /\ c.question = q => c = b
            BY <1>10, <2>1 DEF Pieced, OnePiece
        <3>2. b \in g.bundles /\ IsLast(b, g.bundles)
            BY <1>2, <1>5, <3>1 DEF IsLast
        <3> QED BY <1>8, <2>1, <3>1, <3>2 DEF Pieced, OnePiece
    <2>2. CASE ~(n > 0)
        BY <1>8, <1>10, <2>2 DEF Pieced, NoPiece
    <2> QED BY <2>1, <2>2
<1>11. \A b \in h.bundles : b \notin g.bundles => b.id <= g.prunedThrough
    BY <1>5, <1>6
<1> QED BY <1>5, <1>7, <1>8, <1>9, <1>10, <1>11 DEF g

LEMMA LeavingIsNotLast ==
    ASSUME NEW q \in Nat, NEW h, NEW id, NEW excess, WellFormed(h, q),
           NEW b \in LeavesContext(h, id, excess)
    PROVE  b \in Active(h) /\ b.id # id /\ ~IsLast(b, Active(h))
<1>1. \A x \in Active(h) : x.id <= x.id
    BY DEF Active, WellFormed, HistoryType, Bundle
<1>2. b \in Evicted(h, id, excess) \cup Leading(h, id, Evicted(h, id, excess))
    BY DEF LeavesContext
<1>3. CASE b \in Evicted(h, id, excess)
    BY <1>3 DEF Evicted, Evictable
<1>4. CASE b \in Leading(h, id, Evicted(h, id, excess))
    BY <1>1, <1>4 DEF Leading
<1> QED BY <1>2, <1>3, <1>4

\* What leaves the context by eviction has nothing before it stay there but the
\* protected question.
LEMMA EvictionIsInOrder ==
    ASSUME NEW q \in Nat, NEW h, NEW id, NEW excess, WellFormed(h, q),
           NEW b \in LeavesContext(h, id, excess), NEW c \in Active(h), c.id < b.id,
           c \notin LeavesContext(h, id, excess)
    PROVE  c.id = id
<1> DEFINE gone == Evicted(h, id, excess)
           leading == Leading(h, id, gone)
<1>1. \A x \in Active(h) : x \in Bundle /\ x.id \in Nat
    BY DEF Active, WellFormed, HistoryType, Bundle
<1>2. gone # {} /\ b \in gone \cup leading /\ c \notin gone \cup leading
    BY DEF LeavesContext
<1>3. gone \subseteq Evictable(h, id) /\ Evictable(h, id) \subseteq Active(h)
      /\ leading \subseteq Active(h) \ gone
    BY DEF Evicted, Evictable, Leading
<1>4. b \in Active(h)
    BY <1>2, <1>3
<1>5. ~IsLast(c, Active(h))
    BY <1>1, <1>4 DEF IsLast
<1>6. SUFFICES ASSUME c.id # id PROVE FALSE
    OBVIOUS
<1>7. c \in Evictable(h, id)
    BY <1>5, <1>6 DEF Evictable
<1>8. CASE b \in gone
    <2>1. \A d \in Evictable(h, id) : d.id <= c.id => d.id <= b.id
        BY <1>1, <1>3, <1>4
    <2>2. c \in gone
        BY <1>7, <1>8, <2>1 DEF Evicted
    <2> QED BY <1>2, <2>2
<1>9. CASE b \in leading
    <2>1. \A d \in Active(h) : d.id <= c.id => d.id <= b.id
        BY <1>1, <1>4
    <2>2. c \in leading
        BY <1>2, <1>9, <2>1 DEF Leading
    <2> QED BY <1>2, <2>2
<1> QED BY <1>2, <1>8, <1>9

LEMMA EvictLeaves ==
    ASSUME NEW q \in Nat, NEW h, NEW id, NEW excess, WellFormed(h, q)
    PROVE  LET g == EvictDownTo(h, id, excess)
           IN  /\ KeepsCalls(h, g) /\ Ids(g) = Ids(h) /\ g.prunedThrough = h.prunedThrough
               /\ g.nextId = h.nextId
               /\ Active(g) = Active(h) \ LeavesContext(h, id, excess)
               /\ \A n, text : Pieced(h, q, n, text) => Pieced(g, q, n, text)
<1> DEFINE g == EvictDownTo(h, id, excess)
           leaving == LeavesContext(h, id, excess)
           after(b) == [b EXCEPT !.active = @ /\ b \notin leaving]
<1>1. /\ h \in HistoryType /\ \A b \in h.bundles : b \in Bundle
    BY DEF WellFormed, HistoryType
<1>2. /\ g.bundles = {after(b) : b \in h.bundles} /\ g.prunedThrough = h.prunedThrough
      /\ g.nextId = h.nextId
    BY <1>1 DEF EvictDownTo, HistoryType
<1>3. \A b \in h.bundles :
        /\ after(b).id = b.id /\ after(b).kind = b.kind /\ after(b).text = b.text
        /\ after(b).question = b.question
        /\ after(b).active => b.active /\ b \notin leaving
        /\ b.active /\ b \notin leaving => after(b) = b
    BY <1>1 DEF Bundle
<1> HIDE DEF g, after, leaving
<1>4. Ids(g) = Ids(h)
    BY <1>2, <1>3 DEF Ids
<1>5. KeepsCalls(h, g)
    BY <1>2, <1>3 DEF KeepsCalls
<1>6. Active(g) = Active(h) \ leaving
    <2>1. \A c \in Active(g) : c \in Active(h) \ leaving
        BY <1>2, <1>3 DEF Active
    <2>2. \A d \in Active(h) \ leaving : d \in Active(g)
        BY <1>2, <1>3 DEF Active
    <2> QED BY <2>1, <2>2
<1>8. ASSUME NEW n, NEW text, Pieced(h, q, n, text) PROVE Pieced(g, q, n, text)
    <2>1. CASE n > 0
        <3>1. PICK b \in h.bundles :
                  /\ b.kind = "piece" /\ b.question = q /\ b.text = text /\ b.active
                  /\ IsLast(b, h.bundles)
                  /\ \A c \in h.bundles : c.kind = "piece" /\ c.question = q => c = b
            BY <1>8, <2>1 DEF Pieced, OnePiece
        <3>2. b \notin leaving
            <4>1. \A x \in leaving : ~IsLast(x, Active(h))
                BY LeavingIsNotLast DEF leaving
            <4>2. IsLast(b, Active(h))
                BY <3>1 DEF IsLast, Active
            <4> QED BY <4>1, <4>2
        <3>3. after(b) = b /\ b \in g.bundles
            BY <1>2, <1>3, <3>1, <3>2
        <3>4. IsLast(b, g.bundles)
            BY <1>2, <1>3, <3>1, <3>3 DEF IsLast
        <3>5. \A c \in g.bundles : c.kind = "piece" /\ c.question = q => c = b
            BY <1>2, <1>3, <3>1, <3>3
        <3> QED BY <2>1, <3>1, <3>3, <3>4, <3>5 DEF Pieced, OnePiece
    <2>2. CASE ~(n > 0)
        BY <1>2, <1>3, <1>8, <2>2 DEF Pieced, NoPiece
    <2> QED BY <2>1, <2>2
<1> QED BY <1>2, <1>4, <1>5, <1>6, <1>8 DEF g, leaving

\* What eviction and pruning leave of a history, in one step.
LEMMA TrimLeaves ==
    ASSUME NEW q \in Nat, NEW h, NEW id, NEW excess, NEW limit, WellFormed(h, q), Standing(h, q, id)
    PROVE  TrimsTo(h, Prune(EvictDownTo(h, id, excess), limit), q, id)
<1> DEFINE k == EvictDownTo(h, id, excess)
           g == Prune(k, limit)
           leaving == LeavesContext(h, id, excess)
<1>1. WellFormed(k, q)
    BY EvictKeeps
<1>2. /\ KeepsCalls(h, k) /\ Ids(k) = Ids(h) /\ k.prunedThrough = h.prunedThrough
      /\ k.nextId = h.nextId /\ Active(k) = Active(h) \ leaving
      /\ \A n, text : Pieced(h, q, n, text) => Pieced(k, q, n, text)
    BY EvictLeaves
<1> HIDE DEF k
<1>3. /\ KeepsCalls(k, g) /\ g.bundles \subseteq k.bundles /\ Active(k) = Active(g)
      /\ \A b \in k.bundles : b \notin g.bundles => b.id <= g.prunedThrough
      /\ g.prunedThrough >= k.prunedThrough /\ g.nextId = k.nextId
      /\ \A n, text : Pieced(k, q, n, text) => Pieced(g, q, n, text)
    BY <1>1, PruneLeaves
<1> HIDE DEF g, leaving
<1>4. KeepsCalls(h, g)
    BY <1>2, <1>3, KeepsCallsOn
<1>5. LeavesInOrder(h, g, id)
    <2>1. SUFFICES ASSUME NEW b \in Active(h)
                   PROVE  /\ b.id \notin Ids(g) => b.id <= g.prunedThrough
                          /\ b \notin Active(g) => \A c \in Active(g) : c.id < b.id => c.id = id
        BY DEF LeavesInOrder
    <2>2. ASSUME b.id \notin Ids(g) PROVE b.id <= g.prunedThrough
        <3>1. PICK c \in k.bundles : c.id = b.id
            BY <1>2, <2>1 DEF Ids, Active
        <3> QED BY <1>3, <2>2, <3>1 DEF Ids
    <2>3. ASSUME b \notin Active(g), NEW c \in Active(g), c.id < b.id PROVE c.id = id
        <3>1. b \in leaving /\ c \in Active(h) /\ c \notin leaving
            BY <1>2, <1>3, <2>3
        <3> QED BY <2>3, <3>1, EvictionIsInOrder DEF leaving
    <2> QED BY <2>2, <2>3
<1> QED BY <1>2, <1>3, <1>4, <1>5 DEF TrimsTo, g, k

\* The pieces leave for a message that holds as much.
LEMMA ReplaceLeaves ==
    ASSUME NEW q \in Nat, NEW h, NEW id, WellFormed(h, q), Standing(h, q, id),
           NEW n, NEW text \in Nat, Pieced(h, q, n, text),
           NEW m \in Messages, m.kind # "archive", m.question = q, m.text >= text
    PROVE  LET g == Push(PopPiece(h), m)
           IN  /\ KeepsCalls(h, g)
               /\ \A b \in h.bundles : b \notin g.bundles => b.active /\ GoesRightly(b, g, id)
               /\ g.prunedThrough = h.prunedThrough
               /\ g.bundles = PopPiece(h).bundles \cup {Pushed(PopPiece(h), m)}
<1> DEFINE k == PopPiece(h)
           g == Push(k, m)
           p == Pushed(k, m)
<1>1. /\ NoPiece(k, q) /\ KeepsCalls(h, k)
      /\ k.prunedThrough = h.prunedThrough /\ k.nextId = h.nextId
      /\ k.bundles \subseteq h.bundles
      /\ \A b \in h.bundles : b \notin k.bundles => b.kind = "piece" /\ b.text = text /\ b.active
    BY PopLeaves
<1>2. WellFormed(k, q)
    BY PopKeeps
<1>3. k \in HistoryType /\ h.nextId \in Nat /\ \A b \in h.bundles : b.id \in Nat /\ b.id <= h.nextId
    BY <1>2 DEF WellFormed, HistoryType, Bundle
<1> HIDE DEF k
<1>4. KeepsCalls(k, g) /\ k.bundles \subseteq g.bundles
    BY <1>3, PushLeaves
<1>5. g.bundles = k.bundles \cup {p} /\ g.prunedThrough = k.prunedThrough
    BY <1>3, PushFields
<1>6. p.active /\ p.text = m.text /\ p.id = h.nextId + 1
    BY <1>1 DEF Pushed
<1> HIDE DEF g, p
<1>7. p \in Active(g)
    BY <1>5, <1>6 DEF Active
<1>8. ASSUME NEW b \in h.bundles, b \notin g.bundles PROVE b.active /\ GoesRightly(b, g, id)
    <2>1. b.kind = "piece" /\ b.text = text /\ b.active
        BY <1>1, <1>4, <1>8
    <2>2. p.id > b.id /\ p.text >= b.text
        BY <1>3, <1>6, <2>1
    <2> QED BY <1>7, <2>1, <2>2 DEF GoesRightly
<1>9. KeepsCalls(h, g)
    BY <1>1, <1>4, KeepsCallsOn
<1> QED BY <1>1, <1>5, <1>8, <1>9 DEF g, k, p

\* The answer takes the place of its pieces in what eviction and pruning left, and
\* the history is pruned.
LEMMA FinishLeaves ==
    ASSUME NEW q \in Nat, NEW h, NEW g, NEW id, WellFormed(h, q), WellFormed(g, q), Standing(g, q, id),
           TrimsTo(h, g, q, id), NEW n, NEW text \in Nat, Pieced(h, q, n, text),
           NEW m \in Messages, m.kind = "reply", m.question = q, m.text >= text, NEW limit
    PROVE  LET last == Prune(Push(PopPiece(g), m), limit)
           IN  /\ NoPiece(last, q)
               /\ KeepsCalls(h, last)
               /\ \A b \in Active(h) : b.id \notin Ids(last) => GoesRightly(b, last, id)
<1> DEFINE k == Push(PopPiece(g), m)
           p == Pushed(PopPiece(g), m)
           last == Prune(k, limit)
<1>1. Pieced(g, q, n, text)
    BY DEF TrimsTo
<1>2. /\ NoPiece(PopPiece(g), q) /\ PopPiece(g).bundles \subseteq g.bundles
      /\ PopPiece(g).nextId = g.nextId
    BY <1>1, PopLeaves
<1>3. WellFormed(PopPiece(g), q) /\ Standing(PopPiece(g), q, id)
    BY PopKeeps
<1>4. PopPiece(g) \in HistoryType
    BY <1>3 DEF WellFormed
<1>5. WellFormed(k, q) /\ NoPiece(k, q)
    BY <1>2, <1>3, <1>4, JoinKeeps, PushLeaves
<1>6. /\ KeepsCalls(g, k)
      /\ \A b \in g.bundles : b \notin k.bundles => b.active /\ GoesRightly(b, k, id)
      /\ k.prunedThrough = g.prunedThrough
      /\ k.bundles = PopPiece(g).bundles \cup {p}
    BY <1>1, ReplaceLeaves
<1>7. p.id = h.nextId + 1
    BY <1>2 DEF Pushed, TrimsTo
<1> HIDE DEF k, p
<1>8. /\ KeepsCalls(k, last) /\ last.bundles \subseteq k.bundles /\ Active(k) = Active(last)
      /\ \A b \in k.bundles : b \notin last.bundles => b.id <= last.prunedThrough
      /\ last.prunedThrough >= k.prunedThrough
    BY <1>5, PruneLeaves
<1>9. last.prunedThrough \in Nat /\ k.prunedThrough \in Nat
    <2>1. WellFormed(last, q)
        <3>1. Standing(k, q, id)
            BY <1>3, <1>4, JoinKeeps DEF k
        <3> QED BY <1>5, <3>1, PruneKeeps
    <2> QED BY <1>5, <2>1 DEF WellFormed, HistoryType
<1> HIDE DEF last
<1>10. NoPiece(last, q)
    BY <1>5, <1>8 DEF NoPiece
<1>11. KeepsCalls(h, last)
    BY <1>6, <1>8, KeepsCallsOn DEF TrimsTo
<1>12. ASSUME NEW b \in Active(h), b.id \notin Ids(last) PROVE GoesRightly(b, last, id)
    <2>1. b.id \in Nat /\ b.id <= h.nextId /\ h.nextId \in Nat
        BY DEF Active, WellFormed, HistoryType, Bundle
    <2>2. \A c \in last.bundles : c.id # b.id
        BY <1>12 DEF Ids
    <2>3. CASE b \in Active(g)
        <3>1. b \in g.bundles /\ b.active
            BY <2>3 DEF Active
        <3>2. b \notin k.bundles
            BY <1>8, <2>2, <3>1 DEF Active
        <3>3. GoesRightly(b, k, id)
            BY <1>6, <3>1, <3>2
        <3>4. b.id <= k.prunedThrough => b.id <= last.prunedThrough
            BY <1>8, <1>9, <2>1
        <3> QED BY <1>8, <3>3, <3>4 DEF GoesRightly
    <2>4. CASE b \notin Active(g)
        <3>1. b.id <= last.prunedThrough
            <4>1. CASE b.id \notin Ids(g)
                <5>1. b.id <= g.prunedThrough
                    BY <4>1 DEF TrimsTo, LeavesInOrder
                <5> QED BY <1>6, <1>8, <1>9, <2>1, <5>1
            <4>2. CASE b.id \in Ids(g)
                <5>1. PICK d \in g.bundles : d.id = b.id
                    BY <4>2 DEF Ids
                <5>2. ~d.active
                    <6>1. SUFFICES ASSUME d.active PROVE FALSE
                        OBVIOUS
                    <6>2. d \in Active(g) /\ d \in Active(h)
                        BY <6>1 DEF Active, TrimsTo
                    <6>3. d = b
                        BY <5>1, <6>2 DEF WellFormed, Ordered, Active
                    <6> QED BY <2>4, <6>2, <6>3
                <5>3. d \in k.bundles /\ d \notin last.bundles
                    BY <1>6, <2>2, <5>1, <5>2
                <5> QED BY <1>8, <5>1, <5>3
            <4> QED BY <4>1, <4>2
        <3>2. ASSUME NEW c \in Active(last), c.id < b.id PROVE c.id = id
            <4>1. c \in k.bundles /\ c.active
                BY <1>8, <3>2 DEF Active
            <4>2. c # p
                BY <1>7, <2>1, <3>2
            <4>3. c \in Active(g)
                BY <1>2, <1>6, <4>1, <4>2 DEF Active
            <4> QED BY <2>4, <3>2, <4>3 DEF TrimsTo, LeavesInOrder
        <3> QED BY <3>1, <3>2 DEF GoesRightly
    <2> QED BY <2>3, <2>4
<1> QED BY <1>10, <1>11, <1>12 DEF last, k

-----------------------------------------------------------------------------
(* What can be read on: what results continue and find, and the byte limit. *)

\* What a bundle's results continue or found joined the history before it did.
RefersBack(h) ==
    /\ IsFiniteSet(h.bundles)
    /\ \A b \in h.bundles : \A i \in b.continues \cup b.found : i < b.id

\* What results in the context continue is there.
ReadsOn(h) == \A b \in Active(h) : b.continues \subseteq Ids(h)

\* What a search in the newest bundle of the context found is there.
FindsThere(h) == \A b \in Active(h) : IsLast(b, Active(h)) => b.found \subseteq Ids(h)

LEMMA ReadableWhen ==
    ASSUME NEW h, ReadsOn(h), FindsThere(h)
    PROVE  ContinuationReadable(h)
<1>1. SUFFICES ASSUME NEW i \in Continued(h) PROVE i \in Ids(h)
    BY DEF ContinuationReadable
<1>2. (\E b \in Active(h) : i \in b.continues) \/ \E b \in Active(h) : IsLast(b, Active(h)) /\ i \in b.found
    <2> DEFINE newest == {c \in Active(h) : IsLast(c, Active(h))}
               read == UNION {b.continues : b \in Active(h)}
               listed == UNION {b.found : b \in newest}
    <2>1. i \in read \cup listed
        BY DEF Continued
    <2>2. i \in read => \E b \in Active(h) : i \in b.continues
        OBVIOUS
    <2>3. i \in listed => \E b \in newest : i \in b.found
        OBVIOUS
    <2>4. \A b \in newest : b \in Active(h) /\ IsLast(b, Active(h))
        OBVIOUS
    <2> HIDE DEF newest, read, listed
    <2> QED BY <2>1, <2>2, <2>3, <2>4
<1>3. CASE \E b \in Active(h) : i \in b.continues
    BY <1>3 DEF ReadsOn
<1>4. CASE \E b \in Active(h) : IsLast(b, Active(h)) /\ i \in b.found
    BY <1>4 DEF FindsThere
<1> QED BY <1>2, <1>3, <1>4

LEMMA RangeIsFinite ==
    ASSUME NEW S, IsFiniteSet(S), NEW T, NEW f \in [S -> T], T = {f[x] : x \in S}
    PROVE  IsFiniteSet(T)
<1>1. f \in Surjection(S, T)
    BY DEF Surjection
<1> QED BY <1>1, FS_Surjection

\* A size is a number, and what is taken out of a set takes its size along.
LEMMA SizeOfFinite ==
    ASSUME NEW S, IsFiniteSet(S), \A b \in S : b.size \in Nat
    PROVE  /\ IsFiniteSet(UNION {{b} \X (1..b.size) : b \in S})
           /\ Size(S) \in Nat
<1> DEFINE units(b) == {b} \X (1..b.size)
           all == {units(b) : b \in S}
<1>1. IsFiniteSet(all)
    <2> DEFINE f == [b \in S |-> units(b)]
    <2>1. all = {f[b] : b \in S}
        OBVIOUS
    <2> HIDE DEF units
    <2>2. f \in [S -> all]
        OBVIOUS
    <2> HIDE DEF f, all
    <2> QED BY <2>1, <2>2, RangeIsFinite
<1>2. \A U \in all : IsFiniteSet(U)
    <2>1. SUFFICES ASSUME NEW b \in S PROVE IsFiniteSet(units(b))
        OBVIOUS
    <2>2. IsFiniteSet({b})
        BY FS_Singleton
    <2>3. IsFiniteSet(1..b.size)
        <3>1. b.size \in Int /\ 1 \in Int
            OBVIOUS
        <3> QED BY <3>1, FS_Interval
    <2> QED BY <2>2, <2>3, FS_Product
<1>3. IsFiniteSet(UNION all)
    BY <1>1, <1>2, FS_UNION
<1> QED BY <1>3, FS_CardinalityType DEF Size

LEMMA SizeWithout ==
    ASSUME NEW S, IsFiniteSet(S), \A b \in S : b.size \in Nat, NEW T, T \subseteq S
    PROVE  /\ Size(T) \in Nat /\ Size(S) \in Nat /\ Size(S \ T) \in Nat
           /\ Size(S \ T) = Size(S) - Size(T)
<1> DEFINE units(U) == UNION {{b} \X (1..b.size) : b \in U}
<1>1. IsFiniteSet(T) /\ IsFiniteSet(S \ T)
    BY FS_Subset
<1>2. /\ IsFiniteSet(units(T)) /\ IsFiniteSet(units(S \ T))
      /\ Size(T) \in Nat /\ Size(S \ T) \in Nat /\ Size(S) \in Nat
    BY <1>1, SizeOfFinite
<1>3. units(S) = units(T) \cup units(S \ T)
    OBVIOUS
<1>4. units(T) \cap units(S \ T) = {}
    OBVIOUS
<1>5. Cardinality(units(S)) = Cardinality(units(T)) + Cardinality(units(S \ T)) - 0
    <2>1. IsFiniteSet(units(T)) /\ IsFiniteSet(units(S \ T))
        BY <1>2
    <2>2. Cardinality({}) = 0
        BY FS_EmptySet
    <2> HIDE DEF units
    <2>3. Cardinality(units(T) \cup units(S \ T)) =
              Cardinality(units(T)) + Cardinality(units(S \ T)) - Cardinality(units(T) \cap units(S \ T))
        BY <2>1, FS_Union
    <2> QED BY <1>3, <1>4, <2>2, <2>3
<1>6. Size(S) = Size(T) + Size(S \ T)
    <2>1. Size(S) = Cardinality(units(S)) /\ Size(T) = Cardinality(units(T))
          /\ Size(S \ T) = Cardinality(units(S \ T))
        BY DEF Size
    <2> HIDE DEF units
    <2> QED BY <1>2, <1>5, <2>1
<1> QED BY <1>2, <1>6

\* Pruning does not end above its limit while it may drop anything more.
LEMMA PruneFits ==
    ASSUME NEW h \in HistoryType, IsFiniteSet(h.bundles), NEW limit \in Nat
    PROVE  WithinLimit(Prune(h, limit), limit)
<1> DEFINE g == Prune(h, limit)
           droppable == Droppable(h)
           dropped == Dropped(h, limit)
           before(b) == {c \in droppable : c.id < b.id}
           fits(b) == Size(Inactive(h)) - Size(before(b)) <= limit
<1>1. \A b \in h.bundles : b.id \in Nat /\ b.size \in Nat
    BY DEF HistoryType, Bundle
<1>2. g.bundles = h.bundles \ dropped
    BY DEF Prune, HistoryType
<1>3. dropped \subseteq droppable /\ droppable \subseteq Inactive(h) /\ Inactive(h) \subseteq h.bundles
    BY DEF Dropped, Droppable, Inactive
<1>4. Active(g) = Active(h) /\ Inactive(g) = Inactive(h) \ dropped
    <2> HIDE DEF g, dropped, droppable
    <2> QED BY <1>2, <1>3 DEF Active, Inactive
<1>5. Droppable(g) = droppable \ dropped
    <2>1. Continued(g) = Continued(h)
        BY <1>4 DEF Continued
    <2> QED BY <1>4, <2>1 DEF Droppable
<1>6. dropped = {b \in droppable : \A c \in droppable : c.id <= b.id => ~fits(c)}
    <2>1. \A c \in droppable : Size(before(c)) \in Nat /\ Size(Inactive(h)) \in Nat
        <3>1. SUFFICES ASSUME NEW c \in droppable PROVE Size(before(c)) \in Nat /\ Size(Inactive(h)) \in Nat
            OBVIOUS
        <3>2. before(c) \subseteq Inactive(h)
            BY <1>3
        <3>3. IsFiniteSet(Inactive(h))
            BY <1>3, FS_Subset
        <3> HIDE DEF before
        <3> QED BY <1>1, <1>3, <3>2, <3>3, SizeWithout
    <2>2. dropped = {b \in droppable : \A c \in droppable :
                         c.id <= b.id => Size(Inactive(h)) - Size(before(c)) > limit}
        BY DEF Dropped
    <2> HIDE DEF dropped, droppable, before
    <2> QED BY <2>1, <2>2
<1> HIDE DEF g
<1>7. SUFFICES ASSUME NEW b \in droppable, b \notin dropped PROVE Size(Inactive(g)) <= limit
    <2>1. CASE droppable \ dropped = {}
        BY <1>5, <2>1 DEF WithinLimit, g
    <2>2. CASE \E b \in droppable : b \notin dropped
        BY <2>2 DEF WithinLimit, g
    <2> HIDE DEF dropped, droppable
    <2> QED BY <2>1, <2>2
<1> HIDE DEF dropped, droppable, fits
<1>8. PICK c \in droppable : fits(c)
    BY <1>6, <1>7
<1> DEFINE ids == {k \in Nat : \E d \in droppable : d.id = k /\ fits(d)}
           R == OpToRel(<, Nat)
<1>9. PICK m \in ids : \A k \in ids : ~(<<k, m>> \in R)
    <2>1. c.id \in ids
        BY <1>1, <1>3, <1>8
    <2>2. IsWellFoundedOn(R, Nat) /\ ids \subseteq Nat
        BY NatLessThanWellFounded
    <2> HIDE DEF ids, R
    <2> QED BY <2>1, <2>2, WFMin
<1>10. PICK d \in droppable : d.id = m /\ fits(d)
    BY DEF ids
<1>11. \A e \in droppable : e.id < d.id => ~fits(e)
    <2>1. SUFFICES ASSUME NEW e \in droppable, e.id < d.id, fits(e) PROVE FALSE
        OBVIOUS
    <2>2. e.id \in Nat /\ d.id \in Nat
        BY <1>1, <1>3
    <2>3. e.id \in ids /\ <<e.id, m>> \in R
        BY <1>10, <2>1, <2>2 DEF OpToRel
    <2> QED BY <1>9, <2>3
<1> HIDE DEF ids, R
<1>12. before(d) \subseteq dropped
    <2>1. SUFFICES ASSUME NEW e \in droppable, e.id < d.id, NEW x \in droppable, x.id <= e.id
                   PROVE  ~fits(x)
        BY <1>6
    <2>2. x.id \in Nat /\ e.id \in Nat /\ d.id \in Nat
        BY <1>1, <1>3
    <2> QED BY <1>11, <2>1, <2>2
<1>13. /\ before(d) \subseteq Inactive(h)
       /\ IsFiniteSet(Inactive(h)) /\ IsFiniteSet(dropped)
       /\ \A x \in Inactive(h) : x.size \in Nat
    BY <1>1, <1>3, FS_Subset
<1>14. Size(Inactive(h)) - Size(before(d)) <= limit
    BY <1>10 DEF fits
<1> HIDE DEF before
<1>15. /\ Size(Inactive(h) \ dropped) = Size(Inactive(h)) - Size(dropped)
       /\ Size(Inactive(h)) \in Nat /\ Size(dropped) \in Nat
    BY <1>3, <1>13, SizeWithout
<1>16. /\ Size(dropped \ before(d)) = Size(dropped) - Size(before(d))
       /\ Size(dropped \ before(d)) \in Nat /\ Size(before(d)) \in Nat
    BY <1>3, <1>12, <1>13, SizeWithout
<1> QED BY <1>4, <1>14, <1>15, <1>16

\* What joins refers only to what is there, so nothing it could refer to is ahead.
LEMMA PushReads ==
    ASSUME NEW h \in HistoryType, \A b \in h.bundles : b.id <= h.nextId, RefersBack(h),
           NEW m \in Messages, m.continues \subseteq Ids(h), m.found \subseteq Ids(h)
    PROVE  LET g == Push(h, m)
           IN  /\ RefersBack(g)
               /\ ReadsOn(h) => ReadsOn(g)
               /\ m.kind # "archive" => FindsThere(g)
<1> DEFINE g == Push(h, m)
           n == Pushed(h, m)
<1>1. g.bundles = h.bundles \cup {n}
    BY PushFields
<1>2. /\ n.id = h.nextId + 1 /\ n.continues = m.continues /\ n.found = m.found
      /\ n.active <=> m.kind # "archive"
    BY DEF Pushed
<1>3. h.nextId \in Nat /\ \A b \in h.bundles : b.id \in Nat /\ b.id < n.id
    BY <1>2 DEF HistoryType, Bundle
<1> HIDE DEF g, n
<1>4. Ids(h) \subseteq Ids(g)
    BY <1>1 DEF Ids
<1>5. \A b \in Active(g) : b \in Active(h) \/ b = n
    BY <1>1 DEF Active
<1>6. RefersBack(g)
    <2>1. IsFiniteSet(g.bundles)
        BY <1>1, FS_AddElement DEF RefersBack
    <2>2. \A i \in n.continues \cup n.found : i < n.id
        BY <1>2, <1>3 DEF Ids
    <2> QED BY <1>1, <2>1, <2>2 DEF RefersBack
<1>7. ReadsOn(h) => ReadsOn(g)
    BY <1>2, <1>4, <1>5 DEF ReadsOn
<1>8. ASSUME m.kind # "archive" PROVE FindsThere(g)
    <2>1. n \in Active(g)
        BY <1>1, <1>2, <1>8 DEF Active
    <2>2. SUFFICES ASSUME NEW b \in Active(g), IsLast(b, Active(g)) PROVE b.found \subseteq Ids(g)
        BY DEF FindsThere
    <2>3. b = n
        BY <1>2, <1>3, <1>5, <2>1, <2>2 DEF IsLast, Active
    <2> QED BY <1>2, <1>4, <2>3
<1> QED BY <1>6, <1>7, <1>8 DEF g

\* A piece that leaves was the last, so nothing refers to it.
LEMMA PopReads ==
    ASSUME NEW h \in HistoryType, RefersBack(h)
    PROVE  /\ RefersBack(PopPiece(h))
           /\ ReadsOn(h) => ReadsOn(PopPiece(h))
<1> DEFINE g == PopPiece(h)
<1>1. g.bundles = {b \in h.bundles : ~(b.kind = "piece" /\ IsLast(b, h.bundles))}
    BY DEF PopPiece, HistoryType
<1>2. \A b \in h.bundles : b.id \in Nat /\ b.continues \subseteq Nat
    BY DEF HistoryType, Bundle
<1> HIDE DEF g
<1>3. RefersBack(g)
    <2>1. g.bundles \subseteq h.bundles
        BY <1>1
    <2> QED BY <2>1, FS_Subset DEF RefersBack
<1>4. ASSUME ReadsOn(h) PROVE ReadsOn(g)
    <2>1. SUFFICES ASSUME NEW b \in Active(g), NEW i \in b.continues PROVE i \in Ids(g)
        BY DEF ReadsOn
    <2>2. b \in Active(h) /\ b \in h.bundles
        BY <1>1 DEF Active
    <2>3. PICK c \in h.bundles : c.id = i
        BY <1>4, <2>1, <2>2 DEF ReadsOn, Ids
    <2>4. c.id < b.id
        BY <2>1, <2>2, <2>3 DEF RefersBack
    <2>5. ~IsLast(c, h.bundles)
        BY <1>2, <2>2, <2>3, <2>4 DEF IsLast
    <2>6. c \in g.bundles
        BY <1>1, <2>5
    <2> QED BY <2>3, <2>6 DEF Ids
<1> QED BY <1>3, <1>4 DEF g

\* Eviction keeps the newest of the context, and so what it found.
LEMMA EvictReads ==
    ASSUME NEW q \in Nat, NEW h, NEW id, NEW excess, WellFormed(h, q), RefersBack(h)
    PROVE  LET g == EvictDownTo(h, id, excess)
           IN  /\ RefersBack(g)
               /\ ReadsOn(h) => ReadsOn(g)
               /\ FindsThere(h) => FindsThere(g)
<1> DEFINE g == EvictDownTo(h, id, excess)
           leaving == LeavesContext(h, id, excess)
           after(b) == [b EXCEPT !.active = @ /\ b \notin leaving]
<1>1. h \in HistoryType /\ h.nextId \in Nat
      /\ \A b \in h.bundles : b \in Bundle /\ b.id \in Nat /\ b.id <= h.nextId
    BY DEF WellFormed, HistoryType, Bundle
<1>2. g.bundles = {after(b) : b \in h.bundles}
    BY <1>1 DEF EvictDownTo, HistoryType
<1>3. \A b \in h.bundles :
        after(b).id = b.id /\ after(b).continues = b.continues /\ after(b).found = b.found
    BY <1>1 DEF Bundle
<1>4. Ids(g) = Ids(h) /\ Active(g) = Active(h) \ leaving
    BY EvictLeaves
<1>5. \A b \in leaving : ~IsLast(b, Active(h))
    BY LeavingIsNotLast
<1> HIDE DEF g, leaving
<1>6. RefersBack(g)
    <2>1. IsFiniteSet(g.bundles)
        <3> DEFINE f == [b \in h.bundles |-> after(b)]
        <3>1. f \in [h.bundles -> g.bundles] /\ g.bundles = {f[b] : b \in h.bundles}
            BY <1>2
        <3>2. IsFiniteSet(h.bundles)
            BY DEF RefersBack
        <3> HIDE DEF f, after
        <3> QED BY <3>1, <3>2, RangeIsFinite
    <2> HIDE DEF after
    <2> QED BY <1>2, <1>3, <2>1 DEF RefersBack
<1>7. ReadsOn(h) => ReadsOn(g)
    BY <1>4 DEF ReadsOn
<1>8. ASSUME FindsThere(h) PROVE FindsThere(g)
    <2>1. SUFFICES ASSUME NEW b \in Active(g), IsLast(b, Active(g)) PROVE b.found \subseteq Ids(g)
        BY DEF FindsThere
    <2>2. b \in Active(h)
        BY <1>4
    <2>3. PICK last \in Active(h) : IsLast(last, Active(h))
        <3> DEFINE ids == {c.id : c \in Active(h)}
        <3>1. ids \subseteq Nat /\ ids # {} /\ \A x \in ids : x <= h.nextId
            BY <1>1, <2>2 DEF Active
        <3>2. Max(ids) \in ids /\ \A x \in ids : x <= Max(ids)
            <4> HIDE DEF ids
            <4> QED BY <1>1, <3>1, MaxOfBounded
        <3>3. PICK c \in Active(h) : c.id = Max(ids)
            BY <3>2
        <3> QED BY <3>2, <3>3 DEF IsLast
    <2>4. last \in Active(g)
        BY <1>4, <1>5, <2>3
    <2>5. last.id <= b.id
        BY <2>1, <2>4 DEF IsLast
    <2>6. IsLast(b, Active(h))
        <3>1. \A c \in Active(h) : c.id \in Nat
            BY <1>1 DEF Active
        <3> QED BY <2>2, <2>3, <2>5, <3>1 DEF IsLast
    <2> QED BY <1>4, <1>8, <2>2, <2>6 DEF FindsThere
<1> QED BY <1>6, <1>7, <1>8 DEF g

\* Pruning drops nothing that the context goes on in.
LEMMA PruneReads ==
    ASSUME NEW h \in HistoryType, NEW limit, RefersBack(h)
    PROVE  LET g == Prune(h, limit)
           IN  /\ RefersBack(g)
               /\ ReadsOn(h) => ReadsOn(g)
               /\ FindsThere(h) => FindsThere(g)
<1> DEFINE g == Prune(h, limit)
           dropped == Dropped(h, limit)
<1>1. g.bundles = h.bundles \ dropped
    BY DEF Prune, HistoryType
<1>2. \A c \in dropped : ~c.active /\ c.id \notin Continued(h)
    BY DEF Dropped, Droppable, Inactive
<1> HIDE DEF g, dropped
<1>3. Active(g) = Active(h)
    BY <1>1, <1>2 DEF Active
<1>4. RefersBack(g)
    <2>1. g.bundles \subseteq h.bundles
        BY <1>1
    <2> QED BY <2>1, FS_Subset DEF RefersBack
<1>5. Ids(h) \cap Continued(h) \subseteq Ids(g)
    <2>1. SUFFICES ASSUME NEW c \in h.bundles, c.id \in Continued(h) PROVE c \in g.bundles
        BY DEF Ids
    <2> QED BY <1>1, <1>2, <2>1
<1>6. \A b \in Active(h) : b.continues \subseteq Continued(h)
    BY DEF Continued
<1>7. \A b \in Active(h) : IsLast(b, Active(h)) => b.found \subseteq Continued(h)
    BY DEF Continued
<1>8. ReadsOn(h) => ReadsOn(g)
    BY <1>3, <1>5, <1>6 DEF ReadsOn
<1>9. FindsThere(h) => FindsThere(g)
    BY <1>3, <1>5, <1>7 DEF FindsThere
<1> QED BY <1>4, <1>8, <1>9 DEF g
=============================================================================
