---------------------------- MODULE KnowledgeProofs ----------------------------
(***************************************************************************)
(* Proofs about Chunks, for any documents, contents, processes, edits and  *)
(* stops: the chunks of a document are all of one content.  And about      *)
(* Reading, for texts of any size: following the continuations of results, *)
(* however they are cut, passes over nothing.  And about Searching, for    *)
(* any results and titles: the pages of a search leave out no result; and  *)
(* about FileSearch, for any files and edits: a search of the files read   *)
(* to its end found their matching lines.                                  *)
(***************************************************************************)
EXTENDS Chunks, Reading, Searching, FileSearch, FiniteSetTheorems, SequenceTheorems,
        WellFoundedInduction, TLAPS

\* A document being split was read whole, and once one of its chunks is written
\* it cannot be deleted.
DocOK(p) ==
    pc[p] = "write" =>
        /\ doc[p] \in Document /\ doc[p].hash = doc[p].text
        /\ written[p] > 0 => documents[doc[p].seq] # NoText

IInv ==
    /\ TypeOK
    /\ \A p \in Procs : DocOK(p)
    /\ ChunksAreOneContent

\* `pc`, `doc` and `written` of a process change together, and no table with them.
LEMMA OwnStep ==
    ASSUME IInv, NEW p \in Procs, UNCHANGED table, TypeOK', DocOK(p)',
           \A q \in Procs \ {p} : pc'[q] = pc[q] /\ doc'[q] = doc[q] /\ written'[q] = written[q]
    PROVE  IInv'
BY DEF IInv, DocOK, ChunksAreOneContent, table, AllOf

LEMMA LeaveType ==
    ASSUME TypeOK, NEW p \in Procs, NEW stage \in {"idle", "read"}, Leave(p, stage)
    PROVE  /\ pc' \in [Procs -> {"idle", "listed", "read", "write"}]
           /\ listed' \in [Procs -> [Docs -> Contents \cup {NoText}]]
           /\ todo' \in [Procs -> SUBSET Docs]
           /\ doc' \in [Procs -> Document \cup {None}]
           /\ written' \in [Procs -> Nat]
           /\ pc'[p] = stage
           /\ \A q \in Procs \ {p} : pc'[q] = pc[q] /\ doc'[q] = doc[q] /\ written'[q] = written[q]
BY DEF TypeOK, Leave, Unlisted

LEMMA LeaveStep ==
    ASSUME IInv, NEW p \in Procs, NEW stage \in {"idle", "read"}, Leave(p, stage),
           UNCHANGED table, edits' \in Nat, stops' \in Nat
    PROVE  IInv'
<1>1. TypeOK'
  BY LeaveType DEF IInv, TypeOK, table
<1>2. DocOK(p)'
  BY LeaveType DEF IInv, DocOK
<1> QED
  BY <1>1, <1>2, LeaveType, OwnStep DEF IInv

LEMMA InitIInv == Init => IInv
BY DEF Init, IInv, TypeOK, DocOK, ChunksAreOneContent, Unlisted

LEMMA EditIInv == ASSUME IInv, NEW d \in Docs, Edit(d) PROVE IInv'
<1>1. PICK new \in Contents \cup {NoText} :
          /\ documents' = [documents EXCEPT ![d] = new]
          /\ chunks' = IF new = NoText THEN [chunks EXCEPT ![d] = {}] ELSE chunks
  BY DEF Edit
<1>2. TypeOK'
  BY <1>1 DEF IInv, TypeOK, Edit
<1>3. ASSUME NEW p \in Procs PROVE DocOK(p)'
  BY <1>1 DEF IInv, TypeOK, DocOK, Edit, Locked, Document
<1>4. ChunksAreOneContent'
  BY <1>1 DEF IInv, TypeOK, ChunksAreOneContent, Edit, AllOf
<1> QED
  BY <1>2, <1>3, <1>4 DEF IInv

LEMMA ReadDocIInv == ASSUME IInv, NEW p \in Procs, ReadDoc(p) PROVE IInv'
<1>1. PICK d \in todo[p] :
          /\ todo' = [todo EXCEPT ![p] = @ \ {d}]
          /\ IF documents[d] = NoText
             THEN UNCHANGED <<pc, doc>>
             ELSE /\ doc' = [doc EXCEPT ![p] = AsRead(p, d)]
                  /\ pc' = [pc EXCEPT ![p] = "write"]
  BY DEF ReadDoc
<1>2. d \in Docs
  BY DEF IInv, TypeOK
<1>3. documents[d] # NoText => AsRead(p, d) \in Document /\ AsRead(p, d).hash = AsRead(p, d).text
                               /\ AsRead(p, d).seq = d
  BY <1>2 DEF IInv, TypeOK, AsRead, Document
<1>4. TypeOK'
  <2>1. CASE documents[d] = NoText
    BY <1>1, <2>1 DEF IInv, TypeOK, ReadDoc, table
  <2>2. CASE documents[d] # NoText
    <3>1. AsRead(p, d) \in Document
      BY <1>3, <2>2
    <3>2. doc' \in [Procs -> Document \cup {None}]
      BY <1>1, <2>2, <3>1 DEF IInv, TypeOK
    <3>3. pc' \in [Procs -> {"idle", "listed", "read", "write"}] /\ todo' \in [Procs -> SUBSET Docs]
      BY <1>1, <2>2 DEF IInv, TypeOK
    <3>. QED  BY <3>2, <3>3 DEF IInv, TypeOK, ReadDoc, table
  <2>. QED  BY <2>1, <2>2
<1>5. DocOK(p)'
  BY <1>1, <1>3 DEF IInv, TypeOK, DocOK, ReadDoc, table
<1>6. \A q \in Procs \ {p} : pc'[q] = pc[q] /\ doc'[q] = doc[q] /\ written'[q] = written[q]
  BY <1>1 DEF IInv, TypeOK, ReadDoc
<1> QED
  BY <1>4, <1>5, <1>6, OwnStep DEF ReadDoc

LEMMA CommitIInv == ASSUME IInv, NEW p \in Procs, Commit(p) PROVE IInv'
<1> DEFINE d == doc[p].seq
           c == doc[p].text
<1>1. d \in Docs /\ c \in Contents /\ doc[p].hash = c
  BY DEF IInv, DocOK, Commit, Document
<1>2. written[p] = Parts[c] /\ Parts[c] \in Nat \ {0} /\ documents[d] # NoText
  BY <1>1, ChunksAssumption DEF IInv, DocOK, Commit
<1>3. Replaced(p) = AllOf(c)
  <2>1. {x \in chunks[d] : x.no > written[p] /\ x.no <= Parts[c]} = {}
    BY <1>1, <1>2 DEF IInv, TypeOK, Chunk
  <2>2. {Part(doc[p], i) : i \in 1..written[p]} = AllOf(c)
    BY <1>1, <1>2 DEF Part, AllOf
  <2> QED
    BY <2>1, <2>2 DEF Replaced
<1>4. AllOf(c) \subseteq Chunk
  BY <1>1, <1>2 DEF AllOf, Chunk
<1>5. chunks' = [chunks EXCEPT ![d] = AllOf(c)] /\ documents' = documents
  BY <1>3 DEF Commit
<1> HIDE DEF d, c
<1>6. Leave(p, "read")
  BY DEF Commit
<1>7. TypeOK'
  <2>1. chunks' \in [Docs -> SUBSET Chunk]
    BY <1>1, <1>4, <1>5 DEF IInv, TypeOK
  <2>2. documents' \in [Docs -> Contents \cup {NoText}] /\ born' \subseteq Docs
        /\ edits' \in Nat /\ stops' \in Nat
    BY <1>5 DEF IInv, TypeOK, Commit
  <2> QED
    BY <2>1, <2>2, <1>6, LeaveType DEF IInv, TypeOK
<1>8. ASSUME NEW q \in Procs PROVE DocOK(q)'
  BY <1>5, <1>6, LeaveType DEF IInv, DocOK
<1>9. ChunksAreOneContent'
  BY <1>1, <1>2, <1>5 DEF IInv, TypeOK, ChunksAreOneContent, AllOf
<1> QED
  BY <1>7, <1>8, <1>9 DEF IInv

LEMMA NextIInv == IInv /\ [Next]_vars => IInv'
<1> SUFFICES ASSUME IInv, [Next]_vars PROVE IInv'
  OBVIOUS
<1>1. CASE UNCHANGED vars
  BY <1>1 DEF vars, IInv, TypeOK, DocOK, ChunksAreOneContent, AllOf
<1>2. ASSUME NEW d \in Docs, Edit(d) PROVE IInv'
  BY <1>2, EditIInv
<1>3. ASSUME NEW p \in Procs, ListDocs(p) PROVE IInv'
  <2>1. TypeOK'
    BY <1>3 DEF IInv, TypeOK, ListDocs, table
  <2>2. DocOK(p)'
    BY <1>3 DEF IInv, TypeOK, DocOK, ListDocs
  <2> QED
    BY <1>3, <2>1, <2>2, OwnStep DEF ListDocs, IInv, TypeOK
<1>4. ASSUME NEW p \in Procs, ReadHave(p) PROVE IInv'
  <2>1. TypeOK'
    BY <1>4 DEF IInv, TypeOK, ReadHave, table
  <2>2. DocOK(p)'
    BY <1>4 DEF IInv, TypeOK, DocOK, ReadHave
  <2> QED
    BY <1>4, <2>1, <2>2, OwnStep DEF ReadHave, IInv, TypeOK
<1>5. ASSUME NEW p \in Procs, ReadDoc(p) PROVE IInv'
  BY <1>5, ReadDocIInv
<1>6. ASSUME NEW p \in Procs, WritePart(p) PROVE IInv'
  <2>1. TypeOK'
    BY <1>6 DEF IInv, TypeOK, WritePart, table
  <2>2. DocOK(p)'
    BY <1>6 DEF IInv, TypeOK, DocOK, WritePart, table
  <2> QED
    BY <1>6, <2>1, <2>2, OwnStep DEF WritePart, IInv, TypeOK
<1>7. ASSUME NEW p \in Procs, NoDocument(p) PROVE IInv'
  BY <1>7, LeaveStep DEF NoDocument, IInv, TypeOK
<1>8. ASSUME NEW p \in Procs, Commit(p) PROVE IInv'
  BY <1>8, CommitIInv
<1>9. ASSUME NEW p \in Procs, Finish(p) PROVE IInv'
  BY <1>9, LeaveStep DEF Finish, IInv, TypeOK
<1>10. ASSUME NEW p \in Procs, Stop(p) PROVE IInv'
  <2>1. UNCHANGED table /\ edits' \in Nat /\ stops' \in Nat
    BY <1>10 DEF Stop, IInv, TypeOK
  <2> QED
    BY <1>10, <2>1, LeaveStep DEF Stop
<1> QED
  BY <1>1, <1>2, <1>3, <1>4, <1>5, <1>6, <1>7, <1>8, <1>9, <1>10 DEF Next, Work

\* The chunks of a document are all of one content, under its hash, whatever is
\* edited, deleted, stopped or split by several processes at once.
THEOREM ChunksOfOneContent == Spec => []ChunksAreOneContent
<1>1. IInv => ChunksAreOneContent
  BY DEF IInv
<1> QED
  BY InitIInv, NextIInv, <1>1, PTL DEF Spec

\* The state of the chunk rebuild keeps its type.
THEOREM TypeCorrect == Spec => []TypeOK
<1>1. IInv => TypeOK
  BY DEF IInv
<1> QED
  BY InitIInv, NextIInv, <1>1, PTL DEF Spec

-----------------------------------------------------------------------------
\* Reading: pages, and where they go on.

\* No two breaks have the same count before them, and every count is had.
LEMMA RanksAreNumbers ==
    ASSUME NEW B \in SUBSET (1..Size)
    PROVE  /\ IsFiniteSet(B) /\ Cardinality(B) \in Nat
           /\ \A b \in {0} \cup B : Rank(B, b) \in 0..Cardinality(B)
           /\ \A a, b \in {0} \cup B : Rank(B, a) = Rank(B, b) => a = b
           /\ \A n \in 0..Cardinality(B) : \E b \in {0} \cup B : Rank(B, b) = n
           /\ Rank(B, 0) = 0
<1>. USE ReadingAssumption
<1>. DEFINE Ends == {0} \cup B
            Below(b) == {e \in Ends : e < b}
<1>1. Ends \in SUBSET Nat /\ B \in SUBSET Nat /\ 0 \notin B
  OBVIOUS
<1>2. IsFiniteSet(B) /\ Cardinality(B) \in Nat
  <2>1. IsFiniteSet(1..Size)
    BY FS_Interval
  <2>. QED  BY <2>1, FS_Subset, FS_CardinalityType
<1>3. IsFiniteSet(Ends) /\ Cardinality(Ends) = Cardinality(B) + 1
  <2>1. Ends = B \cup {0}
    OBVIOUS
  <2>. HIDE DEF Ends
  <2>2. IsFiniteSet(B \cup {0}) /\ Cardinality(B \cup {0}) = IF 0 \in B THEN Cardinality(B) ELSE Cardinality(B) + 1
    BY <1>2, FS_AddElement
  <2>. QED  BY <1>1, <2>1, <2>2
<1>4. ASSUME NEW b \in Ends
      PROVE  IsFiniteSet(Below(b)) /\ Cardinality(Below(b)) \in 0..Cardinality(B)
  <2>1. Below(b) \subseteq Ends /\ b \notin Below(b)
    BY <1>1
  <2>2. Below(b) # Ends
    BY <2>1
  <2>. HIDE DEF Ends, Below
  <2>3. IsFiniteSet(Below(b)) /\ Cardinality(Below(b)) \in Nat /\ Cardinality(Below(b)) <= Cardinality(Ends)
        /\ Cardinality(Below(b)) # Cardinality(Ends)
    BY <1>3, <2>1, <2>2, FS_Subset, FS_CardinalityType
  <2>. QED  BY <1>2, <1>3, <2>3
<1>5. ASSUME NEW a \in Ends, NEW b \in Ends, a < b
      PROVE  Cardinality(Below(a)) < Cardinality(Below(b))
  <2>1. Below(a) \subseteq Below(b) /\ a \in Below(b) /\ a \notin Below(a)
    <3>1. a \in Nat /\ b \in Nat /\ \A e \in Ends : e \in Nat
      BY <1>1
    <3>. HIDE DEF Ends
    <3>2. \A e \in Ends : e < a => e < b
      BY <1>5, <3>1
    <3>3. a < b /\ ~(a < a)
      BY <1>5, <3>1
    <3>. QED  BY <3>2, <3>3
  <2>2. Below(a) # Below(b)
    BY <2>1
  <2>. HIDE DEF Below, Ends
  <2>3. IsFiniteSet(Below(b)) /\ Cardinality(Below(a)) \in Nat /\ Cardinality(Below(b)) \in Nat
    BY <1>4
  <2>4. /\ Cardinality(Below(a)) <= Cardinality(Below(b))
        /\ Cardinality(Below(a)) = Cardinality(Below(b)) => Below(a) = Below(b)
    <3>1. Below(a) \in SUBSET Below(b)
      BY <2>1
    <3>. HIDE DEF Below
    <3>. QED  BY <2>3, <3>1, FS_Subset
  <2>. QED  BY <2>2, <2>3, <2>4
<1>6. ASSUME NEW a \in Ends, NEW b \in Ends, Cardinality(Below(a)) = Cardinality(Below(b))
      PROVE  a = b
  <2>1. Cardinality(Below(a)) \in Nat
    BY <1>4
  <2>2. ~(a < b) /\ ~(b < a)
    BY <1>5, <1>6, <2>1
  <2>3. a \in Nat /\ b \in Nat
    BY <1>1
  <2>. QED  BY <2>2, <2>3
<1>7. ASSUME NEW n \in 0..Cardinality(B)
      PROVE  \E b \in Ends : Cardinality(Below(b)) = n
  <2>. DEFINE r == [b \in Ends |-> Cardinality(Below(b))]
              N == 0..Cardinality(B)
  <2>1. r \in Injection(Ends, N)
    <3>1. r \in [Ends -> N]
      BY <1>4
    <3>2. \A a, b \in Ends : r[a] = r[b] => a = b
      BY <1>6
    <3>. HIDE DEF r, Ends, N
    <3>. QED  BY <3>1, <3>2 DEF Injection, IsInjective
  <2>2. IsFiniteSet(N) /\ Cardinality(N) = Cardinality(B) + 1
    BY <1>2, FS_Interval
  <2>3. r \in Surjection(Ends, N)
    <3>. HIDE DEF r, Ends, N
    <3>. QED  BY <1>3, <2>1, <2>2, FS_Injection
  <2>4. \E b \in Ends : r[b] = n
    <3>. HIDE DEF r, Ends
    <3>. QED  BY <2>3 DEF Surjection
  <2>. QED  BY <2>4
<1>8. Below(0) = {}
  <2>1. \A e \in Ends : ~(e < 0)
    BY <1>1
  <2>. HIDE DEF Ends
  <2>. QED  BY <2>1
<1>9. \A b : Rank(B, b) = Cardinality(Below(b))
  BY DEF Rank
<1>. HIDE DEF Below
<1>. QED  BY <1>2, <1>4, <1>6, <1>7, <1>8, <1>9, FS_EmptySet

\* A line begins where the line before it ended, one line break on; the last ends where the text does.
LEMMA LinesFollow ==
    ASSUME NEW B \in SUBSET (1..Size)
    PROVE  /\ LineCount(B) \in Nat \ {0}
           /\ LineFrom(B, 1) = 1
           /\ \A n \in 1..LineCount(B) : LineFrom(B, n) \in Nat \ {0} /\ LineTo(B, n) \in Nat
           /\ \A n \in 1..LineCount(B) - 1 :
                  LineTo(B, n) + 1 \in B /\ LineFrom(B, n + 1) = LineTo(B, n) + 2
           /\ LET end == LineTo(B, LineCount(B)) IN end = Size \/ (end = Size - 1 /\ Size \in B)
<1>. USE ReadingAssumption
<1>. DEFINE Ends == {0} \cup B
            k == Cardinality(B)
<1>0. Ends \in SUBSET Nat /\ B \in SUBSET Nat /\ 0 \notin B /\ \A b \in B : b <= Size /\ b >= 1
  OBVIOUS
<1>1. /\ IsFiniteSet(B) /\ k \in Nat
      /\ \A b \in Ends : Rank(B, b) \in 0..k
      /\ \A a, b \in Ends : Rank(B, a) = Rank(B, b) => a = b
      /\ \A n \in 0..k : \E b \in Ends : Rank(B, b) = n
      /\ Rank(B, 0) = 0
  BY RanksAreNumbers
<1>. HIDE DEF Ends
<1>2. k = 0 => B = {}
  BY <1>1, FS_EmptySet
<1>. HIDE DEF k
<1>3. LineCount(B) = k + IF Size \in B THEN 0 ELSE 1
  BY DEF LineCount, k
<1>4. LineCount(B) \in Nat \ {0} /\ LineCount(B) <= k + 1
  BY <1>1, <1>2, <1>3
<1>5. ASSUME NEW n \in 0..k
      PROVE  /\ LineFrom(B, n + 1) - 1 \in Ends /\ Rank(B, LineFrom(B, n + 1) - 1) = n
             /\ LineFrom(B, n + 1) \in Nat \ {0}
  <2>. DEFINE b == CHOOSE b \in {0} \cup B : Rank(B, b) = n
  <2>1. b \in Ends /\ Rank(B, b) = n
    BY <1>1 DEF Ends
  <2>2. LineFrom(B, n + 1) = 1 + b
    <3>1. (n + 1) - 1 = n
      BY <1>1
    <3>. QED  BY <3>1 DEF LineFrom
  <2>3. b \in Nat
    BY <1>0, <2>1
  <2>. HIDE DEF b
  <2>. QED  BY <2>1, <2>2, <2>3
<1>6. ASSUME NEW n \in 1..LineCount(B)
      PROVE  LineFrom(B, n) \in Nat \ {0}
  <2>1. n - 1 \in 0..k /\ (n - 1) + 1 = n
    BY <1>1, <1>4
  <2>. QED  BY <1>5, <2>1
<1>7. ASSUME NEW n \in Nat, NEW b \in B, Rank(B, b) = n
      PROVE  LineTo(B, n) = b - 1
  <2>. DEFINE c == CHOOSE c \in B : Rank(B, c) = n
  <2>1. c \in B /\ Rank(B, c) = n
    BY <1>7
  <2>2. c = b
    BY <1>1, <1>7, <2>1 DEF Ends
  <2>3. LineTo(B, n) = c - 1
    BY <1>7 DEF LineTo
  <2>. HIDE DEF c
  <2>. QED  BY <2>2, <2>3
<1>8. ASSUME NEW n \in 1..LineCount(B) - 1
      PROVE  LineTo(B, n) + 1 \in B /\ LineFrom(B, n + 1) = LineTo(B, n) + 2
  <2>1. n \in 0..k /\ n # 0 /\ n \in Nat
    BY <1>1, <1>4
  <2>2. PICK b \in Ends : Rank(B, b) = n
    BY <1>1, <2>1
  <2>3. b \in B /\ b \in Nat
    BY <1>0, <1>1, <2>1, <2>2 DEF Ends
  <2>4. LineTo(B, n) = b - 1
    BY <1>7, <2>1, <2>2, <2>3
  <2>5. LineFrom(B, n + 1) - 1 = b
    BY <1>1, <1>5, <2>1, <2>2
  <2>6. LineFrom(B, n + 1) \in Nat
    BY <1>5, <2>1
  <2>. QED  BY <2>3, <2>4, <2>5, <2>6
<1>9. LET end == LineTo(B, LineCount(B)) IN end = Size \/ (end = Size - 1 /\ Size \in B)
  <2>1. CASE Size \notin B
    <3>1. LineCount(B) = k + 1
      BY <1>3, <2>1
    <3>2. ~\E b \in B : Rank(B, b) = LineCount(B)
      BY <1>1, <3>1 DEF Ends
    <3>. QED  BY <3>2 DEF LineTo
  <2>2. CASE Size \in B
    <3>1. LineCount(B) = k
      BY <1>1, <1>3, <2>2
    <3>2. Rank(B, Size) = k
      <4>1. {e \in {0} \cup B : e < Size} = ({0} \cup B) \ {Size}
        <5>1. \A e \in {0} \cup B : e < Size <=> e # Size
          BY <1>0
        <5>. QED  BY <5>1
      <4>2. Cardinality({0} \cup B) = k + 1 /\ IsFiniteSet({0} \cup B)
        <5>1. {0} \cup B = B \cup {0}
          OBVIOUS
        <5>. QED  BY <1>0, <1>1, <5>1, FS_AddElement DEF k
      <4>. DEFINE E == {0} \cup B
      <4>3. Size \in E
        BY <2>2
      <4>. HIDE DEF E
      <4>4. Cardinality(E \ {Size}) = k
        <5>1. Cardinality(E) = k + 1 /\ IsFiniteSet(E)
          BY <4>2 DEF E
        <5>2. Cardinality(E \ {Size}) = Cardinality(E) - 1
          BY <4>3, <5>1, FS_RemoveElement
        <5>. QED  BY <1>1, <5>1, <5>2
      <4>. QED  BY <4>1, <4>4 DEF Rank, E
    <3>3. LineTo(B, LineCount(B)) = Size - 1
      BY <1>1, <1>7, <2>2, <3>1, <3>2
    <3>. QED  BY <2>2, <3>3
  <2>. QED  BY <2>1, <2>2
<1>10. LineFrom(B, 1) = 1
  <2>1. 0 \in 0..k /\ 0 + 1 = 1
    BY <1>1
  <2>2. LineFrom(B, 1) - 1 \in Ends /\ Rank(B, LineFrom(B, 1) - 1) = 0 /\ LineFrom(B, 1) \in Nat
    BY <1>5, <2>1
  <2>3. LineFrom(B, 1) - 1 = 0
    BY <1>1, <2>2 DEF Ends
  <2>. QED  BY <2>2, <2>3
<1>11. ASSUME NEW n \in 1..LineCount(B) PROVE LineTo(B, n) \in Nat
  <2>1. CASE n \in 1..LineCount(B) - 1
    <3>1. LineTo(B, n) + 1 \in B /\ LineTo(B, n) + 2 = LineFrom(B, n + 1)
      BY <1>8, <2>1
    <3>2. LineTo(B, n) \in Int
      <4>1. PICK b \in B : Rank(B, b) = n
        <5>1. n \in 0..k /\ n # 0
          BY <1>1, <1>4, <2>1
        <5>. QED  BY <1>1, <5>1 DEF Ends
      <4>. QED  BY <1>0, <1>7, <4>1
    <3>. QED  BY <1>0, <3>1, <3>2
  <2>2. CASE n = LineCount(B)
    BY <1>9, <2>2
  <2>. QED  BY <1>4, <2>1, <2>2
<1>. QED  BY <1>4, <1>6, <1>8, <1>9, <1>10, <1>11

-----------------------------------------------------------------------------
\* Chunks that leave nothing of their document out.
Unbroken(c) ==
    /\ DOMAIN c = 1..Len(c) /\ Len(c) \in Nat \ {0}
    /\ \A i \in DOMAIN c : c[i][1] \in 1..Size /\ c[i][2] \in 1..Size
    /\ c[1][1] = 1 /\ c[Len(c)][2] = Size
    /\ \A i \in 1..Len(c) - 1 : c[i + 1][1] <= c[i][2] + 1

\* What is read, of one kind, and changed only where it can be.
TextOK(t) ==
    /\ t.of \in {"knowledge", "file", "history", "list", "rows"}
    /\ t.of = "knowledge" => Unbroken(t.chunks)
    /\ t.breaks \in SUBSET (1..Size)
    /\ t.changed \in BOOLEAN
    /\ t.changed => t.of \in {"file", "list"}

\* Who follows this in that text, when that much of it was given, passes over nothing.
\* An archive goes on, at its end, with a continuation that is none.
Onward(t, go, had) ==
    /\ go.at \in {"chunk", "range", "line", "row", "end", "refused"}
    /\ go.at = "chunk" => /\ t.of = "knowledge" /\ go.no \in DOMAIN t.chunks /\ go.skip \in Nat
                          /\ 1..(t.chunks[go.no][1] + go.skip - 1) \subseteq had
    /\ go.at = "range" => go = [InRange(go.start, go.count, go.offset) EXCEPT !.stale = go.stale]
    /\ go.at = "range" /\ ~go.stale =>
           /\ t.of = "file" /\ go.start \in 1..LineCount(t.breaks) /\ go.count \in Nat \ {0} /\ go.offset \in Nat
           /\ LineFrom(t.breaks, go.start)..(LineFrom(t.breaks, go.start) + go.offset - 1) \subseteq had
           /\ ~t.changed => 1..(LineFrom(t.breaks, go.start) - 1) \subseteq had
    /\ go.at = "line" =>
           /\ t.of = "file" /\ go.start \in Nat \ {0}
           /\ ~t.changed /\ go.start <= LineCount(t.breaks) => 1..(LineFrom(t.breaks, go.start) - 1) \subseteq had
           /\ ~t.changed /\ go.start > LineCount(t.breaks) => 1..Size \subseteq had
    /\ go.at = "row" => /\ t.of \in {"list", "rows"} /\ go.offset \in Nat
                        /\ go = [AtRow(go.offset) EXCEPT !.stale = go.stale]
                        /\ go.stale => t.of = "list"
                        /\ ~go.stale => 1..go.offset \subseteq had
    /\ go.at = "end" /\ ~t.changed => 1..Size \subseteq had

\* An archive's rest, and what is said at its end, leave nothing out.
InTheArchive(t, go, had) ==
    /\ go = InArchive(go.from, go.upto, go.then) /\ go.from \in Nat \ {0} /\ go.upto \in Int
    /\ ~t.changed => 1..(go.from - 1) \subseteq had
    /\ Onward(t, go.then, had \cup (go.from..go.upto))

GoesOnOK(t, go, had) == Onward(t, go, had) \/ InTheArchive(t, go, had)

\* A result under way, by what it was read with.
PageOK(t, p, had) ==
    /\ p = [since |-> p.since, from |-> p.from, to |-> p.to, go |-> p.go, first |-> p.first,
            ends |-> p.ends, count |-> p.count, archive |-> p.archive]
    /\ p.from \in Nat \ {0} /\ p.since \in Nat \ {0} /\ p.since <= p.from /\ p.to \in Int
    /\ (IF t.changed THEN p.since ELSE 1)..(p.from - 1) \subseteq had
    /\ GoesOnOK(t, p.first, had)
    /\ GoesOnOK(t, p.go, had \cup (p.from..p.to))
    /\ p.first.at = "chunk" =>
           \A i \in DOMAIN p.ends :
               i < Len(p.ends) => p.first.no + i \in DOMAIN t.chunks /\ p.ends[i] = t.chunks[p.first.no + i - 1][2]
    /\ p.first.at \in {"line", "range"} =>
           /\ t.of = "file" /\ p.first.start \in 1..LineCount(t.breaks) /\ p.count \in Nat \ {0}
           /\ p.since = LineFrom(t.breaks, p.first.start)
    /\ p.first.at = "row" => p.since = 1 /\ t.of \in {"list", "rows"}
    /\ p.first.at = "archive" => p.from = p.first.from
    /\ p.first.at \in {"line", "range", "row"} /\ p.archive = End =>
           Onward(t, p.go, had \cup (p.from..p.to))
    /\ p.first.at \in {"line", "range", "row"} /\ p.archive # End =>
           /\ p.archive.at = "archive" /\ p.archive.upto \in Int
           /\ Onward(t, p.archive.then, had \cup (p.from..p.archive.upto))
    /\ p.first.at \in {"chunk", "line", "range", "row", "archive"}
    /\ p.ends \in Seq(Int)

\* What was given, line breaks aside.
Had == seen \cup text.breaks

\* What is told to follow, now or by the result under way, passes over nothing.
ReadingInv ==
    /\ TextOK(text)
    /\ page = NoPage => GoesOnOK(text, follow, Had)
    /\ page # NoPage => page.first = follow /\ PageOK(text, page, Had)

-----------------------------------------------------------------------------
\* What goes on well goes on well when more was given.
LEMMA OnwardGrows ==
    ASSUME NEW t, NEW go, NEW S, NEW T, S \subseteq T, Onward(t, go, S)
    PROVE  Onward(t, go, T)
BY DEF Onward

\* The same of an archive.
LEMMA GoesOnGrows ==
    ASSUME NEW t, NEW go, NEW S, NEW T, S \subseteq T, GoesOnOK(t, go, S)
    PROVE  GoesOnOK(t, go, T)
<1>1. ASSUME InTheArchive(t, go, S) PROVE InTheArchive(t, go, T)
  <2>1. S \cup (go.from..go.upto) \subseteq T \cup (go.from..go.upto)
    OBVIOUS
  <2>. QED  BY <1>1, <2>1, OnwardGrows DEF InTheArchive
<1>. QED  BY <1>1, OnwardGrows DEF GoesOnOK

\* What a continuation says of itself.
LEMMA WhereItGoesOn ==
    ASSUME NEW t, NEW go, NEW had, GoesOnOK(t, go, had)
    PROVE  /\ go.at = "archive" => InTheArchive(t, go, had)
           /\ go.at # "archive" => Onward(t, go, had)
<1>1. InTheArchive(t, go, had) => go.at = "archive"
  BY DEF InTheArchive, InArchive
<1>2. Onward(t, go, had) => go.at # "archive"
  BY DEF Onward
<1>. QED  BY <1>1, <1>2 DEF GoesOnOK

\* Reading begins before anything was given.
LEMMA FirstReadGoesOn ==
    ASSUME TextOK(text), NEW had
    PROVE  GoesOnOK(text, FirstRead, had)
<1>. USE ReadingAssumption
<1>1. CASE text.of = "knowledge"
  <2>1. FirstRead = AtChunk(1, 0)
    BY <1>1 DEF FirstRead
  <2>2. 1 \in DOMAIN text.chunks /\ text.chunks[1][1] = 1
    BY <1>1 DEF TextOK, Unbroken
  <2>. QED  BY <1>1, <2>1, <2>2 DEF GoesOnOK, Onward, AtChunk
<1>2. CASE text.of = "file"
  <2>1. FirstRead = AtLine(1)
    BY <1>2 DEF FirstRead
  <2>2. LineFrom(text.breaks, 1) = 1 /\ LineCount(text.breaks) \in Nat \ {0}
    BY LinesFollow DEF TextOK
  <2>. QED  BY <1>2, <2>1, <2>2 DEF GoesOnOK, Onward, AtLine
<1>3. CASE text.of = "history"
  <2>1. FirstRead = InArchive(1, Size, End)
    BY <1>3 DEF FirstRead
  <2>. DEFINE go == InArchive(1, Size, End)
  <2>2. go = InArchive(go.from, go.upto, go.then) /\ go.from = 1 /\ go.upto = Size /\ go.then = End
    BY DEF InArchive
  <2>3. Onward(text, End, had \cup (1..Size))
    BY DEF Onward, End
  <2>. HIDE DEF go
  <2>4. InTheArchive(text, go, had)
    BY <2>2, <2>3 DEF InTheArchive
  <2>. QED  BY <2>1, <2>4 DEF GoesOnOK, go
<1>4. CASE text.of \in {"list", "rows"}
  <2>1. FirstRead = AtRow(0)
    BY <1>4 DEF FirstRead
  <2>2. AtRow(0) = [AtRow(0) EXCEPT !.stale = AtRow(0).stale]
    BY DEF AtRow
  <2>. QED  BY <1>4, <2>1, <2>2 DEF GoesOnOK, Onward, AtRow
<1>. QED  BY <1>1, <1>2, <1>3, <1>4 DEF TextOK

\* Reading begins with nothing given and nothing passed over.
LEMMA ReadingInitInv == ReadingInit => ReadingInv
<1>. SUFFICES ASSUME ReadingInit PROVE ReadingInv
  OBVIOUS
<1>. USE ReadingAssumption
<1>1. TextOK(text)
  <2>1. CASE text.of = "knowledge"
    <3>1. text.chunks \in Chunkings /\ text.breaks = {} /\ text.changed = FALSE
      BY <2>1 DEF ReadingInit, Documents
    <3>2. PICK n \in 1..Size : text.chunks \in [1..n -> (1..Size) \X (1..Size)]
      BY <3>1 DEF Chunkings
    <3>3. Len(text.chunks) = n /\ DOMAIN text.chunks = 1..n /\ n \in Nat \ {0}
      BY <3>2
    <3>4. \A i \in 1..n : text.chunks[i][1] \in 1..Size /\ text.chunks[i][2] \in 1..Size
      BY <3>2
    <3>5. /\ text.chunks[1][1] = 1 /\ text.chunks[n][2] = Size
          /\ \A i \in 1..n - 1 : text.chunks[i + 1][1] <= text.chunks[i][2] + 1
      BY <3>1, <3>3 DEF Chunkings
    <3>. QED  BY <2>1, <3>1, <3>3, <3>4, <3>5 DEF TextOK, Unbroken
  <2>2. CASE text.of # "knowledge"
    BY <2>2 DEF ReadingInit, Documents, TextOK
  <2>. QED  BY <2>1, <2>2
<1>. QED  BY <1>1, FirstReadGoesOn DEF ReadingInit, ReadingInv

\* A page as it is read.
LEMMA FreshPage ==
    ASSUME NEW since \in Nat \ {0}, NEW from \in Nat \ {0}, since <= from, NEW to \in Int, NEW go, NEW ends, NEW count,
           (IF text.changed THEN since ELSE 1)..(from - 1) \subseteq Had,
           GoesOnOK(text, follow, Had), GoesOnOK(text, go, Had \cup (from..to)),
           ends \in Seq(Int),
           follow.at = "chunk" => \A i \in DOMAIN ends :
               i < Len(ends) => /\ follow.no + i \in DOMAIN text.chunks
                                /\ ends[i] = text.chunks[follow.no + i - 1][2],
           follow.at \in {"line", "range"} =>
               /\ text.of = "file" /\ follow.start \in 1..LineCount(text.breaks) /\ count \in Nat \ {0}
               /\ since = LineFrom(text.breaks, follow.start),
           follow.at = "row" => since = 1 /\ text.of \in {"list", "rows"},
           follow.at = "archive" => from = follow.from,
           follow.at \in {"line", "range", "row"} => Onward(text, go, Had \cup (from..to)),
           follow.at \in {"chunk", "line", "range", "row", "archive"},
           TextOK(text), UNCHANGED <<text, seen, follow>>,
           page' = [since |-> since, from |-> from, to |-> to, go |-> go, first |-> follow,
                    ends |-> ends, count |-> count, archive |-> End]
    PROVE  ReadingInv'
<1>1. page' # NoPage
  BY DEF NoPage
<1>. DEFINE p == [since |-> since, from |-> from, to |-> to, go |-> go, first |-> follow,
                  ends |-> ends, count |-> count, archive |-> End]
<1>2. p = [since |-> p.since, from |-> p.from, to |-> p.to, go |-> p.go, first |-> p.first,
           ends |-> p.ends, count |-> p.count, archive |-> p.archive]
  OBVIOUS
<1>3. /\ p.since = since /\ p.from = from /\ p.to = to /\ p.go = go /\ p.first = follow
      /\ p.ends = ends /\ p.count = count /\ p.archive = End
  OBVIOUS
<1>. HIDE DEF p
<1>4. PageOK(text, p, Had)
  BY <1>2, <1>3 DEF PageOK
<1>5. Had' = Had
  BY DEF Had
<1>6. page' = p /\ p.first = follow'
  BY <1>3 DEF p
<1>7. text' = text
  OBVIOUS
<1>8. TextOK(text') /\ PageOK(text', page', Had') /\ page'.first = follow'
  BY <1>4, <1>5, <1>6, <1>7
<1>. QED  BY <1>1, <1>8 DEF ReadingInv

\* A continuation that is refused.
LEMMA RefusedGoesOn ==
    ASSUME TextOK(text), UNCHANGED text, page' = NoPage, follow' = Refusal
    PROVE  ReadingInv'
BY DEF ReadingInv, GoesOnOK, Onward, Refusal

\* A page of chunks begins where the one before ended: no chunk begins later.
LEMMA ReadChunksKeeps ==
    ASSUME ReadingInv, ReadChunks
    PROVE  ReadingInv'
<1>. DEFINE c == text.chunks
            no == follow.no
            from == c[no][1] + follow.skip
<1>1. TextOK(text) /\ GoesOnOK(text, follow, Had) /\ follow.at = "chunk" /\ UNCHANGED <<text, seen>>
  BY DEF ReadingInv, ReadChunks
<1>2. Onward(text, follow, Had)
  BY <1>1, WhereItGoesOn
<1>3. /\ text.of = "knowledge" /\ no \in DOMAIN c /\ follow.skip \in Nat /\ 1..(from - 1) \subseteq Had
      /\ Unbroken(c) /\ ~text.changed
  <2>1. /\ text.of = "knowledge" /\ no \in DOMAIN c /\ follow.skip \in Nat
        /\ 1..(from - 1) \subseteq Had
    <3>1. text.of = "knowledge" /\ no \in DOMAIN c /\ follow.skip \in Nat
      BY <1>1, <1>2 DEF Onward
    <3>2. 1..(c[no][1] + follow.skip - 1) \subseteq Had
      BY <1>1, <1>2 DEF Onward
    <3>3. c[no][1] \in Int
      BY <1>1, <3>1 DEF TextOK, Unbroken
    <3>4. from - 1 = c[no][1] + follow.skip - 1
      BY <3>1, <3>3
    <3>. HIDE DEF from
    <3>. QED  BY <3>1, <3>2, <3>4
  <2>2. Unbroken(c) /\ ~text.changed
    BY <1>1, <2>1 DEF TextOK
  <2>. HIDE DEF from, c, no
  <2>. QED  BY <2>1, <2>2
<1>4. from \in Nat \ {0} /\ no \in 1..Len(c)
  <2>1. c[no][1] \in 1..Size /\ DOMAIN c = 1..Len(c)
    BY <1>3 DEF Unbroken
  <2>. HIDE DEF c, no
  <2>. QED  BY <1>3, <2>1, ReadingAssumption
<1>5. CASE from > c[no][2]
  BY <1>1, <1>5, RefusedGoesOn DEF ReadChunks
<1>6. ASSUME ~(from > c[no][2]), NEW last \in no..Len(c),
             page' = [Page(1, from, c[last][2], Past(last + 1)) EXCEPT
                         !.ends = [i \in 1..(last - no + 1) |-> c[no + i - 1][2]]],
             UNCHANGED follow
      PROVE  ReadingInv'
  <2>. DEFINE ends == [i \in 1..(last - no + 1) |-> c[no + i - 1][2]]
  <2>1. page' = [since |-> 1, from |-> from, to |-> c[last][2], go |-> Past(last + 1), first |-> follow,
                 ends |-> ends, count |-> 0, archive |-> End]
    BY <1>6 DEF Page
  <2>2. last \in Nat \ {0} /\ last <= Len(c) /\ no \in Nat \ {0} /\ no <= last /\ Len(c) \in Nat /\ last \in DOMAIN c
    BY <1>3, <1>4 DEF Unbroken
  <2>3. c[last][2] \in 1..Size
    BY <1>3, <2>2 DEF Unbroken
  <2>4. \A i \in 1..(last - no + 1) : no + i - 1 \in DOMAIN c
    BY <1>3, <2>2 DEF Unbroken
  <2>5. ends \in Seq(Int) /\ Len(ends) = last - no + 1
    <3>1. \A i \in 1..(last - no + 1) : c[no + i - 1][2] \in Int
      <4>1. \A k \in DOMAIN c : c[k][2] \in Int
        BY <1>3 DEF Unbroken
      <4>. HIDE DEF c
      <4>. QED  BY <2>4, <4>1
    <3>2. last - no + 1 \in Nat
      BY <2>2
    <3>. QED  BY <3>1, <3>2
  <2>6. \A i \in DOMAIN ends : i < Len(ends) => no + i \in DOMAIN c /\ ends[i] = c[no + i - 1][2]
    <3>1. ASSUME NEW i \in 1..(last - no + 1), i < last - no + 1
          PROVE  no + i \in 1..Len(c)
      BY <2>2, <3>1
    <3>2. DOMAIN c = 1..Len(c)
      BY <1>3 DEF Unbroken
    <3>. QED  BY <2>5, <3>1, <3>2
  <2>7. Onward(text, Past(last + 1), Had \cup (from..c[last][2]))
    <3>1. CASE last = Len(c)
      <4>1. Past(last + 1) = End /\ c[last][2] = Size
        BY <1>3, <2>2, <3>1 DEF Past, Unbroken
      <4>. QED  BY <1>3, <1>4, <4>1, ReadingAssumption DEF Onward, End
    <3>2. CASE last < Len(c)
      <4>1. Past(last + 1) = AtChunk(last + 1, 0) /\ last + 1 \in DOMAIN c
        BY <1>3, <2>2, <3>2 DEF Past, Unbroken
      <4>2. c[last + 1][1] <= c[last][2] + 1 /\ c[last + 1][1] \in 1..Size
        <5>1. last \in 1..Len(c) - 1
          BY <2>2, <3>2
        <5>. QED  BY <1>3, <4>1, <5>1 DEF Unbroken
      <4>3. 1..(c[last + 1][1] + 0 - 1) \subseteq Had \cup (from..c[last][2])
        <5>. DEFINE b == c[last][2]
                    e == c[last + 1][1]
        <5>1. from \in Int /\ b \in Int /\ e \in Int /\ e <= b + 1 /\ 1..(from - 1) \subseteq Had
          BY <1>3, <1>4, <2>3, <4>2
        <5>. HIDE DEF from, b, e
        <5>2. 1..(e + 0 - 1) \subseteq Had \cup (from..b)
          BY <5>1
        <5>. QED  BY <5>2 DEF b, e
      <4>. QED  BY <1>3, <4>1, <4>3 DEF Onward, AtChunk
    <3>. QED  BY <2>2, <3>1, <3>2
  <2>. HIDE DEF ends
  <2>8. GoesOnOK(text, Past(last + 1), Had \cup (from..c[last][2]))
    BY <2>7 DEF GoesOnOK
  <2>9. (IF text.changed THEN 1 ELSE 1)..(from - 1) \subseteq Had /\ 1 <= from /\ c[last][2] \in Int
    BY <1>3, <1>4, <2>3
  <2>10. follow.at \notin {"line", "range", "row", "archive"} /\ 1 \in Nat \ {0}
    BY <1>1
  <2>11. follow.at = "chunk" => \A i \in DOMAIN ends :
             i < Len(ends) => follow.no + i \in DOMAIN text.chunks /\ ends[i] = text.chunks[follow.no + i - 1][2]
    BY <2>6
  <2>. DEFINE to == c[last][2]
              go == Past(last + 1)
  <2>12. /\ to \in Int /\ GoesOnOK(text, go, Had \cup (from..to))
         /\ page' = [since |-> 1, from |-> from, to |-> to, go |-> go, first |-> follow,
                     ends |-> ends, count |-> 0, archive |-> End]
    BY <2>1, <2>8, <2>9
  <2>13. from \in Nat \ {0} /\ 1 <= from /\ (IF text.changed THEN 1 ELSE 1)..(from - 1) \subseteq Had
    BY <1>4, <2>9
  <2>14. ends \in Seq(Int)
    BY <2>5
  <2>. HIDE DEF from, to, go, no, c
  <2>. QED  BY <1>1, <1>6, <2>10, <2>11, <2>12, <2>13, <2>14, FreshPage
<1>7. ASSUME ~(from > c[no][2]), NEW to \in from..c[no][2],
             page' = [Page(1, from, to, AtChunk(no, follow.skip + to - from + 1)) EXCEPT !.ends = <<to>>],
             UNCHANGED follow
      PROVE  ReadingInv'
  <2>. DEFINE go == AtChunk(no, follow.skip + to - from + 1)
  <2>1. page' = [since |-> 1, from |-> from, to |-> to, go |-> go, first |-> follow,
                 ends |-> <<to>>, count |-> 0, archive |-> End]
    BY <1>7 DEF Page
  <2>2. c[no][2] \in 1..Size /\ c[no][1] \in 1..Size
    BY <1>3 DEF Unbroken
  <2>3. to \in Int /\ from <= to
    BY <1>4, <2>2
  <2>4. Onward(text, go, Had \cup (from..to))
    <3>1. go.at = "chunk" /\ go.no = no /\ go.skip = follow.skip + to - from + 1
      BY DEF AtChunk
    <3>2. go.skip \in Nat /\ c[no][1] + go.skip - 1 = to
      <4>1. c[no][1] \in Int /\ follow.skip \in Nat /\ from = c[no][1] + follow.skip
        BY <1>3, <2>2
      <4>. DEFINE a == c[no][1]
                  k == follow.skip
      <4>2. a \in Int /\ k \in Nat /\ from = a + k /\ from \in Int /\ to \in Int /\ from <= to
        BY <1>4, <2>3, <4>1
      <4>3. go.skip = k + to - from + 1
        BY <3>1
      <4>. HIDE DEF from, go, a, k
      <4>4. go.skip \in Nat /\ a + go.skip - 1 = to
        BY <4>2, <4>3
      <4>. QED  BY <4>4 DEF a
    <3>3. 1..to \subseteq Had \cup (from..to)
      BY <1>3, <1>4, <2>3
    <3>. HIDE DEF go
    <3>. QED  BY <1>3, <3>1, <3>2, <3>3 DEF Onward
  <2>5. <<to>> \in Seq(Int) /\ Len(<<to>>) = 1 /\ DOMAIN <<to>> = 1..1
    BY <2>3
  <2>6. GoesOnOK(text, go, Had \cup (from..to))
    BY <2>4 DEF GoesOnOK
  <2>7. (IF text.changed THEN 1 ELSE 1)..(from - 1) \subseteq Had /\ 1 <= from
    BY <1>3, <1>4
  <2>8. \A i \in DOMAIN <<to>> : ~(i < Len(<<to>>))
    BY <2>5
  <2>9. follow.at \notin {"line", "range", "row", "archive"} /\ 1 \in Nat \ {0}
    BY <1>1
  <2>. HIDE DEF from, go
  <2>. QED  BY <1>1, <1>4, <1>7, <2>1, <2>3, <2>5, <2>6, <2>7, <2>8, <2>9, FreshPage
<1>. QED  BY <1>5, <1>6, <1>7 DEF ReadChunks

\* More lines that end where the text does, or past a line break.
LEMMA FilePageKeeps ==
    ASSUME ReadingInv, page = NoPage, text.of = "file", UNCHANGED <<text, seen, follow>>,
           follow.at \in {"line", "range"}, follow.start \in 1..LineCount(text.breaks),
           NEW count \in Nat \ {0}, NEW offset \in Nat,
           LineFrom(text.breaks, follow.start)..(LineFrom(text.breaks, follow.start) + offset - 1) \subseteq Had,
           ~text.changed => 1..(LineFrom(text.breaks, follow.start) - 1) \subseteq Had,
           FilePage(follow.start, count, offset)
    PROVE  ReadingInv'
<1>. DEFINE B == text.breaks
            start == follow.start
            lines == LineCount(B)
            last == IF start + count - 1 < lines THEN start + count - 1 ELSE lines
            since == LineFrom(B, start)
            from == since + offset
            end == LineTo(B, last)
            next == IF last < lines THEN AtLine(last + 1) ELSE End
<1>1. TextOK(text) /\ GoesOnOK(text, follow, Had) /\ B \in SUBSET (1..Size) /\ B \subseteq Had
  BY DEF ReadingInv, TextOK, Had
<1>2. lines \in Nat \ {0} /\ start \in Nat \ {0} /\ start <= lines /\ since \in Nat \ {0}
  BY <1>1, LinesFollow
<1>3. PICK to \in from..end \cup {end} :
          page' = [Page(since, from, to, IF to < end THEN InRange(start, count, offset + to - from + 1) ELSE next)
                      EXCEPT !.count = count]
  BY DEF FilePage
<1>. HIDE DEF B
<1>4. last \in 1..lines /\ (last = lines \/ last \in 1..lines - 1) /\ (last < lines <=> last \in 1..lines - 1)
  <2>. HIDE DEF lines, start
  <2>. QED  BY <1>2
<1>5. end \in Nat /\ from \in Nat \ {0} /\ since <= from /\ to \in Int
  <2>1. end \in Nat
    BY <1>1, <1>4, LinesFollow
  <2>. HIDE DEF end, since
  <2>. QED  BY <1>2, <2>1
<1>6. (IF text.changed THEN since ELSE 1)..(from - 1) \subseteq Had
  <2>1. since..(from - 1) \subseteq Had
    <3>1. since..(since + offset - 1) \subseteq Had
      BY DEF B
    <3>2. since + offset - 1 = from - 1
      <4>. HIDE DEF since
      <4>. QED  BY <1>2
    <3>. QED  BY <3>1, <3>2
  <2>2. ~text.changed => 1..(since - 1) \subseteq Had
    BY DEF B
  <2>. HIDE DEF since, from
  <2>. QED  BY <1>2, <1>5, <2>1, <2>2
<1>7. ASSUME to < end
      PROVE  Onward(text, InRange(start, count, offset + to - from + 1), Had \cup (from..to))
  <2>. DEFINE go == InRange(start, count, offset + to - from + 1)
  <2>1. to \in from..end
    BY <1>3, <1>5, <1>7
  <2>2. go.at = "range" /\ go.start = start /\ go.count = count /\ go.offset = offset + to - from + 1 /\ go.stale = FALSE
        /\ go = [InRange(go.start, go.count, go.offset) EXCEPT !.stale = go.stale]
    BY DEF InRange
  <2>3. go.offset \in Nat /\ since + go.offset - 1 = to
    <3>1. from = since + offset
      OBVIOUS
    <3>2. go.offset = offset + to - from + 1
      BY <2>2
    <3>. HIDE DEF from, since, go, end
    <3>. QED  BY <1>2, <1>5, <2>1, <3>1, <3>2
  <2>4. since..to \subseteq Had \cup (from..to)
    <3>1. since..(from - 1) \subseteq Had
      <4>. HIDE DEF from, since
      <4>. QED  BY <1>2, <1>5, <1>6
    <3>. HIDE DEF from, since
    <3>. QED  BY <1>2, <1>5, <3>1
  <2>5. ~text.changed => 1..(since - 1) \subseteq Had \cup (from..to)
    BY DEF B
  <2>. HIDE DEF go, from
  <2>6. Onward(text, go, Had \cup (from..to))
    BY <1>2, <2>2, <2>3, <2>4, <2>5 DEF Onward, B
  <2>. QED  BY <2>6 DEF go
<1>8. ASSUME ~(to < end)
      PROVE  Onward(text, next, Had \cup (from..to))
  <2>1. to = end
    <3>. HIDE DEF end, from
    <3>. QED  BY <1>3, <1>5, <1>8
  <2>2. ASSUME ~text.changed PROVE 1..end \subseteq Had \cup (from..to)
    <3>1. 1..(from - 1) \subseteq Had
      BY <1>6, <2>2
    <3>. HIDE DEF end, from
    <3>. QED  BY <1>5, <2>1, <3>1
  <2>3. CASE last < lines
    <3>1. next = AtLine(last + 1) /\ last \in 1..lines - 1
      BY <1>4, <2>3
    <3>2. end + 1 \in B /\ LineFrom(B, last + 1) = end + 2
      BY <1>1, <3>1, LinesFollow
    <3>3. ~text.changed => 1..(LineFrom(B, last + 1) - 1) \subseteq Had \cup (from..to)
      <4>1. end + 1 \in Had
        BY <1>1, <3>2
      <4>. HIDE DEF end, from
      <4>. QED  BY <1>5, <2>2, <3>2, <4>1
    <3>4. AtLine(last + 1).at = "line" /\ AtLine(last + 1).start = last + 1
      BY DEF AtLine
    <3>5. last + 1 \in Nat \ {0} /\ ~(last + 1 > lines)
      <4>. HIDE DEF last, lines
      <4>. QED  BY <1>2, <1>4, <2>3
    <3>. HIDE DEF end, from, last, lines
    <3>. QED  BY <3>1, <3>3, <3>4, <3>5 DEF Onward, B, lines
  <2>4. CASE ~(last < lines)
    <3>1. next = End /\ last = lines
      BY <1>4, <2>4
    <3>2. end = Size \/ (end = Size - 1 /\ Size \in B)
      BY <1>1, <3>1, LinesFollow
    <3>3. ~text.changed => 1..Size \subseteq Had \cup (from..to)
      <4>. HIDE DEF end, from
      <4>. QED  BY <1>1, <1>5, <2>2, <3>2, ReadingAssumption
    <3>. HIDE DEF end, from, last, lines, next
    <3>. QED  BY <3>1, <3>3 DEF Onward, End
  <2>. QED  BY <2>3, <2>4
<1>. DEFINE go == IF to < end THEN InRange(start, count, offset + to - from + 1) ELSE next
<1>9. Onward(text, go, Had \cup (from..to))
  BY <1>7, <1>8
<1>10. GoesOnOK(text, go, Had \cup (from..to))
  BY <1>9 DEF GoesOnOK
<1>11. page' = [since |-> since, from |-> from, to |-> to, go |-> go, first |-> follow,
                ends |-> <<>>, count |-> count, archive |-> End]
  BY <1>3 DEF Page
<1>12. <<>> \in Seq(Int) /\ DOMAIN <<>> = {}
  OBVIOUS
<1>13. start \in 1..LineCount(B) /\ since = LineFrom(B, start)
  BY DEF B
<1>. HIDE DEF go, from, since
<1>. QED  BY <1>1, <1>2, <1>5, <1>6, <1>9, <1>10, <1>11, <1>12, <1>13, FreshPage DEF B

\* Lines from a start line, the lines after the last, and a cursor's lines from its offset.
LEMMA FileReadsKeep ==
    ASSUME ReadingInv, ReadLines \/ ReadOnInFile \/ PastLastLine
    PROVE  ReadingInv'
<1>1. TextOK(text) /\ UNCHANGED <<text, seen>> /\ page = NoPage /\ follow.at \in {"line", "range"}
  BY DEF ReadingInv, ReadLines, ReadOnInFile, PastLastLine
<1>2. Onward(text, follow, Had)
  BY <1>1, WhereItGoesOn DEF ReadingInv
<1>3. CASE ReadLines
  <2>1. /\ UNCHANGED follow /\ follow.at = "line" /\ follow.start <= LineCount(text.breaks)
        /\ text.of = "file" /\ follow.start \in Nat \ {0}
        /\ ~text.changed => 1..(LineFrom(text.breaks, follow.start) - 1) \subseteq Had
    BY <1>2, <1>3 DEF ReadLines, Onward
  <2>2. follow.start \in 1..LineCount(text.breaks) /\ LineFrom(text.breaks, follow.start) \in Nat
    <3>1. text.breaks \in SUBSET (1..Size)
      BY <1>1 DEF TextOK
    <3>2. LineCount(text.breaks) \in Nat
      BY <3>1, LinesFollow
    <3>3. follow.start \in 1..LineCount(text.breaks)
      BY <2>1, <3>2
    <3>. QED  BY <3>1, <3>3, LinesFollow
  <2>3. PICK count \in 1..2 : FilePage(follow.start, count, 0)
    BY <1>3 DEF ReadLines
  <2>4. LineFrom(text.breaks, follow.start)..(LineFrom(text.breaks, follow.start) + 0 - 1) \subseteq Had
    BY <2>2
  <2>5. count \in Nat \ {0} /\ 0 \in Nat
    OBVIOUS
  <2>. QED  BY <1>1, <2>1, <2>2, <2>3, <2>4, <2>5, FilePageKeeps
<1>4. CASE ReadOnInFile
  <2>1. CASE CursorHolds
    <3>1. FilePage(follow.start, follow.count, follow.offset) /\ UNCHANGED follow /\ follow.at = "range" /\ ~follow.stale
      BY <1>4, <2>1 DEF ReadOnInFile, CursorHolds
    <3>2. /\ text.of = "file" /\ follow.start \in 1..LineCount(text.breaks)
          /\ follow.count \in Nat \ {0} /\ follow.offset \in Nat
          /\ LineFrom(text.breaks, follow.start)..(LineFrom(text.breaks, follow.start) + follow.offset - 1) \subseteq Had
          /\ ~text.changed => 1..(LineFrom(text.breaks, follow.start) - 1) \subseteq Had
      BY <1>2, <3>1 DEF Onward
    <3>. QED  BY <1>1, <3>1, <3>2, FilePageKeeps
  <2>2. CASE ~CursorHolds
    BY <1>1, <1>4, <2>2, RefusedGoesOn DEF ReadOnInFile
  <2>. QED  BY <2>1, <2>2
<1>5. CASE PastLastLine
  <2>1. follow.at = "line" /\ follow.start > LineCount(text.breaks) /\ follow' = End /\ UNCHANGED page
    BY <1>5 DEF PastLastLine
  <2>2. ~text.changed => 1..Size \subseteq Had
    BY <1>2, <2>1 DEF Onward
  <2>3. Onward(text, End, Had)
    BY <2>2 DEF Onward, End
  <2>4. text' = text /\ Had' = Had /\ page' = NoPage
    BY <1>1, <2>1 DEF Had
  <2>. QED  BY <1>1, <2>1, <2>3, <2>4 DEF ReadingInv, GoesOnOK
<1>. QED  BY <1>3, <1>4, <1>5

\* A page of an archive, and what it goes on with at its end.
LEMMA ReadArchiveKeeps ==
    ASSUME ReadingInv, ReadArchive
    PROVE  ReadingInv'
<1>1. TextOK(text) /\ GoesOnOK(text, follow, Had) /\ UNCHANGED <<text, seen, follow>> /\ follow.at = "archive"
  BY DEF ReadingInv, ReadArchive
<1>2. InTheArchive(text, follow, Had)
  BY <1>1, WhereItGoesOn
<1>3. PICK to \in follow.from..follow.upto :
          page' = Page(follow.from, follow.from, to,
                       IF to = follow.upto THEN follow.then ELSE InArchive(to + 1, follow.upto, follow.then))
  BY DEF ReadArchive
<1>. DEFINE from == follow.from
            upto == follow.upto
            go == IF to = upto THEN follow.then ELSE InArchive(to + 1, upto, follow.then)
<1>4. from \in Nat \ {0} /\ upto \in Int /\ to \in Int /\ from <= to /\ to <= upto
      /\ (~text.changed => 1..(from - 1) \subseteq Had) /\ Onward(text, follow.then, Had \cup (from..upto))
  BY <1>2 DEF InTheArchive
<1>5. GoesOnOK(text, go, Had \cup (from..to))
  <2>1. CASE to = upto
    BY <1>4, <2>1 DEF GoesOnOK
  <2>2. CASE to # upto
    <3>. DEFINE g == InArchive(to + 1, upto, follow.then)
    <3>1. g = InArchive(g.from, g.upto, g.then) /\ g.from = to + 1 /\ g.upto = upto /\ g.then = follow.then
      BY DEF InArchive
    <3>2. ~text.changed => 1..to \subseteq Had \cup (from..to)
      <4>. HIDE DEF from, upto, go, g
      <4>. QED  BY <1>4
    <3>3. Onward(text, follow.then, (Had \cup (from..to)) \cup ((to + 1)..upto))
      <4>1. Had \cup (from..upto) \subseteq (Had \cup (from..to)) \cup ((to + 1)..upto)
        <5>. HIDE DEF from, upto, go, g
        <5>. QED  BY <1>4
      <4>. QED  BY <1>4, <4>1, OnwardGrows
    <3>4. g.from \in Nat \ {0} /\ g.from - 1 = to
      <4>. HIDE DEF g, from
      <4>. QED  BY <1>4, <3>1
    <3>. HIDE DEF g, from, upto
    <3>5. InTheArchive(text, g, Had \cup (from..to))
      BY <1>4, <3>1, <3>2, <3>3, <3>4 DEF InTheArchive
    <3>. QED  BY <2>2, <3>5 DEF GoesOnOK, g
  <2>. QED  BY <2>1, <2>2
<1>6. page' = [since |-> from, from |-> from, to |-> to, go |-> go, first |-> follow,
               ends |-> <<>>, count |-> 0, archive |-> End]
  BY <1>3 DEF Page
<1>7. (IF text.changed THEN from ELSE 1)..(from - 1) \subseteq Had
  <2>. HIDE DEF from
  <2>. QED  BY <1>4
<1>8. <<>> \in Seq(Int) /\ from <= from /\ from = follow.from
  BY <1>4
<1>. HIDE DEF go, from
<1>. QED  BY <1>1, <1>4, <1>5, <1>6, <1>7, <1>8, FreshPage

\* A page of rows, or a listing's cursor that is refused.
LEMMA ReadRowsKeeps ==
    ASSUME ReadingInv, ReadRows
    PROVE  ReadingInv'
<1>1. TextOK(text) /\ GoesOnOK(text, follow, Had) /\ UNCHANGED <<text, seen>> /\ follow.at = "row"
  BY DEF ReadingInv, ReadRows
<1>2. Onward(text, follow, Had)
  BY <1>1, WhereItGoesOn
<1>3. CASE text.of = "list" /\ ~CursorHolds
  BY <1>1, <1>3, RefusedGoesOn DEF ReadRows
<1>4. CASE ~(text.of = "list" /\ ~CursorHolds)
  <2>1. PICK to \in follow.offset + 1..Size :
            page' = Page(1, follow.offset + 1, to, IF to < Size THEN AtRow(to) ELSE End)
    BY <1>4 DEF ReadRows
  <2>2. UNCHANGED follow
    BY <1>4 DEF ReadRows
  <2>3. text.of \in {"list", "rows"} /\ follow.offset \in Nat /\ 1..follow.offset \subseteq Had
    BY <1>1, <1>2, <1>4 DEF Onward, CursorHolds
  <2>. DEFINE from == follow.offset + 1
              go == IF to < Size THEN AtRow(to) ELSE End
  <2>4. from \in Nat \ {0} /\ 1 <= from /\ to \in Nat /\ to <= Size /\ from - 1 = follow.offset
    BY <2>3, ReadingAssumption
  <2>5. 1..to \subseteq Had \cup (from..to)
    BY <2>3, <2>4
  <2>6. Onward(text, go, Had \cup (from..to))
    <3>. HIDE DEF from
    <3>1. CASE to < Size
      <4>1. AtRow(to).at = "row" /\ AtRow(to).offset = to /\ AtRow(to).stale = FALSE
            /\ AtRow(to) = [AtRow(AtRow(to).offset) EXCEPT !.stale = AtRow(to).stale]
        BY DEF AtRow
      <4>2. go = AtRow(to)
        BY <3>1
      <4>. HIDE DEF go
      <4>. QED  BY <2>3, <2>4, <2>5, <4>1, <4>2 DEF Onward
    <3>2. CASE ~(to < Size)
      <4>1. go = End /\ to = Size
        BY <2>4, <3>2, ReadingAssumption
      <4>. QED  BY <2>5, <4>1 DEF Onward, End
    <3>. QED  BY <3>1, <3>2
  <2>7. page' = [since |-> 1, from |-> from, to |-> to, go |-> go, first |-> follow,
                 ends |-> <<>>, count |-> 0, archive |-> End]
    BY <2>1 DEF Page
  <2>8. (IF text.changed THEN 1 ELSE 1)..(from - 1) \subseteq Had /\ 1 \in Nat \ {0}
    BY <2>3, <2>4
  <2>9. <<>> \in Seq(Int) /\ to \in Int
    BY <2>4
  <2>. HIDE DEF go, from
  <2>10. GoesOnOK(text, go, Had \cup (from..to))
    BY <2>6 DEF GoesOnOK
  <2>. QED  BY <1>1, <2>2, <2>3, <2>4, <2>6, <2>7, <2>8, <2>9, <2>10, FreshPage
<1>. QED  BY <1>3, <1>4

-----------------------------------------------------------------------------
\* A result that is cut: shorter, with another continuation.
LEMMA CutKeeps ==
    ASSUME ReadingInv, page # NoPage, UNCHANGED <<text, seen, follow>>,
           NEW to \in Int, NEW go, NEW ends, NEW archive,
           GoesOnOK(text, go, Had \cup (page.from..to)),
           ends \in Seq(Int),
           page.first.at = "chunk" => \A i \in DOMAIN ends :
               i < Len(ends) => /\ page.first.no + i \in DOMAIN text.chunks
                                /\ ends[i] = text.chunks[page.first.no + i - 1][2],
           page.first.at \in {"line", "range", "row"} =>
               \/ archive = End /\ Onward(text, go, Had \cup (page.from..to))
               \/ /\ archive # End /\ archive.at = "archive" /\ archive.upto \in Int
                  /\ Onward(text, archive.then, Had \cup (page.from..archive.upto)),
           page' = [page EXCEPT !.to = to, !.go = go, !.ends = ends, !.archive = archive]
    PROVE  ReadingInv'
<1>1. PageOK(text, page, Had) /\ TextOK(text) /\ page.first = follow
  BY DEF ReadingInv
<1>2. page = [since |-> page.since, from |-> page.from, to |-> page.to, go |-> page.go, first |-> page.first,
              ends |-> page.ends, count |-> page.count, archive |-> page.archive]
  BY <1>1 DEF PageOK
<1>. DEFINE p == [since |-> page.since, from |-> page.from, to |-> to, go |-> go, first |-> page.first,
                  ends |-> ends, count |-> page.count, archive |-> archive]
<1>3. page' = p
  BY <1>2
<1>4. /\ p = [since |-> p.since, from |-> p.from, to |-> p.to, go |-> p.go, first |-> p.first,
              ends |-> p.ends, count |-> p.count, archive |-> p.archive]
      /\ p.since = page.since /\ p.from = page.from /\ p.to = to /\ p.go = go /\ p.first = page.first
      /\ p.ends = ends /\ p.count = page.count /\ p.archive = archive
  OBVIOUS
<1>. HIDE DEF p
<1>5. PageOK(text, p, Had)
  BY <1>1, <1>4 DEF PageOK
<1>6. p # NoPage
  BY <1>1, <1>4 DEF PageOK, NoPage
<1>7. text' = text /\ Had' = Had /\ page'.first = follow'
  BY <1>1, <1>3, <1>4 DEF Had
<1>8. TextOK(text') /\ PageOK(text', page', Had') /\ page' # NoPage
  BY <1>1, <1>3, <1>5, <1>6, <1>7
<1>. QED  BY <1>7, <1>8 DEF ReadingInv

\* What the archive of a result holds, made now or before.
LEMMA ArchiveHolds ==
    ASSUME NEW t, NEW p, NEW had, PageOK(t, p, had), p.first.at \in {"line", "range", "row"}
    PROVE  /\ ArchiveOf(p).at = "archive" /\ ArchiveOf(p) # End /\ ArchiveOf(p).upto \in Int
           /\ Onward(t, ArchiveOf(p).then, had \cup (p.from..ArchiveOf(p).upto))
<1>. DEFINE a == ArchiveOf(p)
<1>1. CASE p.archive = End
  <2>1. a = InArchive(p.from, p.to, p.go)
    BY <1>1 DEF ArchiveOf
  <2>2. a.at = "archive" /\ a.upto = p.to /\ a.then = p.go
    BY <2>1 DEF InArchive
  <2>3. p.to \in Int /\ Onward(t, p.go, had \cup (p.from..p.to))
    BY <1>1 DEF PageOK
  <2>4. a # End
    BY <2>2 DEF End
  <2>. HIDE DEF a
  <2>. QED  BY <2>2, <2>3, <2>4 DEF a
<1>2. CASE p.archive # End
  <2>1. ArchiveOf(p) = p.archive
    BY <1>2 DEF ArchiveOf
  <2>. QED  BY <1>2, <2>1 DEF PageOK
<1>. QED  BY <1>1, <1>2

\* Past what is shown of a result its archive goes on.
LEMMA ArchiveGoesOn ==
    ASSUME NEW t, NEW p, NEW had, PageOK(t, p, had), p.first.at \in {"line", "range", "row"},
           NEW to \in Int, to + 1 \in Nat \ {0}, p.from <= to + 1,
           ~t.changed => 1..to \subseteq had \cup (p.from..to)
    PROVE  GoesOnOK(t, ArchivePast(p, to), had \cup (p.from..to))
<1>. DEFINE a == ArchiveOf(p)
            go == ArchivePast(p, to)
<1>1. a.upto \in Int /\ Onward(t, a.then, had \cup (p.from..a.upto))
  BY ArchiveHolds
<1>2. /\ go = InArchive(go.from, go.upto, go.then)
      /\ go.from = to + 1 /\ go.upto = a.upto /\ go.then = a.then
  BY DEF ArchivePast, InArchive
<1>. HIDE DEF a, go
<1>3. had \cup (p.from..a.upto) \subseteq (had \cup (p.from..to)) \cup (go.from..go.upto)
  <2>1. p.from \in Int
    BY DEF PageOK
  <2>2. had \cup (p.from..a.upto) \subseteq (had \cup (p.from..to)) \cup ((to + 1)..a.upto)
    BY <1>1, <2>1
  <2>. QED  BY <1>2, <2>2
<1>4. Onward(t, go.then, (had \cup (p.from..to)) \cup (go.from..go.upto))
  BY <1>1, <1>2, <1>3, OnwardGrows
<1>5. ~t.changed => 1..(go.from - 1) \subseteq had \cup (p.from..to)
  <2>1. go.from - 1 = to
    BY <1>2
  <2>. QED  BY <2>1
<1>6. InTheArchive(t, go, had \cup (p.from..to))
  BY <1>1, <1>2, <1>4, <1>5 DEF InTheArchive
<1>. QED  BY <1>6 DEF GoesOnOK, go

\* Cut to whole chunks, it goes on at the next one; to none, where it began.
LEMMA CutChunksKeeps ==
    ASSUME ReadingInv, CutChunks
    PROVE  ReadingInv'
<1>. DEFINE c == text.chunks
<1>1. PageOK(text, page, Had) /\ TextOK(text) /\ page # NoPage /\ page.first.at = "chunk" /\ UNCHANGED <<text, seen, follow>>
  BY DEF ReadingInv, CutChunks
<1>2. PICK taken \in 0..Len(page.ends) - 1 :
          page' = IF taken = 0
                  THEN [page EXCEPT !.to = page.from - 1, !.ends = <<>>, !.go = page.first]
                  ELSE [page EXCEPT !.to = page.ends[taken], !.ends = SubSeq(@, 1, taken),
                                    !.go = AtChunk(page.first.no + taken, 0)]
  BY DEF CutChunks
<1>3. /\ page.ends \in Seq(Int) /\ page.from \in Nat \ {0} /\ GoesOnOK(text, page.first, Had)
      /\ \A i \in DOMAIN page.ends :
             i < Len(page.ends) => /\ page.first.no + i \in DOMAIN c
                                   /\ page.ends[i] = c[page.first.no + i - 1][2]
      /\ 1..(page.from - 1) \subseteq Had /\ text.of = "knowledge" /\ ~text.changed /\ Unbroken(c)
  <2>1. Onward(text, page.first, Had)
    BY <1>1, WhereItGoesOn DEF PageOK
  <2>2. text.of = "knowledge"
    BY <1>1, <2>1 DEF Onward
  <2>3. ~text.changed /\ Unbroken(c)
    BY <1>1, <2>2 DEF TextOK
  <2>. QED  BY <1>1, <2>2, <2>3 DEF PageOK
<1>4. page = [since |-> page.since, from |-> page.from, to |-> page.to, go |-> page.go, first |-> page.first,
              ends |-> page.ends, count |-> page.count, archive |-> page.archive]
  BY <1>1 DEF PageOK
<1>5. CASE taken = 0
  <2>1. page' = [page EXCEPT !.to = page.from - 1, !.go = page.first, !.ends = <<>>, !.archive = page.archive]
    BY <1>2, <1>4, <1>5
  <2>2. GoesOnOK(text, page.first, Had \cup (page.from..(page.from - 1)))
    BY <1>3, GoesOnGrows
  <2>3. page.from - 1 \in Int /\ <<>> \in Seq(Int) /\ DOMAIN <<>> = {}
    BY <1>3
  <2>. QED  BY <1>1, <2>1, <2>2, <2>3, CutKeeps
<1>6. CASE taken # 0
  <2>. DEFINE to == page.ends[taken]
              ends == SubSeq(page.ends, 1, taken)
              no == page.first.no + taken
              go == AtChunk(no, 0)
  <2>1. page' = [page EXCEPT !.to = to, !.go = go, !.ends = ends, !.archive = page.archive]
    BY <1>2, <1>4, <1>6
  <2>2. page.first.no \in Int
    <3>1. page.first.no \in DOMAIN c
      BY <1>1, <1>3, WhereItGoesOn DEF Onward
    <3>. QED  BY <1>3, <3>1 DEF Unbroken
  <2>3. taken \in DOMAIN page.ends /\ taken < Len(page.ends) /\ taken \in Nat \ {0} /\ Len(page.ends) \in Nat
    BY <1>3, <1>6
  <2>4. to \in Int /\ no \in DOMAIN c /\ to = c[no - 1][2]
    <3>1. page.first.no + taken \in DOMAIN c /\ page.ends[taken] = c[page.first.no + taken - 1][2]
      BY <1>3, <2>3
    <3>2. page.first.no + taken - 1 = (page.first.no + taken) - 1
      BY <2>2, <2>3
    <3>3. page.ends[taken] \in Int
      <4>1. page.ends \in Seq(Int)
        BY <1>1 DEF PageOK
      <4>. QED  BY <2>3, <4>1
    <3>. QED  BY <3>1, <3>2, <3>3
  <2>5. /\ ends \in Seq(Int) /\ Len(ends) = taken /\ DOMAIN ends = 1..taken
        /\ \A i \in 1..taken : ends[i] = page.ends[i] /\ i \in DOMAIN page.ends
    <3>1. page.ends \in Seq(Int)
      BY <1>1 DEF PageOK
    <3>. QED  BY <2>3, <3>1
  <2>6. \A i \in DOMAIN ends : i < Len(ends) => page.first.no + i \in DOMAIN c /\ ends[i] = c[page.first.no + i - 1][2]
    <3>. HIDE DEF ends, c
    <3>1. \A i \in 1..taken : i < taken => i \in DOMAIN page.ends /\ i < Len(page.ends) /\ ends[i] = page.ends[i]
      BY <2>3, <2>5
    <3>. QED  BY <1>3, <2>5, <3>1
  <2>7. no - 1 \in 1..Len(c) - 1
    <3>1. page.first.no \in DOMAIN c
      BY <1>1, <1>3, WhereItGoesOn DEF Onward
    <3>2. DOMAIN c = 1..Len(c) /\ Len(c) \in Nat
      BY <1>3 DEF Unbroken
    <3>3. no = page.first.no + taken /\ no \in DOMAIN c
      BY <2>4
    <3>. DEFINE first == page.first.no
                n == Len(c)
    <3>4. first \in 1..n /\ no \in 1..n /\ n \in Nat /\ no = first + taken /\ taken \in Nat \ {0}
      BY <2>3, <3>1, <3>2, <3>3
    <3>5. no - 1 \in 1..n - 1
      <4>. HIDE DEF no, first, n
      <4>. QED  BY <3>4
    <3>. QED  BY <3>5
  <2>8. c[no][1] <= to + 1 /\ c[no][1] \in 1..Size
    <3>1. (no - 1) + 1 = no
      BY <1>3, <2>4 DEF Unbroken
    <3>. QED  BY <1>3, <2>4, <2>7, <3>1 DEF Unbroken
  <2>9. 1..(c[no][1] + 0 - 1) \subseteq Had \cup (page.from..to)
    <3>. DEFINE e == c[no][1]
    <3>1. e <= to + 1 /\ e \in Int
      BY <2>8
    <3>2. page.from \in Int /\ 1..(page.from - 1) \subseteq Had /\ to \in Int
      BY <1>3, <2>4
    <3>. HIDE DEF e, to
    <3>3. 1..(e + 0 - 1) \subseteq Had \cup (page.from..to)
      BY <3>1, <3>2
    <3>. QED  BY <3>3 DEF e
  <2>10. Onward(text, go, Had \cup (page.from..to))
    <3>1. go.at = "chunk" /\ go.no = no /\ go.skip = 0
      BY DEF AtChunk
    <3>. HIDE DEF go, to, no
    <3>. QED  BY <1>3, <2>4, <2>9, <3>1 DEF Onward
  <2>11. GoesOnOK(text, go, Had \cup (page.from..to))
    BY <2>10 DEF GoesOnOK
  <2>. HIDE DEF go, to, no, ends
  <2>. QED  BY <1>1, <2>1, <2>4, <2>5, <2>6, <2>11, CutKeeps
<1>. QED  BY <1>5, <1>6

\* Cut to a part, it goes on by itself or in its archive.
LEMMA CutPageKeeps ==
    ASSUME ReadingInv, CutPage
    PROVE  ReadingInv'
<1>1. /\ PageOK(text, page, Had) /\ TextOK(text) /\ page # NoPage /\ UNCHANGED <<text, seen, follow>>
      /\ page.first.at # "chunk" /\ page.to >= page.from
  BY DEF ReadingInv, CutPage
<1>. PICK to \in page.from..page.to - 1 :
          \E go \in Narrowed(page, to) \cup (IF page.first.at = "row" THEN {ArchivePast(page, to)} ELSE {}) :
             page' = [page EXCEPT !.to = to, !.go = go,
                         !.archive = IF page.first.at = "row" THEN ArchiveOf(page) ELSE @]
  BY DEF CutPage
<1>2. PICK go \in Narrowed(page, to) \cup (IF page.first.at = "row" THEN {ArchivePast(page, to)} ELSE {}) :
          page' = [page EXCEPT !.to = to, !.go = go,
                      !.archive = IF page.first.at = "row" THEN ArchiveOf(page) ELSE @]
  OBVIOUS
<1>3. /\ page.from \in Nat \ {0} /\ page.since \in Nat \ {0} /\ page.since <= page.from /\ page.to \in Int
      /\ (IF text.changed THEN page.since ELSE 1)..(page.from - 1) \subseteq Had
      /\ GoesOnOK(text, page.first, Had)
      /\ page.first.at \in {"chunk", "line", "range", "row", "archive"} /\ page.ends \in Seq(Int)
  BY <1>1 DEF PageOK
<1>4. to \in Nat \ {0} /\ page.from <= to /\ to < page.to /\ to \in Int
  BY <1>3
<1>5. page = [since |-> page.since, from |-> page.from, to |-> page.to, go |-> page.go, first |-> page.first,
              ends |-> page.ends, count |-> page.count, archive |-> page.archive]
  BY <1>1 DEF PageOK
<1>6. page.since..to \subseteq Had \cup (page.from..to) /\ (~text.changed => 1..to \subseteq Had \cup (page.from..to))
  BY <1>3, <1>4
<1>7. CASE page.first.at \in {"line", "range"}
  <2>. DEFINE start == page.first.start
              g == InRange(start, page.count, to - page.since + 1)
  <2>1. go = g
    BY <1>2, <1>7 DEF Narrowed
  <2>2. /\ text.of = "file" /\ start \in 1..LineCount(text.breaks) /\ page.count \in Nat \ {0}
        /\ page.since = LineFrom(text.breaks, start)
    BY <1>1, <1>7 DEF PageOK
  <2>3. /\ g.at = "range" /\ g.start = start /\ g.count = page.count /\ g.offset = to - page.since + 1 /\ g.stale = FALSE
        /\ g = [InRange(g.start, g.count, g.offset) EXCEPT !.stale = g.stale]
    BY DEF InRange
  <2>. HIDE DEF g, start
  <2>4. g.offset \in Nat /\ page.since + g.offset - 1 = to
    BY <1>3, <1>4, <2>3
  <2>5. ~text.changed => 1..(page.since - 1) \subseteq Had \cup (page.from..to)
    BY <1>3, <1>4, <1>6
  <2>6. Onward(text, g, Had \cup (page.from..to))
    BY <1>6, <2>2, <2>3, <2>4, <2>5 DEF Onward
  <2>7. page.archive = End \/
          (page.archive # End /\ page.archive.at = "archive" /\ page.archive.upto \in Int
             /\ Onward(text, page.archive.then, Had \cup (page.from..page.archive.upto)))
    BY <1>1, <1>4, <1>7 DEF PageOK
  <2>8. page' = [page EXCEPT !.to = to, !.go = go, !.ends = page.ends, !.archive = page.archive]
    BY <1>2, <1>5, <1>7
  <2>9. GoesOnOK(text, go, Had \cup (page.from..to))
    BY <2>1, <2>6 DEF GoesOnOK
  <2>. QED  BY <1>1, <1>3, <1>4, <1>7, <2>1, <2>6, <2>7, <2>8, <2>9, CutKeeps
<1>8. CASE page.first.at = "archive"
  <2>. DEFINE f == page.first
              g == [f EXCEPT !.from = to + 1]
  <2>1. go = g
    BY <1>2, <1>8 DEF Narrowed
  <2>2. InTheArchive(text, f, Had) /\ page.from = f.from
    BY <1>1, <1>3, <1>8, WhereItGoesOn DEF PageOK
  <2>3. f = InArchive(f.from, f.upto, f.then) /\ f.upto \in Int /\ Onward(text, f.then, Had \cup (page.from..f.upto))
    BY <2>2 DEF InTheArchive
  <2>4. g = InArchive(g.from, g.upto, g.then) /\ g.from = to + 1 /\ g.upto = f.upto /\ g.then = f.then
    BY <2>3 DEF InArchive
  <2>. HIDE DEF g, f
  <2>5. Had \cup (page.from..f.upto) \subseteq (Had \cup (page.from..to)) \cup ((to + 1)..f.upto)
    BY <1>3, <1>4, <2>3
  <2>6. Onward(text, f.then, (Had \cup (page.from..to)) \cup ((to + 1)..f.upto))
    BY <2>3, <2>5, OnwardGrows
  <2>7. g.from \in Nat \ {0} /\ g.from - 1 = to
    BY <1>4, <2>4
  <2>8. InTheArchive(text, g, Had \cup (page.from..to))
    BY <1>6, <2>3, <2>4, <2>6, <2>7 DEF InTheArchive
  <2>9. page' = [page EXCEPT !.to = to, !.go = go, !.ends = page.ends, !.archive = page.archive]
    BY <1>2, <1>5, <1>8
  <2>10. GoesOnOK(text, go, Had \cup (page.from..to))
    BY <2>1, <2>8 DEF GoesOnOK
  <2>. QED  BY <1>1, <1>3, <1>4, <1>8, <2>9, <2>10, CutKeeps
<1>9. CASE page.first.at = "row"
  <2>. DEFINE a == ArchiveOf(page)
              past == ArchivePast(page, to)
  <2>1. page.since = 1 /\ text.of \in {"list", "rows"} /\ 1..to \subseteq Had \cup (page.from..to)
    BY <1>1, <1>6, <1>9 DEF PageOK
  <2>2. /\ a.at = "archive" /\ a # End /\ a.upto \in Int
        /\ Onward(text, a.then, Had \cup (page.from..a.upto))
        /\ GoesOnOK(text, past, Had \cup (page.from..to))
    <3>1. to + 1 \in Nat \ {0} /\ page.from <= to + 1 /\ to \in Int
      BY <1>3, <1>4
    <3>2. PageOK(text, page, Had) /\ (~text.changed => 1..to \subseteq Had \cup (page.from..to))
          /\ page.first.at \in {"line", "range", "row"}
      BY <1>1, <1>6, <1>9
    <3>3. GoesOnOK(text, past, Had \cup (page.from..to))
      BY <3>1, <3>2, ArchiveGoesOn
    <3>. QED  BY <3>2, <3>3, ArchiveHolds
  <2>3. go \in {AtRow(to), past}
    BY <1>2, <1>9 DEF Narrowed
  <2>4. GoesOnOK(text, AtRow(to), Had \cup (page.from..to))
    <3>1. AtRow(to).at = "row" /\ AtRow(to).offset = to /\ AtRow(to).stale = FALSE
          /\ AtRow(to) = [AtRow(AtRow(to).offset) EXCEPT !.stale = AtRow(to).stale]
      BY DEF AtRow
    <3>. DEFINE g == AtRow(to)
    <3>. HIDE DEF g
    <3>2. Onward(text, g, Had \cup (page.from..to))
      <4>1. g.at = "row" /\ g.offset = to /\ g.stale = FALSE /\ g = [AtRow(g.offset) EXCEPT !.stale = g.stale]
        BY <3>1 DEF g
      <4>. QED  BY <1>4, <2>1, <4>1 DEF Onward
    <3>. QED  BY <3>2 DEF GoesOnOK, g
  <2>. HIDE DEF a, past
  <2>5. GoesOnOK(text, go, Had \cup (page.from..to))
    BY <2>2, <2>3, <2>4
  <2>6. page' = [page EXCEPT !.to = to, !.go = go, !.ends = page.ends, !.archive = a]
    BY <1>2, <1>5, <1>9 DEF a
  <2>. QED  BY <1>1, <1>3, <1>4, <1>9, <2>2, <2>5, <2>6, CutKeeps
<1>. QED  BY <1>1, <1>3, <1>7, <1>8, <1>9

\* Cut to nothing, all of it is in the archive.
LEMMA CutAwayKeeps ==
    ASSUME ReadingInv, CutAway
    PROVE  ReadingInv'
<1>1. /\ PageOK(text, page, Had) /\ TextOK(text) /\ page # NoPage /\ UNCHANGED <<text, seen, follow>>
      /\ page.first.at # "chunk"
  BY DEF ReadingInv, CutAway
<1>2. page' = [page EXCEPT !.to = page.from - 1,
                   !.go = IF page.first.at = "archive" THEN page.first ELSE ArchivePast(page, page.from - 1),
                   !.archive = IF page.first.at = "archive" THEN @ ELSE ArchiveOf(page)]
  BY DEF CutAway
<1>3. /\ page.from \in Nat \ {0} /\ page.to \in Int /\ page.since <= page.from /\ page.since \in Nat \ {0}
      /\ (IF text.changed THEN page.since ELSE 1)..(page.from - 1) \subseteq Had
      /\ GoesOnOK(text, page.first, Had)
      /\ page.first.at \in {"chunk", "line", "range", "row", "archive"} /\ page.ends \in Seq(Int)
  BY <1>1 DEF PageOK
<1>4. page = [since |-> page.since, from |-> page.from, to |-> page.to, go |-> page.go, first |-> page.first,
              ends |-> page.ends, count |-> page.count, archive |-> page.archive]
  BY <1>1 DEF PageOK
<1>5. page.from - 1 \in Int
  BY <1>3
<1>6. CASE page.first.at = "archive"
  <2>1. page' = [page EXCEPT !.to = page.from - 1, !.go = page.first, !.ends = page.ends, !.archive = page.archive]
    BY <1>2, <1>4, <1>6
  <2>2. GoesOnOK(text, page.first, Had \cup (page.from..(page.from - 1)))
    BY <1>3, GoesOnGrows
  <2>. QED  BY <1>1, <1>3, <1>5, <1>6, <2>1, <2>2, CutKeeps
<1>7. CASE page.first.at \in {"line", "range", "row"}
  <2>. DEFINE a == ArchiveOf(page)
              go == ArchivePast(page, page.from - 1)
  <2>1. /\ a.at = "archive" /\ a # End /\ a.upto \in Int
        /\ Onward(text, a.then, Had \cup (page.from..a.upto))
    BY <1>1, <1>7, ArchiveHolds
  <2>2. GoesOnOK(text, go, Had \cup (page.from..(page.from - 1)))
    <3>. DEFINE to == page.from - 1
    <3>1. ~text.changed => 1..to \subseteq Had \cup (page.from..to)
      BY <1>3
    <3>2. to \in Int /\ to + 1 \in Nat \ {0} /\ page.from <= to + 1
      BY <1>3
    <3>. HIDE DEF to
    <3>3. GoesOnOK(text, ArchivePast(page, to), Had \cup (page.from..to))
      BY <1>1, <1>7, <3>1, <3>2, ArchiveGoesOn
    <3>. QED  BY <3>3 DEF to
  <2>3. page' = [page EXCEPT !.to = page.from - 1, !.go = go, !.ends = page.ends, !.archive = a]
    BY <1>2, <1>4, <1>7
  <2>. HIDE DEF a, go
  <2>. QED  BY <1>1, <1>3, <1>5, <1>7, <2>1, <2>2, <2>3, CutKeeps
<1>. QED  BY <1>1, <1>3, <1>6, <1>7

\* What is delivered was the page, and the next begins where it says.
LEMMA DeliverKeeps ==
    ASSUME ReadingInv, Deliver
    PROVE  ReadingInv'
<1>1. PageOK(text, page, Had) /\ TextOK(text)
  BY DEF ReadingInv, Deliver
<1>2. text' = text /\ follow' = page.go /\ page' = NoPage /\ Had' = Had \cup (page.from..page.to)
  BY DEF Deliver, Had
<1>3. GoesOnOK(text, page.go, Had \cup (page.from..page.to))
  BY <1>1 DEF PageOK
<1>4. GoesOnOK(text', follow', Had')
  BY <1>2, <1>3
<1>. QED  BY <1>1, <1>2, <1>4 DEF ReadingInv

\* A change leaves continuations that are refused, or a line to begin at.
LEMMA ChangeKeeps ==
    ASSUME ReadingInv, TextChanges
    PROVE  ReadingInv'
<1>1. TextOK(text) /\ GoesOnOK(text, follow, Had) /\ page' = NoPage /\ text.of \in {"file", "list"}
      /\ follow.at \in {"line", "range", "row"}
  BY DEF ReadingInv, TextChanges
<1>2. Onward(text, follow, Had)
  BY <1>1, WhereItGoesOn
<1>3. PICK new \in Documents : new.of = text.of /\ text' = [new EXCEPT !.changed = TRUE]
  BY DEF TextChanges
<1>4. text'.of = text.of /\ text'.breaks \in SUBSET (1..Size) /\ text'.changed = TRUE
  BY <1>1, <1>3 DEF Documents
<1>5. TextOK(text')
  BY <1>1, <1>4 DEF TextOK
<1>6. Onward(text', follow', Had')
  <2>1. CASE follow.at = "line"
    BY <1>2, <1>4, <2>1 DEF TextChanges, Onward
  <2>2. CASE follow.at = "range"
    <3>1. follow = [InRange(follow.start, follow.count, follow.offset) EXCEPT !.stale = follow.stale]
      BY <1>2, <2>2 DEF Onward
    <3>2. follow' = [InRange(follow.start, follow.count, follow.offset) EXCEPT !.stale = TRUE]
      BY <2>2, <3>1 DEF TextChanges, InRange
    <3>3. /\ follow'.at = "range" /\ follow'.stale = TRUE
          /\ follow' = [InRange(follow'.start, follow'.count, follow'.offset) EXCEPT !.stale = follow'.stale]
      BY <3>2 DEF InRange
    <3>. QED  BY <3>3 DEF Onward
  <2>3. CASE follow.at = "row"
    <3>1. follow = [AtRow(follow.offset) EXCEPT !.stale = follow.stale] /\ follow.offset \in Nat
      BY <1>2, <2>3 DEF Onward
    <3>2. follow' = [AtRow(follow.offset) EXCEPT !.stale = TRUE]
      BY <2>3, <3>1 DEF TextChanges, AtRow
    <3>3. /\ follow'.at = "row" /\ follow'.stale = TRUE /\ follow'.offset = follow.offset
          /\ follow' = [AtRow(follow'.offset) EXCEPT !.stale = follow'.stale]
      BY <3>2 DEF AtRow
    <3>4. text.of = "list"
      BY <1>1, <1>2, <2>3 DEF Onward
    <3>. QED  BY <1>4, <3>1, <3>3, <3>4 DEF Onward
  <2>. QED  BY <1>1, <2>1, <2>2, <2>3
<1>. QED  BY <1>1, <1>5, <1>6 DEF ReadingInv, GoesOnOK

\* Told to begin again, the model does so from the first of it.
LEMMA StartOverKeeps ==
    ASSUME ReadingInv, StartOver
    PROVE  ReadingInv'
<1>1. page = NoPage
  <2>1. ~InTheArchive(text, follow, Had) /\ follow.at = "refused"
    BY DEF StartOver, InTheArchive, InArchive
  <2>2. page # NoPage => follow.at \in {"chunk", "line", "range", "row", "archive"}
    BY DEF ReadingInv, PageOK
  <2>. QED  BY <2>1, <2>2
<1>2. TextOK(text) /\ text' = text /\ Had' = Had /\ page' = NoPage /\ follow' = FirstRead
  BY <1>1 DEF ReadingInv, StartOver, Had
<1>3. GoesOnOK(text', follow', Had')
  BY <1>2, FirstReadGoesOn
<1>. QED  BY <1>2, <1>3 DEF ReadingInv

\* Every step of a reader, of a response that is fitted and of a file keeps the invariant.
LEMMA ReadingNextInv == ReadingInv /\ [ReadingNext]_readingVars => ReadingInv'
<1>1. ReadingInv /\ Dropped => ReadingInv'
  BY RefusedGoesOn DEF Dropped, ReadingInv
<1>2. ASSUME ReadingInv, UNCHANGED readingVars PROVE ReadingInv'
  <2>1. text' = text /\ page' = page /\ follow' = follow /\ Had' = Had
    BY <1>2 DEF readingVars, Had
  <2>. QED  BY <1>2, <2>1 DEF ReadingInv
<1>. QED  BY <1>1, <1>2, ReadChunksKeeps, FileReadsKeep, ReadArchiveKeeps, ReadRowsKeeps, CutChunksKeeps, CutPageKeeps,
             CutAwayKeeps, DeliverKeeps, ChangeKeeps, StartOverKeeps DEF ReadingNext

\* Whoever follows the continuations of cut results is given everything, of any text of
\* any size, cut anywhere and any number of times.
THEOREM NothingIsPassedOver == ReadingSpec => []NothingIsSkipped
<1>1. ReadingInv => NothingIsSkipped
  <2>. SUFFICES ASSUME ReadingInv PROVE NothingIsSkipped
    OBVIOUS
  <2>1. page # NoPage => (IF text.changed THEN page.since ELSE 1)..(page.from - 1) \subseteq Had
    BY DEF ReadingInv, PageOK
  <2>2. ASSUME follow.at = "end", ~text.changed PROVE 1..Size \subseteq Had
    <3>1. GoesOnOK(text, follow, Had)
      BY DEF ReadingInv, PageOK
    <3>2. Onward(text, follow, Had)
      BY <2>2, <3>1, WhereItGoesOn
    <3>. QED  BY <2>2, <3>2 DEF Onward
  <2>. QED  BY <2>1, <2>2 DEF NothingIsSkipped, Had
<1>. QED  BY <1>1, ReadingInitInv, ReadingNextInv, PTL DEF ReadingSpec

-----------------------------------------------------------------------------
\* Searching: the pages of a search.

\* The first n of a set of places are no more than n.
LEMMA FirstAreFew ==
    ASSUME NEW T, T \subseteq Nat, IsFiniteSet(T), NEW n \in Nat
    PROVE  Cardinality(FirstOf(T, n)) \in 0..n
<1>. DEFINE Before(i) == {j \in T : j < i}
            F == FirstOf(T, n)
            N == 0..n - 1
            rank == [i \in F |-> Cardinality(Before(i))]
<1>1. F = {i \in T : Cardinality(Before(i)) < n}
  BY DEF FirstOf
<1>2. ASSUME NEW i \in T PROVE IsFiniteSet(Before(i)) /\ Cardinality(Before(i)) \in Nat
  <2>1. Before(i) \subseteq T
    OBVIOUS
  <2>. HIDE DEF Before
  <2>. QED  BY <2>1, FS_Subset, FS_CardinalityType
<1>3. ASSUME NEW i \in T, NEW k \in T, i < k
      PROVE  Cardinality(Before(i)) < Cardinality(Before(k))
  <2>1. Before(i) \subseteq Before(k) /\ i \in Before(k) /\ i \notin Before(i)
    <3>1. i \in Nat /\ k \in Nat /\ \A j \in T : j \in Nat
      OBVIOUS
    <3>2. (\A j \in T : j < i => j < k) /\ ~(i < i)
      BY <1>3, <3>1
    <3>. QED  BY <1>3, <3>2
  <2>2. Before(i) \in SUBSET Before(k) /\ Before(i) # Before(k)
    BY <2>1
  <2>. HIDE DEF Before
  <2>3. IsFiniteSet(Before(k)) /\ Cardinality(Before(i)) \in Nat /\ Cardinality(Before(k)) \in Nat
    BY <1>2
  <2>4. /\ Cardinality(Before(i)) <= Cardinality(Before(k))
        /\ Cardinality(Before(i)) = Cardinality(Before(k)) => Before(i) = Before(k)
    BY <2>2, <2>3, FS_Subset
  <2>. QED  BY <2>2, <2>3, <2>4
<1>4. rank \in [F -> N]
  <2>1. ASSUME NEW i \in F PROVE Cardinality(Before(i)) \in N
    <3>1. i \in T /\ Cardinality(Before(i)) < n
      BY <1>1
    <3>2. Cardinality(Before(i)) \in Nat
      BY <1>2, <3>1
    <3>. HIDE DEF Before
    <3>. QED  BY <3>1, <3>2
  <2>. QED  BY <2>1
<1>5. \A i, k \in F : rank[i] = rank[k] => i = k
  <2>1. SUFFICES ASSUME NEW i \in F, NEW k \in F, rank[i] = rank[k], i # k PROVE FALSE
    OBVIOUS
  <2>2. i \in T /\ k \in T /\ i \in Nat /\ k \in Nat
    BY <1>1
  <2>3. Cardinality(Before(i)) = Cardinality(Before(k)) /\ Cardinality(Before(i)) \in Nat
    BY <1>2, <2>1, <2>2
  <2>. HIDE DEF Before, rank, F
  <2>4. i < k \/ k < i
    BY <2>1, <2>2
  <2>. QED  BY <1>3, <2>2, <2>3, <2>4
<1>6. IsFiniteSet(F)
  <2>1. F \in SUBSET T
    BY <1>1
  <2>. HIDE DEF F
  <2>. QED  BY <2>1, FS_Subset
<1>7. IsFiniteSet(N) /\ Cardinality(N) = n
  BY FS_Interval
<1>. HIDE DEF rank, F, N
<1>8. rank \in Injection(F, N)
  BY <1>4, <1>5 DEF Injection, IsInjective
<1>9. Cardinality(F) <= Cardinality(N)
  BY <1>7, <1>8, FS_Injection
<1>10. Cardinality(F) \in Nat
  BY <1>6, FS_CardinalityType
<1>. QED  BY <1>7, <1>9, <1>10 DEF F

\* How much of the list a place to go on at leaves behind it.
Upto(f, next, short) ==
    IF next = Nowhere THEN (IF short THEN Smaller(f.total, Candidates) ELSE f.total) ELSE Smaller(next, f.total)

\* A page under way: it goes on past this call, its vector results are where the list has
\* them and before the place it goes on at, and nothing before that place is left out.
ListingOK(f, l, had) ==
    /\ l = [items |-> l.items, next |-> l.next, offset |-> l.offset, short |-> l.short, lost |-> l.lost]
    /\ l.offset \in Nat /\ l.next \in Nat \cup {Nowhere} /\ l.short \in BOOLEAN
    /\ l.next # Nowhere => l.next > l.offset
    /\ \A item \in l.items :
           Paged(item) => /\ item.hit \in Nat /\ item.hit > l.offset /\ item.hit <= Upto(f, l.next, l.short)
                          /\ item = Item(Len(f.titles) + item.hit, item.hit, "vector")
    /\ 1..Upto(f, l.next, l.short) \subseteq had \cup HitsOf(l.items) \cup l.lost

\* What there is to find, by its fields.
FoundOK(f) ==
    /\ f = [byDocument |-> f.byDocument, total |-> f.total, exact |-> f.exact, titles |-> f.titles]
    /\ f.total \in Nat /\ f.byDocument \in BOOLEAN
    /\ Len(f.titles) \in Nat /\ DOMAIN f.titles = 1..Len(f.titles)

\* What is before the place a search goes on at was given, or is counted as dropped.
SearchInv ==
    /\ FoundOK(found)
    /\ goesOn \in Nat \cup {Nowhere}
    /\ 1..Upto(found, goesOn, FALSE) \subseteq given \cup dropped
    /\ listing # NoListing => ListingOK(found, listing, given \cup dropped)

\* A search begins at the first place, before which nothing is.
LEMMA SearchInitInv == SearchingInit => SearchInv
<1>. SUFFICES ASSUME SearchingInit PROVE SearchInv
  OBVIOUS
<1>. USE SearchingAssumption
<1>1. found \in Founds /\ listing = NoListing /\ goesOn = 0
  BY DEF SearchingInit
<1>2. FoundOK(found)
  <2>1. PICK n \in 0..TitleMax + 1 : found.titles \in [1..n -> Hits]
    BY <1>1 DEF Founds
  <2>2. Len(found.titles) = n /\ DOMAIN found.titles = 1..n /\ n \in Nat
    BY <2>1
  <2>3. found.total \in Nat /\ found.byDocument \in BOOLEAN
        /\ found = [byDocument |-> found.byDocument, total |-> found.total, exact |-> found.exact, titles |-> found.titles]
    BY <1>1 DEF Founds
  <2>. QED  BY <2>2, <2>3 DEF FoundOK
<1>3. 1..Upto(found, 0, FALSE) = {}
  <2>1. Upto(found, 0, FALSE) = 0
    BY <1>2 DEF Upto, Nowhere, Smaller, FoundOK
  <2>2. 1..0 = {}
    OBVIOUS
  <2>. HIDE DEF Upto
  <2>. QED  BY <2>1, <2>2
<1>. QED  BY <1>1, <1>2, <1>3 DEF SearchInv

\* A vector search looks a page's length into the list, or to what it can read of it.
LEMMA PageIsNear ==
    ASSUME FoundOK(found), NEW offset \in Nat, NEW limit \in 1..PageMax, NEW end, NEW shown, NEW room \in Nat \ {0},
           LookedTo(end, offset, limit, shown, room),
           NEW next, next = NextPage(offset, limit, end),
           NEW short \in BOOLEAN, short <=> next = Nowhere /\ Capped(offset, limit)
    PROVE  /\ end \in Nat /\ next \in Nat \cup {Nowhere}
           /\ next # Nowhere => next > offset
           /\ Upto(found, next, short) \in Nat
           /\ Upto(found, next, short) <= end \/ Upto(found, next, short) <= offset
           /\ end > offset => end <= Upto(found, next, short)
<1>. USE SearchingAssumption
<1>. DEFINE r == Readable
            m == Smaller(r, offset + limit)
            t == found.total
<1>1. t \in Nat /\ r \in Nat /\ r <= t /\ r <= Candidates /\ (r = t \/ r = Candidates) /\ Candidates \in Nat
  BY DEF Readable, Smaller, FoundOK
<1>2. limit \in Nat \ {0} /\ offset + limit \in Nat /\ offset + limit > offset
  OBVIOUS
<1>3. m \in Nat /\ m <= r /\ m <= offset + limit /\ (m = r \/ m = offset + limit)
  <2>. HIDE DEF r
  <2>. QED  BY <1>1, <1>2 DEF Smaller
<1>4. VectorPage(offset, limit) = offset + 1..m
  BY DEF VectorPage
<1>. HIDE DEF r, m, t
<1>5. end \in Nat /\ end >= offset /\ (end > offset => end <= m)
  BY <1>3, <1>4 DEF LookedTo
<1>6. CASE end + 1 \in VectorPage(offset, limit)
  <2>1. next = end /\ short = FALSE
    <3>1. end # Nowhere
      BY <1>5 DEF Nowhere
    <3>. QED  BY <1>6, <3>1 DEF NextPage
  <2>2. end > offset
    <3>1. SUFFICES ASSUME end = offset PROVE FALSE
      BY <1>5
    <3>2. Cardinality(Unshown(offset, end, shown)) = room
      BY <1>6 DEF LookedTo
    <3>3. Unshown(offset, end, shown) = {}
      BY <3>1 DEF Unshown
    <3>. QED  BY <3>2, <3>3, FS_EmptySet
  <2>3. end <= t /\ end # Nowhere
    BY <1>1, <1>3, <1>5, <2>2 DEF Nowhere
  <2>4. Upto(found, next, short) = end
    BY <1>1, <1>5, <2>1, <2>3 DEF Upto, Smaller, t
  <2>. QED  BY <1>5, <2>1, <2>2, <2>4
<1>7. CASE end + 1 \notin VectorPage(offset, limit)
  <2>1. m <= end \/ m <= offset
    BY <1>3, <1>4, <1>5, <1>7
  <2>2. CASE More(offset, limit)
    <3>1. next = offset + limit /\ next # Nowhere /\ short = FALSE
      <4>1. next = offset + limit
        BY <1>7, <2>2 DEF NextPage
      <4>2. offset + limit # Nowhere
        BY <1>2 DEF Nowhere
      <4>. QED  BY <4>1, <4>2
    <3>2. r >= offset + limit
      BY <1>1, <1>2, <2>2 DEF More, FoundOK, r
    <3>3. m = offset + limit /\ offset + limit <= t
      BY <1>1, <1>2, <1>3, <3>2
    <3>4. Upto(found, next, short) = m
      <4>. QED  BY <1>1, <1>2, <3>1, <3>3 DEF Upto, Smaller, t
    <3>. QED  BY <1>2, <1>3, <1>5, <2>1, <3>1, <3>3, <3>4
  <2>3. CASE ~More(offset, limit)
    <3>1. next = Nowhere /\ (short <=> Capped(offset, limit))
      BY <1>7, <2>3 DEF NextPage
    <3>2. m = r
      <4>1. r <= offset + limit
        BY <1>1, <1>2, <2>3 DEF More, FoundOK, r
      <4>. QED  BY <1>1, <1>2, <1>3, <4>1
    <3>3. ~Capped(offset, limit) => r = t
      <4>1. SUFFICES ASSUME ~Capped(offset, limit), r # t PROVE FALSE
        OBVIOUS
      <4>2. r = Candidates /\ t > r
        BY <1>1, <4>1
      <4>3. offset + limit >= Candidates
        BY <1>1, <1>2, <1>3, <3>2, <4>2
      <4>. QED  BY <2>3, <4>1, <4>2, <4>3 DEF Capped, t, r
    <3>4. Upto(found, next, short) = m
      <4>1. Upto(found, next, short) = IF short THEN r ELSE t
        BY <3>1 DEF Upto, Readable, r, t
      <4>. QED  BY <3>1, <3>2, <3>3, <4>1
    <3>. QED  BY <1>3, <1>5, <2>1, <3>1, <3>4 DEF Nowhere
  <2>. QED  BY <2>2, <2>3
<1>. QED  BY <1>6, <1>7

\* The titles shown before the vector results leave them room.
LEMMA TitlesLeaveRoom ==
    ASSUME FoundOK(found), NEW offset \in Nat, NEW limit \in 1..PageMax
    PROVE  limit - Cardinality(FirstOf(Titles, TitleSlots(offset, limit, TRUE))) \in Nat \ {0}
<1>. USE SearchingAssumption
<1>1. Titles \subseteq Nat /\ IsFiniteSet(Titles)
  <2>. DEFINE n == Len(found.titles)
  <2>1. IsFiniteSet(1..n) /\ 1..n \subseteq Nat
    <3>1. n \in Int /\ 1 \in Int
      BY DEF FoundOK
    <3>. HIDE DEF n
    <3>2. IsFiniteSet(1..n)
      BY <3>1, FS_Interval
    <3>. QED  BY <3>2
  <2>2. Titles \in SUBSET (1..Len(found.titles))
    BY DEF Titles, FoundOK
  <2>. QED  BY <2>1, <2>2, FS_Subset
<1>. DEFINE slots == TitleSlots(offset, limit, TRUE)
<1>2. slots \in Nat /\ slots <= limit - 1 /\ limit \in Nat
  <2>1. TitleMax \in Nat /\ limit \in Nat \ {0}
    OBVIOUS
  <2>2. slots = IF offset > 0 THEN 0 ELSE Smaller(TitleMax, limit - 1)
    BY DEF TitleSlots
  <2>. HIDE DEF slots
  <2>. QED  BY <2>1, <2>2 DEF Smaller
<1>. HIDE DEF slots
<1>3. Cardinality(FirstOf(Titles, slots)) \in 0..slots
  BY <1>1, <1>2, FirstAreFew
<1>. DEFINE taken == Cardinality(FirstOf(Titles, slots))
<1>4. limit - taken \in Nat \ {0}
  <2>1. taken \in 0..slots
    BY <1>3
  <2>. HIDE DEF taken
  <2>. QED  BY <1>2, <2>1
<1>. QED  BY <1>4 DEF slots

\* A page gives the results it looked at, or they were shown first as titles.
LEMMA SearchKeeps ==
    ASSUME SearchInv, SearchTarget
    PROVE  SearchInv'
<1>1. /\ FoundOK(found) /\ goesOn \in Nat /\ UNCHANGED <<found, given, dropped, goesOn>>
      /\ 1..Upto(found, goesOn, FALSE) \subseteq given \cup dropped
  BY DEF SearchInv, SearchTarget
<1>2. PICK limit \in 1..PageMax :
          LET slotted == FirstOf(Titles, TitleSlots(goesOn, limit, TRUE))
              shown == TitleHits(slotted) \cup Exact(goesOn) IN
          \E end \in goesOn..goesOn + Candidates :
             /\ LookedTo(end, goesOn, limit, shown, limit - Cardinality(slotted))
             /\ listing' = MergePage(goesOn, limit, slotted, end)
  BY DEF SearchTarget
<1>. DEFINE slotted == FirstOf(Titles, TitleSlots(goesOn, limit, TRUE))
            shown == TitleHits(slotted) \cup Exact(goesOn)
<1>3. PICK end \in goesOn..goesOn + Candidates :
          /\ LookedTo(end, goesOn, limit, shown, limit - Cardinality(slotted))
          /\ listing' = MergePage(goesOn, limit, slotted, end)
  BY <1>2
<1>. DEFINE next == NextPage(goesOn, limit, end)
            short == next = Nowhere /\ Capped(goesOn, limit)
            late == IF next = Nowhere THEN TitleItems(goesOn, limit, TRUE) \ slotted ELSE {}
            near == Unshown(goesOn, end, shown)
            added == FirstOf({i \in late : found.titles[i] \notin near}, limit - Cardinality(slotted) - Cardinality(near))
            by(hit) == IF hit \in TitleHits(late) THEN "title" ELSE "vector"
            exacts == {Item(0, hit, "exact") : hit \in Exact(goesOn)}
            titles == {Item(i, found.titles[i], "title") : i \in slotted}
            vectors == {VectorItem(hit, by(hit)) : hit \in near}
            lates == {LateItem(i) : i \in added}
            items == exacts \cup titles \cup vectors \cup lates
            l == listing'
            upto == Upto(found, next, short)
<1>4. l = [items |-> items, next |-> next, offset |-> goesOn, short |-> short, lost |-> {}]
  BY <1>3 DEF MergePage
<1>5. limit - Cardinality(slotted) \in Nat \ {0}
  BY <1>1, TitlesLeaveRoom
<1>6. short \in BOOLEAN
  BY DEF Capped
<1>7. /\ end \in Nat /\ next \in Nat \cup {Nowhere}
      /\ next # Nowhere => next > goesOn
      /\ upto \in Nat
      /\ upto <= end \/ upto <= goesOn
      /\ end > goesOn => end <= upto
  <2>1. short <=> next = Nowhere /\ Capped(goesOn, limit)
    OBVIOUS
  <2>2. next = NextPage(goesOn, limit, end)
    OBVIOUS
  <2>. HIDE DEF next, short, shown, slotted
  <2>. QED  BY <1>1, <1>3, <1>5, <1>6, <2>1, <2>2, PageIsNear
<1>8. /\ \A item \in exacts \cup titles \cup lates : ~Paged(item)
      /\ \A item \in vectors : item.hit \in near /\ (Paged(item) => item = VectorItem(item.hit, "vector"))
  <2>1. \A item \in exacts \cup titles \cup lates : ~Paged(item)
    <3>1. \A place, hit : ~Paged(Item(place, hit, "exact")) /\ ~Paged(Item(place, hit, "title"))
      BY DEF Paged, Item
    <3>. HIDE DEF slotted, added
    <3>2. (\A item \in exacts : ~Paged(item)) /\ (\A item \in titles : ~Paged(item))
      BY <3>1
    <3>3. \A item \in lates : ~Paged(item)
      BY <3>1 DEF LateItem
    <3>. HIDE DEF exacts, titles, lates
    <3>. QED  BY <3>2, <3>3
  <2>2. ASSUME NEW item \in vectors
        PROVE  item.hit \in near /\ (Paged(item) => item = VectorItem(item.hit, "vector"))
    <3>. HIDE DEF near, late
    <3>1. PICK hit \in near : item = VectorItem(hit, by(hit))
      OBVIOUS
    <3>2. item.hit = hit /\ item.by = by(hit)
      BY <3>1 DEF VectorItem, Item
    <3>. QED  BY <3>1, <3>2 DEF Paged
  <2>. QED  BY <2>1, <2>2
<1>9. near = (goesOn + 1..end) \ shown
  BY DEF Unshown
<1>10. /\ TitleHits(slotted) \subseteq HitsOf(titles) /\ Exact(goesOn) \subseteq HitsOf(exacts)
       /\ near \subseteq HitsOf(vectors)
  <2>1. TitleHits(slotted) \subseteq HitsOf(titles)
    <3>1. ASSUME NEW i \in slotted PROVE found.titles[i] \in HitsOf(titles)
      <4>1. Item(i, found.titles[i], "title") \in titles /\ Item(i, found.titles[i], "title").hit = found.titles[i]
        BY DEF Item
      <4>. HIDE DEF titles
      <4>. QED  BY <4>1 DEF HitsOf
    <3>. HIDE DEF slotted, titles
    <3>. QED  BY <3>1 DEF TitleHits
  <2>2. ASSUME NEW hit \in Exact(goesOn) PROVE hit \in HitsOf(exacts)
    <3>1. Item(0, hit, "exact") \in exacts /\ Item(0, hit, "exact").hit = hit
      BY DEF Item
    <3>. HIDE DEF exacts
    <3>. QED  BY <3>1 DEF HitsOf
  <2>3. ASSUME NEW hit \in near PROVE hit \in HitsOf(vectors)
    <3>1. VectorItem(hit, by(hit)) \in vectors /\ VectorItem(hit, by(hit)).hit = hit
      BY DEF VectorItem, Item
    <3>. HIDE DEF vectors, near
    <3>. QED  BY <3>1 DEF HitsOf
  <2>. HIDE DEF exacts, vectors, near
  <2>. QED  BY <2>1, <2>2, <2>3
<1>11. HitsOf(items) = HitsOf(exacts) \cup HitsOf(titles) \cup HitsOf(vectors) \cup HitsOf(lates)
  <2>. HIDE DEF exacts, titles, vectors, lates
  <2>. QED  BY DEF HitsOf
<1>12. goesOn + 1..end \subseteq HitsOf(items)
  <2>. HIDE DEF exacts, titles, vectors, lates, items, near, slotted
  <2>. QED  BY <1>9, <1>10, <1>11
<1>13. 1..upto \subseteq (given \cup dropped) \cup HitsOf(items)
  <2>1. \A h \in 1..upto : h <= goesOn => h \in given \cup dropped
    <3>1. upto <= found.total
      <4>. HIDE DEF next, short
      <4>. QED  BY <1>1, <1>6, <1>7, SearchingAssumption DEF Upto, Smaller, FoundOK
    <3>2. Upto(found, goesOn, FALSE) = Smaller(goesOn, found.total)
      BY <1>1 DEF Upto, Nowhere
    <3>. HIDE DEF upto
    <3>3. \A h \in 1..upto : h <= goesOn => h \in 1..Upto(found, goesOn, FALSE)
      <4>1. found.total \in Nat
        BY <1>1 DEF FoundOK
      <4>2. \A h \in 1..upto : h <= goesOn => h \in 1..Smaller(goesOn, found.total)
        BY <1>1, <1>7, <3>1, <4>1 DEF Smaller
      <4>. QED  BY <3>2, <4>2
    <3>. QED  BY <1>1, <3>3
  <2>2. \A h \in 1..upto : h > goesOn => h \in goesOn + 1..end
    <3>. HIDE DEF upto
    <3>. QED  BY <1>1, <1>7
  <2>. HIDE DEF upto, items
  <2>. QED  BY <1>1, <1>7, <1>12, <2>1, <2>2
<1>14. \A item \in items :
          Paged(item) => /\ item.hit \in Nat /\ item.hit > goesOn /\ item.hit <= upto
                         /\ item = Item(Len(found.titles) + item.hit, item.hit, "vector")
  <2>1. SUFFICES ASSUME NEW item \in items, Paged(item)
                 PROVE  /\ item.hit \in Nat /\ item.hit > goesOn /\ item.hit <= upto
                        /\ item = VectorItem(item.hit, "vector")
    BY DEF VectorItem
  <2>. HIDE DEF exacts, titles, vectors, lates
  <2>2. item \in vectors
    BY <1>8, <2>1
  <2>3. item.hit \in goesOn + 1..end /\ item = VectorItem(item.hit, "vector")
    BY <1>8, <1>9, <2>1, <2>2
  <2>. HIDE DEF upto, items
  <2>. QED  BY <1>1, <1>7, <2>3
<1>. HIDE DEF items, next, short
<1>15. ListingOK(found, l, given \cup dropped)
  <2>1. l.items = items /\ l.next = next /\ l.offset = goesOn /\ l.short = short /\ l.lost = {}
        /\ l = [items |-> l.items, next |-> l.next, offset |-> l.offset, short |-> l.short, lost |-> l.lost]
    BY <1>4
  <2>. HIDE DEF l
  <2>. QED  BY <1>1, <1>6, <1>7, <1>13, <1>14, <2>1 DEF ListingOK
<1>16. found' = found /\ given' = given /\ dropped' = dropped /\ goesOn' = goesOn
  BY <1>1
<1>17. ListingOK(found', listing', (given \cup dropped)')
  BY <1>15, <1>16
<1>18. FoundOK(found') /\ 1..Upto(found', goesOn', FALSE) \subseteq (given \cup dropped)'
  BY <1>1, <1>16
<1>. QED  BY <1>1, <1>16, <1>17, <1>18 DEF SearchInv

\* A vector result cut off is where the page goes on; another one is counted as dropped.
LEMMA CutKeepsListing ==
    ASSUME SearchInv, CutItem
    PROVE  SearchInv'
<1>1. /\ FoundOK(found) /\ UNCHANGED <<found, given, dropped, goesOn>>
      /\ Cardinality(listing.items) > 1
  BY DEF SearchInv, CutItem
<1>2. listing # NoListing
  BY <1>1, FS_EmptySet DEF NoListing
<1>. DEFINE l == listing
            had == given \cup dropped
            u == Upto(found, l.next, l.short)
<1>3. ListingOK(found, l, had)
  BY <1>2 DEF SearchInv
<1>4. PICK item \in CutAt(l.items) :
          listing' = IF Paged(item)
                     THEN [l EXCEPT !.items = @ \ {item}, !.next = GoesOnAt(l, item.hit)]
                     ELSE [l EXCEPT !.items = @ \ {item}, !.lost = @ \cup {item.hit}]
  BY DEF CutItem
<1>5. /\ l.offset \in Nat /\ l.next \in Nat \cup {Nowhere} /\ l.short \in BOOLEAN
      /\ l.next # Nowhere => l.next > l.offset
      /\ \A i \in l.items :
             Paged(i) => /\ i.hit \in Nat /\ i.hit > l.offset /\ i.hit <= u
                         /\ i = Item(Len(found.titles) + i.hit, i.hit, "vector")
      /\ 1..u \subseteq had \cup HitsOf(l.items) \cup l.lost
  BY <1>3 DEF ListingOK
<1>6. l = [items |-> l.items, next |-> l.next, offset |-> l.offset, short |-> l.short, lost |-> l.lost]
  BY <1>3 DEF ListingOK
<1>7. u \in Nat /\ u <= found.total /\ found.total \in Nat
  BY <1>1, <1>5, SearchingAssumption DEF Upto, Smaller, FoundOK
<1>8. item \in l.items
  BY DEF CutAt
<1>. HIDE DEF u
<1>9. CASE Paged(item)
  <2>. DEFINE m == [items |-> l.items \ {item}, next |-> item.hit - 1, offset |-> l.offset, short |-> l.short, lost |-> l.lost]
              v == Upto(found, item.hit - 1, l.short)
  <2>1. listing' = m
    BY <1>4, <1>6, <1>9 DEF GoesOnAt
  <2>2. \A i \in l.items : Paged(i) => i.place <= item.place
    BY <1>8, <1>9 DEF CutAt
  <2>3. PICK other \in l.items : Paged(other) /\ other # item
    <3>. DEFINE paged == {i \in l.items : Paged(i)}
    <3>1. Cardinality(paged) > 1
      BY <1>9 DEF CutAt
    <3>2. paged # {item}
      BY <3>1, FS_Singleton
    <3>3. item \in paged
      BY <1>8, <1>9
    <3>. QED  BY <3>2, <3>3
  <2>4. ASSUME NEW i \in l.items, Paged(i), i # item PROVE i.hit <= item.hit - 1
    <3>1. i.hit \in Nat /\ item.hit \in Nat /\ Len(found.titles) \in Nat
      BY <1>1, <1>5, <1>8, <1>9, <2>4 DEF FoundOK
    <3>2. i = Item(Len(found.titles) + i.hit, i.hit, "vector") /\ item = Item(Len(found.titles) + item.hit, item.hit, "vector")
      BY <1>5, <1>8, <1>9, <2>4
    <3>3. i.place = Len(found.titles) + i.hit /\ item.place = Len(found.titles) + item.hit
      BY <3>2 DEF Item
    <3>4. i.hit # item.hit
      BY <2>4, <3>2
    <3>5. i.place <= item.place
      BY <2>2, <2>4
    <3>. QED  BY <3>1, <3>3, <3>4, <3>5
  <2>5. item.hit \in Nat /\ item.hit > l.offset /\ item.hit <= u
    BY <1>5, <1>8, <1>9
  <2>6. item.hit - 1 \in Nat /\ item.hit - 1 > l.offset
    <3>1. other.hit \in Nat /\ other.hit > l.offset /\ other.hit <= item.hit - 1
      BY <1>5, <2>3, <2>4
    <3>. QED  BY <1>5, <2>5, <3>1
  <2>7. v = item.hit - 1 /\ item.hit - 1 # Nowhere
    BY <1>7, <2>5, <2>6 DEF Upto, Smaller, Nowhere
  <2>8. 1..v \subseteq had \cup HitsOf(l.items \ {item}) \cup l.lost
    <3>1. SUFFICES ASSUME NEW h \in 1..v, h \notin had, h \notin l.lost PROVE h \in HitsOf(l.items \ {item})
      OBVIOUS
    <3>2. h \in 1..u /\ h # item.hit
      <4>. HIDE DEF v
      <4>. QED  BY <1>7, <2>5, <2>6, <2>7
    <3>3. h \in HitsOf(l.items)
      BY <1>5, <3>1, <3>2
    <3>. QED  BY <3>2, <3>3 DEF HitsOf
  <2>9. m.items = l.items \ {item} /\ m.next = item.hit - 1 /\ m.offset = l.offset /\ m.short = l.short /\ m.lost = l.lost
        /\ m = [items |-> m.items, next |-> m.next, offset |-> m.offset, short |-> m.short, lost |-> m.lost]
    OBVIOUS
  <2>10. \A i \in m.items :
             Paged(i) => /\ i.hit \in Nat /\ i.hit > m.offset /\ i.hit <= v
                         /\ i = Item(Len(found.titles) + i.hit, i.hit, "vector")
    <3>. HIDE DEF m, v
    <3>. QED  BY <1>5, <2>4, <2>7, <2>9
  <2>. HIDE DEF m
  <2>11. ListingOK(found, m, had)
    BY <1>5, <2>6, <2>7, <2>8, <2>9, <2>10 DEF ListingOK
  <2>12. found' = found /\ had' = had /\ goesOn' = goesOn /\ listing' = m
    BY <1>1, <2>1
  <2>13. ListingOK(found', listing', had')
    BY <2>11, <2>12
  <2>. QED  BY <2>12, <2>13 DEF SearchInv
<1>10. CASE ~Paged(item)
  <2>. DEFINE m == [items |-> l.items \ {item}, next |-> l.next, offset |-> l.offset, short |-> l.short,
                    lost |-> l.lost \cup {item.hit}]
  <2>1. listing' = m
    BY <1>4, <1>6, <1>10
  <2>2. m.items = l.items \ {item} /\ m.next = l.next /\ m.offset = l.offset /\ m.short = l.short
        /\ m.lost = l.lost \cup {item.hit}
        /\ m = [items |-> m.items, next |-> m.next, offset |-> m.offset, short |-> m.short, lost |-> m.lost]
    OBVIOUS
  <2>3. HitsOf(l.items) \subseteq HitsOf(l.items \ {item}) \cup {item.hit}
    BY DEF HitsOf
  <2>. HIDE DEF m
  <2>4. ListingOK(found, m, had)
    BY <1>5, <2>2, <2>3 DEF ListingOK, u
  <2>5. found' = found /\ had' = had /\ goesOn' = goesOn /\ listing' = m
    BY <1>1, <2>1
  <2>6. ListingOK(found', listing', had')
    BY <2>4, <2>5
  <2>. QED  BY <2>5, <2>6 DEF SearchInv
<1>. QED  BY <1>9, <1>10

\* What is delivered was the page, and a list told to be cut short is that short.
LEMMA DeliverKeepsSearch ==
    ASSUME SearchInv, DeliverListing
    PROVE  SearchInv'
<1>. DEFINE l == listing
            had == given \cup dropped
<1>1. FoundOK(found) /\ ListingOK(found, l, had) /\ listing' = NoListing
  BY DEF SearchInv, DeliverListing
<1>2. /\ had' = had \cup HitsOf(l.items) \cup l.lost /\ goesOn' = l.next
      /\ found' = IF l.short THEN [found EXCEPT !.total = Readable] ELSE found
  BY DEF DeliverListing
<1>3. l.next \in Nat \cup {Nowhere} /\ l.short \in BOOLEAN /\ 1..Upto(found, l.next, l.short) \subseteq had'
  BY <1>1, <1>2 DEF ListingOK
<1>4. FoundOK(found') /\ Upto(found', l.next, FALSE) \in Nat /\ Upto(found, l.next, l.short) \in Nat
      /\ Upto(found', l.next, FALSE) <= Upto(found, l.next, l.short)
  <2>1. CASE l.short
    <3>1. found' = [found EXCEPT !.total = Readable]
      BY <1>2, <2>1
    <3>2. Readable \in Nat /\ Readable = Smaller(found.total, Candidates) /\ Readable <= found.total
      BY <1>1, SearchingAssumption DEF Readable, Smaller, FoundOK
    <3>. DEFINE r == Readable
    <3>. HIDE DEF r
    <3>3. found' = [byDocument |-> found.byDocument, total |-> r, exact |-> found.exact, titles |-> found.titles]
      BY <1>1, <3>1 DEF FoundOK, r
    <3>4. FoundOK(found') /\ found'.total = r
      BY <1>1, <3>2, <3>3 DEF FoundOK, r
    <3>. QED  BY <1>1, <1>3, <2>1, <3>2, <3>4 DEF Upto, Smaller, FoundOK, r
  <2>2. CASE ~l.short
    BY <1>1, <1>2, <1>3, <2>2 DEF Upto, Smaller, FoundOK
  <2>. QED  BY <1>3, <2>1, <2>2
<1>5. 1..Upto(found', goesOn', FALSE) \subseteq had'
  <2>. DEFINE u == Upto(found', l.next, FALSE)
              v == Upto(found, l.next, l.short)
  <2>1. Upto(found', goesOn', FALSE) = u
    BY <1>2
  <2>2. u \in Nat /\ v \in Nat /\ u <= v
    BY <1>4
  <2>3. 1..v \subseteq had'
    BY <1>3
  <2>. HIDE DEF u, v
  <2>4. 1..u \subseteq 1..v
    BY <2>2
  <2>. QED  BY <2>1, <2>3, <2>4
<1>. QED  BY <1>1, <1>2, <1>3, <1>4, <1>5 DEF SearchInv

\* Every step of a search keeps the invariant.
LEMMA SearchNextInv == SearchInv /\ [SearchingNext]_searchingVars => SearchInv'
<1>1. ASSUME SearchInv, VectorFails PROVE SearchInv'
  <2>1. UNCHANGED <<found, listing, dropped, goesOn>> /\ given \subseteq given' /\ listing = NoListing
    BY <1>1 DEF VectorFails
  <2>. QED  BY <1>1, <2>1 DEF SearchInv
<1>2. ASSUME SearchInv, UNCHANGED searchingVars PROVE SearchInv'
  BY <1>2 DEF searchingVars, SearchInv
<1>. QED  BY <1>1, <1>2, SearchKeeps, CutKeepsListing, DeliverKeepsSearch DEF SearchingNext

\* The pages of a search pass over no result and each goes on past its call, for any
\* results, titles, limits and pages, cut anywhere.
THEOREM NoResultIsLeftOut == SearchingSpec => []NoResultIsPassed
<1>1. SearchInv => NoResultIsPassed
  <2>. SUFFICES ASSUME SearchInv PROVE NoResultIsPassed
    OBVIOUS
  <2>1. listing # NoListing /\ listing.next # Nowhere => listing.next > listing.offset
    BY DEF SearchInv, ListingOK
  <2>. QED  BY <2>1 DEF NoResultIsPassed, SearchInv, Upto
<1>. QED  BY <1>1, SearchInitInv, SearchNextInv, PTL DEF SearchingSpec

-----------------------------------------------------------------------------
(* FileSearch. *)

FileText == Seq({"hit", "near", "miss"}) \cup {Unread}
FileItem == Files \cup (Files \X Nat)
Cursor == [asked : FileQueries, of : Seq(FileItem)]

Increasing(s) == \A m, n \in DOMAIN s : m < n => s[m] < s[n]
InOrder(s) == \A m, n \in DOMAIN s : m < n => LineBefore(s[m], s[n])

\* The items a cursor counts: what it is known by, or the files of the lines it is
\* known by.
ListsFor(id, items) ==
    IF id.asked.tool = "source_search" /\ id.asked.mode # "matches"
    THEN /\ id.of \in Seq(Files \X Nat) /\ items \in Seq(Files) /\ Increasing(items)
         /\ \A n \in DOMAIN items : \E m \in DOMAIN id.of : id.of[m][1] = items[n]
         /\ \A m \in DOMAIN id.of : \E n \in DOMAIN items : id.of[m][1] = items[n]
    ELSE items = id.of

\* Where it goes on, and what was handed until there.
GoesOK ==
    \/ goes = FromTheStart /\ handed = <<>>
    \/ /\ goes \in [at : {"page"}, id : Cursor, offset : Nat, of : Seq(FileItem)]
       /\ goes.id.asked = query /\ ListsFor(goes.id, goes.of)
       /\ goes.offset <= Len(goes.of) /\ handed = SubSeq(goes.of, 1, goes.offset)
    \/ goes \in [at : {"end"}, of : Seq(FileItem)] /\ handed = goes.of

CallType ==
    [step : {"asked", "files", "blocks", "lines"}, asked : FileQueries, go : {goes}, todo : SUBSET Files,
     file : Files \cup {0}, at : Nat, to : Nat, number : Nat, jump : BOOLEAN,
     found : Seq(Files \X Nat), listed : Seq(Files), read : [Files -> FileText]]

FileTyped ==
    /\ files \in [Files -> [place : Places, text : FileText]]
    /\ query \in FileQueries
    /\ call \in CallType \cup {NoCall}
    /\ call # NoCall => goes.at \in {"start", "page"} /\ (goes.at = "start" => call.asked = query)

\* The files of a call, of which one is under way between its opening and the next; and
\* how far each was scanned.
WasRead(c, f) == c.read[f] # Unread
Scanned(c, f) == IF f = c.file THEN c.at - 1 ELSE Len(c.read[f])

PlaceOK(c) ==
    /\ c.step \in {"asked", "files"} => c.file = 0
    /\ c.step \in {"blocks", "lines"} =>
          /\ c.file \in Files /\ WasRead(c, c.file)
          /\ c.at \in 1..(Len(c.read[c.file]) + 1) /\ c.number = c.at - 1
          /\ \A f \in Files : WasRead(c, f) => f <= c.file
          /\ \A g \in c.todo : c.file < g
    /\ c.step = "lines" => c.to <= Len(c.read[c.file]) /\ c.at <= c.to + 1
    /\ \A f \in Files : WasRead(c, f) => \A g \in c.todo : f < g

\* A line that was scanned and matches.
IsMatch(c, f, i) == WasRead(c, f) /\ i \in 1..Scanned(c, f) /\ Matches(c.read[f][i])

LinesOK(c) ==
    /\ \A n \in DOMAIN c.found : IsMatch(c, c.found[n][1], c.found[n][2])
    /\ \A f \in Files : WasRead(c, f) =>
          \A i \in 1..Scanned(c, f) : IsMatch(c, f, i) => \E n \in DOMAIN c.found : c.found[n] = <<f, i>>
    /\ InOrder(c.found)

ListedOK(c) ==
    /\ \A n \in DOMAIN c.listed :
          c.listed[n] # c.file /\ \E m \in DOMAIN c.found : c.found[m][1] = c.listed[n]
    /\ \A m \in DOMAIN c.found :
          c.found[m][1] # c.file => \E n \in DOMAIN c.listed : c.listed[n] = c.found[m][1]
    /\ Increasing(c.listed)

CallOK(c) ==
    c # NoCall =>
        /\ c.step = "asked" =>
              c.found = <<>> /\ c.listed = <<>> /\ c.todo = {} /\ \A f \in Files : ~WasRead(c, f)
        /\ c.step \in {"blocks", "lines"} => c.asked.tool = "source_search"
        /\ c.asked.tool = "source_search" => PlaceOK(c) /\ LinesOK(c) /\ ListedOK(c)

FileInv == FileTyped /\ GoesOK /\ CallOK(call)

LEMMA FileTextsTyped == \A f \in Files : FileTexts[f] \subseteq FileText
BY FileSearchAssumption DEF FileText

LEMMA QueriesTyped ==
    ASSUME NEW asked \in FileQueries
    PROVE  /\ asked.tool \in {"source_search", "file_list"}
           /\ asked.scope \in SUBSET Files
           /\ asked.mode \in {"matches", "files", "text", "paths"}
           /\ asked.tool = "source_search" => asked.mode \in {"matches", "files"}
           /\ asked.tool = "file_list" => asked.mode \in {"text", "paths"}
           /\ asked.blocks \in BOOLEAN
           /\ asked.tool = "file_list" => [asked EXCEPT !.mode = "text", !.scope = Files] \in FileQueries
<1>1. 1 \in Files
  BY FileSearchAssumption DEF Files
<1>2. CASE asked \in [tool : {"source_search"}, mode : {"matches", "files"}, scope : {Files, {1}}, named : {FALSE}, blocks : BOOLEAN]
  BY <1>1, <1>2
<1>3. CASE asked \in [tool : {"source_search"}, mode : {"matches"}, scope : {{1}}, named : {TRUE}, blocks : {TRUE}]
  BY <1>1, <1>3
<1>4. CASE asked \in [tool : {"file_list"}, mode : {"text", "paths"}, scope : {Files, {1}}, named : {FALSE}, blocks : {FALSE}]
  <2>1. [asked EXCEPT !.mode = "text", !.scope = Files]
           \in [tool : {"file_list"}, mode : {"text", "paths"}, scope : {Files, {1}}, named : {FALSE}, blocks : {FALSE}]
    BY <1>4
  <2> QED
    BY <1>1, <1>4, <2>1 DEF FileQueries
<1> QED
  BY <1>2, <1>3, <1>4 DEF FileQueries

LEMMA FileInitInv == FileInit => FileInv
<1> SUFFICES ASSUME FileInit PROVE FileInv
  OBVIOUS
<1>1. files \in [Files -> [place : Places, text : FileText]]
  <2>1. \A f \in Files : files[f] \in [place : Places, text : UNION {FileTexts[i] : i \in Files}] /\ files[f].text \in FileTexts[f]
    BY DEF FileInit
  <2>2. \A f \in Files : files[f] \in [place : Places, text : FileText]
    BY <2>1, FileTextsTyped
  <2>3. files = [f \in Files |-> files[f]]
    BY DEF FileInit
  <2> QED
    BY <2>2, <2>3
<1>2. FileTyped
  BY <1>1 DEF FileInit, FileTyped, NoCall
<1>3. GoesOK
  BY DEF FileInit, GoesOK
<1>4. CallOK(call)
  BY DEF FileInit, CallOK
<1> QED
  BY <1>2, <1>3, <1>4 DEF FileInv

\* A step that leaves the call and where it goes on as they are.
LEMMA CallStays ==
    ASSUME FileInv, UNCHANGED <<query, call, handed, goes>>, files' \in [Files -> [place : Places, text : FileText]]
    PROVE  FileInv'
<1>1. FileTyped'
  BY DEF FileInv, FileTyped, CallType
<1>2. GoesOK'
  BY DEF FileInv, GoesOK
<1>3. CallOK(call')
  BY DEF FileInv
<1> QED
  BY <1>1, <1>2, <1>3 DEF FileInv

LEMMA ChangeKeepsFound == ASSUME FileInv, NEW f \in Files, ChangeFile(f) PROVE FileInv'
<1>1. PICK place \in Places, content \in FileTexts[f] : files' = [files EXCEPT ![f] = [place |-> place, text |-> content]]
  BY DEF ChangeFile
<1>2. [place |-> place, text |-> content] \in [place : Places, text : FileText]
  BY <1>1, FileTextsTyped
<1>3. files' \in [Files -> [place : Places, text : FileText]]
  BY <1>1, <1>2 DEF FileInv, FileTyped
<1> QED
  BY <1>3, CallStays DEF ChangeFile

\* A step of a call leaves where it goes on as it is.
LEMMA CallStep ==
    ASSUME FileInv, UNCHANGED <<files, query, handed, goes>>,
           call' \in CallType \cup {NoCall},
           call' # NoCall => goes.at \in {"start", "page"} /\ (goes.at = "start" => call'.asked = query),
           CallOK(call')
    PROVE  FileInv'
<1>1. FileTyped'
  BY DEF FileInv, FileTyped, CallType
<1>2. GoesOK'
  BY DEF FileInv, GoesOK
<1> QED
  BY <1>1, <1>2 DEF FileInv

LEMMA BeginKeeps ==
    ASSUME FileInv, NEW asked \in FileQueries, goes.at \in {"start", "page"},
           goes.at = "start" => asked = query,
           call' = Called(asked), UNCHANGED <<files, query, handed, goes>>
    PROVE  FileInv'
<1>1. Called(asked) \in CallType
  <2>1. [f \in Files |-> Unread] \in [Files -> FileText]
    BY DEF FileText
  <2> QED
    BY <2>1 DEF Called, CallType
<1>2. CallOK(call')
  <2>1. PlaceOK(call')
    BY DEF PlaceOK, Called, WasRead
  <2>2. LinesOK(call')
    BY DEF LinesOK, Called, WasRead, InOrder
  <2>3. ListedOK(call')
    BY DEF ListedOK, Called, Increasing
  <2> QED
    BY <2>1, <2>2, <2>3 DEF CallOK, Called, WasRead
<1>3. call'.asked = asked
  BY DEF Called
<1> QED
  BY <1>1, <1>2, <1>3, CallStep

LEMMA FailKeeps == ASSUME FileInv, CallFails PROVE FileInv'
<1>1. CallOK(call')
  BY DEF CallFails, CallOK
<1> QED
  BY <1>1, CallStep DEF CallFails

LEMMA WalkKeeps == ASSUME FileInv, Walk PROVE FileInv'
<1> DEFINE paths == {f \in call.asked.scope : files[f].place = "in"}
<1>1. call \in CallType
  BY DEF Walk, FileInv, FileTyped, NoCall
<1>2. paths \in SUBSET Files
  BY <1>1, QueriesTyped DEF CallType
<1>3. call' = [call EXCEPT !.step = "files", !.todo = paths]
  BY DEF Walk
<1>4. call' \in CallType
  BY <1>1, <1>2, <1>3 DEF CallType, Walk
<1>5. /\ call' # NoCall /\ call # NoCall
      /\ call'.step = "files" /\ call'.asked = call.asked /\ call'.found = <<>> /\ call'.listed = <<>>
      /\ call'.read = call.read /\ call'.file = call.file
      /\ \A f \in Files : ~WasRead(call, f)
  <2>1. call.step = "asked" /\ call # NoCall
    BY DEF Walk, NoCall
  <2>2. call.found = <<>> /\ call.listed = <<>> /\ \A f \in Files : ~WasRead(call, f)
    BY <2>1 DEF FileInv, CallOK
  <2>3. /\ call'.step = "files" /\ call'.asked = call.asked /\ call'.found = call.found
        /\ call'.listed = call.listed /\ call'.read = call.read /\ call'.file = call.file
    BY <1>1, <1>3 DEF CallType
  <2> QED
    BY <2>1, <2>2, <2>3 DEF NoCall
<1>6. CallOK(call')
  <2>1. ASSUME call.asked.tool = "source_search" PROVE PlaceOK(call')
    BY <1>1, <1>5, <2>1 DEF PlaceOK, WasRead, FileInv, CallOK, Walk
  <2>2. LinesOK(call')
    BY <1>5 DEF LinesOK, WasRead, InOrder
  <2>3. ListedOK(call')
    BY <1>5 DEF ListedOK, Increasing
  <2> QED
    BY <1>5, <2>1, <2>2, <2>3 DEF CallOK
<1> QED
  BY <1>1, <1>4, <1>5, <1>6, CallStep DEF Walk, FileInv, FileTyped

\* What was found stays so when nothing of it, of the files read or of the place changes.
LEMMA FoundStays ==
    ASSUME NEW c, NEW d, LinesOK(c), d.found = c.found, d.read = c.read,
           \A f \in Files : WasRead(c, f) => Scanned(d, f) = Scanned(c, f),
           \A n \in DOMAIN c.found : c.found[n][1] \in Files
    PROVE  LinesOK(d)
<1>1. \A f \in Files : \A i : IsMatch(d, f, i) <=> IsMatch(c, f, i)
  BY DEF IsMatch, WasRead
<1>2. \A f : WasRead(d, f) <=> WasRead(c, f)
  BY DEF WasRead
<1> QED
  BY <1>1, <1>2 DEF LinesOK

LEMMA FoundInFiles ==
    ASSUME NEW c \in CallType
    PROVE  \A n \in DOMAIN c.found : c.found[n] \in Files \X Nat /\ c.found[n][1] \in Files /\ c.found[n][2] \in Nat
<1>1. c.found \in Seq(Files \X Nat)
  BY DEF CallType
<1>2. \A n \in DOMAIN c.found : c.found[n] \in Files \X Nat
  BY <1>1
<1> QED
  BY <1>2

LEMMA PassOverKeeps == ASSUME FileInv, NEW f \in Files, PassOver(f) PROVE FileInv'
<1>1. call \in CallType /\ call.step = "files" /\ call # NoCall
  BY DEF PassOver, IsNext, FileInv, FileTyped, NoCall
<1>2. call' = [call EXCEPT !.todo = @ \ {f}]
  BY DEF PassOver
<1>3. call' \in CallType
  BY <1>1, <1>2 DEF CallType, PassOver
<1>4. /\ call'.step = "files" /\ call'.asked = call.asked /\ call'.found = call.found
      /\ call'.listed = call.listed /\ call'.read = call.read /\ call'.file = call.file
      /\ call'.at = call.at /\ call'.todo \subseteq call.todo
  BY <1>1, <1>2 DEF CallType
<1>5. CallOK(call')
  <2>1. ASSUME call.asked.tool = "source_search" PROVE PlaceOK(call') /\ LinesOK(call') /\ ListedOK(call')
    <3>1. PlaceOK(call) /\ LinesOK(call) /\ ListedOK(call)
      BY <1>1, <2>1 DEF FileInv, CallOK
    <3>2. PlaceOK(call')
      BY <1>1, <1>4, <3>1 DEF PlaceOK, WasRead
    <3>3. LinesOK(call')
      BY <1>1, <1>4, <3>1, FoundStays, FoundInFiles DEF Scanned
    <3>4. ListedOK(call')
      BY <1>4, <3>1 DEF ListedOK, Increasing
    <3> QED
      BY <3>2, <3>3, <3>4
  <2> QED
    BY <1>4, <2>1 DEF CallOK
<1>6. call' # NoCall
  BY <1>4 DEF NoCall
<1> QED
  BY <1>1, <1>3, <1>4, <1>5, CallStep DEF PassOver, FileInv, FileTyped

LEMMA ListKeeps == ASSUME FileInv, NEW f \in Files, ListFile(f) PROVE FileInv'
<1>1. call \in CallType /\ call # NoCall
  BY DEF ListFile, IsNext, FileInv, FileTyped, NoCall
<1>2. call' = [call EXCEPT !.todo = @ \ {f}, !.listed = Append(@, f)]
  BY DEF ListFile
<1>3. call' \in CallType
  <2>1. Append(call.listed, f) \in Seq(Files)
    BY <1>1 DEF CallType
  <2> QED
    BY <1>1, <1>2, <2>1 DEF CallType, ListFile
<1>4. call'.step = "files" /\ call'.asked = call.asked /\ call'.asked.tool = "file_list"
  BY <1>1, <1>2 DEF CallType, ListFile, IsNext
<1>5. CallOK(call')
  BY <1>4 DEF CallOK
<1> QED
  BY <1>1, <1>3, <1>4, <1>5, CallStep DEF ListFile, FileInv, FileTyped

LEMMA OpenKeeps == ASSUME FileInv, NEW f \in Files, OpenFile(f) PROVE FileInv'
<1>1. call \in CallType /\ call.step = "files" /\ call # NoCall /\ call.asked.tool = "source_search"
  BY DEF OpenFile, IsNext, FileInv, FileTyped, NoCall
<1>2. call' = [call EXCEPT !.step = "blocks", !.todo = @ \ {f}, !.file = f, !.at = 1, !.number = 0,
                            !.read[f] = files[f].text]
  BY DEF OpenFile
<1>3. files[f].text \in FileText /\ files[f].text # Unread
  BY DEF FileInv, FileTyped, OpenFile, CanBeRead
<1>4. call' \in CallType
  <2> DEFINE R == [call.read EXCEPT ![f] = files[f].text]
  <2>1. R \in [Files -> FileText]
    BY <1>1, <1>3 DEF CallType
  <2>2. call' = [call EXCEPT !.step = "blocks", !.todo = @ \ {f}, !.file = f, !.at = 1, !.number = 0, !.read = R]
    BY <1>2
  <2> HIDE DEF R
  <2> QED
    BY <1>1, <2>1, <2>2 DEF CallType
<1>5. /\ call'.step = "blocks" /\ call'.asked = call.asked /\ call'.found = call.found
      /\ call'.listed = call.listed /\ call'.file = f /\ call'.at = 1 /\ call'.number = 0
      /\ call'.todo = call.todo \ {f}
      /\ call'.read = [call.read EXCEPT ![f] = files[f].text]
  BY <1>1, <1>2 DEF CallType
<1>6. call'.read[f] = files[f].text /\ \A g \in Files \ {f} : call'.read[g] = call.read[g]
  BY <1>1, <1>5 DEF CallType
<1>7. PlaceOK(call) /\ LinesOK(call) /\ ListedOK(call)
  BY <1>1 DEF FileInv, CallOK
<1>8. ~WasRead(call, f) /\ \A g \in Files : WasRead(call, g) => g < f
  BY <1>7 DEF PlaceOK, OpenFile, IsNext, Files
<1>9. \A g \in call.todo : g \in Files /\ f <= g
  BY <1>1 DEF OpenFile, IsNext, CallType
<1>10. Len(files[f].text) \in Nat
  BY <1>3 DEF FileText
<1>11. PlaceOK(call')
  <2>1. \A g \in Files : WasRead(call', g) => g = f \/ WasRead(call, g)
    BY <1>6 DEF WasRead
  <2>2. \A g \in call'.todo : f < g
    BY <1>5, <1>9 DEF Files
  <2>3. WasRead(call', f)
    BY <1>3, <1>6 DEF WasRead
  <2>4. call'.at \in 1..(Len(call'.read[f]) + 1) /\ call'.number = call'.at - 1
    BY <1>5, <1>6, <1>10 DEF FileLines
  <2>5. \A g \in Files : WasRead(call', g) => g <= f
    BY <2>1, <1>8 DEF Files
  <2>6. \A g \in Files : WasRead(call', g) => \A h \in call'.todo : g < h
    BY <2>2, <2>5, <1>9, <1>5 DEF Files
  <2> QED
    BY <1>5, <2>2, <2>3, <2>4, <2>5, <2>6 DEF PlaceOK
<1>12. LinesOK(call')
  <2>1. \A n \in DOMAIN call.found : call.found[n][1] \in Files \ {f} /\ WasRead(call, call.found[n][1])
    BY <1>1, <1>7, <1>8, FoundInFiles DEF LinesOK, IsMatch
  <2>2. \A g \in Files \ {f} : Scanned(call', g) = Scanned(call, g) /\ WasRead(call', g) = WasRead(call, g)
    BY <1>1, <1>5, <1>6, <1>7 DEF Scanned, WasRead, PlaceOK, Files
  <2>3. Scanned(call', f) = 0
    BY <1>5 DEF Scanned
  <2>4. \A g \in Files \ {f} : \A i : IsMatch(call', g, i) <=> IsMatch(call, g, i)
    BY <1>6, <2>2 DEF IsMatch, Matches
  <2>5. \A i : ~IsMatch(call', f, i)
    BY <2>3 DEF IsMatch
  <2>6. \A n \in DOMAIN call'.found : IsMatch(call', call'.found[n][1], call'.found[n][2])
    BY <1>5, <1>7, <2>1, <2>4 DEF LinesOK
  <2>7. ASSUME NEW g \in Files, WasRead(call', g), NEW i \in 1..Scanned(call', g), IsMatch(call', g, i)
        PROVE  \E n \in DOMAIN call'.found : call'.found[n] = <<g, i>>
    <3>1. g # f
      BY <2>5, <2>7
    <3>2. WasRead(call, g) /\ IsMatch(call, g, i)
      BY <2>2, <2>4, <2>7, <3>1
    <3>3. i \in 1..Scanned(call, g)
      BY <3>2 DEF IsMatch
    <3>4. PICK n \in DOMAIN call.found : call.found[n] = <<g, i>>
      BY <1>7, <3>2, <3>3 DEF LinesOK
    <3> QED
      BY <1>5, <3>4
  <2>8. InOrder(call'.found)
    BY <1>5, <1>7 DEF LinesOK
  <2> QED
    BY <2>6, <2>7, <2>8 DEF LinesOK
<1>13. ListedOK(call')
  <2>1. \A n \in DOMAIN call.found : call.found[n][1] \in Files \ {f}
    BY <1>1, <1>7, <1>8, FoundInFiles DEF LinesOK, IsMatch
  <2>2. call.file = 0
    BY <1>1, <1>7 DEF PlaceOK
  <2>3. \A n \in DOMAIN call.found : call.found[n][1] # 0
    BY <2>1 DEF Files
  <2> QED
    BY <1>5, <1>7, <2>1, <2>2, <2>3 DEF ListedOK, Increasing
<1>14. CallOK(call')
  BY <1>1, <1>5, <1>11, <1>12, <1>13 DEF CallOK
<1>15. call' # NoCall
  BY <1>5 DEF NoCall
<1> QED
  BY <1>1, <1>4, <1>5, <1>14, CallStep DEF OpenFile, FileInv, FileTyped

LEMMA Scanning ==
    ASSUME FileInv, call.step \in {"blocks", "lines"}
    PROVE  /\ call \in CallType /\ call # NoCall /\ call.asked.tool = "source_search"
           /\ PlaceOK(call) /\ LinesOK(call) /\ ListedOK(call)
           /\ call.file \in Files /\ WasRead(call, call.file)
           /\ FileLines \in Seq({"hit", "near", "miss"}) /\ Len(FileLines) \in Nat
           /\ FileLines = call.read[call.file]
<1>1. call \in CallType /\ call # NoCall
  BY DEF FileInv, FileTyped, NoCall
<1>2. call.asked.tool = "source_search" /\ PlaceOK(call) /\ LinesOK(call) /\ ListedOK(call)
  BY <1>1 DEF FileInv, CallOK
<1>3. call.file \in Files /\ WasRead(call, call.file)
  BY <1>2 DEF PlaceOK
<1>4. FileLines \in FileText /\ FileLines # Unread
  BY <1>1, <1>3 DEF CallType, WasRead, FileLines
<1> QED
  BY <1>1, <1>2, <1>3, <1>4 DEF FileText, FileLines

LEMMA NextBlockKeeps == ASSUME FileInv, NextBlock PROVE FileInv'
<1> DEFINE end == call.at + BlockLines - 1
           to == IF end < Len(FileLines) THEN end ELSE Len(FileLines)
<1>1. call.step = "blocks" /\ call.at <= Len(FileLines)
  BY DEF NextBlock
<1>2. call' = [call EXCEPT !.step = "lines", !.jump = call.asked.blocks, !.to = to]
  BY DEF NextBlock
<1>3. call.at \in Nat \ {0} /\ call.number = call.at - 1 /\ BlockLines \in Nat \ {0}
  BY <1>1, Scanning, FileSearchAssumption DEF PlaceOK
<1>4. to \in Nat /\ to <= Len(FileLines) /\ call.at <= to + 1
  BY <1>1, <1>3, Scanning
<1> HIDE DEF to, end
<1>5. call.asked.blocks \in BOOLEAN
  BY <1>1, Scanning, QueriesTyped DEF CallType
<1>6. call' \in CallType
  BY <1>1, <1>2, <1>4, <1>5, Scanning DEF CallType
<1>7. /\ call'.step = "lines" /\ call'.asked = call.asked /\ call'.found = call.found
      /\ call'.listed = call.listed /\ call'.read = call.read /\ call'.file = call.file
      /\ call'.at = call.at /\ call'.number = call.number /\ call'.todo = call.todo /\ call'.to = to
  BY <1>1, <1>2, Scanning DEF CallType
<1>8. CallOK(call')
  <2>1. PlaceOK(call')
    BY <1>1, <1>4, <1>7, Scanning DEF PlaceOK, WasRead
  <2>2. LinesOK(call')
    <3>1. \A f \in Files : Scanned(call', f) = Scanned(call, f)
      BY <1>7 DEF Scanned
    <3>2. LinesOK(call) /\ \A n \in DOMAIN call.found : call.found[n][1] \in Files
      BY <1>1, Scanning, FoundInFiles
    <3> QED
      BY <1>7, <3>1, <3>2, FoundStays
  <2>3. ListedOK(call')
    BY <1>1, <1>7, Scanning DEF ListedOK
  <2> QED
    BY <1>1, <1>7, <2>1, <2>2, <2>3, Scanning DEF CallOK
<1> QED
  BY <1>1, <1>6, <1>7, <1>8, Scanning, CallStep DEF NextBlock, FileInv, FileTyped

LEMMA BlockEndsKeeps == ASSUME FileInv, BlockEnds PROVE FileInv'
<1>1. call.step = "lines" /\ call' = [call EXCEPT !.step = "blocks"]
  BY DEF BlockEnds
<1>2. call' \in CallType
  BY <1>1, Scanning DEF CallType
<1>3. /\ call'.step = "blocks" /\ call'.asked = call.asked /\ call'.found = call.found
      /\ call'.listed = call.listed /\ call'.read = call.read /\ call'.file = call.file
      /\ call'.at = call.at /\ call'.number = call.number /\ call'.todo = call.todo
  BY <1>1, Scanning DEF CallType
<1>4. CallOK(call')
  <2>1. PlaceOK(call')
    BY <1>1, <1>3, Scanning DEF PlaceOK, WasRead
  <2>2. LinesOK(call')
    <3>1. \A f \in Files : Scanned(call', f) = Scanned(call, f)
      BY <1>3 DEF Scanned
    <3>2. LinesOK(call) /\ \A n \in DOMAIN call.found : call.found[n][1] \in Files
      BY <1>1, Scanning, FoundInFiles
    <3> QED
      BY <1>3, <3>1, <3>2, FoundStays
  <2>3. ListedOK(call')
    BY <1>1, <1>3, Scanning DEF ListedOK
  <2> QED
    BY <1>1, <1>3, <2>1, <2>2, <2>3, Scanning DEF CallOK
<1> QED
  BY <1>1, <1>2, <1>3, <1>4, Scanning, CallStep DEF BlockEnds, FileInv, FileTyped

\* The place in a file moves over lines that do not match.
LEMMA PassLines ==
    ASSUME FileInv, call.step = "lines", call.at <= call.to,
           NEW line \in call.at..(call.to + 1), IsTested(line)
    PROVE  /\ \A i \in call.at..(line - 1) : ~Matches(FileLines[i])
           /\ line \in Nat \ {0} /\ call.at \in Nat \ {0} /\ call.at <= line
           /\ call.number + line - call.at = line - 1
           /\ call.to \in Nat /\ call.to <= Len(FileLines) /\ line <= Len(FileLines) + 1
<1>1. call.at \in Nat \ {0} /\ call.number = call.at - 1 /\ call.to \in Nat /\ call.to <= Len(FileLines)
  BY Scanning DEF PlaceOK, CallType
<1>2. \A i \in call.at..(line - 1) : ~Matches(FileLines[i])
  BY <1>1 DEF IsTested, Matches
<1> QED
  BY <1>1, <1>2, Scanning

\* The lines tested past the last one found have no match.
LEMMA TestMisses ==
    ASSUME FileInv, call.step = "lines", NEW d, NEW line \in Nat,
           call.at <= line, line <= Len(FileLines) + 1,
           \A i \in call.at..(line - 1) : ~Matches(FileLines[i]),
           d.found = call.found, d.read = call.read, d.file = call.file, d.at = line
    PROVE  LinesOK(d)
<1>1. call.at \in Nat \ {0}
  BY Scanning DEF PlaceOK
<1>2. \A f \in Files : WasRead(d, f) <=> WasRead(call, f)
  BY DEF WasRead
<1>3. \A f \in Files : \A i : IsMatch(d, f, i) <=> IsMatch(call, f, i)
  <2>1. ASSUME NEW f \in Files, f # call.file, NEW i PROVE IsMatch(d, f, i) <=> IsMatch(call, f, i)
    BY <2>1 DEF IsMatch, WasRead, Scanned
  <2>2. ASSUME NEW i PROVE IsMatch(d, call.file, i) <=> IsMatch(call, call.file, i)
    <3>1. Scanned(d, call.file) = line - 1 /\ Scanned(call, call.file) = call.at - 1
      BY DEF Scanned
    <3>2. d.read[call.file] = FileLines /\ call.read[call.file] = FileLines
      BY DEF FileLines
    <3>3. i \in 1..(line - 1) /\ Matches(FileLines[i]) <=> i \in 1..(call.at - 1) /\ Matches(FileLines[i])
      BY <1>1
    <3> QED
      BY <3>1, <3>2, <3>3 DEF IsMatch, WasRead
  <2> QED
    BY <2>1, <2>2
<1>4. LinesOK(call) /\ \A n \in DOMAIN call.found : call.found[n][1] \in Files
  BY Scanning, FoundInFiles
<1>5. \A f \in Files : WasRead(call, f) => \A i : IsMatch(call, f, i) => \E n \in DOMAIN call.found : call.found[n] = <<f, i>>
  BY <1>4 DEF LinesOK, IsMatch
<1> QED
  BY <1>2, <1>3, <1>4, <1>5 DEF LinesOK

\* The line tested is the next one found.
LEMMA TestHits ==
    ASSUME FileInv, call.step = "lines", NEW d, NEW line \in Nat \ {0},
           call.at <= line, line <= Len(FileLines), Matches(FileLines[line]),
           \A i \in call.at..(line - 1) : ~Matches(FileLines[i]),
           d.found = Append(call.found, <<call.file, line>>),
           d.read = call.read, d.file = call.file, d.at = line + 1
    PROVE  LinesOK(d)
<1>1. call.at \in Nat \ {0} /\ call.file \in Files
  BY Scanning DEF PlaceOK
<1>2. \A f \in Files : WasRead(d, f) <=> WasRead(call, f)
  BY DEF WasRead
<1>3. \A f \in Files : \A i : IsMatch(d, f, i) <=> IsMatch(call, f, i) \/ (f = call.file /\ i = line)
  <2>1. ASSUME NEW f \in Files, f # call.file, NEW i PROVE IsMatch(d, f, i) <=> IsMatch(call, f, i)
    BY <2>1 DEF IsMatch, WasRead, Scanned
  <2>2. ASSUME NEW i PROVE IsMatch(d, call.file, i) <=> IsMatch(call, call.file, i) \/ i = line
    <3>1. Scanned(d, call.file) = line /\ Scanned(call, call.file) = call.at - 1
      BY DEF Scanned
    <3>2. d.read[call.file] = FileLines /\ call.read[call.file] = FileLines /\ WasRead(call, call.file) /\ WasRead(d, call.file)
      BY <1>1, <1>2, Scanning DEF FileLines
    <3>3. i \in 1..line /\ Matches(FileLines[i]) <=> (i \in 1..(call.at - 1) /\ Matches(FileLines[i])) \/ i = line
      BY <1>1
    <3> QED
      BY <3>1, <3>2, <3>3 DEF IsMatch
  <2> QED
    BY <2>1, <2>2
<1>4. LinesOK(call) /\ \A n \in DOMAIN call.found : call.found[n] \in Files \X Nat /\ call.found[n][1] \in Files /\ call.found[n][2] \in Nat
  BY Scanning, FoundInFiles
<1>5. \A f \in Files : WasRead(call, f) => \A i : IsMatch(call, f, i) => \E n \in DOMAIN call.found : call.found[n] = <<f, i>>
  BY <1>4 DEF LinesOK, IsMatch
<1>6. /\ call.found \in Seq(Files \X Nat) /\ d.found \in Seq(Files \X Nat)
      /\ Len(d.found) = Len(call.found) + 1 /\ Len(call.found) \in Nat
      /\ \A n \in 1..Len(call.found) : d.found[n] = call.found[n]
      /\ d.found[Len(call.found) + 1] = <<call.file, line>>
      /\ DOMAIN d.found = 1..(Len(call.found) + 1) /\ DOMAIN call.found = 1..Len(call.found)
  <2>1. call.found \in Seq(Files \X Nat) /\ <<call.file, line>> \in Files \X Nat
    BY <1>1, Scanning DEF CallType
  <2> QED
    BY <2>1
<1>7. ASSUME NEW n \in DOMAIN d.found PROVE IsMatch(d, d.found[n][1], d.found[n][2])
  <2>1. CASE n \in 1..Len(call.found)
    BY <1>3, <1>4, <1>6, <2>1 DEF LinesOK
  <2>2. CASE n = Len(call.found) + 1
    BY <1>1, <1>3, <1>6, <2>2
  <2> QED
    BY <1>6, <2>1, <2>2
<1>8. ASSUME NEW f \in Files, WasRead(d, f), NEW i, IsMatch(d, f, i) PROVE \E n \in DOMAIN d.found : d.found[n] = <<f, i>>
  <2>1. CASE IsMatch(call, f, i)
    <3>1. PICK n \in DOMAIN call.found : call.found[n] = <<f, i>>
      BY <1>2, <1>5, <1>8, <2>1
    <3>2. n \in 1..Len(call.found) /\ n \in DOMAIN d.found
      BY <1>6
    <3>3. d.found[n] = call.found[n]
      BY <1>6, <3>2
    <3> QED
      BY <3>1, <3>2, <3>3
  <2>2. CASE f = call.file /\ i = line
    <3>1. Len(call.found) + 1 \in DOMAIN d.found /\ d.found[Len(call.found) + 1] = <<f, i>>
      BY <1>6, <2>2
    <3> QED
      BY <3>1
  <2> QED
    BY <1>3, <1>8, <2>1, <2>2
<1>9. ASSUME NEW m \in DOMAIN d.found, NEW n \in DOMAIN d.found, m < n PROVE LineBefore(d.found[m], d.found[n])
  <2>1. CASE n \in 1..Len(call.found)
    <3>1. m \in 1..Len(call.found)
      BY <1>6, <1>9, <2>1
    <3> QED
      BY <1>4, <1>6, <1>9, <2>1, <3>1 DEF LinesOK, InOrder
  <2>2. CASE n = Len(call.found) + 1
    <3>1. m \in 1..Len(call.found)
      BY <1>6, <1>9, <2>2
    <3>2. IsMatch(call, call.found[m][1], call.found[m][2]) /\ d.found[m] = call.found[m]
      BY <1>4, <1>6, <3>1 DEF LinesOK
    <3>3. call.found[m][1] \in Files /\ call.found[m][2] \in Nat /\ call.found[m][1] <= call.file
      BY <1>4, <1>6, <3>1, <3>2, Scanning DEF PlaceOK, IsMatch
    <3>4. call.found[m][1] = call.file => call.found[m][2] < line
      <4>1. call.found[m][2] \in 1..Scanned(call, call.found[m][1])
        BY <3>2 DEF IsMatch
      <4>2. Scanned(call, call.file) = call.at - 1
        BY DEF Scanned
      <4> QED
        BY <1>1, <3>3, <4>1, <4>2, SMTT(30)
    <3>5. call.found[m][1] < call.file \/ call.found[m][1] = call.file
      BY <1>1, <3>3 DEF Files
    <3> QED
      <4>1. d.found[n][1] = call.file /\ d.found[n][2] = line
        BY <1>6, <2>2
      <4> QED
        BY <3>2, <3>4, <3>5, <4>1 DEF LineBefore
  <2> QED
    BY <1>6, <2>1, <2>2
<1> QED
  BY <1>2, <1>7, <1>8, <1>9 DEF LinesOK, InOrder

LEMMA TestLineKeeps == ASSUME FileInv, TestLine PROVE FileInv'
<1>1. call.step = "lines" /\ call.at <= call.to
  BY DEF TestLine
<1>2. PICK line \in call.at..(call.to + 1) :
          /\ IsTested(line)
          /\ LET passed == call.number + line - call.at IN
             call' = IF line > call.to
                     THEN [call EXCEPT !.at = line, !.number = passed]
                     ELSE [call EXCEPT !.at = line + 1, !.number = passed + 1,
                              !.jump = call.asked.blocks /\ ~Matches(FileLines[line]),
                              !.found = IF Matches(FileLines[line]) THEN Append(@, <<call.file, passed + 1>>) ELSE @]
  BY DEF TestLine
<1>3. /\ \A i \in call.at..(line - 1) : ~Matches(FileLines[i])
      /\ line \in Nat \ {0} /\ call.at \in Nat \ {0} /\ call.at <= line
      /\ call.number + line - call.at = line - 1
      /\ call.to \in Nat /\ call.to <= Len(FileLines) /\ line <= Len(FileLines) + 1
  BY <1>1, <1>2, PassLines
<1> DEFINE next == IF line > call.to THEN line ELSE line + 1
           jump == IF line > call.to THEN call.jump ELSE call.asked.blocks /\ ~Matches(FileLines[line])
           nowFound == IF line <= call.to /\ Matches(FileLines[line]) THEN Append(call.found, <<call.file, line>>) ELSE call.found
<1>4. call.asked.blocks \in BOOLEAN /\ call.jump \in BOOLEAN /\ call.found \in Seq(Files \X Nat) /\ call.file \in Files
  BY <1>1, Scanning, QueriesTyped DEF CallType
<1>5. next \in Nat \ {0} /\ jump \in BOOLEAN /\ nowFound \in Seq(Files \X Nat) /\ next <= call.to + 1
  <2>1. <<call.file, line>> \in Files \X Nat
    BY <1>3, <1>4
  <2>2. nowFound \in Seq(Files \X Nat)
    BY <1>4, <2>1
  <2>3. jump \in BOOLEAN
    BY <1>4
  <2> QED
    BY <1>2, <1>3, <2>2, <2>3, SMTT(30)
<1>6. call' = [call EXCEPT !.at = next, !.number = next - 1, !.jump = jump, !.found = nowFound]
  <2>1. call \in CallType
    BY <1>1, Scanning
  <2>2. CASE line > call.to
    <3>1. call' = [call EXCEPT !.at = line, !.number = line - 1]
      BY <1>2, <1>3, <2>2
    <3>2. next = line /\ jump = call.jump /\ nowFound = call.found
      BY <1>3, <2>2
    <3> HIDE DEF next, jump, nowFound
    <3> QED
      BY <2>1, <3>1, <3>2 DEF CallType
  <2>3. CASE ~(line > call.to)
    <3>1. (call.number + line - call.at) + 1 = line /\ line <= call.to /\ next = line + 1 /\ next - 1 = line
      BY <1>3, <2>3
    <3>2. call' = [call EXCEPT !.at = line + 1, !.number = line,
                              !.jump = call.asked.blocks /\ ~Matches(FileLines[line]),
                              !.found = IF Matches(FileLines[line]) THEN Append(@, <<call.file, line>>) ELSE @]
      BY <1>2, <2>3, <3>1
    <3> QED
      BY <2>1, <2>3, <3>1, <3>2
  <2> QED
    BY <2>2, <2>3
<1>7. (line > call.to \/ ~Matches(FileLines[line])) =>
          nowFound = call.found /\ \A i \in call.at..(next - 1) : ~Matches(FileLines[i])
  BY <1>3
<1>8. ~(line > call.to \/ ~Matches(FileLines[line])) =>
          nowFound = Append(call.found, <<call.file, line>>) /\ next = line + 1 /\ line <= Len(FileLines)
  BY <1>1, <1>3, Scanning, SMTT(30)
<1> HIDE DEF next, jump, nowFound
<1>9. call' \in CallType
  <2>1. next - 1 \in Nat
    BY <1>5
  <2> QED
    BY <1>1, <1>5, <1>6, <2>1, Scanning DEF CallType
<1>10. /\ call'.step = "lines" /\ call'.asked = call.asked /\ call'.found = nowFound
       /\ call'.listed = call.listed /\ call'.read = call.read /\ call'.file = call.file
       /\ call'.at = next /\ call'.number = next - 1 /\ call'.todo = call.todo /\ call'.to = call.to
  BY <1>1, <1>6, Scanning DEF CallType
<1>11. PlaceOK(call')
  <2>1. call.at \in 1..(Len(FileLines) + 1) /\ next \in 1..(Len(FileLines) + 1)
    BY <1>1, <1>3, <1>5, Scanning DEF PlaceOK
  <2> QED
    BY <1>1, <1>5, <1>10, <2>1, Scanning DEF PlaceOK, WasRead
<1>12. LinesOK(call')
  <2>1. CASE line > call.to \/ ~Matches(FileLines[line])
    <3>1. call.at <= next /\ next <= Len(FileLines) + 1 /\ next \in Nat
      BY <1>1, <1>3, <1>5, <2>1, Scanning DEF next
    <3> QED
      BY <1>1, <1>7, <1>10, <2>1, <3>1, TestMisses
  <2>2. CASE ~(line > call.to \/ ~Matches(FileLines[line]))
    BY <1>1, <1>3, <1>8, <1>10, <2>2, TestHits
  <2> QED
    BY <2>1, <2>2
<1>13. ListedOK(call')
  <2>1. call.listed = call'.listed /\ call'.file = call.file /\ ListedOK(call)
    BY <1>1, <1>10, Scanning
  <2>2. CASE nowFound = call.found
    BY <1>10, <2>1, <2>2 DEF ListedOK
  <2>3. CASE nowFound = Append(call.found, <<call.file, line>>)
    <3>1. /\ DOMAIN nowFound = 1..(Len(call.found) + 1) /\ DOMAIN call.found = 1..Len(call.found) /\ Len(call.found) \in Nat
          /\ \A n \in DOMAIN call.found : nowFound[n] = call.found[n]
          /\ nowFound[Len(call.found) + 1] = <<call.file, line>>
      BY <1>3, <1>4, <2>3, SMTT(30)
    <3>2. \A m \in DOMAIN nowFound : nowFound[m][1] # call.file => m \in DOMAIN call.found
      BY <3>1
    <3> QED
      BY <1>10, <2>1, <3>1, <3>2 DEF ListedOK
  <2> QED
    BY <1>7, <1>8, <2>2, <2>3
<1>14. CallOK(call')
  BY <1>1, <1>10, <1>11, <1>12, <1>13, Scanning DEF CallOK
<1> QED
  BY <1>1, <1>9, <1>10, <1>14, Scanning, CallStep DEF TestLine, FileInv, FileTyped

LEMMA NextFileKeeps == ASSUME FileInv, NextFile PROVE FileInv'
<1> DEFINE hit == \E n \in DOMAIN call.found : call.found[n][1] = call.file
           nowListed == IF hit THEN Append(call.listed, call.file) ELSE call.listed
<1>1. call.step = "blocks" /\ call.at > Len(FileLines)
  BY DEF NextFile
<1>2. call' = [call EXCEPT !.step = "files", !.file = 0, !.at = 0, !.to = 0, !.number = 0, !.jump = FALSE,
                           !.listed = nowListed]
  BY <1>1, Scanning DEF NextFile, CallType
<1>3. call.listed \in Seq(Files) /\ call.file \in Files /\ call.at = Len(FileLines) + 1
  BY <1>1, Scanning DEF CallType, PlaceOK
<1>4. nowListed \in Seq(Files)
  BY <1>3
<1>5. hit => /\ DOMAIN nowListed = 1..(Len(call.listed) + 1) /\ nowListed[Len(call.listed) + 1] = call.file
             /\ \A n \in 1..Len(call.listed) : nowListed[n] = call.listed[n]
  BY <1>3
<1>6. ~hit => nowListed = call.listed
  OBVIOUS
<1>7. DOMAIN call.listed = 1..Len(call.listed) /\ Len(call.listed) \in Nat
  BY <1>3
<1> HIDE DEF nowListed
<1>8. call' \in CallType
  BY <1>1, <1>2, <1>4, Scanning DEF CallType
<1>9. /\ call'.step = "files" /\ call'.asked = call.asked /\ call'.found = call.found
      /\ call'.listed = nowListed /\ call'.read = call.read /\ call'.file = 0 /\ call'.todo = call.todo
  BY <1>1, <1>2, Scanning DEF CallType
<1>10. PlaceOK(call')
  BY <1>1, <1>9, Scanning DEF PlaceOK, WasRead
<1>11. \A f \in Files : f # 0
  BY DEF Files
<1>12. LinesOK(call')
  <2>1. \A f \in Files : Scanned(call', f) = Scanned(call, f)
    BY <1>1, <1>3, <1>9, <1>11, Scanning DEF Scanned
  <2>2. LinesOK(call) /\ \A n \in DOMAIN call.found : call.found[n][1] \in Files
    BY <1>1, Scanning, FoundInFiles
  <2> QED
    BY <1>9, <2>1, <2>2, FoundStays
<1>13. ListedOK(call')
  <2>1. ListedOK(call) /\ LinesOK(call) /\ PlaceOK(call)
    BY <1>1, Scanning
  <2>2. \A m \in DOMAIN call.found : call.found[m][1] \in Files /\ WasRead(call, call.found[m][1])
    BY <1>1, <2>1, Scanning, FoundInFiles DEF LinesOK, IsMatch
  <2>3. \A m \in DOMAIN call.found : call.found[m][1] <= call.file
    BY <1>1, <2>1, <2>2 DEF PlaceOK
  <2>4. \A n \in DOMAIN call.listed : call.listed[n] \in Files /\ call.listed[n] # call.file /\ call.listed[n] <= call.file
    BY <1>3, <2>1, <2>3 DEF ListedOK
  <2>5. \A n \in DOMAIN call.listed : call.listed[n] < call.file
    BY <1>3, <2>4 DEF Files
  <2>6. \A m, n \in DOMAIN call.listed : m < n => call.listed[m] < call.listed[n]
    BY <2>1 DEF ListedOK, Increasing
  <2>7. ASSUME NEW n \in DOMAIN nowListed
        PROVE  nowListed[n] # 0 /\ \E m \in DOMAIN call.found : call.found[m][1] = nowListed[n]
    <3>1. CASE n \in DOMAIN call.listed
      BY <1>5, <1>6, <1>7, <1>11, <2>1, <2>4, <3>1 DEF ListedOK
    <3>2. CASE n \notin DOMAIN call.listed
      BY <1>3, <1>5, <1>6, <1>7, <1>11, <2>7, <3>2
    <3> QED
      BY <3>1, <3>2
  <2>8. ASSUME NEW m \in DOMAIN call.found PROVE \E n \in DOMAIN nowListed : nowListed[n] = call.found[m][1]
    <3>1. CASE call.found[m][1] = call.file
      <4>1. hit
        BY <3>1
      <4>2. Len(call.listed) + 1 \in DOMAIN nowListed /\ nowListed[Len(call.listed) + 1] = call.found[m][1]
        BY <1>5, <1>7, <3>1, <4>1
      <4> QED
        BY <4>2
    <3>2. CASE call.found[m][1] # call.file
      <4>1. PICK n \in DOMAIN call.listed : call.listed[n] = call.found[m][1]
        BY <2>1, <3>2 DEF ListedOK
      <4>2. n \in DOMAIN nowListed /\ nowListed[n] = call.listed[n]
        BY <1>5, <1>6, <1>7
      <4> QED
        BY <4>1, <4>2
    <3> QED
      BY <3>1, <3>2
  <2>9. ASSUME NEW m \in DOMAIN nowListed, NEW n \in DOMAIN nowListed, m < n PROVE nowListed[m] < nowListed[n]
    <3>1. CASE hit
      BY <1>5, <1>7, <2>5, <2>6, <2>9, <3>1, SMTT(30)
    <3>2. CASE ~hit
      BY <1>6, <2>6, <2>9, <3>2
    <3> QED
      BY <3>1, <3>2
  <2> QED
    BY <1>9, <2>7, <2>8, <2>9 DEF ListedOK, Increasing
<1>14. CallOK(call')
  BY <1>9, <1>10, <1>12, <1>13 DEF CallOK
<1> QED
  BY <1>1, <1>8, <1>9, <1>14, Scanning, CallStep DEF NextFile, FileInv, FileTyped

\* Two listings of the same files, each in order, are one.
LEMMA SameListing ==
    ASSUME NEW s \in Seq(Files), NEW t \in Seq(Files), Increasing(s), Increasing(t),
           \A i \in DOMAIN s : \E j \in DOMAIN t : s[i] = t[j],
           \A j \in DOMAIN t : \E i \in DOMAIN s : s[i] = t[j]
    PROVE  s = t
<1> DEFINE Differ == {i \in Nat : i > 0 /\ ~(i > Len(s) /\ i > Len(t)) /\ ~(i <= Len(s) /\ i <= Len(t) /\ s[i] = t[i])}
           R == OpToRel(<, Nat)
<1>1. /\ DOMAIN s = 1..Len(s) /\ Len(s) \in Nat /\ \A i \in DOMAIN s : s[i] \in Int
      /\ DOMAIN t = 1..Len(t) /\ Len(t) \in Nat /\ \A i \in DOMAIN t : t[i] \in Int
  <2>1. \A f \in Files : f \in Int
    BY DEF Files
  <2>2. (\A i \in DOMAIN s : s[i] \in Files) /\ (\A i \in DOMAIN t : t[i] \in Files)
    OBVIOUS
  <2>3. DOMAIN s = 1..Len(s) /\ Len(s) \in Nat /\ DOMAIN t = 1..Len(t) /\ Len(t) \in Nat
    BY LenProperties
  <2> QED
    BY <2>1, <2>2, <2>3
<1>2. SUFFICES Differ = {}
  <2>1. \A i \in Nat : i > 0 => (i > Len(s) /\ i > Len(t)) \/ (i <= Len(s) /\ i <= Len(t) /\ s[i] = t[i])
    BY <1>2
  <2>2. Len(s) = Len(t)
    <3>1. Len(s) + 1 \in Nat /\ Len(s) + 1 > 0 /\ ~(Len(s) + 1 <= Len(s))
      BY <1>1
    <3>2. Len(t) + 1 \in Nat /\ Len(t) + 1 > 0 /\ ~(Len(t) + 1 <= Len(t))
      BY <1>1
    <3>3. Len(s) + 1 > Len(t)
      BY <2>1, <3>1
    <3>4. Len(t) + 1 > Len(s)
      BY <2>1, <3>2
    <3>5. Len(s) \in Nat /\ Len(t) \in Nat
      BY <1>1
    <3> HIDE DEF Differ
    <3> QED
      BY <3>3, <3>4, <3>5
  <2>3. \A i \in 1..Len(s) : s[i] = t[i]
    BY <1>1, <2>1, <2>2
  <2> QED
    BY <2>2, <2>3, SeqEqual
<1>3. SUFFICES ASSUME Differ # {} PROVE FALSE
  OBVIOUS
<1>4. PICK i \in Differ : \A k \in Differ : ~(<<k, i>> \in R)
  <2>1. IsWellFoundedOn(R, Nat) /\ Differ \subseteq Nat
    BY NatLessThanWellFounded
  <2> HIDE DEF Differ, R
  <2> QED
    BY <1>3, <2>1, WFMin
<1>5. \A k \in Differ : ~(k < i)
  BY <1>4 DEF OpToRel
<1>6. i \in Nat /\ i > 0 /\ ~(i > Len(s) /\ i > Len(t)) /\ ~(i <= Len(s) /\ i <= Len(t) /\ s[i] = t[i])
  OBVIOUS
<1>12. \A k \in Nat : k > 0 /\ k < i => (k <= Len(s) /\ k <= Len(t) /\ s[k] = t[k])
  <2>1. SUFFICES ASSUME NEW k \in Nat, k > 0, k < i PROVE k <= Len(s) /\ k <= Len(t) /\ s[k] = t[k]
    OBVIOUS
  <2>2. k \notin Differ
    BY <1>5, <2>1
  <2>3. (k > Len(s) /\ k > Len(t)) \/ (k <= Len(s) /\ k <= Len(t) /\ s[k] = t[k])
    BY <2>1, <2>2
  <2>4. ~(k > Len(s) /\ k > Len(t))
    BY <1>1, <1>6, <2>1
  <2> QED
    BY <2>3, <2>4
<1> HIDE DEF Differ, R
<1>7. \A m, n \in DOMAIN s : m < n => s[m] < s[n]
  BY DEF Increasing
<1>8. \A m, n \in DOMAIN t : m < n => t[m] < t[n]
  BY DEF Increasing
<1>9. CASE i <= Len(s) /\ (i > Len(t) \/ s[i] < t[i])
  <2>1. PICK j \in DOMAIN t : s[i] = t[j]
    BY <1>1, <1>6, <1>9
  <2>2. i \in DOMAIN s
    BY <1>1, <1>6, <1>9
  <2>3. CASE j < i
    <3>1. s[j] = s[i] /\ j \in DOMAIN s
      BY <1>1, <1>6, <1>12, <2>1, <2>3
    <3> QED
      BY <1>1, <1>7, <2>2, <2>3, <3>1
  <2>4. CASE ~(j < i)
    <3>1. i \in DOMAIN t /\ s[i] < t[i]
      BY <1>1, <1>6, <1>9, <2>4
    <3>2. t[i] <= t[j]
      <4>1. t[i] \in Int /\ j \in Nat /\ (j = i \/ i < j)
        <5>1. t[i] \in Int /\ j \in 1..Len(t) /\ Len(t) \in Nat
          BY <1>1, <3>1
        <5>2. j \in Nat
          BY <5>1
        <5>3. i \in Nat
          BY <1>6
        <5>4. j = i \/ i < j
          BY <2>4, <5>2, <5>3
        <5> QED
          BY <5>1, <5>2, <5>4
      <4>2. i < j => t[i] < t[j]
        BY <1>8, <3>1
      <4>3. t[j] \in Int
        BY <1>1
      <4> QED
        BY <4>1, <4>2, <4>3
    <3> QED
      BY <1>1, <2>1, <2>2, <3>1, <3>2
  <2> QED
    BY <2>3, <2>4
<1>10. CASE i <= Len(t) /\ (i > Len(s) \/ t[i] < s[i])
  <2>1. PICK j \in DOMAIN s : s[j] = t[i]
    BY <1>1, <1>6, <1>10, SMTT(30)
  <2>2. i \in DOMAIN t
    BY <1>1, <1>6, <1>10
  <2>3. CASE j < i
    <3>1. t[j] = t[i] /\ j \in DOMAIN t
      BY <1>1, <1>6, <1>12, <2>1, <2>3, SMTT(30)
    <3> QED
      BY <1>1, <1>8, <2>2, <2>3, <3>1
  <2>4. CASE ~(j < i)
    <3>1. i \in DOMAIN s /\ t[i] < s[i]
      BY <1>1, <1>6, <1>10, <2>4
    <3>2. s[i] <= s[j]
      <4>1. s[i] \in Int /\ j \in Nat /\ (j = i \/ i < j)
        <5>1. s[i] \in Int /\ j \in 1..Len(s) /\ Len(s) \in Nat
          BY <1>1, <3>1
        <5>2. j \in Nat
          BY <5>1
        <5>3. i \in Nat
          BY <1>6
        <5>4. j = i \/ i < j
          BY <2>4, <5>2, <5>3
        <5> QED
          BY <5>1, <5>2, <5>4
      <4>2. i < j => s[i] < s[j]
        BY <1>7, <3>1
      <4>3. s[j] \in Int
        BY <1>1
      <4> QED
        BY <4>1, <4>2, <4>3
    <3> QED
      BY <1>1, <2>1, <2>2, <3>1, <3>2
  <2> QED
    BY <2>3, <2>4
<1>11. i <= Len(s) /\ i <= Len(t) => s[i] \in Int /\ t[i] \in Int
  <2>1. i <= Len(s) /\ i <= Len(t) => i \in 1..Len(s) /\ i \in 1..Len(t)
    BY <1>1, <1>6
  <2> QED
    BY <1>1, <2>1
<1> QED
  BY <1>1, <1>6, <1>9, <1>10, <1>11

\* The listing a cursor counts in is known by its identity.
LEMMA ListingIsKnown ==
    ASSUME NEW id, NEW s, NEW t, ListsFor(id, s), ListsFor(id, t)
    PROVE  s = t
<1>1. CASE id.asked.tool = "source_search" /\ id.asked.mode # "matches"
  <2>1. /\ s \in Seq(Files) /\ Increasing(s)
        /\ \A n \in DOMAIN s : \E m \in DOMAIN id.of : id.of[m][1] = s[n]
        /\ \A m \in DOMAIN id.of : \E n \in DOMAIN s : id.of[m][1] = s[n]
    BY <1>1 DEF ListsFor
  <2>2. /\ t \in Seq(Files) /\ Increasing(t)
        /\ \A n \in DOMAIN t : \E m \in DOMAIN id.of : id.of[m][1] = t[n]
        /\ \A m \in DOMAIN id.of : \E n \in DOMAIN t : id.of[m][1] = t[n]
    BY <1>1 DEF ListsFor
  <2>3. ASSUME NEW i \in DOMAIN s PROVE \E j \in DOMAIN t : s[i] = t[j]
    <3>1. PICK m \in DOMAIN id.of : id.of[m][1] = s[i]
      BY <2>1
    <3>2. PICK j \in DOMAIN t : id.of[m][1] = t[j]
      BY <2>2
    <3> QED
      BY <3>1, <3>2
  <2>4. ASSUME NEW j \in DOMAIN t PROVE \E i \in DOMAIN s : s[i] = t[j]
    <3>1. PICK m \in DOMAIN id.of : id.of[m][1] = t[j]
      BY <2>2
    <3>2. PICK i \in DOMAIN s : id.of[m][1] = s[i]
      BY <2>1
    <3> QED
      BY <3>1, <3>2
  <2> QED
    BY <2>1, <2>2, <2>3, <2>4, SameListing
<1>2. CASE ~(id.asked.tool = "source_search" /\ id.asked.mode # "matches")
  BY <1>2 DEF ListsFor
<1> QED
  BY <1>1, <1>2

\* What a call that read its files answers from is the listing its cursor is known by.
LEMMA CallLists ==
    ASSUME FileInv, AllRead
    PROVE  /\ call \in CallType /\ call # NoCall /\ call.go = goes
           /\ Fingerprint \in Cursor /\ Fingerprint.asked = call.asked
           /\ Items \in Seq(FileItem) /\ ListsFor(Fingerprint, Items)
<1>1. call \in CallType /\ call # NoCall /\ call.go = goes /\ call.step = "files"
  BY DEF AllRead, FileInv, FileTyped, NoCall, CallType
<1>2. call.found \in Seq(Files \X Nat) /\ call.listed \in Seq(Files) /\ call.asked \in FileQueries
  BY <1>1 DEF CallType
<1>3. call.found \in Seq(FileItem) /\ call.listed \in Seq(FileItem)
  <2>1. Files \X Nat \subseteq FileItem /\ Files \subseteq FileItem
    BY DEF FileItem
  <2> QED
    BY <1>2, <2>1, SeqMonotonic
<1>4. Fingerprint \in Cursor /\ Fingerprint.asked = call.asked /\ Items \in Seq(FileItem)
  BY <1>2, <1>3 DEF Fingerprint, Items, Cursor
<1>5. ASSUME call.asked.tool = "source_search" PROVE ListsFor(Fingerprint, Items)
  <2>1. LinesOK(call) /\ ListedOK(call) /\ call.file = 0
    BY <1>1, <1>5 DEF FileInv, CallOK, PlaceOK
  <2>2. CASE call.asked.mode = "matches"
    <3>1. Items = call.found /\ Fingerprint.of = call.found
      BY <1>5, <2>2 DEF Fingerprint, Items
    <3> QED
      BY <1>4, <2>2, <3>1 DEF ListsFor
  <2>3. CASE call.asked.mode # "matches"
    <3>1. \A m \in DOMAIN call.found : call.found[m][1] # 0
      BY <1>1, FoundInFiles DEF Files
    <3>2. /\ Increasing(call.listed)
          /\ \A n \in DOMAIN call.listed : \E m \in DOMAIN call.found : call.found[m][1] = call.listed[n]
          /\ \A m \in DOMAIN call.found : \E n \in DOMAIN call.listed : call.found[m][1] = call.listed[n]
      BY <2>1, <3>1 DEF ListedOK
    <3>3. Items = call.listed /\ Fingerprint.of = call.found
      BY <1>5, <2>3 DEF Items, Fingerprint
    <3> QED
      BY <1>2, <1>4, <1>5, <2>3, <3>2, <3>3 DEF ListsFor
  <2> QED
    BY <2>2, <2>3
<1>6. ASSUME call.asked.tool # "source_search" PROVE ListsFor(Fingerprint, Items)
  <2>1. call.asked.tool = "file_list" /\ call.asked.mode # "matches"
    BY <1>2, <1>6, QueriesTyped
  <2> QED
    <3>1. Items = call.listed /\ Fingerprint.of = call.listed
      BY <2>1 DEF Fingerprint, Items
    <3> QED
      BY <1>4, <1>6, <3>1 DEF ListsFor
<1> QED
  BY <1>1, <1>4, <1>5, <1>6

LEMMA GivePageKeeps == ASSUME FileInv, GivePage PROVE FileInv'
<1>1. /\ call \in CallType /\ call # NoCall /\ call.go = goes
      /\ Fingerprint \in Cursor /\ Fingerprint.asked = call.asked
      /\ Items \in Seq(FileItem) /\ ListsFor(Fingerprint, Items)
  BY CallLists DEF GivePage
<1>2. goes.at \in {"start", "page"} /\ (goes.at = "start" => call.asked = query)
  BY <1>1 DEF FileInv, FileTyped
<1>3. FileTyped' /\ CallOK(call')
  BY DEF FileInv, FileTyped, GivePage, NoCall, CallOK
<1>4. GoesOK'
  <2>1. CASE goes.at = "page" /\ goes.id # Fingerprint
    BY <1>1, <2>1 DEF GivePage, GoesOK
  <2>2. CASE ~(goes.at = "page" /\ goes.id # Fingerprint)
    <3> DEFINE offset == IF goes.at = "page" THEN goes.offset ELSE 0
               end == IF offset + PageItems < Len(Items) THEN offset + PageItems ELSE Len(Items)
    <3>1. /\ handed' = handed \o SubSeq(Items, offset + 1, end)
          /\ goes' = IF end < Len(Items) THEN AtPage(Fingerprint, end, Items) ELSE AllHanded(Items)
          /\ query' = query
      BY <1>1, <2>2 DEF GivePage
    <3>2. /\ offset \in Nat /\ offset <= Len(Items) /\ handed = SubSeq(Items, 1, offset)
          /\ Fingerprint.asked = query
      <4>1. CASE goes.at = "start"
        <5>1. handed = <<>> /\ offset = 0
          BY <4>1 DEF FileInv, GoesOK
        <5>2. SubSeq(Items, 1, 0) = <<>>
          BY SubSeqEmpty
        <5> QED
          BY <1>1, <1>2, <4>1, <5>1, <5>2, LenProperties
      <4>2. CASE goes.at = "page"
        <5>1. /\ goes \in [at : {"page"}, id : Cursor, offset : Nat, of : Seq(FileItem)]
              /\ goes.id.asked = query /\ ListsFor(goes.id, goes.of)
              /\ goes.offset <= Len(goes.of) /\ handed = SubSeq(goes.of, 1, goes.offset)
          BY <4>2 DEF FileInv, GoesOK, FromTheStart
        <5>2. goes.of = Items /\ goes.id = Fingerprint
          BY <1>1, <2>2, <4>2, <5>1, ListingIsKnown
        <5> QED
          BY <4>2, <5>1, <5>2
      <4> QED
        BY <1>2, <4>1, <4>2
    <3>3. end \in Nat /\ offset <= end /\ end <= Len(Items)
      BY <1>1, <3>2, FileSearchAssumption
    <3> HIDE DEF end, offset
    <3>4. handed' = SubSeq(Items, 1, end)
      <4>1. 1 \in 1..(Len(Items) + 1) /\ offset \in 0..Len(Items) /\ end \in offset..Len(Items) /\ 1 - 1 = 0
        BY <1>1, <3>2, <3>3, LenProperties
      <4> QED
        BY <1>1, <3>1, <3>2, <4>1, ConcatAdjacentSubSeq
    <3>5. CASE end < Len(Items)
      <4>1. goes' = [at |-> "page", id |-> Fingerprint, offset |-> end, of |-> Items]
        BY <3>1, <3>5 DEF AtPage
      <4>2. goes' \in [at : {"page"}, id : Cursor, offset : Nat, of : Seq(FileItem)]
        BY <1>1, <3>3, <4>1
      <4>3. goes'.id = Fingerprint /\ goes'.of = Items /\ goes'.offset = end
        BY <4>1
      <4> QED
        BY <1>1, <3>1, <3>2, <3>3, <3>4, <4>2, <4>3 DEF GoesOK
    <3>6. CASE ~(end < Len(Items))
      <4>1. end = Len(Items)
        BY <1>1, <3>3, <3>6, LenProperties
      <4>2. handed' = Items
        BY <1>1, <3>4, <4>1, SubSeqFull
      <4>3. goes' = [at |-> "end", of |-> Items]
        BY <3>1, <3>6 DEF AllHanded
      <4> QED
        BY <1>1, <4>2, <4>3 DEF GoesOK
    <3> QED
      BY <3>5, <3>6
  <2> QED
    BY <2>1, <2>2
<1> QED
  BY <1>3, <1>4 DEF FileInv

LEMMA FileNextInv == FileInv /\ [FileNext]_fileVars => FileInv'
<1> SUFFICES ASSUME FileInv, [FileNext]_fileVars PROVE FileInv'
  OBVIOUS
<1>1. \A f \in Files : ChangeFile(f) \/ PassOver(f) \/ ListFile(f) \/ OpenFile(f) => FileInv'
  BY ChangeKeepsFound, PassOverKeeps, ListKeeps, OpenKeeps
<1>2. CASE CallTool
  <2>1. query \in FileQueries
    BY DEF FileInv, FileTyped
  <2> QED
    BY <1>2, <2>1, BeginKeeps DEF CallTool
<1>3. CASE CallWithCursorAlone
  <2> DEFINE asked == IF \E i \in DOMAIN scopes : scopes[i] = goes.id THEN goes.id.asked
                      ELSE [query EXCEPT !.mode = "text", !.scope = Files]
  <2>1. goes.at = "page" /\ query.tool = "file_list" /\ call' = Called(asked)
    BY <1>3 DEF CallWithCursorAlone
  <2>2. query \in FileQueries /\ goes.id.asked = query
    BY <2>1 DEF FileInv, FileTyped, GoesOK, FromTheStart
  <2>3. asked \in FileQueries
    BY <2>1, <2>2, QueriesTyped
  <2> HIDE DEF asked
  <2> QED
    BY <1>3, <2>1, <2>3, BeginKeeps DEF CallWithCursorAlone
<1>4. CASE CallFails \/ Walk
  BY <1>4, FailKeeps, WalkKeeps
<1>5. CASE NextBlock \/ TestLine \/ BlockEnds \/ NextFile
  BY <1>5, NextBlockKeeps, TestLineKeeps, BlockEndsKeeps, NextFileKeeps
<1>6. CASE GivePage
  BY <1>6, GivePageKeeps
<1>7. CASE OtherList
  BY <1>7, CallStays DEF OtherList, FileInv, FileTyped
<1>8. CASE UNCHANGED fileVars
  BY <1>8, CallStays DEF fileVars, FileInv, FileTyped
<1> QED
  BY <1>1, <1>2, <1>3, <1>4, <1>5, <1>6, <1>7, <1>8 DEF FileNext

LEMMA WholeWhenRead ==
    ASSUME FileInv, AllRead, call.asked.tool = "source_search"
    PROVE  /\ {call.found[n] : n \in DOMAIN call.found} = Matching(call.read)
           /\ \A m, n \in DOMAIN call.found : m < n => LineBefore(call.found[m], call.found[n])
           /\ {call.listed[n] : n \in DOMAIN call.listed} = {line[1] : line \in Matching(call.read)}
           /\ \A m, n \in DOMAIN call.listed : m < n => call.listed[m] < call.listed[n]
<1>1. call \in CallType /\ call # NoCall /\ call.step = "files"
  BY DEF AllRead, FileInv, FileTyped, NoCall
<1>2. LinesOK(call) /\ ListedOK(call) /\ call.file = 0
  BY <1>1 DEF FileInv, CallOK, PlaceOK
<1>3. \A f \in Files : Scanned(call, f) = Len(call.read[f])
  BY <1>2 DEF Scanned, Files
<1>4. \A f \in Files : WasRead(call, f) => DOMAIN call.read[f] = 1..Len(call.read[f])
  <2>1. ASSUME NEW f \in Files, WasRead(call, f) PROVE call.read[f] \in Seq({"hit", "near", "miss"})
    <3>1. call.read[f] \in FileText
      BY <1>1 DEF CallType
    <3> QED
      BY <2>1, <3>1 DEF WasRead, FileText
  <2> QED
    BY <2>1, LenProperties
<1>5. \A line : line \in Matching(call.read) <=>
          \E f \in Files : \E i \in 1..Len(call.read[f]) : line = <<f, i>> /\ IsMatch(call, f, i)
  BY <1>3, <1>4 DEF Matching, IsMatch, WasRead
<1>6. {call.found[n] : n \in DOMAIN call.found} = Matching(call.read)
  <2>1. ASSUME NEW n \in DOMAIN call.found PROVE call.found[n] \in Matching(call.read)
    <3>1. call.found[n] \in Files \X Nat /\ IsMatch(call, call.found[n][1], call.found[n][2])
      BY <1>1, <1>2, FoundInFiles DEF LinesOK
    <3>2. call.found[n] = <<call.found[n][1], call.found[n][2]>> /\ call.found[n][1] \in Files
      BY <3>1
    <3>3. call.found[n][2] \in 1..Len(call.read[call.found[n][1]])
      BY <1>3, <3>1, <3>2 DEF IsMatch
    <3> QED
      BY <1>5, <3>1, <3>2, <3>3
  <2>2. ASSUME NEW line \in Matching(call.read) PROVE \E n \in DOMAIN call.found : call.found[n] = line
    <3>1. PICK f \in Files : \E i \in 1..Len(call.read[f]) : line = <<f, i>> /\ IsMatch(call, f, i)
      BY <1>5, <2>2
    <3>2. PICK i \in 1..Len(call.read[f]) : line = <<f, i>> /\ IsMatch(call, f, i)
      BY <3>1
    <3>3. WasRead(call, f) /\ i \in 1..Scanned(call, f)
      BY <3>2 DEF IsMatch
    <3> QED
      BY <1>2, <3>2, <3>3 DEF LinesOK
  <2> QED
    BY <2>1, <2>2
<1>7. {call.listed[n] : n \in DOMAIN call.listed} = {line[1] : line \in Matching(call.read)}
  <2>1. \A m \in DOMAIN call.found : call.found[m][1] # 0
    BY <1>1, FoundInFiles DEF Files
  <2>2. \A n \in DOMAIN call.listed : \E m \in DOMAIN call.found : call.found[m][1] = call.listed[n]
    BY <1>2 DEF ListedOK
  <2>3. \A m \in DOMAIN call.found : \E n \in DOMAIN call.listed : call.listed[n] = call.found[m][1]
    BY <1>2, <2>1 DEF ListedOK
  <2>4. {line[1] : line \in Matching(call.read)} = {call.found[m][1] : m \in DOMAIN call.found}
    BY <1>6
  <2>5. \A n \in DOMAIN call.listed : call.listed[n] \in {call.found[m][1] : m \in DOMAIN call.found}
    BY <2>2
  <2>6. \A m \in DOMAIN call.found : call.found[m][1] \in {call.listed[n] : n \in DOMAIN call.listed}
    BY <2>3
  <2> QED
    BY <2>4, <2>5, <2>6
<1> QED
  BY <1>2, <1>6, <1>7 DEF LinesOK, ListedOK, InOrder, Increasing

\* Every line that matches is found, under its number and in order, and the pages of a
\* listing are one listing whatever changes between them, for projects, texts, blocks
\* and pages of any size.
THEOREM SearchesFindAll == FileSpec => []SearchesAreWhole
<1>1. FileInv => SearchesAreWhole
  <2> SUFFICES ASSUME FileInv PROVE SearchesAreWhole
    OBVIOUS
  <2>1. goes.at = "start" => handed = <<>>
    BY DEF FileInv, GoesOK
  <2>2. goes.at = "page" => handed = SubSeq(goes.of, 1, goes.offset) /\ goes.id.asked = query
    BY DEF FileInv, GoesOK, FromTheStart
  <2>3. goes.at = "end" => handed = goes.of
    BY DEF FileInv, GoesOK, FromTheStart
  <2> QED
    BY <2>1, <2>2, <2>3, WholeWhenRead DEF SearchesAreWhole
<1> QED
  BY <1>1, FileInitInv, FileNextInv, PTL DEF FileSpec

=============================================================================
