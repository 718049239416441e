--------------------------- MODULE PlatformProofs ---------------------------
(***************************************************************************)
(* The platform console: the tables that keep their newest rows, moderation *)
(* and its row locks, the operators and the bootstrap of the first, and the *)
(* alerts; for any number of accounts, requests, writers and components.    *)
(***************************************************************************)
EXTENDS Platform, FiniteSetTheorems, NaturalsInduction, WellFoundedInduction, TLAPS

\* What a writer holds once it has chosen: no more rows than are kept.
WriterRows ==
    [at : {"idle", "insert", "choose", "delete"}, time : Nat, keep : SUBSET Nat]
Chosen(w) == writers[w].at = "delete" => Cardinality(writers[w].keep) <= Retention

\* Inductive.  Only finitely many requests are under way at a time, though
\* Writers may be infinite: each has taken a time of its own.
BufferInv ==
    /\ rows \in SUBSET Nat /\ IsFiniteSet(rows)
    /\ writers \in [Writers -> WriterRows]
    /\ taken \in Nat /\ unpruned \in Nat
    /\ IsFiniteSet(Pruning)
    /\ \A w \in Writers : Chosen(w) /\ IsFiniteSet(writers[w].keep)
    /\ BufferStaysBounded

-----------------------------------------------------------------------------
\* An insertion adds a row, or finds it there.
LEMMA OneMore ==
    ASSUME NEW S, NEW x, IsFiniteSet(S)
    PROVE  IsFiniteSet(S \cup {x}) /\ Cardinality(S \cup {x}) <= Cardinality(S) + 1
<1>1. Cardinality(S) \in Nat
  BY FS_CardinalityType
<1>2. CASE x \in S
  <2>1. S \cup {x} = S
    BY <1>2
  <2>2. Cardinality(S \cup {x}) = Cardinality(S) /\ IsFiniteSet(S \cup {x})
    BY <2>1, Zenon
  <2> QED BY <1>1, <2>2
<1>3. CASE x \notin S
  BY <1>1, <1>3, FS_AddElement
<1> QED BY <1>2, <1>3

\* The newest rows are at most as many as are kept: the oldest of them has all
\* the others above it.
LEMMA NewestIsSmall ==
    ASSUME LogConstants, rows \in SUBSET Nat, IsFiniteSet(rows)
    PROVE  IsFiniteSet(Newest) /\ Cardinality(Newest) \in Nat /\ Cardinality(Newest) <= Retention
<1>1. IsFiniteSet(Newest) /\ Cardinality(Newest) \in Nat
  BY FS_Subset, FS_CardinalityType DEF Newest
<1>2. CASE Newest = {}
  BY <1>2, FS_EmptySet DEF LogConstants
<1>3. CASE Newest # {}
  <2>1. PICK m \in Newest : \A r \in Newest : ~(<<r, m>> \in OpToRel(<, Nat))
    BY <1>3, NatLessThanWellFounded, WFMin DEF Newest
  <2>2. \A r \in Newest \ {m} : r > m
    <3>1. Newest \subseteq Nat
      BY DEF Newest
    <3>2. \A r \in Newest : ~(r < m)
      BY <2>1, <3>1 DEF OpToRel
    <3>3. ASSUME NEW r \in Newest \ {m} PROVE r > m
      <4>1. r \in Nat /\ m \in Nat /\ r # m /\ ~(r < m)
        BY <2>1, <3>1, <3>2
      <4> QED BY <4>1
    <3> QED BY <3>3
  <2>3. Newest \ {m} \subseteq Newer(m)
    BY <2>2 DEF Newer, Newest
  <2>4. IsFiniteSet(Newer(m)) /\ Cardinality(Newer(m)) \in Nat /\ Cardinality(Newer(m)) < Retention
    BY <2>1, FS_Subset, FS_CardinalityType DEF Newer, Newest
  <2>5. Cardinality(Newest \ {m}) <= Cardinality(Newer(m))
    BY <2>3, <2>4, FS_Subset
  <2>6. Cardinality(Newest \ {m}) = Cardinality(Newest) - 1
    BY <1>1, <2>1, FS_RemoveElement
  <2> QED BY <1>1, <2>4, <2>5, <2>6 DEF LogConstants
<1> QED BY <1>2, <1>3

\* Where fewer rows are the newest than are kept, every row is among them: the
\* newest of the others would have all those above it, and so enough.
LEMMA FewRowsAreNewest ==
    ASSUME LogConstants, rows \in SUBSET Nat, IsFiniteSet(rows), Cardinality(Newest) < Retention
    PROVE  rows = Newest
<1> DEFINE Old == rows \ Newest
<1>1. SUFFICES ASSUME Old # {} PROVE FALSE
  BY DEF Newest
<1>2. \A r : IsFiniteSet(Newer(r)) /\ Cardinality(Newer(r)) \in Nat
  BY FS_Subset, FS_CardinalityType DEF Newer
<1> DEFINE Above == {Cardinality(Newer(r)) : r \in Old}
<1>3. PICK n \in Above : \A k \in Above : ~(<<k, n>> \in OpToRel(<, Nat))
  <2>1. Above \subseteq Nat /\ Above # {}
    BY <1>1, <1>2
  <2> QED BY <2>1, NatLessThanWellFounded, WFMin
<1>4. PICK r \in Old : n = Cardinality(Newer(r))
  OBVIOUS
<1>5. \A s \in Old : ~(Cardinality(Newer(s)) < Cardinality(Newer(r)))
  BY <1>2, <1>3, <1>4 DEF OpToRel
<1>6. ASSUME NEW s \in Old, s > r PROVE FALSE
  <2>1. Newer(s) \subseteq Newer(r) \ {s} /\ s \in Newer(r)
    <3>1. r \in Nat /\ s \in rows /\ \A t \in rows : t \in Nat
      OBVIOUS
    <3>2. \A t \in rows : t > s => t > r /\ t # s
      BY <1>6, <3>1
    <3> HIDE DEF Old
    <3> QED BY <1>6, <3>1, <3>2 DEF Newer
  <2>2. Cardinality(Newer(r) \ {s}) = Cardinality(Newer(r)) - 1 /\ IsFiniteSet(Newer(r) \ {s})
    BY <1>2, <2>1, FS_RemoveElement
  <2>3. Cardinality(Newer(s)) <= Cardinality(Newer(r) \ {s})
    BY <2>1, <2>2, FS_Subset
  <2> QED BY <1>2, <1>5, <2>2, <2>3
<1>7. Newer(r) \subseteq Newest
  BY <1>6 DEF Newer
<1>8. Cardinality(Newer(r)) <= Cardinality(Newest)
  BY <1>7, FS_Subset DEF Newest
<1>9. ~(Cardinality(Newer(r)) < Retention)
  BY <1>4 DEF Newest
<1>10. Cardinality(Newest) \in Nat
  BY FS_Subset, FS_CardinalityType DEF Newest
<1> QED BY <1>2, <1>8, <1>9, <1>10 DEF LogConstants

-----------------------------------------------------------------------------
\* The inductive invariant holds of every state.
THEOREM BufferInvHolds == Spec => []BufferInv
<1> USE LogAssumption
<1>1. Init => BufferInv
  <2> SUFFICES ASSUME Init PROVE BufferInv
    OBVIOUS
  <2>1. Pruning = {}
    BY DEF Init, Idle, Pruning
  <2>2. Idle \in WriterRows /\ IsFiniteSet(Idle.keep) /\ Idle.at = "idle"
    BY FS_EmptySet DEF Idle, WriterRows
  <2> QED
    BY <2>1, <2>2, FS_EmptySet DEF Init, BufferInv, Chosen, BufferStaysBounded, LogConstants
<1>2. BufferInv /\ [Next]_vars => BufferInv'
  <2> SUFFICES ASSUME BufferInv, [Next]_vars PROVE BufferInv'
    OBVIOUS
  <2>1. ASSUME NEW w \in Writers, Stamp(w) PROVE BufferInv'
    <3>1. Pruning' = Pruning
      BY <2>1 DEF Stamp, Pruning, BufferInv, WriterRows, Idle
    <3>2. writers' \in [Writers -> WriterRows] /\ taken' \in Nat
      <4>1. [at |-> "insert", time |-> taken + 1, keep |-> {}] \in WriterRows
        BY DEF BufferInv, WriterRows
      <4> QED BY <2>1, <4>1 DEF Stamp, BufferInv
    <3>3. \A v \in Writers : Chosen(v)' /\ IsFiniteSet(writers'[v].keep)
      BY <2>1, FS_EmptySet DEF Stamp, BufferInv, Chosen, WriterRows, Idle
    <3> QED BY <2>1, <3>1, <3>2, <3>3 DEF Stamp, BufferInv, BufferStaysBounded
  <2>2. ASSUME NEW w \in Writers, Insert(w) PROVE BufferInv'
    <3>1. w \notin Pruning /\ Pruning' = Pruning \cup {w}
      BY <2>2 DEF Insert, Pruning, BufferInv, WriterRows
    <3>2. IsFiniteSet(Pruning') /\ Cardinality(Pruning') = Cardinality(Pruning) + 1
      BY <3>1, FS_AddElement DEF BufferInv
    <3>3. writers' \in [Writers -> WriterRows] /\ rows' \in SUBSET Nat
      BY <2>2 DEF Insert, BufferInv, WriterRows
    <3>4. \A v \in Writers : Chosen(v)' /\ IsFiniteSet(writers'[v].keep)
      BY <2>2 DEF Insert, BufferInv, Chosen, WriterRows
    <3>5. IsFiniteSet(rows') /\ Cardinality(rows') <= Cardinality(rows) + 1
      <4>1. IsFiniteSet(rows) /\ rows' = rows \cup {writers[w].time}
        BY <2>2 DEF Insert, BufferInv
      <4> QED BY <4>1, OneMore
    <3>6. /\ Cardinality(rows) \in Nat /\ Cardinality(rows') \in Nat
          /\ Cardinality(Pruning) \in Nat
      BY <3>5, FS_CardinalityType DEF BufferInv
    <3>7. BufferStaysBounded'
      BY <2>2, <3>2, <3>5, <3>6 DEF Insert, BufferInv, BufferStaysBounded, LogConstants
    <3> QED BY <2>2, <3>2, <3>3, <3>4, <3>5, <3>7 DEF Insert, BufferInv
  <2>3. ASSUME NEW w \in Writers, ChooseKept(w) PROVE BufferInv'
    <3>1. IsFiniteSet(Newest) /\ Cardinality(Newest) \in Nat /\ Cardinality(Newest) <= Retention
      BY NewestIsSmall DEF BufferInv
    <3>2. Newest \in SUBSET Nat
      BY DEF Newest, BufferInv
    <3>3. CASE Cardinality(Newest) >= Retention
      <4>1. writers' = [writers EXCEPT ![w] = [@ EXCEPT !.at = "delete", !.keep = Newest]]
        BY <2>3, <3>3 DEF ChooseKept
      <4>2. Pruning' = Pruning
        BY <2>3, <4>1 DEF ChooseKept, Pruning, BufferInv, WriterRows
      <4>3. writers' \in [Writers -> WriterRows]
        BY <3>2, <4>1 DEF BufferInv, WriterRows
      <4>4. \A v \in Writers : Chosen(v)' /\ IsFiniteSet(writers'[v].keep)
        BY <3>1, <4>1 DEF BufferInv, Chosen, WriterRows
      <4> QED BY <2>3, <4>2, <4>3, <4>4 DEF ChooseKept, BufferInv, BufferStaysBounded
    <3>4. CASE Cardinality(Newest) < Retention
      <4>1. writers' = [writers EXCEPT ![w] = Idle]
        <5>1. ~(Cardinality(Newest) >= Retention)
          BY <3>1, <3>4 DEF LogConstants
        <5> QED BY <2>3, <5>1 DEF ChooseKept
      <4>2. Pruning' = Pruning \ {w} /\ rows' = rows /\ unpruned' = unpruned /\ taken' = taken
        <5>1. rows' = rows /\ unpruned' = unpruned /\ taken' = taken
          BY <2>3 DEF ChooseKept
        <5>2. Pruning' = Pruning \ {w}
          BY <4>1 DEF Pruning, BufferInv, Idle
        <5> QED BY <5>1, <5>2
      <4>3. IsFiniteSet(Pruning') /\ Cardinality(Pruning') \in Nat
        BY <4>2, FS_RemoveElement, FS_CardinalityType DEF BufferInv
      <4>4. writers' \in [Writers -> WriterRows]
        BY <4>1 DEF BufferInv, WriterRows, Idle
      <4>5. \A v \in Writers : Chosen(v)' /\ IsFiniteSet(writers'[v].keep)
        BY <4>1, FS_EmptySet DEF BufferInv, Chosen, Idle
      <4>6. Cardinality(rows') < Retention
        BY <3>4, <4>2, FewRowsAreNewest DEF BufferInv
      <4>7. BufferStaysBounded'
        BY <3>1, <3>4, <4>2, <4>3, <4>6, FewRowsAreNewest
           DEF BufferInv, BufferStaysBounded, LogConstants
      <4> QED BY <4>2, <4>3, <4>4, <4>5, <4>7 DEF BufferInv
    <3> QED BY <3>1, <3>3, <3>4 DEF LogConstants
  <2>4. ASSUME NEW w \in Writers, DeleteOthers(w) PROVE BufferInv'
    <3>1. rows' \subseteq writers[w].keep /\ rows' \subseteq rows /\ rows' \in SUBSET Nat
      BY <2>4 DEF DeleteOthers, BufferInv
    <3>2. /\ IsFiniteSet(rows') /\ Cardinality(rows') \in Nat
          /\ Cardinality(rows') <= Cardinality(writers[w].keep)
          /\ Cardinality(writers[w].keep) \in Nat
      BY <2>4, <3>1, FS_Subset, FS_CardinalityType DEF BufferInv
    <3>3. Cardinality(writers[w].keep) <= Retention
      BY <2>4 DEF DeleteOthers, BufferInv, Chosen
    <3>4. Pruning' = Pruning \ {w}
      BY <2>4 DEF DeleteOthers, Pruning, BufferInv, Idle
    <3>5. IsFiniteSet(Pruning') /\ Cardinality(Pruning') \in Nat
      BY <3>4, FS_RemoveElement, FS_CardinalityType DEF BufferInv
    <3>6. writers' \in [Writers -> WriterRows]
      BY <2>4 DEF DeleteOthers, BufferInv, WriterRows, Idle
    <3>7. \A v \in Writers : Chosen(v)' /\ IsFiniteSet(writers'[v].keep)
      BY <2>4, FS_EmptySet DEF DeleteOthers, BufferInv, Chosen, Idle
    <3>8. BufferStaysBounded'
      BY <2>4, <3>2, <3>3, <3>5 DEF DeleteOthers, BufferStaysBounded, LogConstants
    <3> QED BY <2>4, <3>1, <3>2, <3>5, <3>6, <3>7, <3>8 DEF DeleteOthers, BufferInv
  <2>5. ASSUME NEW w \in Writers, PruneFails(w) PROVE BufferInv'
    <3>1. w \in Pruning /\ Pruning' = Pruning \ {w}
      BY <2>5 DEF PruneFails, Pruning, BufferInv, Idle
    <3>2. IsFiniteSet(Pruning') /\ Cardinality(Pruning') = Cardinality(Pruning) - 1
      BY <3>1, FS_RemoveElement DEF BufferInv
    <3>3. writers' \in [Writers -> WriterRows]
      BY <2>5 DEF PruneFails, BufferInv, WriterRows, Idle
    <3>4. \A v \in Writers : Chosen(v)' /\ IsFiniteSet(writers'[v].keep)
      BY <2>5, FS_EmptySet DEF PruneFails, BufferInv, Chosen, Idle
    <3>5. Cardinality(Pruning) \in Nat
      BY FS_CardinalityType DEF BufferInv
    <3>6. BufferStaysBounded'
      BY <2>5, <3>2, <3>5 DEF PruneFails, BufferInv, BufferStaysBounded, LogConstants
    <3> QED BY <2>5, <3>2, <3>3, <3>4, <3>6 DEF PruneFails, BufferInv
  <2>6. CASE UNCHANGED vars
    BY <2>6 DEF vars, BufferInv, Chosen, Pruning, BufferStaysBounded
  <2> QED BY <2>1, <2>2, <2>3, <2>4, <2>5, <2>6 DEF Next
<1> QED BY <1>1, <1>2, PTL DEF Spec

\* However many requests append and prune at once, the table exceeds what it
\* keeps only by the appends under way and the prunes that failed.
THEOREM BufferAlwaysBounded == Spec => []BufferStaysBounded
<1>1. BufferInv => BufferStaysBounded
  BY DEF BufferInv
<1> QED BY <1>1, BufferInvHolds, PTL

\* A row that is to be inserted has its time.
LogTyped ==
    /\ TypeOK
    /\ \A w \in Writers : writers[w].at = "insert" => writers[w].time # 0

LEMMA LogTypedHolds == Spec => []LogTyped
<1> DEFINE Writing == [at : {"idle", "insert", "choose", "delete"}, time : 0..MaxRows, keep : SUBSET (1..MaxRows)]
<1>1. MaxRows \in Nat
  BY LogAssumption DEF LogConstants
<1>2. Init => LogTyped
  BY <1>1 DEF Init, Idle, LogTyped, TypeOK
<1>3. ASSUME LogTyped, NEW w \in Writers, NEW new \in Writing, new.at = "insert" => new.time # 0,
             writers' = [writers EXCEPT ![w] = new], rows' \subseteq 1..MaxRows,
             taken' \in 0..MaxRows, unpruned' \in Nat
      PROVE  LogTyped'
  <2>1. /\ writers' \in [Writers -> Writing]
        /\ \A v \in Writers : writers'[v] = IF v = w THEN new ELSE writers[v]
    BY <1>3 DEF LogTyped, TypeOK
  <2> QED BY <1>3, <2>1 DEF LogTyped, TypeOK
<1>4. LogTyped /\ [Next]_vars => LogTyped'
  <2> SUFFICES ASSUME LogTyped, [Next]_vars PROVE LogTyped'
    OBVIOUS
  <2>1. rows \subseteq 1..MaxRows /\ taken \in 0..MaxRows /\ unpruned \in Nat
    BY DEF LogTyped, TypeOK
  <2>2. ASSUME NEW w \in Writers
        PROVE  /\ writers[w] \in Writing
               /\ writers[w].at = "insert" => writers[w].time # 0
    BY DEF LogTyped, TypeOK
  <2>3. Idle \in Writing /\ Idle.at = "idle"
    BY <1>1 DEF Idle
  <2>4. ASSUME NEW w \in Writers, Stamp(w) PROVE LogTyped'
    <3>1. taken + 1 \in 0..MaxRows /\ taken + 1 # 0
      BY <1>1, <2>1, <2>4 DEF Stamp
    <3>2. [at |-> "insert", time |-> taken + 1, keep |-> {}] \in Writing
      BY <3>1
    <3> QED BY <1>3, <2>1, <2>4, <3>1, <3>2 DEF Stamp
  <2>5. ASSUME NEW w \in Writers, Insert(w) PROVE LogTyped'
    <3>1. PICK new : new = [writers[w] EXCEPT !.at = "choose"]
      OBVIOUS
    <3>2. new \in Writing /\ new.at # "insert" /\ writers' = [writers EXCEPT ![w] = new]
      BY <2>2, <2>5, <3>1 DEF Insert
    <3>3. rows' \subseteq 1..MaxRows
      BY <1>1, <2>1, <2>2, <2>5 DEF Insert
    <3> QED BY <1>3, <2>1, <2>5, <3>2, <3>3 DEF Insert
  <2>6. ASSUME NEW w \in Writers, ChooseKept(w) PROVE LogTyped'
    <3>1. PICK new : new = [writers[w] EXCEPT !.at = "delete", !.keep = Newest]
      OBVIOUS
    <3>2. Newest \subseteq 1..MaxRows
      BY <2>1 DEF Newest
    <3>3. new \in Writing /\ new.at # "insert"
      BY <2>2, <3>1, <3>2
    <3>4. writers' = [writers EXCEPT ![w] = new] \/ writers' = [writers EXCEPT ![w] = Idle]
      BY <2>6, <3>1 DEF ChooseKept
    <3> QED BY <1>3, <2>1, <2>3, <2>6, <3>3, <3>4 DEF ChooseKept
  <2>7. ASSUME NEW w \in Writers, DeleteOthers(w) PROVE LogTyped'
    BY <1>3, <2>1, <2>3, <2>7 DEF DeleteOthers
  <2>8. ASSUME NEW w \in Writers, PruneFails(w) PROVE LogTyped'
    <3>1. writers' = [writers EXCEPT ![w] = Idle] /\ rows' = rows /\ taken' = taken /\ unpruned' \in Nat
      BY <2>1, <2>8 DEF PruneFails
    <3> QED BY <1>3, <2>1, <2>3, <3>1
  <2>9. CASE UNCHANGED vars
    <3>1. rows' = rows /\ writers' = writers /\ taken' = taken /\ unpruned' = unpruned
      BY <2>9 DEF vars
    <3>2. TypeOK'
      BY <3>1, Zenon DEF LogTyped, TypeOK
    <3> QED BY <3>1, <3>2 DEF LogTyped
  <2> QED BY <2>4, <2>5, <2>6, <2>7, <2>8, <2>9 DEF Next
<1> QED BY <1>2, <1>4, PTL DEF Spec

-----------------------------------------------------------------------------
(* Moderation.                                                               *)

LEMMA HasMax ==
    ASSUME NEW T, T \subseteq Nat, T # {}, IsFiniteSet(T)
    PROVE  Moderating!Max(T) \in T /\ \A y \in T : y <= Moderating!Max(T)
<1> DEFINE Above(x) == {y \in T : y > x}
           U == {Above(x) : x \in T}
<1>1. IsWellFoundedOn(StrictSubsetOrdering(T), SUBSET T)
  BY FS_StrictSubsetOrderingWellFounded, FS_FiniteSubsetsOfFinite
<1>2. U \subseteq SUBSET T /\ U # {}
  OBVIOUS
<1>3. PICK A \in U : \A B \in U : ~(<<B, A>> \in StrictSubsetOrdering(T))
  BY <1>1, <1>2, WFMin
<1>4. PICK x \in T : A = Above(x)
  BY <1>3
<1>5. ASSUME NEW y \in T, y > x PROVE FALSE
  <2>1. x \in Nat /\ y \in Nat /\ \A z \in T : z \in Nat
    OBVIOUS
  <2>2. Above(y) \subseteq Above(x) /\ y \in Above(x) /\ y \notin Above(y)
    <3>1. y \in Above(x) /\ y \notin Above(y)
      BY <1>5, <2>1
    <3>2. ASSUME NEW z \in T, z > y PROVE z > x
      BY <1>5, <2>1, <3>2
    <3> QED BY <3>1, <3>2
  <2>3. <<Above(y), A>> \in StrictSubsetOrdering(T)
    BY <1>4, <2>2 DEF StrictSubsetOrdering
  <2> QED BY <1>3, <2>3
<1>6. \A y \in T : x >= y
  BY <1>5
<1> QED BY <1>6 DEF Moderating!Max

-----------------------------------------------------------------------------
(* What the records say.                                                     *)

LEMMA ModerationConstants ==
    /\ Accounts \subseteq Nat /\ IsFiniteSet(Accounts) /\ Owners \subseteq Accounts /\ Operators \subseteq Accounts
    /\ \A x \in Moderating!Contributions : Author[x] \in Accounts
    /\ Accounts \cap (Signals \cup Moderating!Contributions) = {}
    /\ Signals \cap Moderating!Contributions = {}
    /\ Moderating!CivicContents \cap (Accounts \cup Signals \cup Moderating!Contributions) = {}
<1>1. Moderating!ModerationAssumption
  BY PlatformAssumption
<1>2. Accounts \subseteq Nat /\ IsFiniteSet(Accounts) /\ Owners \cup Operators \subseteq Accounts
  BY <1>1 DEF Moderating!ModerationAssumption, Moderating!IsFiniteSet, IsFiniteSet
<1>5. Owners \subseteq Accounts /\ Operators \subseteq Accounts
  BY <1>2
<1>3. \A x \in Moderating!Contributions : Author[x] \in Accounts
  BY <1>1 DEF Moderating!ModerationAssumption
<1>4. /\ Accounts \cap (Signals \cup Moderating!Contributions) = {}
      /\ Signals \cap Moderating!Contributions = {}
      /\ Moderating!CivicContents \cap (Accounts \cup Signals \cup Moderating!Contributions) = {}
  BY <1>1, Zenon DEF Moderating!ModerationAssumption
<1> QED BY <1>2, <1>3, <1>4, <1>5

\* The rows whose records tell what became of them.
AuditedRows == Accounts \cup Signals \cup Moderating!Contributions

LEMMA LatestRecord ==
    ASSUME NEW n \in Nat, NEW S, S \subseteq 1..n, S # {}
    PROVE  Moderating!Max(S) \in S /\ \A k \in S : k <= Moderating!Max(S)
<1>1. IsFiniteSet(S)
  <2>1. IsFiniteSet(1..n)
    BY FS_Interval
  <2> QED BY <2>1, FS_Subset
<1>2. S \subseteq Nat
  OBVIOUS
<1> QED BY <1>1, <1>2, HasMax

LEMMA LatestIsLast ==
    ASSUME NEW n \in Nat, NEW S, S \subseteq 1..n
    PROVE  Moderating!Max(S \cup {n + 1}) = n + 1
<1>1. S \cup {n + 1} \subseteq 1..(n + 1) /\ n + 1 \in Nat
  OBVIOUS
<1>2. PICK m : m = Moderating!Max(S \cup {n + 1})
  OBVIOUS
<1>3. m \in S \cup {n + 1} /\ n + 1 <= m
  BY <1>1, <1>2, LatestRecord
<1>4. m \in 1..(n + 1)
  BY <1>1, <1>3
<1> QED BY <1>2, <1>3, <1>4

LEMMA AboutPrefix ==
    ASSUME NEW e, records' = Append(records, e), records \in Seq(Moderating!RecordRows),
           NEW row, NEW n \in 0..Len(records)
    PROVE  Moderating!About(row, n)' = Moderating!About(row, n)
<1>1. \A i \in 1..n : records'[i] = records[i]
  OBVIOUS
<1> QED BY <1>1 DEF Moderating!About

LEMMA SaidBefore ==
    ASSUME NEW e, records' = Append(records, e), records \in Seq(Moderating!RecordRows),
           NEW row, NEW n \in 0..Len(records)
    PROVE  Moderating!Said(row, n)' = Moderating!Said(row, n)
<1> DEFINE S == Moderating!About(row, n)
<1>1. Moderating!About(row, n)' = S
  BY AboutPrefix
<1>2. CASE S = {}
  BY <1>1, <1>2 DEF Moderating!Said
<1>3. CASE S # {}
  <2>1. S \subseteq 1..n /\ n \in Nat /\ n <= Len(records)
    BY DEF Moderating!About
  <2>2. PICK m \in 1..n : m = Moderating!Max(S)
    BY <1>3, <2>1, LatestRecord
  <2>3. records'[m] = records[m]
    BY <2>1, <2>2
  <2>4. Moderating!Said(row, n) = Moderating!Tells(records[m])
    BY <1>3, <2>2 DEF Moderating!Said
  <2>5. Moderating!Said(row, n)' = Moderating!Tells(records'[m])
    BY <1>1, <1>3, <2>2 DEF Moderating!Said, Moderating!Tells, Moderating!Hidden
  <2> QED BY <2>3, <2>4, <2>5
<1> QED BY <1>2, <1>3

LEMMA SaidLast ==
    ASSUME NEW e, records' = Append(records, e), records \in Seq(Moderating!RecordRows), NEW row
    PROVE  Moderating!Said(row, Len(records))' =
               IF e.on = row THEN Moderating!Tells(e) ELSE Moderating!Said(row, Len(records))
<1>0. PICK n \in Nat : n = Len(records)
  OBVIOUS
<1>1. /\ Len(records') = n + 1 /\ records'[n + 1] = e
      /\ \A i \in 1..n : records'[i] = records[i]
  BY <1>0
<1> DEFINE S == Moderating!About(row, n)
<1>2. S \subseteq 1..n
  BY DEF Moderating!About
<1>3. CASE e.on = row
  <2>1. Moderating!About(row, n + 1)' = S \cup {n + 1}
    <3>1. 1..(n + 1) = (1..n) \cup {n + 1}
      BY <1>0
    <3> QED BY <1>1, <1>3, <3>1 DEF Moderating!About
  <2>2. Moderating!Max(S \cup {n + 1}) = n + 1
    BY <1>0, <1>2, LatestIsLast
  <2>3. Moderating!Said(row, n + 1)' = Moderating!Tells(records'[n + 1])
    <3> HIDE DEF S
    <3> QED BY <2>1, <2>2 DEF Moderating!Said, Moderating!Tells, Moderating!Hidden
  <2> QED BY <1>1, <1>3, <2>3
<1>4. CASE e.on # row
  <2>1. Moderating!About(row, n + 1)' = S
    <3>1. 1..(n + 1) = (1..n) \cup {n + 1}
      BY <1>0
    <3> QED BY <1>1, <1>4, <3>1 DEF Moderating!About
  <2>2. CASE S = {}
    <3>1. Moderating!Said(row, n + 1)' = Moderating!Said(row, n)
      BY <2>1, <2>2 DEF Moderating!Said
    <3> QED BY <1>0, <1>1, <1>4, <3>1
  <2>3. CASE S # {}
    <3>1. PICK m \in 1..n : m = Moderating!Max(S)
      BY <1>0, <1>2, <2>3, LatestRecord
    <3>2. Moderating!Said(row, n) = Moderating!Tells(records[m])
      BY <2>3, <3>1 DEF Moderating!Said
    <3>3. Moderating!Said(row, n + 1)' = Moderating!Tells(records'[m])
      BY <2>1, <2>3, <3>1 DEF Moderating!Said, Moderating!Tells, Moderating!Hidden
    <3> QED BY <1>0, <1>1, <1>4, <3>1, <3>2, <3>3
  <2> QED BY <2>2, <2>3
<1> QED BY <1>3, <1>4

-----------------------------------------------------------------------------
(* The locks of a request.                                                   *)

\* What the locks of a plan are: those of accounts ascend, those that update
\* are of the rows the request is about, and of the one who asks where that matters.
PlanHolds(plan, kind, by, on) ==
    /\ Len(plan) \in Nat
    /\ \A i \in 1..Len(plan) : plan[i][2] = "update" => plan[i][1] \in AuditedRows
    /\ kind \in Moderating!AccountKinds =>
         /\ \A i \in 1..Len(plan) : plan[i][1] \in Accounts /\ plan[i][2] = "update"
         /\ \A i, k \in 1..Len(plan) : i < k => plan[i][1] < plan[k][1]
    /\ kind \in Moderating!AccountKinds \cup Moderating!OwnerKinds =>
         \E i \in 1..Len(plan) : plan[i] = <<by, "update">>
    /\ on \in AuditedRows => \E i \in 1..Len(plan) : plan[i] = <<on, "update">>

LEMMA PlansHold ==
    ASSUME NEW kind \in Moderating!Kinds, NEW by \in Accounts, NEW on \in Accounts \cup Moderating!Contents,
           Moderating!Suits(kind, on)
    PROVE  PlanHolds(Moderating!LockPlan(kind, by, on), kind, by, on)
<1> USE DEF Moderating!AccountKinds, Moderating!OwnerKinds, Moderating!ConsoleKinds
<1>1. CASE kind \in Moderating!AccountKinds
  <2>1. by \in Nat /\ on \in Nat /\ on \in Accounts
    BY <1>1, ModerationConstants DEF Moderating!Suits
  <2>2. CASE by = on
    <3>1. Moderating!LockPlan(kind, by, on) = << <<by, "update">> >>
      BY <1>1, <2>1, <2>2 DEF Moderating!LockPlan
    <3> QED BY <2>1, <2>2, <3>1 DEF PlanHolds, AuditedRows
  <2>3. CASE by < on
    <3>1. Moderating!LockPlan(kind, by, on) = << <<by, "update">>, <<on, "update">> >>
      BY <1>1, <2>1, <2>3 DEF Moderating!LockPlan
    <3> QED BY <2>1, <2>3, <3>1 DEF PlanHolds, AuditedRows
  <2>4. CASE by > on
    <3>1. Moderating!LockPlan(kind, by, on) = << <<on, "update">>, <<by, "update">> >>
      BY <1>1, <2>1, <2>4 DEF Moderating!LockPlan
    <3> QED BY <2>1, <2>4, <3>1 DEF PlanHolds, AuditedRows
  <2> QED BY <2>1, <2>2, <2>3, <2>4
<1>2. CASE kind \in {"owner_hide", "owner_unhide"}
  <2>1. on \in Signals
    BY <1>2 DEF Moderating!Suits
  <2>2. Moderating!LockPlan(kind, by, on) = << <<by, "update">>, <<on, "update">> >>
    BY <1>2 DEF Moderating!LockPlan
  <2> QED BY <1>2, <2>1, <2>2 DEF PlanHolds, AuditedRows
<1>3. CASE kind \in Moderating!ConsoleKinds
  <2>1. on \in Moderating!Contents
    BY <1>3 DEF Moderating!Suits
  <2>2. CASE on \in Signals
    <3>1. Moderating!LockPlan(kind, by, on) = << <<on, "update">>, <<by, "key_share">> >>
      BY <1>3, <2>2, ModerationConstants DEF Moderating!LockPlan
    <3> QED BY <1>3, <2>2, <3>1 DEF PlanHolds, AuditedRows
  <2>3. CASE on \in Moderating!Contributions
    <3>1. Moderating!LockPlan(kind, by, on) =
            << <<on, "update">>, <<by, "key_share">>, <<Author[on], "key_share">> >>
      BY <1>3, <2>3, ModerationConstants DEF Moderating!LockPlan
    <3> QED BY <1>3, <2>3, <3>1 DEF PlanHolds, AuditedRows
  <2>4. CASE on \in Moderating!CivicContents
    <3>1. Moderating!LockPlan(kind, by, on) = << <<on, "read">> >>
      BY <1>3, <2>4, ModerationConstants DEF Moderating!LockPlan
    <3> QED BY <1>3, <2>4, <3>1, ModerationConstants DEF PlanHolds, AuditedRows
  <2> QED BY <2>1, <2>2, <2>3, <2>4 DEF Moderating!Contents
<1> QED BY <1>1, <1>2, <1>3 DEF Moderating!Kinds

JobFields(j) ==
    /\ j.kind \in Moderating!Kinds /\ j.by \in Accounts /\ j.on \in Accounts \cup Moderating!Contents
    /\ j.why \in Reasons /\ j.locked \in Nat /\ j.at \in {"read", "audit"}

LEMMA JobsHaveFields ==
    ASSUME NEW j \in Moderating!JobRows
    PROVE  JobFields(j)
BY DEF Moderating!JobRows, JobFields

\* A request has locked a part of what it is to lock.
Locking(j) ==
    /\ Moderating!Suits(j.kind, j.on)
    /\ j.locked <= Len(Moderating!Plan(j))
    /\ j.at = "audit" => j.on \in Moderating!CivicContents

HeldAll(j) ==
    /\ j.kind \in Moderating!AccountKinds \cup Moderating!OwnerKinds => <<j.by, "update">> \in Moderating!Held(j)
    /\ j.on \in AuditedRows => <<j.on, "update">> \in Moderating!Held(j)

LEMMA HeldLocks ==
    ASSUME NEW j \in Moderating!JobRows, Locking(j)
    PROVE  /\ PlanHolds(Moderating!Plan(j), j.kind, j.by, j.on)
           /\ \A lock \in Moderating!Held(j) : lock[2] = "update" => lock[1] \in AuditedRows
           /\ j.locked < Len(Moderating!Plan(j)) \/ HeldAll(j)
<1>1. JobFields(j)
  BY JobsHaveFields
<1>2. PlanHolds(Moderating!Plan(j), j.kind, j.by, j.on)
  BY <1>1, PlansHold DEF JobFields, Locking, Moderating!Plan
<1> DEFINE plan == Moderating!Plan(j)
           n == j.locked
<1>3. /\ n \in Nat /\ Len(plan) \in Nat /\ n <= Len(plan)
      /\ Moderating!Held(j) = {plan[i] : i \in 1..n}
  BY <1>1, <1>2 DEF JobFields, Locking, Moderating!Held, PlanHolds
<1> HIDE DEF plan, n
<1>4. ASSUME NEW lock \in Moderating!Held(j), lock[2] = "update" PROVE lock[1] \in AuditedRows
  <2>1. PICK i \in 1..n : lock = plan[i]
    BY <1>3
  <2>2. i \in 1..Len(plan)
    BY <1>3
  <2> QED BY <1>2, <1>4, <2>1, <2>2 DEF PlanHolds, plan
<1>5. CASE ~(n < Len(plan))
  <2>1. n = Len(plan)
    BY <1>3, <1>5
  <2>2. ASSUME NEW lock, \E i \in 1..Len(plan) : plan[i] = lock PROVE lock \in Moderating!Held(j)
    BY <1>3, <2>1, <2>2
  <2>3. HeldAll(j)
    BY <1>2, <2>2 DEF PlanHolds, HeldAll, plan
  <2> QED BY <1>2, <1>4, <2>3
<1> QED BY <1>2, <1>4, <1>5 DEF plan, n

\* The request with one lock more.
LEMMA OneLockMore ==
    ASSUME NEW j \in Moderating!JobRows, Locking(j), j.locked < Len(Moderating!Plan(j)),
           NEW new, new = [j EXCEPT !.locked = @ + 1]
    PROVE  /\ new \in Moderating!JobRows /\ Locking(new)
           /\ new.kind = j.kind /\ new.by = j.by /\ new.on = j.on
           /\ new.locked = j.locked + 1 /\ Moderating!Plan(new) = Moderating!Plan(j)
           /\ Moderating!Held(new) = Moderating!Held(j) \cup {Moderating!Plan(j)[j.locked + 1]}
<1>1. JobFields(j) /\ Len(Moderating!Plan(j)) \in Nat
  BY JobsHaveFields, HeldLocks DEF PlanHolds
<1>2. /\ new \in Moderating!JobRows
      /\ new.kind = j.kind /\ new.by = j.by /\ new.on = j.on /\ new.at = j.at /\ new.locked = j.locked + 1
  BY DEF Moderating!JobRows
<1>3. Moderating!Plan(new) = Moderating!Plan(j)
  BY <1>2 DEF Moderating!Plan
<1>4. Locking(new)
  BY <1>1, <1>2, <1>3 DEF Locking, JobFields
<1>5. 1..(j.locked + 1) = (1..j.locked) \cup {j.locked + 1}
  BY <1>1 DEF JobFields
<1>6. Moderating!Held(new) = Moderating!Held(j) \cup {Moderating!Plan(j)[j.locked + 1]}
  BY <1>2, <1>3, <1>5 DEF Moderating!Held
<1> QED BY <1>2, <1>3, <1>4, <1>6

-----------------------------------------------------------------------------
(* The requests under way.                                                   *)

\* What a request holds for update it has looked at, two accounts when it holds
\* both; and the row stays what it was then.
Checked(j) ==
    \/ j.kind \in Moderating!AccountKinds /\ j.locked < Len(Moderating!Plan(j))
    \/ \A lock \in Moderating!Held(j) : lock[2] = "update" => ~Moderating!Refused(j, lock[1])

Apart(j, k) ==
    \A a \in Moderating!Held(j), b \in Moderating!Held(k) : ~Moderating!Clash(a, b)

JobsHold ==
    /\ job \in [Requests -> Moderating!JobRows \cup {NoRequest}]
    /\ \A r \in Requests : job[r] # NoRequest => Locking(job[r]) /\ Checked(job[r])
    /\ \A q, r \in Requests : q # r /\ job[q] # NoRequest /\ job[r] # NoRequest => Apart(job[q], job[r])

RowsHold ==
    /\ status \in [Accounts -> {"active", "suspended"}]
    /\ content \in [Moderating!Contents -> [by : Accounts, why : Reasons] \cup {Visible}]

TheActiveModerate ==
    \A i \in DOMAIN records : \A a \in Accounts :
        records[i].kind \in Moderating!AccountKinds \cup Moderating!OwnerKinds /\ records[i].by = a =>
            Moderating!Said(a, i - 1) = "active"
RecordsHold ==
    /\ records \in Seq(Moderating!RecordRows)
    /\ Moderating!RecordsTellTheRows /\ TheActiveModerate

ModInv == RowsHold /\ RecordsHold /\ JobsHold

\* No step changes a row that another request holds for update.
RowStays(row) == Moderating!RowValue(row)' = Moderating!RowValue(row)
RowsStayFor(j) == \A lock \in Moderating!Held(j) : lock[2] = "update" => RowStays(lock[1])

JobTakes(r, new) ==
    /\ job' = [job EXCEPT ![r] = new]
    /\ \A q \in Requests \ {r} : job[q] # NoRequest => RowsStayFor(job[q])
    /\ new # NoRequest => Locking(new) /\ Checked(new)'
    /\ \A q \in Requests \ {r} : new # NoRequest /\ job[q] # NoRequest => Apart(job[q], new)

LEMMA ClashesAreMutual ==
    ASSUME NEW j, NEW k, Apart(j, k)
    PROVE  Apart(k, j)
<1>1. ASSUME NEW a, NEW b, Moderating!Clash(a, b) PROVE Moderating!Clash(b, a)
  BY <1>1 DEF Moderating!Clash, Moderating!Conflict
<1> QED BY <1>1 DEF Apart

LEMMA CheckedStays ==
    ASSUME NEW j, Checked(j), RowsStayFor(j)
    PROVE  Checked(j)'
<1>1. ASSUME NEW row, RowStays(row), ~Moderating!Refused(j, row) PROVE ~Moderating!Refused(j, row)'
  BY <1>1 DEF RowStays, Moderating!Refused
<1> QED BY <1>1 DEF Checked, RowsStayFor

LEMMA JobsGoOn ==
    ASSUME JobsHold, NEW r \in Requests, NEW new \in Moderating!JobRows \cup {NoRequest}, JobTakes(r, new)
    PROVE  JobsHold'
<1>1. /\ job \in [Requests -> Moderating!JobRows \cup {NoRequest}]
      /\ job' = [job EXCEPT ![r] = new]
  BY DEF JobsHold, JobTakes
<1>2. /\ job' \in [Requests -> Moderating!JobRows \cup {NoRequest}]
      /\ job'[r] = new /\ \A q \in Requests \ {r} : job'[q] = job[q]
  BY <1>1
<1>3. ASSUME NEW q \in Requests, job'[q] # NoRequest PROVE Locking(job'[q]) /\ Checked(job[q])'
  <2>1. PICK j : j = job'[q]
    OBVIOUS
  <2>2. Locking(j) /\ Checked(j)'
    <3>1. CASE q = r
      BY <1>2, <1>3, <2>1, <3>1 DEF JobTakes
    <3>2. CASE q # r
      <4>1. job[q] = j /\ j # NoRequest
        BY <1>2, <1>3, <2>1, <3>2
      <4>2. Locking(j) /\ Checked(j)
        BY <4>1 DEF JobsHold
      <4>3. RowsStayFor(j)
        BY <3>2, <4>1 DEF JobTakes
      <4> QED BY <4>2, <4>3, CheckedStays
    <3> QED BY <3>1, <3>2
  <2> QED BY <2>1, <2>2 DEF Checked, Moderating!Refused, Moderating!RowValue
<1>4. ASSUME NEW p \in Requests, NEW q \in Requests, p # q, job'[p] # NoRequest, job'[q] # NoRequest
      PROVE  Apart(job'[p], job'[q])
  <2>1. CASE p # r /\ q # r
    BY <1>2, <1>4, <2>1 DEF JobsHold
  <2>2. CASE q = r
    BY <1>2, <1>4, <2>2 DEF JobTakes
  <2>3. CASE p = r
    <3>1. Apart(job'[q], job'[p])
      BY <1>2, <1>4, <2>3 DEF JobTakes
    <3> QED BY <3>1, ClashesAreMutual
  <2> QED BY <2>1, <2>2, <2>3
<1> QED BY <1>2, <1>3, <1>4 DEF JobsHold

-----------------------------------------------------------------------------
(* What the records tell.                                                    *)

\* The record of a request that found its row as its kind requires.
Follows(e) ==
    /\ IF e.kind \in Moderating!HidingKinds THEN Moderating!RowValue(e.on) = Visible
       ELSE Moderating!Tells(e) # Moderating!RowValue(e.on)
    /\ e.kind \in Moderating!AccountKinds \cup Moderating!OwnerKinds => status[e.by] = "active"

RowsFollow(e) ==
    \A row \in AuditedRows :
        Moderating!RowValue(row)' = IF e.on = row THEN Moderating!Tells(e) ELSE Moderating!RowValue(row)

LEMMA RecordsGoOn ==
    ASSUME RecordsHold, NEW e \in Moderating!RecordRows, records' = Append(records, e), RowsFollow(e),
           e.on \in AuditedRows => Follows(e),
           e.kind \in Moderating!AccountKinds \cup Moderating!OwnerKinds => status[e.by] = "active"
    PROVE  RecordsHold'
<1>1. PICK n \in Nat : n = Len(records)
  BY DEF RecordsHold
<1>2. /\ records \in Seq(Moderating!RecordRows) /\ records' \in Seq(Moderating!RecordRows)
      /\ Len(records') = n + 1 /\ records'[n + 1] = e /\ \A i \in 1..n : records'[i] = records[i]
  BY <1>1 DEF RecordsHold
<1>3. ASSUME NEW row \in AuditedRows
      PROVE  Moderating!RowValue(row) = Moderating!Said(row, n)
  BY <1>1 DEF RecordsHold, Moderating!RecordsTellTheRows, AuditedRows
<1>4. ASSUME NEW row, NEW m \in 0..n
      PROVE  Moderating!Said(row, m)' = Moderating!Said(row, m)
  BY <1>1, <1>2, SaidBefore
<1>5. ASSUME NEW row \in AuditedRows
      PROVE  Moderating!RowValue(row)' = Moderating!Said(row, n + 1)'
  <2>1. Moderating!Said(row, Len(records))' =
            IF e.on = row THEN Moderating!Tells(e) ELSE Moderating!Said(row, Len(records))
    BY <1>2, SaidLast
  <2>2. Moderating!Said(row, n + 1)' = IF e.on = row THEN Moderating!Tells(e) ELSE Moderating!Said(row, n)
    BY <1>1, <1>2, <2>1
  <2> QED BY <1>3, <2>2 DEF RowsFollow
<1>6. ASSUME NEW row \in AuditedRows, NEW i \in Moderating!About(row, n + 1)'
      PROVE  IF records'[i].kind \in Moderating!HidingKinds
             THEN Moderating!Said(row, i - 1)' = Visible
             ELSE Moderating!Said(row, i)' # Moderating!Said(row, i - 1)'
  <2>1. i \in 1..(n + 1) /\ records'[i].on = row
    BY DEF Moderating!About
  <2>2. CASE i = n + 1
    <3>1. e.on = row /\ Follows(e)
      BY <1>2, <2>1, <2>2
    <3>2. Moderating!Said(row, i - 1)' = Moderating!RowValue(row)
      <4>1. i - 1 = n /\ n \in 0..n
        BY <2>2
      <4>2. Moderating!Said(row, n)' = Moderating!Said(row, n)
        BY <1>4, <4>1
      <4> QED BY <1>3, <4>1, <4>2
    <3>3. Moderating!Said(row, i)' = Moderating!Tells(e)
      BY <1>5, <2>2, <3>1 DEF RowsFollow
    <3> QED BY <1>2, <2>2, <3>1, <3>2, <3>3 DEF Follows
  <2>3. CASE i # n + 1
    <3>1. i \in 1..n /\ i \in 0..n /\ i - 1 \in 0..n /\ records'[i] = records[i]
      BY <1>2, <2>1, <2>3
    <3>2. i \in Moderating!About(row, n)
      BY <2>1, <3>1 DEF Moderating!About
    <3>3. IF records[i].kind \in Moderating!HidingKinds
          THEN Moderating!Said(row, i - 1) = Visible
          ELSE Moderating!Said(row, i) # Moderating!Said(row, i - 1)
      BY <1>1, <3>2 DEF RecordsHold, Moderating!RecordsTellTheRows, AuditedRows
    <3>4. /\ Moderating!Said(row, i - 1)' = Moderating!Said(row, i - 1)
          /\ Moderating!Said(row, i)' = Moderating!Said(row, i)
      BY <1>4, <3>1
    <3> QED BY <3>1, <3>3, <3>4
  <2> QED BY <2>2, <2>3
<1>7. Moderating!RecordsTellTheRows'
  BY <1>2, <1>5, <1>6 DEF Moderating!RecordsTellTheRows, AuditedRows
<1>8. TheActiveModerate'
  <2>1. ASSUME NEW i \in 1..(n + 1), NEW a \in Accounts, records'[i].by = a,
               records'[i].kind \in Moderating!AccountKinds \cup Moderating!OwnerKinds
        PROVE  Moderating!Said(a, i - 1)' = "active"
    <3>1. CASE i = n + 1
      <4>1. records'[i] = e /\ i - 1 = n /\ n \in 0..n
        BY <1>2, <3>1
      <4>2. Moderating!Said(a, n) = "active"
        BY <1>3, <2>1, <4>1 DEF AuditedRows, Moderating!RowValue
      <4> QED BY <1>4, <4>1, <4>2
    <3>2. CASE i # n + 1
      <4>1. i \in 1..n /\ i - 1 \in 0..n /\ records'[i] = records[i]
        BY <1>2, <3>2
      <4>2. Moderating!Said(a, i - 1) = "active"
        BY <1>1, <2>1, <4>1 DEF RecordsHold, TheActiveModerate
      <4> QED BY <1>4, <4>1, <4>2
    <3> QED BY <3>1, <3>2
  <2>2. DOMAIN records' = 1..(n + 1)
    BY <1>2
  <2> QED BY <2>1, <2>2 DEF TheActiveModerate
<1> QED BY <1>2, <1>7, <1>8 DEF RecordsHold

\* Nothing recorded, and no row that is audited changes.
LEMMA RecordsStay ==
    ASSUME RecordsHold, records' = records, \A row \in AuditedRows : RowStays(row)
    PROVE  RecordsHold'
<1>1. ASSUME NEW row, NEW n PROVE Moderating!Said(row, n)' = Moderating!Said(row, n)
  BY DEF Moderating!Said, Moderating!About, Moderating!Tells, Moderating!Hidden
<1>2. ASSUME NEW row, NEW n PROVE Moderating!About(row, n)' = Moderating!About(row, n)
  BY DEF Moderating!About
<1>3. Moderating!RecordsTellTheRows'
  BY <1>1, <1>2 DEF RecordsHold, Moderating!RecordsTellTheRows, RowStays, AuditedRows
<1>4. TheActiveModerate'
  BY <1>1 DEF RecordsHold, TheActiveModerate
<1> QED BY <1>3, <1>4 DEF RecordsHold

-----------------------------------------------------------------------------
(* The steps.                                                                *)

LEMMA JobOf ==
    ASSUME JobsHold, NEW r \in Requests, job[r] # NoRequest
    PROVE  /\ job[r] \in Moderating!JobRows /\ JobFields(job[r]) /\ Locking(job[r]) /\ Checked(job[r])
           /\ job \in [Requests -> Moderating!JobRows \cup {NoRequest}]
BY JobsHaveFields DEF JobsHold

\* A request ends: whatever it did, the rows others hold stay what they are.
LEMMA RequestEnds ==
    ASSUME JobsHold, NEW r \in Requests, Moderating!End(r),
           \A q \in Requests \ {r} : job[q] # NoRequest => RowsStayFor(job[q])
    PROVE  JobsHold'
<1>1. JobTakes(r, NoRequest)
  BY DEF JobTakes, Moderating!End
<1> QED BY <1>1, JobsGoOn

LEMMA NothingWritten ==
    ASSUME UNCHANGED <<status, content>>
    PROVE  /\ \A row : RowStays(row)
           /\ \A j : RowsStayFor(j)
           /\ RowsHold => RowsHold'
BY DEF RowStays, RowsStayFor, Moderating!RowValue, RowsHold

LEMMA BeginHolds ==
    ASSUME ModInv, NEW r \in Requests, NEW by \in Accounts, NEW on \in Accounts \cup Moderating!Contents,
           NEW why \in Reasons, Moderating!Request(r, by, on, why)
    PROVE  ModInv'
<1>1. PICK kind \in Moderating!Kinds : Moderating!Suits(kind, on) /\ Moderating!Begin(r, kind, by, on, why)
  <2> USE DEF Moderating!Suits, Moderating!Kinds, Moderating!AccountKinds, Moderating!OwnerKinds,
              Moderating!ConsoleKinds, Moderating!Contents, Moderating!Contributions, Moderating!CivicContents
  <2>1. CASE \/ Moderating!SuspendAccount(r, by, on, why) \/ Moderating!ReactivateAccount(r, by, on, why)
             \/ Moderating!BanAccount(r, by, on, why) \/ Moderating!UnbanAccount(r, by, on, why)
    BY <2>1 DEF Moderating!SuspendAccount, Moderating!ReactivateAccount,
                Moderating!BanAccount, Moderating!UnbanAccount
  <2>2. CASE \/ Moderating!HideSignal(r, by, on, why) \/ Moderating!UnhideSignal(r, by, on, why)
             \/ Moderating!OwnerHideSignal(r, by, on, why) \/ Moderating!OwnerUnhideSignal(r, by, on, why)
    BY <2>2 DEF Moderating!HideSignal, Moderating!UnhideSignal,
                Moderating!OwnerHideSignal, Moderating!OwnerUnhideSignal
  <2>3. CASE \/ Moderating!RejectSubmission(r, by, on, why) \/ Moderating!RestoreSubmission(r, by, on, why)
             \/ Moderating!HideDiscussion(r, by, on, why) \/ Moderating!UnhideDiscussion(r, by, on, why)
    BY <2>3 DEF Moderating!RejectSubmission, Moderating!RestoreSubmission,
                Moderating!HideDiscussion, Moderating!UnhideDiscussion
  <2>4. CASE \/ Moderating!ModerateProposal(r, by, on, why) \/ Moderating!ModerateDeliberation(r, by, on, why)
             \/ Moderating!ModerateEvidence(r, by, on, why)
    BY <2>4 DEF Moderating!ModerateProposal, Moderating!ModerateDeliberation, Moderating!ModerateEvidence
  <2> QED BY <2>1, <2>2, <2>3, <2>4 DEF Moderating!Request
<1>2. PICK new :
        new = [kind |-> kind, by |-> by, on |-> on, why |-> why, locked |-> 0, at |-> "read"]
  OBVIOUS
<1>3. /\ job' = [job EXCEPT ![r] = new]
      /\ status' = status /\ content' = content /\ records' = records
  BY <1>1, <1>2 DEF Moderating!Begin
<1>4. new \in Moderating!JobRows /\ new.locked = 0 /\ new.kind = kind /\ new.on = on /\ new.at = "read"
  BY <1>2 DEF Moderating!JobRows
<1>5. Moderating!Held(new) = {}
  BY <1>4 DEF Moderating!Held
<1>6. Locking(new)
  <2>1. PlanHolds(Moderating!Plan(new), kind, new.by, on)
    BY <1>1, <1>2, <1>4, PlansHold DEF Moderating!Plan
  <2> QED BY <1>1, <1>4, <2>1 DEF Locking, PlanHolds
<1>7. Checked(new)' /\ \A j : Apart(j, new)
  BY <1>5 DEF Checked, Apart
<1>8. JobTakes(r, new)
  BY <1>3, <1>6, <1>7, NothingWritten DEF JobTakes
<1> QED BY <1>3, <1>4, <1>8, JobsGoOn, NothingWritten, RecordsStay DEF ModInv

LEMMA LockHolds ==
    ASSUME ModInv, NEW r \in Requests, Moderating!LockRow(r)
    PROVE  ModInv'
<1>1. /\ status' = status /\ content' = content /\ records' = records
      /\ Moderating!Wants(r) /\ Moderating!Blockers(r) = {}
  BY DEF Moderating!LockRow
<1>2. RowsHold' /\ RecordsHold'
  BY <1>1, NothingWritten, RecordsStay DEF ModInv
<1>3. CASE Moderating!End(r)
  BY <1>1, <1>2, <1>3, NothingWritten, RequestEnds DEF ModInv
<1>4. CASE /\ \A row \in Moderating!LooksAt(r) : ~Moderating!Refused(job[r], row)
           /\ job' = [job EXCEPT ![r].locked = @ + 1]
  <2>1. PICK j \in Moderating!JobRows : j = job[r] /\ j # NoRequest /\ Locking(j) /\ Checked(j)
    BY <1>1, JobOf DEF ModInv, Moderating!Wants, Moderating!Busy
  <2>2. PICK new : new = [j EXCEPT !.locked = @ + 1]
    OBVIOUS
  <2>3. job' = [job EXCEPT ![r] = new]
    BY <1>4, <2>1, <2>2
  <2>4. PICK lock : lock = Moderating!Plan(j)[j.locked + 1]
    OBVIOUS
  <2>5. /\ new \in Moderating!JobRows /\ Locking(new)
        /\ new.kind = j.kind /\ new.by = j.by /\ new.on = j.on
        /\ new.locked = j.locked + 1 /\ Moderating!Plan(new) = Moderating!Plan(j)
        /\ Moderating!Held(new) = Moderating!Held(j) \cup {lock}
    BY <1>1, <2>1, <2>2, <2>4, OneLockMore DEF Moderating!Wants
  <2>6. Checked(new)
    <3>1. ASSUME NEW row PROVE Moderating!Refused(new, row) <=> Moderating!Refused(j, row)
      BY <2>5 DEF Moderating!Refused
    <3>2. CASE j.kind \notin Moderating!AccountKinds
      <4>1. ~Moderating!Refused(j, lock[1])
        BY <1>4, <2>1, <2>4, <3>2 DEF Moderating!LooksAt, Moderating!Wanted
      <4> QED BY <2>1, <2>5, <3>1, <3>2, <4>1 DEF Checked
    <3>3. CASE j.kind \in Moderating!AccountKinds /\ j.locked + 1 < Len(Moderating!Plan(j))
      BY <2>5, <3>3 DEF Checked
    <3>4. CASE j.kind \in Moderating!AccountKinds /\ ~(j.locked + 1 < Len(Moderating!Plan(j)))
      <4>1. ~Moderating!Refused(j, j.by) /\ ~Moderating!Refused(j, j.on)
        BY <1>4, <2>1, <3>4 DEF Moderating!LooksAt
      <4>2. ASSUME NEW row PROVE ~Moderating!Refused(j, row)
        BY <4>1 DEF Moderating!Refused
      <4> QED BY <3>1, <4>2 DEF Checked
    <3> QED BY <3>2, <3>3, <3>4
  <2>7. Checked(new)'
    BY <1>1, <2>6, NothingWritten, CheckedStays
  <2>8. ASSUME NEW q \in Requests \ {r}, job[q] # NoRequest PROVE Apart(job[q], new)
    <3>1. Apart(job[q], j)
      BY <2>1, <2>8 DEF ModInv, JobsHold
    <3>2. \A a \in Moderating!Held(job[q]) : ~Moderating!Clash(a, lock)
      BY <1>1, <2>1, <2>4, <2>8 DEF Moderating!Blockers, Moderating!Busy, Moderating!Wanted
    <3> QED BY <2>5, <3>1, <3>2 DEF Apart
  <2>9. JobTakes(r, new)
    BY <1>1, <2>3, <2>5, <2>7, <2>8, NothingWritten DEF JobTakes
  <2> QED BY <1>2, <2>5, <2>9, JobsGoOn DEF ModInv
<1> QED BY <1>3, <1>4 DEF Moderating!LockRow

\* What a request that is ready has found, and whose rows nobody else holds.
LEMMA ReadyHolds ==
    ASSUME ModInv, NEW r \in Requests, Moderating!Ready(r), NEW j, j = job[r], j.on \in AuditedRows
    PROVE  /\ j \in Moderating!JobRows /\ JobFields(j) /\ Locking(j)
           /\ ~Moderating!Refused(j, j.on)
           /\ j.kind \in Moderating!AccountKinds \cup Moderating!OwnerKinds =>
                status[j.by] = "active"
           /\ \A q \in Requests \ {r} : job[q] # NoRequest =>
                \A lock \in Moderating!Held(job[q]) : lock[2] = "update" => lock[1] # j.on
<1>1. /\ j # NoRequest /\ j \in Moderating!JobRows /\ JobFields(j) /\ Locking(j) /\ Checked(j)
      /\ ~(j.locked < Len(Moderating!Plan(j)))
  BY JobOf DEF ModInv, Moderating!Ready, Moderating!Busy, Moderating!Wants
<1>2. HeldAll(j)
  BY <1>1, HeldLocks
<1>3. ~Moderating!Refused(j, j.on)
  BY <1>1, <1>2 DEF HeldAll, Checked
<1>4. ASSUME j.kind \in Moderating!AccountKinds \cup Moderating!OwnerKinds PROVE status[j.by] = "active"
  <2>1. ~Moderating!Refused(j, j.by)
    BY <1>1, <1>2, <1>4 DEF HeldAll, Checked
  <2> QED BY <1>1, <1>4, <2>1 DEF Moderating!Refused, Moderating!RowValue, JobFields
<1>5. ASSUME NEW q \in Requests \ {r}, job[q] # NoRequest,
             NEW lock \in Moderating!Held(job[q]), lock[2] = "update"
      PROVE  lock[1] # j.on
  <2>1. Apart(job[q], j)
    BY <1>1, <1>5 DEF ModInv, JobsHold
  <2>2. ~Moderating!Clash(lock, <<j.on, "update">>)
    BY <1>2, <1>5, <2>1 DEF HeldAll, Apart
  <2> QED BY <1>5, <2>2 DEF Moderating!Clash, Moderating!Conflict
<1> QED BY <1>1, <1>3, <1>4, <1>5

\* The record of a request, and what it tells.
LEMMA RecordedRow ==
    ASSUME NEW j, JobFields(j), NEW e,
           e = [kind |-> j.kind, by |-> j.by, on |-> j.on, why |-> j.why]
    PROVE  /\ e \in Moderating!RecordRows
           /\ e.kind = j.kind /\ e.by = j.by /\ e.on = j.on
           /\ Moderating!Hidden(j) = Moderating!Hidden(e)
           /\ Moderating!Hidden(j) \in [by : Accounts, why : Reasons] \cup {Visible}
BY DEF JobFields, Moderating!RecordRows, Moderating!Hidden

LEMMA ModerateAccountHolds ==
    ASSUME ModInv, NEW r \in Requests, Moderating!ModerateAccount(r)
    PROVE  ModInv'
<1>1. PICK j : j = job[r]
  OBVIOUS
<1>2. PICK value : value = IF j.kind \in {"suspend", "ban"} THEN "suspended" ELSE "active"
  OBVIOUS
<1>3. PICK e : e = [kind |-> j.kind, by |-> j.by, on |-> j.on, why |-> j.why]
  OBVIOUS
<1>4. /\ Moderating!Ready(r) /\ Moderating!End(r) /\ j.kind \in Moderating!AccountKinds
      /\ status' = [status EXCEPT ![j.on] = value] /\ content' = content
      /\ records' = Append(records, e)
  BY <1>1, <1>2, <1>3 DEF Moderating!ModerateAccount, Moderating!Recorded
<1>5. j \in Moderating!JobRows /\ JobFields(j) /\ Locking(j)
  BY <1>1, <1>4, JobOf DEF ModInv, Moderating!Ready, Moderating!Busy
<1>6. j.on \in Accounts /\ j.on \in AuditedRows
  BY <1>4, <1>5 DEF Locking, Moderating!Suits, Moderating!ConsoleKinds, Moderating!AccountKinds, AuditedRows
<1>7. /\ ~Moderating!Refused(j, j.on)
      /\ status[j.by] = "active"
      /\ \A q \in Requests \ {r} : job[q] # NoRequest =>
           \A lock \in Moderating!Held(job[q]) : lock[2] = "update" => lock[1] # j.on
  BY <1>1, <1>4, <1>6, ReadyHolds
<1>8. /\ status' \in [Accounts -> {"active", "suspended"}]
      /\ status'[j.on] = value /\ \A a \in Accounts \ {j.on} : status'[a] = status[a]
  BY <1>2, <1>4, <1>6 DEF ModInv, RowsHold
<1>9. RowsHold'
  BY <1>4, <1>8 DEF ModInv, RowsHold
<1>10. \A row : row # j.on => RowStays(row)
  BY <1>4, <1>8 DEF RowStays, Moderating!RowValue
<1>11. JobsHold'
  BY <1>4, <1>7, <1>10, RequestEnds DEF ModInv, RowsStayFor
<1>12. /\ e \in Moderating!RecordRows /\ e.kind = j.kind /\ e.by = j.by /\ e.on = j.on
  BY <1>3, <1>5, RecordedRow
<1>13. Moderating!Tells(e) = value
  BY <1>2, <1>4, <1>12 DEF Moderating!Tells, Moderating!AccountKinds
<1>14. RowsFollow(e)
  <2>1. Moderating!RowValue(j.on)' = value
    BY <1>6, <1>8 DEF Moderating!RowValue
  <2> QED BY <1>10, <1>12, <1>13, <2>1 DEF RowsFollow, RowStays
<1>15. Follows(e)
  <2>1. Moderating!RowValue(j.on) \in {"active", "suspended"}
    BY <1>6 DEF ModInv, RowsHold, Moderating!RowValue
  <2>2. value # Moderating!RowValue(j.on)
    BY <1>2, <1>4, <1>7, <2>1 DEF Moderating!Refused, Moderating!AccountKinds
  <2>3. e.kind \notin Moderating!HidingKinds
    BY <1>4, <1>12 DEF Moderating!AccountKinds, Moderating!HidingKinds
  <2> QED BY <1>7, <1>12, <1>13, <2>2, <2>3 DEF Follows
<1>16. RecordsHold'
  BY <1>4, <1>7, <1>12, <1>14, <1>15, RecordsGoOn DEF ModInv
<1> QED BY <1>9, <1>11, <1>16 DEF ModInv

LEMMA ModerateContentHolds ==
    ASSUME ModInv, NEW r \in Requests, Moderating!ModerateContent(r)
    PROVE  ModInv'
<1>1. PICK j : j = job[r]
  OBVIOUS
<1>2. PICK value : value = Moderating!Hidden(j)
  OBVIOUS
<1>3. PICK e : e = [kind |-> j.kind, by |-> j.by, on |-> j.on, why |-> j.why]
  OBVIOUS
<1>4. /\ Moderating!Ready(r) /\ Moderating!End(r) /\ j.on \in Signals \cup Moderating!Contributions
      /\ content' = [content EXCEPT ![j.on] = value] /\ status' = status
      /\ records' = Append(records, e)
  BY <1>1, <1>2, <1>3 DEF Moderating!ModerateContent, Moderating!Recorded
<1>5. j \in Moderating!JobRows /\ JobFields(j) /\ Locking(j)
  BY <1>1, <1>4, JobOf DEF ModInv, Moderating!Ready, Moderating!Busy
<1>6. j.on \in Moderating!Contents /\ j.on \notin Accounts /\ j.on \in AuditedRows
  BY <1>4, ModerationConstants DEF Moderating!Contents, AuditedRows
<1>7. /\ ~Moderating!Refused(j, j.on)
      /\ j.kind \in Moderating!AccountKinds \cup Moderating!OwnerKinds => status[j.by] = "active"
      /\ \A q \in Requests \ {r} : job[q] # NoRequest =>
           \A lock \in Moderating!Held(job[q]) : lock[2] = "update" => lock[1] # j.on
  BY <1>1, <1>4, <1>6, ReadyHolds
<1>8. /\ e \in Moderating!RecordRows /\ e.kind = j.kind /\ e.by = j.by /\ e.on = j.on
      /\ value = Moderating!Hidden(e) /\ value \in [by : Accounts, why : Reasons] \cup {Visible}
  BY <1>2, <1>3, <1>5, RecordedRow
<1>9. /\ content' \in [Moderating!Contents -> [by : Accounts, why : Reasons] \cup {Visible}]
      /\ content'[j.on] = value /\ \A c \in Moderating!Contents \ {j.on} : content'[c] = content[c]
  BY <1>4, <1>6, <1>8 DEF ModInv, RowsHold
<1>10. RowsHold'
  BY <1>4, <1>9 DEF ModInv, RowsHold
<1>11. \A row \in Accounts \cup Moderating!Contents : row # j.on => RowStays(row)
  BY <1>4, <1>9 DEF RowStays, Moderating!RowValue
<1>12. AuditedRows \subseteq Accounts \cup Moderating!Contents
  BY DEF AuditedRows, Moderating!Contents
<1>13. JobsHold'
  <2>1. ASSUME NEW q \in Requests \ {r}, job[q] # NoRequest PROVE RowsStayFor(job[q])
    <3>1. \A lock \in Moderating!Held(job[q]) : lock[2] = "update" => lock[1] \in AuditedRows
      BY <2>1, JobOf, HeldLocks DEF ModInv
    <3> QED BY <1>7, <1>11, <1>12, <2>1, <3>1 DEF RowsStayFor
  <2> QED BY <1>4, <2>1, RequestEnds DEF ModInv
<1>14. j.kind \notin Moderating!AccountKinds
  BY <1>5, <1>6 DEF Locking, Moderating!Suits, Moderating!ConsoleKinds, Moderating!AccountKinds
<1>15. Moderating!Tells(e) = value
  BY <1>8, <1>14 DEF Moderating!Tells, Moderating!AccountKinds
<1>16. RowsFollow(e)
  <2>1. Moderating!RowValue(j.on)' = value
    BY <1>6, <1>9 DEF Moderating!RowValue
  <2> QED BY <1>8, <1>11, <1>12, <1>15, <2>1 DEF RowsFollow, RowStays
<1>17. Follows(e)
  <2>1. CASE j.kind \in Moderating!HidingKinds
    <3>1. Moderating!RowValue(j.on) = Visible
      BY <1>7, <2>1 DEF Moderating!Refused
    <3> QED BY <1>7, <1>8, <2>1, <3>1 DEF Follows
  <2>2. CASE j.kind \notin Moderating!HidingKinds
    <3>1. j.kind \in {"unhide", "owner_unhide"}
      BY <1>5, <1>14, <2>2 DEF JobFields, Moderating!Kinds, Moderating!OwnerKinds, Moderating!AccountKinds,
                               Moderating!ConsoleKinds, Moderating!HidingKinds
    <3>2. Moderating!RowValue(j.on) # Visible
      BY <1>7, <3>1 DEF Moderating!Refused
    <3>3. value = Visible
      BY <1>2, <2>2 DEF Moderating!Hidden
    <3> QED BY <1>7, <1>8, <1>15, <2>2, <3>2, <3>3 DEF Follows
  <2> QED BY <2>1, <2>2
<1>18. RecordsHold'
  BY <1>4, <1>7, <1>8, <1>16, <1>17, RecordsGoOn DEF ModInv
<1> QED BY <1>10, <1>13, <1>18 DEF ModInv

\* Content of the civic process is nobody's lock, and no audited row.
LEMMA CivicContentHolds ==
    ASSUME ModInv, NEW r \in Requests,
           Moderating!WriteCivicContent(r) \/ Moderating!AuditCivicContent(r) \/ Moderating!Abort(r)
    PROVE  ModInv'
<1>1. PICK j \in Moderating!JobRows :
        j = job[r] /\ j # NoRequest /\ JobFields(j) /\ Locking(j) /\ Checked(j)
  BY JobOf DEF ModInv, Moderating!WriteCivicContent, Moderating!AuditCivicContent, Moderating!Abort,
               Moderating!Ready, Moderating!Busy
<1>2. Moderating!CivicContents \subseteq Moderating!Contents
  BY DEF Moderating!Contents
<1>3. AuditedRows \cap Moderating!CivicContents = {} /\ AuditedRows \subseteq Accounts \cup Moderating!Contents
  BY ModerationConstants DEF AuditedRows, Moderating!Contents
<1>4. CASE Moderating!WriteCivicContent(r)
  <2>1. PICK value : value = Moderating!Hidden(j)
    OBVIOUS
  <2>2. PICK new : new = [j EXCEPT !.at = "audit"]
    OBVIOUS
  <2>3. /\ j.on \in Moderating!CivicContents
        /\ content' = [content EXCEPT ![j.on] = value] /\ status' = status /\ records' = records
        /\ job' = [job EXCEPT ![r] = new]
    BY <1>1, <1>4, <2>1, <2>2 DEF Moderating!WriteCivicContent
  <2>4. value \in [by : Accounts, why : Reasons] \cup {Visible}
    BY <1>1, <2>1 DEF JobFields, Moderating!Hidden
  <2>5. /\ content' \in [Moderating!Contents -> [by : Accounts, why : Reasons] \cup {Visible}]
        /\ \A c \in Moderating!Contents \ {j.on} : content'[c] = content[c]
    BY <1>2, <2>3, <2>4 DEF ModInv, RowsHold
  <2>6. RowsHold'
    BY <2>3, <2>5 DEF ModInv, RowsHold
  <2>7. \A row \in AuditedRows : RowStays(row)
    BY <1>3, <2>3, <2>5 DEF RowStays, Moderating!RowValue
  <2>8. RecordsHold'
    BY <2>3, <2>7, RecordsStay DEF ModInv
  <2>9. /\ new \in Moderating!JobRows /\ new.kind = j.kind /\ new.by = j.by /\ new.on = j.on
        /\ new.locked = j.locked
    BY <2>2 DEF Moderating!JobRows
  <2>10. Moderating!Plan(new) = Moderating!Plan(j) /\ Moderating!Held(new) = Moderating!Held(j)
    BY <2>9 DEF Moderating!Plan, Moderating!Held
  <2>11. Locking(new)
    BY <1>1, <2>3, <2>9, <2>10 DEF Locking
  <2>12. Checked(new)
    <3>1. ASSUME NEW row PROVE Moderating!Refused(new, row) <=> Moderating!Refused(j, row)
      BY <2>9 DEF Moderating!Refused
    <3>2. CASE j.kind \in Moderating!AccountKinds /\ j.locked < Len(Moderating!Plan(j))
      BY <2>9, <2>10, <3>2 DEF Checked
    <3>3. CASE ~(j.kind \in Moderating!AccountKinds /\ j.locked < Len(Moderating!Plan(j)))
      BY <1>1, <2>10, <3>1, <3>3 DEF Checked
    <3> QED BY <3>2, <3>3
  <2>13. ASSUME NEW k \in Moderating!JobRows, Locking(k) PROVE RowsStayFor(k)
    BY <2>7, <2>13, HeldLocks DEF RowsStayFor
  <2>14. Checked(new)'
    BY <2>9, <2>11, <2>12, <2>13, CheckedStays
  <2>15. ASSUME NEW q \in Requests \ {r}, job[q] # NoRequest
         PROVE  RowsStayFor(job[q]) /\ Apart(job[q], new)
    <3>1. Apart(job[q], j)
      BY <1>1, <2>15 DEF ModInv, JobsHold
    <3> QED BY <2>10, <2>13, <2>15, <3>1, JobOf DEF ModInv, Apart
  <2>16. JobTakes(r, new)
    BY <2>3, <2>11, <2>14, <2>15 DEF JobTakes
  <2> QED BY <2>6, <2>8, <2>9, <2>16, JobsGoOn DEF ModInv
<1>5. CASE Moderating!AuditCivicContent(r)
  <2>1. PICK e : e = [kind |-> j.kind, by |-> j.by, on |-> j.on, why |-> j.why]
    OBVIOUS
  <2>2. /\ status' = status /\ content' = content /\ records' = Append(records, e)
        /\ Moderating!End(r) /\ j.at = "audit"
    BY <1>1, <1>5, <2>1 DEF Moderating!AuditCivicContent, Moderating!Recorded
  <2>3. /\ e \in Moderating!RecordRows /\ e.kind = j.kind /\ e.by = j.by /\ e.on = j.on
    BY <1>1, <2>1, RecordedRow
  <2>4. e.on \in Moderating!CivicContents /\ e.on \notin AuditedRows
    BY <1>1, <1>3, <2>2, <2>3 DEF Locking
  <2>5. e.kind \notin Moderating!AccountKinds \cup Moderating!OwnerKinds
    BY <1>1, <2>3, <2>4, ModerationConstants
       DEF Locking, Moderating!Suits, Moderating!ConsoleKinds, Moderating!AccountKinds, Moderating!OwnerKinds
  <2>6. RowsFollow(e)
    BY <2>2, <2>4, NothingWritten DEF RowsFollow, RowStays
  <2>7. RecordsHold'
    BY <2>2, <2>3, <2>4, <2>5, <2>6, RecordsGoOn DEF ModInv
  <2> QED BY <2>2, <2>7, NothingWritten, RequestEnds DEF ModInv
<1>6. CASE Moderating!Abort(r)
  <2>1. status' = status /\ content' = content /\ records' = records /\ Moderating!End(r)
    BY <1>6 DEF Moderating!Abort
  <2> QED BY <2>1, NothingWritten, RecordsStay, RequestEnds DEF ModInv
<1> QED BY <1>4, <1>5, <1>6

LEMMA ModStep ==
    ASSUME ModInv, [Moderating!Next]_Moderating!vars
    PROVE  ModInv'
<1>1. CASE UNCHANGED Moderating!vars
  <2>1. status' = status /\ content' = content /\ records' = records /\ job' = job
    BY <1>1 DEF Moderating!vars
  <2>2. JobsHold'
    <3>1. ASSUME NEW r \in Requests, job[r] # NoRequest PROVE Checked(job[r])'
      <4>1. RowsStayFor(job[r])
        BY <2>1 DEF RowsStayFor, RowStays, Moderating!RowValue
      <4> QED BY <2>1, <3>1, <4>1, CheckedStays DEF ModInv, JobsHold
    <3> QED BY <2>1, <3>1 DEF ModInv, JobsHold
  <2> QED BY <2>1, <2>2, NothingWritten, RecordsStay DEF ModInv
<1>2. CASE Moderating!Next
  BY <1>2, BeginHolds, LockHolds, ModerateAccountHolds, ModerateContentHolds, CivicContentHolds DEF Moderating!Next
<1> QED BY <1>1, <1>2

LEMMA ModStarts ==
    ASSUME Moderating!Init
    PROVE  ModInv
<1>1. RowsHold
  BY DEF Moderating!Init, RowsHold
<1>2. records = <<>>
  BY DEF Moderating!Init
<1>3. RecordsHold
  <2>1. ASSUME NEW row \in AuditedRows
        PROVE  /\ Moderating!RowValue(row) = Moderating!Said(row, Len(records))
               /\ Moderating!About(row, Len(records)) = {}
    <3>1. Moderating!About(row, Len(records)) = {}
      BY <1>2 DEF Moderating!About
    <3> QED BY <3>1 DEF Moderating!Init, Moderating!Said, Moderating!RowValue, AuditedRows, Moderating!Contents
  <2> QED BY <1>2, <2>1 DEF RecordsHold, Moderating!RecordsTellTheRows, TheActiveModerate, AuditedRows
<1>4. JobsHold
  BY DEF Moderating!Init, JobsHold
<1> QED BY <1>1, <1>3, <1>4 DEF ModInv

-----------------------------------------------------------------------------
(* What the invariant says.                                                  *)

\* Of the requests that wait for each other, the one that wants the last of the
\* accounts waits for one that holds it, and so wants none.
LEMMA AccountsAreOrdered ==
    ASSUME JobsHold
    PROVE  Moderating!AccountModerationIsOrdered
<1>1. SUFFICES ASSUME NEW D \in SUBSET {r \in Requests : /\ Moderating!Busy(r)
                                                         /\ job[r].kind \in Moderating!AccountKinds},
                      Moderating!Deadlocked(D)
               PROVE  FALSE
  BY DEF Moderating!AccountModerationIsOrdered
<1> DEFINE row(r) == Moderating!Wanted(r)[1]
           W == {row(r) : r \in D}
<1>2. ASSUME NEW r \in D
      PROVE  /\ r \in Requests /\ Moderating!Wants(r) /\ JobFields(job[r])
             /\ PlanHolds(Moderating!Plan(job[r]), job[r].kind, job[r].by, job[r].on)
             /\ job[r].kind \in Moderating!AccountKinds
  <2>1. r \in Requests /\ job[r] # NoRequest /\ job[r].kind \in Moderating!AccountKinds
    BY DEF Moderating!Busy
  <2>2. Moderating!Wants(r)
    BY <1>1 DEF Moderating!Deadlocked, Moderating!Blockers
  <2> QED BY <2>1, <2>2, JobOf, HeldLocks
<1>3. ASSUME NEW r \in D
      PROVE  /\ row(r) \in Accounts
             /\ \A lock \in Moderating!Held(job[r]) : lock[1] \in Accounts /\ lock[1] < row(r)
  <2>1. PICK plan, n : plan = Moderating!Plan(job[r]) /\ n = job[r].locked
    OBVIOUS
  <2>2. /\ n \in Nat /\ Len(plan) \in Nat /\ n < Len(plan)
        /\ row(r) = plan[n + 1][1] /\ Moderating!Held(job[r]) = {plan[i] : i \in 1..n}
    BY <1>2, <2>1 DEF JobFields, PlanHolds, Moderating!Wants, Moderating!Wanted, Moderating!Held
  <2>3. /\ \A i \in 1..Len(plan) : plan[i][1] \in Accounts
        /\ \A i, k \in 1..Len(plan) : i < k => plan[i][1] < plan[k][1]
    BY <1>2, <2>1 DEF PlanHolds
  <2>4. n + 1 \in 1..Len(plan) /\ \A i \in 1..n : i \in 1..Len(plan) /\ i < n + 1
    BY <2>2
  <2> QED BY <2>2, <2>3, <2>4
<1> HIDE DEF row
<1>4. PICK m : m \in W /\ \A y \in W : y <= m
  <2>1. W \subseteq Accounts /\ W # {}
    BY <1>1, <1>3 DEF Moderating!Deadlocked
  <2>2. W \subseteq Nat /\ IsFiniteSet(W)
    BY <2>1, ModerationConstants, FS_Subset
  <2> QED BY <2>1, <2>2, HasMax
<1>5. PICK r \in D : row(r) = m
  BY <1>4
<1>6. PICK q \in D : \E lock \in Moderating!Held(job[q]) : lock[1] = m
  <2>1. PICK q \in D : q \in Moderating!Blockers(r)
    BY <1>1 DEF Moderating!Deadlocked
  <2>2. \E lock \in Moderating!Held(job[q]) : Moderating!Clash(lock, Moderating!Wanted(r))
    BY <2>1 DEF Moderating!Blockers
  <2> QED BY <1>5, <2>2 DEF Moderating!Clash, row
<1>7. m \in Nat /\ row(q) \in Nat /\ m < row(q) /\ row(q) <= m
  BY <1>3, <1>4, <1>5, <1>6, ModerationConstants
<1> QED BY <1>7

LEMMA ModInvImplies ==
    ASSUME ModInv
    PROVE  /\ Moderating!TypeOK /\ Moderating!RecordsTellTheRows
           /\ Moderating!TheSuspendedDoNotModerate /\ Moderating!AccountModerationIsOrdered
<1>1. Moderating!TypeOK
  BY JobOf DEF ModInv, RowsHold, RecordsHold, JobsHold, Locking, Apart, Moderating!TypeOK, Moderating!Busy
<1>2. Moderating!TheSuspendedDoNotModerate
  <2>1. ASSUME NEW i \in DOMAIN records PROVE records[i].by \in Accounts
    <3>1. records[i] \in Moderating!RecordRows
      BY DEF ModInv, RecordsHold
    <3> QED BY <3>1 DEF Moderating!RecordRows
  <2> QED BY <2>1 DEF ModInv, RecordsHold, TheActiveModerate, Moderating!TheSuspendedDoNotModerate
<1> QED BY <1>1, <1>2, AccountsAreOrdered DEF ModInv, RecordsHold

LEMMA ModInvariant == Moderating!Spec => []ModInv
<1>1. ModInv /\ [Moderating!Next]_Moderating!vars => ModInv'
  BY ModStep
<1> QED BY <1>1, ModStarts, PTL DEF Moderating!Spec

-----------------------------------------------------------------------------
(* The operators, and the bootstrap of the first.                            *)

USE DEF Staffing!Roles, Staffing!OperatorRows, Staffing!ActiveRequirements

TaskRows == [kind : {"grant", "revoke"}, by : Accounts \cup {Tool}, on : Accounts, role : Staffing!Roles,
             seen : Staffing!OperatorRows \cup {NoRow}, at : {"write", "audit"}]
IsOperator(a) == operator[a] # NoRow

\* The row a request has seen is still there.
TaskHolds(j) == (j.seen # NoRow \/ j.kind = "revoke") => IsOperator(j.on)
TasksHold ==
    /\ tasks \in [Requests -> TaskRows \cup {NoRequest}]
    /\ \A r \in Requests : tasks[r] # NoRequest => TaskHolds(tasks[r])
OperatorsHold ==
    /\ operator \in [Accounts -> Staffing!OperatorRows \cup {NoRow}]
    /\ audits \subseteq [action : {"grant", "revoke"}, on : Accounts]

\* How far the bootstrap has come: past the password an active account is
\* complete, and past the owner's mark the candidate is an owner.
PastPassword == {"to_passkey", "handle", "actor", "activate", "owner", "operator", "audit"}
AccountHolds ==
    /\ standing \in {"none", "pending_email", "pending_password", "pending_passkey", "active", "suspended"}
    /\ factors \subseteq Staffing!ActiveRequirements
    /\ standing = "active" => Staffing!ActiveRequirements \ {"password"} \subseteq factors
ScriptHolds ==
    /\ script \in Staffing!Statements /\ owner \subseteq {Candidate}
    /\ script \in PastPassword /\ standing = "active" => factors = Staffing!ActiveRequirements
    /\ script \in {"operator", "audit"} => Candidate \in owner
    /\ script = "audit" => IsOperator(Candidate)

StaffInv == TasksHold /\ OperatorsHold /\ AccountHolds /\ ScriptHolds

LEMMA StaffConstants ==
    Candidate \in Accounts /\ FirstAdmin \subseteq Accounts /\ NoRow \notin Staffing!OperatorRows
BY PlatformAssumption DEF Staffing!OperatorsAssumption

LEMMA TaskFields ==
    ASSUME NEW j \in TaskRows
    PROVE  /\ j.kind \in {"grant", "revoke"} /\ j.on \in Accounts /\ j.role \in Staffing!Roles
           /\ j.seen \in Staffing!OperatorRows \cup {NoRow} /\ j.at \in {"write", "audit"}
BY DEF TaskRows

LEMMA StaffInvImplies ==
    ASSUME StaffInv
    PROVE  Staffing!TypeOK
<1>1. ASSUME NEW r \in Requests, tasks[r] # NoRequest
      PROVE  tasks[r].at \in {"write", "audit"} /\ tasks[r].on \in Accounts
  BY <1>1, TaskFields DEF StaffInv, TasksHold
<1> QED BY <1>1 DEF StaffInv, OperatorsHold, AccountHolds, ScriptHolds, Staffing!TypeOK

LEMMA StaffStarts ==
    ASSUME Staffing!Init
    PROVE  StaffInv
<1>1. TasksHold
  BY DEF Staffing!Init, TasksHold
<1>2. OperatorsHold
  BY DEF Staffing!Init, OperatorsHold
<1>3. AccountHolds /\ ScriptHolds
  BY DEF Staffing!Init, AccountHolds, ScriptHolds, Staffing!Statements, PastPassword
<1> QED BY <1>1, <1>2, <1>3 DEF StaffInv

-----------------------------------------------------------------------------
\* No row of an operator is ever removed; one request moves.
OperatorsStay == \A a \in Accounts : IsOperator(a) => IsOperator(a)'
TaskStep ==
    \/ tasks' = tasks
    \/ \E r \in Requests : tasks' = [tasks EXCEPT ![r] = NoRequest]
    \/ \E r \in Requests : \E new \in TaskRows :
           tasks' = [tasks EXCEPT ![r] = new] /\ TaskHolds(new)'

LEMMA TasksGoOn ==
    ASSUME TasksHold, OperatorsStay, TaskStep
    PROVE  TasksHold'
<1>1. tasks \in [Requests -> TaskRows \cup {NoRequest}]
  BY DEF TasksHold
<1>2. ASSUME NEW r \in Requests, NEW j \in TaskRows, tasks[r] = j, j # NoRequest
      PROVE  TaskHolds(j)'
  <2>1. TaskHolds(j) /\ j.on \in Accounts
    BY <1>2, TaskFields DEF TasksHold
  <2> QED BY <2>1 DEF TaskHolds, OperatorsStay
<1>3. ASSUME NEW q \in Requests, NEW new \in TaskRows \cup {NoRequest},
             tasks' = [tasks EXCEPT ![q] = new], new # NoRequest => TaskHolds(new)'
      PROVE  TasksHold'
  <2>1. tasks' \in [Requests -> TaskRows \cup {NoRequest}]
    BY <1>1, <1>3
  <2>2. ASSUME NEW r \in Requests, tasks'[r] # NoRequest PROVE TaskHolds(tasks[r])'
    <3>1. CASE r = q
      <4>1. tasks'[r] = new
        BY <1>1, <1>3, <3>1
      <4> QED BY <1>3, <2>2, <4>1 DEF TaskHolds, IsOperator
    <3>2. CASE r # q
      <4>1. PICK j \in TaskRows : tasks[r] = j /\ tasks'[r] = j /\ j # NoRequest
        BY <1>1, <1>3, <2>2, <3>2
      <4>2. TaskHolds(j)'
        BY <1>2, <4>1
      <4> QED BY <4>1, <4>2 DEF TaskHolds, IsOperator
    <3> QED BY <3>1, <3>2
  <2> QED BY <2>1, <2>2 DEF TasksHold
<1>4. CASE tasks' = tasks
  <2>1. ASSUME NEW r \in Requests, tasks'[r] # NoRequest PROVE TaskHolds(tasks[r])'
    <3>1. PICK j \in TaskRows : tasks[r] = j /\ tasks'[r] = j /\ j # NoRequest
      BY <1>1, <1>4, <2>1
    <3>2. TaskHolds(j)'
      BY <1>2, <3>1
    <3> QED BY <3>1, <3>2 DEF TaskHolds, IsOperator
  <2> QED BY <1>1, <1>4, <2>1 DEF TasksHold
<1> QED BY <1>3, <1>4 DEF TaskStep

LEMMA OperatorWritten ==
    ASSUME OperatorsHold, NEW a \in Accounts, NEW row \in Staffing!OperatorRows,
           operator' = [operator EXCEPT ![a] = row]
    PROVE  /\ operator' \in [Accounts -> Staffing!OperatorRows \cup {NoRow}]
           /\ OperatorsStay /\ IsOperator(a)'
BY StaffConstants DEF OperatorsHold, OperatorsStay, IsOperator

\* Where a role alone changes, revocation stays what it is.
Keeps(seen, row, old) == seen # NoRow /\ ~seen.revoked => row.revoked = old.revoked

\* What an upsert writes is a row.
LEMMA UpsertedRow ==
    ASSUME NEW seen \in Staffing!OperatorRows \cup {NoRow}, NEW role \in Staffing!Roles,
           NEW old \in Staffing!OperatorRows \cup {NoRow},
           seen # NoRow => old # NoRow
    PROVE  /\ Staffing!Upserted(seen, role, old) \in Staffing!OperatorRows
           /\ Keeps(seen, Staffing!Upserted(seen, role, old), old)
<1>1. CASE seen # NoRow /\ ~seen.revoked
  <2>1. Staffing!Upserted(seen, role, old) = [old EXCEPT !.role = role]
    BY <1>1 DEF Staffing!Upserted
  <2>2. old \in Staffing!OperatorRows
    BY <1>1
  <2> QED BY <2>1, <2>2 DEF Keeps
<1>2. CASE ~(seen # NoRow /\ ~seen.revoked)
  <2>1. Staffing!Upserted(seen, role, old) = [role |-> role, revoked |-> FALSE]
    BY <1>2 DEF Staffing!Upserted
  <2>2. [role |-> role, revoked |-> FALSE] \in Staffing!OperatorRows
    OBVIOUS
  <2>3. Staffing!Upserted(seen, role, old) \in Staffing!OperatorRows
    BY <2>1, <2>2
  <2> QED BY <1>2, <2>3, Zenon DEF Keeps
<1> QED BY <1>1, <1>2

\* A revoked operator comes back by the bootstrap or by a grant that saw it.
Restores == Staffing!OnlyAGrantRestores

LEMMA NobodyRestored ==
    ASSUME operator' = operator
    PROVE  OperatorsStay /\ Restores
BY DEF OperatorsStay, IsOperator, Restores, Staffing!OnlyAGrantRestores, Staffing!Active

LEMMA RequestHolds ==
    ASSUME StaffInv, NEW r \in Requests, Staffing!Request(r)
    PROVE  StaffInv' /\ Restores /\ Staffing!BootstrapCompletes
<1>1. UNCHANGED <<standing, factors, owner, script>>
  BY DEF Staffing!Request, Staffing!Begin, Staffing!GrantOperator, Staffing!RevokeOperator,
         Staffing!AuditOperator, Staffing!LoseRequest, Staffing!account
<1>2. /\ tasks \in [Requests -> TaskRows \cup {NoRequest}]
      /\ operator \in [Accounts -> Staffing!OperatorRows \cup {NoRow}]
  BY DEF StaffInv, TasksHold, OperatorsHold
<1>3. ASSUME OperatorsStay, OperatorsHold', TaskStep, Restores
      PROVE  StaffInv' /\ Restores /\ Staffing!BootstrapCompletes
  <2>1. TasksHold'
    BY <1>3, TasksGoOn DEF StaffInv
  <2>2. AccountHolds' /\ ScriptHolds'
    BY <1>1, <1>3, StaffConstants DEF StaffInv, AccountHolds, ScriptHolds, OperatorsStay
  <2>3. Staffing!BootstrapCompletes
    BY <1>1 DEF Staffing!BootstrapCompletes
  <2> QED BY <1>3, <2>1, <2>2, <2>3 DEF StaffInv
<1>4. ASSUME NEW kind \in {"grant", "revoke"}, NEW by \in Accounts \cup {Tool}, NEW on \in Accounts,
             NEW role \in Staffing!Roles, Staffing!Begin(r, kind, by, on, role)
      PROVE  StaffInv' /\ Restores /\ Staffing!BootstrapCompletes
  <2> DEFINE new == [kind |-> kind, by |-> by, on |-> on, role |-> role, seen |-> operator[on], at |-> "write"]
  <2>1. tasks' = [tasks EXCEPT ![r] = new] /\ operator' = operator /\ audits' = audits
    BY <1>4 DEF Staffing!Begin
  <2>2. new \in TaskRows /\ new.seen = operator[on] /\ new.kind = kind /\ new.on = on
    BY <1>2 DEF TaskRows
  <2>3. kind = "revoke" => operator[on] # NoRow
    BY <1>4 DEF Staffing!Begin, Staffing!Active
  <2> HIDE DEF new
  <2>4. PICK row \in TaskRows : row = new /\ tasks' = [tasks EXCEPT ![r] = row]
    BY <2>1, <2>2
  <2>5. TaskHolds(row)'
    BY <2>1, <2>2, <2>3, <2>4 DEF TaskHolds, IsOperator
  <2>6. OperatorsHold'
    BY <2>1 DEF StaffInv, OperatorsHold
  <2> QED BY <1>3, <2>1, <2>4, <2>5, <2>6, NobodyRestored DEF TaskStep
<1>5. ASSUME tasks[r] # NoRequest
      PROVE  tasks[r] \in TaskRows /\ TaskHolds(tasks[r])
  BY <1>2, <1>5 DEF StaffInv, TasksHold
<1>6. CASE Staffing!GrantOperator(r)
  <2>1. PICK j \in TaskRows : tasks[r] = j /\ TaskHolds(j) /\ j.kind = "grant" /\ j # NoRequest
    BY <1>5, <1>6 DEF Staffing!GrantOperator
  <2>2. j.on \in Accounts /\ j.role \in Staffing!Roles /\ j.seen \in Staffing!OperatorRows \cup {NoRow}
    BY TaskFields
  <2>3. CASE tasks' = [tasks EXCEPT ![r] = NoRequest] /\ UNCHANGED operator
    <3>1. OperatorsHold'
      BY <1>6, <2>3 DEF Staffing!GrantOperator, StaffInv, OperatorsHold
    <3> QED BY <1>3, <2>3, <3>1, NobodyRestored DEF TaskStep
  <2>4. CASE /\ j.seen = NoRow => operator[j.on] = NoRow
             /\ operator' = [operator EXCEPT ![j.on] = Staffing!Upserted(j.seen, j.role, operator[j.on])]
             /\ tasks' = [tasks EXCEPT ![r].at = "audit"]
    <3>1. PICK row \in Staffing!OperatorRows :
            /\ operator' = [operator EXCEPT ![j.on] = row]
            /\ Keeps(j.seen, row, operator[j.on])
      <4>1. j.seen # NoRow => operator[j.on] # NoRow
        BY <2>1 DEF TaskHolds, IsOperator
      <4>2. operator[j.on] \in Staffing!OperatorRows \cup {NoRow}
        BY <1>2, <2>2
      <4>3. Staffing!Upserted(j.seen, j.role, operator[j.on]) \in Staffing!OperatorRows
        BY <2>2, <4>1, <4>2, UpsertedRow, Zenon
      <4>4. Keeps(j.seen, Staffing!Upserted(j.seen, j.role, operator[j.on]), operator[j.on])
        BY <2>2, <4>1, <4>2, UpsertedRow, Zenon
      <4> QED BY <2>4, <4>3, <4>4, Zenon
    <3>2. OperatorsStay /\ IsOperator(j.on)' /\ OperatorsHold'
      BY <1>6, <2>2, <3>1, OperatorWritten DEF StaffInv, Staffing!GrantOperator, OperatorsHold
    <3>3. TaskStep
      <4> DEFINE new == [j EXCEPT !.at = "audit"]
      <4>1. tasks' = [tasks EXCEPT ![r] = new]
        BY <1>2, <2>1, <2>4
      <4>2. new \in TaskRows /\ new.on = j.on
        BY DEF TaskRows
      <4> HIDE DEF new
      <4>3. PICK n \in TaskRows : tasks' = [tasks EXCEPT ![r] = n] /\ n.on = j.on
        BY <4>1, <4>2
      <4>4. TaskHolds(n)'
        BY <3>2, <4>3 DEF TaskHolds, IsOperator
      <4> QED BY <4>3, <4>4 DEF TaskStep
    <3>4. Restores
      <4>1. SUFFICES ASSUME NEW a \in Accounts, ~Staffing!Active(a), operator[a] # NoRow, Staffing!Active(a)'
                     PROVE  j.on = a /\ j.seen # NoRow /\ j.seen.revoked
        BY <2>1 DEF Restores, Staffing!OnlyAGrantRestores
      <4>2. operator[a].revoked /\ operator[a] \in Staffing!OperatorRows /\ ~operator'[a].revoked
        BY <1>2, <4>1 DEF Staffing!Active
      <4>3. a = j.on
        BY <1>2, <3>1, <4>2
      <4>4. operator'[a] = row
        BY <1>2, <3>1, <4>3
      <4> QED BY <2>2, <2>4, <3>1, <4>1, <4>2, <4>3, <4>4 DEF Keeps
    <3> QED BY <1>3, <3>2, <3>3, <3>4
  <2> QED BY <1>6, <2>1, <2>3, <2>4 DEF Staffing!GrantOperator
<1>7. CASE Staffing!RevokeOperator(r)
  <2>1. PICK j \in TaskRows : tasks[r] = j /\ TaskHolds(j) /\ j.kind = "revoke" /\ j # NoRequest
    BY <1>5, <1>7 DEF Staffing!RevokeOperator
  <2>2. j.on \in Accounts /\ operator[j.on] \in Staffing!OperatorRows
    BY <1>2, <2>1, TaskFields DEF TaskHolds, IsOperator
  <2> DEFINE row == [operator[j.on] EXCEPT !.revoked = TRUE]
  <2>3. operator' = [operator EXCEPT ![j.on] = row]
    BY <1>2, <1>7, <2>1, <2>2 DEF Staffing!RevokeOperator
  <2>4. row \in Staffing!OperatorRows /\ row.revoked
    BY <2>2
  <2> HIDE DEF row
  <2>5. OperatorsStay /\ IsOperator(j.on)' /\ OperatorsHold'
    BY <1>7, <2>2, <2>3, <2>4, OperatorWritten DEF StaffInv, Staffing!RevokeOperator, OperatorsHold
  <2>6. TaskStep
    <3> DEFINE new == [j EXCEPT !.at = "audit"]
    <3>1. tasks' = [tasks EXCEPT ![r] = new]
      BY <1>2, <1>7, <2>1 DEF Staffing!RevokeOperator
    <3>2. new \in TaskRows /\ new.on = j.on
      BY DEF TaskRows
    <3> HIDE DEF new
    <3>3. PICK n \in TaskRows : tasks' = [tasks EXCEPT ![r] = n] /\ n.on = j.on
      BY <3>1, <3>2
    <3>4. TaskHolds(n)'
      BY <2>5, <3>3 DEF TaskHolds, IsOperator
    <3> QED BY <3>3, <3>4 DEF TaskStep
  <2>7. Restores
    <3>1. ASSUME NEW a \in Accounts, ~Staffing!Active(a), operator[a] # NoRow, Staffing!Active(a)'
          PROVE  FALSE
      <4>1. a # j.on
        BY <1>2, <2>3, <2>4, <3>1 DEF Staffing!Active
      <4>2. operator'[a] = operator[a]
        BY <1>2, <2>3, <4>1
      <4> QED BY <3>1, <4>2 DEF Staffing!Active
    <3> QED BY <3>1 DEF Restores, Staffing!OnlyAGrantRestores
  <2> QED BY <1>3, <2>5, <2>6, <2>7
<1>8. CASE Staffing!AuditOperator(r)
  <2>1. /\ tasks' = [tasks EXCEPT ![r] = NoRequest] /\ operator' = operator
        /\ audits' = audits \cup {[action |-> tasks[r].kind, on |-> tasks[r].on]}
    BY <1>8 DEF Staffing!AuditOperator, Staffing!account
  <2>2. tasks[r].kind \in {"grant", "revoke"} /\ tasks[r].on \in Accounts
    BY <1>5, <1>8, TaskFields DEF Staffing!AuditOperator
  <2>3. OperatorsHold'
    BY <2>1, <2>2 DEF StaffInv, OperatorsHold
  <2> QED BY <1>3, <2>1, <2>3, NobodyRestored DEF TaskStep
<1>9. CASE Staffing!LoseRequest(r)
  <2>1. tasks' = [tasks EXCEPT ![r] = NoRequest] /\ operator' = operator /\ audits' = audits
    BY <1>9 DEF Staffing!LoseRequest
  <2>2. OperatorsHold'
    BY <2>1 DEF StaffInv, OperatorsHold
  <2> QED BY <1>3, <2>1, <2>2, NobodyRestored DEF TaskStep
<1> QED BY <1>4, <1>6, <1>7, <1>8, <1>9 DEF Staffing!Request

LEMMA AccountMoves ==
    ASSUME StaffInv, Staffing!RegisterPasskey \/ Staffing!ModerateCandidate
    PROVE  StaffInv' /\ Restores /\ Staffing!BootstrapCompletes
<1>1. UNCHANGED <<owner, operator, audits, script, tasks>>
  BY DEF Staffing!RegisterPasskey, Staffing!ModerateCandidate
<1>2. AccountHolds'
  BY DEF Staffing!RegisterPasskey, Staffing!ModerateCandidate, StaffInv, AccountHolds
<1>3. ScriptHolds'
  <2>1. CASE Staffing!RegisterPasskey
    BY <1>1, <2>1 DEF Staffing!RegisterPasskey, StaffInv, ScriptHolds, IsOperator
  <2>2. CASE Staffing!ModerateCandidate
    BY <1>1, <2>2 DEF Staffing!ModerateCandidate, StaffInv, AccountHolds, ScriptHolds, IsOperator
  <2> QED BY <2>1, <2>2
<1>4. TasksHold' /\ OperatorsHold'
  BY <1>1, NobodyRestored, TasksGoOn DEF TaskStep, StaffInv, OperatorsHold
<1>5. Staffing!BootstrapCompletes
  BY <1>1 DEF Staffing!BootstrapCompletes
<1> QED BY <1>1, <1>2, <1>3, <1>4, <1>5, NobodyRestored DEF StaffInv

LEMMA BootstrapHolds ==
    ASSUME StaffInv, Staffing!Bootstrap
    PROVE  StaffInv' /\ Restores /\ Staffing!BootstrapCompletes
<1> USE DEF Staffing!At, Staffing!Goto
<1>1. /\ standing \in {"none", "pending_email", "pending_password", "pending_passkey", "active", "suspended"}
      /\ factors \subseteq Staffing!ActiveRequirements
      /\ standing = "active" => Staffing!ActiveRequirements \ {"password"} \subseteq factors
  BY DEF StaffInv, AccountHolds
<1>2. /\ script \in Staffing!Statements /\ owner \subseteq {Candidate}
      /\ script \in PastPassword /\ standing = "active" => factors = Staffing!ActiveRequirements
      /\ script \in {"operator", "audit"} => Candidate \in owner
      /\ script = "audit" => IsOperator(Candidate)
  BY DEF StaffInv, ScriptHolds
<1>3. tasks' = tasks
  BY DEF Staffing!Bootstrap, Staffing!StartBootstrap, Staffing!CreateAccount, Staffing!VerifyEmail,
         Staffing!ConfirmEmail, Staffing!RevokePassword, Staffing!CreatePassword, Staffing!AwaitPasskey,
         Staffing!EnsureWebAuthnUserHandle, Staffing!EnsureLinkedCivicActor, Staffing!Activate,
         Staffing!MarkAccountOwner, Staffing!BootstrapOperator, Staffing!AuditBootstrap,
         Staffing!KillBootstrap, Staffing!account
\* Statements that leave the operators alone.
<1>4. ASSUME operator' = operator, OperatorsHold', AccountHolds', ScriptHolds',
             script' = "done" => script = "done" \/ script = "audit",
             UNCHANGED <<standing, factors>> \/ script' # "done",
             owner' = owner \/ script' # "done"
      PROVE  StaffInv' /\ Restores /\ Staffing!BootstrapCompletes
  <2>1. TasksHold'
    BY <1>3, <1>4, NobodyRestored, TasksGoOn DEF TaskStep, StaffInv
  <2>2. Staffing!BootstrapCompletes
    BY <1>2, <1>4 DEF Staffing!BootstrapCompletes, PastPassword, IsOperator
  <2> QED BY <1>4, <2>1, <2>2, NobodyRestored DEF StaffInv
<1>5. CASE Staffing!StartBootstrap \/ Staffing!KillBootstrap
  <2>1. UNCHANGED <<standing, factors, owner, operator, audits>> /\ script' \in {"create", "status", "verify", "idle"}
    BY <1>5 DEF Staffing!StartBootstrap, Staffing!KillBootstrap, Staffing!account
  <2>2. OperatorsHold' /\ AccountHolds'
    BY <2>1 DEF StaffInv, OperatorsHold, AccountHolds
  <2>3. ScriptHolds'
    BY <1>2, <2>1 DEF ScriptHolds, Staffing!Statements, PastPassword
  <2> QED BY <1>4, <2>1, <2>2, <2>3
<1>6. CASE \/ Staffing!CreateAccount \/ Staffing!VerifyEmail \/ Staffing!ConfirmEmail
           \/ Staffing!RevokePassword \/ Staffing!CreatePassword \/ Staffing!AwaitPasskey
  <2>1. /\ operator' = operator /\ audits' = audits /\ owner' = owner
        /\ script' \in {"verify", "status", "revoke_password", "handle", "password", "to_passkey"}
    BY <1>6 DEF Staffing!CreateAccount, Staffing!VerifyEmail,
         Staffing!ConfirmEmail, Staffing!RevokePassword, Staffing!CreatePassword, Staffing!AwaitPasskey
  <2>2. OperatorsHold'
    BY <2>1 DEF StaffInv, OperatorsHold
  <2>3. AccountHolds'
    BY <1>1, <1>6 DEF AccountHolds, Staffing!CreateAccount, Staffing!VerifyEmail,
         Staffing!ConfirmEmail, Staffing!RevokePassword, Staffing!CreatePassword, Staffing!AwaitPasskey
  <2>4. script' \in PastPassword /\ standing' = "active" => factors' = Staffing!ActiveRequirements
    <3>1. CASE Staffing!CreateAccount \/ Staffing!VerifyEmail \/ Staffing!ConfirmEmail
      BY <3>1 DEF PastPassword, Staffing!CreateAccount, Staffing!VerifyEmail, Staffing!ConfirmEmail
    <3>2. CASE Staffing!RevokePassword
      BY <3>2 DEF PastPassword, Staffing!RevokePassword
    <3>3. CASE Staffing!CreatePassword
      BY <1>1, <3>3 DEF PastPassword, Staffing!CreatePassword
    <3>4. CASE Staffing!AwaitPasskey
      BY <1>1, <1>2, <3>4 DEF PastPassword, Staffing!AwaitPasskey
    <3> QED BY <1>6, <3>1, <3>2, <3>3, <3>4
  <2>5. ScriptHolds'
    BY <1>2, <2>1, <2>4 DEF ScriptHolds, Staffing!Statements
  <2> QED BY <1>4, <2>1, <2>2, <2>3, <2>5
<1>7. CASE Staffing!EnsureWebAuthnUserHandle \/ Staffing!EnsureLinkedCivicActor \/ Staffing!Activate
  <2>1. /\ operator' = operator /\ audits' = audits /\ owner' = owner
        /\ script' \in {"actor", "activate", "owner", "failed"} /\ script \in PastPassword
    BY <1>7 DEF Staffing!EnsureWebAuthnUserHandle, Staffing!EnsureLinkedCivicActor, Staffing!Activate, PastPassword
  <2>2. OperatorsHold'
    BY <2>1 DEF StaffInv, OperatorsHold
  <2>3. AccountHolds' /\ (standing' = "active" => factors' = Staffing!ActiveRequirements)
    BY <1>1, <1>2, <1>7, <2>1 DEF AccountHolds, Staffing!EnsureWebAuthnUserHandle,
         Staffing!EnsureLinkedCivicActor, Staffing!Activate
  <2>4. ScriptHolds'
    BY <1>2, <2>1, <2>3 DEF ScriptHolds, Staffing!Statements
  <2> QED BY <1>4, <2>1, <2>2, <2>3, <2>4
<1>8. CASE Staffing!MarkAccountOwner
  <2>1. /\ UNCHANGED <<standing, factors, operator, audits>> /\ script = "owner" /\ script' = "operator"
        /\ owner' = owner \cup {Candidate}
    BY <1>8 DEF Staffing!MarkAccountOwner
  <2>2. OperatorsHold' /\ AccountHolds'
    BY <2>1 DEF StaffInv, OperatorsHold, AccountHolds
  <2>3. ScriptHolds'
    BY <1>2, <2>1 DEF ScriptHolds, Staffing!Statements, PastPassword
  <2> QED BY <1>4, <2>1, <2>2, <2>3
<1>9. CASE Staffing!BootstrapOperator
  <2>1. /\ UNCHANGED <<standing, factors, owner, audits>> /\ script = "operator" /\ script' \in {"done", "audit"}
        /\ operator' = [operator EXCEPT ![Candidate] =
               Staffing!Upserted(operator[Candidate], "role_admin", operator[Candidate])]
    BY <1>9 DEF Staffing!BootstrapOperator, Staffing!account
  <2>2. PICK row \in Staffing!OperatorRows : operator' = [operator EXCEPT ![Candidate] = row]
    <3>1. operator[Candidate] \in Staffing!OperatorRows \cup {NoRow}
      BY StaffConstants DEF StaffInv, OperatorsHold
    <3> QED BY <2>1, <3>1, UpsertedRow
  <2>3. /\ operator' \in [Accounts -> Staffing!OperatorRows \cup {NoRow}]
        /\ OperatorsStay /\ IsOperator(Candidate)'
    BY <2>2, StaffConstants, OperatorWritten DEF StaffInv
  <2>4. OperatorsHold' /\ AccountHolds' /\ TasksHold'
    BY <1>3, <2>1, <2>3, TasksGoOn DEF StaffInv, OperatorsHold, AccountHolds, TaskStep
  <2>5. ScriptHolds'
    BY <1>2, <2>1, <2>3 DEF ScriptHolds, Staffing!Statements, PastPassword
  <2>6. Restores
    <3>1. ASSUME NEW a \in Accounts, a # Candidate PROVE operator'[a] = operator[a]
      BY <2>2, <3>1 DEF StaffInv, OperatorsHold
    <3> QED BY <2>1, <3>1 DEF Restores, Staffing!OnlyAGrantRestores, Staffing!Active
  <2>7. Staffing!BootstrapCompletes
    BY <1>2, <2>1, <2>3 DEF Staffing!BootstrapCompletes, PastPassword, IsOperator
  <2> QED BY <2>4, <2>5, <2>6, <2>7 DEF StaffInv
<1>10. CASE Staffing!AuditBootstrap
  <2>1. /\ UNCHANGED <<standing, factors, owner, operator>> /\ script = "audit" /\ script' = "done"
        /\ audits' = audits \cup {[action |-> "grant", on |-> Candidate]}
    BY <1>10 DEF Staffing!AuditBootstrap, Staffing!account
  <2>2. OperatorsHold' /\ AccountHolds'
    BY <2>1, StaffConstants DEF StaffInv, OperatorsHold, AccountHolds
  <2>3. ScriptHolds'
    BY <1>2, <2>1 DEF ScriptHolds, Staffing!Statements, PastPassword
  <2> QED BY <1>4, <2>1, <2>2, <2>3
<1> QED BY <1>5, <1>6, <1>7, <1>8, <1>9, <1>10 DEF Staffing!Bootstrap

LEMMA StaffStep ==
    ASSUME StaffInv, [Staffing!Next]_Staffing!vars
    PROVE  StaffInv' /\ Restores /\ Staffing!BootstrapCompletes
<1>1. CASE UNCHANGED Staffing!vars
  <2>1. UNCHANGED <<standing, factors, owner, operator, audits, script, tasks>>
    BY <1>1 DEF Staffing!vars, Staffing!account
  <2>2. TasksHold'
    BY <2>1, NobodyRestored, TasksGoOn DEF TaskStep, StaffInv
  <2>3. OperatorsHold' /\ AccountHolds' /\ ScriptHolds'
    BY <2>1 DEF StaffInv, OperatorsHold, AccountHolds, ScriptHolds, IsOperator
  <2>4. Staffing!BootstrapCompletes
    BY <2>1 DEF Staffing!BootstrapCompletes
  <2> QED BY <2>1, <2>2, <2>3, <2>4, NobodyRestored DEF StaffInv
<1> QED BY <1>1, RequestHolds, AccountMoves, BootstrapHolds DEF Staffing!Next

LEMMA StaffInvariant == Staffing!Spec => []StaffInv
<1>1. StaffInv /\ [Staffing!Next]_Staffing!vars => StaffInv'
  BY StaffStep
<1> QED BY <1>1, StaffStarts, PTL DEF Staffing!Spec

-----------------------------------------------------------------------------
(* The alerts.                                                               *)

ViewerRows == [at : {"idle", "probe", "throttle", "sample", "find", "write"}, time : Nat,
               seen : [Components -> Watching!Statuses], todo : SUBSET Components, found : Nat]
AlertRows == [component : Components, opened : Nat, status : Watching!Unhealthy,
              resolved : {-1} \cup Nat, by : Operators \cup {Nobody}]

WorldHolds ==
    /\ now \in Nat /\ now <= MaxNow /\ provider \in Watching!Statuses
    /\ attested \in [Components \ {"email"} -> Watching!AttestationRows]
    /\ changes \in Nat /\ changes <= MaxChanges /\ lost \in Nat /\ lost <= MaxLost
SamplesHold ==
    /\ samples \in Seq(Nat)
    /\ \A i \in 1..Len(samples) : samples[i] <= now
AlertsHold ==
    /\ alerts \in Seq(AlertRows)
    /\ \A i \in 1..Len(alerts) :
           /\ alerts[i].opened <= now
           /\ alerts[i].resolved # -1 => alerts[i].opened <= alerts[i].resolved /\ alerts[i].resolved <= now

\* A view has found an alert of the component it is at.
Knows(j) == j.found # 0 =>
    /\ j.at = "write" /\ j.found <= Len(alerts)
    /\ alerts[j.found].component = Watching!First(j.todo)
ViewHolds(j) ==
    /\ j.time <= now
    /\ j.at \in {"find", "write"} => j.todo # {}
    /\ Knows(j)
ViewsHold ==
    /\ viewers \in [Requests -> ViewerRows]
    /\ \A v \in Requests : ViewHolds(viewers[v])
AcksHold ==
    /\ acks \in [Operators -> Nat]
    /\ \A o \in Operators : acks[o] <= Len(alerts)

WatchInv == WorldHolds /\ SamplesHold /\ AlertsHold /\ ViewsHold /\ AcksHold

USE DEF Watching!Never

LEMMA WatchConstants ==
    /\ Components \subseteq {"email", "backup", "restore"} /\ Components # {}
    /\ Nobody \notin Operators
    /\ Throttle \in Nat /\ MaxAge \in Nat /\ MaxNow \in Nat /\ MaxChanges \in Nat /\ MaxLost \in Nat
BY PlatformAssumption DEF Watching!MonitoringConstants

LEMMA ViewFields ==
    ASSUME NEW j \in ViewerRows
    PROVE  /\ j.at \in {"idle", "probe", "throttle", "sample", "find", "write"} /\ j.time \in Nat
           /\ j.seen \in [Components -> Watching!Statuses] /\ j.todo \in SUBSET Components
           /\ j.found \in Nat
BY DEF ViewerRows

LEMMA AlertFields ==
    ASSUME NEW e \in AlertRows
    PROVE  /\ e.component \in Components /\ e.opened \in Nat /\ e.status \in Watching!Unhealthy
           /\ e.resolved \in {-1} \cup Nat /\ e.by \in Operators \cup {Nobody}
BY DEF AlertRows

\* The first component of those left is one of them.
LEMMA FirstIsLeft ==
    ASSUME NEW todo \in SUBSET Components, todo # {}
    PROVE  Watching!First(todo) \in todo
BY WatchConstants DEF Watching!First

LEMMA IdleView ==
    ASSUME WorldHolds', Len(alerts') \in Nat
    PROVE  Watching!Idle \in ViewerRows /\ ViewHolds(Watching!Idle)'
<1>1. Watching!Idle \in ViewerRows
  BY DEF Watching!Idle, ViewerRows, Watching!Statuses
<1>2. Watching!Idle.time = 0 /\ Watching!Idle.at = "idle" /\ Watching!Idle.found = 0
  BY DEF Watching!Idle
<1> DEFINE j == Watching!Idle
<1>3. j.time = 0 /\ j.at = "idle" /\ j.found = 0
  BY <1>2
<1> HIDE DEF j
<1>4. ViewHolds(j)'
  BY <1>3 DEF ViewHolds, Knows, WorldHolds
<1> QED BY <1>1, <1>4 DEF j

LEMMA WatchInvImplies ==
    ASSUME WatchInv
    PROVE  Watching!TypeOK
<1>1. now \in 0..MaxNow /\ changes \in 0..MaxChanges /\ lost \in 0..MaxLost
  BY DEF WatchInv, WorldHolds
<1>2. samples \in Seq(0..now)
  <2>1. samples \in Seq(Nat) /\ \A i \in 1..Len(samples) : samples[i] \in 0..now
    BY <1>1 DEF WatchInv, SamplesHold
  <2> DEFINE Times == 0..now
  <2>2. samples \in Seq(Nat) /\ \A i \in 1..Len(samples) : samples[i] \in Times
    BY <2>1
  <2> HIDE DEF Times
  <2>3. samples \in Seq(Times)
    BY <2>2
  <2> QED BY <2>3 DEF Times
<1>3. \A i \in DOMAIN alerts : Watching!AlertRow(alerts[i])
  <2>1. ASSUME NEW i \in DOMAIN alerts PROVE Watching!AlertRow(alerts[i])
    <3>1. i \in 1..Len(alerts) /\ alerts[i] \in AlertRows
      BY DEF WatchInv, AlertsHold
    <3>2. /\ alerts[i].component \in Components /\ alerts[i].opened \in Nat
          /\ alerts[i].status \in Watching!Unhealthy
          /\ alerts[i].resolved \in {-1} \cup Nat /\ alerts[i].by \in Operators \cup {Nobody}
      BY <3>1, AlertFields
    <3>3. /\ alerts[i].opened <= now
          /\ alerts[i].resolved # -1 =>
                alerts[i].opened <= alerts[i].resolved /\ alerts[i].resolved <= now
      BY <3>1 DEF WatchInv, AlertsHold
    <3> QED BY <1>1, <3>2, <3>3 DEF Watching!AlertRow
  <2> QED BY <2>1
<1>4. ASSUME NEW v \in Requests
      PROVE  /\ viewers[v].at \in {"idle", "probe", "throttle", "sample", "find", "write"}
             /\ viewers[v].at \in {"find", "write"} => viewers[v].todo # {}
             /\ viewers[v].found # 0 =>
                  viewers[v].found \in {i \in DOMAIN alerts : alerts[i].component = Watching!Component(v)}
  <2>1. viewers[v] \in ViewerRows /\ ViewHolds(viewers[v]) /\ alerts \in Seq(AlertRows)
    BY DEF WatchInv, ViewsHold, AlertsHold
  <2>2. viewers[v].found \in Nat /\ Len(alerts) \in Nat
    BY <2>1, ViewFields
  <2> QED BY <2>1, <2>2, ViewFields DEF ViewHolds, Knows, Watching!Component
<1>5. acks \in [Operators -> {0} \cup DOMAIN alerts]
  <2>1. alerts \in Seq(AlertRows) /\ acks \in [Operators -> Nat] /\ \A o \in Operators : acks[o] <= Len(alerts)
    BY DEF WatchInv, AcksHold, AlertsHold
  <2>2. \A o \in Operators : acks[o] \in {0} \cup DOMAIN alerts
    BY <2>1
  <2> QED BY <2>1, <2>2
<1>6. provider \in Watching!Statuses /\ attested \in [Components \ {"email"} -> Watching!AttestationRows]
  BY DEF WatchInv, WorldHolds
<1> QED BY <1>1, <1>2, <1>3, <1>4, <1>5, <1>6, Zenon DEF Watching!TypeOK

LEMMA WatchStarts ==
    ASSUME Watching!Init
    PROVE  WatchInv
<1>1. WorldHolds
  BY WatchConstants DEF Watching!Init, WorldHolds, Watching!Statuses, Watching!AttestationRows
<1>2. SamplesHold /\ AlertsHold
  <2>1. samples = <<>> /\ alerts = <<>> /\ now = 0
    BY DEF Watching!Init
  <2> QED BY <2>1 DEF SamplesHold, AlertsHold
<1>3. ViewsHold
  <2>1. Watching!Idle \in ViewerRows
    BY DEF Watching!Idle, ViewerRows, Watching!Statuses
  <2>2. Watching!Idle.time = 0 /\ Watching!Idle.at = "idle" /\ Watching!Idle.found = 0
    BY DEF Watching!Idle
  <2>3. viewers = [v \in Requests |-> Watching!Idle] /\ now = 0
    BY DEF Watching!Init
  <2> QED BY <2>1, <2>2, <2>3 DEF ViewsHold, ViewHolds, Knows
<1>4. AcksHold
  <2>1. acks = [o \in Operators |-> 0] /\ alerts = <<>>
    BY DEF Watching!Init
  <2> QED BY <2>1 DEF AcksHold
<1> QED BY <1>1, <1>2, <1>3, <1>4 DEF WatchInv

-----------------------------------------------------------------------------
\* What one step may do: alerts are added or change as they may, one view and
\* one acknowledgement move.
AlertsGoOn == Len(alerts) <= Len(alerts') /\ Watching!ClosedStays
ViewStep ==
    \/ viewers' = viewers
    \/ \E v \in Requests : \E new \in ViewerRows :
           viewers' = [viewers EXCEPT ![v] = new] /\ ViewHolds(new)'
AckStep ==
    \/ acks' = acks
    \/ \E o \in Operators : \E n \in 0..Len(alerts) : acks' = [acks EXCEPT ![o] = n]

LEMMA ViewGoesOn ==
    ASSUME now <= now', now \in Nat, now' \in Nat, alerts \in Seq(AlertRows), alerts' \in Seq(AlertRows),
           AlertsGoOn, NEW j \in ViewerRows, ViewHolds(j)
    PROVE  ViewHolds(j)'
<1>1. j.time \in Nat /\ j.found \in Nat
  BY ViewFields
<1>2. Knows(j)'
  <2>1. SUFFICES ASSUME j.found # 0
                 PROVE  /\ j.at = "write" /\ j.found <= Len(alerts')
                        /\ alerts'[j.found].component = Watching!First(j.todo)
    BY DEF Knows
  <2>2. /\ j.at = "write" /\ j.found <= Len(alerts)
        /\ alerts[j.found].component = Watching!First(j.todo)
    BY <2>1 DEF ViewHolds, Knows
  <2>3. j.found \in DOMAIN alerts /\ Len(alerts) \in Nat /\ Len(alerts') \in Nat
    BY <1>1, <2>1, <2>2
  <2>4. alerts'[j.found].component = alerts[j.found].component
    BY <2>3 DEF AlertsGoOn, Watching!ClosedStays
  <2> QED BY <1>1, <2>2, <2>3, <2>4 DEF AlertsGoOn
<1> QED BY <1>1, <1>2 DEF ViewHolds

LEMMA WatchGoesOn ==
    ASSUME WatchInv, WorldHolds', now <= now', SamplesHold', AlertsHold', AlertsGoOn, ViewStep, AckStep
    PROVE  WatchInv'
<1>1. now \in Nat /\ now' \in Nat /\ alerts \in Seq(AlertRows) /\ alerts' \in Seq(AlertRows)
  BY DEF WatchInv, WorldHolds, AlertsHold
<1>2. \A v \in Requests : viewers[v] \in ViewerRows /\ ViewHolds(viewers[v])
  BY DEF WatchInv, ViewsHold
<1>3. ASSUME NEW v \in Requests, NEW j \in ViewerRows, viewers[v] = j PROVE ViewHolds(j)'
  BY <1>1, <1>2, <1>3, ViewGoesOn
<1>4. ViewsHold'
  <2>1. CASE viewers' = viewers
    <3>1. ASSUME NEW v \in Requests PROVE ViewHolds(viewers[v])'
      <4>1. PICK j \in ViewerRows : viewers[v] = j
        BY <1>2
      <4>2. ViewHolds(j)'
        BY <1>3, <4>1
      <4>3. viewers'[v] = j
        BY <2>1, <4>1
      <4> QED BY <4>2, <4>3 DEF ViewHolds, Knows
    <3> QED BY <2>1, <3>1 DEF WatchInv, ViewsHold
  <2>2. ASSUME NEW w \in Requests, NEW new \in ViewerRows,
               viewers' = [viewers EXCEPT ![w] = new], ViewHolds(new)'
        PROVE  ViewsHold'
    <3>1. viewers' \in [Requests -> ViewerRows]
      BY <2>2 DEF WatchInv, ViewsHold
    <3>2. ASSUME NEW v \in Requests PROVE ViewHolds(viewers[v])'
      <4>1. PICK j \in ViewerRows : viewers[v] = j
        BY <1>2
      <4>2. ViewHolds(j)'
        BY <1>3, <4>1
      <4>3. viewers'[v] = j \/ viewers'[v] = new
        BY <2>2, <4>1 DEF WatchInv, ViewsHold
      <4> QED BY <2>2, <4>2, <4>3 DEF ViewHolds, Knows
    <3> QED BY <3>1, <3>2 DEF ViewsHold
  <2> QED BY <2>1, <2>2 DEF ViewStep
<1>5. AcksHold'
  <2>1. Len(alerts) \in Nat /\ Len(alerts') \in Nat /\ Len(alerts) <= Len(alerts')
    BY <1>1 DEF AlertsGoOn
  <2>2. acks \in [Operators -> Nat] /\ \A o \in Operators : acks[o] <= Len(alerts)
    BY DEF WatchInv, AcksHold
  <2>3. acks' \in [Operators -> Nat] /\ \A o \in Operators : acks'[o] <= Len(alerts)
    BY <2>1, <2>2 DEF AckStep
  <2>4. \A o \in Operators : acks'[o] <= Len(alerts')
    BY <2>1, <2>3
  <2> QED BY <2>3, <2>4 DEF AcksHold
<1> QED BY <1>4, <1>5 DEF WatchInv

LEMMA AlertsStay ==
    ASSUME AlertsHold, now \in Nat, now' \in Nat, now <= now', alerts' = alerts
    PROVE  AlertsHold' /\ AlertsGoOn
<1>1. \A i \in 1..Len(alerts) : alerts[i] \in AlertRows
  BY DEF AlertsHold
<1>2. AlertsHold'
  <2>1. ASSUME NEW i \in 1..Len(alerts)
        PROVE  /\ alerts[i].opened <= now'
               /\ alerts[i].resolved # -1 => alerts[i].resolved <= now'
    <3>1. alerts[i].opened \in Nat /\ alerts[i].resolved \in {-1} \cup Nat
      BY <1>1, <2>1, AlertFields
    <3> QED BY <2>1, <3>1 DEF AlertsHold
  <2> QED BY <2>1 DEF AlertsHold
<1>3. AlertsGoOn
  BY DEF AlertsHold, AlertsGoOn, Watching!ClosedStays
<1> QED BY <1>2, <1>3

LEMMA AlertAdded ==
    ASSUME AlertsHold, now' = now, NEW e \in AlertRows, e.opened <= now, e.resolved = -1,
           alerts' = Append(alerts, e)
    PROVE  AlertsHold' /\ AlertsGoOn
<1>1. alerts \in Seq(AlertRows) /\ Len(alerts) \in Nat
  BY DEF AlertsHold
<1>2. /\ alerts' \in Seq(AlertRows) /\ Len(alerts') = Len(alerts) + 1
      /\ alerts'[Len(alerts) + 1] = e
      /\ \A i \in 1..Len(alerts) : alerts'[i] = alerts[i]
  BY <1>1
<1>3. AlertsHold'
  <2>1. ASSUME NEW i \in 1..Len(alerts')
        PROVE  /\ alerts'[i].opened <= now
               /\ alerts'[i].resolved # -1 =>
                    alerts'[i].opened <= alerts'[i].resolved /\ alerts'[i].resolved <= now
    <3>1. i \in 1..Len(alerts) \/ i = Len(alerts) + 1
      BY <1>1, <1>2
    <3> QED BY <1>2, <3>1 DEF AlertsHold
  <2> QED BY <1>2, <2>1 DEF AlertsHold
<1>4. AlertsGoOn
  BY <1>1, <1>2 DEF AlertsGoOn, Watching!ClosedStays
<1> QED BY <1>3, <1>4

LEMMA AlertChanged ==
    ASSUME AlertsHold, now' = now, NEW i \in 1..Len(alerts), NEW e \in AlertRows,
           e.component = alerts[i].component, e.opened = alerts[i].opened,
           alerts[i].resolved # -1 => e.resolved # -1, alerts[i].by # Nobody => e.by # Nobody,
           e.resolved # -1 => e.opened <= e.resolved /\ e.resolved <= now,
           alerts' = [alerts EXCEPT ![i] = e]
    PROVE  AlertsHold' /\ AlertsGoOn
<1>1. alerts \in Seq(AlertRows) /\ Len(alerts) \in Nat
  BY DEF AlertsHold
<1>2. /\ alerts' \in Seq(AlertRows) /\ Len(alerts') = Len(alerts)
      /\ \A k \in 1..Len(alerts) : alerts'[k] = IF k = i THEN e ELSE alerts[k]
  BY <1>1
<1>3. AlertsHold'
  BY <1>2 DEF AlertsHold
<1>4. AlertsGoOn
  BY <1>1, <1>2 DEF AlertsGoOn, Watching!ClosedStays
<1> QED BY <1>3, <1>4

-----------------------------------------------------------------------------
\* The world moves, and nothing else.
LEMMA WorldStep ==
    ASSUME WatchInv, WorldHolds', now <= now', samples' = samples, alerts' = alerts,
           viewers' = viewers, acks' = acks
    PROVE  WatchInv' /\ AlertsGoOn
<1>1. now \in Nat /\ now' \in Nat
  BY DEF WatchInv, WorldHolds
<1>2. AlertsHold' /\ AlertsGoOn
  BY <1>1, AlertsStay DEF WatchInv
<1>3. SamplesHold'
  BY <1>1 DEF WatchInv, SamplesHold
<1> QED BY <1>2, <1>3, WatchGoesOn DEF ViewStep, AckStep

LEMMA WorldMoves ==
    ASSUME WatchInv,
           \/ Watching!Tick \/ Watching!ProviderChanges \/ Watching!VerifyBackup \/ Watching!AttestDrill
    PROVE  WatchInv' /\ AlertsGoOn
<1>1. CASE Watching!Tick
  <2>1. WorldHolds' /\ now <= now'
    BY <1>1, WatchConstants DEF Watching!Tick, WatchInv, WorldHolds
  <2> QED BY <1>1, <2>1, WorldStep DEF Watching!Tick
<1>2. CASE Watching!ProviderChanges
  <2>1. WorldHolds' /\ now <= now'
    BY <1>2, WatchConstants DEF Watching!ProviderChanges, WatchInv, WorldHolds
  <2> QED BY <1>2, <2>1, WorldStep DEF Watching!ProviderChanges
<1>3. CASE Watching!VerifyBackup
  <2>1. attested' \in [Components \ {"email"} -> Watching!AttestationRows]
    BY <1>3 DEF Watching!VerifyBackup, WatchInv, WorldHolds, Watching!AttestationRows
  <2>2. WorldHolds' /\ now <= now'
    BY <1>3, <2>1, WatchConstants DEF Watching!VerifyBackup, WatchInv, WorldHolds
  <2> QED BY <1>3, <2>2, WorldStep DEF Watching!VerifyBackup
<1>4. CASE Watching!AttestDrill
  <2>1. attested' \in [Components \ {"email"} -> Watching!AttestationRows]
    BY <1>4 DEF Watching!AttestDrill, WatchInv, WorldHolds, Watching!AttestationRows
  <2>2. WorldHolds' /\ now <= now'
    BY <1>4, <2>1, WatchConstants DEF Watching!AttestDrill, WatchInv, WorldHolds
  <2> QED BY <1>4, <2>2, WorldStep DEF Watching!AttestDrill
<1> QED BY <1>1, <1>2, <1>3, <1>4

LEMMA HealthIsStatus ==
    ASSUME WorldHolds, NEW c \in Components, NEW time
    PROVE  Watching!Health(c, time) \in Watching!Statuses
<1>1. c = "email" \/ c = "backup" \/ c = "restore"
  BY WatchConstants
<1>2. provider \in Watching!Statuses
  BY DEF WorldHolds
<1>3. Watching!assessBackupComponent(time) \in Watching!Statuses
  BY DEF Watching!assessBackupComponent, Watching!Statuses, Watching!Unhealthy
<1>4. Watching!assessRestoreComponent(time) \in Watching!Statuses
  BY DEF Watching!assessRestoreComponent, Watching!Statuses, Watching!Unhealthy
<1> QED BY <1>1, <1>2, <1>3, <1>4 DEF Watching!Health

\* A view moves, and nothing else.
LEMMA OnlyViews ==
    ASSUME WatchInv, NEW v \in Requests, NEW new \in ViewerRows,
           viewers' = [viewers EXCEPT ![v] = new], ViewHolds(new),
           UNCHANGED <<now, provider, attested, samples, alerts, acks, changes, lost>>
    PROVE  WatchInv' /\ AlertsGoOn
<1>1. WorldHolds' /\ SamplesHold' /\ now <= now' /\ now \in Nat
  BY DEF WatchInv, WorldHolds, SamplesHold
<1>2. AlertsHold' /\ AlertsGoOn
  BY <1>1, AlertsStay DEF WatchInv
<1>3. ViewHolds(new)'
  BY DEF ViewHolds, Knows
<1> QED BY <1>1, <1>2, <1>3, WatchGoesOn DEF ViewStep, AckStep

LEMMA ViewRow ==
    ASSUME WatchInv, NEW v \in Requests
    PROVE  /\ viewers[v] \in ViewerRows /\ ViewHolds(viewers[v])
           /\ now \in Nat /\ samples \in Seq(Nat) /\ alerts \in Seq(AlertRows) /\ WorldHolds
BY DEF WatchInv, ViewsHold, WorldHolds, SamplesHold, AlertsHold

\* The end of a view.
LEMMA IdleHolds ==
    ASSUME now \in Nat
    PROVE  Watching!Idle \in ViewerRows /\ ViewHolds(Watching!Idle)
<1>1. Watching!Idle \in ViewerRows
  BY DEF Watching!Idle, ViewerRows, Watching!Statuses
<1>2. Watching!Idle.time = 0 /\ Watching!Idle.at = "idle" /\ Watching!Idle.found = 0
  BY DEF Watching!Idle
<1> QED BY <1>1, <1>2 DEF ViewHolds, Knows

\* A view that turns to its components.
LEMMA SyncHolds ==
    ASSUME now \in Nat, NEW j \in ViewerRows, ViewHolds(j), j.at \in {"throttle", "sample"}
    PROVE  Watching!Sync(j) \in ViewerRows /\ ViewHolds(Watching!Sync(j))
<1>1. Watching!Sync(j) = [j EXCEPT !.at = "find", !.todo = Components]
  BY DEF Watching!Sync
<1>2. j.found = 0
  BY DEF ViewHolds, Knows
<1>3. Watching!Sync(j) \in ViewerRows
  BY <1>1 DEF ViewerRows
<1>4. /\ Watching!Sync(j).at = "find" /\ Watching!Sync(j).todo = Components
      /\ Watching!Sync(j).found = 0 /\ Watching!Sync(j).time = j.time
  BY <1>1, <1>2 DEF ViewerRows
<1> QED BY <1>3, <1>4, WatchConstants DEF ViewHolds, Knows

LEMMA ViewStatusHolds ==
    ASSUME WatchInv, NEW v \in Requests, Watching!ViewStatus(v)
    PROVE  WatchInv' /\ AlertsGoOn
<1> DEFINE new == [Watching!Idle EXCEPT !.at = "probe", !.time = now,
                       !.seen = [c \in Components |-> Watching!Health(c, now)]]
<1>1. viewers' = [viewers EXCEPT ![v] = new]
  BY DEF Watching!ViewStatus
<1>2. [c \in Components |-> Watching!Health(c, now)] \in [Components -> Watching!Statuses]
  BY HealthIsStatus DEF WatchInv
<1>3. new.time = now /\ new.at = "probe" /\ new.found = 0
  BY DEF Watching!Idle
<1>4. new \in ViewerRows
  BY <1>2, ViewRow DEF Watching!Idle, ViewerRows
<1>5. ViewHolds(new)
  <2> HIDE DEF new
  <2> QED BY <1>3, ViewRow DEF ViewHolds, Knows
<1> HIDE DEF new
<1> QED BY <1>1, <1>4, <1>5, OnlyViews DEF Watching!ViewStatus

LEMMA ProbeHolds ==
    ASSUME WatchInv, NEW v \in Requests, Watching!Probe(v)
    PROVE  WatchInv' /\ AlertsGoOn
<1>1. PICK j \in ViewerRows : viewers[v] = j /\ ViewHolds(j)
  BY ViewRow
<1> DEFINE seen == [c \in Components |-> IF c = "email" THEN provider ELSE j.seen[c]]
           new == [j EXCEPT !.at = "throttle", !.seen = seen]
<1>2. viewers' = [viewers EXCEPT ![v] = new] /\ j.at = "probe"
  BY <1>1 DEF Watching!Probe, WatchInv, ViewsHold
<1>3. seen \in [Components -> Watching!Statuses]
  BY ViewFields, ViewRow DEF WorldHolds
<1>4. new \in ViewerRows /\ new.at = "throttle" /\ new.time = j.time /\ new.found = j.found
  <2> HIDE DEF seen
  <2> QED BY <1>3 DEF ViewerRows
<1>5. ViewHolds(new)
  <2> HIDE DEF new
  <2> QED BY <1>1, <1>2, <1>4 DEF ViewHolds, Knows
<1> HIDE DEF new
<1> QED BY <1>2, <1>4, <1>5, OnlyViews DEF Watching!Probe

LEMMA ReadLatestSampleHolds ==
    ASSUME WatchInv, NEW v \in Requests, Watching!ReadLatestSample(v)
    PROVE  WatchInv' /\ AlertsGoOn
<1>1. PICK j \in ViewerRows : viewers[v] = j /\ ViewHolds(j)
  BY ViewRow
<1>2. j.at = "throttle" /\ now \in Nat
  BY <1>1, ViewRow DEF Watching!ReadLatestSample
<1>3. CASE viewers' = [viewers EXCEPT ![v] = Watching!Sync(j)]
  BY <1>1, <1>2, <1>3, SyncHolds, OnlyViews DEF Watching!ReadLatestSample
<1>4. CASE viewers' = [viewers EXCEPT ![v] = [j EXCEPT !.at = "sample"]]
  <2> DEFINE new == [j EXCEPT !.at = "sample"]
  <2>1. new \in ViewerRows /\ new.at = "sample" /\ new.time = j.time /\ new.found = j.found
    BY DEF ViewerRows
  <2>2. viewers' = [viewers EXCEPT ![v] = new]
    BY <1>4
  <2> HIDE DEF new
  <2>3. ViewHolds(new)
    BY <1>1, <1>2, <2>1 DEF ViewHolds, Knows
  <2> QED BY <2>1, <2>2, <2>3, OnlyViews DEF Watching!ReadLatestSample
<1>5. \/ viewers' = [viewers EXCEPT ![v] = Watching!Sync(j)]
      \/ viewers' = [viewers EXCEPT ![v] = [j EXCEPT !.at = "sample"]]
  BY <1>1 DEF Watching!ReadLatestSample
<1> QED BY <1>3, <1>4, <1>5

LEMMA AppendSampleHolds ==
    ASSUME WatchInv, NEW v \in Requests, Watching!AppendSample(v)
    PROVE  WatchInv' /\ AlertsGoOn
<1>1. PICK j \in ViewerRows : viewers[v] = j /\ ViewHolds(j)
  BY ViewRow
<1>2. /\ j.at = "sample" /\ viewers' = [viewers EXCEPT ![v] = Watching!Sync(j)]
      /\ samples' = Append(samples, j.time)
      /\ UNCHANGED <<now, provider, attested, alerts, acks, changes, lost>>
  BY <1>1 DEF Watching!AppendSample
<1>3. WorldHolds' /\ now <= now' /\ now \in Nat
  BY <1>2 DEF WatchInv, WorldHolds
<1>4. AlertsHold' /\ AlertsGoOn
  BY <1>2, <1>3, AlertsStay DEF WatchInv
<1>5. SamplesHold'
  <2>1. j.time \in Nat /\ j.time <= now
    BY <1>1, ViewFields DEF ViewHolds
  <2>2. samples \in Seq(Nat) /\ \A i \in 1..Len(samples) : samples[i] <= now
    BY DEF WatchInv, SamplesHold
  <2>3. /\ samples' \in Seq(Nat) /\ Len(samples') = Len(samples) + 1
        /\ samples'[Len(samples) + 1] = j.time
        /\ \A i \in 1..Len(samples) : samples'[i] = samples[i]
    BY <1>2, <2>1, <2>2
  <2>4. \A i \in 1..Len(samples') : samples'[i] <= now
    BY <2>1, <2>2, <2>3
  <2> QED BY <1>2, <2>3, <2>4 DEF SamplesHold
<1>6. Watching!Sync(j) \in ViewerRows /\ ViewHolds(Watching!Sync(j))
  BY <1>1, <1>2, <1>3, SyncHolds
<1>7. PICK new \in ViewerRows : viewers' = [viewers EXCEPT ![v] = new] /\ ViewHolds(new)
  BY <1>2, <1>6
<1>8. ViewHolds(new)'
  BY <1>2, <1>7 DEF ViewHolds, Knows
<1> QED BY <1>2, <1>3, <1>4, <1>5, <1>7, <1>8, WatchGoesOn DEF ViewStep, AckStep

LEMMA FindOpenAlertHolds ==
    ASSUME WatchInv, NEW v \in Requests, Watching!FindOpenAlert(v)
    PROVE  WatchInv' /\ AlertsGoOn
<1>1. PICK j \in ViewerRows : viewers[v] = j /\ ViewHolds(j)
  BY ViewRow
<1>2. PICK i \in Watching!OpenAlerts(Watching!First(j.todo)) \cup {0} :
        viewers' = [viewers EXCEPT ![v].at = "write", ![v].found = i]
  BY <1>1 DEF Watching!FindOpenAlert, Watching!Component
<1> DEFINE new == [j EXCEPT !.at = "write", !.found = i]
<1>3. viewers' = [viewers EXCEPT ![v] = new] /\ j.at = "find"
  BY <1>1, <1>2 DEF Watching!FindOpenAlert, WatchInv, ViewsHold
<1>4. /\ i \in Nat /\ i <= Len(alerts)
      /\ i # 0 => alerts[i].component = Watching!First(j.todo)
  BY ViewRow DEF Watching!OpenAlerts
<1>5. /\ new \in ViewerRows /\ new.at = "write" /\ new.time = j.time /\ new.found = i
      /\ new.todo = j.todo
  BY <1>4 DEF ViewerRows
<1>6. ViewHolds(new)
  <2> HIDE DEF new
  <2> QED BY <1>1, <1>3, <1>4, <1>5 DEF ViewHolds, Knows
<1> HIDE DEF new
<1> QED BY <1>3, <1>5, <1>6, OnlyViews DEF Watching!FindOpenAlert

\* The rest of the components, or the end.
LEMMA DoneHolds ==
    ASSUME now \in Nat, NEW j \in ViewerRows, ViewHolds(j), j.at = "write"
    PROVE  Watching!Done(j) \in ViewerRows /\ ViewHolds(Watching!Done(j)) /\ Watching!Done(j).found = 0
<1>0. Watching!Idle.found = 0
  BY DEF Watching!Idle
<1>1. CASE j.todo = {Watching!First(j.todo)}
  BY <1>0, <1>1, IdleHolds DEF Watching!Done
<1>2. CASE j.todo # {Watching!First(j.todo)}
  <2> DEFINE new == [j EXCEPT !.at = "find", !.todo = @ \ {Watching!First(@)}, !.found = 0]
  <2>1. Watching!Done(j) = new
    BY <1>2 DEF Watching!Done
  <2>2. j.todo \in SUBSET Components /\ j.todo # {}
    BY ViewFields DEF ViewHolds
  <2>3. /\ new \in ViewerRows /\ new.at = "find" /\ new.time = j.time /\ new.found = 0
        /\ new.todo = j.todo \ {Watching!First(j.todo)}
    BY <2>2 DEF ViewerRows
  <2>4. new.todo # {}
    BY <1>2, <2>2, <2>3
  <2> HIDE DEF new
  <2> QED BY <2>1, <2>3, <2>4 DEF ViewHolds, Knows
<1> QED BY <1>1, <1>2

\* A view that has written, or not, goes on to its next component.
LEMMA WriteStep ==
    ASSUME WatchInv, NEW v \in Requests, NEW new \in ViewerRows, new.found = 0, ViewHolds(new),
           viewers' = [viewers EXCEPT ![v] = new],
           UNCHANGED <<now, provider, attested, samples, acks, changes, lost>>,
           AlertsHold', AlertsGoOn
    PROVE  WatchInv' /\ AlertsGoOn
<1>1. WorldHolds' /\ SamplesHold' /\ now <= now'
  BY DEF WatchInv, WorldHolds, SamplesHold
<1>2. ViewHolds(new)'
  BY DEF ViewHolds, Knows
<1> QED BY <1>1, <1>2, WatchGoesOn DEF ViewStep, AckStep

LEMMA OpenOrRefreshHolds ==
    ASSUME WatchInv, NEW v \in Requests, Watching!OpenOrRefreshAlert(v)
    PROVE  WatchInv' /\ AlertsGoOn
<1>1. PICK j \in ViewerRows : viewers[v] = j /\ ViewHolds(j)
  BY ViewRow
<1>2. PICK c : c = Watching!First(j.todo)
  OBVIOUS
<1>3. /\ j.at = "write" /\ j.seen[c] \in Watching!Unhealthy
      /\ viewers' = [viewers EXCEPT ![v] = Watching!Done(j)]
      /\ UNCHANGED <<now, provider, attested, samples, acks, changes, lost>>
  BY <1>1, <1>2 DEF Watching!OpenOrRefreshAlert, Watching!Component
<1>4. j.time \in Nat /\ j.time <= now /\ c \in Components /\ j.found \in Nat /\ now \in Nat
  <2>1. j.todo \in SUBSET Components /\ j.todo # {}
    BY <1>1, <1>3, ViewFields DEF ViewHolds
  <2> QED BY <1>1, <1>2, <2>1, FirstIsLeft, ViewFields, ViewRow DEF ViewHolds
<1>5. AlertsHold' /\ AlertsGoOn
  <2>1. AlertsHold /\ alerts \in Seq(AlertRows) /\ now' = now
    BY <1>3 DEF WatchInv, AlertsHold
  <2>2. CASE j.found = 0
    <3> DEFINE e == [component |-> c, opened |-> j.time, status |-> j.seen[c],
                     resolved |-> -1, by |-> Nobody]
    <3>1. alerts' = Append(alerts, e)
      BY <1>1, <1>2, <2>2 DEF Watching!OpenOrRefreshAlert, Watching!NewAlert, Watching!Component
    <3>2. e \in AlertRows /\ e.opened <= now /\ e.resolved = -1
      BY <1>3, <1>4 DEF AlertRows
    <3> HIDE DEF e
    <3> QED BY <2>1, <3>1, <3>2, AlertAdded
  <2>3. CASE j.found # 0
    <3>1. j.found \in 1..Len(alerts)
      BY <1>1, <1>4, <2>1, <2>3 DEF ViewHolds, Knows
    <3>2. PICK old \in AlertRows : old = alerts[j.found]
      BY <2>1, <3>1
    <3> DEFINE e == [old EXCEPT !.status = j.seen[c]]
    <3>3. alerts' = [alerts EXCEPT ![j.found] = e]
      BY <1>1, <1>2, <2>3, <3>1, <3>2 DEF Watching!OpenOrRefreshAlert, Watching!Component
    <3>4. /\ e \in AlertRows /\ e.component = old.component /\ e.opened = old.opened
          /\ e.resolved = old.resolved /\ e.by = old.by
      BY <1>3 DEF AlertRows
    <3>5. old.resolved # -1 => old.opened <= old.resolved /\ old.resolved <= now
      BY <2>1, <3>1, <3>2 DEF AlertsHold
    <3> HIDE DEF e
    <3> QED BY <2>1, <3>1, <3>2, <3>3, <3>4, <3>5, AlertChanged
  <2> QED BY <2>2, <2>3
<1>6. PICK new \in ViewerRows : new = Watching!Done(j) /\ ViewHolds(new) /\ new.found = 0
  BY <1>1, <1>3, <1>4, DoneHolds
<1> QED BY <1>3, <1>5, <1>6, WriteStep

LEMMA ResolveHolds ==
    ASSUME WatchInv, NEW v \in Requests, Watching!ResolveOpenAlert(v)
    PROVE  WatchInv' /\ AlertsGoOn
<1>1. PICK j \in ViewerRows : viewers[v] = j /\ ViewHolds(j)
  BY ViewRow
<1>2. /\ j.at = "write"
      /\ UNCHANGED <<now, provider, attested, samples, acks, changes, lost>>
      /\ \/ viewers' = [viewers EXCEPT ![v] = Watching!Idle]
         \/ viewers' = [viewers EXCEPT ![v] = Watching!Done(j)]
  BY <1>1 DEF Watching!ResolveOpenAlert
<1>3. j.time \in Nat /\ j.time <= now /\ j.found \in Nat /\ now \in Nat
  BY <1>1, ViewFields, ViewRow DEF ViewHolds
<1>4. AlertsHold' /\ AlertsGoOn
  <2>1. AlertsHold /\ alerts \in Seq(AlertRows) /\ now' = now
    BY <1>2 DEF WatchInv, AlertsHold
  <2>2. CASE alerts' = alerts
    BY <1>3, <2>1, <2>2, AlertsStay
  <2>3. CASE /\ j.found # 0 /\ ~(alerts[j.found].opened > j.time)
             /\ alerts' = [alerts EXCEPT ![j.found].resolved = j.time]
    <3>1. j.found \in 1..Len(alerts)
      BY <1>1, <1>3, <2>1, <2>3 DEF ViewHolds, Knows
    <3>2. PICK old \in AlertRows : old = alerts[j.found]
      BY <2>1, <3>1
    <3> DEFINE e == [old EXCEPT !.resolved = j.time]
    <3>3. alerts' = [alerts EXCEPT ![j.found] = e]
      BY <2>3, <3>1, <3>2
    <3>4. /\ e \in AlertRows /\ e.component = old.component /\ e.opened = old.opened
          /\ e.resolved = j.time /\ e.by = old.by
      BY <1>3 DEF AlertRows
    <3>5. old.opened \in Nat /\ old.opened <= j.time /\ j.time # -1
      BY <1>3, <2>3, <3>2, AlertFields
    <3> HIDE DEF e
    <3> QED BY <1>3, <2>1, <3>1, <3>2, <3>3, <3>4, <3>5, AlertChanged
  <2> QED BY <1>1, <2>2, <2>3 DEF Watching!ResolveOpenAlert
<1>5. Watching!Idle \in ViewerRows /\ ViewHolds(Watching!Idle) /\ Watching!Idle.found = 0
  <2>1. Watching!Idle.found = 0
    BY DEF Watching!Idle
  <2> QED BY <1>3, <2>1, IdleHolds
<1>6. Watching!Done(j) \in ViewerRows /\ ViewHolds(Watching!Done(j)) /\ Watching!Done(j).found = 0
  BY <1>1, <1>2, <1>3, DoneHolds
<1>7. PICK new \in ViewerRows :
        viewers' = [viewers EXCEPT ![v] = new] /\ ViewHolds(new) /\ new.found = 0
  BY <1>2, <1>5, <1>6
<1> QED BY <1>2, <1>4, <1>7, WriteStep

LEMMA StopServerHolds ==
    ASSUME WatchInv, NEW v \in Requests, Watching!StopServer(v)
    PROVE  WatchInv' /\ AlertsGoOn
<1>1. /\ viewers' = [viewers EXCEPT ![v] = Watching!Idle] /\ lost < MaxLost /\ lost' = lost + 1
      /\ UNCHANGED <<now, provider, attested, samples, alerts, acks, changes>>
  BY DEF Watching!StopServer
<1>2. WorldHolds' /\ SamplesHold' /\ now <= now' /\ now \in Nat
  BY <1>1, WatchConstants DEF WatchInv, WorldHolds, SamplesHold
<1>3. AlertsHold' /\ AlertsGoOn
  BY <1>1, <1>2, AlertsStay DEF WatchInv
<1>4. Watching!Idle \in ViewerRows /\ ViewHolds(Watching!Idle)
  BY <1>2, IdleHolds
<1>5. PICK new \in ViewerRows : viewers' = [viewers EXCEPT ![v] = new] /\ ViewHolds(new)
  BY <1>1, <1>4
<1>6. ViewHolds(new)'
  BY <1>1, <1>5 DEF ViewHolds, Knows
<1> QED BY <1>1, <1>2, <1>3, <1>5, <1>6, WatchGoesOn DEF ViewStep, AckStep

LEMMA ReadAlertHolds ==
    ASSUME WatchInv, NEW o \in Operators, Watching!ReadAlert(o)
    PROVE  WatchInv' /\ AlertsGoOn
<1>1. PICK i \in DOMAIN alerts : acks' = [acks EXCEPT ![o] = i]
  BY DEF Watching!ReadAlert
<1>2. UNCHANGED <<now, provider, attested, samples, alerts, viewers, changes, lost>>
  BY DEF Watching!ReadAlert
<1>3. WorldHolds' /\ SamplesHold' /\ now <= now' /\ now \in Nat
  BY <1>2 DEF WatchInv, WorldHolds, SamplesHold
<1>4. AlertsHold' /\ AlertsGoOn
  BY <1>2, <1>3, AlertsStay DEF WatchInv
<1>5. i \in 0..Len(alerts)
  BY DEF WatchInv, AlertsHold
<1> QED BY <1>1, <1>2, <1>3, <1>4, <1>5, WatchGoesOn DEF ViewStep, AckStep

LEMMA AcknowledgeHolds ==
    ASSUME WatchInv, NEW o \in Operators, Watching!AcknowledgeAlert(o)
    PROVE  WatchInv' /\ AlertsGoOn
<1>1. /\ acks[o] # 0 /\ acks' = [acks EXCEPT ![o] = 0]
      /\ alerts' = [alerts EXCEPT ![acks[o]].by = o]
      /\ UNCHANGED <<now, provider, attested, samples, viewers, changes, lost>>
  BY DEF Watching!AcknowledgeAlert
<1>2. WorldHolds' /\ SamplesHold' /\ now <= now' /\ now' = now
  BY <1>1 DEF WatchInv, WorldHolds, SamplesHold
<1>3. alerts \in Seq(AlertRows) /\ acks[o] \in 1..Len(alerts)
  <2>1. acks[o] \in Nat /\ acks[o] <= Len(alerts) /\ alerts \in Seq(AlertRows)
    BY DEF WatchInv, AcksHold, AlertsHold
  <2> QED BY <1>1, <2>1
<1>4. AlertsHold' /\ AlertsGoOn
  <2>1. PICK old \in AlertRows : old = alerts[acks[o]]
    BY <1>3
  <2> DEFINE e == [old EXCEPT !.by = o]
  <2>2. alerts' = [alerts EXCEPT ![acks[o]] = e]
    BY <1>1, <1>3, <2>1
  <2>3. /\ e \in AlertRows /\ e.component = old.component /\ e.opened = old.opened
        /\ e.resolved = old.resolved /\ e.by = o
    BY DEF AlertRows
  <2>4. old.resolved # -1 => old.opened <= old.resolved /\ old.resolved <= now
    BY <1>3, <2>1 DEF WatchInv, AlertsHold
  <2>5. AlertsHold
    BY DEF WatchInv
  <2> HIDE DEF e
  <2> QED BY <1>2, <1>3, <2>1, <2>2, <2>3, <2>4, <2>5, AlertChanged, WatchConstants
<1>5. AckStep
  <2>1. Len(alerts) \in Nat /\ 0 \in 0..Len(alerts)
    BY <1>3
  <2> QED BY <1>1, <2>1 DEF AckStep
<1> QED BY <1>1, <1>2, <1>4, <1>5, WatchGoesOn DEF ViewStep

LEMMA WatchStep ==
    ASSUME WatchInv, [Watching!Next]_Watching!vars
    PROVE  WatchInv' /\ Watching!ClosedStays
<1>1. WatchInv' /\ AlertsGoOn
  <2>1. ASSUME NEW v \in Requests, Watching!ViewStatus(v) \/ Watching!StepOf(v) \/ Watching!StopServer(v)
        PROVE  WatchInv' /\ AlertsGoOn
    BY <2>1, ViewStatusHolds, ProbeHolds, ReadLatestSampleHolds, AppendSampleHolds,
       FindOpenAlertHolds, OpenOrRefreshHolds, ResolveHolds, StopServerHolds DEF Watching!StepOf
  <2>2. ASSUME NEW o \in Operators, Watching!ReadAlert(o) \/ Watching!AcknowledgeAlert(o)
        PROVE  WatchInv' /\ AlertsGoOn
    BY <2>2, ReadAlertHolds, AcknowledgeHolds
  <2>3. CASE UNCHANGED Watching!vars
    <3>1. /\ UNCHANGED <<now, provider, attested, changes, lost>>
          /\ samples' = samples /\ alerts' = alerts /\ viewers' = viewers /\ acks' = acks
      BY <2>3 DEF Watching!vars
    <3>2. WorldHolds' /\ now <= now'
      BY <3>1 DEF WatchInv, WorldHolds
    <3> QED BY <3>1, <3>2, WorldStep
  <2> QED BY <2>1, <2>2, <2>3, WorldMoves DEF Watching!Next
<1> QED BY <1>1 DEF AlertsGoOn

LEMMA WatchInvariant == Watching!Spec => []WatchInv
<1>1. WatchInv /\ [Watching!Next]_Watching!vars => WatchInv'
  BY WatchStep
<1> QED BY <1>1, WatchStarts, PTL DEF Watching!Spec

-----------------------------------------------------------------------------
(* The console as a whole.                                                   *)

\* Whatever requests are under way, the audit tells what became of every account
\* and content, nobody moderates while suspended, no row lock has two holders,
\* and requests that moderate accounts never wait for each other.
THEOREM ModerationAlwaysRecorded == PlatformSpec => []ModerationIsRecorded
<1>1. LogTyped /\ ModInv /\ StaffInv /\ WatchInv => ModerationIsRecorded
  BY ModInvImplies, StaffInvImplies, WatchInvImplies DEF LogTyped, ModerationIsRecorded
<1> QED BY <1>1, LogTypedHolds, ModInvariant, StaffInvariant, WatchInvariant, PTL DEF PlatformSpec

\* Whatever late request writes it: a revoked operator comes back by a grant
\* alone, the bootstrap ends with an account that is complete, and a resolved or
\* acknowledged alert stays so.
THEOREM ClosedAlwaysStays == PlatformSpec => ClosedStaysClosed
<1>1. StaffInv /\ [Staffing!Next]_Staffing!vars => Staffing!OnlyAGrantRestores /\ Staffing!BootstrapCompletes
  BY StaffStep DEF Restores
<1>2. WatchInv /\ [Watching!Next]_Watching!vars => Watching!ClosedStays
  BY WatchStep
<1> QED BY <1>1, <1>2, StaffInvariant, WatchInvariant, PTL
       DEF PlatformSpec, Staffing!Spec, Watching!Spec, ClosedStaysClosed
=============================================================================
