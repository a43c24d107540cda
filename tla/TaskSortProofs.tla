---------------------------- MODULE TaskSortProofs ---------------------------
(***************************************************************************)
(* The list that GET /analysis cuts into pages.  Whatever sort.Slice makes *)
(* of the comparison, which in ascending order says of equal tasks that    *)
(* each is less than the other, the list has every task that passes the    *)
(* filters once, no task behind one it precedes, and a task without a twin *)
(* exactly behind those that precede it.                                   *)
(***************************************************************************)
EXTENDS TaskList, FiniteSetTheorems, SequenceTheorems, TLAPS

(* A power of two is the number of subsets of some set.                    *)
LEMMA Powers == ASSUME NEW n \in Nat PROVE 2 ^ n \in Nat \ {0}
<1> DEFINE S == 1..n
<1>1. IsFiniteSet(S) /\ Cardinality(S) = n
    BY FS_Interval
<1>2. IsFiniteSet(SUBSET S) /\ Cardinality(SUBSET S) = 2 ^ n
    BY <1>1, FS_SUBSET
<1>3. Cardinality(SUBSET S) \in Nat /\ Cardinality(SUBSET S) # 0
    BY <1>2, FS_CardinalityType, FS_EmptySet
<1>4. QED
    BY <1>2, <1>3

Keyed(S) == S \subseteq Task /\ \A t, u \in S : t.key = u.key => t = u

(* Names and times are numbers.                                            *)
LEMMA TaskFacts ==
    ASSUME NEW t \in Task
    PROVE  /\ Namespace(t) \in Nat /\ Name(t) \in Nat /\ t.time \in Nat
           /\ t.key = <<Namespace(t), Name(t)>>
<1>1. t.key \in Nat \X Nat /\ t.time \in 0..MaxClock
    BY KeysAssumption DEF Task
<1>2. QED
    BY <1>1, BoundsAssumption DEF Namespace, Name

(* The order of the answer is strict, and what comes between two others    *)
(* comes behind the first or before the second.                            *)
LEMMA PrecedesOrder ==
    ASSUME NEW q \in Query
    PROVE  /\ \A t \in Task : ~Precedes(t, t, q)
           /\ \A t, u, v \in Task : Precedes(t, u, q) /\ Precedes(u, v, q) => Precedes(t, v, q)
           /\ \A t, u, v \in Task : Precedes(t, v, q) => Precedes(t, u, q) \/ Precedes(u, v, q)
<1>1. \A t \in Task : ~Precedes(t, t, q)
    BY TaskFacts DEF Precedes, DefaultObjectMetaCompare
<1>2. ASSUME NEW t \in Task, NEW u \in Task, NEW v \in Task
      PROVE  /\ Precedes(t, u, q) /\ Precedes(u, v, q) => Precedes(t, v, q)
             /\ Precedes(t, v, q) => Precedes(t, u, q) \/ Precedes(u, v, q)
  <2>1. /\ Name(t) \in Nat /\ t.time \in Nat /\ Name(u) \in Nat /\ u.time \in Nat
        /\ Name(v) \in Nat /\ v.time \in Nat
      BY TaskFacts
  <2>2. CASE q.ascending
      BY <2>1, <2>2 DEF Precedes, DefaultObjectMetaCompare
  <2>3. CASE ~q.ascending
      BY <2>1, <2>3 DEF Precedes, DefaultObjectMetaCompare
  <2>4. QED
      BY <2>2, <2>3
<1>3. QED
    BY <1>1, <1>2

Passing(S, q) == {t \in S : Matches(t, q.filters)}

(* How many of the tasks that pass come before t in the answer.            *)
Ahead(S, q, t) == {u \in Passing(S, q) : Precedes(u, t, q)}
Rank(S, q, t) == Cardinality(Ahead(S, q, t))

(* Two lists of the same tasks are the same list.                          *)
LEMMA SameList ==
    ASSUME NEW q, NEW S, NEW T, Passing(S, q) = Passing(T, q)
    PROVE  Sorted(S, q) = Sorted(T, q)
BY DEF Sorted, Passing

(* What the assumption on the sort says of the list.                       *)
LEMMA SortedList ==
    ASSUME NEW q \in Query, NEW S, IsFiniteSet(S), Keyed(S)
    PROVE  /\ Sorted(S, q) \in Seq(Task)
           /\ Range(Sorted(S, q)) = Passing(S, q)
           /\ IsInjective(Sorted(S, q))
           /\ \A i, j \in DOMAIN Sorted(S, q) :
                 i < j => ~Precedes(Sorted(S, q)[j], Sorted(S, q)[i], q)
<1> DEFINE M == Passing(S, q)
           by == q.sortBy
           asc == q.ascending
           p == [sortBy |-> by, ascending |-> asc]
           s == sortSlice(M, by, asc)
<1>1. M \subseteq S /\ M \in SUBSET Task /\ (\A t, u \in M : t.key = u.key => t = u)
    BY DEF Passing, Keyed
<1>2. by \in {"name", "creationTimestamp"} /\ asc \in BOOLEAN
    BY DEF Query
<1>3. s = Sorted(S, q)
    BY DEF Sorted, Passing
<1> HIDE DEF M
<1>4. /\ s \in Seq(M) /\ Range(s) = M /\ IsInjective(s)
      /\ \A i, j \in DOMAIN s : i < j => Less(s[i], s[j], p) \/ ~Less(s[j], s[i], p)
    BY <1>1, <1>2, SortAssumption
<1>5. \A t, u \in M : Less(t, u, p) \/ ~Less(u, t, p) => ~Precedes(u, t, q)
  <2>1. SUFFICES ASSUME NEW t \in M, NEW u \in M, Less(t, u, p) \/ ~Less(u, t, p)
                 PROVE  ~Precedes(u, t, q)
      OBVIOUS
  <2>2. Name(t) \in Nat /\ t.time \in Nat /\ Name(u) \in Nat /\ u.time \in Nat
      BY <1>1, TaskFacts
  <2>3. ~(DefaultObjectMetaCompare(t, u, by) /\ DefaultObjectMetaCompare(u, t, by))
      BY <2>2 DEF DefaultObjectMetaCompare
  <2>4. p.sortBy = by /\ p.ascending = asc
      OBVIOUS
  <2>5. CASE asc
      BY <2>1, <2>3, <2>4, <2>5 DEF Less, Precedes
  <2>6. CASE ~asc
      BY <2>1, <2>3, <2>4, <2>6 DEF Less, Precedes
  <2>7. QED
      BY <2>5, <2>6
<1> HIDE DEF s, p
<1>6. s \in Seq(Task) /\ \A i \in DOMAIN s : s[i] \in M
    BY <1>1, <1>4
<1>7. \A i, j \in DOMAIN s : i < j => ~Precedes(s[j], s[i], q)
    BY <1>4, <1>5, <1>6
<1>8. QED
    BY <1>3, <1>4, <1>6, <1>7 DEF M

(* The first k of a list without repeats are k.                            *)
LEMMA FirstOnes ==
    ASSUME NEW s \in Seq(Task), IsInjective(s), NEW k \in 0..Len(s)
    PROVE  /\ IsFiniteSet({s[j] : j \in 1..k})
           /\ Cardinality({s[j] : j \in 1..k}) = k
<1> DEFINE A == {s[j] : j \in 1..k}
           f == [j \in 1..k |-> s[j]]
<1>1. k \in Nat /\ 1..k \subseteq DOMAIN s
    OBVIOUS
<1>2. \A i, j \in 1..k : s[i] = s[j] => i = j
    BY <1>1 DEF IsInjective
<1>3. f \in Bijection(1..k, A)
    BY <1>2, Zenon DEF Bijection, Injection, Surjection, IsInjective
<1>4. IsFiniteSet(1..k) /\ Cardinality(1..k) = k
    BY <1>1, FS_Interval
<1> HIDE DEF A, f
<1>5. ExistsBijection(1..k, A)
    BY <1>3 DEF ExistsBijection
<1>6. IsFiniteSet(A) /\ Cardinality(A) = Cardinality(1..k)
    BY <1>4, <1>5, FS_Bijection
<1>7. QED
    BY <1>4, <1>6 DEF A

(* Sorted brings every task that passes the filters once; none comes       *)
(* earlier than its rank allows, what precedes another one comes within    *)
(* the rank of that, and a task without a twin comes right behind its rank. *)
THEOREM SortedRanks ==
    ASSUME NEW q \in Query, NEW S, IsFiniteSet(S), Keyed(S)
    PROVE  LET L == Sorted(S, q)
           IN  /\ L \in Seq(Task) /\ Len(L) = Cardinality(Passing(S, q))
               /\ Range(L) = Passing(S, q) /\ IsInjective(L)
               /\ \A i \in 1..Len(L) :
                     /\ Rank(S, q, L[i]) <= i - 1
                     /\ \A x \in Task : Precedes(L[i], x, q) => i <= Rank(S, q, x)
                     /\ (\A u \in Passing(S, q) : ~Alike(L[i], u, q)) =>
                           Rank(S, q, L[i]) = i - 1
<1> DEFINE M == Passing(S, q)
           L == Sorted(S, q)
           n == Len(L)
           First(k) == {L[j] : j \in 1..k}
<1>1. /\ L \in Seq(Task) /\ Range(L) = M /\ IsInjective(L)
      /\ \A i, j \in DOMAIN L : i < j => ~Precedes(L[j], L[i], q)
    BY SortedList
<1>2. M \subseteq Task /\ IsFiniteSet(M)
  <2>1. M \subseteq S
      BY DEF Passing
  <2>2. QED
      BY <2>1, FS_Subset DEF Keyed
<1> HIDE DEF L, M
<1>3. n \in Nat /\ DOMAIN L = 1..n /\ \A i \in 1..n : L[i] \in M
    BY <1>1 DEF Range
<1>4. \A k \in 0..n : IsFiniteSet(First(k)) /\ Cardinality(First(k)) = k
    BY <1>1, FirstOnes
<1>5. \A t : Ahead(S, q, t) \subseteq M /\ \A u : u \in Ahead(S, q, t) <=> u \in M /\ Precedes(u, t, q)
    BY DEF Ahead, M
<1>6. \A t : /\ IsFiniteSet(Ahead(S, q, t)) /\ Rank(S, q, t) \in Nat
             /\ \A A : A \subseteq Ahead(S, q, t) => Cardinality(A) <= Rank(S, q, t)
             /\ \A k \in 0..n : Ahead(S, q, t) \subseteq First(k) => Rank(S, q, t) <= k
  <2>1. SUFFICES ASSUME NEW t
                 PROVE  /\ IsFiniteSet(Ahead(S, q, t)) /\ Rank(S, q, t) \in Nat
                        /\ \A A : A \subseteq Ahead(S, q, t) => Cardinality(A) <= Rank(S, q, t)
                        /\ \A k \in 0..n : Ahead(S, q, t) \subseteq First(k) => Rank(S, q, t) <= k
      OBVIOUS
  <2>2. IsFiniteSet(Ahead(S, q, t))
      BY <1>2, <1>5, FS_Subset
  <2>3. Rank(S, q, t) \in Nat
      BY <2>2, FS_CardinalityType DEF Rank
  <2>4. \A A : A \subseteq Ahead(S, q, t) => Cardinality(A) <= Rank(S, q, t)
      BY <2>2, FS_Subset DEF Rank
  <2>5. ASSUME NEW k \in 0..n, Ahead(S, q, t) \subseteq First(k) PROVE Rank(S, q, t) <= k
    <3> HIDE DEF First
    <3>1. Cardinality(Ahead(S, q, t)) <= Cardinality(First(k))
        BY <1>4, <2>5, FS_Subset
    <3>2. QED
        BY <1>4, <3>1 DEF Rank
  <2>6. QED
      BY <2>2, <2>3, <2>4, <2>5
<1>7. Cardinality(M) = n
  <2>1. First(n) = M
      BY <1>1, <1>3 DEF Range
  <2>2. n \in 0..n
      BY <1>3
  <2> HIDE DEF First
  <2>3. QED
      BY <1>4, <2>1, <2>2
<1>8. ASSUME NEW i \in 1..n
      PROVE  /\ Rank(S, q, L[i]) <= i - 1
             /\ \A x \in Task : Precedes(L[i], x, q) => i <= Rank(S, q, x)
             /\ (\A u \in M : ~Alike(L[i], u, q)) => Rank(S, q, L[i]) = i - 1
  <2>1. i - 1 \in 0..n /\ i \in 0..n /\ i \in Nat
      BY <1>3
  <2>2. Rank(S, q, L[i]) <= i - 1
    <3>1. ASSUME NEW u \in Ahead(S, q, L[i]) PROVE u \in First(i - 1)
      <4>1. PICK j \in 1..n : u = L[j]
          BY <1>1, <1>3, <1>5, <3>1 DEF Range
      <4>2. Precedes(L[j], L[i], q)
          BY <1>5, <3>1, <4>1
      <4>3. j # i
          BY <1>2, <1>3, <4>2, PrecedesOrder
      <4>4. ~(i < j)
          BY <1>1, <1>3, <4>2
      <4>5. j \in 1..i - 1
          BY <1>3, <4>3, <4>4
      <4>6. QED
          BY <4>1, <4>5
    <3>2. Ahead(S, q, L[i]) \subseteq First(i - 1)
        BY <3>1
    <3> HIDE DEF First
    <3>3. QED
        BY <1>6, <2>1, <3>2
  <2>3. ASSUME NEW x \in Task, Precedes(L[i], x, q) PROVE i <= Rank(S, q, x)
    <3>1. ASSUME NEW j \in 1..i PROVE L[j] \in Ahead(S, q, x)
      <4>1. j \in 1..n /\ (j = i \/ j < i)
          BY <1>3
      <4>2. L[i] \in Task /\ L[j] \in Task /\ L[j] \in M
          BY <1>2, <1>3, <4>1
      <4>3. ~Precedes(L[i], L[j], q)
          BY <1>1, <1>3, <4>1, <4>2, PrecedesOrder
      <4>4. Precedes(L[j], x, q)
          BY <2>3, <4>2, <4>3, PrecedesOrder
      <4>5. QED
          BY <1>5, <4>2, <4>4
    <3>2. First(i) \subseteq Ahead(S, q, x)
        BY <3>1
    <3> HIDE DEF First
    <3>3. QED
        BY <1>4, <1>6, <2>1, <3>2
  <2>4. ASSUME \A u \in M : ~Alike(L[i], u, q) PROVE Rank(S, q, L[i]) = i - 1
    <3>1. ASSUME NEW j \in 1..i - 1 PROVE L[j] \in Ahead(S, q, L[i])
      <4>1. j \in 1..n /\ j < i
          BY <1>3
      <4>2. L[j] \in M /\ ~Precedes(L[i], L[j], q) /\ L[i] # L[j]
          BY <1>1, <1>3, <4>1 DEF IsInjective
      <4>3. Precedes(L[j], L[i], q)
          BY <2>4, <4>2 DEF Alike
      <4>4. QED
          BY <1>5, <4>2, <4>3
    <3>2. First(i - 1) \subseteq Ahead(S, q, L[i])
        BY <3>1
    <3> HIDE DEF First
    <3>3. i - 1 <= Rank(S, q, L[i]) /\ Rank(S, q, L[i]) \in Nat
        BY <1>4, <1>6, <2>1, <3>2
    <3>4. QED
        BY <2>1, <2>2, <3>3
  <2>5. QED
      BY <2>2, <2>3, <2>4
<1>9. QED
    BY <1>1, <1>7, <1>8 DEF L, M
===============================================================================
