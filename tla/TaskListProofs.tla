---------------------------- MODULE TaskListProofs ---------------------------
(***************************************************************************)
(* What a client gets that reads the analysis tasks page by page while     *)
(* others create and delete tasks: the invariants of TaskList.             *)
(*                                                                         *)
(* A task has a rank in the answer: how many that match precede it.  None  *)
(* comes earlier in the list than its rank, and a task without a twin      *)
(* right behind its rank (PageRanks).  A task created raises the ranks of  *)
(* those it precedes, and a task deleted lowers ranks.  So a task without  *)
(* a twin that the client does not have yet keeps a rank at or behind the  *)
(* next offset unless one that matches is deleted (Kept), and any that it  *)
(* has keeps a rank below it unless one is created that precedes it        *)
(* (Passed).  Twins may change places, but only when the list is another   *)
(* one: until then the pages are those of one list (Straight).             *)
(***************************************************************************)
EXTENDS TaskSortProofs

(* What the assumptions say of an int: there are fewer tasks than the      *)
(* largest one.                                                            *)
LEMMA WidthFacts ==
    /\ Half \in Nat /\ Half >= 2 /\ Cardinality(Keys) \in Nat /\ Cardinality(Keys) < Half - 1
    /\ DefaultLimit \in 1..Half - 1
    /\ NoInteger \notin Int
<1>1. Width - 1 \in Nat /\ Width - 2 \in Nat /\ Width - 1 = (Width - 2) + 1
    BY WidthAssumption
<1>2. Half \in Nat \ {0}
    BY <1>1, Powers DEF Half
<1>3. Cardinality(Keys) \in Nat
    BY KeysAssumption, FS_CardinalityType
<1>4. Cardinality(Keys) < Half - 1
    BY KeysAssumption DEF Half
<1>5. DefaultLimit \in Nat \ {0} /\ DefaultLimit < Half
    BY DefaultLimitAssumption DEF Half
<1> HIDE DEF Half
<1>6. QED
    BY <1>2, <1>3, <1>4, <1>5, TextsAssumption

(* Sums of two that are not negative overflow to a negative number.        *)
LEMMA Wrapped ==
    ASSUME NEW n \in Nat
    PROVE  /\ n < Half => Wrap(n) = n
           /\ Half <= n /\ n < 2 * Half => Wrap(n) = n - 2 * Half
           /\ Wrap(n) \in Int /\ Wrap(n) <= n
<1> DEFINE d == 2 * Half
<1>1. Half \in Nat /\ d \in Nat /\ d > 0
    BY WidthFacts
<1>2. \A k \in Nat : k < d => k % d = k
    BY <1>1
<1>3. \A k \in Nat : d <= k /\ k < 2 * d => k % d = k - d
    BY <1>1
<1>4. \A k \in Nat : k % d \in Nat /\ k % d <= k
    BY <1>1
<1>5. Wrap(n) = ((n + Half) % d) - Half /\ n + Half \in Nat
    BY <1>1 DEF Wrap
<1> HIDE DEF Half, Wrap
<1>6. n < Half => n + Half < d
    BY <1>1
<1>7. Half <= n /\ n < d => d <= n + Half /\ n + Half < 2 * d
    BY <1>1
<1>8. QED
    BY <1>1, <1>2, <1>3, <1>4, <1>5, <1>6, <1>7

(***************************************************************************)
(* The pages.                                                              *)
(***************************************************************************)

(* At most as many tasks as keys.                                          *)
LEMMA FewTasks ==
    ASSUME NEW S, Keyed(S)
    PROVE  /\ IsFiniteSet(S) /\ Cardinality(S) \in Nat
           /\ Cardinality(S) <= Cardinality(Keys)
<1> DEFINE f == [t \in S |-> t.key]
<1>1. \A t \in S : t.key \in Keys
    BY DEF Keyed, Task
<1>2. \A t, u \in S : t.key = u.key => t = u
    BY DEF Keyed
<1>3. f \in Injection(S, Keys)
    BY <1>1, <1>2 DEF Injection, IsInjective
<1> HIDE DEF f
<1>4. IsFiniteSet(S) /\ Cardinality(S) <= Cardinality(Keys)
    BY <1>3, KeysAssumption, FS_Injection
<1>5. QED
    BY <1>4, FS_CardinalityType

(* What a request for lim tasks behind the first off gets out of a list:   *)
(* no more than it asked for, from the place it asked for, and nothing     *)
(* only if the list ends before that place.                                *)
IsPage(list, lim, off, got, status) ==
    /\ status \in {200, 500}
    /\ got \in Seq(Task) /\ Len(got) <= lim
    /\ \A i \in 1..Len(got) : off + i \in 1..Len(list) /\ got[i] = list[off + i]
    /\ got = <<>> /\ status = 200 /\ lim > 0 => Len(list) <= off
    /\ got # <<>> => /\ status = 200 /\ off < Len(list) /\ off + lim < Half
                     /\ Len(got) = lim \/ off + Len(got) = Len(list)

(* From the offset to where the limit or the list ends.                    *)
LEMMA Cut ==
    ASSUME NEW L \in Seq(Task), NEW lim \in Nat, NEW off \in Nat, NEW e \in Nat,
           off <= e, e <= Len(L), e - off <= lim, off + lim < Half,
           e = Len(L) \/ e = off + lim
    PROVE  IsPage(L, lim, off, SubSeq(L, off + 1, e), 200)
<1> DEFINE n == Len(L)
           a == off + 1
           got == SubSeq(L, a, e)
<1>1. n \in Nat /\ a \in 1..n + 1 /\ e \in a - 1..n /\ e - off \in Nat
    OBVIOUS
<1>2. e - a + 1 = e - off /\ \A i \in 1..e - off : a + i - 1 = off + i
    OBVIOUS
<1> HIDE DEF a
<1>3. /\ got \in Seq(Task) /\ Len(got) = e - a + 1
      /\ \A i \in 1..e - a + 1 : got[i] = L[a + i - 1]
  <2>1. a \in Int /\ e \in Int /\ \A i \in a..e : L[i] \in Task
      BY <1>1
  <2>2. /\ got \in Seq(Task) /\ Len(got) = IF a <= e THEN e - a + 1 ELSE 0
        /\ \A i \in 1..e - a + 1 : got[i] = L[a + i - 1]
      BY <2>1, SubSeqProperties
  <2>3. e - a + 1 = IF a <= e THEN e - a + 1 ELSE 0
      BY <1>1
  <2> HIDE DEF got, n
  <2>4. QED
      BY <2>2, <2>3
<1> HIDE DEF n, got
<1>4. /\ got \in Seq(Task) /\ Len(got) = e - off
      /\ \A i \in 1..e - off : got[i] = L[off + i]
    BY <1>2, <1>3
<1>5. \A i \in 1..e - off : off + i \in 1..n
    BY <1>1 DEF n
<1>6. got = <<>> => e - off = 0
    BY <1>4
<1>7. got # <<>> => e - off # 0
    BY <1>4
<1>8. got = <<>> /\ lim > 0 => n <= off
    BY <1>1, <1>6 DEF n
<1>9. got # <<>> => off < n /\ (e - off = lim \/ off + (e - off) = n)
    BY <1>1, <1>7 DEF n
<1>10. IsPage(L, lim, off, got, 200)
    BY <1>4, <1>5, <1>8, <1>9 DEF IsPage, n
<1>11. QED
    BY <1>10 DEF got, a

(* DefaultList answers with such a page.                                   *)
THEOREM Page ==
    ASSUME NEW q, NEW S, NEW p, Sorted(S, q) \in Seq(Task),
           p.limit \in Nat, p.offset \in Nat, p.limit < Half, p.offset < Half,
           Len(Sorted(S, q)) < Half
    PROVE  IsPage(Sorted(S, q), p.limit, p.offset,
                  DefaultList(S, q, p).page, DefaultList(S, q, p).status)
<1> DEFINE L == Sorted(S, q)
           n == Len(L)
           lim == p.limit
           off == p.offset
           sum == off + lim
           last == IF Wrap(sum) > n THEN n ELSE Wrap(sum)
           r == GetValidPagination(p, n)
           got == DefaultList(S, q, p).page
           status == DefaultList(S, q, p).status
<1>1. /\ Half \in Nat /\ n \in Nat /\ n < Half /\ L \in Seq(Task)
      /\ lim \in Nat /\ off \in Nat /\ lim < Half /\ off < Half
    BY WidthFacts
<1>2. r = IF off > n THEN <<0, 0>> ELSE <<off, last>>
    BY <1>1 DEF GetValidPagination
<1>3. sum \in Nat /\ sum < 2 * Half
    BY <1>1
<1>4. /\ sum < Half => Wrap(sum) = sum
      /\ Half <= sum => Wrap(sum) = sum - 2 * Half
    BY <1>3, Wrapped
<1>5. /\ status = IF r[2] < r[1] THEN 500 ELSE 200
      /\ got = IF r[2] < r[1] THEN <<>> ELSE SubSeq(L, r[1] + 1, r[2])
    BY DEF DefaultList
<1> HIDE DEF got, status, r
<1>6. <<>> \in Seq(Task) /\ Len(<<>>) = 0
    OBVIOUS
<1>7. ASSUME off > n
      PROVE  IsPage(L, lim, off, got, status)
  <2>1. r[1] = 0 /\ r[2] = 0
      BY <1>2, <1>7
  <2>2. status = 200 /\ got = SubSeq(L, 1, 0)
      BY <1>5, <2>1
  <2>3. got = <<>>
      BY <1>1, <2>2
  <2>4. n <= off
      BY <1>1, <1>7
  <2> HIDE DEF L, lim, off
  <2>5. QED
      BY <1>1, <1>6, <2>2, <2>3, <2>4 DEF IsPage, n
<1>8. ASSUME ~(off > n) /\ Half <= sum
      PROVE  IsPage(L, lim, off, got, status)
  <2>1. last = sum - 2 * Half /\ sum - 2 * Half < off
      BY <1>1, <1>4, <1>8
  <2>2. r[1] = off /\ r[2] = sum - 2 * Half
      BY <1>2, <1>8, <2>1
  <2>3. status = 500 /\ got = <<>>
      BY <1>5, <2>1, <2>2
  <2> HIDE DEF L, lim, off, n
  <2>4. QED
      BY <1>1, <1>6, <2>3 DEF IsPage
<1>9. ASSUME ~(off > n) /\ sum < Half
      PROVE  IsPage(L, lim, off, got, status)
  <2> DEFINE e == IF sum > n THEN n ELSE sum
  <2>1. last = e /\ off <= e /\ e <= n /\ e \in Nat /\ e - off <= lim /\ (e = n \/ e = sum)
      BY <1>1, <1>3, <1>4, <1>9
  <2>2. r[1] = off /\ r[2] = e
      BY <1>2, <1>9, <2>1
  <2> HIDE DEF e
  <2>3. ~(e < off)
      BY <1>1, <2>1
  <2>4. status = 200 /\ got = SubSeq(L, off + 1, e)
      BY <1>5, <2>2, <2>3
  <2> HIDE DEF L, lim, off
  <2>5. IsPage(L, lim, off, SubSeq(L, off + 1, e), 200)
      BY <1>1, <1>9, <2>1, Cut DEF n, sum
  <2>6. QED
      BY <2>4, <2>5
<1>10. \/ off > n
       \/ ~(off > n) /\ Half <= sum
       \/ ~(off > n) /\ sum < Half
    BY <1>1, <1>3
<1>11. IsPage(L, lim, off, got, status)
    BY <1>7, <1>8, <1>9, <1>10
<1>12. QED
    BY <1>11 DEF got, status

(* Whatever is computed is an int.                                         *)
LEMMA WrapRange ==
    ASSUME NEW n \in Int
    PROVE  Wrap(n) \in Int /\ Wrap(n) < Half
<1> DEFINE d == 2 * Half
           m == n + Half
<1>1. Half \in Nat /\ d \in Nat /\ d > 0 /\ m \in Int
    BY WidthFacts
<1>2. \A k \in Int : k % d \in Nat /\ k % d < d
    BY <1>1
<1>3. Wrap(n) = (m % d) - Half
    BY DEF Wrap
<1> HIDE DEF m, Half
<1>4. m % d \in Nat /\ m % d < d
    BY <1>1, <1>2
<1>5. QED
    BY <1>1, <1>3, <1>4

(* A parameter is read as an int.                                          *)
LEMMA AtoiFacts ==
    ASSUME NEW text \in Int \cup {NoInteger}, NEW d \in Int, d < Half, -Half <= d
    PROVE  /\ Atoi(text, d) \in Int /\ Atoi(text, d) < Half /\ -Half <= Atoi(text, d)
           /\ text \in Int /\ -Half <= text /\ text < Half => Atoi(text, d) = text
<1>1. Half \in Nat /\ text # NoInteger <=> text \in Int
    BY WidthFacts
<1>2. \A k \in Int : k \in Int_ <=> -Half <= k /\ k < Half
    BY WidthFacts DEF Int_
<1>3. CASE text \in Int
    BY <1>1, <1>2, <1>3 DEF Atoi
<1>4. CASE text = NoInteger
    BY <1>1, <1>4 DEF Atoi
<1>5. QED
    BY <1>3, <1>4

(* The number of tasks on a page that a client asks for.                   *)
Given(q) ==
    LET n == Atoi(q.limit, DefaultLimit) IN IF n < 0 THEN DefaultLimit ELSE n

(* What ParseQueryParameter makes of them: never a page that cannot be cut *)
(* out of a list, and for a whole reading the page that was asked for.     *)
LEMMA Parameters ==
    ASSUME NEW q \in Query, NEW position \in Int \cup {NoInteger}
    PROVE  LET p == ParseQueryParameter(q.by, position, q.limit)
           IN  /\ p.limit \in Nat /\ p.limit < Half /\ p.offset \in Nat /\ p.offset < Half
               /\ \/ q.by = "page" /\ position \in Int /\ position >= 1
                  \/ q.by = "start" /\ Atoi(position, 0) >= 0
                  => p.limit = Given(q)
               /\ Atoi(q.limit, DefaultLimit) \notin {-1, 0} =>
                     /\ Given(q) \in Nat /\ Given(q) > 0
                     /\ q.by = "start" /\ Atoi(position, 0) >= 0 => p.offset = Atoi(position, 0)
                     /\ \A at \in Nat :
                           /\ q.by = "page" /\ position \in 1..Half - 1
                           /\ at = (position - 1) * Given(q) /\ at < Half
                           => p.offset = at
<1> DEFINE n == Atoi(q.limit, DefaultLimit)
           limit == IF n < -1 THEN DefaultLimit ELSE n
           page == IF q.by = "page" THEN Atoi(position, 1) ELSE 0
           start == IF q.by = "start" THEN Atoi(position, 0) ELSE 0
           far == (page - 1) * limit
           p == ParseQueryParameter(q.by, position, q.limit)
<1>1. q.by \in {"page", "start"} /\ q.limit \in Int \cup {NoInteger}
    BY TextsAssumption DEF Query
<1>2. /\ Half \in Nat /\ Half >= 2 /\ DefaultLimit \in Nat
      /\ DefaultLimit > 0 /\ DefaultLimit < Half
      /\ -Half <= DefaultLimit /\ -Half <= 0 /\ -Half <= 1
      /\ DefaultLimit \in Int /\ 0 \in Int /\ 1 \in Int /\ 0 < Half /\ 1 < Half
    BY WidthFacts
<1>3. n \in Int /\ n < Half
    BY <1>1, <1>2, AtoiFacts
<1>4. /\ Atoi(position, 1) \in Int /\ Atoi(position, 0) \in Int
      /\ Atoi(position, 1) < Half /\ Atoi(position, 0) < Half
      /\ position \in 1..Half - 1 => Atoi(position, 1) = position
  <2>1. position \in 1..Half - 1 => position \in Int /\ -Half <= position /\ position < Half
      BY <1>2
  <2>2. QED
      BY <1>2, <2>1, AtoiFacts
<1>5. position \in Int /\ position >= 1 => Atoi(position, 1) >= 1
  <2>1. CASE position \in Int_
      BY <2>1, WidthFacts DEF Atoi
  <2>2. CASE position \notin Int_
      BY <2>2, WidthFacts DEF Atoi
  <2>3. QED
      BY <2>1, <2>2
<1>6. p = IF page >= 1 THEN newPagination(limit, Wrap(far))
          ELSE IF start >= 0 THEN newPagination(limit, start)
          ELSE NoPagination
    BY DEF ParseQueryParameter
<1>7. Given(q) = IF n < 0 THEN DefaultLimit ELSE n
    BY DEF Given
<1>8. /\ page \in Int /\ start \in Int /\ start < Half
      /\ q.by = "page" => page = Atoi(position, 1)
      /\ q.by = "start" => page = 0 /\ start = Atoi(position, 0)
    BY <1>1, <1>2, <1>4
<1> HIDE DEF n, page, start, p
<1>9. limit \in Int /\ limit < Half
    BY <1>2, <1>3
<1>10. far \in Int
  <2>1. \A a, b \in Int : (a - 1) * b \in Int
      OBVIOUS
  <2>2. QED
      BY <1>8, <1>9, <2>1
<1> DEFINE turned == Wrap(far)
<1>11. turned \in Int /\ turned < Half
    BY <1>10, WrapRange
<1>12. p = IF page >= 1 THEN newPagination(limit, turned)
           ELSE IF start >= 0 THEN newPagination(limit, start)
           ELSE NoPagination
    BY <1>6
<1> HIDE DEF turned
<1>13. /\ p.limit = IF page >= 1 \/ start >= 0 THEN (IF limit < 0 THEN DefaultLimit ELSE limit)
                    ELSE DefaultLimit
       /\ p.offset = IF page >= 1 THEN (IF turned < 0 THEN 0 ELSE turned)
                     ELSE IF start >= 0 THEN start ELSE 0
  <2> DEFINE a == newPagination(limit, turned)
             b == newPagination(limit, start)
  <2>1. /\ a.limit = IF limit < 0 THEN DefaultLimit ELSE limit
        /\ a.offset = IF turned < 0 THEN 0 ELSE turned
        /\ b.limit = IF limit < 0 THEN DefaultLimit ELSE limit
        /\ b.offset = IF start < 0 THEN 0 ELSE start
      BY DEF newPagination
  <2>2. NoPagination.limit = DefaultLimit /\ NoPagination.offset = 0
      BY DEF newPagination, NoPagination
  <2> HIDE DEF a, b, limit
  <2>3. p = IF page >= 1 THEN a ELSE IF start >= 0 THEN b ELSE NoPagination
      BY <1>12 DEF a, b
  <2>4. CASE page >= 1
      BY <2>1, <2>3, <2>4
  <2>5. CASE ~(page >= 1) /\ start >= 0
      BY <1>8, <2>1, <2>3, <2>5
  <2>6. CASE ~(page >= 1) /\ ~(start >= 0)
      BY <2>2, <2>3, <2>6
  <2>7. QED
      BY <2>4, <2>5, <2>6
<1>14. p.limit \in Nat /\ p.limit < Half /\ p.offset \in Nat /\ p.offset < Half
    BY <1>2, <1>8, <1>9, <1>11, <1>13
<1>15. (IF limit < 0 THEN DefaultLimit ELSE limit) = Given(q)
    BY <1>2, <1>3, <1>7
<1>16. \/ q.by = "page" /\ position \in Int /\ position >= 1
       \/ q.by = "start" /\ Atoi(position, 0) >= 0
       => p.limit = Given(q)
    BY <1>5, <1>8, <1>13, <1>15
<1>17. ASSUME n \notin {-1, 0}
       PROVE  Given(q) \in Nat /\ Given(q) > 0 /\ limit = Given(q)
    BY <1>2, <1>3, <1>7, <1>17
<1>18. q.by = "start" /\ Atoi(position, 0) >= 0 => p.offset = Atoi(position, 0)
    BY <1>8, <1>13
<1>19. ASSUME n \notin {-1, 0}, NEW at \in Nat, q.by = "page", position \in 1..Half - 1,
              at = (position - 1) * Given(q), at < Half
       PROVE  p.offset = at
  <2>1. page = position /\ page >= 1
      BY <1>2, <1>4, <1>8, <1>19
  <2>2. far = at
      BY <1>17, <1>19, <2>1
  <2>3. turned = at
      BY <1>19, <2>2, Wrapped DEF turned
  <2>4. QED
      BY <1>13, <1>19, <2>1, <2>3
<1>20. QED
    BY <1>14, <1>16, <1>17, <1>18, <1>19 DEF p, n

(***************************************************************************)
(* The invariant of a reading r while the cluster has the tasks T.         *)
(***************************************************************************)

PageOf(r) == ParseQueryParameter(r.query.by, r.position, r.query.limit)

WholeReading(r) ==
    /\ Atoi(r.first, 0) \in IF r.query.by = "page" THEN {1} ELSE {0}
    /\ Atoi(r.query.limit, DefaultLimit) \notin {-1, 0}

TwinOf(r, t) == \E u \in Passing(r.began \cup r.created, r.query) : Alike(t, u, r.query)

EarlierCreated(r, t) == \E c \in Passing(r.created, r.query) : Precedes(c, t, r.query)

Undisturbed(r) == Passing(r.created, r.query) = {} /\ Passing(r.deleted, r.query) = {}

Once(s, t) == \A i, j \in DOMAIN s : s[i] = t /\ s[j] = t => i = j

(* The client has tasks that it may have, and goes on among those; of      *)
(* those that were there only deleted ones are gone.                       *)
Witnessed(r, T) ==
    /\ Keyed(r.began)
    /\ Range(r.seen) \subseteq Passing(r.began \cup r.created, r.query)
    /\ r.pc = "reading" => /\ T \subseteq r.began \cup r.created
                           /\ r.began \ r.deleted \subseteq T

(* What it got so far is no longer than the pages it asked for.            *)
Bounded(r) ==
    \/ Len(r.seen) <= r.requests * Limit(r.query, r.first)
    \/ r.query.by = "start" /\ Atoi(r.first, 0) < 0

(* The number of the page, and where the page begins, are integers that    *)
(* the machine has.                                                        *)
Placed(r) ==
    r.pc = "reading" =>
       /\ r.query.by = "page" => r.first = 1 /\ r.position \in Nat \ {0}
       /\ r.query.by = "start" /\ Atoi(r.first, 0) >= 0 => Atoi(r.position, 0) >= 0
       /\ r.query.by = "page" /\ WholeReading(r) =>
             r.position < Half /\ (r.position - 1) * Given(r.query) < Half

(* What the client does not have yet comes on a later page.                *)
Kept(r, T) ==
    WholeReading(r) /\ Passing(r.deleted, r.query) = {} =>
       \A t \in Passing(r.began, r.query) :
          \/ t \in Range(r.seen) \/ TwinOf(r, t)
          \/ r.pc = "reading" /\ PageOf(r).offset <= Rank(T, r.query, t)
          \/ r.pc = "done" /\ r.status # 200

(* What it has would come on an earlier page.                              *)
Passed(r, T) ==
    WholeReading(r) =>
       \A t \in Range(r.seen) :
          \/ EarlierCreated(r, t)
          \/ /\ r.pc = "reading" => Rank(T, r.query, t) < PageOf(r).offset
             /\ TwinOf(r, t) \/ Once(r.seen, t)

Arranged(r) ==
    WholeReading(r) /\ Passing(r.created, r.query) = {} =>
       \A i, j \in DOMAIN r.seen : i < j => ~Precedes(r.seen[j], r.seen[i], r.query)

(* Without a change the pages are those of one list.                       *)
Straight(r) ==
    WholeReading(r) /\ Undisturbed(r) =>
       LET L == Sorted(r.began, r.query)
       IN  /\ \A i \in 1..Len(r.seen) : i \in 1..Len(L) /\ r.seen[i] = L[i]
           /\ r.pc = "reading" => /\ Len(r.seen) <= PageOf(r).offset
                                  /\ Len(r.seen) \in {PageOf(r).offset, Len(L)}
           /\ r.pc = "done" /\ r.status = 200 => Len(r.seen) = Len(L)

ReadingInv(r, T) ==
    /\ r \in Readings
    /\ Witnessed(r, T) /\ Bounded(r) /\ Placed(r)
    /\ Kept(r, T) /\ Passed(r, T) /\ Arranged(r) /\ Straight(r)

TasksOK == Keyed(tasks) /\ clock \in 0..MaxClock /\ changes \in 0..MaxChanges

IInv == TasksOK /\ (read = Nobody \/ ReadingInv(read, tasks))

(***************************************************************************)
(* How ranks change.                                                       *)
(***************************************************************************)

(* A rank is a number.                                                     *)
LEMMA RankKinds ==
    ASSUME NEW q, NEW S, Keyed(S), NEW t
    PROVE  /\ IsFiniteSet(Ahead(S, q, t)) /\ Rank(S, q, t) \in Nat
           /\ \A A : A \subseteq Ahead(S, q, t) => Cardinality(A) <= Rank(S, q, t)
<1>1. IsFiniteSet(S)
    BY FewTasks
<1>2. Ahead(S, q, t) \subseteq S
    BY DEF Ahead, Passing
<1>3. IsFiniteSet(Ahead(S, q, t))
    BY <1>1, <1>2, FS_Subset
<1>4. QED
    BY <1>3, FS_CardinalityType, FS_Subset DEF Rank

(* A task more never lowers a rank, and leaves it alone if it is filtered  *)
(* out or comes later.                                                     *)
LEMMA RankOfMore ==
    ASSUME NEW q, NEW S, NEW c, Keyed(S \cup {c}), NEW t
    PROVE  /\ Keyed(S) /\ Rank(S, q, t) \in Nat /\ Rank(S \cup {c}, q, t) \in Nat
           /\ Rank(S, q, t) <= Rank(S \cup {c}, q, t)
           /\ ~Matches(c, q.filters) \/ ~Precedes(c, t, q) =>
                 Rank(S \cup {c}, q, t) = Rank(S, q, t)
<1> DEFINE B == S \cup {c}
<1>1. Keyed(S)
    BY DEF Keyed
<1>2. Ahead(S, q, t) \subseteq Ahead(B, q, t)
    BY DEF Ahead, Passing
<1>3. ~Matches(c, q.filters) \/ ~Precedes(c, t, q) => Ahead(B, q, t) = Ahead(S, q, t)
    BY DEF Ahead, Passing
<1>4. Keyed(B)
    OBVIOUS
<1> HIDE DEF B
<1>5. Rank(S, q, t) \in Nat /\ Rank(B, q, t) \in Nat
    BY <1>1, <1>4, RankKinds
<1>6. Rank(S, q, t) <= Rank(B, q, t)
    BY <1>2, <1>4, RankKinds DEF Rank
<1>7. ~Matches(c, q.filters) \/ ~Precedes(c, t, q) => Rank(B, q, t) = Rank(S, q, t)
    BY <1>3 DEF Rank
<1>8. QED
    BY <1>1, <1>5, <1>6, <1>7 DEF B

(***************************************************************************)
(* Changes of the cluster.                                                 *)
(***************************************************************************)

(* After a reading it does not matter which tasks there are.               *)
LEMMA AfterReading ==
    ASSUME NEW r, NEW T, NEW U, ReadingInv(r, T), r.pc # "reading"
    PROVE  ReadingInv(r, U)
BY DEF ReadingInv, Witnessed, Kept, Passed

(* The fields of a reading.                                                *)
LEMMA Fields ==
    ASSUME NEW r \in Readings
    PROVE  /\ r.pc \in {"reading", "done"} /\ r.query \in Query
           /\ r.first \in Int \cup {NoInteger} /\ r.position \in Int \cup {NoInteger}
           /\ r.requests \in 0..MaxRequests /\ r.seen \in Seq(Task)
           /\ r.began \subseteq Task /\ r.created \subseteq Task /\ r.deleted \subseteq Task
BY DEF Readings

(* Another client creates a task.                                          *)
LEMMA Creates ==
    ASSUME NEW r, NEW T, Keyed(T), ReadingInv(r, T), r.pc = "reading",
           NEW c \in Task, Keyed(T \cup {c})
    PROVE  ReadingInv([r EXCEPT !.created = @ \cup {c}], T \cup {c})
<1> DEFINE s == [r EXCEPT !.created = @ \cup {c}]
           U == T \cup {c}
           q == r.query
<1>1. r \in Readings
    BY DEF ReadingInv
<1>2. s \in Readings
    BY <1>1 DEF Readings
<1>3. /\ s.pc = r.pc /\ s.query = r.query /\ s.first = r.first /\ s.position = r.position
      /\ s.requests = r.requests /\ s.seen = r.seen /\ s.began = r.began
      /\ s.created = r.created \cup {c} /\ s.deleted = r.deleted /\ s.status = r.status
    BY <1>1 DEF Readings
<1> HIDE DEF s
<1>4. WholeReading(s) <=> WholeReading(r)
    BY <1>3 DEF WholeReading
<1>5. PageOf(s) = PageOf(r)
    BY <1>3 DEF PageOf
<1>6. Witnessed(s, U)
    BY <1>3 DEF ReadingInv, Witnessed, Passing
<1>7. Bounded(s)
    BY <1>3 DEF ReadingInv, Bounded
<1>8. Placed(s)
    BY <1>3, <1>4 DEF ReadingInv, Placed
<1>9. PageOf(r).offset \in Nat
    BY <1>1, Fields, Parameters DEF PageOf
<1>10. \A t : Rank(T, q, t) \in Nat /\ Rank(U, q, t) \in Nat /\ Rank(T, q, t) <= Rank(U, q, t)
    BY RankOfMore
<1>11. Kept(s, U)
  <2>1. SUFFICES ASSUME WholeReading(r), Passing(r.deleted, q) = {}, NEW t \in Passing(r.began, q)
                 PROVE  \/ t \in Range(r.seen) \/ TwinOf(s, t)
                        \/ PageOf(r).offset <= Rank(U, q, t)
      BY <1>3, <1>4, <1>5 DEF Kept
  <2>2. \/ t \in Range(r.seen) \/ TwinOf(r, t)
        \/ PageOf(r).offset <= Rank(T, q, t)
      BY <2>1 DEF ReadingInv, Kept
  <2>3. TwinOf(r, t) => TwinOf(s, t)
      BY <1>3 DEF TwinOf, Passing
  <2>4. QED
      BY <1>9, <1>10, <2>2, <2>3
<1>12. Passed(s, U)
  <2>1. SUFFICES ASSUME WholeReading(r), NEW t \in Range(r.seen), ~EarlierCreated(s, t)
                 PROVE  /\ Rank(U, q, t) < PageOf(r).offset
                        /\ TwinOf(s, t) \/ Once(r.seen, t)
      BY <1>3, <1>4, <1>5 DEF Passed
  <2>2. /\ EarlierCreated(r, t) => EarlierCreated(s, t)
        /\ TwinOf(r, t) => TwinOf(s, t)
      BY <1>3 DEF EarlierCreated, TwinOf, Passing
  <2>3. Rank(T, q, t) < PageOf(r).offset /\ (TwinOf(r, t) \/ Once(r.seen, t))
      BY <2>1, <2>2 DEF ReadingInv, Passed
  <2>4. ~Matches(c, q.filters) \/ ~Precedes(c, t, q)
      BY <1>3, <2>1 DEF EarlierCreated, Passing
  <2>5. Rank(U, q, t) = Rank(T, q, t)
      BY <2>4, RankOfMore
  <2>6. QED
      BY <2>2, <2>3, <2>5
<1>13. Arranged(s)
  <2>1. Passing(r.created, q) \subseteq Passing(s.created, q)
      BY <1>3 DEF Passing
  <2>2. QED
      BY <1>3, <1>4, <2>1 DEF ReadingInv, Arranged
<1>14. Straight(s)
  <2>1. Undisturbed(s) => Undisturbed(r)
      BY <1>3 DEF Undisturbed, Passing
  <2>2. QED
      BY <1>3, <1>4, <1>5, <2>1 DEF ReadingInv, Straight
<1>15. ReadingInv(s, U)
    BY <1>2, <1>6, <1>7, <1>8, <1>11, <1>12, <1>13, <1>14 DEF ReadingInv
<1>16. QED
    BY <1>15 DEF s

(* Another client deletes one.                                             *)
LEMMA Deletes ==
    ASSUME NEW r, NEW T, Keyed(T), ReadingInv(r, T), r.pc = "reading", NEW d \in T
    PROVE  ReadingInv([r EXCEPT !.deleted = @ \cup {d}], T \ {d})
<1> DEFINE s == [r EXCEPT !.deleted = @ \cup {d}]
           U == T \ {d}
           q == r.query
<1>1. r \in Readings /\ d \in Task
    BY DEF ReadingInv, Keyed
<1>2. s \in Readings
    BY <1>1 DEF Readings
<1>3. /\ s.pc = r.pc /\ s.query = r.query /\ s.first = r.first /\ s.position = r.position
      /\ s.requests = r.requests /\ s.seen = r.seen /\ s.began = r.began
      /\ s.created = r.created /\ s.deleted = r.deleted \cup {d} /\ s.status = r.status
    BY <1>1 DEF Readings
<1> HIDE DEF s
<1>4. WholeReading(s) <=> WholeReading(r)
    BY <1>3 DEF WholeReading
<1>5. PageOf(s) = PageOf(r)
    BY <1>3 DEF PageOf
<1>6. Witnessed(s, U)
  <2>1. /\ Keyed(r.began) /\ Range(r.seen) \subseteq Passing(r.began \cup r.created, q)
        /\ T \subseteq r.began \cup r.created /\ r.began \ r.deleted \subseteq T
      BY DEF ReadingInv, Witnessed
  <2>2. r.began \ (r.deleted \cup {d}) \subseteq U
      BY <2>1
  <2>3. QED
      BY <1>3, <2>1, <2>2 DEF Witnessed
<1>7. Bounded(s)
    BY <1>3 DEF ReadingInv, Bounded
<1>8. Placed(s)
    BY <1>3, <1>4 DEF ReadingInv, Placed
<1>9. PageOf(r).offset \in Nat
    BY <1>1, Fields, Parameters DEF PageOf
<1>10. T = U \cup {d}
    OBVIOUS
<1> HIDE DEF U
<1>11. \A t : /\ Rank(T, q, t) \in Nat /\ Rank(U, q, t) \in Nat /\ Rank(U, q, t) <= Rank(T, q, t)
              /\ ~Matches(d, q.filters) => Rank(U, q, t) = Rank(T, q, t)
    BY <1>10, RankOfMore
<1>12. Kept(s, U)
  <2>1. SUFFICES ASSUME WholeReading(r), Passing(s.deleted, q) = {}, NEW t \in Passing(r.began, q)
                 PROVE  \/ t \in Range(r.seen) \/ TwinOf(s, t)
                        \/ PageOf(r).offset <= Rank(U, q, t)
      BY <1>3, <1>4, <1>5 DEF Kept
  <2>2. ~Matches(d, q.filters) /\ Passing(r.deleted, q) = {}
      BY <1>3, <2>1 DEF Passing
  <2>3. \/ t \in Range(r.seen) \/ TwinOf(r, t)
        \/ PageOf(r).offset <= Rank(T, q, t)
      BY <2>1, <2>2 DEF ReadingInv, Kept
  <2>4. TwinOf(s, t) <=> TwinOf(r, t)
      BY <1>3 DEF TwinOf
  <2>5. QED
      BY <1>11, <2>2, <2>3, <2>4
<1>13. Passed(s, U)
  <2>1. SUFFICES ASSUME WholeReading(r), NEW t \in Range(r.seen), ~EarlierCreated(s, t)
                 PROVE  /\ Rank(U, q, t) < PageOf(r).offset
                        /\ TwinOf(s, t) \/ Once(r.seen, t)
      BY <1>3, <1>4, <1>5 DEF Passed
  <2>2. (EarlierCreated(s, t) <=> EarlierCreated(r, t)) /\ (TwinOf(s, t) <=> TwinOf(r, t))
      BY <1>3 DEF EarlierCreated, TwinOf
  <2>3. Rank(T, q, t) < PageOf(r).offset /\ (TwinOf(r, t) \/ Once(r.seen, t))
      BY <2>1, <2>2 DEF ReadingInv, Passed
  <2>4. QED
      BY <1>9, <1>11, <2>2, <2>3
<1>14. Arranged(s)
    BY <1>3, <1>4 DEF ReadingInv, Arranged
<1>15. Straight(s)
  <2>1. Undisturbed(s) => Undisturbed(r)
      BY <1>3 DEF Undisturbed, Passing
  <2>2. QED
      BY <1>3, <1>4, <1>5, <2>1 DEF ReadingInv, Straight
<1>16. ReadingInv(s, U)
    BY <1>2, <1>6, <1>7, <1>8, <1>12, <1>13, <1>14, <1>15 DEF ReadingInv
<1>17. QED
    BY <1>16 DEF s, U

(***************************************************************************)
(* The client.                                                             *)
(***************************************************************************)

(* No task of a page has a larger rank than its place; a task without a    *)
(* twin has that rank; and what it precedes has a larger one.  A page      *)
(* leaves out no task without a twin whose rank is not below the offset    *)
(* but those behind the limit.                                             *)
LEMMA PageRanks ==
    ASSUME NEW q \in Query, NEW T, Keyed(T), NEW lim \in Nat, NEW off \in Nat,
           NEW got, NEW status, IsPage(Sorted(T, q), lim, off, got, status)
    PROVE  /\ \A i \in 1..Len(got) :
                 /\ got[i] \in Passing(T, q) /\ Rank(T, q, got[i]) <= off + i - 1
                 /\ \A x \in Task : Precedes(got[i], x, q) => off + i <= Rank(T, q, x)
                 /\ (\A u \in Passing(T, q) : ~Alike(got[i], u, q)) =>
                       Rank(T, q, got[i]) = off + i - 1
           /\ \A i, j \in 1..Len(got) : got[i] = got[j] => i = j
           /\ \A i, j \in 1..Len(got) : i < j => ~Precedes(got[j], got[i], q)
           /\ \A t \in Passing(T, q) :
                 (\A u \in Passing(T, q) : ~Alike(t, u, q)) =>
                    /\ got # <<>> /\ off <= Rank(T, q, t) =>
                          t \in Range(got) \/ (Len(got) = lim /\ off + lim <= Rank(T, q, t))
                    /\ got = <<>> /\ status = 200 /\ lim > 0 => Rank(T, q, t) < off
<1> DEFINE L == Sorted(T, q)
           n == Len(L)
           m == Len(got)
           Single(t) == \A u \in Passing(T, q) : ~Alike(t, u, q)
<1>1. IsFiniteSet(T)
    BY FewTasks
<1>2. /\ L \in Seq(Task) /\ Range(L) = Passing(T, q) /\ IsInjective(L)
      /\ \A i \in 1..n : /\ Rank(T, q, L[i]) <= i - 1
                         /\ \A x \in Task : Precedes(L[i], x, q) => i <= Rank(T, q, x)
                         /\ Single(L[i]) => Rank(T, q, L[i]) = i - 1
  <2> HIDE DEF Rank
  <2>1. QED
      BY <1>1, SortedRanks
<1>3. IsPage(L, lim, off, got, status)
    OBVIOUS
<1>4. \A i, j \in DOMAIN L : i < j => ~Precedes(L[j], L[i], q)
    BY <1>1, SortedList
<1> HIDE DEF L, Single
<1>5. n \in Nat /\ DOMAIN L = 1..n /\ \A i \in 1..n : L[i] \in Passing(T, q)
    BY <1>2 DEF Range
<1>6. m \in Nat /\ DOMAIN got = 1..m
    BY <1>3 DEF IsPage
<1>7. \A i \in 1..m : off + i \in 1..n /\ got[i] = L[off + i]
    BY <1>3 DEF IsPage
<1>8. ASSUME NEW i \in 1..m
      PROVE  /\ got[i] \in Passing(T, q) /\ Rank(T, q, got[i]) <= off + i - 1
             /\ \A x \in Task : Precedes(got[i], x, q) => off + i <= Rank(T, q, x)
             /\ Single(got[i]) => Rank(T, q, got[i]) = off + i - 1
  <2> DEFINE k == off + i
  <2>1. k \in 1..n /\ got[i] = L[k]
      BY <1>7
  <2> HIDE DEF k
  <2>2. /\ L[k] \in Passing(T, q) /\ Rank(T, q, L[k]) <= k - 1
        /\ \A x \in Task : Precedes(L[k], x, q) => k <= Rank(T, q, x)
        /\ Single(L[k]) => Rank(T, q, L[k]) = k - 1
      BY <1>2, <1>5, <2>1
  <2>3. QED
      BY <2>1, <2>2 DEF k
<1>9. ASSUME NEW i \in 1..m, NEW j \in 1..m
      PROVE  /\ got[i] = got[j] => i = j
             /\ i < j => ~Precedes(got[j], got[i], q)
  <2> DEFINE k == off + i
             l == off + j
  <2>1. /\ k \in 1..n /\ l \in 1..n /\ got[i] = L[k] /\ got[j] = L[l]
        /\ (k = l => i = j) /\ (i < j => k < l)
      BY <1>6, <1>7
  <2> HIDE DEF k, l
  <2>2. L[k] = L[l] => k = l
      BY <1>2, <1>5, <2>1 DEF IsInjective
  <2>3. QED
      BY <1>4, <1>5, <2>1, <2>2
<1>10. ASSUME NEW t \in Passing(T, q), Single(t)
       PROVE  \E k \in 1..n : t = L[k] /\ Rank(T, q, t) = k - 1
  <2>1. PICK k \in 1..n : t = L[k]
      BY <1>2, <1>5 DEF Range
  <2>2. QED
      BY <1>2, <1>10, <2>1
<1>11. ASSUME got # <<>>, NEW t \in Passing(T, q), Single(t), off <= Rank(T, q, t),
              t \notin Range(got)
       PROVE  m = lim /\ off + lim <= Rank(T, q, t)
  <2>1. PICK k \in 1..n : t = L[k] /\ Rank(T, q, t) = k - 1
      BY <1>10, <1>11
  <2>2. ~(k <= off + m)
    <3>1. SUFFICES ASSUME k <= off + m PROVE FALSE
        OBVIOUS
    <3> DEFINE i == k - off
    <3>2. i \in 1..m /\ off + i = k
        BY <1>5, <1>6, <1>11, <2>1, <3>1
    <3> HIDE DEF i
    <3>3. got[i] = t
        BY <1>7, <2>1, <3>2
    <3>4. QED
        BY <1>6, <1>11, <3>2, <3>3 DEF Range
  <2>3. m = lim \/ off + m = n
      BY <1>3, <1>11 DEF IsPage
  <2>4. k \in Nat /\ k <= n /\ off + m < k
      BY <1>5, <1>6, <2>2
  <2>5. m = lim
    <3>1. n \in Nat /\ m \in Nat
        BY <1>5, <1>6
    <3> HIDE DEF n, m
    <3>2. QED
        BY <2>3, <2>4, <3>1
  <2>6. off + lim <= k - 1
      BY <2>4, <2>5
  <2>7. QED
      BY <2>1, <2>5, <2>6
<1>12. ASSUME got = <<>>, status = 200, lim > 0, NEW t \in Passing(T, q), Single(t)
       PROVE  Rank(T, q, t) < off
  <2>1. n <= off
      BY <1>3, <1>12 DEF IsPage
  <2>2. PICK k \in 1..n : t = L[k] /\ Rank(T, q, t) = k - 1
      BY <1>10, <1>12
  <2>3. QED
      BY <1>5, <2>1, <2>2
<1>13. QED
    BY <1>8, <1>9, <1>11, <1>12 DEF Single

(* Until a task that matches is created or deleted, the list is the same.  *)
LEMMA SameTasks ==
    ASSUME NEW r \in Readings, NEW T, Witnessed(r, T), r.pc = "reading"
    PROVE  /\ Undisturbed(r) => Sorted(T, r.query) = Sorted(r.began, r.query)
           /\ \A t : ~TwinOf(r, t) =>
                 \A u \in Passing(T, r.query) : ~Alike(t, u, r.query)
           /\ Passing(r.deleted, r.query) = {} => Passing(r.began, r.query) \subseteq Passing(T, r.query)
<1> DEFINE q == r.query
<1>1. T \subseteq r.began \cup r.created /\ r.began \ r.deleted \subseteq T
    BY DEF Witnessed
<1>2. Passing(r.deleted, q) = {} => Passing(r.began, q) \subseteq Passing(T, q)
    BY <1>1 DEF Passing
<1>3. Passing(r.created, q) = {} => Passing(T, q) \subseteq Passing(r.began, q)
    BY <1>1 DEF Passing
<1>4. Passing(T, q) \subseteq Passing(r.began \cup r.created, q)
    BY <1>1 DEF Passing
<1>5. Undisturbed(r) => Passing(T, q) = Passing(r.began, q)
    BY <1>2, <1>3 DEF Undisturbed
<1>6. QED
    BY <1>2, <1>4, <1>5, SameList DEF TwinOf

(* What the page of a reading is.                                          *)
LEMMA Answer ==
    ASSUME NEW r \in Readings, NEW T, Keyed(T)
    PROVE  LET p == PageOf(r)
               answer == DefaultList(T, r.query, p)
           IN  /\ p.limit \in Nat /\ p.offset \in Nat /\ p.limit < Half /\ p.offset < Half
               /\ IsPage(Sorted(T, r.query), p.limit, p.offset, answer.page, answer.status)
               /\ Len(Sorted(T, r.query)) \in Nat /\ Len(Sorted(T, r.query)) < Half - 1
<1> DEFINE p == PageOf(r)
           q == r.query
           n == Len(Sorted(T, q))
<1>1. q \in Query /\ r.position \in Int \cup {NoInteger}
    BY Fields
<1>2. p.limit \in Nat /\ p.offset \in Nat /\ p.limit < Half /\ p.offset < Half
    BY <1>1, Parameters DEF PageOf
<1>3. IsFiniteSet(T) /\ Cardinality(T) \in Nat /\ Cardinality(T) <= Cardinality(Keys)
    BY FewTasks
<1>4. Sorted(T, q) \in Seq(Task) /\ n = Cardinality(Passing(T, q))
    BY <1>1, <1>3, SortedRanks
<1>5. Passing(T, q) \subseteq T
    BY DEF Passing
<1>6. Cardinality(Passing(T, q)) <= Cardinality(T)
    BY <1>3, <1>5, FS_Subset
<1>7. n \in Nat /\ n < Half - 1 /\ n < Half
    BY <1>3, <1>4, <1>6, WidthFacts
<1> HIDE DEF p
<1>8. IsPage(Sorted(T, q), p.limit, p.offset,
             DefaultList(T, q, p).page, DefaultList(T, q, p).status)
    BY <1>2, <1>4, <1>7, Page
<1>9. QED
    BY <1>2, <1>7, <1>8 DEF p

(* The client begins.                                                      *)
LEMMA Begins ==
    ASSUME NEW q \in Query, NEW T, Keyed(T), NEW position,
           position \in IF q.by = "page" THEN {1} ELSE Starts
    PROVE  ReadingInv([pc |-> "reading", query |-> q, first |-> position,
                       position |-> position, requests |-> 0, seen |-> <<>>,
                       began |-> T, created |-> {}, deleted |-> {}, status |-> 0], T)
<1> DEFINE r == [pc |-> "reading", query |-> q, first |-> position,
                 position |-> position, requests |-> 0, seen |-> <<>>,
                 began |-> T, created |-> {}, deleted |-> {}, status |-> 0]
<1>1. /\ r.pc = "reading" /\ r.query = q /\ r.first = position /\ r.position = position
      /\ r.requests = 0 /\ r.seen = <<>> /\ r.began = T /\ r.created = {}
      /\ r.deleted = {} /\ r.status = 0
    OBVIOUS
<1>2. position \in Int \cup {NoInteger} /\ (q.by = "page" => position = 1)
    BY TextsAssumption
<1>3. T \subseteq Task /\ q.by \in {"page", "start"}
    BY DEF Keyed, Query
<1>4. r \in Readings
  <2>1. 0 \in 0..MaxRequests /\ <<>> \in Seq(Task)
      BY BoundsAssumption
  <2>2. QED
      BY <1>2, <1>3, <2>1 DEF Readings
<1> HIDE DEF r
<1>5. Witnessed(r, T)
    BY <1>1 DEF Witnessed, Range
<1>6. Bounded(r)
  <2>1. CASE q.by = "start" /\ Atoi(position, 0) < 0
      BY <1>1, <2>1 DEF Bounded
  <2>2. CASE ~(q.by = "start" /\ Atoi(position, 0) < 0)
    <3> DEFINE l == Limit(q, position)
    <3>1. l \in Nat
        BY <1>2, Parameters DEF Limit
    <3> HIDE DEF l
    <3>2. 0 <= 0 * l
        BY <3>1
    <3>3. QED
        BY <1>1, <3>2 DEF Bounded, l
  <2>3. QED
      BY <2>1, <2>2
<1>7. WholeReading(r) => Given(q) \in Nat
    BY <1>1, <1>2, Parameters DEF WholeReading
<1>8. Placed(r)
  <2>1. q.by = "page" /\ WholeReading(r) =>
           position < Half /\ (position - 1) * Given(q) < Half
      BY <1>2, <1>7, WidthFacts
  <2>2. QED
      BY <1>1, <1>2, <2>1 DEF Placed
<1>9. WholeReading(r) => PageOf(r).offset = 0
  <2>1. SUFFICES ASSUME WholeReading(r) PROVE PageOf(r).offset = 0
      OBVIOUS
  <2>2. Atoi(q.limit, DefaultLimit) \notin {-1, 0}
      BY <1>1, <2>1 DEF WholeReading
  <2>3. CASE q.by = "page"
    <3>1. position \in 1..Half - 1 /\ 0 = (position - 1) * Given(q) /\ 0 < Half /\ 0 \in Nat
        BY <1>2, <1>7, <2>1, <2>3, WidthFacts
    <3>2. QED
        BY <1>1, <1>2, <2>2, <2>3, <3>1, Parameters DEF PageOf
  <2>4. CASE q.by = "start"
    <3>1. Atoi(position, 0) = 0
        BY <1>1, <2>1, <2>4 DEF WholeReading
    <3>2. QED
        BY <1>1, <1>2, <2>2, <2>4, <3>1, Parameters DEF PageOf
  <2>5. QED
      BY <1>3, <2>3, <2>4
<1>10. Kept(r, T)
  <2>1. SUFFICES ASSUME WholeReading(r), NEW t \in Passing(T, q)
                 PROVE  PageOf(r).offset <= Rank(T, q, t)
      BY <1>1 DEF Kept
  <2>2. Rank(T, q, t) \in Nat
      BY RankKinds
  <2>3. QED
      BY <1>9, <2>1, <2>2
<1>11. Passed(r, T)
    BY <1>1 DEF Passed, Range
<1>12. Arranged(r)
    BY <1>1 DEF Arranged
<1>13. Straight(r)
    BY <1>1, <1>9 DEF Straight
<1>14. ReadingInv(r, T)
    BY <1>4, <1>5, <1>6, <1>8, <1>10, <1>11, <1>12, <1>13 DEF ReadingInv
<1>15. QED
    BY <1>14 DEF r

(* The list cannot be read.                                                *)
LEMMA Fails ==
    ASSUME NEW r, NEW T, ReadingInv(r, T), r.pc = "reading"
    PROVE  ReadingInv([r EXCEPT !.status = 400], T)
<1> DEFINE s == [r EXCEPT !.status = 400]
<1>1. r \in Readings
    BY DEF ReadingInv
<1>2. s \in Readings
    BY <1>1 DEF Readings
<1>3. /\ s.pc = r.pc /\ s.query = r.query /\ s.first = r.first /\ s.position = r.position
      /\ s.requests = r.requests /\ s.seen = r.seen /\ s.began = r.began
      /\ s.created = r.created /\ s.deleted = r.deleted
    BY <1>1 DEF Readings
<1> HIDE DEF s
<1>4. (WholeReading(s) <=> WholeReading(r)) /\ PageOf(s) = PageOf(r)
    BY <1>3 DEF WholeReading, PageOf
<1>5. Witnessed(s, T) /\ Bounded(s) /\ Placed(s)
    BY <1>3, <1>4 DEF ReadingInv, Witnessed, Bounded, Placed
<1>6. /\ \A t : (TwinOf(s, t) <=> TwinOf(r, t)) /\ (EarlierCreated(s, t) <=> EarlierCreated(r, t))
      /\ Undisturbed(s) <=> Undisturbed(r)
    BY <1>3 DEF TwinOf, EarlierCreated, Undisturbed
<1>7. Kept(s, T)
    BY <1>3, <1>4, <1>6 DEF ReadingInv, Kept
<1>8. Passed(s, T)
    BY <1>3, <1>4, <1>6 DEF ReadingInv, Passed
<1>9. Arranged(s) /\ Straight(s)
    BY <1>3, <1>4, <1>6 DEF ReadingInv, Arranged, Straight
<1>10. ReadingInv(s, T)
    BY <1>2, <1>5, <1>7, <1>8, <1>9 DEF ReadingInv
<1>11. QED
    BY <1>10 DEF s

(* A whole reading asks for a positive number, from a page that exists.    *)
LEMMA PageOfWhole ==
    ASSUME NEW r \in Readings, r.pc = "reading", Placed(r)
    PROVE  /\ \/ r.query.by = "start" /\ Atoi(r.first, 0) < 0
              \/ PageOf(r).limit = Given(r.query)
           /\ WholeReading(r) =>
                 /\ PageOf(r).limit = Given(r.query)
                 /\ Given(r.query) \in Nat /\ Given(r.query) > 0
                 /\ r.query.by = "start" => PageOf(r).offset = Atoi(r.position, 0)
                 /\ r.query.by = "page" =>
                       /\ r.position \in 1..Half - 1
                       /\ PageOf(r).offset = (r.position - 1) * Given(r.query)
<1> DEFINE q == r.query
           pos == r.position
           at == (pos - 1) * Given(q)
<1>1. q \in Query /\ pos \in Int \cup {NoInteger} /\ q.by \in {"page", "start"}
    BY Fields DEF Query
<1>2. r.first \in Int \cup {NoInteger}
    BY Fields
<1>3. Half \in Nat /\ Atoi(r.first, 0) \in Int /\ Atoi(pos, 0) \in Int
  <2>1. Half \in Nat /\ 0 \in Int /\ 0 < Half /\ -Half <= 0
      BY WidthFacts
  <2>2. QED
      BY <1>1, <1>2, <2>1, AtoiFacts
<1>4. /\ q.by = "page" => pos \in Nat \ {0}
      /\ q.by = "start" /\ Atoi(r.first, 0) >= 0 => Atoi(pos, 0) >= 0
      /\ q.by = "page" /\ WholeReading(r) => pos < Half /\ at < Half
    BY DEF Placed
<1>5. \/ q.by = "start" /\ Atoi(r.first, 0) < 0
      \/ q.by = "page" /\ pos \in Int /\ pos >= 1
      \/ q.by = "start" /\ Atoi(pos, 0) >= 0
    BY <1>1, <1>3, <1>4
<1>6. \/ q.by = "start" /\ Atoi(r.first, 0) < 0
      \/ PageOf(r).limit = Given(q)
    BY <1>1, <1>5, Parameters DEF PageOf
<1>7. ASSUME WholeReading(r)
      PROVE  /\ PageOf(r).limit = Given(q)
             /\ Given(q) \in Nat /\ Given(q) > 0
             /\ q.by = "start" => PageOf(r).offset = Atoi(pos, 0)
             /\ q.by = "page" => pos \in 1..Half - 1 /\ PageOf(r).offset = at
  <2>1. /\ Atoi(q.limit, DefaultLimit) \notin {-1, 0}
        /\ q.by = "start" => Atoi(r.first, 0) = 0
      BY <1>7 DEF WholeReading
  <2>2. PageOf(r).limit = Given(q)
      BY <1>6, <2>1
  <2>3. Given(q) \in Nat /\ Given(q) > 0
      BY <1>1, <2>1, Parameters
  <2>4. q.by = "start" => PageOf(r).offset = Atoi(pos, 0)
    <3>1. q.by = "start" => Atoi(pos, 0) >= 0
        BY <1>4, <2>1
    <3>2. q.by = "start" => ParseQueryParameter(q.by, pos, q.limit).offset = Atoi(pos, 0)
        BY <1>1, <2>1, <3>1, Parameters
    <3>3. QED
        BY <3>2 DEF PageOf
  <2>5. ASSUME q.by = "page"
        PROVE  pos \in 1..Half - 1 /\ PageOf(r).offset = at
    <3>1. pos \in 1..Half - 1 /\ at < Half
        BY <1>3, <1>4, <1>7, <2>5
    <3>2. at \in Nat
      <4>1. pos - 1 \in Nat
          BY <3>1, <1>3
      <4>2. \A a, b \in Nat : a * b \in Nat
          OBVIOUS
      <4>3. QED
          BY <2>3, <4>1, <4>2
    <3>3. PageOf(r).offset = at
        BY <1>1, <2>1, <2>5, <3>1, <3>2, Parameters DEF PageOf
    <3>4. QED
        BY <3>1, <3>3
  <2>6. QED
      BY <2>2, <2>3, <2>4, <2>5
<1>8. QED
    BY <1>6, <1>7

(* An empty page: the client has what it wanted, or was told of an error.  *)
LEMMA Ends ==
    ASSUME NEW r, NEW T, Keyed(T), ReadingInv(r, T), r.pc = "reading",
           NEW status, DefaultList(T, r.query, PageOf(r)) = [status |-> status, page |-> <<>>]
    PROVE  ReadingInv([r EXCEPT !.pc = "done", !.status = status], T)
<1> DEFINE s == [r EXCEPT !.pc = "done", !.status = status]
           q == r.query
           p == PageOf(r)
<1>1. r \in Readings
    BY DEF ReadingInv
<1>2. /\ IsPage(Sorted(T, q), p.limit, p.offset, <<>>, status)
      /\ p.limit \in Nat /\ p.offset \in Nat
    BY <1>1, Answer
<1>3. s \in Readings
  <2>1. status \in {0, 200, 400, 500}
      BY <1>2 DEF IsPage
  <2> DEFINE texts == Int \cup {NoInteger}
             counts == 0..MaxRequests
             answers == Seq(Task)
             codes == {0, 200, 400, 500}
             pcs == {"reading", "done"}
             sets == SUBSET Task
             done == "done"
  <2>2. Readings = [pc : pcs, query : Query, first : texts, position : texts,
                    requests : counts, seen : answers, began : sets,
                    created : sets, deleted : sets, status : codes]
      BY DEF Readings
  <2>3. done \in pcs /\ status \in codes
      BY <2>1
  <2> HIDE DEF texts, counts, answers, codes, pcs, sets, done
  <2>4. [r EXCEPT !.pc = done, !.status = status] \in Readings
      BY <1>1, <2>2, <2>3
  <2>5. QED
      BY <2>4 DEF done
<1>4. /\ s.pc = "done" /\ s.query = r.query /\ s.first = r.first
      /\ s.requests = r.requests /\ s.seen = r.seen /\ s.began = r.began
      /\ s.created = r.created /\ s.deleted = r.deleted /\ s.status = status
    BY <1>1 DEF Readings
<1> HIDE DEF s
<1>5. /\ WholeReading(s) <=> WholeReading(r)
      /\ \A t : (TwinOf(s, t) <=> TwinOf(r, t)) /\ (EarlierCreated(s, t) <=> EarlierCreated(r, t))
      /\ Undisturbed(s) <=> Undisturbed(r)
    BY <1>4 DEF WholeReading, TwinOf, EarlierCreated, Undisturbed
<1>6. Witnessed(s, T) /\ Bounded(s) /\ Placed(s)
    BY <1>4 DEF ReadingInv, Witnessed, Bounded, Placed
<1>7. Witnessed(r, T) /\ q \in Query
    BY <1>1, Fields DEF ReadingInv
<1>8. WholeReading(r) => p.limit > 0
    BY <1>1, PageOfWhole DEF ReadingInv
<1>9. Kept(s, T)
  <2>1. SUFFICES ASSUME WholeReading(r), Passing(r.deleted, q) = {}, status = 200,
                        NEW t \in Passing(r.began, q), t \notin Range(r.seen), ~TwinOf(r, t)
                 PROVE  FALSE
      BY <1>4, <1>5 DEF Kept
  <2>2. p.offset <= Rank(T, q, t)
      BY <2>1 DEF ReadingInv, Kept
  <2>3. t \in Passing(T, q) /\ \A u \in Passing(T, q) : ~Alike(t, u, q)
      BY <1>1, <1>7, <2>1, SameTasks
  <2> HIDE DEF p
  <2>4. Rank(T, q, t) < p.offset /\ Rank(T, q, t) \in Nat
      BY <1>2, <1>7, <1>8, <2>1, <2>3, PageRanks, RankKinds
  <2>5. QED
      BY <1>2, <2>2, <2>4
<1>10. Passed(s, T)
    BY <1>4, <1>5 DEF ReadingInv, Passed
<1>11. Straight(s)
  <2> DEFINE L == Sorted(r.began, q)
             k == Len(r.seen)
             n == Len(L)
  <2>1. SUFFICES ASSUME WholeReading(r), Undisturbed(r), status = 200 PROVE k = n
      BY <1>4, <1>5 DEF ReadingInv, Straight
  <2>2. /\ \A i \in 1..k : i \in 1..n
        /\ k <= p.offset /\ k \in {p.offset, n}
      BY <2>1 DEF ReadingInv, Straight
  <2>3. Sorted(T, q) = L
      BY <1>1, <1>7, <2>1, SameTasks
  <2>4. n <= p.offset /\ n \in Nat
      BY <1>1, <1>2, <1>8, <2>1, <2>3, Answer DEF IsPage
  <2>5. k \in Nat
      BY <1>1, Fields
  <2> HIDE DEF k, n, p
  <2>6. k <= n
    <3>1. CASE k = 0
        BY <2>4, <3>1
    <3>2. CASE k # 0
      <4>1. k \in 1..k
          BY <2>5, <3>2
      <4>2. QED
          BY <2>2, <2>4, <4>1
    <3>3. QED
        BY <3>1, <3>2
  <2>7. QED
      BY <1>2, <2>2, <2>4, <2>5, <2>6
<1>12. Arranged(s)
    BY <1>4, <1>5 DEF ReadingInv, Arranged
<1>13. ReadingInv(s, T)
    BY <1>3, <1>6, <1>9, <1>10, <1>11, <1>12 DEF ReadingInv
<1>14. QED
    BY <1>13 DEF s

(* Two sequences, one behind the other.                                    *)
LEMMA Joined ==
    ASSUME NEW S, NEW a \in Seq(S), NEW b \in Seq(S)
    PROVE  /\ a \o b \in Seq(S) /\ Len(a \o b) = Len(a) + Len(b)
           /\ Range(a \o b) = Range(a) \cup Range(b)
           /\ \A i \in DOMAIN (a \o b) :
                 \/ i \in DOMAIN a /\ (a \o b)[i] = a[i]
                 \/ i - Len(a) \in DOMAIN b /\ (a \o b)[i] = b[i - Len(a)] /\ i \notin DOMAIN a
<1> DEFINE c == a \o b
           k == Len(a)
           l == Len(b)
<1>1. k \in Nat /\ l \in Nat /\ DOMAIN a = 1..k /\ DOMAIN b = 1..l
    OBVIOUS
<1>2. /\ c \in Seq(S) /\ Len(c) = k + l
      /\ \A i \in 1..k + l : c[i] = IF i <= k THEN a[i] ELSE b[i - k]
    BY ConcatProperties
<1> HIDE DEF c, k, l
<1>3. DOMAIN c = 1..k + l
    BY <1>2
<1>4. ASSUME NEW i \in DOMAIN c
      PROVE  \/ i \in DOMAIN a /\ c[i] = a[i]
             \/ i - k \in DOMAIN b /\ c[i] = b[i - k] /\ i \notin DOMAIN a
  <2>1. CASE i <= k
      BY <1>1, <1>2, <1>3, <2>1
  <2>2. CASE ~(i <= k)
    <3>1. i - k \in 1..l /\ i \notin 1..k /\ i \in 1..k + l
        BY <1>1, <1>3, <2>2
    <3>2. QED
        BY <1>1, <1>2, <2>2, <3>1
  <2>3. QED
      BY <2>1, <2>2
<1>5. \A i \in DOMAIN a : i \in DOMAIN c /\ c[i] = a[i]
    BY <1>1, <1>2, <1>3
<1>6. ASSUME NEW j \in DOMAIN b
      PROVE  j + k \in DOMAIN c /\ c[j + k] = b[j]
  <2> DEFINE i == j + k
  <2>1. i \in 1..k + l /\ ~(i <= k) /\ i - k = j
      BY <1>1
  <2> HIDE DEF i
  <2>2. i \in DOMAIN c /\ c[i] = b[j]
      BY <1>2, <1>3, <2>1
  <2>3. QED
      BY <2>2 DEF i
<1>7. Range(c) = Range(a) \cup Range(b)
  <2>1. \A x : x \in Range(c) => x \in Range(a) \cup Range(b)
      BY <1>4 DEF Range
  <2>2. \A x : x \in Range(a) => x \in Range(c)
      BY <1>5 DEF Range
  <2>3. \A x : x \in Range(b) => x \in Range(c)
      BY <1>6 DEF Range
  <2>4. QED
      BY <2>1, <2>2, <2>3
<1>8. QED
    BY <1>2, <1>4, <1>7 DEF c, k, l

(* Where the client asks next.                                             *)
Following(r, n) ==
    IF r.query.by = "page" THEN r.position + 1 ELSE Atoi(r.position, 0) + n

After(r, got) ==
    [r EXCEPT !.seen = @ \o got, !.status = 200,
              !.position = Following(r, Len(got)), !.requests = @ + 1]

(* The fields after a page with tasks.                                     *)
LEMMA AfterFields ==
    ASSUME NEW r \in Readings, NEW got \in Seq(Task), r.requests < MaxRequests,
           r.query.by = "page" => r.position \in Nat
    PROVE  /\ After(r, got) \in Readings
           /\ LET s == After(r, got)
              IN  /\ s.pc = r.pc /\ s.query = r.query /\ s.first = r.first
                  /\ s.position = Following(r, Len(got))
                  /\ s.requests = r.requests + 1 /\ s.seen = r.seen \o got
                  /\ s.began = r.began /\ s.created = r.created
                  /\ s.deleted = r.deleted /\ s.status = 200
<1> DEFINE p == Following(r, Len(got))
           k == r.requests + 1
           seen == r.seen \o got
<1>1. p \in Int \cup {NoInteger}
  <2>1. r.query \in Query /\ r.position \in Int \cup {NoInteger} /\ Len(got) \in Nat
      BY Fields
  <2>2. 0 \in Int /\ 0 < Half /\ -Half <= 0
      BY WidthFacts
  <2>3. Atoi(r.position, 0) \in Int
      BY <2>1, <2>2, AtoiFacts
  <2>4. CASE r.query.by = "page"
      BY <2>4, <2>1 DEF Following
  <2>5. CASE r.query.by # "page"
      BY <2>5, <2>1, <2>3 DEF Following
  <2>6. QED
      BY <2>4, <2>5
<1>2. k \in 0..MaxRequests
    BY Fields, BoundsAssumption
<1>3. seen \in Seq(Task)
    BY Fields, Joined
<1> HIDE DEF p, k, seen
<1> DEFINE texts == Int \cup {NoInteger}
           counts == 0..MaxRequests
           answers == Seq(Task)
           codes == {0, 200, 400, 500}
           pcs == {"reading", "done"}
           sets == SUBSET Task
           ok == 200
           s == [r EXCEPT !.seen = seen, !.status = ok, !.position = p, !.requests = k]
<1>4. Readings = [pc : pcs, query : Query, first : texts, position : texts,
                  requests : counts, seen : answers, began : sets, created : sets,
                  deleted : sets, status : codes]
    BY DEF Readings
<1>5. p \in texts /\ k \in counts /\ seen \in answers /\ ok \in codes
    BY <1>1, <1>2, <1>3
<1>6. After(r, got) = s
    BY DEF After, p, k, seen
<1> HIDE DEF texts, counts, answers, codes, pcs, sets, ok
<1>7. s \in Readings
    BY <1>4, <1>5
<1>8. /\ s.pc = r.pc /\ s.query = r.query /\ s.first = r.first
      /\ s.position = p /\ s.requests = k /\ s.seen = seen
      /\ s.began = r.began /\ s.created = r.created
      /\ s.deleted = r.deleted /\ s.status = ok
    BY <1>4
<1> HIDE DEF s
<1>9. QED
    BY <1>6, <1>7, <1>8 DEF p, k, seen, ok

(* The next page begins where this one ends, or where it would end if the  *)
(* list went on.                                                           *)
LEMMA NextPage ==
    ASSUME NEW r, NEW T, Keyed(T), ReadingInv(r, T), r.pc = "reading",
           r.requests < MaxRequests,
           NEW got, got # <<>>, NEW status,
           DefaultList(T, r.query, PageOf(r)) = [status |-> status, page |-> got]
    PROVE  /\ got \in Seq(Task) /\ Len(got) <= PageOf(r).limit
           /\ After(r, got) \in Readings
           /\ Placed(After(r, got))
           /\ WholeReading(r) =>
                 /\ PageOf(After(r, got)).offset \in Nat
                 /\ PageOf(r).offset + Len(got) <= PageOf(After(r, got)).offset
                 /\ PageOf(After(r, got)).offset \in
                       {PageOf(r).offset + Len(got), PageOf(r).offset + PageOf(r).limit}
<1> DEFINE s == After(r, got)
           q == r.query
           p == PageOf(r)
           lim == p.limit
           off == p.offset
           m == Len(got)
           n == Len(Sorted(T, q))
           g == Given(q)
<1>1. r \in Readings /\ Placed(r)
    BY DEF ReadingInv
<1>2. /\ IsPage(Sorted(T, q), lim, off, got, status)
      /\ lim \in Nat /\ off \in Nat /\ n \in Nat /\ n < Half - 1 /\ Half \in Nat
    BY <1>1, Answer, WidthFacts
<1>3. /\ got \in Seq(Task) /\ m \in Nat /\ m <= lim /\ off < n /\ off + lim < Half
      /\ m = lim \/ off + m = n
    BY <1>2 DEF IsPage
<1>4. off + m <= n /\ off + m \in Nat
  <2>1. \A i \in 1..m : off + i \in 1..n
      BY <1>2 DEF IsPage
  <2>2. CASE m = 0
      BY <1>2, <1>3, <2>2
  <2>3. CASE m # 0
    <3>1. m \in 1..m
        BY <1>3, <2>3
    <3>2. off + m \in 1..n
        BY <2>1, <3>1
    <3>3. QED
        BY <1>2, <3>2
  <2>4. QED
      BY <2>2, <2>3
<1>5. q \in Query /\ q.by \in {"page", "start"}
    BY <1>1, Fields DEF Query
<1>6. q.by = "page" => r.position \in Nat \ {0} /\ r.first = 1
    BY <1>1 DEF Placed
<1>7. /\ s \in Readings
      /\ s.pc = "reading" /\ s.query = q /\ s.first = r.first
      /\ s.position = Following(r, m)
    BY <1>1, <1>3, <1>6, AfterFields
<1> HIDE DEF s
<1>8. WholeReading(s) <=> WholeReading(r)
    BY <1>7 DEF WholeReading
<1>9. WholeReading(r) =>
         /\ lim = g /\ g \in Nat /\ g > 0
         /\ q.by = "start" => off = Atoi(r.position, 0)
         /\ q.by = "page" => r.position \in 1..Half - 1 /\ off = (r.position - 1) * g
    BY <1>1, PageOfWhole
<1> HIDE DEF lim, off, n, g, p, m
<1>10. q.by = "page" => s.position = r.position + 1 /\ s.position \in Nat \ {0}
    BY <1>6, <1>7 DEF Following
<1>11. ASSUME q.by = "page", WholeReading(r)
       PROVE  s.position < Half /\ (s.position - 1) * g = off + lim
  <2> DEFINE k == r.position
  <2>1. k \in Nat \ {0} /\ s.position = k + 1 /\ off = (k - 1) * g /\ lim = g /\ g \in Nat /\ g > 0
      BY <1>6, <1>9, <1>10, <1>11
  <2> HIDE DEF k
  <2>2. k - 1 <= (k - 1) * g
    <3>1. \A a, b \in Nat : b > 0 => a <= a * b
        OBVIOUS
    <3>2. k - 1 \in Nat
        BY <2>1
    <3>3. QED
        BY <2>1, <3>1, <3>2
  <2>3. k + 1 < Half
      BY <1>2, <1>3, <2>1, <2>2
  <2>4. ((k + 1) - 1) * g = (k - 1) * g + g
    <3>1. \A a, b \in Nat : (a + 1) * b = a * b + b
        OBVIOUS
    <3>2. k - 1 \in Nat /\ (k - 1) + 1 = (k + 1) - 1
        BY <2>1
    <3>3. ((k - 1) + 1) * g = (k - 1) * g + g
        BY <2>1, <3>1, <3>2
    <3>4. QED
        BY <3>2, <3>3
  <2>5. QED
      BY <2>1, <2>3, <2>4
<1>12. r.position \in Int \cup {NoInteger} /\ r.first \in Int \cup {NoInteger}
    BY <1>1, Fields
<1>13. ASSUME q.by = "start"
       PROVE  /\ s.position = Atoi(r.position, 0) + m
              /\ Atoi(r.position, 0) \in Int
              /\ Atoi(r.position, 0) >= 0 => Atoi(s.position, 0) >= 0
              /\ WholeReading(r) => Atoi(s.position, 0) = off + m
  <2> DEFINE a == Atoi(r.position, 0)
             b == a + m
  <2>1. 0 \in Int /\ 0 < Half /\ -Half <= 0
      BY WidthFacts
  <2>2. a \in Int
      BY <1>12, <2>1, AtoiFacts
  <2>3. s.position = b
      BY <1>7, <1>13 DEF Following
  <2>4. b \in Int
      BY <1>3, <2>2
  <2> HIDE DEF a
  <2>5. a >= 0 => b >= 0
      BY <1>3, <2>2
  <2>6. WholeReading(r) => b = off + m
      BY <1>9, <1>13 DEF a
  <2> HIDE DEF b
  <2>7. b >= 0 => Atoi(b, 0) >= 0
      BY <2>4, WidthFacts DEF Atoi
  <2>8. WholeReading(r) => Atoi(b, 0) = b
    <3>1. WholeReading(r) => -Half <= b /\ b < Half
        BY <1>2, <1>4, <2>6
    <3>2. QED
        BY <2>1, <2>4, <3>1, AtoiFacts
  <2>9. QED
      BY <2>2, <2>3, <2>5, <2>6, <2>7, <2>8 DEF a, b
<1>14. Placed(s)
  <2>1. q.by = "start" /\ Atoi(r.first, 0) >= 0 => Atoi(r.position, 0) >= 0
      BY <1>1, <1>7 DEF Placed
  <2>2. q.by = "page" /\ WholeReading(r) => s.position < Half /\ (s.position - 1) * g < Half
      BY <1>3, <1>11
  <2>3. QED
      BY <1>6, <1>7, <1>8, <1>10, <1>13, <2>1, <2>2 DEF Placed, g
<1>15. ASSUME WholeReading(r)
       PROVE  PageOf(s).offset = IF q.by = "page" THEN off + lim ELSE off + m
  <2>1. /\ q.by = "start" => PageOf(s).offset = Atoi(s.position, 0)
        /\ q.by = "page" => PageOf(s).offset = (s.position - 1) * g
      BY <1>7, <1>8, <1>14, <1>15, PageOfWhole DEF g
  <2>2. CASE q.by = "page"
      BY <1>11, <1>15, <2>1, <2>2
  <2>3. CASE q.by = "start"
      BY <1>13, <1>15, <2>1, <2>3
  <2>4. QED
      BY <1>5, <2>2, <2>3
<1>16. WholeReading(r) => /\ PageOf(s).offset \in Nat /\ off + m <= PageOf(s).offset
                          /\ PageOf(s).offset \in {off + m, off + lim}
    BY <1>2, <1>3, <1>4, <1>15
<1>17. QED
    BY <1>3, <1>7, <1>14, <1>16 DEF s, lim, off, p, m

(* A page with tasks: the client goes on behind it.                        *)
LEMMA Continues ==
    ASSUME NEW r, NEW T, Keyed(T), ReadingInv(r, T), r.pc = "reading",
           r.requests < MaxRequests, NEW got, got # <<>>,
           NEW status, DefaultList(T, r.query, PageOf(r)) = [status |-> status, page |-> got]
    PROVE  ReadingInv(After(r, got), T)
<1> DEFINE s == After(r, got)
           q == r.query
           off == PageOf(r).offset
           lim == PageOf(r).limit
           next == PageOf(s).offset
           m == Len(got)
           old == r.seen
<1>1. r \in Readings /\ q \in Query /\ old \in Seq(Task) /\ Placed(r)
    BY Fields DEF ReadingInv
<1>2. /\ IsPage(Sorted(T, q), lim, off, got, status)
      /\ lim \in Nat /\ off \in Nat
    BY <1>1, Answer
<1>3. /\ got \in Seq(Task) /\ m \in Nat /\ m <= lim
      /\ s \in Readings /\ Placed(s)
      /\ WholeReading(r) => next \in Nat /\ off + m <= next /\ next \in {off + m, off + lim}
    BY NextPage
<1>4. /\ s.pc = "reading" /\ s.query = q /\ s.first = r.first
      /\ s.requests = r.requests + 1 /\ s.seen = old \o got
      /\ s.began = r.began /\ s.created = r.created
      /\ s.deleted = r.deleted /\ s.status = 200
    BY <1>1, <1>3, AfterFields DEF Placed
<1>5. /\ \A i \in 1..m :
            /\ got[i] \in Passing(T, q) /\ Rank(T, q, got[i]) <= off + i - 1
            /\ \A x \in Task : Precedes(got[i], x, q) => off + i <= Rank(T, q, x)
            /\ (\A u \in Passing(T, q) : ~Alike(got[i], u, q)) =>
                  Rank(T, q, got[i]) = off + i - 1
      /\ \A i, j \in 1..m : got[i] = got[j] => i = j
      /\ \A i, j \in 1..m : i < j => ~Precedes(got[j], got[i], q)
      /\ \A t \in Passing(T, q) :
            (\A u \in Passing(T, q) : ~Alike(t, u, q)) /\ off <= Rank(T, q, t) =>
               t \in Range(got) \/ (m = lim /\ off + lim <= Rank(T, q, t))
    BY <1>1, <1>2, PageRanks
<1> HIDE DEF s, off, lim, next
<1>6. DOMAIN got = 1..m /\ DOMAIN old = 1..Len(old) /\ Len(old) \in Nat
    BY <1>1, <1>3
<1>7. /\ Len(s.seen) = Len(old) + m /\ Range(s.seen) = Range(old) \cup Range(got)
      /\ \A i \in DOMAIN s.seen :
            \/ i \in DOMAIN old /\ s.seen[i] = old[i]
            \/ i - Len(old) \in DOMAIN got /\ s.seen[i] = got[i - Len(old)] /\ i \notin DOMAIN old
      /\ DOMAIN s.seen \subseteq Nat
    BY <1>1, <1>3, <1>4, Joined
<1>8. /\ WholeReading(s) <=> WholeReading(r)
      /\ \A t : (TwinOf(s, t) <=> TwinOf(r, t)) /\ (EarlierCreated(s, t) <=> EarlierCreated(r, t))
      /\ Undisturbed(s) <=> Undisturbed(r)
    BY <1>4 DEF WholeReading, TwinOf, EarlierCreated, Undisturbed
<1>9. Witnessed(r, T) /\ T \subseteq r.began \cup r.created /\ r.began \ r.deleted \subseteq T
    BY DEF ReadingInv, Witnessed
<1>10. Witnessed(s, T)
  <2>1. Range(old) \subseteq Passing(r.began \cup r.created, q)
      BY DEF ReadingInv, Witnessed
  <2>2. Range(got) \subseteq Passing(T, q)
      BY <1>5, <1>6 DEF Range
  <2>3. Passing(T, q) \subseteq Passing(r.began \cup r.created, q)
      BY <1>9 DEF Passing
  <2>4. QED
      BY <1>4, <1>7, <1>9, <2>1, <2>2, <2>3 DEF Witnessed
<1>11. Bounded(s)
  <2>1. CASE q.by = "start" /\ Atoi(r.first, 0) < 0
      BY <1>4, <2>1 DEF Bounded
  <2>2. CASE ~(q.by = "start" /\ Atoi(r.first, 0) < 0)
    <3> DEFINE l == Limit(q, r.first)
               k == r.requests
    <3>1. r.first \in Int \cup {NoInteger} /\ k \in Nat /\ q.by \in {"page", "start"}
        BY <1>1, Fields, BoundsAssumption DEF Query
    <3>2. 0 \in Int /\ 0 < Half /\ -Half <= 0
        BY WidthFacts
    <3>3. Atoi(r.first, 0) \in Int
        BY <3>1, <3>2, AtoiFacts
    <3>4. \/ q.by = "page" /\ r.first \in Int /\ r.first >= 1
          \/ q.by = "start" /\ Atoi(r.first, 0) >= 0
        BY <1>1, <2>2, <3>1, <3>3 DEF Placed
    <3>5. l = Given(q) /\ l \in Nat
        BY <1>1, <3>1, <3>4, Parameters DEF Limit
    <3>6. lim = Given(q)
        BY <1>1, <2>2, PageOfWhole DEF lim
    <3>7. Len(old) <= k * l
        BY <2>2 DEF ReadingInv, Bounded
    <3> HIDE DEF l, k
    <3>8. \A a, b \in Nat : (a + 1) * b = a * b + b /\ a * b \in Nat
        OBVIOUS
    <3>9. Len(old) + m <= (k + 1) * l
        BY <1>3, <1>6, <3>1, <3>5, <3>6, <3>7, <3>8
    <3>10. QED
        BY <1>4, <1>7, <3>9 DEF Bounded, l, k
  <2>3. QED
      BY <2>1, <2>2
<1>12. \A t : Rank(T, q, t) \in Nat
    BY RankKinds
<1>13. Kept(s, T)
  <2>1. SUFFICES ASSUME WholeReading(r), Passing(r.deleted, q) = {},
                        NEW t \in Passing(r.began, q), t \notin Range(s.seen), ~TwinOf(r, t)
                 PROVE  next <= Rank(T, q, t)
      BY <1>4, <1>8 DEF Kept, next
  <2>2. t \notin Range(old) /\ t \notin Range(got)
      BY <1>7, <2>1
  <2>3. off <= Rank(T, q, t)
      BY <2>1, <2>2 DEF ReadingInv, Kept, off
  <2>4. t \in Passing(T, q) /\ \A u \in Passing(T, q) : ~Alike(t, u, q)
      BY <1>1, <1>9, <2>1, SameTasks
  <2>5. m = lim /\ off + lim <= Rank(T, q, t)
      BY <1>5, <2>2, <2>3, <2>4
  <2>6. next = off + lim
      BY <1>3, <2>1, <2>5
  <2>7. QED
      BY <2>5, <2>6
<1>14. \A i \in DOMAIN got : got[i] \in Task
    BY <1>3
<1>15. Passed(s, T)
  <2>1. SUFFICES ASSUME WholeReading(r), NEW t \in Range(s.seen), ~EarlierCreated(r, t)
                 PROVE  Rank(T, q, t) < next /\ (TwinOf(r, t) \/ Once(s.seen, t))
      BY <1>4, <1>8 DEF Passed, next
  <2>2. t \in Range(old) => Rank(T, q, t) < off /\ (TwinOf(r, t) \/ Once(old, t))
      BY <2>1 DEF ReadingInv, Passed, off
  <2>3. ASSUME NEW i \in DOMAIN got, got[i] = t PROVE Rank(T, q, t) < next
    <3>1. Rank(T, q, t) <= off + i - 1 /\ i \in 1..m
        BY <1>5, <1>6, <2>3
    <3>2. QED
        BY <1>2, <1>3, <1>12, <2>1, <3>1
  <2>4. Rank(T, q, t) < next
    <3>1. CASE t \in Range(old)
        BY <1>2, <1>3, <1>12, <2>1, <2>2, <3>1
    <3>2. CASE t \in Range(got)
        BY <2>3, <3>2 DEF Range
    <3>3. QED
        BY <1>7, <2>1, <3>1, <3>2
  <2>5. ASSUME ~TwinOf(r, t) PROVE Once(s.seen, t)
    <3>1. \A u \in Passing(T, q) : ~Alike(t, u, q)
        BY <1>1, <1>9, <2>5, SameTasks
    <3>2. ASSUME NEW i \in DOMAIN got, got[i] = t PROVE t \notin Range(old)
      <4>1. Rank(T, q, t) = off + i - 1 /\ i \in 1..m
          BY <1>5, <1>6, <3>1, <3>2
      <4>2. QED
          BY <1>2, <1>3, <2>2, <4>1
    <3>3. SUFFICES ASSUME NEW i \in DOMAIN s.seen, NEW j \in DOMAIN s.seen,
                          s.seen[i] = t, s.seen[j] = t
                   PROVE  i = j
        BY DEF Once
    <3>4. i \in Nat /\ j \in Nat
        BY <1>7
    <3>5. CASE i \in DOMAIN old /\ j \in DOMAIN old
      <4>1. old[i] = t /\ old[j] = t
          BY <1>7, <3>3, <3>5
      <4>2. t \in Range(old)
          BY <3>5, <4>1 DEF Range
      <4>3. QED
          BY <2>2, <2>5, <3>5, <4>1, <4>2 DEF Once
    <3>6. CASE i \in DOMAIN old /\ j \notin DOMAIN old
        BY <1>7, <3>2, <3>3, <3>6 DEF Range
    <3>7. CASE i \notin DOMAIN old /\ j \in DOMAIN old
        BY <1>7, <3>2, <3>3, <3>7 DEF Range
    <3>8. CASE i \notin DOMAIN old /\ j \notin DOMAIN old
      <4>1. /\ i - Len(old) \in DOMAIN got /\ j - Len(old) \in DOMAIN got
            /\ got[i - Len(old)] = got[j - Len(old)]
          BY <1>7, <3>3, <3>8
      <4>2. i - Len(old) = j - Len(old)
          BY <1>5, <1>6, <4>1
      <4>3. QED
          BY <1>6, <3>4, <4>2
    <3>9. QED
        BY <3>5, <3>6, <3>7, <3>8
  <2>6. QED
      BY <2>4, <2>5
<1>16. Straight(s)
  <2> DEFINE L == Sorted(r.began, q)
             n == Len(L)
             k == Len(old)
  <2>1. SUFFICES ASSUME WholeReading(r), Undisturbed(r)
                 PROVE  /\ \A i \in 1..Len(s.seen) : i \in 1..n /\ s.seen[i] = L[i]
                        /\ Len(s.seen) <= next /\ Len(s.seen) \in {next, n}
      BY <1>4, <1>8 DEF Straight, next
  <2>2. Sorted(T, q) = L
      BY <1>1, <1>9, <2>1, SameTasks
  <2>3. /\ \A i \in 1..k : i \in 1..n /\ old[i] = L[i]
        /\ k <= off /\ k \in {off, n}
      BY <2>1 DEF ReadingInv, Straight, off
  <2>4. /\ \A i \in 1..m : off + i \in 1..n /\ got[i] = L[off + i]
        /\ off < n /\ (m = lim \/ off + m = n)
      BY <1>2, <2>2 DEF IsPage
  <2>5. n \in Nat
      BY <1>1, <2>2, Answer
  <2> HIDE DEF L, n, k
  <2>6. k = off
      BY <1>2, <2>3, <2>4, <2>5
  <2>7. Len(s.seen) = off + m /\ DOMAIN old = 1..off
      BY <1>6, <1>7, <2>6 DEF k
  <2>8. ASSUME NEW i \in 1..off + m PROVE i \in 1..n /\ s.seen[i] = L[i]
    <3>1. i \in DOMAIN s.seen
        BY <1>1, <1>3, <1>4, <2>7, Joined
    <3>2. CASE i \in 1..off
        BY <1>7, <2>3, <2>6, <2>7, <3>1, <3>2
    <3>3. CASE i \notin 1..off
      <4> DEFINE l == i - off
      <4>1. l \in 1..m /\ s.seen[i] = got[l] /\ off + l = i
          BY <1>2, <1>3, <1>6, <1>7, <2>6, <2>7, <3>1, <3>3 DEF k
      <4> HIDE DEF l
      <4>2. QED
          BY <2>4, <4>1
    <3>4. QED
        BY <3>2, <3>3
  <2>9. off + m <= next /\ off + m \in {next, n}
      BY <1>2, <1>3, <2>1, <2>4
  <2>10. QED
      BY <2>7, <2>8, <2>9
<1>17. Arranged(s)
  <2>1. SUFFICES ASSUME WholeReading(r), Passing(r.created, q) = {},
                        NEW i \in DOMAIN s.seen, NEW j \in DOMAIN s.seen, i < j
                 PROVE  ~Precedes(s.seen[j], s.seen[i], q)
      BY <1>4, <1>8 DEF Arranged
  <2>2. i \in Nat /\ j \in Nat
      BY <1>7
  <2>3. CASE i \in DOMAIN old /\ j \in DOMAIN old
    <3>1. s.seen[i] = old[i] /\ s.seen[j] = old[j]
        BY <1>7, <2>3
    <3>2. ~Precedes(old[j], old[i], q)
        BY <2>1, <2>3 DEF ReadingInv, Arranged
    <3>3. QED
        BY <3>1, <3>2
  <2>4. CASE i \in DOMAIN old /\ j \notin DOMAIN old
    <3> DEFINE l == j - Len(old)
               x == old[i]
    <3>1. l \in 1..m /\ s.seen[i] = x /\ s.seen[j] = got[l] /\ x \in Range(old)
        BY <1>6, <1>7, <2>4 DEF Range
    <3>2. x \in Task
        BY <1>1, <2>4
    <3>3. Rank(T, q, x) < off
        BY <2>1, <3>1 DEF ReadingInv, Passed, EarlierCreated, off
    <3> HIDE DEF x, l
    <3>4. Precedes(got[l], x, q) => off + l <= Rank(T, q, x)
        BY <1>5, <3>1, <3>2
    <3>5. QED
        BY <1>2, <1>3, <1>12, <3>1, <3>3, <3>4
  <2>5. CASE i \notin DOMAIN old
    <3> DEFINE k == i - Len(old)
               l == j - Len(old)
    <3>1. j \notin DOMAIN old
      <4>1. DOMAIN s.seen = 1..Len(old) + m
          BY <1>4, <1>1, <1>3, <1>6, <1>7, Joined
      <4>2. i > Len(old)
          BY <1>6, <2>5, <2>2, <4>1
      <4>3. QED
          BY <1>6, <2>1, <2>2, <4>2
    <3>2. k \in DOMAIN got /\ l \in DOMAIN got /\ s.seen[i] = got[k] /\ s.seen[j] = got[l]
        BY <1>7, <2>5, <3>1
    <3>3. k < l
        BY <1>6, <2>1, <2>2
    <3> HIDE DEF k, l
    <3>4. QED
        BY <1>5, <1>6, <3>2, <3>3
  <2>6. QED
      BY <2>3, <2>4, <2>5
<1>18. ReadingInv(s, T)
    BY <1>3, <1>10, <1>11, <1>13, <1>15, <1>16, <1>17 DEF ReadingInv
<1>19. QED
    BY <1>18 DEF s

(***************************************************************************)
(* The invariant is inductive.                                             *)
(***************************************************************************)

(* A reading is not nobody.                                                *)
LEMMA NotNobody ==
    ASSUME NEW r \in Readings
    PROVE  r # Nobody /\ Nobody.pc # "reading" /\ Nobody.pc # "done"
<1>1. Nobody.pc = "idle"
    BY DEF Nobody
<1>2. r.pc \in {"reading", "done"}
    BY Fields
<1>3. QED
    BY <1>1, <1>2

LEMMA InitIInv == Init => IInv
<1> SUFFICES ASSUME Init PROVE IInv
    OBVIOUS
<1>1. clock \in 0..MaxClock /\ changes \in 0..MaxChanges
    BY BoundsAssumption DEF Init
<1>2. PICK K \in SUBSET Keys : \E time \in [K -> 0..clock] :
         tasks = {[key |-> k, time |-> time[k]] : k \in K}
    BY DEF Init
<1>3. PICK time \in [K -> 0..clock] : tasks = {[key |-> k, time |-> time[k]] : k \in K}
    BY <1>2
<1>4. \A k \in K : time[k] \in 0..MaxClock
  <2>1. \A n \in 0..clock : n \in 0..MaxClock
      BY <1>1, BoundsAssumption
  <2>2. QED
      BY <1>3, <2>1
<1>5. \A t \in tasks : t \in Task /\ t = [key |-> t.key, time |-> time[t.key]]
    BY <1>2, <1>3, <1>4 DEF Task
<1>6. Keyed(tasks)
    BY <1>5 DEF Keyed
<1>7. read = Nobody
    BY DEF Init
<1>8. QED
    BY <1>1, <1>6, <1>7 DEF IInv, TasksOK

LEMMA NextIInv == IInv /\ [Next]_vars => IInv'
<1> SUFFICES ASSUME IInv, [Next]_vars PROVE IInv'
    OBVIOUS
<1>1. /\ Keyed(tasks) /\ clock \in 0..MaxClock /\ changes \in 0..MaxChanges
      /\ read = Nobody \/ ReadingInv(read, tasks)
    BY DEF IInv, TasksOK
<1>2. ReadingInv(read, tasks) => read \in Readings /\ read # Nobody
    BY NotNobody DEF ReadingInv
<1>3. Reading => ReadingInv(read, tasks) /\ read.pc = "reading"
    BY <1>1, NotNobody DEF Reading, Nobody
<1>4. CASE Tick
  <2>1. clock + 1 \in 0..MaxClock
      BY <1>1, <1>4, BoundsAssumption DEF Tick
  <2>2. QED
      BY <1>1, <1>4, <2>1 DEF Tick, IInv, TasksOK
<1>5. ASSUME NEW k \in Keys, Create(k) PROVE IInv'
  <2> DEFINE c == [key |-> k, time |-> clock]
  <2>1. /\ tasks' = tasks \cup {c} /\ clock' = clock /\ changes' = changes + 1
        /\ changes < MaxChanges /\ k \notin {t.key : t \in tasks}
        /\ read' = IF Reading THEN [read EXCEPT !.created = @ \cup {c}] ELSE read
      BY <1>5 DEF Create
  <2>2. c \in Task /\ c.key = k
      BY <1>1 DEF Task
  <2> HIDE DEF c
  <2>3. Keyed(tasks \cup {c})
      BY <1>1, <2>1, <2>2 DEF Keyed
  <2>4. changes + 1 \in 0..MaxChanges
      BY <1>1, <2>1, BoundsAssumption
  <2>5. TasksOK'
      BY <1>1, <2>1, <2>3, <2>4 DEF TasksOK
  <2>6. CASE Reading
    <3>1. ReadingInv([read EXCEPT !.created = @ \cup {c}], tasks \cup {c})
        BY <1>1, <1>3, <2>2, <2>3, <2>6, Creates
    <3>2. QED
        BY <2>1, <2>5, <2>6, <3>1 DEF IInv
  <2>7. CASE ~Reading
    <3>1. read = Nobody \/ ReadingInv(read, tasks \cup {c})
        BY <1>1, <2>7, AfterReading DEF Reading
    <3>2. QED
        BY <2>1, <2>5, <2>7, <3>1 DEF IInv
  <2>8. QED
      BY <2>6, <2>7
<1>6. ASSUME NEW d \in tasks, Delete(d) PROVE IInv'
  <2>1. /\ tasks' = tasks \ {d} /\ clock' = clock /\ changes' = changes + 1
        /\ changes < MaxChanges
        /\ read' = IF Reading THEN [read EXCEPT !.deleted = @ \cup {d}] ELSE read
      BY <1>6 DEF Delete
  <2>2. Keyed(tasks \ {d})
      BY <1>1 DEF Keyed
  <2>3. changes + 1 \in 0..MaxChanges
      BY <1>1, <2>1, BoundsAssumption
  <2>4. TasksOK'
      BY <1>1, <2>1, <2>2, <2>3 DEF TasksOK
  <2>5. CASE Reading
    <3>1. ReadingInv([read EXCEPT !.deleted = @ \cup {d}], tasks \ {d})
        BY <1>1, <1>3, <2>5, Deletes
    <3>2. QED
        BY <2>1, <2>4, <2>5, <3>1 DEF IInv
  <2>6. CASE ~Reading
    <3>1. read = Nobody \/ ReadingInv(read, tasks \ {d})
        BY <1>1, <2>6, AfterReading DEF Reading
    <3>2. QED
        BY <2>1, <2>4, <2>6, <3>1 DEF IInv
  <2>7. QED
      BY <2>5, <2>6
<1>7. ASSUME NEW q \in Query, NEW position, Begin(q, position) PROVE IInv'
  <2>1. ReadingInv(read', tasks)
      BY <1>1, <1>7, Begins DEF Begin
  <2>2. tasks' = tasks /\ TasksOK'
      BY <1>1, <1>7 DEF Begin, TasksOK
  <2>3. QED
      BY <2>1, <2>2 DEF IInv
<1>8. CASE Leave
    BY <1>1, <1>8 DEF Leave, IInv, TasksOK
<1>9. CASE ListAnalysisTask
  <2> DEFINE q == read.query
             answer == DefaultList(tasks, q, PageOf(read))
             got == answer.page
             status == answer.status
  <2>1. /\ Reading /\ read.requests < MaxRequests
        /\ tasks' = tasks /\ clock' = clock /\ changes' = changes
        /\ read' = IF got = <<>> THEN [read EXCEPT !.pc = "done", !.status = status]
                   ELSE [read EXCEPT !.seen = @ \o got, !.status = 200,
                                     !.position = NextPosition(Len(got)),
                                     !.requests = @ + 1]
      BY <1>9 DEF ListAnalysisTask, PageOf
  <2>2. ReadingInv(read, tasks) /\ read.pc = "reading"
      BY <1>3, <2>1
  <2>3. answer = [status |-> status, page |-> got]
      BY DEF DefaultList
  <2>4. TasksOK'
      BY <1>1, <2>1 DEF TasksOK
  <2>5. NextPosition(Len(got)) = Following(read, Len(got))
      BY DEF NextPosition, Following
  <2> HIDE DEF got, status
  <2>6. CASE got = <<>>
    <3>1. ReadingInv([read EXCEPT !.pc = "done", !.status = status], tasks)
        BY <1>1, <2>2, <2>3, <2>6, Ends
    <3>2. QED
        BY <2>1, <2>4, <2>6, <3>1 DEF IInv
  <2>7. CASE got # <<>>
    <3>1. ReadingInv(After(read, got), tasks)
        BY <1>1, <2>1, <2>2, <2>3, <2>7, Continues
    <3>2. read' = After(read, got)
        BY <2>1, <2>5, <2>7 DEF After
    <3>3. QED
        BY <2>1, <2>4, <3>1, <3>2 DEF IInv
  <2>8. QED
      BY <2>6, <2>7
<1>10. CASE ListFails
  <2>1. ReadingInv([read EXCEPT !.status = 400], tasks)
      BY <1>3, <1>10, Fails DEF ListFails
  <2>2. QED
      BY <1>1, <1>10, <2>1 DEF ListFails, IInv, TasksOK
<1>11. CASE UNCHANGED vars
    BY <1>1, <1>11 DEF vars, IInv, TasksOK
<1>12. QED
    BY <1>4, <1>5, <1>6, <1>7, <1>8, <1>9, <1>10, <1>11 DEF Next

LEMMA IInvHolds == Spec => []IInv
<1>1. QED
    BY InitIInv, NextIInv, PTL DEF Spec

(***************************************************************************)
(* The theorems.                                                           *)
(***************************************************************************)

(* The two ways to write which tasks pass, and what a whole reading is.    *)
LEMMA SameWords ==
    /\ \A S : Of(S) = Passing(S, read.query)
    /\ Whole <=> WholeReading(read)
    /\ \A t : HasTwin(t) <=> TwinOf(read, t)
BY DEF Of, Passing, Whole, WholeReading, HasTwin, TwinOf

(* Every variable is of its kind, and the client was given only tasks that *)
(* were there in time, no more than it asked for.                          *)
THEOREM TypeCorrect == Spec => []TypeOK
<1>1. IInv => TypeOK
  <2> SUFFICES ASSUME IInv PROVE TypeOK
      OBVIOUS
  <2>1. /\ tasks \subseteq Task /\ \A t, u \in tasks : t.key = u.key => t = u
        /\ clock \in 0..MaxClock /\ changes \in 0..MaxChanges
      BY DEF IInv, TasksOK, Keyed
  <2>2. read # Nobody => ReadingInv(read, tasks)
      BY DEF IInv
  <2>3. read # Nobody => /\ read \in Readings
                         /\ Range(read.seen) \subseteq read.began \cup read.created
                         /\ Bounded(read)
      BY <2>2 DEF ReadingInv, Witnessed, Passing
  <2>4. QED
      BY <2>1, <2>3 DEF TypeOK, Bounded
<1>2. QED
    BY <1>1, IInvHolds, PTL

(* The list of an undisturbed reading.                                     *)
LEMMA OneList ==
    ASSUME NEW r, NEW T, ReadingInv(r, T), WholeReading(r), Undisturbed(r)
    PROVE  /\ \A i, j \in DOMAIN r.seen : r.seen[i] = r.seen[j] => i = j
           /\ r.pc = "done" /\ r.status = 200 =>
                 Passing(r.began, r.query) \subseteq Range(r.seen)
<1> DEFINE L == Sorted(r.began, r.query)
           seen == r.seen
<1>1. r.query \in Query /\ seen \in Seq(Task)
    BY Fields DEF ReadingInv
<1>2. L \in Seq(Task) /\ Range(L) = Passing(r.began, r.query) /\ IsInjective(L)
  <2>1. Keyed(r.began)
      BY DEF ReadingInv, Witnessed
  <2>2. QED
      BY <1>1, <2>1, FewTasks, SortedList
<1>3. /\ \A i \in 1..Len(seen) : i \in 1..Len(L) /\ seen[i] = L[i]
      /\ r.pc = "done" /\ r.status = 200 => Len(seen) = Len(L)
    BY DEF ReadingInv, Straight
<1> HIDE DEF L, seen
<1>4. DOMAIN seen = 1..Len(seen) /\ DOMAIN L = 1..Len(L)
    BY <1>1, <1>2
<1>5. \A i, j \in DOMAIN seen : seen[i] = seen[j] => i = j
    BY <1>2, <1>3, <1>4 DEF IsInjective
<1>6. r.pc = "done" /\ r.status = 200 => Range(L) \subseteq Range(seen)
    BY <1>3, <1>4 DEF Range
<1>7. QED
    BY <1>2, <1>5, <1>6 DEF seen

(* Pages cut out of lists that differ leave no gap: a client that reads to *)
(* the end gets every task that matched when it began, unless one that     *)
(* matches was deleted, or one was created and the task has a twin.        *)
THEOREM NoTaskIsMissed == Spec => []NothingMissed
<1>1. IInv => NothingMissed
  <2> SUFFICES ASSUME IInv, Finished, Whole, Of(read.deleted) = {},
                      NEW t \in Of(read.began), t \notin Range(read.seen)
               PROVE  HasTwin(t) /\ Of(read.created) # {}
      BY DEF NothingMissed
  <2>1. ReadingInv(read, tasks) /\ read.pc = "done" /\ read.status = 200
      BY DEF IInv, Finished, Nobody
  <2>2. WholeReading(read) /\ Passing(read.deleted, read.query) = {} /\ t \in Passing(read.began, read.query)
      BY SameWords
  <2>3. HasTwin(t)
      BY <2>1, <2>2, SameWords DEF ReadingInv, Kept
  <2>4. ASSUME Of(read.created) = {} PROVE FALSE
    <3>1. Undisturbed(read)
        BY <2>2, <2>4, SameWords DEF Undisturbed
    <3>2. QED
        BY <2>1, <2>2, <3>1, OneList DEF ReadingInv
  <2>5. QED
      BY <2>3, <2>4
<1>2. QED
    BY <1>1, IInvHolds, PTL

(* A client gets a task twice only if one that precedes it came in, or if  *)
(* it has a twin and the list changed.                                     *)
THEOREM RepeatsAreExplained == Spec => []RepeatsExplained
<1>1. IInv => RepeatsExplained
  <2> SUFFICES ASSUME IInv, read # Nobody, Whole,
                      NEW i \in DOMAIN read.seen, NEW j \in DOMAIN read.seen,
                      i # j, read.seen[i] = read.seen[j],
                      ~EarlierCreated(read, read.seen[i])
               PROVE  HasTwin(read.seen[i]) /\ Of(read.created \cup read.deleted) # {}
      BY SameWords DEF RepeatsExplained, EarlierCreated
  <2>1. ReadingInv(read, tasks) /\ WholeReading(read)
      BY SameWords DEF IInv
  <2>2. ~Once(read.seen, read.seen[i]) /\ read.seen[i] \in Range(read.seen)
      BY DEF Once, Range
  <2>3. HasTwin(read.seen[i])
      BY <2>1, <2>2, SameWords DEF ReadingInv, Passed
  <2>4. ASSUME Of(read.created \cup read.deleted) = {} PROVE FALSE
    <3>1. Undisturbed(read)
        BY <2>4 DEF Of, Passing, Undisturbed
    <3>2. QED
        BY <2>1, <3>1, OneList DEF ReadingInv
  <2>5. QED
      BY <2>3, <2>4
<1>2. QED
    BY <1>1, IInvHolds, PTL

(* The pages of a client, put together, are in the order it asked for,     *)
(* unless a task that matches is created meanwhile.                        *)
THEOREM PagesComeInOrder == Spec => []PagesInOrder
<1>1. IInv => PagesInOrder
    BY SameWords DEF IInv, ReadingInv, Arranged, PagesInOrder
<1>2. QED
    BY <1>1, IInvHolds, PTL
===============================================================================
