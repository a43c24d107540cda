-------------------------- MODULE RequestInfoProofs --------------------------
(***************************************************************************)
(* Proofs about how a URL is read, for every form of URL and every call of *)
(* the typed client, whatever the names in them are.                       *)
(*                                                                         *)
(* The parser takes a URL apart from the left, and what it has left is at  *)
(* each point the URL of the form without the parts in front: each part is *)
(* taken if it is there, and nothing is mistaken for it if it is not.      *)
(***************************************************************************)
EXTENDS TaskClient, SequenceTheorems, TLAPS

(* What is left of a URL behind its namespace, workspace, verb, version,   *)
(* group and cluster.                                                      *)
Object(f)    == <<f.resource>> \o Maybe(f.name) \o Maybe(f.subresource)
Placed(f)    == Segment("namespaces", f.namespace) \o Object(f)
Scoped(f)    == Segment("workspaces", f.workspace) \o Placed(f)
Marked(f)    == Maybe(f.special) \o Scoped(f)
Versioned(f) == <<f.version>> \o Marked(f)
Grouped(f)   == Maybe(f.group) \o Versioned(f)
Clustered(f) == Segment("clusters", f.cluster) \o Grouped(f)

(* The segments a URL may have.                                            *)
Segments(f) == {f.prefix, f.cluster, f.group, f.version, f.special, f.workspace,
                f.namespace, f.resource, f.name, f.subresource,
                "clusters", "workspaces", "namespaces"}

(* A part of a path is a path.                                             *)
LEMMA PartsAre ==
    ASSUME NEW S, NEW key \in S, NEW value \in S
    PROVE  Segment(key, value) \in Seq(S) /\ Maybe(value) \in Seq(S) /\ <<value>> \in Seq(S)
<1>1. <<key, value>> \in Seq(S) /\ <<value>> \in Seq(S) /\ <<>> \in Seq(S)
    OBVIOUS
<1>2. QED
    BY <1>1, Zenon DEF Segment, Maybe

(* The parts of the URL of a form, and what is left of it at each point,   *)
(* are paths of its segments.                                              *)
LEMMA PartsOfForm ==
    ASSUME NEW f, NEW S, S = Segments(f)
    PROVE  /\ <<f.prefix>> \in Seq(S) /\ <<f.version>> \in Seq(S)
           /\ <<f.resource>> \in Seq(S)
           /\ Segment("clusters", f.cluster) \in Seq(S)
           /\ Segment("workspaces", f.workspace) \in Seq(S)
           /\ Segment("namespaces", f.namespace) \in Seq(S)
           /\ Maybe(f.group) \in Seq(S) /\ Maybe(f.special) \in Seq(S)
           /\ Maybe(f.name) \in Seq(S) /\ Maybe(f.subresource) \in Seq(S)
<1>1. /\ f.prefix \in S /\ f.cluster \in S /\ f.group \in S /\ f.version \in S
      /\ f.special \in S /\ f.workspace \in S /\ f.namespace \in S
      /\ f.resource \in S /\ f.name \in S /\ f.subresource \in S
      /\ "clusters" \in S /\ "workspaces" \in S /\ "namespaces" \in S
    BY DEF Segments
<1>2. QED
    BY <1>1, PartsAre

LEMMA RestsOfForm ==
    ASSUME NEW f, NEW S, S = Segments(f)
    PROVE  /\ Object(f) \in Seq(S) /\ Placed(f) \in Seq(S) /\ Scoped(f) \in Seq(S)
           /\ Marked(f) \in Seq(S) /\ Versioned(f) \in Seq(S) /\ Grouped(f) \in Seq(S)
           /\ Clustered(f) \in Seq(S)
<1> USE PartsOfForm, ConcatProperties
<1>1. Object(f) \in Seq(S)
    BY DEF Object
<1>2. Placed(f) \in Seq(S)
    BY <1>1 DEF Placed
<1>3. Scoped(f) \in Seq(S)
    BY <1>2 DEF Scoped
<1>4. Marked(f) \in Seq(S)
    BY <1>3 DEF Marked
<1>5. Versioned(f) \in Seq(S)
    BY <1>4 DEF Versioned
<1>6. Grouped(f) \in Seq(S)
    BY <1>5 DEF Grouped
<1>7. Clustered(f) \in Seq(S)
    BY <1>6 DEF Clustered
<1>8. QED
    BY <1>1, <1>2, <1>3, <1>4, <1>5, <1>6, <1>7

(* Concatenation, as an operator that is not expanded: what is needed of   *)
(* it is that it does not matter where one begins.                         *)
Cat(s, t) == s \o t

(* Two facts about concatenation.                                          *)
LEMMA CatClosed == ASSUME NEW S PROVE \A a, b \in Seq(S) : Cat(a, b) \in Seq(S)
BY ConcatProperties DEF Cat

LEMMA CatAssociative ==
    ASSUME NEW S
    PROVE  \A a, b, s \in Seq(S) : Cat(Cat(a, b), s) = Cat(a, Cat(b, s))
BY ConcatAssociative DEF Cat

(* A URL is its prefix and what is left behind it.                         *)
LEMMA URLBehindPrefix == \A f : URL(f) = <<f.prefix>> \o Clustered(f)
<1> SUFFICES ASSUME NEW f PROVE URL(f) = <<f.prefix>> \o Clustered(f)
    OBVIOUS
<1> DEFINE S  == Segments(f)
           p  == <<f.prefix>>
           c  == Segment("clusters", f.cluster)
           g  == Maybe(f.group)
           v  == <<f.version>>
           w  == Maybe(f.special)
           o  == Segment("workspaces", f.workspace)
           n  == Segment("namespaces", f.namespace)
           r  == <<f.resource>>
           m  == Maybe(f.name)
           u  == Maybe(f.subresource)
           l2 == Cat(p, c)
           l3 == Cat(l2, g)
           l4 == Cat(l3, v)
           l5 == Cat(l4, w)
           l6 == Cat(l5, o)
           l7 == Cat(l6, n)
           l8 == Cat(l7, r)
           l9 == Cat(l8, m)
           r8 == Cat(r, m)
           r7 == Object(f)
           r6 == Placed(f)
           r5 == Scoped(f)
           r4 == Marked(f)
           r3 == Versioned(f)
           r2 == Grouped(f)
           r1 == Clustered(f)
<1>1. /\ p \in Seq(S) /\ c \in Seq(S) /\ g \in Seq(S) /\ v \in Seq(S) /\ w \in Seq(S)
      /\ o \in Seq(S) /\ n \in Seq(S) /\ r \in Seq(S) /\ m \in Seq(S) /\ u \in Seq(S)
    BY PartsOfForm
<1>2. /\ r7 \in Seq(S) /\ r6 \in Seq(S) /\ r5 \in Seq(S) /\ r4 \in Seq(S)
      /\ r3 \in Seq(S) /\ r2 \in Seq(S) /\ r1 \in Seq(S)
    BY RestsOfForm
<1>3. /\ URL(f) = Cat(l9, u)
      /\ r7 = Cat(r8, u) /\ r6 = Cat(n, r7) /\ r5 = Cat(o, r6) /\ r4 = Cat(w, r5)
      /\ r3 = Cat(v, r4) /\ r2 = Cat(g, r3) /\ r1 = Cat(c, r2)
    BY DEF URL, Object, Placed, Scoped, Marked, Versioned, Grouped, Clustered, Cat
<1> HIDE DEF S, p, c, g, v, w, o, n, r, m, u, r1, r2, r3, r4, r5, r6, r7
<1>4. l2 \in Seq(S) /\ l3 \in Seq(S)
    BY <1>1, CatClosed
<1>5. l4 \in Seq(S) /\ l5 \in Seq(S)
  <2> HIDE DEF l3
  <2> QED
    BY <1>1, <1>4, CatClosed
<1>6. l6 \in Seq(S) /\ l7 \in Seq(S)
  <2> HIDE DEF l5
  <2> QED
    BY <1>1, <1>5, CatClosed
<1>7. r8 \in Seq(S)
    BY <1>1, CatClosed
<1> HIDE DEF l2, l3, l4, l5, l6, l7, r8
<1>8. l9 = Cat(l7, r8)
  <2>1. l7 \in Seq(S) /\ r \in Seq(S) /\ m \in Seq(S)
      BY <1>1, <1>6
  <2>2. QED
      BY <2>1, CatAssociative DEF r8
<1> HIDE DEF l9
<1>9. Cat(l9, u) = Cat(l7, r7)
  <2>1. l7 \in Seq(S) /\ r8 \in Seq(S) /\ u \in Seq(S)
      BY <1>1, <1>6, <1>7
  <2>2. Cat(Cat(l7, r8), u) = Cat(l7, Cat(r8, u))
      BY <2>1, CatAssociative
  <2>3. QED
      BY <2>2, <1>3, <1>8
<1>10. Cat(l7, r7) = Cat(l6, r6)
  <2>1. l6 \in Seq(S) /\ n \in Seq(S) /\ r7 \in Seq(S)
      BY <1>1, <1>2, <1>6
  <2>2. Cat(Cat(l6, n), r7) = Cat(l6, Cat(n, r7))
      BY <2>1, CatAssociative
  <2>3. QED
      BY <2>2, <1>3 DEF l7
<1>11. Cat(l6, r6) = Cat(l5, r5)
  <2>1. l5 \in Seq(S) /\ o \in Seq(S) /\ r6 \in Seq(S)
      BY <1>1, <1>2, <1>5
  <2>2. Cat(Cat(l5, o), r6) = Cat(l5, Cat(o, r6))
      BY <2>1, CatAssociative
  <2>3. QED
      BY <2>2, <1>3 DEF l6
<1>12. Cat(l5, r5) = Cat(l4, r4)
  <2>1. l4 \in Seq(S) /\ w \in Seq(S) /\ r5 \in Seq(S)
      BY <1>1, <1>2, <1>5
  <2>2. Cat(Cat(l4, w), r5) = Cat(l4, Cat(w, r5))
      BY <2>1, CatAssociative
  <2>3. QED
      BY <2>2, <1>3 DEF l5
<1>13. Cat(l4, r4) = Cat(l3, r3)
  <2>1. l3 \in Seq(S) /\ v \in Seq(S) /\ r4 \in Seq(S)
      BY <1>1, <1>2, <1>4
  <2>2. Cat(Cat(l3, v), r4) = Cat(l3, Cat(v, r4))
      BY <2>1, CatAssociative
  <2>3. QED
      BY <2>2, <1>3 DEF l4
<1>14. Cat(l3, r3) = Cat(l2, r2)
  <2>1. l2 \in Seq(S) /\ g \in Seq(S) /\ r3 \in Seq(S)
      BY <1>1, <1>2, <1>4
  <2>2. Cat(Cat(l2, g), r3) = Cat(l2, Cat(g, r3))
      BY <2>1, CatAssociative
  <2>3. QED
      BY <2>2, <1>3 DEF l3
<1>15. Cat(l2, r2) = Cat(p, r1)
  <2>1. p \in Seq(S) /\ c \in Seq(S) /\ r2 \in Seq(S)
      BY <1>1, <1>2
  <2>2. Cat(Cat(p, c), r2) = Cat(p, Cat(c, r2))
      BY <2>1, CatAssociative
  <2>3. QED
      BY <2>2, <1>3 DEF l2
<1>16. URL(f) = Cat(p, r1)
    BY <1>3, <1>9, <1>10, <1>11, <1>12, <1>13, <1>14, <1>15
<1>17. QED
    BY <1>16 DEF Cat, p, r1

(***************************************************************************)
(* What stands in front of other segments, and how it is taken away.       *)
(***************************************************************************)

(* A segment in front of others.                                           *)
LEMMA InFront ==
    ASSUME NEW S, NEW s \in Seq(S), NEW e \in S
    PROVE  /\ <<e>> \o s \in Seq(S) /\ <<e>> \o s # <<>>
           /\ (<<e>> \o s)[1] = e /\ Tail(<<e>> \o s) = s
           /\ Len(<<e>> \o s) = Len(s) + 1
           /\ \A i \in 1..Len(s) : (<<e>> \o s)[i + 1] = s[i]
<1>1. <<e>> \in Seq(S) /\ Len(<<e>>) = 1 /\ <<e>>[1] = e
    OBVIOUS
<1>2. /\ <<e>> \o s \in Seq(S) /\ Len(<<e>> \o s) = 1 + Len(s)
      /\ \A i \in 1..(1 + Len(s)) : (<<e>> \o s)[i] = IF i <= 1 THEN <<e>>[i] ELSE s[i - 1]
    BY <1>1, ConcatProperties
<1>3. Len(s) \in Nat
    OBVIOUS
<1> DEFINE t == <<e>> \o s
<1>4. t # <<>> /\ t[1] = e
    BY <1>1, <1>2, <1>3
<1>5. ASSUME NEW i \in 1..Len(s) PROVE t[i + 1] = s[i]
  <2>1. i + 1 \in 1..(1 + Len(s)) /\ ~(i + 1 <= 1) /\ (i + 1) - 1 = i
      BY <1>3, <1>5
  <2>2. QED
      BY <2>1, <1>2 DEF t
<1>6. Tail(t) = s
  <2> HIDE DEF t
  <2>1. t \in Seq(S) /\ Len(t) = 1 + Len(s)
      BY <1>2 DEF t
  <2>2. Tail(t) \in Seq(S) /\ Len(Tail(t)) = Len(s)
      BY <2>1, <1>3
  <2>3. ASSUME NEW i \in 1..Len(s) PROVE Tail(t)[i] = s[i]
    <3>1. Tail(t)[i] = t[i + 1]
        BY <2>1, <1>3, <2>3
    <3>2. QED
        BY <3>1, <1>5 DEF t
  <2>4. QED
      BY <2>2, <2>3, SeqEqual
<1>7. Len(t) = Len(s) + 1
    BY <1>2, <1>3
<1>8. QED
    BY <1>2, <1>4, <1>5, <1>6, <1>7

(* A key and a value in front of others.                                   *)
LEMMA PairInFront ==
    ASSUME NEW S, NEW s \in Seq(S), s # <<>>, NEW key \in S, NEW value \in S
    PROVE  LET t == <<key, value>> \o s
           IN  /\ t \in Seq(S) /\ Len(t) = Len(s) + 2 /\ Len(t) > 2
               /\ t[1] = key /\ t[2] = value /\ t[3] = s[1] /\ From(t, 3) = s
<1> DEFINE pair == <<key, value>>
           t    == pair \o s
           n    == Len(s)
<1>1. pair \in Seq(S) /\ Len(pair) = 2 /\ pair[1] = key /\ pair[2] = value
    OBVIOUS
<1>2. n \in Nat /\ n >= 1
  <2>1. n \in Nat /\ n # 0
      OBVIOUS
  <2> HIDE DEF n
  <2>2. QED
      BY <2>1
<1> HIDE DEF pair
<1>3. /\ t \in Seq(S) /\ Len(t) = 2 + n
      /\ \A i \in 1..(2 + n) : t[i] = IF i <= 2 THEN pair[i] ELSE s[i - 2]
  <2>1. /\ t \in Seq(S) /\ Len(t) = Len(pair) + n
        /\ \A i \in 1..(Len(pair) + n) :
              t[i] = IF i <= Len(pair) THEN pair[i] ELSE s[i - Len(pair)]
      BY <1>1, ConcatProperties
  <2>2. QED
      BY <1>1, <2>1
<1>4. SubSeq(t, 3, 2 + n) = SubSeq(s, 1, n)
  <2>1. 3 \in 3..(2 + n) /\ 2 + n \in 3..(2 + n) /\ 3 - 2 = 1 /\ (2 + n) - 2 = n
    <3> HIDE DEF n
    <3> QED
      BY <1>2
  <2>2. 3 \in Len(pair) + 1 .. Len(pair) + Len(s)
        /\ 2 + n \in Len(pair) + 1 .. Len(pair) + Len(s)
      BY <1>1, <2>1
  <2>3. SubSeq(t, 3, 2 + n) = SubSeq(s, 3 - Len(pair), (2 + n) - Len(pair))
      BY <1>1, <2>2, SubSeqOfConcat2
  <2>4. QED
      BY <1>1, <2>1, <2>3
<1>5. SubSeq(s, 1, n) = s
    OBVIOUS
<1>6. t[1] = key /\ t[2] = value /\ t[3] = s[1]
  <2>1. 1 \in 1..(2 + n) /\ 2 \in 1..(2 + n) /\ 3 \in 1..(2 + n)
    <3> HIDE DEF n
    <3> QED
      BY <1>2
  <2>2. QED
      BY <1>1, <1>3, <2>1
<1>7. 2 + n = n + 2 /\ 2 + n > 2
  <2> HIDE DEF n
  <2> QED
    BY <1>2
<1> HIDE DEF t
<1>8. QED
    BY <1>3, <1>4, <1>5, <1>6, <1>7 DEF From, t, pair

(* The parts a form lacks.                                                 *)
Lacks(value) == value = ""

(* A key with its value is taken if it is there; if it is not, nothing is  *)
(* mistaken for it.                                                        *)
LEMMA Taken ==
    ASSUME NEW S, NEW s \in Seq(S), s # <<>>, NEW key \in S, NEW value \in S,
           Lacks(value) => s[1] # key
    PROVE  LET t == Segment(key, value) \o s
           IN  /\ ValueOf(t, key) = value /\ Behind(t, key) = s
               /\ t # <<>> /\ Len(t) >= Len(s)
               /\ t[1] = IF Lacks(value) THEN s[1] ELSE key
<1>0. Len(s) \in Nat /\ Len(s) >= Len(s)
    OBVIOUS
<1> DEFINE t == Segment(key, value) \o s
<1>1. CASE Lacks(value)
  <2>1. t = s
    <3>1. Segment(key, value) = <<>>
        BY <1>1 DEF Segment, Lacks
    <3>2. QED
        BY <3>1, ConcatEmptySeq
  <2>2. ValueOf(s, key) = value /\ Behind(s, key) = s
    <3>1. s[1] # key
        BY <1>1
    <3>2. ValueOf(s, key) = "" /\ Behind(s, key) = s
        BY <3>1 DEF ValueOf, Behind
    <3>3. QED
        BY <1>1, <3>2 DEF Lacks
  <2> HIDE DEF t
  <2>3. QED
      BY <1>0, <1>1, <2>1, <2>2 DEF t
<1>2. CASE ~Lacks(value)
  <2>1. t = <<key, value>> \o s
    <3>1. Segment(key, value) = <<key, value>>
        BY <1>2 DEF Segment, Lacks
    <3>2. QED
        BY <3>1
  <2>2. /\ Len(t) = Len(s) + 2 /\ Len(t) > 2
        /\ t[1] = key /\ t[2] = value /\ From(t, 3) = s /\ t \in Seq(S)
    <3> HIDE DEF t
    <3> QED
      BY <2>1, PairInFront
  <2>3. Len(t) > 1 /\ Len(t) >= Len(s) /\ t # <<>>
    <3>1. \A l \in Nat : l + 2 >= l /\ (l + 2 > 2 => l + 2 > 1 /\ l + 2 # 0)
        OBVIOUS
    <3>2. Len(<<>>) = 0
        OBVIOUS
    <3> HIDE DEF t
    <3>3. QED
        BY <1>0, <2>2, <3>1, <3>2
  <2> HIDE DEF t
  <2>4. ValueOf(t, key) = value /\ Behind(t, key) = s
      BY <2>2, <2>3 DEF ValueOf, Behind
  <2>5. QED
      BY <1>2, <2>2, <2>3, <2>4 DEF t
<1>3. QED
    BY <1>1, <1>2

(* A part that may be missing, in front of others.                         *)
LEMMA MaybeInFront ==
    ASSUME NEW S, NEW s \in Seq(S), s # <<>>, NEW value \in S
    PROVE  LET t == Maybe(value) \o s
           IN  /\ t # <<>> /\ t[1] = IF Lacks(value) THEN s[1] ELSE value
               /\ Lacks(value) => t = s
               /\ ~Lacks(value) => Tail(t) = s /\ Len(t) = Len(s) + 1
<1> DEFINE t == Maybe(value) \o s
<1>1. CASE Lacks(value)
  <2>1. t = s
    <3>1. Maybe(value) = <<>>
        BY <1>1 DEF Maybe, Lacks
    <3>2. QED
        BY <3>1, ConcatEmptySeq
  <2> HIDE DEF t
  <2>2. QED
      BY <1>1, <2>1 DEF t
<1>2. CASE ~Lacks(value)
  <2>1. t = <<value>> \o s
    <3>1. Maybe(value) = <<value>>
        BY <1>2 DEF Maybe, Lacks
    <3>2. QED
        BY <3>1
  <2> HIDE DEF t
  <2>2. t # <<>> /\ t[1] = value /\ Tail(t) = s /\ Len(t) = Len(s) + 1
      BY <2>1, InFront
  <2>3. QED
      BY <1>2, <2>2 DEF t
<1>3. QED
    BY <1>1, <1>2

(***************************************************************************)
(* The resource with its name and subresource.                             *)
(***************************************************************************)

(* What the parser reads of the rest behind the workspace, and of the      *)
(* resource.                                                               *)
ResourcePart(tail) ==
    IF tail[1] = "namespaces"
    THEN IF Len(tail) > 2 /\ tail[3] \notin namespaceSubresources
         THEN From(tail, 3) ELSE tail
    ELSE Behind(tail, "devops")

NameOf(parts)        == IF Len(parts) >= 2 THEN parts[2] ELSE ""
SubresourceOf(parts) == IF Len(parts) >= 3 THEN parts[3] ELSE ""

(* The name and the subresource by the length of what is left.             *)
LEMMA Lengths ==
    ASSUME NEW parts
    PROVE  /\ Len(parts) = 1 => Lacks(NameOf(parts)) /\ Lacks(SubresourceOf(parts))
           /\ Len(parts) = 2 => NameOf(parts) = parts[2] /\ Lacks(SubresourceOf(parts))
           /\ Len(parts) = 3 => NameOf(parts) = parts[2] /\ SubresourceOf(parts) = parts[3]
<1>1. \A n : n = 1 => ~(n >= 2) /\ ~(n >= 3)
    OBVIOUS
<1>2. \A n : n = 2 => n >= 2 /\ ~(n >= 3)
    OBVIOUS
<1>3. \A n : n = 3 => n >= 2 /\ n >= 3
    OBVIOUS
<1>4. IF Len(parts) >= 2 THEN NameOf(parts) = parts[2] ELSE Lacks(NameOf(parts))
    BY Zenon DEF NameOf, Lacks
<1>5. IF Len(parts) >= 3 THEN SubresourceOf(parts) = parts[3]
      ELSE Lacks(SubresourceOf(parts))
    BY Zenon DEF SubresourceOf, Lacks
<1>6. QED
    BY <1>1, <1>2, <1>3, <1>4, <1>5

(* A resource has one of three shapes.                                     *)
LEMMA Shapes ==
    ASSUME NEW S, NEW r \in S, NEW n \in S, NEW u \in S
    PROVE  /\ Len(<<r>> \o <<>>) = 1
           /\ Len(<<r>> \o <<n>>) = 2 /\ (<<r>> \o <<n>>)[2] = n
           /\ Len(<<r>> \o (<<n>> \o <<u>>)) = 3
           /\ (<<r>> \o (<<n>> \o <<u>>))[2] = n /\ (<<r>> \o (<<n>> \o <<u>>))[3] = u
<1>1. /\ <<>> \in Seq(S) /\ <<n>> \in Seq(S) /\ <<u>> \in Seq(S)
      /\ Len(<<>>) = 0 /\ Len(<<n>>) = 1 /\ Len(<<u>>) = 1 /\ <<n>>[1] = n /\ <<u>>[1] = u
    OBVIOUS
<1>2. Len(<<r>> \o <<>>) = 1
    BY <1>1, InFront
<1>3. Len(<<r>> \o <<n>>) = 2 /\ (<<r>> \o <<n>>)[1 + 1] = n
    BY <1>1, InFront
<1> DEFINE t == <<n>> \o <<u>>
<1>4. t \in Seq(S) /\ Len(t) = 2 /\ t[1] = n /\ t[1 + 1] = u
    BY <1>1, InFront
<1> HIDE DEF t
<1>5. Len(<<r>> \o t) = 3 /\ (<<r>> \o t)[1 + 1] = t[1] /\ (<<r>> \o t)[2 + 1] = t[2]
  <2>1. 1 \in 1..Len(t) /\ 2 \in 1..Len(t) /\ Len(t) + 1 = 3
      BY <1>4
  <2>2. t \in Seq(S)
      BY <1>4
  <2>3. Len(<<r>> \o t) = Len(t) + 1
      BY <2>2, InFront
  <2>4. \A i \in 1..Len(t) : (<<r>> \o t)[i + 1] = t[i]
      BY <2>2, InFront
  <2>5. QED
      BY <2>1, <2>3, <2>4
<1>6. QED
    BY <1>2, <1>3, <1>4, <1>5 DEF t

(* A part is there or not; what is not there is the same everywhere.       *)
LEMMA MaybeLacks == \A v : IF Lacks(v) THEN Maybe(v) = <<>> ELSE Maybe(v) = <<v>>
BY Zenon DEF Maybe, Lacks

LEMMA AllLacked == \A v, w : Lacks(v) /\ Lacks(w) => v = w
BY DEF Lacks

(* The last part, which begins with the resource, tells the resource, the  *)
(* name and the subresource.                                               *)
LEMMA ObjectRead ==
    ASSUME NEW f, Lacks(f.name) => Lacks(f.subresource)
    PROVE  /\ Object(f) # <<>> /\ Object(f)[1] = f.resource /\ Len(Object(f)) \in 1..3
           /\ NameOf(Object(f)) = f.name
           /\ SubresourceOf(Object(f)) = f.subresource
           /\ Len(Object(f)) = 1 => Lacks(f.name)
           /\ Len(Object(f)) # 1 => Object(f)[2] = f.name
           /\ Len(Object(f)) = 3 => ~Lacks(f.subresource) /\ Object(f)[3] = f.subresource
<1> DEFINE r == f.resource
           n == f.name
           u == f.subresource
           o == Object(f)
           S == {r, n, u}
<1>1. r \in S /\ n \in S /\ u \in S
    OBVIOUS
<1> HIDE DEF S
<1>a. /\ <<r>> \in Seq(S) /\ <<n>> \in Seq(S)
      /\ Maybe(n) \in Seq(S) /\ Maybe(u) \in Seq(S)
    BY <1>1, PartsAre
<1>2. o = <<r>> \o (Maybe(n) \o Maybe(u)) /\ o # <<>> /\ o[1] = r
  <2>1. o = <<r>> \o Maybe(n) \o Maybe(u)
      BY DEF Object
  <2>2. Maybe(n) \o Maybe(u) \in Seq(S)
      BY <1>a, ConcatProperties
  <2> HIDE DEF r, n, u, o
  <2>3. o = <<r>> \o (Maybe(n) \o Maybe(u))
      BY <2>1, <1>a, ConcatAssociative
  <2>4. QED
      BY <1>1, <2>2, <2>3, InFront
<1>3. Lacks(n) => Lacks(u)
    OBVIOUS
<1> HIDE DEF S, r, n, u, o
<1> DEFINE Goal ==
             /\ o # <<>> /\ o[1] = r /\ Len(o) \in 1..3 /\ NameOf(o) = n
             /\ SubresourceOf(o) = u
             /\ Len(o) = 1 => Lacks(n)
             /\ Len(o) # 1 => o[2] = n
             /\ Len(o) = 3 => ~Lacks(u) /\ o[3] = u
<1>4. ASSUME Lacks(n), Lacks(u) PROVE Goal
  <2>1. Maybe(n) = <<>> /\ Maybe(n) \o Maybe(u) = Maybe(u) /\ Maybe(u) = <<>>
      BY <1>a, <1>4, MaybeLacks, ConcatEmptySeq
  <2>2. Len(o) = 1
      BY <1>1, <1>2, <2>1, Shapes
  <2>3. NameOf(o) = n /\ SubresourceOf(o) = u
      BY <1>4, <2>2, Lengths, AllLacked
  <2>4. QED
      BY <1>2, <1>4, <2>2, <2>3
<1>5. ASSUME ~Lacks(n), Lacks(u) PROVE Goal
  <2>1. Maybe(n) = <<n>> /\ Maybe(n) \o Maybe(u) = Maybe(n)
      BY <1>a, <1>5, MaybeLacks, ConcatEmptySeq
  <2>2. Len(o) = 2 /\ o[2] = n
      BY <1>1, <1>2, <2>1, Shapes
  <2>3. NameOf(o) = n /\ SubresourceOf(o) = u
      BY <1>5, <2>2, Lengths, AllLacked
  <2>4. QED
      BY <1>2, <1>5, <2>2, <2>3
<1>6. ASSUME ~Lacks(n), ~Lacks(u) PROVE Goal
  <2>1. Maybe(n) = <<n>> /\ Maybe(u) = <<u>>
      BY <1>6, MaybeLacks
  <2>2. Len(o) = 3 /\ o[2] = n /\ o[3] = u
      BY <1>1, <1>2, <2>1, Shapes
  <2>3. NameOf(o) = n /\ SubresourceOf(o) = u
      BY <2>2, Lengths
  <2>4. QED
      BY <1>2, <1>6, <2>2, <2>3
<1>7. Goal
    BY <1>3, <1>4, <1>5, <1>6
<1>8. QED
    BY <1>7 DEF r, n, u, o

(***************************************************************************)
(* The parser, from the resource outwards to the prefix.                   *)
(***************************************************************************)

(* What IsForm says, in the words of the proofs.                           *)
LEMMA FormFacts ==
    ASSUME NEW f, IsForm(f)
    PROVE  /\ f.prefix \in GrouplessAPIPrefixes <=> Lacks(f.group)
           /\ Lacks(f.name) => Lacks(f.subresource)
           /\ ~Lacks(f.subresource) => f.special # "proxy"
           /\ f.resource = "namespaces" =>
                 /\ Lacks(f.namespace)
                 /\ ~Lacks(f.subresource) => f.subresource \in namespaceSubresources
           /\ Lacks(f.cluster) =>
                 (IF Lacks(f.group) THEN f.version ELSE f.group) # "clusters"
           /\ Lacks(f.workspace) /\ Lacks(f.namespace) =>
                 /\ f.resource # "workspaces"
                 /\ Lacks(f.special) => f.resource \notin specialVerbs
           /\ Lacks(f.namespace) => f.resource # "devops"
           /\ ~Lacks(f.namespace) => f.resource \notin namespaceSubresources
<1>1. f.prefix \in GrouplessAPIPrefixes <=> Lacks(f.group)
    BY Zenon DEF IsForm, Lacks
<1>2. Lacks(f.name) => Lacks(f.subresource)
    BY Zenon DEF IsForm, Lacks
<1>3. ~Lacks(f.subresource) => f.special # "proxy"
    BY Zenon DEF IsForm, Lacks
<1>4. f.resource = "namespaces" =>
         /\ Lacks(f.namespace)
         /\ ~Lacks(f.subresource) => f.subresource \in namespaceSubresources
    BY Zenon DEF IsForm, Lacks
<1>5. Lacks(f.cluster) => (IF Lacks(f.group) THEN f.version ELSE f.group) # "clusters"
    BY Zenon DEF IsForm, IsUnmistakable, Lacks
<1>6. Lacks(f.workspace) /\ Lacks(f.namespace) =>
         f.resource # "workspaces" /\ (Lacks(f.special) => f.resource \notin specialVerbs)
    BY Zenon DEF IsForm, IsUnmistakable, Lacks
<1>7. IF Lacks(f.namespace) THEN f.resource # "devops"
      ELSE f.resource \notin namespaceSubresources
    BY Zenon DEF IsForm, IsUnmistakable, Lacks
<1>8. QED
    BY <1>1, <1>2, <1>3, <1>4, <1>5, <1>6, <1>7, Zenon

(* The namespace of a request, and the first of the rest it is read from.  *)
NamespaceOf(f) == IF f.resource = "namespaces" THEN f.name ELSE f.namespace

(* The namespace: a project, the namespace that is itself the object, or   *)
(* none; no DevOps project is taken for one.                               *)
LEMMA PlacedRead ==
    ASSUME NEW f, IsForm(f)
    PROVE  /\ Placed(f) # <<>>
           /\ Placed(f)[1] = IF Lacks(f.namespace) THEN f.resource ELSE "namespaces"
           /\ ResourcePart(Placed(f)) = Object(f)
           /\ ValueOf(Placed(f), "namespaces") = NamespaceOf(f)
           /\ Lacks(ValueOf(Placed(f), "devops"))
<1> DEFINE S    == Segments(f)
           t    == Placed(f)
           o    == Object(f)
           key  == "namespaces"
           dev  == "devops"
           ns   == f.namespace
           res  == f.resource
           name == f.name
           sub  == f.subresource
<1>1. /\ o \in Seq(S) /\ key \in S /\ ns \in S /\ t = Segment(key, ns) \o o
      /\ key # dev
  <2>1. o \in Seq(S)
      BY RestsOfForm
  <2>2. key \in S /\ ns \in S
      BY DEF Segments
  <2>3. QED
      BY <2>1, <2>2 DEF Placed
<1>2. /\ o # <<>> /\ o[1] = res /\ Len(o) \in 1..3
      /\ Len(o) = 1 => Lacks(name)
      /\ Len(o) # 1 => o[2] = name
      /\ Len(o) = 3 => ~Lacks(sub) /\ o[3] = sub
    BY FormFacts, ObjectRead
<1>3. /\ res = key => Lacks(ns) /\ (~Lacks(sub) => sub \in namespaceSubresources)
      /\ Lacks(ns) => res # dev
      /\ ~Lacks(ns) => res \notin namespaceSubresources
    BY FormFacts
<1>4. NamespaceOf(f) = IF res = key THEN name ELSE ns
    BY DEF NamespaceOf
<1>5. /\ Lacks(ns) => t = o
      /\ ~Lacks(ns) => t = <<key, ns>> \o o
  <2>1. IF Lacks(ns) THEN Segment(key, ns) = <<>> ELSE Segment(key, ns) = <<key, ns>>
      BY Zenon DEF Segment, Lacks
  <2> HIDE DEF S, t, o, key, ns
  <2>2. <<>> \o o = o
      BY <1>1, ConcatEmptySeq
  <2>3. QED
      BY <1>1, <2>1, <2>2
<1>6. \A s : s[1] # dev => Lacks(ValueOf(s, dev)) /\ Behind(s, dev) = s
  <2> HIDE DEF dev
  <2>1. \A s : s[1] # dev => ValueOf(s, dev) = "" /\ Behind(s, dev) = s
      BY Zenon DEF ValueOf, Behind
  <2>2. QED
      BY <2>1, Zenon DEF Lacks
<1>7. \A s : ResourcePart(s) =
         IF s[1] = key
         THEN IF Len(s) > 2 /\ s[3] \notin namespaceSubresources THEN From(s, 3) ELSE s
         ELSE Behind(s, dev)
    BY DEF ResourcePart
<1>8. \A s : IF s[1] = key /\ Len(s) > 1 THEN ValueOf(s, key) = s[2]
             ELSE Lacks(ValueOf(s, key))
    BY Zenon DEF ValueOf, Lacks
<1> HIDE DEF S, t, o, key, dev, ns, res, name, sub
<1> DEFINE Goal ==
             /\ t # <<>>
             /\ t[1] = IF Lacks(ns) THEN res ELSE key
             /\ ResourcePart(t) = o
             /\ ValueOf(t, key) = NamespaceOf(f)
             /\ Lacks(ValueOf(t, dev))
<1>9. ASSUME ~Lacks(ns) PROVE Goal
  <2>1. t = <<key, ns>> \o o
      BY <1>5, <1>9
  <2>2. /\ t \in Seq(S) /\ Len(t) > 2 /\ Len(t) = Len(o) + 2
        /\ t[1] = key /\ t[2] = ns /\ t[3] = o[1] /\ From(t, 3) = o
      BY <1>1, <1>2, <2>1, PairInFront
  <2>3. Len(t) > 1 /\ t # <<>>
      BY <2>2
  <2>4. ResourcePart(t) = o
      BY <1>2, <1>3, <1>7, <1>9, <2>2
  <2>5. ValueOf(t, key) = NamespaceOf(f)
      BY <1>3, <1>4, <1>8, <1>9, <2>2, <2>3
  <2>6. Lacks(ValueOf(t, dev))
      BY <1>1, <1>6, <2>2
  <2>7. QED
      BY <1>9, <2>2, <2>3, <2>4, <2>5, <2>6
<1>10. ASSUME Lacks(ns), res # key PROVE Goal
  <2>1. t = o /\ t[1] = res /\ t[1] # key /\ t[1] # dev
      BY <1>2, <1>3, <1>5, <1>10
  <2>2. ResourcePart(t) = o /\ Lacks(ValueOf(t, dev))
      BY <1>6, <1>7, <2>1
  <2>3. Lacks(ValueOf(t, key))
      BY <1>8, <2>1
  <2>4. ValueOf(t, key) = NamespaceOf(f)
      BY <1>4, <1>10, <2>3, AllLacked
  <2>5. QED
      BY <1>2, <1>10, <2>1, <2>2, <2>4
<1>11. ASSUME Lacks(ns), res = key PROVE Goal
  <2>1. t = o /\ t[1] = key
      BY <1>2, <1>5, <1>11
  <2>2. Len(t) > 2 => t[3] \in namespaceSubresources
      BY <1>2, <1>3, <1>11, <2>1
  <2>3. ResourcePart(t) = o
      BY <1>7, <2>1, <2>2
  <2>4. Lacks(ValueOf(t, dev))
      BY <1>1, <1>6, <2>1
  <2>5. ValueOf(t, key) = name
    <3>1. CASE Len(t) = 1
      <4>1. ~(Len(t) > 1) /\ Lacks(name)
          BY <1>2, <2>1, <3>1
      <4>2. QED
          BY <1>8, <4>1, AllLacked
    <3>2. CASE Len(t) # 1
      <4>1. Len(t) > 1 /\ t[2] = name
          BY <1>2, <2>1, <3>2
      <4>2. QED
          BY <1>8, <2>1, <4>1
    <3>3. QED
        BY <3>1, <3>2
  <2>6. QED
      BY <1>2, <1>4, <1>11, <2>1, <2>3, <2>4, <2>5
<1>12. Goal
    BY <1>9, <1>10, <1>11
<1>13. QED
    BY <1>12 DEF t, o, key, dev, ns, res

(* The length of a sequence.                                               *)
LEMMA AnyLength ==
    ASSUME NEW S, NEW s \in Seq(S)
    PROVE  Len(s) \in Nat /\ (s # <<>> => Len(s) >= 1)
<1>1. Len(s) \in Nat /\ (s # <<>> => Len(s) # 0)
    OBVIOUS
<1>2. \A n \in Nat : n # 0 => n >= 1
    OBVIOUS
<1>3. QED
    BY <1>1, <1>2

(* The workspace.                                                          *)
LEMMA ScopedRead ==
    ASSUME NEW f, IsForm(f)
    PROVE  /\ Scoped(f) # <<>>
           /\ ValueOf(Scoped(f), "workspaces") = f.workspace
           /\ Behind(Scoped(f), "workspaces") = Placed(f)
           /\ Lacks(f.special) => Scoped(f)[1] \notin specialVerbs
<1> DEFINE S   == Segments(f)
           t   == Scoped(f)
           p   == Placed(f)
           key == "workspaces"
           nss == "namespaces"
           ws  == f.workspace
           ns  == f.namespace
<1>1. /\ p \in Seq(S) /\ key \in S /\ ws \in S /\ t = Segment(key, ws) \o p
  <2>1. p \in Seq(S)
      BY RestsOfForm
  <2>2. key \in S /\ ws \in S
      BY DEF Segments
  <2>3. QED
      BY <2>1, <2>2 DEF Scoped
<1>2. p # <<>> /\ p[1] = IF Lacks(ns) THEN f.resource ELSE nss
    BY PlacedRead
<1>3. Lacks(ws) /\ Lacks(ns) =>
         f.resource # key /\ (Lacks(f.special) => f.resource \notin specialVerbs)
    BY FormFacts
<1>4. key # nss /\ key \notin specialVerbs /\ nss \notin specialVerbs
    BY DEF specialVerbs
<1> HIDE DEF S, t, p, key, nss, ws, ns
<1>5. Lacks(ws) => p[1] # key
    BY <1>2, <1>3, <1>4
<1>6. /\ ValueOf(t, key) = ws /\ Behind(t, key) = p /\ t # <<>>
      /\ t[1] = IF Lacks(ws) THEN p[1] ELSE key
    BY <1>1, <1>2, <1>5, Taken
<1>7. Lacks(f.special) => t[1] \notin specialVerbs
    BY <1>2, <1>3, <1>4, <1>6
<1>8. QED
    BY <1>6, <1>7 DEF t, p, key, ws

(* The special verb in front of a watch or a proxy.                        *)
LEMMA MarkedRead ==
    ASSUME NEW f, IsForm(f), Lacks(f.special) \/ f.special \in specialVerbs
    PROVE  /\ Marked(f) # <<>>
           /\ IsSpecial(Marked(f)) <=> ~Lacks(f.special)
           /\ Lacks(f.special) => Marked(f) = Scoped(f)
           /\ ~Lacks(f.special) => Marked(f)[1] = f.special /\ Tail(Marked(f)) = Scoped(f)
           /\ ~TooShort(Marked(f))
<1> DEFINE S  == Segments(f)
           t  == Marked(f)
           s  == Scoped(f)
           sp == f.special
<1>1. s \in Seq(S) /\ sp \in S /\ t = Maybe(sp) \o s
  <2>1. s \in Seq(S)
      BY RestsOfForm
  <2>2. sp \in S
      BY DEF Segments
  <2>3. QED
      BY <2>1, <2>2 DEF Marked
<1>2. s # <<>> /\ (Lacks(sp) => s[1] \notin specialVerbs)
    BY ScopedRead
<1>3. Lacks(sp) \/ sp \in specialVerbs
    OBVIOUS
<1> HIDE DEF S, t, s, sp
<1>4. /\ t # <<>> /\ t[1] = IF Lacks(sp) THEN s[1] ELSE sp
      /\ Lacks(sp) => t = s
      /\ ~Lacks(sp) => Tail(t) = s /\ Len(t) = Len(s) + 1
    BY <1>1, <1>2, MaybeInFront
<1>5. IsSpecial(t) <=> ~Lacks(sp)
    BY <1>2, <1>3, <1>4 DEF IsSpecial
<1>6. ~TooShort(t)
  <2>1. CASE Lacks(sp)
      BY <1>5, <2>1 DEF TooShort
  <2>2. CASE ~Lacks(sp)
    <3>1. Len(s) \in Nat /\ Len(s) >= 1
        BY <1>1, <1>2, AnyLength
    <3>2. ~(Len(t) < 2)
        BY <1>4, <2>2, <3>1
    <3>3. QED
        BY <3>2 DEF TooShort
  <2>3. QED
      BY <2>1, <2>2
<1>7. QED
    BY <1>4, <1>5, <1>6 DEF t, s, sp

(* The version and the group.                                              *)
LEMMA GroupedRead ==
    ASSUME NEW f, IsForm(f), Lacks(f.special) \/ f.special \in specialVerbs
    PROVE  /\ Versioned(f)[1] = f.version /\ Tail(Versioned(f)) = Marked(f)
           /\ Lacks(f.group) => Grouped(f) = Versioned(f)
           /\ ~Lacks(f.group) =>
                 /\ Grouped(f)[1] = f.group /\ Tail(Grouped(f)) = Versioned(f)
                 /\ ~(Len(Grouped(f)) < 3)
           /\ Len(Grouped(f)) >= 2
           /\ Grouped(f)[1] = IF Lacks(f.group) THEN f.version ELSE f.group
           /\ Grouped(f) # <<>>
<1> DEFINE S == Segments(f)
           m == Marked(f)
           v == Versioned(f)
           t == Grouped(f)
           g == f.group
           e == f.version
<1>1. m \in Seq(S) /\ v \in Seq(S) /\ g \in S /\ e \in S /\ v = <<e>> \o m
      /\ t = Maybe(g) \o v
  <2>1. m \in Seq(S) /\ v \in Seq(S)
      BY RestsOfForm
  <2>2. g \in S /\ e \in S
      BY DEF Segments
  <2>3. v = <<e>> \o m /\ t = Maybe(g) \o v
      BY DEF Versioned, Grouped
  <2>4. QED
      BY <2>1, <2>2, <2>3
<1>2. m # <<>>
    BY MarkedRead
<1> HIDE DEF S, m, v, t, g, e
<1>3. v # <<>> /\ v[1] = e /\ Tail(v) = m /\ Len(v) = Len(m) + 1
    BY <1>1, InFront
<1>4. Len(m) \in Nat /\ Len(m) >= 1
    BY <1>1, <1>2, AnyLength
<1>5. /\ t # <<>> /\ t[1] = IF Lacks(g) THEN v[1] ELSE g
      /\ Lacks(g) => t = v
      /\ ~Lacks(g) => Tail(t) = v /\ Len(t) = Len(v) + 1
    BY <1>1, <1>3, MaybeInFront
<1>6. ASSUME NEW n \in Nat, n >= 1 PROVE n + 1 >= 2 /\ (n + 1) + 1 >= 2 /\ ~((n + 1) + 1 < 3)
    BY <1>6
<1>7. Len(t) >= 2 /\ (~Lacks(g) => ~(Len(t) < 3))
    BY <1>3, <1>4, <1>5, <1>6
<1>8. QED
    BY <1>3, <1>5, <1>7 DEF m, v, t, g, e

(* The cluster and the prefix.                                             *)
LEMMA ClusteredRead ==
    ASSUME NEW f, IsForm(f), Lacks(f.special) \/ f.special \in specialVerbs
    PROVE  /\ ValueOf(Clustered(f), "clusters") = f.cluster
           /\ Behind(Clustered(f), "clusters") = Grouped(f)
           /\ URL(f)[1] = f.prefix /\ Tail(URL(f)) = Clustered(f) /\ Len(URL(f)) >= 3
<1> DEFINE S   == Segments(f)
           g   == Grouped(f)
           t   == Clustered(f)
           key == "clusters"
           c   == f.cluster
           p   == f.prefix
<1>1. /\ g \in Seq(S) /\ t \in Seq(S) /\ key \in S /\ c \in S /\ p \in S
      /\ t = Segment(key, c) \o g /\ URL(f) = <<p>> \o t
  <2>1. g \in Seq(S) /\ t \in Seq(S)
      BY RestsOfForm
  <2>2. key \in S /\ c \in S /\ p \in S
      BY DEF Segments
  <2>3. t = Segment(key, c) \o g /\ URL(f) = <<p>> \o t
      BY URLBehindPrefix DEF Clustered
  <2>4. QED
      BY <2>1, <2>2, <2>3
<1>2. /\ g # <<>> /\ Len(g) >= 2
      /\ Lacks(c) => g[1] # key
    BY GroupedRead, FormFacts
<1> HIDE DEF S, g, t, key, c, p
<1>3. ValueOf(t, key) = c /\ Behind(t, key) = g /\ Len(t) >= Len(g)
    BY <1>1, <1>2, Taken
<1>4. URL(f)[1] = p /\ Tail(URL(f)) = t /\ Len(URL(f)) = Len(t) + 1
    BY <1>1, InFront
<1>5. Len(g) \in Nat /\ Len(t) \in Nat
    BY <1>1, AnyLength
<1>6. ASSUME NEW k \in Nat, NEW l \in Nat, k >= 2, l >= k PROVE l + 1 >= 3
    BY <1>6
<1>7. Len(URL(f)) >= 3
    BY <1>2, <1>3, <1>4, <1>5, <1>6
<1>8. QED
    BY <1>3, <1>4, <1>7 DEF t, g, key, c, p

(* NewRequestInfo takes the URL of a form apart into its parts.            *)
LEMMA URLRead ==
    ASSUME NEW f, IsForm(f), f.prefix \in APIPrefixes,
           Lacks(f.special) \/ f.special \in specialVerbs,
           NEW req, req.path = URL(f)
    PROVE  NewRequestInfo(req) =
              Understood(ResourceInfo(req, f.cluster, f.group, f.version, f.special,
                                      Scoped(f)))
<1> DEFINE parts     == Tail(req.path)
           groupless == req.path[1] \in GrouplessAPIPrefixes
           cluster   == ValueOf(parts, "clusters")
           inCluster == Behind(parts, "clusters")
           versioned == IF groupless THEN inCluster ELSE Tail(inCluster)
           rest      == Tail(versioned)
           unspecial == IF IsSpecial(rest) THEN Tail(rest) ELSE rest
           plain     == Understood(NonResource(req))
           clustered == Understood([NonResource(req) EXCEPT !.Cluster = cluster])
           group     == IF groupless THEN "" ELSE inCluster[1]
           special   == IF IsSpecial(rest) THEN rest[1] ELSE ""
           version   == versioned[1]
           resource  == Understood(
                           ResourceInfo(req, cluster, group, version, special, unspecial))
<1>1. NewRequestInfo(req) =
         IF APIPrefix(req.path) = "" THEN plain
         ELSE IF ~groupless /\ Len(inCluster) < 3 THEN clustered
         ELSE IF TooShort(rest) THEN Failed(req)
         ELSE IF unspecial = <<>> THEN Panicked(req)
         ELSE resource
    BY DEF NewRequestInfo
<1>2. parts = Clustered(f) /\ req.path[1] = f.prefix /\ Len(req.path) >= 3
    BY ClusteredRead
<1>3. cluster = f.cluster /\ inCluster = Grouped(f)
    BY <1>2, ClusteredRead
<1>4. groupless <=> Lacks(f.group)
    BY <1>2, FormFacts
<1>5. APIPrefix(req.path) # ""
  <2>1. APIPrefix(req.path) = f.prefix
      BY <1>2, Zenon DEF APIPrefix
  <2>2. "" \notin APIPrefixes
      BY DEF APIPrefixes
  <2>3. QED
      BY <2>1, <2>2
<1> HIDE DEF parts, groupless, cluster, inCluster, plain, clustered
<1>6. versioned = Versioned(f) /\ ~(~groupless /\ Len(inCluster) < 3)
    BY <1>3, <1>4, GroupedRead
<1>7. group = f.group
  <2>1. CASE Lacks(f.group)
      BY <1>4, <2>1 DEF Lacks
  <2>2. CASE ~Lacks(f.group)
      BY <1>3, <1>4, <2>2, GroupedRead
  <2>3. QED
      BY <2>1, <2>2
<1> HIDE DEF versioned, group
<1>8. version = f.version /\ rest = Marked(f)
    BY <1>6, GroupedRead
<1> HIDE DEF version, rest
<1>9. unspecial = Scoped(f) /\ ~TooShort(rest)
    BY <1>8, MarkedRead
<1>10. special = f.special
  <2>1. CASE Lacks(f.special)
    <3>1. ~IsSpecial(rest)
        BY <1>8, <2>1, MarkedRead
    <3>2. QED
        BY <2>1, <3>1 DEF Lacks
  <2>2. CASE ~Lacks(f.special)
      BY <1>8, <2>2, MarkedRead
  <2>3. QED
      BY <2>1, <2>2
<1> HIDE DEF unspecial, special
<1>11. unspecial # <<>>
    BY <1>9, ScopedRead
<1> DEFINE read == Understood(ResourceInfo(req, f.cluster, f.group, f.version, f.special,
                                           Scoped(f)))
<1>12. resource = read
    BY <1>3, <1>7, <1>8, <1>9, <1>10
<1> HIDE DEF resource, read
<1>13. NewRequestInfo(req) = resource
    BY <1>1, <1>5, <1>6, <1>9, <1>11
<1>14. QED
    BY <1>12, <1>13 DEF read

(***************************************************************************)
(* What is told of the parts: the fields of the request info.              *)
(***************************************************************************)

(* What is said of a request to a resource, field by field.                *)
Info(kubernetes, cluster, group, version, workspace, namespace, devops, resource,
     subresource, name, verb, scope) ==
    [IsKubernetesRequest |-> kubernetes, IsResourceRequest |-> TRUE, Cluster |-> cluster,
     APIGroup |-> group, APIVersion |-> version, Workspace |-> workspace,
     Namespace |-> namespace, DevOps |-> devops, Resource |-> resource,
     Subresource |-> subresource, Name |-> name, Verb |-> verb, ResourceScope |-> scope]

(* The verb before and after it is known whether there is a name, and the  *)
(* name.                                                                   *)
FirstVerb(special, method) == IF special # "" THEN special ELSE VerbOf(method)
WantsAll(name, verb) == name = "" /\ verb = "get"
NextVerb(name, verb, options) ==
    IF ~WantsAll(name, verb) THEN verb ELSE IF options.watch THEN "watch" ELSE "list"
NextName(name, verb, options) == IF WantsAll(name, verb) THEN SelectedName(options) ELSE name
LastVerb(name, verb) == IF name = "" /\ verb = "delete" THEN "deletecollection" ELSE verb

Told(f, req) ==
    LET verb == FirstVerb(f.special, req.method)
        name == NextName(f.name, verb, req.options)
    IN  Info(IsKubernetesRequest(req.path), f.cluster, f.group, f.version, f.workspace,
             NamespaceOf(f), "", f.resource, f.subresource, name,
             LastVerb(name, NextVerb(f.name, verb, req.options)),
             resolveResourceScope(NamespaceOf(f), "", f.workspace))

(* A watch selects a workspace by its options only.                        *)
LEMMA NoSelector ==
    ASSUME NEW verb, NEW workspace, Lacks(workspace)
    PROVE  ~(verb = "watch" /\ workspace # "")
BY DEF Lacks

(* A request without a selector of a workspace is told by its URL.         *)
LEMMA ResourceTold ==
    ASSUME NEW f, IsForm(f), f.prefix \in APIPrefixes,
           Lacks(f.special) \/ f.special \in specialVerbs,
           NEW req, Lacks(req.options.workspace)
    PROVE  ResourceInfo(req, f.cluster, f.group, f.version, f.special, Scoped(f))
              = Told(f, req)
<1> DEFINE rest  == Scoped(f)
           tail  == Behind(rest, "workspaces")
           Parts == IF tail[1] = "namespaces"
                    THEN IF Len(tail) > 2 /\ tail[3] \notin namespaceSubresources
                         THEN From(tail, 3) ELSE tail
                    ELSE Behind(tail, "devops")
           verb  == IF f.special # "" THEN f.special ELSE VerbOf(req.method)
           named == IF Len(Parts) >= 2 THEN Parts[2] ELSE ""
           all   == named = "" /\ verb = "get"
           verb2 == IF ~all THEN verb ELSE IF req.options.watch THEN "watch" ELSE "list"
           name  == IF all THEN SelectedName(req.options) ELSE named
           bySelector == verb2 = "watch" /\ req.options.workspace # ""
           workspace  == ValueOf(rest, "workspaces")
           namespace  == ValueOf(tail, "namespaces")
           devops     == ValueOf(tail, "devops")
           kube       == IsKubernetesRequest(req.path)
           told       == IF bySelector THEN req.options.workspace ELSE workspace
           sub        == IF Len(Parts) >= 3 /\ verb # "proxy" THEN Parts[3] ELSE ""
           last       == IF name = "" /\ verb2 = "delete" THEN "deletecollection" ELSE verb2
           scope      == IF bySelector THEN "Workspace"
                         ELSE resolveResourceScope(namespace, devops, workspace)
<1>1. ResourceInfo(req, f.cluster, f.group, f.version, f.special, rest)
         = Info(kube, f.cluster, f.group, f.version, told, namespace, devops, Parts[1],
                sub, name, last, scope)
    BY DEF ResourceInfo, Info
<1>2. workspace = f.workspace /\ tail = Placed(f)
    BY ScopedRead
<1>3. Parts = ResourcePart(tail)
    BY DEF ResourcePart
<1>4. Parts = Object(f) /\ namespace = NamespaceOf(f) /\ Lacks(devops)
  <2> HIDE DEF tail, Parts
  <2>1. QED
      BY <1>2, <1>3, PlacedRead
<1>5. named = NameOf(Parts) /\ sub = IF verb # "proxy" THEN SubresourceOf(Parts) ELSE ""
  <2>1. named = NameOf(Parts)
      BY DEF NameOf
  <2> HIDE DEF Parts, verb
  <2>2. sub = IF verb # "proxy" THEN SubresourceOf(Parts) ELSE ""
      BY Zenon DEF SubresourceOf
  <2>3. QED
      BY <2>1, <2>2
<1>6. verb = FirstVerb(f.special, req.method)
    BY DEF FirstVerb
<1>7. ~bySelector
    BY NoSelector
<1> HIDE DEF rest, tail, Parts, bySelector, namespace, devops, workspace, verb
<1>8. devops = ""
    BY <1>4 DEF Lacks
<1>9. Parts[1] = f.resource /\ NameOf(Parts) = f.name /\ SubresourceOf(Parts) = f.subresource
    BY <1>4, FormFacts, ObjectRead
<1>10. told = f.workspace /\ scope = resolveResourceScope(NamespaceOf(f), "", f.workspace)
    BY <1>2, <1>4, <1>7, <1>8
<1>11. sub = f.subresource
  <2>1. CASE verb # "proxy"
      BY <1>5, <1>9, <2>1
  <2>2. CASE verb = "proxy"
    <3>1. f.special = "proxy"
      <4>1. VerbOf(req.method) # "proxy"
          BY DEF VerbOf
      <4>2. QED
          BY <1>6, <2>2, <4>1, Zenon DEF FirstVerb
    <3>2. Lacks(f.subresource)
        BY <3>1, FormFacts
    <3>3. QED
        BY <1>5, <2>2, <3>2 DEF Lacks
  <2>3. QED
      BY <2>1, <2>2
<1>12. named = f.name
    BY <1>5, <1>9
<1> HIDE DEF told, scope, sub, named
<1>13. all <=> WantsAll(f.name, verb)
    BY <1>12, Zenon DEF WantsAll
<1> HIDE DEF all
<1>14. name = NextName(f.name, verb, req.options)
    BY <1>12, <1>13, Zenon DEF NextName
<1>15. verb2 = NextVerb(f.name, verb, req.options)
    BY <1>13, Zenon DEF NextVerb
<1> HIDE DEF name, verb2
<1>16. last = LastVerb(name, verb2)
    BY Zenon DEF LastVerb
<1> HIDE DEF last, kube
<1>17. Info(kube, f.cluster, f.group, f.version, told, namespace, devops, Parts[1],
            sub, name, last, scope)
          = Info(kube, f.cluster, f.group, f.version, f.workspace, NamespaceOf(f), "",
                 f.resource, f.subresource, NextName(f.name, verb, req.options),
                 LastVerb(NextName(f.name, verb, req.options),
                          NextVerb(f.name, verb, req.options)),
                 resolveResourceScope(NamespaceOf(f), "", f.workspace))
    BY <1>4, <1>8, <1>9, <1>10, <1>11, <1>14, <1>15, <1>16
<1>18. QED
    BY <1>1, <1>6, <1>17, Zenon DEF Told, kube, rest

(* The prefix says whether a URL is one for Kubernetes.                    *)
LEMMA KubernetesByPrefix ==
    ASSUME NEW f, IsForm(f), f.prefix \in APIPrefixes,
           Lacks(f.special) \/ f.special \in specialVerbs
    PROVE  IsKubernetesRequest(URL(f)) <=> f.prefix \in kubernetesAPIPrefixes
<1> DEFINE path == URL(f)
<1>1. path[1] = f.prefix /\ Len(path) >= 3
    BY ClusteredRead
<1> HIDE DEF path
<1>2. APIPrefix(path) = f.prefix
    BY <1>1, Zenon DEF APIPrefix
<1>3. IsKubernetesRequest(path) <=> f.prefix \in kubernetesAPIPrefixes
    BY <1>1, <1>2, Zenon DEF IsKubernetesRequest
<1>4. QED
    BY <1>3 DEF path

(* What a form means, field by field.                                      *)
LEMMA MeaningIsInfo ==
    ASSUME NEW f, NEW method
    PROVE  LET verb == FirstVerb(f.special, method)
           IN  Meaning(f, method) =
                  Info(f.prefix \in kubernetesAPIPrefixes, f.cluster, f.group, f.version,
                       f.workspace, NamespaceOf(f), "", f.resource, f.subresource, f.name,
                       LastVerb(f.name, NextVerb(f.name, verb, NoOptions)),
                       resolveResourceScope(NamespaceOf(f), "", f.workspace))
<1> DEFINE verb   == FirstVerb(f.special, method)
           kube   == f.prefix \in kubernetesAPIPrefixes
           none   == ""
           name   == f.name
           ws     == f.workspace
           ns     == NamespaceOf(f)
           last   == CASE name = none /\ verb = "get"    -> "list"
                       [] name = none /\ verb = "delete" -> "deletecollection"
                       [] OTHER                          -> verb
           scope  == CASE ns # none  -> "Namespace"
                       [] ns = none /\ ws # none -> "Workspace"
                       [] OTHER      -> "Cluster"
<1>1. Meaning(f, method) =
         Info(kube, f.cluster, f.group, f.version, ws, ns, none, f.resource,
              f.subresource, name, last, scope)
    BY DEF Meaning, Info, NamespaceOf, FirstVerb
<1>2. scope = resolveResourceScope(ns, none, ws)
  <2> HIDE DEF ns, ws
  <2>1. QED
    BY DEF resolveResourceScope
<1>3. last = LastVerb(name, NextVerb(name, verb, NoOptions))
  <2> HIDE DEF name, verb
  <2>1. NoOptions.watch = FALSE
      BY DEF NoOptions
  <2>2. NextVerb(name, verb, NoOptions) = IF name = none /\ verb = "get" THEN "list" ELSE verb
      BY <2>1, Zenon DEF NextVerb, WantsAll
  <2>3. QED
    BY <2>2 DEF LastVerb
<1> HIDE DEF last, scope
<1>4. QED
    BY <1>1, <1>2, <1>3

(* Without options no name is selected.                                    *)
LEMMA NothingSelected == SelectedName(NoOptions) = ""
BY NoSegmentsAssumption DEF SelectedName, IsValidPathSegmentName, NoOptions

(* A URL of a documented form is read as what it means, for every form and *)
(* every method.                                                           *)
THEOREM URLIsUnderstood ==
    ASSUME NEW f \in Form, IsForm(f), NEW req, req.path = URL(f), req.options = NoOptions
    PROVE  NewRequestInfo(req) = Understood(Meaning(f, req.method))
<1>1. f.prefix \in APIPrefixes /\ (Lacks(f.special) \/ f.special \in specialVerbs)
    BY DEF Form, Lacks
<1>2. Lacks(req.options.workspace)
  <2>1. NoOptions.workspace = ""
      BY DEF NoOptions
  <2>2. Lacks(NoOptions.workspace)
      BY <2>1 DEF Lacks
  <2>3. QED
      BY <2>2
<1>3. NewRequestInfo(req) = Understood(Told(f, req))
    BY <1>1, <1>2, URLRead, ResourceTold
<1> DEFINE verb == FirstVerb(f.special, req.method)
<1>4. NextName(f.name, verb, NoOptions) = f.name
    BY NothingSelected, Zenon DEF NextName, WantsAll
<1> DEFINE kube  == IsKubernetesRequest(req.path)
           last  == LastVerb(f.name, NextVerb(f.name, verb, NoOptions))
           scope == resolveResourceScope(NamespaceOf(f), "", f.workspace)
<1>5. kube = (f.prefix \in kubernetesAPIPrefixes)
  <2>1. kube = TRUE \/ kube = FALSE
      BY DEF IsKubernetesRequest
  <2>2. IsKubernetesRequest(req.path) <=> f.prefix \in kubernetesAPIPrefixes
      BY <1>1, KubernetesByPrefix
  <2>3. CASE f.prefix \in kubernetesAPIPrefixes
      BY <2>1, <2>2, <2>3
  <2>4. CASE f.prefix \notin kubernetesAPIPrefixes
    <3>1. (f.prefix \in kubernetesAPIPrefixes) = FALSE
        BY <2>4
    <3>2. kube = FALSE
      <4> DEFINE told == kube
      <4>1. ~told /\ (told = TRUE \/ told = FALSE)
          BY <2>1, <2>2, <2>4
      <4> HIDE DEF told
      <4>2. told = FALSE
          BY <4>1
      <4>3. QED
          BY <4>2 DEF told
    <3>3. QED
        BY <3>1, <3>2
  <2>5. QED
      BY <2>3, <2>4
<1>6. Told(f, req) =
         Info(kube, f.cluster, f.group, f.version, f.workspace, NamespaceOf(f), "",
              f.resource, f.subresource, f.name, last, scope)
    BY <1>4 DEF Told
<1>7. Meaning(f, req.method) =
         Info(f.prefix \in kubernetesAPIPrefixes, f.cluster, f.group, f.version,
              f.workspace, NamespaceOf(f), "", f.resource, f.subresource, f.name, last,
              scope)
    BY MeaningIsInfo
<1> HIDE DEF kube, last, scope
<1>8. Told(f, req) = Meaning(f, req.method)
    BY <1>5, <1>6, <1>7
<1>9. QED
    BY <1>3, <1>8

(* The form of what a call of the typed client sends: the name and the     *)
(* subresource its path has.                                               *)
NameSent(c) == IF c.op \in Named THEN c.name ELSE ""
PartSent(c) == IF c.op = "UpdateStatus" THEN "status" ELSE c.subresource

FormOf(c) ==
    [prefix |-> "apis", cluster |-> "", group |-> "schedule.kubesphere.io",
     version |-> "v1alpha1", special |-> "", workspace |-> "", namespace |-> c.ns,
     resource |-> "analysistasks", name |-> NameSent(c), subresource |-> PartSent(c)]

(* What a call sends has the URL of a documented form.                     *)
LEMMA FormOfCall ==
    ASSUME NEW c \in Call, IsCall(c)
    PROVE  IsForm(FormOf(c))
<1>1. c.op \in Ops
    BY DEF Call
<1>2. PartSent(c) # "" => NameSent(c) # ""
    BY <1>1, Zenon DEF IsCall, PartSent, NameSent, Named
<1>3. IsUnmistakable(FormOf(c))
    BY DEF IsUnmistakable, FormOf, specialVerbs, namespaceSubresources
<1>4. QED
    BY <1>2, <1>3 DEF IsForm, FormOf, GrouplessAPIPrefixes

(* The path in front of the namespace.                                     *)
LEMMA Root3 ==
    ASSUME NEW S, NEW a \in S, NEW g \in S, NEW v \in S
    PROVE  <<a>> \o <<>> \o <<g>> \o <<v>> \o <<>> \o <<>> = <<a, g, v>>
<1> DEFINE t == <<g>> \o <<v>>
           r == <<a>> \o t
           l == <<a, g, v>>
<1>1. /\ <<a>> \in Seq(S) /\ <<g>> \in Seq(S) /\ <<v>> \in Seq(S)
      /\ Len(<<v>>) = 1 /\ <<v>>[1] = v
    OBVIOUS
<1>2. l \in Seq(S) /\ Len(l) = 3 /\ l[1] = a /\ l[2] = g /\ l[3] = v
    OBVIOUS
<1>3. t \in Seq(S) /\ Len(t) = 2 /\ t[1] = g /\ t[1 + 1] = v
    BY <1>1, InFront
<1> HIDE DEF t
<1>4. t \in Seq(S)
    BY <1>3
<1>5. r \in Seq(S) /\ Len(r) = Len(t) + 1 /\ r[1] = a
    BY <1>4, InFront
<1>6. \A i \in 1..Len(t) : r[i + 1] = t[i]
    BY <1>4, InFront
<1> HIDE DEF r, l
<1>7. 1 \in 1..Len(t) /\ 2 \in 1..Len(t)
    BY <1>3
<1>8. Len(r) = 3 /\ r[1] = a /\ r[1 + 1] = t[1] /\ r[2 + 1] = t[2]
    BY <1>3, <1>5, <1>6, <1>7
<1>9. r = l
  <2>1. Len(r) = Len(l) /\ \A i \in 1..Len(r) : r[i] = l[i]
      BY <1>2, <1>3, <1>8
  <2>2. QED
      BY <1>2, <1>5, <2>1, SeqEqual
<1>10. <<a>> \o <<g>> \o <<v>> = r
    BY <1>1, ConcatAssociative DEF r, t
<1>11. <<a>> \o <<>> = <<a>>
    BY <1>1, ConcatEmptySeq
<1>12. r \o <<>> = r
    BY <1>5, ConcatEmptySeq
<1>13. QED
    BY <1>9, <1>10, <1>11, <1>12 DEF l

LEMMA PathOfForm ==
    ASSUME NEW c
    PROVE  URL(FormOf(c)) = PathTo(c.ns, NameSent(c), PartSent(c))
<1> DEFINE f == FormOf(c)
           a == "apis"
           g == "schedule.kubesphere.io"
           v == "v1alpha1"
<1>1. /\ f.prefix = a /\ f.group = g /\ f.version = v /\ f.cluster = "" /\ f.special = ""
      /\ f.workspace = "" /\ f.namespace = c.ns /\ f.resource = "analysistasks"
      /\ f.name = NameSent(c) /\ f.subresource = PartSent(c)
    BY DEF FormOf
<1>2. /\ Segment("clusters", "") = <<>> /\ Segment("workspaces", "") = <<>>
      /\ Maybe("") = <<>> /\ Maybe(g) = <<g>>
    BY DEF Segment, Maybe
<1> HIDE DEF f
<1>3. URL(f) = <<a>> \o <<>> \o <<g>> \o <<v>> \o <<>> \o <<>>
                  \o Segment("namespaces", c.ns) \o <<"analysistasks">>
                  \o Maybe(NameSent(c)) \o Maybe(PartSent(c))
    BY <1>1, <1>2 DEF URL
<1>4. <<a>> \o <<>> \o <<g>> \o <<v>> \o <<>> \o <<>> = <<a, g, v>>
  <2>1. a \in {a, g, v} /\ g \in {a, g, v} /\ v \in {a, g, v}
      OBVIOUS
  <2> HIDE DEF a, g, v
  <2>2. QED
      BY <2>1, Root3
<1>5. QED
    BY <1>3, <1>4 DEF PathTo, setConfigDefaults, f

(***************************************************************************)
(* The calls of the typed client.                                          *)
(***************************************************************************)

(* The verbs.                                                              *)
LEMMA Verbs ==
    /\ VerbOf("GET") = "get" /\ VerbOf("POST") = "create" /\ VerbOf("PUT") = "update"
    /\ VerbOf("PATCH") = "patch" /\ VerbOf("DELETE") = "delete"
BY DEF VerbOf

(* What has a name keeps its verb; without a name, a get asks for all and  *)
(* a delete is one of all.                                                 *)
LEMMA NamedVerbs ==
    ASSUME NEW name, name # "", NEW verb, NEW options
    PROVE  /\ NextName(name, verb, options) = name
           /\ LastVerb(name, NextVerb(name, verb, options)) = verb
BY Zenon DEF NextName, NextVerb, LastVerb, WantsAll

LEMMA UnnamedVerbs ==
    ASSUME NEW options
    PROVE  /\ NextName("", "get", options) = SelectedName(options)
           /\ options.watch => NextVerb("", "get", options) = "watch"
           /\ ~options.watch => NextVerb("", "get", options) = "list"
           /\ \A name : LastVerb(name, "watch") = "watch" /\ LastVerb(name, "list") = "list"
           /\ NextName("", "create", options) = "" /\ NextName("", "delete", options) = ""
           /\ LastVerb("", NextVerb("", "create", options)) = "create"
           /\ LastVerb("", NextVerb("", "delete", options)) = "deletecollection"
BY DEF NextName, NextVerb, LastVerb, WantsAll

(* The verb of a call.                                                     *)
CallVerb(c) ==
    CASE c.op = "Get"    -> "get"
      [] c.op = "List"   -> "list"
      [] c.op = "Watch"  -> "watch"
      [] c.op = "Create" -> "create"
      [] c.op \in {"Update", "UpdateStatus"} -> "update"
      [] c.op = "Delete" -> "delete"
      [] c.op = "DeleteCollection" -> "deletecollection"
      [] c.op = "Patch"  -> "patch"

(* What a call sends is a request for its form, which tells the name and   *)
(* the verb of the call.                                                   *)
SaysTheCall(c, r) ==
    LET verb == VerbOf(r.method)
        name == NextName(NameSent(c), verb, r.options)
    IN  /\ r.path = PathTo(c.ns, NameSent(c), PartSent(c))
        /\ r.options.workspace = ""
        /\ name = c.name
        /\ LastVerb(name, NextVerb(NameSent(c), verb, r.options)) = CallVerb(c)

(* A request by name.                                                      *)
LEMMA ByName ==
    ASSUME NEW c \in Call, IsCall(c), c.op \in Named, NEW method, NEW verb,
           VerbOf(method) = verb, verb = CallVerb(c), NEW sub, sub = PartSent(c)
    PROVE  SaysTheCall(c, Request(method, PathTo(c.ns, c.name, sub), NoOptions))
<1> DEFINE r == Request(method, PathTo(c.ns, c.name, sub), NoOptions)
<1>1. r.method = method /\ r.path = PathTo(c.ns, c.name, sub) /\ r.options = NoOptions
    BY DEF Request
<1>2. NoOptions.workspace = ""
    BY DEF NoOptions
<1>3. c.name # "" /\ NameSent(c) = c.name
    BY DEF IsCall, NameSent
<1>4. /\ NextName(c.name, verb, NoOptions) = c.name
      /\ LastVerb(c.name, NextVerb(c.name, verb, NoOptions)) = verb
    BY <1>3, NamedVerbs
<1> HIDE DEF r
<1>5. SaysTheCall(c, r)
    BY <1>1, <1>2, <1>3, <1>4 DEF SaysTheCall
<1>6. QED
    BY <1>5 DEF r

(* A request without one.                                                  *)
LEMMA ByCollection ==
    ASSUME NEW c \in Call, IsCall(c), c.op \in Ops \ Named, NEW method, NEW options,
           options.workspace = "", c.op \in Chosen => options.name = c.name,
           \/ c.op = "List" /\ method = "GET" /\ options.watch = FALSE
           \/ c.op = "Watch" /\ method = "GET" /\ options.watch = TRUE
           \/ c.op = "Create" /\ method = "POST"
           \/ c.op = "DeleteCollection" /\ method = "DELETE"
    PROVE  SaysTheCall(c, Request(method, PathTo(c.ns, "", ""), options))
<1> DEFINE r    == Request(method, PathTo(c.ns, "", ""), options)
           verb == VerbOf(method)
           name == NextName("", verb, options)
<1>0. IsValidPathSegmentName(c.name)
    BY DEF IsCall
<1>1. r.method = method /\ r.path = PathTo(c.ns, "", "") /\ r.options = options
    BY DEF Request
<1>2. NameSent(c) = "" /\ PartSent(c) = ""
    BY Zenon DEF IsCall, NameSent, PartSent, Named
<1>3. c.op \in {"Create", "DeleteCollection"} => c.name = ""
    BY DEF IsCall, Named, Chosen
<1>4. name = c.name /\ LastVerb(name, NextVerb("", verb, options)) = CallVerb(c)
  <2>1. CASE c.op = "List" /\ method = "GET" /\ options.watch = FALSE
    <3>1. verb = "get" /\ name = c.name
        BY <1>0, <2>1, Verbs, UnnamedVerbs DEF Chosen, SelectedName
    <3>2. NextVerb("", "get", options) = "list" /\ LastVerb(c.name, "list") = "list"
        BY <2>1, UnnamedVerbs
    <3>3. CallVerb(c) = "list"
        BY <2>1 DEF CallVerb
    <3>4. QED
        BY <3>1, <3>2, <3>3
  <2>2. CASE c.op = "Watch" /\ method = "GET" /\ options.watch = TRUE
    <3>1. verb = "get" /\ name = c.name
        BY <1>0, <2>2, Verbs, UnnamedVerbs DEF Chosen, SelectedName
    <3>2. NextVerb("", "get", options) = "watch" /\ LastVerb(c.name, "watch") = "watch"
        BY <2>2, UnnamedVerbs
    <3>3. CallVerb(c) = "watch"
        BY <2>2 DEF CallVerb
    <3>4. QED
        BY <3>1, <3>2, <3>3
  <2>3. CASE c.op = "Create" /\ method = "POST"
    <3>1. verb = "create" /\ c.name = "" /\ CallVerb(c) = "create"
        BY <1>3, <2>3, Verbs DEF CallVerb
    <3>2. QED
        BY <3>1, UnnamedVerbs
  <2>4. CASE c.op = "DeleteCollection" /\ method = "DELETE"
    <3>1. verb = "delete" /\ c.name = "" /\ CallVerb(c) = "deletecollection"
        BY <1>3, <2>4, Verbs DEF CallVerb
    <3>2. QED
        BY <3>1, UnnamedVerbs
  <2>5. QED
      BY <2>1, <2>2, <2>3, <2>4
<1>5. r.options.workspace = ""
    BY <1>1
<1> HIDE DEF r
<1>6. SaysTheCall(c, r)
    BY <1>1, <1>2, <1>4, <1>5 DEF SaysTheCall
<1>7. QED
    BY <1>6 DEF r

(* Every call of the client says what it is.                               *)
LEMMA SentSays == ASSUME NEW c \in Call, IsCall(c) PROVE SaysTheCall(c, Sent(c))
<1>1. c.op \in Ops
    BY DEF Call
<1>2. c.op # "Patch" => c.subresource = ""
    BY DEF IsCall
<1>3. CASE c.op = "Get"
  <2>1. Sent(c) = Request("GET", PathTo(c.ns, c.name, ""), NoOptions)
      BY <1>3 DEF Sent, Get
  <2>2. c.op \in Named /\ CallVerb(c) = "get" /\ PartSent(c) = ""
      BY <1>2, <1>3 DEF Named, CallVerb, PartSent
  <2>3. QED
      BY <2>1, <2>2, Verbs, ByName
<1>4. CASE c.op = "Update"
  <2>1. Sent(c) = Request("PUT", PathTo(c.ns, c.name, ""), NoOptions)
      BY <1>4 DEF Sent, Update
  <2>2. c.op \in Named /\ CallVerb(c) = "update" /\ PartSent(c) = ""
      BY <1>2, <1>4 DEF Named, CallVerb, PartSent
  <2>3. QED
      BY <2>1, <2>2, Verbs, ByName
<1>5. CASE c.op = "UpdateStatus"
  <2>1. Sent(c) = Request("PUT", PathTo(c.ns, c.name, "status"), NoOptions)
      BY <1>5 DEF Sent, UpdateStatus
  <2>2. c.op \in Named /\ CallVerb(c) = "update" /\ PartSent(c) = "status"
      BY <1>5 DEF Named, CallVerb, PartSent
  <2>3. QED
      BY <2>1, <2>2, Verbs, ByName
<1>6. CASE c.op = "Delete"
  <2>1. Sent(c) = Request("DELETE", PathTo(c.ns, c.name, ""), NoOptions)
      BY <1>6 DEF Sent, Delete
  <2>2. c.op \in Named /\ CallVerb(c) = "delete" /\ PartSent(c) = ""
      BY <1>2, <1>6 DEF Named, CallVerb, PartSent
  <2>3. QED
      BY <2>1, <2>2, Verbs, ByName
<1>7. CASE c.op = "Patch"
  <2>1. Sent(c) = Request("PATCH", PathTo(c.ns, c.name, c.subresource), NoOptions)
      BY <1>7 DEF Sent, Patch
  <2>2. c.op \in Named /\ CallVerb(c) = "patch" /\ PartSent(c) = c.subresource
      BY <1>7 DEF Named, CallVerb, PartSent
  <2>3. QED
      BY <2>1, <2>2, Verbs, ByName
<1> DEFINE one   == [NoOptions EXCEPT !.name = c.name]
           watch == [NoOptions EXCEPT !.name = c.name, !.watch = TRUE]
<1>8. /\ one.workspace = "" /\ one.name = c.name /\ one.watch = FALSE
      /\ watch.workspace = "" /\ watch.name = c.name /\ watch.watch = TRUE
    BY DEF NoOptions
<1>9. CASE c.op = "List"
  <2>1. Sent(c) = Request("GET", PathTo(c.ns, "", ""), one)
      BY <1>9 DEF Sent, List
  <2>2. c.op \in Ops \ Named
      BY <1>9 DEF Ops, Named
  <2> HIDE DEF one, watch
  <2>3. QED
      BY <1>8, <1>9, <2>1, <2>2, ByCollection
<1>10. CASE c.op = "Watch"
  <2>1. Sent(c) = Request("GET", PathTo(c.ns, "", ""), watch)
      BY <1>10 DEF Sent, Watch
  <2>2. c.op \in Ops \ Named
      BY <1>10 DEF Ops, Named
  <2> HIDE DEF one, watch
  <2>3. QED
      BY <1>8, <1>10, <2>1, <2>2, ByCollection
<1>11. CASE c.op = "DeleteCollection"
  <2>1. Sent(c) = Request("DELETE", PathTo(c.ns, "", ""), one)
      BY <1>11 DEF Sent, DeleteCollection
  <2>2. c.op \in Ops \ Named
      BY <1>11 DEF Ops, Named
  <2> HIDE DEF one, watch
  <2>3. QED
      BY <1>8, <1>11, <2>1, <2>2, ByCollection
<1>12. CASE c.op = "Create"
  <2>1. Sent(c) = Request("POST", PathTo(c.ns, "", ""), NoOptions)
      BY <1>12 DEF Sent, Create
  <2>2. c.op \in Ops \ Named /\ c.op \notin Chosen
      BY <1>12 DEF Ops, Named, Chosen
  <2>3. NoOptions.workspace = ""
      BY DEF NoOptions
  <2>4. QED
      BY <1>12, <2>1, <2>2, <2>3, ByCollection
<1>13. QED
    BY <1>1, <1>3, <1>4, <1>5, <1>6, <1>7, <1>9, <1>10, <1>11, <1>12 DEF Ops

(* What a call is about, field by field.                                   *)
LEMMA CallMeaningIsInfo ==
    ASSUME NEW c
    PROVE  CallMeaning(c) =
              Info(TRUE, "", "schedule.kubesphere.io", "v1alpha1", "", c.ns, "",
                   "analysistasks", PartSent(c), c.name, CallVerb(c),
                   resolveResourceScope(c.ns, "", ""))
<1> DEFINE scope == IF c.ns = "" THEN "Cluster" ELSE "Namespace"
<1>1. scope = resolveResourceScope(c.ns, "", "")
    BY DEF resolveResourceScope
<1>2. CallMeaning(c) =
         Info(TRUE, "", "schedule.kubesphere.io", "v1alpha1", "", c.ns, "",
              "analysistasks", PartSent(c), c.name, CallVerb(c), scope)
    BY DEF CallMeaning, Info, PartSent, CallVerb
<1> HIDE DEF scope
<1>3. QED
    BY <1>1, <1>2

(* A call of the typed client is read as what it is about, for every call. *)
THEOREM CallIsUnderstood ==
    ASSUME NEW c \in Call, IsCall(c),
           NEW req, req.path = Sent(c).path, req.method = Sent(c).method,
           req.options = Sent(c).options
    PROVE  NewRequestInfo(req) = Understood(CallMeaning(c))
<1> DEFINE f == FormOf(c)
<1>1. /\ f.prefix = "apis" /\ f.group = "schedule.kubesphere.io"
      /\ f.version = "v1alpha1" /\ f.cluster = "" /\ f.special = ""
      /\ f.workspace = "" /\ f.namespace = c.ns /\ f.resource = "analysistasks"
      /\ f.name = NameSent(c) /\ f.subresource = PartSent(c)
    BY DEF FormOf
<1>2. IsForm(f) /\ URL(f) = PathTo(c.ns, NameSent(c), PartSent(c))
    BY FormOfCall, PathOfForm
<1>3. SaysTheCall(c, Sent(c))
    BY SentSays
<1>4. f.prefix \in APIPrefixes /\ f.prefix \in kubernetesAPIPrefixes /\ Lacks(f.special)
    BY <1>1 DEF APIPrefixes, kubernetesAPIPrefixes, Lacks
<1> HIDE DEF f
<1> DEFINE verb == VerbOf(req.method)
           name == NextName(NameSent(c), verb, req.options)
<1>5. /\ req.path = URL(f) /\ Lacks(req.options.workspace) /\ name = c.name
      /\ LastVerb(name, NextVerb(NameSent(c), verb, req.options)) = CallVerb(c)
  <2>1. req.path = URL(f)
      BY <1>2, <1>3 DEF SaysTheCall
  <2>2. Lacks(req.options.workspace)
      BY <1>3 DEF SaysTheCall, Lacks
  <2>3. QED
      BY <1>3, <2>1, <2>2 DEF SaysTheCall
<1>6. NewRequestInfo(req) = Understood(Told(f, req))
    BY <1>2, <1>4, <1>5, URLRead, ResourceTold
<1>7. FirstVerb("", req.method) = verb
    BY DEF FirstVerb
<1>8. IsKubernetesRequest(req.path) = TRUE
  <2>1. IsKubernetesRequest(req.path) = TRUE \/ IsKubernetesRequest(req.path) = FALSE
      BY DEF IsKubernetesRequest
  <2>2. IsKubernetesRequest(req.path)
      BY <1>2, <1>4, <1>5, KubernetesByPrefix
  <2>3. QED
      BY <2>1, <2>2
<1>9. NamespaceOf(f) = c.ns
    BY <1>1 DEF NamespaceOf
<1> HIDE DEF name, verb
<1>10. Told(f, req) = CallMeaning(c)
  <2>1. Told(f, req) =
           Info(TRUE, "", "schedule.kubesphere.io", "v1alpha1", "", c.ns, "",
                "analysistasks", PartSent(c), c.name, CallVerb(c),
                resolveResourceScope(c.ns, "", ""))
      BY <1>1, <1>5, <1>7, <1>8, <1>9 DEF Told, name
  <2>2. QED
      BY <2>1, CallMeaningIsInfo
<1>11. QED
    BY <1>6, <1>10
=============================================================================
