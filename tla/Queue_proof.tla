---------------------------- MODULE Queue_proof ----------------------------
(***************************************************************************)
(* Lemmas about sequences alone, which the proofs about the program cite.  *)
(* About queues whose entries are watched: where the entries of a set W    *)
(* stand in a queue, what an append, a take and a removal do to them.  And *)
(* about lists of a set in a strict order: there is one, and what comes    *)
(* first of the set begins it.                                             *)
(***************************************************************************)
EXTENDS Integers, Sequences, FiniteSets, FiniteSetTheorems, WellFoundedInduction, TLAPS

\* An entry of W is in the queue; the queue has at most one.
Has(s, W) == \E i \in DOMAIN s : s[i] \in W
Sole(s, W) == \A i, j \in DOMAIN s : s[i] \in W /\ s[j] \in W => i = j

\* A queue of entries of a smaller set is one of entries of the larger set.
LEMMA SeqWiden ==
  ASSUME NEW S, NEW T, S \subseteq T, NEW s \in Seq(S)
  PROVE  s \in Seq(T)
OBVIOUS

\* The empty queue has no entry of W.
LEMMA EmptyHasNone ==
  ASSUME NEW W
  PROVE  ~Has(<<>>, W) /\ Sole(<<>>, W)
BY DEF Has, Sole

\* An append adds its entry and keeps the others.
LEMMA AppendHas ==
  ASSUME NEW S, NEW s \in Seq(S), NEW x \in S, NEW W
  PROVE  Has(Append(s, x), W) <=> Has(s, W) \/ x \in W
<1>1. \A i \in DOMAIN s : Append(s, x)[i] = s[i] /\ i \in DOMAIN Append(s, x)
  OBVIOUS
<1>2. Append(s, x)[Len(s) + 1] = x /\ Len(s) + 1 \in DOMAIN Append(s, x)
  OBVIOUS
<1>3. \A i \in DOMAIN Append(s, x) : i \in DOMAIN s \/ i = Len(s) + 1
  OBVIOUS
<1> QED
  BY <1>1, <1>2, <1>3 DEF Has

\* An append of an entry of W to a queue without one leaves the only one.
LEMMA AppendSole ==
  ASSUME NEW S, NEW s \in Seq(S), NEW x \in S, NEW W,
         Sole(s, W), x \in W => ~Has(s, W)
  PROVE  Sole(Append(s, x), W)
<1>1. \A i \in DOMAIN s : Append(s, x)[i] = s[i]
  OBVIOUS
<1>2. Append(s, x)[Len(s) + 1] = x
  OBVIOUS
<1>3. \A i \in DOMAIN Append(s, x) : i \in DOMAIN s \/ i = Len(s) + 1
  OBVIOUS
<1> QED
  BY <1>1, <1>2, <1>3 DEF Has, Sole

\* What is taken from the front is the entry that leaves.
LEMMA TailHas ==
  ASSUME NEW S, NEW s \in Seq(S), s # <<>>, NEW W
  PROVE  Has(s, W) <=> Head(s) \in W \/ Has(Tail(s), W)
<1>1. 1 \in DOMAIN s /\ s[1] = Head(s)
  OBVIOUS
<1>2. \A i \in DOMAIN Tail(s) : i + 1 \in DOMAIN s /\ Tail(s)[i] = s[i + 1]
  OBVIOUS
<1>3. \A i \in DOMAIN s : i = 1 \/ (i - 1 \in DOMAIN Tail(s) /\ s[i] = Tail(s)[i - 1])
  OBVIOUS
<1> QED
  BY <1>1, <1>2, <1>3 DEF Has

\* When the one entry of W is taken from the front, none is left.
LEMMA TailSole ==
  ASSUME NEW S, NEW s \in Seq(S), s # <<>>, NEW W, Sole(s, W)
  PROVE  Sole(Tail(s), W) /\ (Head(s) \in W => ~Has(Tail(s), W))
<1>1. 1 \in DOMAIN s /\ s[1] = Head(s)
  OBVIOUS
<1>2. \A i \in DOMAIN Tail(s) : i \in Nat \ {0} /\ i + 1 \in DOMAIN s /\ Tail(s)[i] = s[i + 1]
  OBVIOUS
<1>3. ASSUME NEW i \in DOMAIN Tail(s), NEW j \in DOMAIN Tail(s), Tail(s)[i] \in W, Tail(s)[j] \in W
      PROVE  i = j
  <2>1. i + 1 = j + 1
    BY <1>2, <1>3 DEF Sole
  <2> QED
    BY <1>2, <2>1
<1>4. ASSUME Head(s) \in W, NEW i \in DOMAIN Tail(s), Tail(s)[i] \in W
      PROVE  FALSE
  <2>1. 1 = i + 1
    BY <1>1, <1>2, <1>4 DEF Sole
  <2> QED
    BY <1>2, <2>1
<1> QED
  BY <1>3, <1>4 DEF Sole, Has

\* A queue put before another.
LEMMA ConcatType ==
  ASSUME NEW S, NEW s \in Seq(S), NEW t \in Seq(S)
  PROVE  s \o t \in Seq(S) /\ Len(s \o t) = Len(s) + Len(t)
OBVIOUS

\* Two queues joined have what either has.
LEMMA ConcatHas ==
  ASSUME NEW S, NEW s \in Seq(S), NEW t \in Seq(S), NEW W
  PROVE  Has(s \o t, W) <=> Has(s, W) \/ Has(t, W)
<1>1. /\ DOMAIN s = 1..Len(s) /\ DOMAIN t = 1..Len(t)
      /\ DOMAIN (s \o t) = 1..(Len(s) + Len(t)) /\ Len(s) \in Nat /\ Len(t) \in Nat
  OBVIOUS
<1>2. \A i \in DOMAIN s : (s \o t)[i] = s[i]
  OBVIOUS
<1>3. \A i \in DOMAIN t : (s \o t)[Len(s) + i] = t[i]
  OBVIOUS
<1>4. ASSUME NEW i \in DOMAIN (s \o t), (s \o t)[i] \in W
      PROVE  Has(s, W) \/ Has(t, W)
  <2>1. CASE i \in DOMAIN s
    BY <1>2, <1>4, <2>1 DEF Has
  <2>2. CASE i \notin DOMAIN s
    <3>1. i - Len(s) \in DOMAIN t /\ i = Len(s) + (i - Len(s))
      BY <1>1, <2>2
    <3> QED
      BY <1>3, <1>4, <3>1 DEF Has
  <2> QED
    BY <2>1, <2>2
<1>5. Has(s, W) => Has(s \o t, W)
  BY <1>1, <1>2 DEF Has
<1>6. ASSUME NEW i \in DOMAIN t, t[i] \in W
      PROVE  Has(s \o t, W)
  <2>1. Len(s) + i \in DOMAIN (s \o t)
    BY <1>1
  <2> QED
    BY <1>3, <1>6, <2>1 DEF Has
<1> QED
  BY <1>4, <1>5, <1>6 DEF Has

\* Two queues joined have one entry of W, if only one of them had it.
LEMMA ConcatSole ==
  ASSUME NEW S, NEW s \in Seq(S), NEW t \in Seq(S), NEW W,
         Sole(s, W), Sole(t, W), ~(Has(s, W) /\ Has(t, W))
  PROVE  Sole(s \o t, W)
<1>1. /\ DOMAIN s = 1..Len(s) /\ DOMAIN t = 1..Len(t)
      /\ DOMAIN (s \o t) = 1..(Len(s) + Len(t)) /\ Len(s) \in Nat /\ Len(t) \in Nat
  OBVIOUS
<1>2. \A i \in DOMAIN s : (s \o t)[i] = s[i]
  OBVIOUS
<1>3. \A i \in DOMAIN (s \o t) \ DOMAIN s :
        i - Len(s) \in DOMAIN t /\ (s \o t)[i] = t[i - Len(s)]
  <2> SUFFICES ASSUME NEW i \in DOMAIN (s \o t) \ DOMAIN s
               PROVE  i - Len(s) \in DOMAIN t /\ (s \o t)[i] = t[i - Len(s)]
    OBVIOUS
  <2>1. i - Len(s) \in DOMAIN t
    BY <1>1
  <2> QED
    BY <1>1, <2>1
<1> SUFFICES ASSUME NEW i \in DOMAIN (s \o t), NEW j \in DOMAIN (s \o t),
                    (s \o t)[i] \in W, (s \o t)[j] \in W
             PROVE  i = j
  BY DEF Sole
<1>4. CASE i \in DOMAIN s /\ j \in DOMAIN s
  BY <1>2, <1>4 DEF Sole
<1>5. CASE i \notin DOMAIN s /\ j \notin DOMAIN s
  <2>1. i - Len(s) = j - Len(s)
    BY <1>3, <1>5 DEF Sole
  <2> QED
    BY <1>1, <2>1
<1>6. CASE (i \in DOMAIN s) # (j \in DOMAIN s)
  BY <1>2, <1>3, <1>6 DEF Has
<1> QED
  BY <1>4, <1>5, <1>6

\* A queue of one entry, and one whose last entry is dropped.
LEMMA SingleHas ==
  ASSUME NEW x, NEW W
  PROVE  (Has(<<x>>, W) <=> x \in W) /\ Sole(<<x>>, W)
BY DEF Has, Sole

\* What is taken from the back is the entry that leaves.
LEMMA FrontHas ==
  ASSUME NEW S, NEW s \in Seq(S), s # <<>>, NEW W
  PROVE  /\ SubSeq(s, 1, Len(s) - 1) \in Seq(S)
         /\ Has(s, W) <=> s[Len(s)] \in W \/ Has(SubSeq(s, 1, Len(s) - 1), W)
         /\ Sole(s, W) => Sole(SubSeq(s, 1, Len(s) - 1), W)
         /\ Sole(s, W) /\ s[Len(s)] \in W => ~Has(SubSeq(s, 1, Len(s) - 1), W)
<1> DEFINE f == SubSeq(s, 1, Len(s) - 1)
<1>1. /\ f \in Seq(S) /\ Len(s) \in Nat \ {0} /\ DOMAIN s = 1..Len(s)
      /\ DOMAIN f = 1..(Len(s) - 1) /\ \A i \in DOMAIN f : f[i] = s[i]
  OBVIOUS
<1>2. \A i \in DOMAIN s : i = Len(s) \/ i \in DOMAIN f
  BY <1>1
<1>3. \A i \in DOMAIN f : i \in DOMAIN s /\ i # Len(s)
  BY <1>1
<1> HIDE DEF f
<1> QED
  BY <1>1, <1>2, <1>3 DEF Has, Sole, f

\* A queue with at most one entry of W counts one or none.
LEMMA SoleCount ==
  ASSUME NEW s, NEW W, Sole(s, W)
  PROVE  Cardinality({i \in DOMAIN s : s[i] \in W}) = IF Has(s, W) THEN 1 ELSE 0
<1>1. CASE Has(s, W)
  <2>1. PICK i \in DOMAIN s : s[i] \in W
    BY <1>1 DEF Has
  <2>2. {j \in DOMAIN s : s[j] \in W} = {i}
    BY <2>1 DEF Sole
  <2> QED
    BY <1>1, <2>2, FS_Singleton
<1>2. CASE ~Has(s, W)
  <2>1. {j \in DOMAIN s : s[j] \in W} = {}
    BY <1>2 DEF Has
  <2> QED
    BY <1>2, <2>1, FS_EmptySet
<1> QED
  BY <1>1, <1>2

\* A queue cut in two after its first k entries.
LEMMA CutHas ==
  ASSUME NEW S, NEW s \in Seq(S), NEW k \in 0 .. Len(s), NEW W
  PROVE  /\ SubSeq(s, 1, k) \in Seq(S) /\ SubSeq(s, k + 1, Len(s)) \in Seq(S)
         /\ Len(SubSeq(s, 1, k)) = k
         /\ Has(s, W) <=> Has(SubSeq(s, 1, k), W) \/ Has(SubSeq(s, k + 1, Len(s)), W)
<1> DEFINE a == SubSeq(s, 1, k)
           b == SubSeq(s, k + 1, Len(s))
<1>1. /\ Len(s) \in Nat /\ DOMAIN s = 1 .. Len(s)
      /\ a \in Seq(S) /\ Len(a) = k /\ DOMAIN a = 1 .. k
      /\ \A i \in 1 .. k : a[i] = s[i]
  OBVIOUS
<1>2. /\ b \in Seq(S) /\ DOMAIN b = 1 .. (Len(s) - k)
      /\ \A i \in 1 .. (Len(s) - k) : b[i] = s[k + i]
  OBVIOUS
<1> HIDE DEF a, b
<1>3. ASSUME NEW i \in DOMAIN s, s[i] \in W
      PROVE  Has(a, W) \/ Has(b, W)
  <2>1. CASE i <= k
    BY <1>1, <1>3, <2>1 DEF Has
  <2>2. CASE i > k
    <3>1. i - k \in 1 .. (Len(s) - k) /\ k + (i - k) = i
      BY <1>1, <2>2
    <3> QED
      BY <1>2, <1>3, <3>1 DEF Has
  <2> QED
    BY <1>1, <2>1, <2>2
<1>4. Has(a, W) => Has(s, W)
  BY <1>1 DEF Has
<1>5. ASSUME NEW i \in DOMAIN b, b[i] \in W
      PROVE  Has(s, W)
  <2>1. k + i \in DOMAIN s
    BY <1>1, <1>2
  <2> QED
    BY <1>2, <1>5, <2>1 DEF Has
<1>6. Has(s, W) <=> Has(a, W) \/ Has(b, W)
  BY <1>3, <1>4, <1>5 DEF Has
<1> QED
  BY <1>1, <1>2, <1>6 DEF a, b

\* A queue without its entry at i.
LEMMA WithoutHas ==
  ASSUME NEW S, NEW s \in Seq(S), NEW i \in 1 .. Len(s), NEW W
  PROVE  /\ SubSeq(s, 1, i - 1) \o SubSeq(s, i + 1, Len(s)) \in Seq(S)
         /\ Len(SubSeq(s, 1, i - 1) \o SubSeq(s, i + 1, Len(s))) = Len(s) - 1
         /\ Has(s, W) <=> \/ s[i] \in W
                          \/ Has(SubSeq(s, 1, i - 1) \o SubSeq(s, i + 1, Len(s)), W)
<1> DEFINE a == SubSeq(s, 1, i - 1)
           b == SubSeq(s, i, Len(s))
           c == SubSeq(s, i + 1, Len(s))
<1>1. i - 1 \in 0 .. Len(s) /\ (i - 1) + 1 = i
  OBVIOUS
<1>2. /\ a \in Seq(S) /\ b \in Seq(S) /\ Len(a) = i - 1
      /\ Has(s, W) <=> Has(a, W) \/ Has(b, W)
  BY <1>1, CutHas
<1>3. b # <<>> /\ Head(b) = s[i] /\ Tail(b) = c /\ Len(c) = Len(s) - i /\ c \in Seq(S)
  OBVIOUS
<1> HIDE DEF a, b, c
<1>4. Has(b, W) <=> s[i] \in W \/ Has(c, W)
  BY <1>2, <1>3, TailHas
<1>5. a \o c \in Seq(S) /\ Len(a \o c) = Len(s) - 1
  <2>1. a \o c \in Seq(S) /\ Len(a \o c) = Len(a) + Len(c)
    BY <1>2, <1>3, ConcatType
  <2>2. Len(s) \in Nat /\ i \in Nat /\ (i - 1) + (Len(s) - i) = Len(s) - 1
    OBVIOUS
  <2> QED
    BY <1>2, <1>3, <2>1, <2>2
<1>6. Has(a \o c, W) <=> Has(a, W) \/ Has(c, W)
  BY <1>2, <1>3, ConcatHas
<1> QED
  BY <1>2, <1>4, <1>5, <1>6 DEF a, c

\* How many entries of W a queue has: what appends and takes do to the number.
Tally(s, W) == Cardinality({i \in DOMAIN s : s[i] \in W})

\* A queue has finitely many entries of W.
LEMMA TallyType ==
  ASSUME NEW S, NEW s \in Seq(S), NEW W
  PROVE  IsFiniteSet({i \in DOMAIN s : s[i] \in W}) /\ Tally(s, W) \in Nat
<1>1. IsFiniteSet(1 .. Len(s)) /\ DOMAIN s = 1 .. Len(s)
  <2>1. Len(s) \in Nat /\ DOMAIN s = 1 .. Len(s)
    OBVIOUS
  <2> QED
    BY <2>1, FS_Interval
<1>2. {i \in DOMAIN s : s[i] \in W} \in SUBSET (1 .. Len(s))
  BY <1>1
<1>3. IsFiniteSet({i \in DOMAIN s : s[i] \in W})
  BY <1>1, <1>2, FS_Subset
<1> QED
  BY <1>3, FS_CardinalityType DEF Tally

\* The empty queue has none.
LEMMA EmptyTally ==
  ASSUME NEW W
  PROVE  Tally(<<>>, W) = 0
<1>1. {i \in DOMAIN <<>> : <<>>[i] \in W} = {}
  OBVIOUS
<1> QED
  BY <1>1, FS_EmptySet DEF Tally

\* An append adds one, or none.
LEMMA AppendTally ==
  ASSUME NEW S, NEW s \in Seq(S), NEW x \in S, NEW W
  PROVE  Tally(Append(s, x), W) = IF x \in W THEN Tally(s, W) + 1 ELSE Tally(s, W)
<1> DEFINE old == {i \in DOMAIN s : s[i] \in W}
           new == {i \in DOMAIN Append(s, x) : Append(s, x)[i] \in W}
<1>1. /\ DOMAIN Append(s, x) = DOMAIN s \cup {Len(s) + 1} /\ Len(s) + 1 \notin DOMAIN s
      /\ \A i \in DOMAIN s : Append(s, x)[i] = s[i]
      /\ Append(s, x)[Len(s) + 1] = x
  OBVIOUS
<1>2. IsFiniteSet(old)
  BY TallyType
<1>3. CASE x \in W
  <2>1. new = old \cup {Len(s) + 1} /\ Len(s) + 1 \notin old
    BY <1>1, <1>3
  <2> QED
    BY <1>2, <1>3, <2>1, FS_AddElement DEF Tally
<1>4. CASE x \notin W
  <2>1. new = old
    BY <1>1, <1>4
  <2> QED
    BY <1>4, <2>1 DEF Tally
<1> QED
  BY <1>3, <1>4

\* What is taken from the front is counted no more.
LEMMA TailTally ==
  ASSUME NEW S, NEW s \in Seq(S), s # <<>>, NEW W
  PROVE  Tally(Tail(s), W) + (IF Head(s) \in W THEN 1 ELSE 0) <= Tally(s, W)
<1> DEFINE old == {i \in DOMAIN s : s[i] \in W}
           new == {i \in DOMAIN Tail(s) : Tail(s)[i] \in W}
           f == [i \in new |-> i + 1]
<1>1. /\ \A i \in DOMAIN Tail(s) : /\ i + 1 \in DOMAIN s /\ i + 1 # 1 /\ i \in Nat
                                   /\ Tail(s)[i] = s[i + 1]
      /\ 1 \in DOMAIN s /\ Head(s) = s[1]
  OBVIOUS
<1>2. IsFiniteSet(old) /\ Cardinality(old) \in Nat
  BY TallyType DEF Tally
<1>3. /\ IsFiniteSet(old \ {1})
      /\ Cardinality(old \ {1}) = IF Head(s) \in W THEN Cardinality(old) - 1 ELSE Cardinality(old)
  <2>1. 1 \in old <=> Head(s) \in W
    BY <1>1
  <2> HIDE DEF old
  <2> QED
    BY <1>2, <2>1, FS_RemoveElement
<1>4. f \in Injection(new, old \ {1})
  <2>1. \A i \in new : i \in Nat /\ i + 1 \in old \ {1}
    BY <1>1
  <2>2. f \in [new -> old \ {1}]
    BY <2>1
  <2>3. \A i, j \in new : f[i] = f[j] => i = j
    BY <2>1
  <2> QED
    BY <2>2, <2>3 DEF Injection, IsInjective
<1>5. Cardinality(new) <= Cardinality(old \ {1})
  <2> HIDE DEF old, new, f
  <2> QED
    BY <1>3, <1>4, FS_Injection
<1>6. Cardinality(new) \in Nat
  <2>1. Tail(s) \in Seq(S)
    OBVIOUS
  <2> QED
    BY <2>1, TallyType DEF Tally
<1>7. Tally(Tail(s), W) = Cardinality(new) /\ Tally(s, W) = Cardinality(old)
  BY DEF Tally
<1> HIDE DEF old, new
<1> QED
  BY <1>2, <1>3, <1>5, <1>6, <1>7

-----------------------------------------------------------------------------
(* Lists of a set in a strict order                                        *)

\* R, a set of pairs, is a strict total order of S.
StrictOrder(R, S) ==
    /\ \A p \in S : <<p, p>> \notin R
    /\ \A p, q, r \in S : <<p, q>> \in R /\ <<q, r>> \in R => <<p, r>> \in R
    /\ \A p, q \in S : p = q \/ <<p, q>> \in R \/ <<q, p>> \in R

\* The sequence s lists the set S in the order R: every member, each before the later ones.
Lists(s, S, R) ==
    /\ s \in Seq(S)
    /\ \A p \in S : \E i \in DOMAIN s : s[i] = p
    /\ \A i, j \in DOMAIN s : i < j => <<s[i], s[j]>> \in R

\* U is a part of M that holds, with each of its members, all of M that comes before it.
DownIn(U, M, R) == U \subseteq M /\ \A p \in U, q \in M : <<q, p>> \in R => q \in U

\* The members of a finite set by their rank: how many of the set come before each.
Ranked(S, R) ==
    [i \in 1 .. Cardinality(S) |->
        CHOOSE p \in S : Cardinality({q \in S : <<q, p>> \in R}) = i - 1]

\* A set of naturals that is not empty has a least member.
LEMMA NatMin ==
  ASSUME NEW T \in SUBSET Nat, T # {}
  PROVE  \E n \in T : \A m \in T : n <= m
<1> DEFINE R == {ij \in Nat \X Nat : ij[1] < ij[2]}
<1>1. IsWellFoundedOn(R, Nat)
  BY NatLessThanWellFounded DEF OpToRel
<1>2. PICK n \in T : \A m \in T : ~(<<m, n>> \in R)
  BY <1>1, WFMin
<1>3. ASSUME NEW m \in T PROVE n <= m
  <2>1. m \in Nat /\ n \in Nat
    OBVIOUS
  <2>2. <<m, n>> \in Nat \X Nat /\ <<m, n>>[1] = m /\ <<m, n>>[2] = n
    BY <2>1
  <2>3. <<m, n>> \in R <=> m < n
    BY <2>2
  <2> HIDE DEF R
  <2> QED
    BY <1>2, <2>1, <2>3
<1> QED
  BY <1>3

\* Ranking a finite set by a strict order lists it: no two members have one rank, and
\* every rank below the size of the set is the rank of a member.
LEMMA RankedLists ==
  ASSUME NEW S, IsFiniteSet(S), NEW R, StrictOrder(R, S)
  PROVE  Lists(Ranked(S, R), S, R) /\ Len(Ranked(S, R)) = Cardinality(S)
<1> DEFINE before(p) == {q \in S : <<q, p>> \in R}
           c(p) == Cardinality(before(p))
           n == Cardinality(S)
<1>1. n \in Nat
  BY FS_CardinalityType
<1>2. ASSUME NEW p \in S
      PROVE  IsFiniteSet(before(p)) /\ c(p) \in Nat /\ c(p) < n
  <2>1. before(p) \in SUBSET S /\ p \notin before(p)
    BY DEF StrictOrder
  <2>2. IsFiniteSet(before(p)) /\ c(p) <= n /\ (n = c(p) => S = before(p))
    BY <2>1, FS_Subset
  <2>3. c(p) \in Nat
    BY <2>2, FS_CardinalityType
  <2> QED
    BY <1>1, <2>1, <2>2, <2>3
<1>3. ASSUME NEW p \in S, NEW q \in S, <<p, q>> \in R
      PROVE  c(p) < c(q)
  <2>1. before(p) \in SUBSET before(q) /\ p \in before(q) /\ p \notin before(p)
    BY <1>3 DEF StrictOrder
  <2>2. c(p) <= c(q) /\ (c(q) = c(p) => before(q) = before(p))
    BY <1>2, <2>1, FS_Subset
  <2>3. c(p) \in Nat /\ c(q) \in Nat /\ c(p) # c(q)
    BY <1>2, <2>1, <2>2
  <2> QED
    BY <2>2, <2>3
<1>4. Ranked(S, R) = [i \in 1 .. n |-> CHOOSE p \in S : c(p) = i - 1]
  BY DEF Ranked
<1>5. /\ \A p \in S : c(p) \in Nat /\ c(p) < n
      /\ \A p, q \in S : <<p, q>> \in R => c(p) < c(q)
  BY <1>2, <1>3
<1>6. \A p, q \in S : p = q \/ <<p, q>> \in R \/ <<q, p>> \in R
  BY DEF StrictOrder
<1> DEFINE rank == [p \in S |-> c(p)]
<1>7. \A p \in S : rank[p] = c(p)
  OBVIOUS
<1> HIDE DEF before, c, n, rank
<1>8. ASSUME NEW p \in S, NEW q \in S, rank[p] = rank[q] PROVE p = q
  <2>1. c(p) = c(q) /\ c(p) \in Nat
    BY <1>5, <1>7, <1>8
  <2>2. ~(c(p) < c(q)) /\ ~(c(q) < c(p))
    BY <2>1
  <2> QED
    BY <1>5, <1>6, <2>2
<1>9. ASSUME NEW i \in 1 .. n PROVE \E p \in S : c(p) = i - 1
  <2> DEFINE f == [p \in S |-> rank[p] + 1]
  <2>1. f \in [S -> 1 .. n]
    BY <1>1, <1>5, <1>7
  <2>2. ASSUME NEW p \in S, NEW q \in S, f[p] = f[q] PROVE p = q
    <3>1. rank[p] + 1 = rank[q] + 1 /\ rank[p] \in Nat /\ rank[q] \in Nat
      BY <2>2, <1>5, <1>7
    <3> QED
      BY <3>1, <1>8
  <2>3. f \in Injection(S, 1 .. n)
    BY <2>1, <2>2 DEF Injection, IsInjective
  <2>4. IsFiniteSet(1 .. n) /\ Cardinality(1 .. n) = n
    BY <1>1, FS_Interval
  <2>5. f \in Surjection(S, 1 .. n)
    BY <2>3, <2>4, FS_Injection DEF n
  <2>6. PICK p \in S : f[p] = i
    BY <2>5 DEF Surjection
  <2> QED
    BY <2>6, <1>5, <1>7
<1> DEFINE s == Ranked(S, R)
<1>10. \A i \in 1 .. n : s[i] \in S /\ rank[s[i]] = i - 1
  BY <1>4, <1>7, <1>9
<1>11. s \in Seq(S) /\ DOMAIN s = 1 .. n /\ Len(s) = n
  BY <1>1, <1>4, <1>10
<1> HIDE DEF s
<1>12. ASSUME NEW p \in S PROVE \E i \in 1 .. n : s[i] = p
  <2>1. rank[p] \in Nat /\ rank[p] < n
    BY <1>5, <1>7
  <2>2. PICK k \in 1 .. n : k - 1 = rank[p]
    BY <1>1, <2>1
  <2>3. s[k] \in S /\ rank[s[k]] = rank[p]
    BY <1>10, <2>2
  <2> QED
    BY <1>8, <2>2, <2>3
<1>13. ASSUME NEW i \in 1 .. n, NEW j \in 1 .. n, i < j
       PROVE  <<s[i], s[j]>> \in R
  <2>1. s[i] \in S /\ s[j] \in S /\ rank[s[i]] = i - 1 /\ rank[s[j]] = j - 1
    BY <1>10
  <2>2. i \in Int /\ j \in Int
    BY <1>1
  <2>3. ~(c(s[j]) < c(s[i])) /\ s[i] # s[j]
    BY <1>7, <1>13, <2>1, <2>2
  <2> QED
    BY <1>5, <1>6, <2>1, <2>3
<1> QED
  BY <1>11, <1>12, <1>13 DEF Lists, n, s

\* What it is to list a set, with the places spelled out.
LEMMA ListsHas ==
  ASSUME NEW S, NEW R, NEW s, Lists(s, S, R)
  PROVE  /\ Len(s) \in Nat /\ DOMAIN s = 1 .. Len(s)
         /\ s \in Seq(S)
         /\ \A i \in 1 .. Len(s) : s[i] \in S
         /\ \A p \in S : \E i \in 1 .. Len(s) : s[i] = p
         /\ \A i, j \in 1 .. Len(s) : i < j => <<s[i], s[j]>> \in R
<1>1. /\ s \in Seq(S)
      /\ \A p \in S : \E i \in DOMAIN s : s[i] = p
      /\ \A i, j \in DOMAIN s : i < j => <<s[i], s[j]>> \in R
  BY DEF Lists
<1>2. Len(s) \in Nat /\ DOMAIN s = 1 .. Len(s) /\ \A i \in 1 .. Len(s) : s[i] \in S
  BY <1>1
<1> QED
  BY <1>1, <1>2

\* A list in a strict order repeats nothing.
LEMMA ListsInjective ==
  ASSUME NEW S, NEW R, StrictOrder(R, S), NEW s, Lists(s, S, R)
  PROVE  \A i, j \in DOMAIN s : s[i] = s[j] => i = j
<1>1. /\ DOMAIN s \subseteq Int /\ \A i \in DOMAIN s : s[i] \in S
      /\ \A i, j \in DOMAIN s : i < j => <<s[i], s[j]>> \in R
  BY DEF Lists
<1>2. \A p \in S : <<p, p>> \notin R
  BY DEF StrictOrder
<1>3. \A i, j \in DOMAIN s : i < j \/ j < i \/ i = j
  BY <1>1
<1> QED
  BY <1>1, <1>2, <1>3

\* The list of what comes first of a set begins every list of the set; so the list of a set
\* in an order is the only one.
LEMMA ListsFirst ==
  ASSUME NEW M, NEW R, StrictOrder(R, M), NEW t, Lists(t, M, R),
         NEW U, DownIn(U, M, R), NEW s, Lists(s, U, R)
  PROVE  Len(s) <= Len(t) /\ \A i \in 1 .. Len(s) : s[i] = t[i]
<1> DEFINE T == {i \in 1 .. Len(s) : ~(i <= Len(t) /\ s[i] = t[i])}
<1>1. /\ Len(s) \in Nat /\ Len(t) \in Nat /\ DOMAIN s = 1 .. Len(s) /\ DOMAIN t = 1 .. Len(t)
      /\ \A i \in 1 .. Len(s) : s[i] \in U
      /\ \A i \in 1 .. Len(t) : t[i] \in M
      /\ U \subseteq M
  BY DEF Lists, DownIn
<1>2. T = {}
  <2> SUFFICES ASSUME T # {} PROVE FALSE
    OBVIOUS
  <2>1. T \in SUBSET Nat
    BY <1>1
  <2>2. PICK i \in T : \A m \in T : i <= m
    BY <2>1, NatMin
  <2>3. i \in 1 .. Len(s) /\ \A j \in 1 .. i - 1 : j <= Len(t) /\ s[j] = t[j]
    BY <1>1, <2>2
  <2>4. PICK k \in 1 .. Len(t) : t[k] = s[i]
    BY <1>1, <2>3 DEF Lists
  <2>5. k >= i
    <3> SUFFICES ASSUME k < i PROVE FALSE
      BY <1>1, <2>3, <2>4
    <3>1. k \in 1 .. i - 1 /\ k \in 1 .. Len(s)
      BY <1>1, <2>3, <2>4
    <3>2. s[k] = s[i] /\ <<s[k], s[i]>> \in R
      BY <1>1, <2>3, <2>4, <3>1 DEF Lists
    <3> QED
      BY <1>1, <2>3, <3>2 DEF StrictOrder
  <2>6. i \in 1 .. Len(t) /\ t[i] \in M /\ s[i] \in U
    BY <1>1, <2>3, <2>4, <2>5
  <2>7. CASE k > i
    <3>1. <<t[i], s[i]>> \in R
      BY <1>1, <2>4, <2>6, <2>7 DEF Lists
    <3>2. t[i] \in U
      BY <2>6, <3>1 DEF DownIn
    <3>3. PICK m \in 1 .. Len(s) : s[m] = t[i]
      BY <1>1, <3>2 DEF Lists
    <3>4. m < i
      <4>1. \A a, b \in 1 .. Len(s) : a < b => <<s[a], s[b]>> \in R
        BY <1>1 DEF Lists
      <4>2. ~(<<s[i], s[m]>> \in R) /\ s[i] # s[m]
        BY <1>1, <2>6, <3>1, <3>3 DEF StrictOrder
      <4> QED
        BY <4>1, <4>2, <2>3, <3>3, <1>1
    <3>5. t[m] = t[i] /\ m \in 1 .. Len(t)
      BY <1>1, <2>3, <3>3, <3>4
    <3>6. <<t[m], t[i]>> \in R
      BY <1>1, <2>6, <3>4, <3>5 DEF Lists
    <3> QED
      BY <2>6, <3>5, <3>6 DEF StrictOrder
  <2> QED
    BY <1>1, <2>2, <2>3, <2>4, <2>5, <2>7
<1>3. \A i \in 1 .. Len(s) : i <= Len(t) /\ s[i] = t[i]
  BY <1>2
<1> QED
  BY <1>1, <1>3

\* A list in an order is one in every order that agrees with it.
LEMMA ListsSame ==
  ASSUME NEW S, NEW R, NEW s, Lists(s, S, R), NEW Q,
         \A p, q \in S : <<p, q>> \in R => <<p, q>> \in Q
  PROVE  Lists(s, S, Q)
<1>1. /\ s \in Seq(S) /\ \A i \in DOMAIN s : s[i] \in S
      /\ \A p \in S : \E i \in DOMAIN s : s[i] = p
      /\ \A i, j \in DOMAIN s : i < j => <<s[i], s[j]>> \in R
  BY DEF Lists
<1>2. \A i, j \in DOMAIN s : i < j => <<s[i], s[j]>> \in Q
  BY <1>1
<1> QED
  BY <1>1, <1>2 DEF Lists

\* A strict order of a set is one of each of its parts.
LEMMA OrderOfPart ==
  ASSUME NEW S, NEW R, StrictOrder(R, S), NEW T \in SUBSET S
  PROVE  StrictOrder(R, T)
BY DEF StrictOrder

\* The first n of a list are the list of a part of the set that comes first.
LEMMA ListsCut ==
  ASSUME NEW S, NEW R, StrictOrder(R, S), NEW s, Lists(s, S, R),
         NEW n \in 0 .. Len(s)
  PROVE  LET U == {s[i] : i \in 1 .. n} IN
         /\ Lists(SubSeq(s, 1, n), U, R) /\ DownIn(U, S, R)
         /\ n = Len(s) => U = S
<1> DEFINE U == {s[i] : i \in 1 .. n}
           t == SubSeq(s, 1, n)
<1>1. /\ s \in Seq(S) /\ Len(s) \in Nat /\ DOMAIN s = 1 .. Len(s)
      /\ \A i \in DOMAIN s : s[i] \in S
      /\ \A p \in S : \E i \in DOMAIN s : s[i] = p
      /\ \A i, j \in DOMAIN s : i < j => <<s[i], s[j]>> \in R
  BY DEF Lists
<1>2. t \in Seq(S) /\ DOMAIN t = 1 .. n /\ Len(t) = n /\ \A i \in 1 .. n : t[i] = s[i]
  BY <1>1
<1>3. \A i \in 1 .. n : i \in DOMAIN s
  BY <1>1
<1>4. t = [i \in 1 .. n |-> t[i]] /\ \A i \in 1 .. n : t[i] \in U
  BY <1>2
<1>5. t \in Seq(U)
  BY <1>1, <1>4
<1>6. Lists(t, U, R)
  BY <1>1, <1>2, <1>3, <1>5 DEF Lists
<1>7. ASSUME NEW p \in U, NEW q \in S, <<q, p>> \in R PROVE q \in U
  <2>1. PICK i \in 1 .. n : p = s[i]
    OBVIOUS
  <2>2. PICK j \in DOMAIN s : s[j] = q
    BY <1>1
  <2>3. i \in DOMAIN s /\ i # j /\ ~(i < j)
    BY <1>1, <1>3, <1>7, <2>1, <2>2 DEF StrictOrder
  <2>4. j \in 1 .. n
    BY <1>1, <2>1, <2>2, <2>3
  <2> QED
    BY <2>2, <2>4
<1>8. U \subseteq S
  BY <1>1, <1>3
<1>9. n = Len(s) => U = S
  BY <1>1
<1> HIDE DEF U, t
<1> QED
  BY <1>6, <1>7, <1>8, <1>9 DEF DownIn, U, t

\* The list of a set and that of another that comes after it, joined, list both.
LEMMA ListsJoin ==
  ASSUME NEW R, NEW S, NEW s, Lists(s, S, R), NEW T, NEW t, Lists(t, T, R),
         \A p \in S, q \in T : <<p, q>> \in R
  PROVE  Lists(s \o t, S \cup T, R) /\ Len(s \o t) = Len(s) + Len(t)
<1> DEFINE m == Len(s)
           n == Len(t)
           c == s \o t
<1>1. /\ m \in Nat /\ DOMAIN s = 1 .. m /\ \A i \in 1 .. m : s[i] \in S
      /\ \A p \in S : \E i \in 1 .. m : s[i] = p
      /\ \A i, j \in 1 .. m : i < j => <<s[i], s[j]>> \in R
  BY ListsHas
<1>2. /\ n \in Nat /\ DOMAIN t = 1 .. n /\ \A i \in 1 .. n : t[i] \in T
      /\ \A p \in T : \E i \in 1 .. n : t[i] = p
      /\ \A i, j \in 1 .. n : i < j => <<t[i], t[j]>> \in R
  BY ListsHas
<1>3. /\ DOMAIN c = 1 .. m + n /\ Len(c) = m + n /\ c \in Seq(S \cup T)
      /\ \A i \in 1 .. m : c[i] = s[i]
      /\ \A i \in m + 1 .. m + n : c[i] = t[i - m]
  BY DEF Lists
<1> HIDE DEF m, n, c
<1>4. \A i \in 1 .. m + n : i \in 1 .. m \/ (i \in m + 1 .. m + n /\ i - m \in 1 .. n)
  BY <1>1, <1>2
<1>5. ASSUME NEW p \in S \cup T PROVE \E i \in 1 .. m + n : c[i] = p
  <2>1. CASE p \in S
    <3>1. PICK i \in 1 .. m : s[i] = p
      BY <1>1, <2>1
    <3> QED
      BY <3>1, <1>1, <1>2, <1>3
  <2>2. CASE p \in T
    <3>1. PICK i \in 1 .. n : t[i] = p
      BY <1>2, <2>2
    <3>2. m \in Nat /\ n \in Nat
      BY <1>1, <1>2
    <3>3. i + m \in m + 1 .. m + n /\ (i + m) - m = i /\ i + m \in 1 .. m + n
      BY <3>2
    <3>4. c[i + m] = t[i]
      BY <1>3, <3>3
    <3> QED
      BY <3>1, <3>3, <3>4
  <2> QED
    BY <2>1, <2>2
<1>6. ASSUME NEW i \in 1 .. m + n, NEW j \in 1 .. m + n, i < j
      PROVE  <<c[i], c[j]>> \in R
  <2>1. CASE j \in 1 .. m
    BY <1>1, <1>3, <1>6, <2>1
  <2>2. CASE i \in 1 .. m /\ j \in m + 1 .. m + n
    BY <1>1, <1>2, <1>3, <1>4, <2>2
  <2>3. CASE i \in m + 1 .. m + n
    <3>1. j \in m + 1 .. m + n /\ i - m \in 1 .. n /\ j - m \in 1 .. n /\ i - m < j - m
      BY <1>1, <1>2, <1>6, <2>3
    <3> QED
      BY <1>2, <1>3, <2>3, <3>1
  <2> QED
    BY <1>4, <2>1, <2>2, <2>3
<1> QED
  BY <1>3, <1>5, <1>6 DEF Lists, m, n, c

\* A sequence without repeats lists the set of its entries, in the order it has them.
LEMMA InjectiveLists ==
  ASSUME NEW S, NEW s \in Seq(S), \A i, j \in DOMAIN s : s[i] = s[j] => i = j
  PROVE  LET U == {s[i] : i \in DOMAIN s}
             R == {pq \in U \X U : \E i, j \in DOMAIN s : i < j /\ pq = <<s[i], s[j]>>}
         IN  StrictOrder(R, U) /\ Lists(s, U, R)
<1> DEFINE U == {s[i] : i \in DOMAIN s}
           R == {pq \in U \X U : \E i, j \in DOMAIN s : i < j /\ pq = <<s[i], s[j]>>}
<1>1. DOMAIN s = 1 .. Len(s) /\ Len(s) \in Nat
  OBVIOUS
<1>2. ASSUME NEW i \in DOMAIN s, NEW j \in DOMAIN s
      PROVE  <<s[i], s[j]>> \in R <=> i < j
  <2>1. ASSUME i < j PROVE <<s[i], s[j]>> \in R
    BY <2>1
  <2>2. ASSUME <<s[i], s[j]>> \in R PROVE i < j
    <3>1. PICK k \in DOMAIN s, l \in DOMAIN s : k < l /\ <<s[i], s[j]>> = <<s[k], s[l]>>
      BY <2>2
    <3>2. k = i /\ l = j
      BY <3>1
    <3> QED
      BY <3>1, <3>2
  <2> QED
    BY <2>1, <2>2
<1> HIDE DEF R
<1>3. \A i, j \in DOMAIN s : i = j \/ i < j \/ j < i
  BY <1>1
<1>4. \A i, j, k \in DOMAIN s : i < j /\ j < k => i < k
  BY <1>1
<1>5. \A i \in DOMAIN s : ~(i < i)
  BY <1>1
<1>6. StrictOrder(R, U)
  <2>1. \A p \in U : <<p, p>> \notin R
    BY <1>2, <1>5
  <2>2. ASSUME NEW p \in U, NEW q \in U, NEW r \in U, <<p, q>> \in R, <<q, r>> \in R
        PROVE  <<p, r>> \in R
    <3>1. PICK i \in DOMAIN s, j \in DOMAIN s, k \in DOMAIN s : p = s[i] /\ q = s[j] /\ r = s[k]
      OBVIOUS
    <3> QED
      BY <3>1, <2>2, <1>2, <1>4
  <2>3. ASSUME NEW p \in U, NEW q \in U PROVE p = q \/ <<p, q>> \in R \/ <<q, p>> \in R
    <3>1. PICK i \in DOMAIN s, j \in DOMAIN s : p = s[i] /\ q = s[j]
      OBVIOUS
    <3> QED
      BY <3>1, <1>2, <1>3
  <2> HIDE DEF U
  <2> QED
    BY <2>1, <2>2, <2>3 DEF StrictOrder
<1>7. s \in Seq(U)
  OBVIOUS
<1>8. Lists(s, U, R)
  BY <1>2, <1>7 DEF Lists
<1> QED
  BY <1>6, <1>8 DEF R

\* What holds of 0, and of each number up to n when it holds of the one before, holds of all
\* of them.
LEMMA UpTo ==
  ASSUME NEW n \in Nat, NEW Good \in SUBSET (0 .. n), 0 \in Good,
         \A k \in 1 .. n : k - 1 \in Good => k \in Good
  PROVE  \A k \in 0 .. n : k \in Good
<1> DEFINE T == {k \in 0 .. n : k \notin Good}
<1> SUFFICES ASSUME T # {} PROVE FALSE
  OBVIOUS
<1>1. T \in SUBSET Nat
  OBVIOUS
<1>2. PICK k \in T : \A m \in T : k <= m
  <2> HIDE DEF T
  <2> QED
    BY <1>1, NatMin
<1>3. k \in 0 .. n /\ k \notin Good /\ k # 0
  OBVIOUS
<1>4. k - 1 \in 0 .. n /\ k \in 1 .. n /\ ~(k <= k - 1)
  BY <1>3
<1>5. k - 1 \in Good
  BY <1>2, <1>4
<1> QED
  BY <1>3, <1>4, <1>5

\* The places up to k are those before it, and k.
LEMMA OneMore ==
  ASSUME NEW n \in Nat, NEW k \in 1 .. n
  PROVE  1 .. k = (1 .. k - 1) \cup {k} /\ k - 1 \in 0 .. n
OBVIOUS

\* What a list has listed before its first place, and at its last.
LEMMA ListedSoFar ==
  ASSUME NEW S, NEW R, NEW s, Lists(s, S, R)
  PROVE  {s[i] : i \in 1 .. 0} = {} /\ {s[i] : i \in 1 .. Len(s)} = S
<1>1. /\ \A i \in 1 .. Len(s) : s[i] \in S
      /\ \A p \in S : \E i \in 1 .. Len(s) : s[i] = p
  BY ListsHas
<1>2. 1 .. 0 = {}
  OBVIOUS
<1> QED
  BY <1>1, <1>2

\* Appending to a list what comes after all of it lists one more.
LEMMA ListsAppend ==
  ASSUME NEW R, NEW S, NEW s, Lists(s, S, R), NEW x, \A p \in S : <<p, x>> \in R
  PROVE  Lists(Append(s, x), S \cup {x}, R) /\ Len(Append(s, x)) = Len(s) + 1
<1>1. Lists(<<x>>, {x}, R) /\ Len(<<x>>) = 1
  BY DEF Lists
<1>2. Append(s, x) = s \o <<x>>
  BY DEF Lists
<1>3. \A p \in S, q \in {x} : <<p, q>> \in R
  OBVIOUS
<1> QED
  BY <1>1, <1>2, <1>3, ListsJoin

\* The empty sequence lists the empty set, in any order.
LEMMA EmptyLists == ASSUME NEW R PROVE Lists(<<>>, {}, R)
BY DEF Lists

=============================================================================
